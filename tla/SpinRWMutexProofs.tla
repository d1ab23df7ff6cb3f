------------------------- MODULE SpinRWMutexProofs --------------------------
(***************************************************************************)
(* Proofs about SpinRWMutex for any finite set of threads smaller than the *)
(* writer bit: the reader/writer exclusion, the accounting of the word,    *)
(* and the refinement of RWLock.                                           *)
(***************************************************************************)
EXTENDS SpinRWMutex, FiniteSetTheorems, TLAPS

\* The threads that have counted themselves in the low bits of the word.
Counted == Readers \union At("undo")

\* A thread moving between two locations leaves the others where they are.
LEMMA AtAfterGo ==
    ASSUME NEW t \in Threads, NEW from, NEW to, from # to,
           pc \in [Threads -> Locations], Go(t, from, to)
    PROVE  /\ t \in At(from)
           /\ At(from)' = At(from) \ {t}
           /\ At(to)' = At(to) \union {t}
           /\ \A loc : loc # from /\ loc # to => At(loc)' = At(loc)
           /\ \A loc : loc # from => t \notin At(loc)
  BY DEF At, Go

LEMMA CountedFinite ==
    /\ IsFiniteSet(Counted)
    /\ Cardinality(Counted) \in 0..(WRITER - 1)
  <1>1. Counted \subseteq Threads
    BY DEF Counted, Readers, At
  <1>2. /\ IsFiniteSet(Counted)
        /\ Cardinality(Counted) \in Nat
        /\ Cardinality(Threads) \in Nat
        /\ Cardinality(Counted) <= Cardinality(Threads)
    BY <1>1, ThreadsAssumption, FS_Subset, FS_CardinalityType
  <1> QED
    BY <1>2, ThreadsAssumption

\* The writer bit is set exactly while a thread is writing.
LEMMA WriterBit ==
    ASSUME WordAccounts
    PROVE  /\ HasWriter(m_bits) <=> Writers # {}
           /\ m_bits = 0 => Writers = {} /\ Counted = {}
  <1>1. Cardinality(Counted) \in 0..(WRITER - 1) /\ IsFiniteSet(Counted)
    BY CountedFinite
  <1>2. m_bits = Cardinality(Counted) + (IF Writers = {} THEN 0 ELSE WRITER)
    BY DEF WordAccounts, Counted
  <1>3. Cardinality(Counted) = 0 => Counted = {}
    BY <1>1, FS_EmptySet
  <1> QED
    BY <1>1, <1>2, <1>3, ThreadsAssumption DEF HasWriter

LEMMA NotWriterBitsRange ==
    ASSUME NEW bits \in Int
    PROVE  NotWriterBits(bits) \in 0..(WRITER - 1)
  <1>1. WRITER \in Nat /\ WRITER > 0
    <2>1. Cardinality(Threads) \in Nat
      BY ThreadsAssumption, FS_CardinalityType
    <2> QED
      BY <2>1, ThreadsAssumption
  <1> QED
    BY <1>1 DEF NotWriterBits

LEMMA InitIInv == Init => IInv
  <1> SUFFICES ASSUME Init PROVE IInv
    OBVIOUS
  <1>1. 0 \in 0..(WRITER - 1)
    <2>1. NotWriterBits(0) \in 0..(WRITER - 1)
      BY NotWriterBitsRange
    <2> QED
      BY <2>1, ThreadsAssumption
  <1>2. TypeOK
    BY <1>1 DEF Init, TypeOK, Locations
  <1>3. \A loc : loc # "unlocked" => At(loc) = {}
    BY DEF Init, At
  <1>4. Readers = {} /\ Writers = {} /\ At("undo") = {}
    BY <1>3 DEF Readers, Writers
  <1>5. WordAccounts
    BY <1>4, FS_EmptySet DEF WordAccounts, Init
  <1> QED
    BY <1>2, <1>4, <1>5 DEF IInv, MutualExclusion

LEMMA NextTypeOK == TypeOK /\ [Next]_vars => TypeOK'
  <1> SUFFICES ASSUME TypeOK, [Next]_vars PROVE TypeOK'
    OBVIOUS
  <1>0. m_bits \in Int /\ WRITER \in Int
    BY ThreadsAssumption DEF TypeOK
  <1>1. \A bits \in Int : NotWriterBits(bits) \in 0..(WRITER - 1)
    BY NotWriterBitsRange
  <1>2. m_bits - 1 \in Int /\ m_bits + 1 \in Int /\ m_bits - WRITER \in Int
    BY <1>0
  <1>3. ASSUME NEW t \in Threads, ReadFetchAdd(t) PROVE TypeOK'
    BY <1>2, <1>3 DEF TypeOK, ReadFetchAdd, Go, Locations
  <1>4. ASSUME NEW t \in Threads, ReadUndo(t) PROVE TypeOK'
    BY <1>1, <1>2, <1>4 DEF TypeOK, ReadUndo, Go, Locations
  <1>5. ASSUME NEW t \in Threads, ReadCasSucceeds(t) PROVE TypeOK'
    BY <1>2, <1>5 DEF TypeOK, ReadCasSucceeds, Go, Locations
  <1>6. ASSUME NEW t \in Threads, ReadCasFails(t) PROVE TypeOK'
    BY <1>6 DEF TypeOK, ReadCasFails, Go, Locations
  <1>7. ASSUME NEW t \in Threads, ReadReload(t) PROVE TypeOK'
    BY <1>0, <1>1, <1>7 DEF TypeOK, ReadReload, Go, Locations
  <1>8. ASSUME NEW t \in Threads, ReadUnlock(t) PROVE TypeOK'
    BY <1>2, <1>8 DEF TypeOK, ReadUnlock, Go, Locations
  <1>9. ASSUME NEW t \in Threads, WriteStart(t) PROVE TypeOK'
    BY <1>9 DEF TypeOK, WriteStart, Go, Locations
  <1>10. ASSUME NEW t \in Threads, WriteCasSucceeds(t) PROVE TypeOK'
    BY <1>0, <1>10 DEF TypeOK, WriteCasSucceeds, Go, Locations
  <1>11. ASSUME NEW t \in Threads, WriteUnlock(t) PROVE TypeOK'
    BY <1>2, <1>11 DEF TypeOK, WriteUnlock, Go, Locations
  <1>12. CASE UNCHANGED vars
    BY <1>12 DEF TypeOK, vars
  <1> QED
    BY <1>3, <1>4, <1>5, <1>6, <1>7, <1>8, <1>9, <1>10, <1>11, <1>12
    DEF Next

-----------------------------------------------------------------------------
\* Each step that counts a thread in or out changes the word by what it
\* changes the sets by; one that finds no writer finds no reader either
\* before it becomes a writer.
LEMMA NextExclusion ==
    IInv /\ [Next]_vars => MutualExclusion' /\ WordAccounts'
  <1> SUFFICES ASSUME IInv, [Next]_vars
               PROVE  MutualExclusion' /\ WordAccounts'
    OBVIOUS
  <1> DEFINE Goal == MutualExclusion' /\ WordAccounts'
             Word(C, W) == Cardinality(C) + (IF W = {} THEN 0 ELSE WRITER)
  <1>pc. pc \in [Threads -> Locations]
    BY DEF IInv, TypeOK
  <1>fin. IsFiniteSet(Counted) /\ Cardinality(Counted) \in 0..(WRITER - 1)
    BY CountedFinite
  <1>num. WRITER \in Nat /\ m_bits \in Int
    BY ThreadsAssumption DEF IInv, TypeOK
  <1>word. m_bits = Word(Counted, Writers)
    BY DEF IInv, WordAccounts, Counted
  <1>word2. ASSUME m_bits' = Word(Counted', Writers')
            PROVE  WordAccounts'
    BY <1>word2 DEF WordAccounts, Counted
  <1>bit. /\ HasWriter(m_bits) <=> Writers # {}
          /\ m_bits = 0 => Writers = {} /\ Counted = {}
    BY WriterBit DEF IInv
  <1>excl. \A w \in Writers : Writers = {w} /\ Readers = {}
    BY DEF IInv, MutualExclusion
  <1>add. \A t : t \notin Counted =>
             Cardinality(Counted \union {t}) = Cardinality(Counted) + 1
    BY <1>fin, FS_AddElement
  <1>remove. \A t \in Counted :
             Cardinality(Counted \ {t}) = Cardinality(Counted) - 1
    BY <1>fin, FS_RemoveElement
  <1> HIDE DEF Word
  <1>1. ASSUME NEW t \in Threads, ReadFetchAdd(t) PROVE Goal
    <2>1. CASE HasWriter(m_bits)
      <3>1. Go(t, "unlocked", "undo")
        BY <1>1, <2>1 DEF ReadFetchAdd
      <3>2. /\ Readers' = Readers /\ Writers' = Writers
            /\ Counted' = Counted \union {t} /\ t \notin Counted
        BY <3>1, <1>pc, AtAfterGo DEF Readers, Writers, Counted
      <3>3. m_bits' = m_bits + 1
        BY <1>1 DEF ReadFetchAdd
      <3>4. m_bits' = Word(Counted', Writers')
        BY <3>2, <3>3, <1>word, <1>add, <1>fin, <1>num DEF Word
      <3> QED
        BY <3>2, <3>4, <1>word2, <1>excl DEF MutualExclusion
    <2>2. CASE ~HasWriter(m_bits)
      <3>1. Go(t, "unlocked", "reading")
        BY <1>1, <2>2 DEF ReadFetchAdd
      <3>2. /\ Writers' = Writers
            /\ Counted' = Counted \union {t} /\ t \notin Counted
        BY <3>1, <1>pc, AtAfterGo DEF Readers, Writers, Counted
      <3>3. m_bits' = m_bits + 1
        BY <1>1 DEF ReadFetchAdd
      <3>4. m_bits' = Word(Counted', Writers')
        BY <3>2, <3>3, <1>word, <1>add, <1>fin, <1>num DEF Word
      <3>5. Writers' = {}
        BY <3>2, <2>2, <1>bit
      <3> QED
        BY <3>4, <3>5, <1>word2 DEF MutualExclusion
    <2> QED
      BY <2>1, <2>2
  <1>2. ASSUME NEW t \in Threads, ReadUndo(t) PROVE Goal
    <2>1. Go(t, "undo", "readCas") /\ m_bits' = m_bits - 1
      BY <1>2 DEF ReadUndo
    <2>2. /\ Readers' = Readers /\ Writers' = Writers
          /\ Counted' = Counted \ {t} /\ t \in Counted
      BY <2>1, <1>pc, AtAfterGo DEF Readers, Writers, Counted
    <2>3. m_bits' = Word(Counted', Writers')
      BY <2>1, <2>2, <1>word, <1>remove, <1>fin, <1>num DEF Word
    <2> QED
      BY <2>2, <2>3, <1>word2, <1>excl DEF MutualExclusion
  <1>3. ASSUME NEW t \in Threads, ReadCasSucceeds(t) PROVE Goal
    <2>1. Go(t, "readCas", "reading") /\ m_bits' = m_bits + 1
          /\ m_bits = expected[t]
      BY <1>3 DEF ReadCasSucceeds
    <2>2. /\ Writers' = Writers
          /\ Counted' = Counted \union {t} /\ t \notin Counted
      BY <2>1, <1>pc, AtAfterGo DEF Readers, Writers, Counted
    <2>3. m_bits' = Word(Counted', Writers')
      BY <2>1, <2>2, <1>word, <1>add, <1>fin, <1>num DEF Word
    <2>4. m_bits \in 0..(WRITER - 1)
      BY <2>1 DEF IInv, TypeOK
    <2>5. Writers' = {}
      BY <2>2, <2>4, <1>bit, <1>num DEF HasWriter
    <2> QED
      BY <2>3, <2>5, <1>word2 DEF MutualExclusion
  <1>4. ASSUME NEW t \in Threads, ReadCasFails(t) PROVE Goal
    <2>1. Go(t, "readCas", "readSpin") /\ m_bits' = m_bits
      BY <1>4 DEF ReadCasFails
    <2>2. Readers' = Readers /\ Writers' = Writers /\ Counted' = Counted
      BY <2>1, <1>pc, AtAfterGo DEF Readers, Writers, Counted
    <2> QED
      BY <2>1, <2>2, <1>word, <1>word2, <1>excl DEF MutualExclusion
  <1>5. ASSUME NEW t \in Threads, ReadReload(t) PROVE Goal
    <2>1. Go(t, "readSpin", "readCas") /\ m_bits' = m_bits
      BY <1>5 DEF ReadReload
    <2>2. Readers' = Readers /\ Writers' = Writers /\ Counted' = Counted
      BY <2>1, <1>pc, AtAfterGo DEF Readers, Writers, Counted
    <2> QED
      BY <2>1, <2>2, <1>word, <1>word2, <1>excl DEF MutualExclusion
  <1>6. ASSUME NEW t \in Threads, ReadUnlock(t) PROVE Goal
    <2>1. Go(t, "reading", "unlocked") /\ m_bits' = m_bits - 1
      BY <1>6 DEF ReadUnlock
    <2>2. /\ Readers' = Readers \ {t} /\ Writers' = Writers
          /\ Counted' = Counted \ {t} /\ t \in Counted
      BY <2>1, <1>pc, AtAfterGo DEF Readers, Writers, Counted
    <2>3. m_bits' = Word(Counted', Writers')
      BY <2>1, <2>2, <1>word, <1>remove, <1>fin, <1>num DEF Word
    <2> QED
      BY <2>2, <2>3, <1>word2, <1>excl DEF MutualExclusion
  <1>7. ASSUME NEW t \in Threads, WriteStart(t) PROVE Goal
    <2>1. Go(t, "unlocked", "writeCas") /\ m_bits' = m_bits
      BY <1>7 DEF WriteStart
    <2>2. Readers' = Readers /\ Writers' = Writers /\ Counted' = Counted
      BY <2>1, <1>pc, AtAfterGo DEF Readers, Writers, Counted
    <2> QED
      BY <2>1, <2>2, <1>word, <1>word2, <1>excl DEF MutualExclusion
  <1>8. ASSUME NEW t \in Threads, WriteCasSucceeds(t) PROVE Goal
    <2>1. Go(t, "writeCas", "writing") /\ m_bits = 0 /\ m_bits' = WRITER
      BY <1>8 DEF WriteCasSucceeds
    <2>2. /\ Readers' = Readers /\ Counted' = Counted
          /\ Writers' = Writers \union {t}
      BY <2>1, <1>pc, AtAfterGo DEF Readers, Writers, Counted
    <2>3. Readers' = {} /\ Counted' = {} /\ Writers' = {t}
      BY <2>1, <2>2, <1>bit DEF Counted
    <2>4. m_bits' = Word(Counted', Writers')
      BY <2>1, <2>3, <1>num, FS_EmptySet DEF Word
    <2> QED
      BY <2>3, <2>4, <1>word2 DEF MutualExclusion
  <1>9. ASSUME NEW t \in Threads, WriteUnlock(t) PROVE Goal
    <2>1. Go(t, "writing", "unlocked") /\ m_bits' = m_bits - WRITER
      BY <1>9 DEF WriteUnlock
    <2>2. /\ Readers' = Readers /\ Counted' = Counted
          /\ Writers' = Writers \ {t} /\ t \in Writers
      BY <2>1, <1>pc, AtAfterGo DEF Readers, Writers, Counted
    <2>3. Writers' = {} /\ Writers # {}
      BY <2>2, <1>excl
    <2>4. m_bits' = Word(Counted', Writers')
      BY <2>1, <2>2, <2>3, <1>word, <1>fin, <1>num DEF Word
    <2> QED
      BY <2>3, <2>4, <1>word2 DEF MutualExclusion
  <1>10. CASE UNCHANGED vars
    <2>1. /\ Readers' = Readers /\ Counted' = Counted
          /\ Writers' = Writers /\ m_bits' = m_bits
      BY <1>10 DEF vars, Readers, Writers, Counted, At
    <2> QED
      BY <2>1, <1>word, <1>word2, <1>excl DEF MutualExclusion
  <1> QED
    BY <1>1, <1>2, <1>3, <1>4, <1>5, <1>6, <1>7, <1>8, <1>9, <1>10 DEF Next

LEMMA IInvIsInvariant == Spec => []IInv
  <1>1. IInv /\ [Next]_vars => IInv'
    BY NextTypeOK, NextExclusion DEF IInv
  <1> QED
    BY <1>1, InitIInv, PTL DEF Spec

\* Every variable keeps its type; in particular a guess of read_lock never
\* contains the writer bit, so that its compare-exchange cannot add a reader
\* under a writer.
THEOREM TypeCorrect == Spec => []TypeOK
  <1>1. IInv => TypeOK
    BY DEF IInv
  <1> QED
    BY <1>1, IInvIsInvariant, PTL

\* spin_rw_mutex excludes: a writer is alone.
THEOREM Exclusion == Spec => []MutualExclusion
  <1>1. IInv => MutualExclusion
    BY DEF IInv
  <1> QED
    BY <1>1, IInvIsInvariant, PTL

\* The atomic word always accounts for exactly the threads that are inside
\* or still have to undo their increment.
THEOREM Accounting == Spec => []WordAccounts
  <1>1. IInv => WordAccounts
    BY DEF IInv
  <1> QED
    BY <1>1, IInvIsInvariant, PTL

-----------------------------------------------------------------------------
\* spin_rw_mutex implements the abstract reader/writer lock: the fetch_add
\* that meets no writer and the two successful compare-exchanges acquire,
\* the unlocks release, and every other step is invisible to a client.
THEOREM Refinement == Spec => ImplementsRWLock
  <1>1. Init => Abstract!Init
    BY DEF Init, Abstract!Init, Readers, Writers, At
  <1>2. IInv /\ [Next]_vars => [Abstract!Next]_Abstract!lockVars
    <2> SUFFICES ASSUME IInv, [Next]_vars
                 PROVE  [Abstract!Next]_Abstract!lockVars
      OBVIOUS
    <2>pc. pc \in [Threads -> Locations]
      BY DEF IInv, TypeOK
    <2>bit. /\ HasWriter(m_bits) <=> Writers # {}
            /\ m_bits = 0 => Writers = {} /\ Readers = {}
      BY WriterBit DEF IInv, Counted
    <2>excl. \A w \in Writers : Writers = {w} /\ Readers = {}
      BY DEF IInv, MutualExclusion
    <2> DEFINE Stays == Readers' = Readers /\ Writers' = Writers
    <2>1. ASSUME NEW t \in Threads, ReadFetchAdd(t)
          PROVE  Stays \/ Abstract!AcquireShared(t)
      <3>1. CASE HasWriter(m_bits)
        <4>1. Go(t, "unlocked", "undo")
          BY <2>1, <3>1 DEF ReadFetchAdd
        <4> QED
          BY <4>1, <2>pc, AtAfterGo DEF Readers, Writers
      <3>2. CASE ~HasWriter(m_bits)
        <4>1. Go(t, "unlocked", "reading")
          BY <2>1, <3>2 DEF ReadFetchAdd
        <4>2. /\ Readers' = Readers \union {t} /\ t \notin Readers
              /\ Writers' = Writers /\ Writers = {}
          BY <4>1, <3>2, <2>pc, <2>bit, AtAfterGo DEF Readers, Writers
        <4> QED
          BY <4>2 DEF Abstract!AcquireShared
      <3> QED
        BY <3>1, <3>2
    <2>2. ASSUME NEW t \in Threads, ReadUndo(t) PROVE Stays
      <3>1. Go(t, "undo", "readCas")
        BY <2>2 DEF ReadUndo
      <3> QED
        BY <3>1, <2>pc, AtAfterGo DEF Readers, Writers
    <2>3. ASSUME NEW t \in Threads, ReadCasSucceeds(t)
          PROVE  Abstract!AcquireShared(t)
      <3>1. Go(t, "readCas", "reading") /\ m_bits = expected[t]
        BY <2>3 DEF ReadCasSucceeds
      <3>2. ~HasWriter(m_bits)
        BY <3>1, ThreadsAssumption DEF HasWriter, IInv, TypeOK
      <3>3. /\ Readers' = Readers \union {t} /\ t \notin Readers
            /\ Writers' = Writers /\ Writers = {}
        BY <3>1, <3>2, <2>pc, <2>bit, AtAfterGo DEF Readers, Writers
      <3> QED
        BY <3>3 DEF Abstract!AcquireShared
    <2>4. ASSUME NEW t \in Threads, ReadCasFails(t) PROVE Stays
      <3>1. Go(t, "readCas", "readSpin")
        BY <2>4 DEF ReadCasFails
      <3> QED
        BY <3>1, <2>pc, AtAfterGo DEF Readers, Writers
    <2>5. ASSUME NEW t \in Threads, ReadReload(t) PROVE Stays
      <3>1. Go(t, "readSpin", "readCas")
        BY <2>5 DEF ReadReload
      <3> QED
        BY <3>1, <2>pc, AtAfterGo DEF Readers, Writers
    <2>6. ASSUME NEW t \in Threads, ReadUnlock(t)
          PROVE  Abstract!ReleaseShared(t)
      <3>1. Go(t, "reading", "unlocked")
        BY <2>6 DEF ReadUnlock
      <3>2. /\ Readers' = Readers \ {t} /\ t \in Readers
            /\ Writers' = Writers
        BY <3>1, <2>pc, AtAfterGo DEF Readers, Writers
      <3> QED
        BY <3>2 DEF Abstract!ReleaseShared
    <2>7. ASSUME NEW t \in Threads, WriteStart(t) PROVE Stays
      <3>1. Go(t, "unlocked", "writeCas")
        BY <2>7 DEF WriteStart
      <3> QED
        BY <3>1, <2>pc, AtAfterGo DEF Readers, Writers
    <2>8. ASSUME NEW t \in Threads, WriteCasSucceeds(t)
          PROVE  Abstract!AcquireExclusive(t)
      <3>1. Go(t, "writeCas", "writing") /\ m_bits = 0
        BY <2>8 DEF WriteCasSucceeds
      <3>2. /\ Readers' = Readers /\ Writers' = Writers \union {t}
            /\ Readers = {} /\ Writers = {}
        BY <3>1, <2>pc, <2>bit, AtAfterGo DEF Readers, Writers
      <3> QED
        BY <3>2 DEF Abstract!AcquireExclusive
    <2>9. ASSUME NEW t \in Threads, WriteUnlock(t)
          PROVE  Abstract!ReleaseExclusive(t)
      <3>1. Go(t, "writing", "unlocked")
        BY <2>9 DEF WriteUnlock
      <3>2. /\ Readers' = Readers /\ Writers' = Writers \ {t}
            /\ t \in Writers
        BY <3>1, <2>pc, AtAfterGo DEF Readers, Writers
      <3>3. Writers' = {}
        BY <3>2, <2>excl
      <3> QED
        BY <3>2, <3>3 DEF Abstract!ReleaseExclusive
    <2>10. CASE UNCHANGED vars
      BY <2>10 DEF vars, Readers, Writers, At, Abstract!lockVars
    <2> QED
      BY <2>1, <2>2, <2>3, <2>4, <2>5, <2>6, <2>7, <2>8, <2>9, <2>10
      DEF Next, Abstract!Next, Abstract!lockVars
  <1> QED
    BY <1>1, <1>2, IInvIsInvariant, PTL
    DEF Spec, ImplementsRWLock, Abstract!Spec
=============================================================================
