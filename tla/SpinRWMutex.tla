---------------------------- MODULE SpinRWMutex -----------------------------
(***************************************************************************)
(* spin_rw_mutex of include/OpenImageIO/thread.h: a reader/writer lock in  *)
(* one atomic word.  The low bits count the readers, the bit WRITER says   *)
(* that a writer holds the lock.                                           *)
(*                                                                         *)
(* Every action below is one atomic access to m_bits.  All accesses are to *)
(* a single location, so its modification order is total whatever the      *)
(* memory orders are, and interleaving the accesses loses nothing.         *)
(*                                                                         *)
(* compare_exchange_weak may fail although the word has the expected       *)
(* value: the failing branches have no guard on m_bits.                    *)
(***************************************************************************)
EXTENDS Integers, FiniteSets

CONSTANTS Threads,  \* the threads that use one mutex
          WRITER    \* the writer bit; 2^30 in the code

\* "This will only work if we have fewer than 2^30 simultaneous readers."
ASSUME ThreadsAssumption ==
    /\ IsFiniteSet(Threads)
    /\ WRITER \in Nat
    /\ Cardinality(Threads) < WRITER

VARIABLES m_bits,    \* the atomic word
          pc,        \* where each thread is
          expected   \* read_lock's local of that name

vars == <<m_bits, pc, expected>>

Locations == {"unlocked",   \* outside the lock's methods, holding nothing
              "undo",       \* read_lock met a writer: its increment to be undone
              "readCas", "readSpin",        \* read_lock's slow path
              "writeCas",                   \* write_lock
              "reading", "writing"}         \* holding the lock

At(loc) == {t \in Threads : pc[t] = loc}

Readers == At("reading")
Writers == At("writing")

\* oldval & WRITER and m_bits & NOTWRITER, for the values m_bits takes:
\* below 2 * WRITER, and never negative.
HasWriter(bits) == bits >= WRITER
\* Mutant: m_bits used without the mask.
MutUnmasked(bits) == bits
NotWriterBits(bits) == bits % WRITER

Init == /\ m_bits = 0
        /\ pc = [t \in Threads |-> "unlocked"]
        /\ expected = [t \in Threads |-> 0]

Go(t, from, to) == pc[t] = from /\ pc' = [pc EXCEPT ![t] = to]

-----------------------------------------------------------------------------
(* read_lock *)

\* Mutant: the old value is not looked at.
MutReadFetchAdd(t) ==
    /\ Go(t, "unlocked", "reading")
    /\ m_bits' = m_bits + 1
    /\ UNCHANGED expected

\* fetch_add(1): the lock is ours if no writer had it.
ReadFetchAdd(t) ==
    /\ Go(t, "unlocked", IF HasWriter(m_bits) THEN "undo" ELSE "reading")
    /\ m_bits' = m_bits + 1
    /\ UNCHANGED expected

\* Mutant: goes to the slow path without undoing the increment.
MutReadUndo(t) ==
    /\ Go(t, "undo", "readCas")
    /\ expected' = [expected EXCEPT ![t] = NotWriterBits(m_bits)]
    /\ UNCHANGED m_bits

\* --m_bits, whose new value without the writer bit is the first guess.
ReadUndo(t) ==
    /\ Go(t, "undo", "readCas")
    /\ m_bits' = m_bits - 1
    /\ expected' = [expected EXCEPT ![t] = NotWriterBits(m_bits - 1)]

ReadCasSucceeds(t) ==
    /\ Go(t, "readCas", "reading")
    /\ m_bits = expected[t]
    /\ m_bits' = expected[t] + 1
    /\ UNCHANGED expected

ReadCasFails(t) ==
    /\ Go(t, "readCas", "readSpin")
    /\ UNCHANGED <<m_bits, expected>>

\* backoff(), then a fresh guess.
ReadReload(t) ==
    /\ Go(t, "readSpin", "readCas")
    /\ expected' = [expected EXCEPT ![t] = NotWriterBits(m_bits)]
    /\ UNCHANGED m_bits

ReadUnlock(t) ==
    /\ Go(t, "reading", "unlocked")
    /\ m_bits' = m_bits - 1
    /\ UNCHANGED expected

-----------------------------------------------------------------------------
(* write_lock: the call, and compare-and-exchange of 0 with WRITER until it *)
(* succeeds.  A failed attempt changes nothing and is a stuttering step.    *)

WriteStart(t) ==
    /\ Go(t, "unlocked", "writeCas")
    /\ UNCHANGED <<m_bits, expected>>

WriteCasSucceeds(t) ==
    /\ Go(t, "writeCas", "writing")
    /\ m_bits = 0
    /\ m_bits' = WRITER
    /\ UNCHANGED expected

\* Mutant: store(0) instead of fetch_sub(WRITER).
MutWriteUnlock(t) ==
    /\ Go(t, "writing", "unlocked")
    /\ m_bits' = 0
    /\ UNCHANGED expected

WriteUnlock(t) ==
    /\ Go(t, "writing", "unlocked")
    /\ m_bits' = m_bits - WRITER
    /\ UNCHANGED expected

-----------------------------------------------------------------------------
Next == \E t \in Threads :
            \/ ReadFetchAdd(t) \/ ReadUndo(t) \/ ReadCasSucceeds(t)
            \/ ReadCasFails(t) \/ ReadReload(t) \/ ReadUnlock(t)
            \/ WriteStart(t) \/ WriteCasSucceeds(t) \/ WriteUnlock(t)

Spec == Init /\ [][Next]_vars

\* A thread inside a method keeps running, a holder releases in the end
\* (the locks are scoped), and a weak compare-exchange that could succeed
\* again and again does not fail spuriously for ever.  No thread has to ask
\* for the lock, and nothing prefers a waiting thread to a new one.
Fairness == \A t \in Threads :
                /\ WF_vars(ReadUndo(t)) /\ WF_vars(ReadReload(t))
                /\ WF_vars(ReadCasFails(t))
                /\ SF_vars(ReadCasSucceeds(t)) /\ SF_vars(WriteCasSucceeds(t))
                /\ WF_vars(ReadUnlock(t)) /\ WF_vars(WriteUnlock(t))

FairSpec == Spec /\ Fairness

-----------------------------------------------------------------------------
TypeOK == /\ m_bits \in Int
          /\ pc \in [Threads -> Locations]
          /\ expected \in [Threads -> 0..(WRITER - 1)]

\* A writer excludes readers and other writers, although a reader that comes
\* while the writer is inside does touch the word before it backs out.
MutualExclusion ==
    \A w \in Writers : Writers = {w} /\ Readers = {}

\* The word accounts for every thread that has counted itself: the readers
\* inside, the readers that still have to undo their increment, the writer.
\* An increment lost or undone twice would let a writer in beside a reader,
\* or nobody ever again.
WordAccounts ==
    m_bits = Cardinality(Readers \union At("undo"))
             + (IF Writers = {} THEN 0 ELSE WRITER)

\* The inductive invariant of the proofs.
IInv == TypeOK /\ MutualExclusion /\ WordAccounts

\* A thread that waits for the lock does not wait for nobody: from every
\* state with a waiting thread, some thread comes to hold the lock.  (That
\* the waiting thread itself gets it is not promised: writers can starve.)
Waiting == At("undo") \union At("readCas") \union At("readSpin")
           \union At("writeCas")
SomebodyGetsIn == (Waiting # {}) ~> (Readers \union Writers # {})

\* The lock does what RWLock promises.
Abstract == INSTANCE RWLock WITH readers <- Readers, writer <- Writers
ImplementsRWLock == Abstract!Spec
=============================================================================
