--------------------------- MODULE MCUstringTable ---------------------------
(* An instance of UstringTable for TLC: s1 and s2 have the same hash, 1; s3  *)
(* has the one that s2 is given then, 9, which Fingerprint does not change;  *)
(* both hashes begin their probing at the same position, until the bin has   *)
(* grown three times.  nul is s2 and more characters, after a NUL.  s4,      *)
(* which s1 begins with, is in another bin of the reverse map.               *)
EXTENDS UstringTable

CONSTANTS s1, s2, s3, s4, nul

MCHashOf == [s \in Strings |-> CASE s \in {s1, s2} -> 1 [] s = s3 -> 9 [] s = s4 -> 35 [] s = nul -> 25]
MCFingerprint == [h \in Hashes |-> IF h = 1 THEN 9 ELSE h % NoBin]
MCTrim == [s \in Strings |-> IF s = nul THEN s2 ELSE s]
MCPrefixes == {<<s4, s1>>, <<s2, nul>>}
=============================================================================
