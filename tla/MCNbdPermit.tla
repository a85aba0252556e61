----------------------------- MODULE MCNbdPermit -----------------------------
(* Four sessions of callers with different limits. *)
EXTENDS NbdPermit

CONSTANTS s1, s2, s3, s4
MCSessions == {s1, s2, s3, s4}

\* nbd_max_sessions 0 counts as 1.
MixedLimits == [s \in MCSessions |-> IF s = s1 THEN 0 ELSE 2]
=============================================================================
