---------------------------- MODULE MCNbdSession ----------------------------
(* Instances of NbdSession for TLC. *)
EXTENDS NbdSession, TLC

CONSTANTS s1, s2, s3, s4, s5, path, p1, p2
TwoSessions  == {s1, s2}
FiveSessions == {s1, s2, s3, s4, s5}

\* Three sessions run one at a time on one socket path (a limit of 0 counts as 1),
\* and two have the default Options, TCP and a limit of two.
MixedPaths  == (s1 :> path) @@ (s2 :> path) @@ (s3 :> path)
                 @@ (s4 :> None) @@ (s5 :> None)
MixedLimits == (s1 :> 0) @@ (s2 :> 1) @@ (s3 :> 1) @@ (s4 :> 2) @@ (s5 :> 2)

\* The sessions on the path, one of them beside one over TCP, and the two over TCP.
MixedGroups == {{s1, s2, s3}, {s3, s4}, {s4, s5}}

\* The default limit of two, on one socket path.
SamePath == [s \in TwoSessions |-> path]
LimitTwo == [s \in TwoSessions |-> 2]
=============================================================================
