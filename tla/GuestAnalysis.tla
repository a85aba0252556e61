--------------------------- MODULE GuestAnalysis ---------------------------
(***************************************************************************)
(* What the guest analysers share (parsers/, models/traits.rs): the        *)
(* request, the AnalysisResult they build, the reads they make through     *)
(* VirtualDisk, and the final order of the program list.  The analysers    *)
(* themselves are modules WindowsGuest and LinuxGuest; they run inside one *)
(* inspection (module Inspection), behind the detector whose partitions    *)
(* they take.                                                              *)
(*                                                                         *)
(* A disk's record has one more field, guest: first sector -> what the     *)
(* volume that starts there holds.  A program's name is a number, its      *)
(* place in the order of strings; a text that is empty is "".              *)
(***************************************************************************)
EXTENDS Detector, Integers, SequencesExt

CONSTANTS
  Requests,   \* the Options: [forceNbd, noApps, noSystem, includeSystem]
  ToolNames   \* names of programs that are integration tools -> their kind

VARIABLES
  request,     \* Options
  gpc,         \* where the analyser stands
  candidates,  \* the partitions it has yet to try
  volume,      \* first sector of the partition it chose
  info,        \* AnalysisResult::guest_info
  programs,    \* AnalysisResult::programs
  warnings,    \* AnalysisResult::warnings, as a set of what they are about
  list,        \* which of several lists is being scanned
  cursor       \* where in it

resultVars == <<info, programs, warnings>>
scanVars   == <<list, cursor>>

System == ~request.noSystem  \* should_analyze_system
Apps   == ~request.noApps    \* should_analyze_apps

NoTools == [kind |-> "none", version |-> ""]
NoInfo  == [name |-> "", edition |-> "", build |-> "", tools |-> NoTools]

\* The order in which the kinds of integration tools are looked for.
Kinds == <<"vmware", "virtualbox", "qemu", "hyper-v">>

\* InspectionEngine::inspect_summary asks without the programs.
AsSummary(r) == [r EXCEPT !.noApps = TRUE]

GuestInit ==
  /\ request \in Requests \cup {AsSummary(r) : r \in Requests}
  /\ gpc = "start" /\ candidates = <<>> /\ volume = 0
  /\ info = NoInfo /\ programs = <<>> /\ warnings = {}
  /\ list = 1 /\ cursor = 1

-----------------------------------------------------------------------------
(* Reads. *)

\* An operation of the file-system crates on a VirtualDisk.  It fails when a
\* read of it fails; with the token set it may still be served by the cache.
Access(served, failed) ==
  \/ served /\ UNCHANGED refused
  \/ failed /\ refused' = (refused \/ token)

\* The first operation on a new VirtualDisk, whose cache is empty.
Mount(served, failed) ==
  \/ ~token /\ served /\ UNCHANGED refused
  \/ failed /\ refused' = (refused \/ token)

\* A scan looks at the token in front of each item and stops where it is set.
Scan(stopped, goesOn) ==
  \/ token /\ stopped /\ refused' = TRUE
  \/ ~token /\ goesOn /\ UNCHANGED refused

Contents == disk.guest[volume]

-----------------------------------------------------------------------------
(* The list of programs. *)

\* The members of a set in the order of a relation between them.
InOrder(S, R) ==
  [k \in 1 .. Cardinality(S) |->
     CHOOSE i \in S : Cardinality({j \in S : <<j, i>> \in R}) = k - 1]

\* sort_by_key: equal keys keep their places.
SortByKey(s, key) ==
  LET R == {p \in (DOMAIN s) \X (DOMAIN s) :
              \/ key[p[1]] < key[p[2]]
              \/ key[p[1]] = key[p[2]] /\ p[1] < p[2]}
      at == InOrder(DOMAIN s, R)
  IN [k \in DOMAIN s |-> s[at[k]]]

\* The entries at these places, in their order.
Kept(s, I) ==
  LET at == InOrder(I, {p \in I \X I : p[1] < p[2]})
  IN [k \in 1 .. Cardinality(I) |-> s[at[k]]]

SameProgram(p, q) == p.name = q.name /\ p.version = q.version

\* dedup_by: an entry goes when it is the same as the one in front of it.
Dedup(s) == Kept(s, {i \in DOMAIN s : i = 1 \/ ~SameProgram(s[i - 1], s[i])})

\* sort_by(name), then dedup_by(name and version)
SortedPrograms(s) == Dedup(SortByKey(s, [i \in DOMAIN s |-> s[i].name]))

\* As a reference: the list holds every one of these entries, in the order of
\* the names, and no others; neighbours differ.
ListsExactly(entries) ==
  /\ ToSet(programs) \subseteq entries
  /\ \A e \in entries : \E p \in ToSet(programs) : SameProgram(p, e)
  /\ \A i \in 1 .. Len(programs) - 1 :
       /\ programs[i].name <= programs[i + 1].name
       /\ ~SameProgram(programs[i], programs[i + 1])

-----------------------------------------------------------------------------
(* The choice of the analyser. *)

OfFileSystem(kinds) == Kept(parts, {p \in DOMAIN parts : parts[p].fs \in kinds})

\* get_inspector, the UnknownInspector, and the partitions that the others
\* consider: the NTFS ones as they come, the ext ones by size.  A request for
\* neither system nor programs is answered with nothing.
GetInspector ==
  /\ gpc = "start"
  /\ \/ /\ ~System /\ ~Apps
        /\ gpc' = "done" /\ UNCHANGED <<candidates, info>>
     \/ /\ (System \/ Apps) /\ os = "windows"
        /\ gpc' = "find_system" /\ candidates' = OfFileSystem({"ntfs"})
        /\ UNCHANGED info
     \/ /\ (System \/ Apps) /\ os = "linux"
        /\ gpc' = "superblock"
        /\ LET ext == OfFileSystem(ExtFs)
           IN candidates' = SortByKey(ext, [i \in DOMAIN ext |-> -ext[i].size])
        /\ UNCHANGED info
     \/ /\ (System \/ Apps) /\ os = "unknown"
        /\ gpc' = "done"
        /\ info' = IF System THEN [NoInfo EXCEPT !.name = "unknown"] ELSE info
        /\ UNCHANGED candidates
  /\ UNCHANGED <<request, volume, programs, warnings, scanVars, refused>>
=============================================================================
