------------------------------ MODULE Discovery -----------------------------
(***************************************************************************)
(* list_vms_with_options: the breadth-first walk that looks for disk       *)
(* images below a root, with its exclusions, its depth limit and the       *)
(* errors it survives.  The file system answers as it likes: any directory *)
(* or entry may turn out to be unreadable when the walk gets to it.  The   *)
(* walk is part of the command (module CommandLine).                       *)
(***************************************************************************)
EXTENDS Naturals, Sequences, FiniteSets

CONSTANTS
  Root, Dirs,   \* the selected directory; all directories, Root included
  Files,        \* the other entries
  Special,      \* those that are no regular files: symbolic links, which are not
                \* followed, sockets, devices
  Parent,       \* directory or file -> the directory it is an entry of
  NameOf,       \* directory -> its file name
  Name,         \* file -> its name: [ext, tail], tail being how the part in
                \* front of the extension ends
  NotUtf8,      \* directories and files whose name is not UTF-8
  Empty,        \* the files whose length is zero
  Exclusions,   \* the directories a caller may exclude
  None          \* Option::None

Nodes == Dirs \cup Files

\* A finite tree: going from a node to its parent again and again ends at Root.
ASSUME TreeAssumption ==
  /\ Root \in Dirs /\ Empty \subseteq Files /\ Special \subseteq Files
  /\ DOMAIN Name = Files
  /\ IsFiniteSet(Nodes) /\ Dirs \cap Files = {}
  /\ Parent \in [Nodes \ {Root} -> Dirs]
  /\ \A S \in SUBSET (Nodes \ {Root}) : S # {} => \E n \in S : Parent[n] \notin S
  /\ None \notin Nat

\* An excluded directory is given by its path (a member of Dirs) or by its
\* name alone.
ASSUME ExclusionAssumption ==
  \A e \in Exclusions :
    e.by \in {"path", "name"} /\ (e.by = "path" => e.dir \in Dirs)

SupportedExtensions == {"vmdk", "qcow2", "vdi", "vhd", "vhdx", "raw", "img"}

\* is_secondary_extent: -flat, -delta, -sesparse and split extents (-s followed
\* by a digit) of a VMDK, -sys and -delta of a VHD; a name that is not UTF-8 is
\* never one.
IsSecondaryExtent(f) ==
  /\ f \notin NotUtf8
  /\ \/ Name[f].ext = "vmdk"
          /\ Name[f].tail \in {"flat", "delta", "sesparse", "split"}
     \/ Name[f].ext \in {"vhd", "vhdx"} /\ Name[f].tail \in {"sys", "delta"}

\* is_file and is_vm_image_candidate
Images == {f \in Files \ Special : Name[f].ext \in SupportedExtensions
                                   /\ ~IsSecondaryExtent(f)}

VARIABLES
  recursive, excluded, maxDepth, \* DiscoveryOptions
  wpc,           \* "idle", "root", "pop", "entries" or "done"
  queue,        \* <<directory, depth>> pairs
  reading,      \* the directory being read and its depth
  left,         \* its entries that are still to come
  found,        \* report.images
  inaccessible, \* report.inaccessible_directories
  skipped,      \* entries reported as unreadable
  answer        \* "none", "report" or an error

options == <<recursive, excluded, maxDepth>>
discoveryVars == <<options, wpc, queue, reading, left, found, inaccessible, skipped,
                   answer>>

\* Before list_vms_with_options; DiscoveryOptions::default().
DiscoveryInit ==
  /\ recursive = FALSE /\ excluded = {} /\ maxDepth = None
  /\ wpc = "idle" /\ queue = <<>> /\ reading = <<Root, 0>> /\ left = {}
  /\ found = {} /\ inaccessible = {} /\ skipped = {} /\ answer = "none"

\* The call, with the caller's DiscoveryOptions.
CallListVms(deep, without, limit) ==
  /\ wpc = "idle" /\ wpc' = "root"
  /\ recursive' = deep /\ excluded' = without /\ maxDepth' = limit
  /\ UNCHANGED <<queue, reading, left, found, inaccessible, skipped, answer>>

Children(d) == {n \in Nodes \ {Root} : Parent[n] = d}

\* The name an exclusion ends with.
FileName(e) == IF e.by = "path" THEN NameOf[e.dir] ELSE e.name

\* excluded == &path || excluded.file_name() == path.file_name()
IsExcluded(d) ==
  \E e \in excluded :
    \/ e.by = "path" /\ e.dir = d
    \/ FileName(e) = NameOf[d]

\* Mutant of BelowLimit: the depth limit is off by one.
AtLimit(depth) == IF maxDepth = None THEN TRUE ELSE depth <= maxDepth

BelowLimit(depth) == IF maxDepth = None THEN TRUE ELSE depth < maxDepth

-----------------------------------------------------------------------------

\* validate_discovery_root
ValidateRoot ==
  /\ wpc = "root"
  /\ \/ /\ wpc' = "pop" /\ queue' = <<<<Root, 0>>>>
        /\ UNCHANGED answer
     \/ /\ \E e \in {"image_not_found", "io", "other"} : answer' = e
        /\ wpc' = "done" /\ UNCHANGED queue
  /\ UNCHANGED <<options, reading, left, found, inaccessible, skipped>>

\* Mutant of ReadDir: front instead of pop_front.
ReadDirAgain ==
  /\ wpc = "pop" /\ queue # <<>>
  /\ reading' = Head(queue)
  /\ wpc' = "entries" /\ left' = Children(Head(queue)[1])
  /\ UNCHANGED <<options, queue, found, inaccessible, skipped, answer>>

ReadDir ==
  /\ wpc = "pop" /\ queue # <<>>
  /\ queue' = Tail(queue) /\ reading' = Head(queue)
  /\ wpc' = "entries" /\ left' = Children(Head(queue)[1])
  /\ UNCHANGED <<options, found, inaccessible, skipped, answer>>

\* read_dir fails: an error for the root, a warning for any other directory.
ReadDirFails ==
  /\ wpc = "pop" /\ queue # <<>>
  /\ queue' = Tail(queue)
  /\ \/ /\ Head(queue)[1] = Root
        /\ wpc' = "done" /\ answer' = "io"
        /\ UNCHANGED inaccessible
     \/ /\ Head(queue)[1] # Root
        /\ inaccessible' = inaccessible \cup {Head(queue)[1]}
        /\ UNCHANGED <<wpc, answer>>
  /\ UNCHANGED <<options, reading, left, found, skipped>>

\* The entry, its type or its metadata cannot be read: a warning.  The metadata
\* are asked for the image candidates only.
SkipUnreadable(n) ==
  /\ wpc = "entries" /\ n \in left
  /\ left' = left \ {n}
  /\ skipped' = skipped \cup {n}
  /\ UNCHANGED <<options, wpc, queue, reading, found, inaccessible, answer>>

\* What is neither a directory nor a regular file is passed over in silence.
VisitEntry(n) ==
  /\ wpc = "entries" /\ n \in left
  /\ left' = left \ {n}
  /\ queue' = IF n \in Dirs /\ recursive /\ ~IsExcluded(n)
                   /\ BelowLimit(reading[2])
              THEN Append(queue, <<n, reading[2] + 1>>) ELSE queue
  /\ found' = IF n \in Images \ Empty THEN found \cup {n} ELSE found
  /\ UNCHANGED <<options, wpc, reading, inaccessible, skipped, answer>>

EndOfDir ==
  /\ wpc = "entries" /\ left = {}
  /\ wpc' = "pop"
  /\ UNCHANGED <<options, queue, reading, left, found, inaccessible, skipped,
                 answer>>

\* Both lists are sorted, so the report is a function of the two sets.
EndOfWalk ==
  /\ wpc = "pop" /\ queue = <<>>
  /\ wpc' = "done" /\ answer' = "report"
  /\ UNCHANGED <<options, queue, reading, left, found, inaccessible, skipped>>

WalkStep ==
  \/ ValidateRoot \/ ReadDir \/ ReadDirFails \/ EndOfDir \/ EndOfWalk
  \/ \E n \in left : SkipUnreadable(n) \/ VisitEntry(n)

-----------------------------------------------------------------------------
(* Properties. *)

\* The directories strictly above a node.
Above[n \in Nodes] ==
  IF n = Root THEN {} ELSE {Parent[n]} \cup Above[Parent[n]]

\* The reference: the walk gets to a directory when the options admit it and
\* nothing on the way down to it was unreadable.
Admitted(d) ==
  \/ d = Root
  \/ /\ recursive /\ ~IsExcluded(d) /\ d \notin skipped
     /\ maxDepth # None => Cardinality(Above[d]) <= maxDepth
Walked(d) == \A a \in {d} \cup Above[d] : Admitted(a) /\ a \notin inaccessible

\* A report lists every non-empty image of every directory walked and no other
\* file: none is lost to an error elsewhere in the tree, and a directory that
\* cannot be read is in the report unless the options rule it out.
ReportExact ==
  answer = "report" =>
    /\ found = {f \in (Images \ Empty) \ skipped : Walked(Parent[f])}
    /\ \A d \in inaccessible : Admitted(d) /\ (d # Root => Walked(Parent[d]))
=============================================================================
