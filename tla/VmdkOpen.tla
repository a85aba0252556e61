------------------------------ MODULE VmdkOpen ------------------------------
(***************************************************************************)
(* How an image is opened: identify_image, the preflight that walks the    *)
(* parent chain of a VMDK (validate_vmdk_components, vms/stream.rs), and   *)
(* the choice of a backend (open_with_options_diagnostic).  The caller has *)
(* asked verify_image_integrity and requires_nbd (vms/discovery.rs) before. *)
(*                                                                         *)
(* Files may be removed between any two accesses.  A file is a record:     *)
(*   layout     "sparse" (KDMV header), "text" (descriptor), "foreign"     *)
(*              (the signature of another format) or "plain"               *)
(*   readable   it can be opened                                           *)
(*   length     "none" (zero), "short" (less than 512) or "full"           *)
(*   mark       the first line of a descriptor is further down in it, or   *)
(*              it starts with "# VMDK"                                    *)
(*   utf8       its text is UTF-8 (an embedded descriptor need not be)     *)
(*   valid      a sparse header is complete                                *)
(*   supported  unsupported_reason() is None                               *)
(*   huge       the grain directory is disproportionate                    *)
(*   directory  the grain directory lies within the file                   *)
(*   described  a sparse header points to an embedded descriptor           *)
(*   whole      ... that is in the file and at most 64 KiB long            *)
(*   parent     parentFileNameHint, resolved, or None                      *)
(*   delta      parentCID names a parent                                   *)
(*   extents    its extents, each [kind, file], file resolved or None      *)
(*   split      createType is twoGbMaxExtent...                            *)
(* A file system is a record [files: path -> file, links: path -> path].   *)
(***************************************************************************)
EXTENDS Integers, Sequences, FiniteSets

CONSTANTS
  FileSystems,  \* what may be on the host's disk
  Extensions,   \* of the image: "raw" (raw, img), "dump" (dd, bin), "vmdk",
                \* "foreign" (qcow2, vdi, vhd, vhdx), "legacy" (qcow, qed), or
                \* "none" (any other)
  Image,        \* the path that is opened
  None,         \* no file
  MaxDepth,     \* MAX_VMDK_PARENT_DEPTH
  MaxRemoved    \* bound: files that are removed meanwhile

ASSUME OpenAssumption ==
  /\ MaxDepth \in Nat /\ MaxRemoved \in Nat
  /\ Extensions \subseteq {"raw", "dump", "vmdk", "foreign", "legacy", "none"}
  /\ Image # None
  /\ \A s \in FileSystems : None \notin DOMAIN s.files

\* A link leads to what is no link (fs::canonicalize), and an empty file has no
\* signature.
ASSUME FilesAssumption ==
  \A s \in FileSystems :
    /\ \A p \in DOMAIN s.links : s.links[p] \notin DOMAIN s.links
    /\ \A p \in DOMAIN s.files :
         LET f == s.files[p] IN
         /\ f.layout \in {"sparse", "text", "foreign", "plain"}
         /\ f.length = "none" => f.layout = "plain"
         /\ f.extents \in Seq({f.extents[i] : i \in DOMAIN f.extents})

VARIABLES
  fs,          \* the host's file system at the beginning
  gone,        \* files removed since
  extension,   \* of the image
  forced,      \* Options::force_nbd
  verdict,     \* what verify_image_integrity answered
  advice,      \* what requires_nbd answered
  format,      \* ImageInfo::format
  pc,          \* where the opening thread stands
  here, depth, visited,  \* arguments of validate_vmdk_components_inner
  descriptor,  \* the descriptor that was read last, in memory
  next,        \* the extent that is looked at
  result

walk == <<here, depth, visited, descriptor, next>>
asked == <<verdict, advice>>
vars == <<fs, gone, extension, forced, asked, format, pc, walk, result>>

Init ==
  /\ fs \in FileSystems /\ gone = {}
  /\ extension \in Extensions /\ forced \in BOOLEAN
  /\ verdict = "none" /\ advice = "none" /\ format = "none" /\ pc = "verify"
  /\ here = Image /\ depth = 0 /\ visited = {} /\ descriptor = <<>> /\ next = 1
  /\ result = "none"

-----------------------------------------------------------------------------

Canonical(p) == IF p \in DOMAIN fs.links THEN fs.links[p] ELSE p
Exists(p) == Canonical(p) \in DOMAIN fs.files \ gone
File(p)   == fs.files[Canonical(p)]

\* fs::canonicalize, or the path itself when that fails.
Identity(p) == IF Exists(p) THEN Canonical(p) ELSE p

HasDescriptor(f) == f.layout = "text" \/ (f.layout = "sparse" /\ f.described)

\* fs::read_to_string refuses a text that is not UTF-8.
Decodes(f) == f.layout = "text" => f.utf8

\* Descriptor::has_parent
HasParent(f) == f.parent # None \/ f.delta

Goto(to) == pc' = to /\ UNCHANGED <<result, walk>>
Return(r) == pc' = "done" /\ result' = r /\ UNCHANGED walk

\* open_main_image_file and open_component_file: how a failure is reported.
Access(p, missing, opened) ==
  \/ ~Exists(p) /\ Return(missing)
  \/ Exists(p) /\ ~File(p).readable /\ Return("io")
  \/ Exists(p) /\ File(p).readable /\ opened

-----------------------------------------------------------------------------
(* verify_image_integrity and requires_nbd. *)

\* The verdicts the image permits.  A signature is not only at the beginning: that
\* of VDI is at 0x40 and that of VHD in a footer too, whatever comes first.
Verdicts(f) ==
  IF f.length = "none" THEN {FALSE}
  ELSE CASE extension = "raw"  -> {f.length = "full"}
         [] extension = "vmdk" -> {f.layout \in {"sparse", "text"} \/ f.mark}
         [] extension = "foreign" -> BOOLEAN
         [] extension \in {"dump", "legacy", "none"} ->
              IF f.layout = "sparse" THEN {TRUE} ELSE BOOLEAN

VerifyImageIntegrity ==
  /\ pc = "verify"
  /\ \/ ~Exists(Image) /\ verdict' = "image_not_found"
     \/ Exists(Image) /\ ~File(Image).readable /\ verdict' = "io"
     \/ /\ Exists(Image) /\ File(Image).readable
        /\ \E v \in Verdicts(File(Image)) :
             verdict' = IF v THEN "sound" ELSE "corrupt"
  /\ Goto("advice")
  /\ UNCHANGED <<fs, gone, extension, forced, advice, format>>

\* Mutant of Requires: only the name of a parent counts, not its content id.
RequiresByName(f) ==
  CASE extension = "raw" -> {FALSE}
    [] extension \in {"dump", "foreign", "legacy", "none"} -> {TRUE}
    [] extension = "vmdk" ->
         CASE f.layout = "sparse" ->
                IF ~f.valid \/ ~f.supported THEN {TRUE}
                ELSE IF f.described /\ (f.parent # None \/ Len(f.extents) > 1)
                     THEN IF f.whole THEN {TRUE} ELSE BOOLEAN
                     ELSE {FALSE}
           [] f.layout = "text" ->
                {\/ f.parent # None \/ Len(f.extents) # 1 \/ f.split
                 \/ f.extents[1].kind \notin {"FLAT", "ZERO"}}
           [] f.layout \in {"foreign", "plain"} -> {TRUE}

\* The answers the image permits.  An embedded descriptor that ends beyond the
\* file is ignored, one longer than 64 KiB is read in part.
Requires(f) ==
  CASE extension = "raw" -> {FALSE}
    [] extension \in {"dump", "foreign", "legacy", "none"} -> {TRUE}
    [] extension = "vmdk" ->
         CASE f.layout = "sparse" ->
                IF ~f.valid \/ ~f.supported THEN {TRUE}
                ELSE IF f.described /\ (HasParent(f) \/ Len(f.extents) > 1)
                     THEN IF f.whole THEN {TRUE} ELSE BOOLEAN
                     ELSE {FALSE}
           [] f.layout = "text" ->
                {\/ HasParent(f) \/ Len(f.extents) # 1 \/ f.split
                 \/ f.extents[1].kind \notin {"FLAT", "ZERO"}}
           [] f.layout \in {"foreign", "plain"} -> {TRUE}

RequiresNbd ==
  /\ pc = "advice"
  /\ \/ ~Exists(Image) /\ advice' = "image_not_found"
     \/ /\ Exists(Image) /\ extension = "vmdk"
        /\ ~File(Image).readable \/ ~Decodes(File(Image))
        /\ advice' = "io"
     \/ /\ Exists(Image)
        /\ extension = "vmdk" => File(Image).readable /\ Decodes(File(Image))
        /\ \E a \in Requires(File(Image)) :
             advice' = IF a THEN "nbd" ELSE "native"
  /\ Goto("identify")
  /\ UNCHANGED <<fs, gone, extension, forced, verdict, format>>

-----------------------------------------------------------------------------
(* identify_image, and what the engine makes of it. *)

FormatByExtension ==
  IF extension = "vmdk" THEN "vmdk"
  ELSE IF extension \in {"foreign", "legacy"} THEN "foreign" ELSE "raw"

\* format_by_signature, else by extension, else raw.
Format(f) ==
  CASE f.layout \in {"sparse", "text"} -> "vmdk"
    [] f.layout = "foreign" -> "foreign"
    [] f.layout = "plain"   -> FormatByExtension

\* Behind it open_with_options_diagnostic and open_native branch on the format.
Identify ==
  /\ pc = "identify"
  /\ Access(Image, "image_not_found",
       \/ /\ File(Image).layout = "sparse" /\ ~File(Image).valid
          /\ Return("io")
       \/ /\ ~(File(Image).layout = "sparse" /\ ~File(Image).valid)
          /\ CASE Format(File(Image)) = "vmdk" -> Goto("enter")
               [] Format(File(Image)) = "raw" ->
                    Goto(IF forced THEN "resolve" ELSE "raw")
               [] Format(File(Image)) = "foreign" ->
                    IF forced THEN Goto("resolve")
                              ELSE Return("unsupported_format"))
  /\ format' = IF Exists(Image) THEN Format(File(Image)) ELSE format
  /\ UNCHANGED <<fs, gone, extension, forced, asked>>

-----------------------------------------------------------------------------
(* validate_vmdk_components_inner. *)

unread == <<fs, gone, extension, forced, asked, format>>

\* Mutant of Enter: the deepest permitted parent is refused.
EnterEarly ==
  /\ pc = "enter"
  /\ \/ (depth >= MaxDepth \/ Identity(here) \in visited) /\ Return("parse")
     \/ /\ depth < MaxDepth /\ Identity(here) \notin visited
        /\ visited' = visited \cup {Identity(here)}
        /\ pc' = "read"
        /\ UNCHANGED <<result, here, depth, descriptor, next>>
  /\ UNCHANGED unread

\* The depth limit, then the cycle check.
Enter ==
  /\ pc = "enter"
  /\ \/ (depth > MaxDepth \/ Identity(here) \in visited) /\ Return("parse")
     \/ /\ depth <= MaxDepth /\ Identity(here) \notin visited
        /\ visited' = visited \cup {Identity(here)}
        /\ pc' = "read"
        /\ UNCHANGED <<result, here, depth, descriptor, next>>
  /\ UNCHANGED unread

\* validate_vmdk_components is done: qemu-nbd, or the native backends.
Validated == Goto(IF forced THEN "resolve" ELSE "open")

Described(f) ==
  /\ descriptor' = f /\ next' = 1
  /\ pc' = "parent"
  /\ UNCHANGED <<result, here, depth, visited>>

\* The header; the descriptor of a sparse file is read through the same handle.
ReadHeader ==
  /\ pc = "read"
  /\ Access(here,
       IF depth = 0 THEN "image_not_found" ELSE "missing_component",
       LET f == File(here) IN
       CASE f.layout = "sparse" /\ ~f.valid -> Return("io")
         [] f.layout = "sparse" /\ f.valid /\ f.described -> Described(f)
         [] f.layout = "text" -> Goto("text")
         [] OTHER -> Validated)
  /\ UNCHANGED unread

\* A text descriptor is opened once more, by its path.
ReadText ==
  /\ pc = "text"
  /\ Access(here, "io",
       \/ ~Decodes(File(here)) /\ Return("io")
       \/ Decodes(File(here)) /\ Described(File(here)))
  /\ UNCHANGED unread

\* validate_parent_reference
CheckParent ==
  /\ pc = "parent"
  /\ LET p == descriptor.parent IN
     \/ p # None /\ ~Exists(p) /\ Return("missing_component")
     \/ (p = None \/ Exists(p)) /\ Goto("extents")
  /\ UNCHANGED unread

\* validate_extent_paths, one extent at a time.
CheckExtent ==
  /\ pc = "extents" /\ next <= Len(descriptor.extents)
  /\ LET e == descriptor.extents[next]
         skipped == e.kind = "ZERO" \/ e.file = None
     IN \/ ~skipped /\ ~Exists(e.file) /\ Return("missing_component")
        \/ /\ skipped \/ Exists(e.file)
           /\ next' = next + 1
           /\ UNCHANGED <<pc, result, here, depth, visited, descriptor>>
  /\ UNCHANGED unread

\* Mutant of Descend: each parent is validated afresh.
DescendAfresh ==
  /\ pc = "extents" /\ next > Len(descriptor.extents)
  /\ \/ descriptor.parent = None /\ Validated
     \/ /\ descriptor.parent # None
        /\ here' = descriptor.parent /\ depth' = 0 /\ visited' = {}
        /\ pc' = "enter"
        /\ UNCHANGED <<result, descriptor, next>>
  /\ UNCHANGED unread

\* On to the parent.
Descend ==
  /\ pc = "extents" /\ next > Len(descriptor.extents)
  /\ \/ descriptor.parent = None /\ Validated
     \/ /\ descriptor.parent # None
        /\ here' = descriptor.parent /\ depth' = depth + 1
        /\ pc' = "enter"
        /\ UNCHANGED <<result, visited, descriptor, next>>
  /\ UNCHANGED unread

-----------------------------------------------------------------------------
(* The backends. *)

\* resolve_qemu_nbd; the session itself is module NbdSession.
ResolveQemuNbd ==
  /\ pc = "resolve"
  /\ Return("nbd") \/ Return("qemu_not_found")
  /\ UNCHANGED unread

OpenRaw ==
  /\ pc = "raw"
  /\ Access(Image, "image_not_found", Return("native"))
  /\ UNCHANGED unread

\* SparseExtent::from_header
FromHeader(f, native) ==
  CASE ~f.supported \/ f.huge  -> Return("unsupported_format")
    [] f.supported /\ ~f.huge /\ ~f.directory -> Return("io")
    [] f.supported /\ ~f.huge /\ f.directory  -> native

\* open_vmdk_native behind the preflight.
OpenVmdk ==
  /\ pc = "open"
  /\ Access(Image, "image_not_found",
       LET f == File(Image) IN
       CASE f.layout = "sparse" ->
              IF f.described /\ (HasParent(f) \/ Len(f.extents) > 1)
              THEN Return("unsupported_format")
              ELSE FromHeader(f, Return("native"))
         [] f.layout = "text" -> Goto("open_text")
         [] f.layout \in {"foreign", "plain"} -> Return("unsupported_format"))
  /\ UNCHANGED unread

OpenText ==
  /\ pc = "open_text"
  /\ Access(Image, "io",
       LET f == File(Image) IN
       \/ ~Decodes(f) /\ Return("io")
       \/ /\ Decodes(f) /\ (HasParent(f) \/ f.extents = <<>>)
          /\ Return("unsupported_format")
       \/ /\ Decodes(f) /\ ~HasParent(f) /\ f.extents # <<>>
          /\ descriptor' = f /\ next' = 1 /\ pc' = "extent"
          /\ UNCHANGED <<result, here, depth, visited>>)
  /\ UNCHANGED unread

FlatKinds   == {"FLAT", "VMFS", "VMFSRAW"}
SparseKinds == {"SPARSE", "VMFSSPARSE"}

NextExtent ==
  next' = next + 1 /\ UNCHANGED <<pc, result, here, depth, visited, descriptor>>

\* One turn of the loop over the extents; behind the last the backend is ready.
OpenExtent ==
  /\ pc = "extent"
  /\ \/ next > Len(descriptor.extents) /\ Return("native")
     \/ /\ next <= Len(descriptor.extents)
        /\ LET e == descriptor.extents[next] IN
           CASE e.kind = "ZERO" -> NextExtent
             [] e.kind \in FlatKinds /\ e.file # None ->
                  Access(e.file, "missing_component", NextExtent)
             [] e.kind \in SparseKinds /\ e.file # None ->
                  Access(e.file, "missing_component",
                    LET f == File(e.file) IN
                    IF f.layout = "sparse" /\ f.valid
                    THEN FromHeader(f, NextExtent) ELSE Return("io"))
             [] OTHER -> Return("unsupported_format")
  /\ UNCHANGED unread

\* Somebody else removes a file.
Remove ==
  /\ pc # "done" /\ Cardinality(gone) < MaxRemoved
  /\ \E p \in DOMAIN fs.files \ gone : gone' = gone \cup {p}
  /\ UNCHANGED <<fs, extension, forced, asked, format, pc, walk, result>>

-----------------------------------------------------------------------------

Step ==
  \/ VerifyImageIntegrity \/ RequiresNbd \/ Identify
  \/ Enter \/ ReadHeader \/ ReadText \/ CheckParent \/ CheckExtent \/ Descend
  \/ ResolveQemuNbd \/ OpenRaw \/ OpenVmdk \/ OpenText \/ OpenExtent

Next == Step \/ Remove

Spec == Init /\ [][Next]_vars

\* The opening thread runs.
FairSpec == Spec /\ WF_vars(Step)

-----------------------------------------------------------------------------
(* Properties. *)

\* The chain of parents of the image, as the files declare it.
WasThere(p) == Canonical(p) \in DOMAIN fs.files
ParentOf(p) ==
  IF p # None /\ WasThere(p) /\ HasDescriptor(File(p))
  THEN File(p).parent ELSE None
Ancestor[k \in 0 .. MaxDepth + 1] ==
  IF k = 0 THEN Image ELSE ParentOf(Ancestor[k - 1])

Chain == {Ancestor[k] : k \in 0 .. MaxDepth} \ {None}
TooDeep == Ancestor[MaxDepth + 1] # None
Cyclic ==
  \E i, j \in 0 .. MaxDepth + 1 :
    /\ i < j /\ Ancestor[j] # None
    /\ Canonical(Ancestor[i]) = Canonical(Ancestor[j])

ExtentFiles(p) ==
  IF WasThere(p) /\ HasDescriptor(File(p))
  THEN LET x == File(p).extents
       IN {x[i].file : i \in {j \in DOMAIN x : x[j].kind # "ZERO"}} \ {None}
  ELSE {}
Components ==
  ({Ancestor[k] : k \in 1 .. MaxDepth + 1} \ {None})
    \cup UNION {ExtentFiles(p) : p \in Chain}

\* What the preflight says of a VMDK is true, whatever is removed meanwhile: a
\* backend is only chosen, and the format or the tools are only blamed, for a
\* chain without a cycle, within the depth limit and with every parent and
\* extent in place when the call began; a component or an image reported as
\* missing is missing; and a chain is refused only for being cyclic or too deep.
PreflightTruthful ==
  /\ format = "vmdk"
       /\ result \in {"native", "unsupported_format", "nbd", "qemu_not_found"}
       => ~Cyclic /\ ~TooDeep /\ \A p \in Components : WasThere(p)
  /\ result = "missing_component" => \E p \in Components : ~Exists(p)
  /\ result = "image_not_found" => ~Exists(Image)
  /\ result = "parse" => Cyclic \/ TooDeep

\* verify_image_integrity, requires_nbd and the native opener decide separately.
\* On files that stay as they are, they disagree in these cases only.
PromisesTooMuch(f) ==
  \/ extension = "raw" /\ f.layout # "plain"
  \/ f.layout = "sparse" /\ (f.huge \/ ~f.whole)
  \/ f.layout = "text"
       /\ \E i \in DOMAIN f.extents :
            f.extents[i].kind # "ZERO" /\ f.extents[i].file = None
PromisesTooLittle(f) ==
  \/ extension # "vmdk"
  \/ f.layout = "text"
       /\ (Len(f.extents) > 1 \/ f.split
             \/ f.extents[1].kind \notin {"FLAT", "ZERO"})
OpensDoubted(f) ==
  \/ extension = "raw" /\ f.length # "full"
  \/ extension = "foreign" /\ f.layout # "foreign"
  \/ extension \in {"dump", "legacy", "none"} /\ f.layout # "sparse"
Damaged(f) ==
  \/ f.layout = "sparse" /\ ~f.directory
  \/ HasDescriptor(f)
       /\ \E i \in DOMAIN f.extents :
            /\ f.extents[i].kind # "ZERO" /\ f.extents[i].file # None
            /\ \/ ~Exists(f.extents[i].file)
               \/ f.layout = "text" /\ ~File(f.extents[i].file).readable
RoutingAgrees ==
  gone = {} /\ ~forced =>
    /\ verdict = "corrupt" /\ result = "native" => OpensDoubted(File(Image))
    /\ verdict = "sound" /\ advice = "native" /\ result \notin {"none", "native"}
         => PromisesTooMuch(File(Image)) \/ Damaged(File(Image))
    /\ advice = "native" /\ result = "unsupported_format"
         => PromisesTooMuch(File(Image))
    /\ advice = "nbd" /\ result = "native" => PromisesTooLittle(File(Image))

\* Opening ends with an answer, on chains of parents that lead back to
\* themselves, under another name too, and on chains of any length.
OpenReturns == <>(result # "none")

-----------------------------------------------------------------------------
(* What these need to be inductive. *)

Walking == {"enter", "read", "text", "parent", "extents"}

\* What the preflight vouches for.
Intact == ~Cyclic /\ ~TooDeep /\ \A p \in Components : WasThere(p)

Apart(d) ==
  \A i, j \in 0 .. d : i < j => Canonical(Ancestor[i]) # Canonical(Ancestor[j])
Identities(d) == {Canonical(Ancestor[i]) : i \in 0 .. d}

\* The walk has come to file h, the ancestor of depth d: the files before it were
\* there, with their extents, and are different ones.
Reached(d, h) ==
  /\ d \in 0 .. MaxDepth + 1 /\ h = Ancestor[d] /\ h # None
  /\ \A i \in 1 .. d : WasThere(Ancestor[i])
  /\ \A i \in 0 .. d - 1 : \A p \in ExtentFiles(Ancestor[i]) : WasThere(p)
  /\ Apart(d - 1)

\* File h was there too, and is not one of those before it.
Met(d, h, seen) ==
  d <= MaxDepth /\ WasThere(h) /\ Apart(d) /\ seen = Identities(d)

\* Its parent was there, and its extents up to the n-th.
Listed(f, n) ==
  /\ f.parent # None => WasThere(f.parent)
  /\ \A i \in 1 .. n - 1 :
       f.extents[i].kind # "ZERO" /\ f.extents[i].file # None
         => WasThere(f.extents[i].file)

WalkInv ==
  /\ fs \in FileSystems
  /\ pc # "done" => result = "none"
  /\ pc \in {"verify", "advice", "identify"} =>
       here = Image /\ depth = 0 /\ visited = {}
  /\ pc \in Walking => Reached(depth, here)
  /\ pc = "enter" => visited = Identities(depth - 1)
  /\ pc = "read" => depth <= MaxDepth /\ (Exists(here) => Met(depth, here, visited))
  /\ pc \in {"text", "parent", "extents"} => Met(depth, here, visited)
  /\ pc = "text" => File(here).layout = "text"
  /\ pc \in {"parent", "extents"} =>
       descriptor = File(here) /\ HasDescriptor(descriptor)
  /\ pc = "parent" => next = 1
  /\ pc = "extents" => Listed(descriptor, next)
  /\ pc \in {"parent", "extents", "extent"} => next \in Nat \ {0}
  /\ pc \in {"raw", "open", "open_text", "extent", "resolve"} /\ format = "vmdk" => Intact
  /\ pc \in {"open_text", "extent"} => WasThere(Image) /\ File(Image).layout = "text"
  /\ pc = "extent" => descriptor = File(Image)

OpenInv == WalkInv /\ PreflightTruthful

\* What the three judges have seen of the same file, if nothing is removed.
RouteInv ==
  gone = {} /\ ~forced =>
    LET f == File(Image) IN
    /\ extension \in Extensions /\ pc # "resolve"
    /\ verdict \in {"sound", "corrupt"} => Exists(Image) /\ f.readable
    /\ verdict = "sound" => TRUE \in Verdicts(f)
    /\ verdict = "corrupt" => FALSE \in Verdicts(f)
    /\ advice \in {"native", "nbd"} =>
         Exists(Image) /\ (extension = "vmdk" => Decodes(f))
    /\ advice = "nbd" => TRUE \in Requires(f)
    /\ advice = "native" => FALSE \in Requires(f)
    /\ pc = "raw" => Exists(Image) /\ f.readable /\ Format(f) = "raw"
    /\ pc \in Walking \cup {"open", "open_text", "extent"} =>
         /\ Exists(Image) /\ f.readable /\ Format(f) = "vmdk"
         /\ f.layout = "sparse" => f.valid
    /\ pc = "extent" => ~HasParent(f) /\ f.extents # <<>>
    /\ pc \in Walking /\ advice = "native" /\ ~PromisesTooMuch(f) =>
         /\ here = Image /\ depth = 0
         /\ pc = "enter" => visited = {}
    /\ RoutingAgrees
=============================================================================
