--------------------------- MODULE VmdkOpenProofs ---------------------------
(***************************************************************************)
(* Proofs about the opening of an image, for all file systems, any limit   *)
(* on the depth and any number of files removed meanwhile: what the        *)
(* preflight of a VMDK says is true, and verify_image_integrity,           *)
(* requires_nbd and the native opener disagree only where the model says.  *)
(***************************************************************************)
EXTENDS VmdkOpen, WellFoundedInduction, TLAPS

-----------------------------------------------------------------------------
(* The chain of parents. *)

\* Induction, as the existence of a least counterexample.
LEMMA Least ==
  ASSUME NEW T, T \subseteq Nat, T # {}
  PROVE  \E n \in T : \A m \in T : n <= m
<1> DEFINE R == OpToRel(<, Nat)
<1>1. IsWellFoundedOn(R, Nat)
  BY NatLessThanWellFounded
<1>2. \A x, y \in Nat : <<y, x>> \in R <=> y < x
  BY DEF OpToRel
<1> HIDE DEF R
<1>3. PICK x \in T : \A y \in T : ~(<<y, x>> \in R)
  BY <1>1, WFMin
<1>4. ASSUME NEW y \in T PROVE x <= y
  <2>1. x \in Nat /\ y \in Nat /\ ~(<<y, x>> \in R)
    BY <1>3
  <2>2. ~(y < x)
    BY <1>2, <2>1
  <2> QED BY <2>1, <2>2
<1> QED BY <1>4

\* The recursion of Ancestor has a solution, so Ancestor is one.
LEMMA AncestorIs ==
  /\ Ancestor[0] = Image
  /\ \A k \in 0 .. MaxDepth : Ancestor[k + 1] = ParentOf(Ancestor[k])
<1> DEFINE Solves(g, n) ==
             g = [k \in 0 .. n |-> IF k = 0 THEN Image ELSE ParentOf(g[k - 1])]
           T == {n \in Nat : ~\E g : Solves(g, n)}
<1>0. MaxDepth \in Nat
  BY OpenAssumption
<1>1. T = {}
  <2> SUFFICES ASSUME T # {} PROVE FALSE
    OBVIOUS
  <2>1. PICK n \in T : \A m \in T : n <= m
    <3>1. T \subseteq Nat
      OBVIOUS
    <3> HIDE DEF T
    <3> QED BY <3>1, Least
  <2>2. CASE n = 0
    <3> DEFINE g == [k \in 0 .. 0 |-> Image]
    <3>0. \A k \in 0 .. 0 : k = 0
      OBVIOUS
    <3>1. Solves(g, 0)
      BY <3>0
    <3> QED BY <2>1, <2>2, <3>1
  <2>3. CASE n # 0
    <3>0. n \in Nat
      OBVIOUS
    <3>1. n - 1 \in Nat /\ n - 1 \notin T
      <4> HIDE DEF T
      <4> QED BY <2>1, <2>3, <3>0
    <3>2. PICK g : Solves(g, n - 1)
      BY <3>1
    <3> DEFINE h == [k \in 0 .. n |-> IF k = n THEN ParentOf(g[n - 1]) ELSE g[k]]
    <3>3. \A k \in 0 .. n : h[k] = IF k = 0 THEN Image ELSE ParentOf(h[k - 1])
      <4> TAKE k \in 0 .. n
      <4>1. CASE k = 0
        <5>1. k # n /\ 0 \in 0 .. n - 1
          BY <2>3, <3>1, <4>1
        <5>2. g[0] = Image
          BY <3>2, <5>1
        <5> QED BY <4>1, <5>1, <5>2
      <4>2. CASE k # 0 /\ k = n
        <5>1. k - 1 \in 0 .. n /\ k - 1 # n /\ k - 1 = n - 1
          BY <3>1, <4>2
        <5> QED BY <4>2, <5>1
      <4>3. CASE k # 0 /\ k # n
        <5>1. k \in 0 .. n - 1 /\ k - 1 \in 0 .. n /\ k - 1 # n
          BY <3>1, <4>3
        <5>2. g[k] = ParentOf(g[k - 1])
          BY <3>2, <4>3, <5>1
        <5> QED BY <4>3, <5>1, <5>2
      <4> QED BY <4>1, <4>2, <4>3
    <3>4. h = [k \in 0 .. n |-> h[k]]
      OBVIOUS
    <3> HIDE DEF h
    <3>5. Solves(h, n)
      BY <3>3, <3>4
    <3> QED BY <2>1, <3>5
  <2> QED BY <2>2, <2>3
<1>2. \E g : Solves(g, MaxDepth + 1)
  <2>1. MaxDepth + 1 \in Nat
    BY <1>0
  <2> QED BY <1>1, <2>1
<1>3. Ancestor = [k \in 0 .. MaxDepth + 1 |->
                    IF k = 0 THEN Image ELSE ParentOf(Ancestor[k - 1])]
  BY <1>2 DEF Ancestor
<1>4. Ancestor[0] = Image
  <2>1. 0 \in 0 .. MaxDepth + 1
    BY <1>0
  <2> QED BY <1>3, <2>1
<1>5. ASSUME NEW k \in 0 .. MaxDepth PROVE Ancestor[k + 1] = ParentOf(Ancestor[k])
  <2>1. k + 1 \in 0 .. MaxDepth + 1 /\ k + 1 # 0 /\ (k + 1) - 1 = k
    BY <1>0
  <2> QED BY <1>3, <2>1
<1> QED BY <1>4, <1>5

\* Behind the last file of a chain there is none.
LEMMA AfterEnd ==
  ASSUME NEW d \in 0 .. MaxDepth, Ancestor[d + 1] = None
  PROVE  \A k \in d + 1 .. MaxDepth + 1 : Ancestor[k] = None
<1> DEFINE T == {k \in d + 1 .. MaxDepth + 1 : Ancestor[k] # None}
<1>0. MaxDepth \in Nat /\ d \in Nat
  BY OpenAssumption
<1> SUFFICES ASSUME T # {} PROVE FALSE
  OBVIOUS
<1>1. PICK k \in T : \A m \in T : k <= m
  <2>1. T \subseteq Nat
    BY <1>0
  <2> HIDE DEF T
  <2> QED BY <2>1, Least
<1>2. k # d + 1
  BY <1>1
<1>3. k - 1 \in d + 1 .. MaxDepth + 1 /\ k - 1 \notin T /\ k - 1 \in 0 .. MaxDepth /\ (k - 1) + 1 = k
  BY <1>0, <1>1, <1>2
<1>4. Ancestor[k - 1] = None
  BY <1>3
<1>5. Ancestor[k] = ParentOf(None)
  BY <1>3, <1>4, AncestorIs
<1> QED BY <1>1, <1>5 DEF ParentOf

\* A canonical path leads to itself.
LEMMA CanonicalTwice ==
  ASSUME fs \in FileSystems, NEW p
  PROVE  Canonical(Canonical(p)) = Canonical(p)
BY FilesAssumption DEF Canonical

-----------------------------------------------------------------------------
(* The file system does not change, save for the files that are removed. *)

\* WalkInv of the next state, in terms of this state's file system.
WalkGoes ==
  /\ pc' # "done" => result' = "none"
  /\ pc' \in {"verify", "advice", "identify"} =>
       here' = Image /\ depth' = 0 /\ visited' = {}
  /\ pc' \in Walking => Reached(depth', here')
  /\ pc' = "enter" => visited' = Identities(depth' - 1)
  /\ pc' = "read" =>
       depth' <= MaxDepth /\ (Exists(here') => Met(depth', here', visited'))
  /\ pc' \in {"text", "parent", "extents"} => Met(depth', here', visited')
  /\ pc' = "text" => File(here').layout = "text"
  /\ pc' \in {"parent", "extents"} =>
       descriptor' = File(here') /\ HasDescriptor(descriptor')
  /\ pc' = "parent" => next' = 1
  /\ pc' = "extents" => Listed(descriptor', next')
  /\ pc' \in {"parent", "extents", "extent"} => next' \in Nat \ {0}
  /\ pc' \in {"raw", "open", "open_text", "extent", "resolve"} /\ format' = "vmdk" => Intact
  /\ pc' \in {"open_text", "extent"} => WasThere(Image) /\ File(Image).layout = "text"
  /\ pc' = "extent" => descriptor' = File(Image)

\* PreflightTruthful of an answer, likewise.
Truth(fm, r) ==
  /\ fm = "vmdk" /\ r \in {"native", "unsupported_format", "nbd", "qemu_not_found"}
       => Intact
  /\ r = "missing_component" => \E p \in Components : ~Exists(p)
  /\ r = "image_not_found" => ~Exists(Image)
  /\ r = "parse" => Cyclic \/ TooDeep

\* Files are only ever removed.
LEMMA OnlyRemoved ==
  ASSUME [Next]_vars
  PROVE  fs' = fs /\ gone \subseteq gone'
<1>1. CASE Step
  BY <1>1 DEF Step, VerifyImageIntegrity, RequiresNbd, Identify, Enter, ReadHeader, ReadText,
              CheckParent, CheckExtent, Descend, ResolveQemuNbd, OpenRaw, OpenVmdk, OpenText,
              OpenExtent, unread
<1>2. CASE Remove
  BY <1>2 DEF Remove
<1>3. CASE UNCHANGED vars
  BY <1>3 DEF vars
<1> QED BY <1>1, <1>2, <1>3 DEF Next

\* What is said of the file system at the beginning stays as it is.
LEMMA ChainKept ==
  ASSUME fs' = fs
  PROVE  /\ Ancestor' = Ancestor /\ Components' = Components
         /\ (Cyclic' <=> Cyclic) /\ (TooDeep' <=> TooDeep) /\ (Intact' <=> Intact)
<1>1. Ancestor' = Ancestor
  BY DEF Ancestor, ParentOf, WasThere, HasDescriptor, File, Canonical
<1>2. Cyclic' <=> Cyclic
  BY <1>1 DEF Cyclic, Canonical
<1>3. TooDeep' <=> TooDeep
  BY <1>1 DEF TooDeep
<1>4. Chain' = Chain
  BY <1>1 DEF Chain
<1>5. \A p : ExtentFiles(p)' = ExtentFiles(p)
  BY DEF ExtentFiles, WasThere, HasDescriptor, File, Canonical
<1>6. Components' = Components
  BY <1>1, <1>4, <1>5 DEF Components
<1>7. \A p : WasThere(p)' <=> WasThere(p)
  BY DEF WasThere, Canonical
<1>8. Intact' <=> Intact
  BY <1>2, <1>3, <1>6, <1>7 DEF Intact
<1> QED BY <1>1, <1>2, <1>3, <1>6, <1>8

LEMMA TruthStays ==
  ASSUME fs' = fs, gone \subseteq gone', Truth(format', result')
  PROVE  PreflightTruthful'
<1>1. \A p : Exists(p)' => Exists(p)
  BY DEF Exists, Canonical
<1>2. Intact' => (~Cyclic /\ ~TooDeep /\ \A p \in Components : WasThere(p))'
  BY DEF Intact
<1>3. result' = "missing_component" => \E p \in Components' : ~Exists(p)'
  BY <1>1, ChainKept DEF Truth
<1> QED BY <1>1, <1>2, <1>3, ChainKept DEF Truth, PreflightTruthful

LEMMA WalkStays ==
  ASSUME WalkInv, fs' = fs, gone \subseteq gone', WalkGoes
  PROVE  WalkInv'
<1>1. /\ Ancestor' = Ancestor /\ (Intact' <=> Intact)
  BY ChainKept
<1>2. Reached(depth, here)' <=> Reached(depth', here')
  BY <1>1 DEF Reached, WasThere, Canonical, ExtentFiles, HasDescriptor, File, Apart
<1>3. Identities(depth - 1)' = Identities(depth' - 1)
  BY <1>1 DEF Identities, Canonical
<1>4. Met(depth, here, visited)' <=> Met(depth', here', visited')
  BY <1>1 DEF Met, Identities, Canonical, WasThere, Apart
<1>5. Exists(here)' => Exists(here')
  BY DEF Exists, Canonical
<1>6. File(here)' = File(here') /\ File(Image)' = File(Image)
  BY DEF File, Canonical
<1>7. Listed(descriptor, next)' <=> Listed(descriptor', next')
  BY DEF Listed, WasThere, Canonical
<1>8. (WasThere(Image)' <=> WasThere(Image)) /\ (HasDescriptor(descriptor)' <=> HasDescriptor(descriptor'))
  BY DEF WasThere, Canonical, HasDescriptor
<1>9. fs' \in FileSystems
  BY DEF WalkInv
<1> QED BY <1>1, <1>2, <1>3, <1>4, <1>5, <1>6, <1>7, <1>8, <1>9 DEF WalkGoes, WalkInv

\* A chain that ends here, whose files were all there and are different.
LEMMA ChainIsIntact ==
  ASSUME NEW d \in 0 .. MaxDepth, ParentOf(Ancestor[d]) = None,
         \A i \in 1 .. d : WasThere(Ancestor[i]),
         \A i \in 0 .. d : \A p \in ExtentFiles(Ancestor[i]) : WasThere(p),
         Apart(d)
  PROVE  Intact
<1>0. MaxDepth \in Nat /\ d \in Nat /\ d <= MaxDepth
  BY OpenAssumption
<1>1. \A k \in d + 1 .. MaxDepth + 1 : Ancestor[k] = None
  <2>1. Ancestor[d + 1] = None
    BY AncestorIs
  <2> QED BY <2>1, AfterEnd
<1>2. \A k \in 0 .. MaxDepth + 1 : Ancestor[k] # None => k <= d
  BY <1>0, <1>1
<1>3. ~TooDeep
  <2>1. MaxDepth + 1 \in d + 1 .. MaxDepth + 1
    BY <1>0
  <2> QED BY <1>1, <2>1 DEF TooDeep
<1>4. ~Cyclic
  <2> SUFFICES ASSUME NEW i \in 0 .. MaxDepth + 1, NEW j \in 0 .. MaxDepth + 1,
                      i < j, Ancestor[j] # None
               PROVE  Canonical(Ancestor[i]) # Canonical(Ancestor[j])
    BY DEF Cyclic
  <2>1. i \in 0 .. d /\ j \in 0 .. d
    BY <1>0, <1>2
  <2> QED BY <2>1 DEF Apart
<1>5. ASSUME NEW p \in Components PROVE WasThere(p)
  <2>1. CASE p \in {Ancestor[k] : k \in 1 .. MaxDepth + 1} \ {None}
    <3>1. PICK k \in 1 .. MaxDepth + 1 : p = Ancestor[k] /\ Ancestor[k] # None
      BY <2>1
    <3>2. k \in 0 .. MaxDepth + 1
      BY <1>0
    <3>3. k \in 1 .. d
      BY <1>0, <1>2, <3>1, <3>2
    <3> QED BY <3>1, <3>3
  <2>2. CASE p \in UNION {ExtentFiles(q) : q \in Chain}
    <3>1. PICK q \in Chain : p \in ExtentFiles(q)
      BY <2>2
    <3>2. PICK k \in 0 .. MaxDepth : q = Ancestor[k] /\ Ancestor[k] # None
      BY DEF Chain
    <3>3. k \in 0 .. MaxDepth + 1
      BY <1>0
    <3>4. k \in 0 .. d
      BY <1>0, <1>2, <3>2, <3>3
    <3> QED BY <3>1, <3>2, <3>4
  <2> QED BY <2>1, <2>2 DEF Components
<1> QED BY <1>3, <1>4, <1>5 DEF Intact

-----------------------------------------------------------------------------
(* Every step tells the truth. *)

\* What a file that was there is like.
LEMMA FileIs ==
  ASSUME fs \in FileSystems, NEW p, WasThere(p)
  PROVE  /\ File(p).layout \in {"sparse", "text", "foreign", "plain"}
         /\ File(p).length = "none" => File(p).layout = "plain"
         /\ Len(File(p).extents) \in Nat
         /\ DOMAIN File(p).extents = 1 .. Len(File(p).extents)
         /\ File(p).extents # <<>> <=> Len(File(p).extents) # 0
<1>1. /\ File(p).layout \in {"sparse", "text", "foreign", "plain"}
      /\ File(p).length = "none" => File(p).layout = "plain"
      /\ File(p).extents \in Seq({File(p).extents[i] : i \in DOMAIN File(p).extents})
  BY FilesAssumption DEF WasThere, File
<1> DEFINE x == File(p).extents
           S == {x[i] : i \in DOMAIN x}
<1>2. x \in Seq(S)
  BY <1>1
<1> HIDE DEF x, S
<1>3. Len(x) \in Nat /\ DOMAIN x = 1 .. Len(x) /\ (x # <<>> <=> Len(x) # 0)
  BY <1>2
<1> QED BY <1>1, <1>3 DEF x

\* An answer, once it is true.
LEMMA Answered ==
  ASSUME NEW r, Return(r), format' = format \/ r \notin {"native", "unsupported_format", "nbd", "qemu_not_found"},
         Truth(format, r)
  PROVE  WalkGoes /\ Truth(format', result')
BY DEF Return, WalkGoes, Truth, Walking

\* What the three judges are asked before the walk begins.
LEMMA AskingStep ==
  ASSUME WalkInv, VerifyImageIntegrity \/ RequiresNbd \/ Identify
  PROVE  WalkGoes /\ Truth(format', result')
<1>1. CASE VerifyImageIntegrity
  BY <1>1 DEF VerifyImageIntegrity, Goto, walk, WalkInv, WalkGoes, Walking, Truth
<1>2. CASE RequiresNbd
  BY <1>2 DEF RequiresNbd, Goto, walk, WalkInv, WalkGoes, Walking, Truth
<1>3. CASE Identify
  <2>0. /\ pc = "identify" /\ result = "none" /\ here = Image /\ depth = 0 /\ visited = {}
        /\ fs \in FileSystems
    BY <1>3 DEF Identify, WalkInv
  <2>1. CASE ~Exists(Image) /\ Return("image_not_found")
    BY <1>3, <2>1, Answered DEF Identify, Truth
  <2>2. CASE Return("io")
    <3>1. Truth(format, "io")
      BY DEF Truth
    <3> QED BY <2>2, <3>1, Answered
  <2>3. ASSUME Exists(Image), ~Return("io")
        PROVE  WalkGoes /\ Truth(format', result')
    <3> DEFINE f == File(Image)
    <3>1. f.layout \in {"sparse", "text", "foreign", "plain"}
      BY <2>0, <2>3, FileIs DEF Exists, WasThere
    <3>2. /\ format' = Format(f) /\ Format(f) \in {"vmdk", "raw", "foreign"}
      <4>1. Format(f) \in {"vmdk", "raw", "foreign"}
        BY <3>1 DEF Format, FormatByExtension
      <4> QED BY <1>3, <2>3, <4>1 DEF Identify
    <3>3. CASE Format(f) = "vmdk"
      <4>1. Goto("enter")
        BY <1>3, <2>3, <3>3 DEF Identify, Access
      <4>2. pc' = "enter" /\ result' = "none" /\ here' = Image /\ depth' = 0 /\ visited' = {}
        BY <2>0, <4>1 DEF Goto, walk
      <4>3. Reached(0, Image) /\ Identities(0 - 1) = {}
        <5>1. 0 - 1 = -1 /\ 0 .. -1 = {} /\ 1 .. 0 = {} /\ 0 \in 0 .. MaxDepth + 1
          BY OpenAssumption
        <5> QED BY <5>1, AncestorIs, OpenAssumption DEF Reached, Identities, Apart
      <4> QED BY <4>2, <4>3 DEF WalkGoes, Walking, Truth
    <3>4. CASE Format(f) # "vmdk"
      <4>1. Goto("resolve") \/ Goto("raw") \/ Return("unsupported_format")
        BY <1>3, <2>3, <3>2, <3>4 DEF Identify, Access
      <4>2. /\ format' # "vmdk"
            /\ \/ pc' \in {"resolve", "raw"} /\ result' = "none"
               \/ pc' = "done" /\ result' = "unsupported_format"
        BY <2>0, <3>2, <3>4, <4>1 DEF Goto, Return
      <4> QED BY <4>2 DEF WalkGoes, Walking, Truth
    <3> QED BY <3>3, <3>4
  <2> QED BY <1>3, <2>1, <2>2, <2>3 DEF Identify, Access
<1> QED BY <1>1, <1>2, <1>3

\* The depth limit and the cycle check: a chain that is refused deserves it.
LEMMA EnterStep ==
  ASSUME WalkInv, Enter
  PROVE  WalkGoes /\ Truth(format', result')
<1>0. /\ pc = "enter" /\ result = "none" /\ Reached(depth, here) /\ fs \in FileSystems
      /\ visited = Identities(depth - 1) /\ format' = format
  BY DEF Enter, WalkInv, Walking, unread
<1>1. MaxDepth \in Nat /\ depth \in 0 .. MaxDepth + 1 /\ here = Ancestor[depth] /\ here # None
  BY <1>0, OpenAssumption DEF Reached
<1>2. Canonical(here) \in Identities(depth - 1) => Cyclic
  <2> SUFFICES ASSUME Canonical(here) \in Identities(depth - 1) PROVE Cyclic
    OBVIOUS
  <2>1. PICK i \in 0 .. depth - 1 : Canonical(here) = Canonical(Ancestor[i])
    BY DEF Identities
  <2>2. i \in 0 .. MaxDepth + 1 /\ i < depth
    BY <1>1
  <2> QED BY <1>1, <2>1, <2>2 DEF Cyclic
<1>3. CASE (depth > MaxDepth \/ Identity(here) \in visited) /\ Return("parse")
  <2>1. CASE depth > MaxDepth
    <3>1. depth = MaxDepth + 1
      BY <1>1, <2>1
    <3>2. TooDeep
      BY <1>1, <3>1 DEF TooDeep
    <3> QED BY <1>0, <1>3, <3>2, Answered DEF Truth
  <2>2. CASE Identity(here) \in visited
    <3>1. Canonical(here) \in Identities(depth - 1)
      <4>1. CASE Exists(here)
        BY <1>0, <2>2, <4>1 DEF Identity
      <4>2. CASE ~Exists(here)
        <5>1. here \in Identities(depth - 1)
          BY <1>0, <2>2, <4>2 DEF Identity
        <5>2. PICK i \in 0 .. depth - 1 : here = Canonical(Ancestor[i])
          BY <5>1 DEF Identities
        <5>3. Canonical(here) = here
          BY <1>0, <5>2, CanonicalTwice
        <5> QED BY <5>1, <5>3
      <4> QED BY <4>1, <4>2
    <3> QED BY <1>0, <1>2, <1>3, <3>1, Answered DEF Truth
  <2> QED BY <1>3, <2>1, <2>2
<1>4. CASE /\ depth <= MaxDepth /\ Identity(here) \notin visited
           /\ visited' = visited \cup {Identity(here)}
           /\ pc' = "read"
           /\ UNCHANGED <<result, here, depth, descriptor, next>>
  <2>1. Exists(here) => Met(depth, here, visited')
    <3> SUFFICES ASSUME Exists(here) PROVE Met(depth, here, visited')
      OBVIOUS
    <3>1. WasThere(here)
      BY DEF Exists, WasThere
    <3>2. Identity(here) = Canonical(here) /\ Canonical(here) \notin Identities(depth - 1)
      BY <1>0, <1>4 DEF Identity
    <3>3. visited' = Identities(depth)
      <4>1. \A i \in 0 .. depth : i \in 0 .. depth - 1 \/ i = depth
        BY <1>1
      <4>2. depth \in 0 .. depth /\ \A i \in 0 .. depth - 1 : i \in 0 .. depth
        BY <1>1
      <4> QED BY <1>0, <1>1, <1>4, <3>2, <4>1, <4>2 DEF Identities
    <3>4. Apart(depth)
      <4> SUFFICES ASSUME NEW i \in 0 .. depth, NEW j \in 0 .. depth, i < j
                   PROVE  Canonical(Ancestor[i]) # Canonical(Ancestor[j])
        BY DEF Apart
      <4>1. i \in 0 .. depth - 1 /\ (j \in 0 .. depth - 1 \/ j = depth)
        BY <1>1
      <4>2. CASE j = depth
        BY <1>1, <3>2, <4>1, <4>2 DEF Identities
      <4>3. CASE j \in 0 .. depth - 1
        BY <1>0, <4>1, <4>3 DEF Reached, Apart
      <4> QED BY <4>1, <4>2, <4>3
    <3> QED BY <1>4, <3>1, <3>3, <3>4 DEF Met
  <2> QED BY <1>0, <1>4, <2>1 DEF WalkGoes, Walking, Truth
<1> QED BY <1>3, <1>4 DEF Enter

\* A file that was met has the next ancestor as its parent.
LEMMA ParentIs ==
  ASSUME Reached(depth, here), Met(depth, here, visited)
  PROVE  /\ depth \in 0 .. MaxDepth /\ MaxDepth \in Nat
         /\ Ancestor[depth + 1] = ParentOf(here)
         /\ HasDescriptor(File(here)) => ParentOf(here) = File(here).parent
         /\ ~HasDescriptor(File(here)) => ParentOf(here) = None /\ ExtentFiles(here) = {}
<1>1. depth \in 0 .. MaxDepth /\ MaxDepth \in Nat
  BY OpenAssumption DEF Reached, Met
<1>2. Ancestor[depth + 1] = ParentOf(here)
  BY <1>1, AncestorIs DEF Reached
<1> QED BY <1>1, <1>2 DEF ParentOf, ExtentFiles, Met, Reached

\* The end of the chain: everything the preflight vouches for has been seen.
LEMMA WalkEnds ==
  ASSUME Reached(depth, here), Met(depth, here, visited), ParentOf(here) = None,
         \A p \in ExtentFiles(here) : WasThere(p)
  PROVE  Intact
<1>1. depth \in 0 .. MaxDepth /\ depth \in Nat /\ here = Ancestor[depth] /\ Apart(depth)
  BY ParentIs DEF Reached, Met
<1>2. ASSUME NEW i \in 0 .. depth PROVE \A p \in ExtentFiles(Ancestor[i]) : WasThere(p)
  <2>1. CASE i = depth
    BY <1>1, <2>1
  <2>2. CASE i # depth
    <3>1. i \in 0 .. depth - 1
      BY <1>1, <2>2
    <3> QED BY <3>1 DEF Reached
  <2> QED BY <2>1, <2>2
<1>3. \A i \in 1 .. depth : WasThere(Ancestor[i])
  BY DEF Reached
<1> QED BY <1>1, <1>2, <1>3, ChainIsIntact

\* The preflight is done, and the chain is intact.
LEMMA ValidatedGoes ==
  ASSUME Validated, Intact, result = "none", format' = format
  PROVE  WalkGoes /\ Truth(format', result')
<1>1. pc' \in {"resolve", "open"} /\ result' = "none"
  BY DEF Validated, Goto
<1> QED BY <1>1 DEF WalkGoes, Walking, Truth

\* A descriptor has been read from the file that the walk has come to.
LEMMA DescribedGoes ==
  ASSUME Described(File(here)), HasDescriptor(File(here)), result = "none",
         Reached(depth, here), Met(depth, here, visited)
  PROVE  WalkGoes /\ Truth(format', result')
<1>1. /\ descriptor' = File(here) /\ next' = 1 /\ pc' = "parent"
      /\ result' = "none" /\ here' = here /\ depth' = depth /\ visited' = visited
  BY DEF Described
<1> QED BY <1>1 DEF WalkGoes, Walking, Truth

\* A missing file of the chain is one of the components.
LEMMA AncestorIsComponent ==
  ASSUME NEW k \in 1 .. MaxDepth + 1, Ancestor[k] # None
  PROVE  Ancestor[k] \in Components
BY DEF Components

LEMMA ExtentIsComponent ==
  ASSUME NEW k \in 0 .. MaxDepth, Ancestor[k] # None, WasThere(Ancestor[k]),
         HasDescriptor(File(Ancestor[k])),
         NEW i \in DOMAIN File(Ancestor[k]).extents,
         File(Ancestor[k]).extents[i].kind # "ZERO",
         File(Ancestor[k]).extents[i].file # None
  PROVE  File(Ancestor[k]).extents[i].file \in Components
<1>1. Ancestor[k] \in Chain
  BY DEF Chain
<1>2. File(Ancestor[k]).extents[i].file \in ExtentFiles(Ancestor[k])
  BY DEF ExtentFiles
<1> QED BY <1>1, <1>2 DEF Components

\* Reading a header and a descriptor.
LEMMA ReadStep ==
  ASSUME WalkInv, ReadHeader \/ ReadText
  PROVE  WalkGoes /\ Truth(format', result')
<1>0. /\ result = "none" /\ Reached(depth, here) /\ fs \in FileSystems
      /\ format' = format /\ here = Ancestor[depth] /\ here # None
      /\ depth \in 0 .. MaxDepth + 1 /\ MaxDepth \in Nat
  BY OpenAssumption DEF ReadHeader, ReadText, WalkInv, Walking, unread, Reached
<1>1. CASE Return("io")
  BY <1>1, Answered DEF Truth
<1>2. CASE ReadHeader /\ ~Return("io")
  <2>0. pc = "read" /\ (Exists(here) => Met(depth, here, visited)) /\ depth <= MaxDepth
    BY <1>2 DEF ReadHeader, WalkInv
  <2>1. CASE ~Exists(here)
    <3>1. CASE depth = 0
      <4>1. here = Image /\ Return("image_not_found")
        BY <1>0, <1>2, <2>1, <3>1, AncestorIs DEF ReadHeader, Access
      <4> QED BY <1>0, <2>1, <4>1, Answered DEF Truth
    <3>2. CASE depth # 0
      <4>1. Return("missing_component")
        BY <1>2, <2>1, <3>2 DEF ReadHeader, Access
      <4>2. here \in Components
        <5>1. depth \in 1 .. MaxDepth + 1
          BY <1>0, <3>2
        <5> QED BY <1>0, <5>1, AncestorIsComponent
      <4> QED BY <1>0, <2>1, <4>1, <4>2, Answered DEF Truth
    <3> QED BY <3>1, <3>2
  <2>2. CASE Exists(here)
    <3> DEFINE f == File(here)
    <3>1. Met(depth, here, visited)
      BY <2>0, <2>2
    <3>2. CASE f.layout = "sparse" /\ f.valid /\ f.described
      <4>1. Described(f) /\ HasDescriptor(f)
        BY <1>2, <2>2, <3>2 DEF ReadHeader, Access, HasDescriptor
      <4> QED BY <1>0, <3>1, <4>1, DescribedGoes
    <3>3. CASE f.layout = "text"
      <4>1. Goto("text")
        BY <1>2, <2>2, <3>3 DEF ReadHeader, Access
      <4>2. pc' = "text" /\ result' = "none" /\ here' = here /\ depth' = depth /\ visited' = visited
        BY <1>0, <4>1 DEF Goto, walk
      <4> QED BY <1>0, <3>1, <3>3, <4>2 DEF WalkGoes, Walking, Truth
    <3>4. CASE ~(f.layout = "sparse" /\ f.valid /\ f.described) /\ f.layout # "text"
      <4>1. ~HasDescriptor(f) /\ Validated
        BY <1>2, <2>2, <3>4 DEF ReadHeader, Access, HasDescriptor
      <4>2. ParentOf(here) = None /\ ExtentFiles(here) = {}
        BY <1>0, <3>1, <4>1, ParentIs
      <4>3. Intact
        BY <1>0, <3>1, <4>2, WalkEnds
      <4> QED BY <1>0, <4>1, <4>3, ValidatedGoes
    <3> QED BY <3>2, <3>3, <3>4
  <2> QED BY <2>1, <2>2
<1>3. CASE ReadText /\ ~Return("io")
  <2>1. Met(depth, here, visited) /\ File(here).layout = "text"
    BY <1>3 DEF ReadText, WalkInv
  <2>2. Described(File(here)) /\ HasDescriptor(File(here))
    BY <1>3, <2>1 DEF ReadText, Access, HasDescriptor
  <2> QED BY <1>0, <2>1, <2>2, DescribedGoes
<1> QED BY <1>1, <1>2, <1>3

\* validate_parent_reference, validate_extent_paths and on to the parent.
LEMMA ComponentsStep ==
  ASSUME WalkInv, CheckParent \/ CheckExtent \/ Descend
  PROVE  WalkGoes /\ Truth(format', result')
<1>0. /\ result = "none" /\ Reached(depth, here) /\ Met(depth, here, visited)
      /\ descriptor = File(here) /\ HasDescriptor(descriptor) /\ next \in Nat \ {0}
      /\ fs \in FileSystems /\ format' = format
  BY DEF CheckParent, CheckExtent, Descend, WalkInv, Walking, unread
<1>1. /\ here = Ancestor[depth] /\ here # None /\ WasThere(here)
      /\ depth \in 0 .. MaxDepth /\ MaxDepth \in Nat /\ depth \in Nat
      /\ Ancestor[depth + 1] = descriptor.parent
      /\ ParentOf(here) = descriptor.parent
      /\ depth + 1 \in 1 .. MaxDepth + 1
  BY <1>0, ParentIs DEF Reached, Met
<1>2. /\ Len(descriptor.extents) \in Nat
      /\ DOMAIN descriptor.extents = 1 .. Len(descriptor.extents)
  BY <1>0, <1>1, FileIs
<1>3. CASE CheckParent
  <2>0. pc = "parent" /\ next = 1
    BY <1>3 DEF CheckParent, WalkInv
  <2>1. CASE descriptor.parent # None /\ ~Exists(descriptor.parent)
    <3>1. Return("missing_component") /\ descriptor.parent \in Components
      BY <1>1, <1>3, <2>1, AncestorIsComponent DEF CheckParent
    <3> QED BY <1>0, <2>1, <3>1, Answered DEF Truth
  <2>2. CASE descriptor.parent = None \/ Exists(descriptor.parent)
    <3>1. Goto("extents")
      BY <1>3, <2>2 DEF CheckParent
    <3>2. UNCHANGED <<here, depth, visited, descriptor, next>> /\ pc' = "extents" /\ result' = "none"
      BY <1>0, <3>1 DEF Goto, walk
    <3>3. Listed(descriptor, next)
      BY <2>0, <2>2 DEF Listed, Exists, WasThere
    <3> QED BY <1>0, <3>2, <3>3 DEF WalkGoes, Walking, Truth
  <2> QED BY <2>1, <2>2
<1>4. CASE CheckExtent
  <2> DEFINE e == descriptor.extents[next]
  <2>0. /\ pc = "extents" /\ next <= Len(descriptor.extents) /\ Listed(descriptor, next)
        /\ next \in DOMAIN descriptor.extents
    BY <1>0, <1>2, <1>4 DEF CheckExtent, WalkInv
  <2>1. CASE e.kind # "ZERO" /\ e.file # None /\ ~Exists(e.file)
    <3>1. Return("missing_component")
      BY <1>4, <2>1 DEF CheckExtent
    <3>2. e.file \in Components
      BY <1>0, <1>1, <2>0, <2>1, ExtentIsComponent
    <3> QED BY <1>0, <2>1, <3>1, <3>2, Answered DEF Truth
  <2>2. CASE e.kind = "ZERO" \/ e.file = None \/ Exists(e.file)
    <3>1. next' = next + 1 /\ UNCHANGED <<pc, result, here, depth, visited, descriptor>>
      BY <1>4, <2>2 DEF CheckExtent
    <3>2. Listed(descriptor, next + 1)
      <4>1. \A i \in 1 .. (next + 1) - 1 : i \in 1 .. next - 1 \/ i = next
        BY <1>0
      <4>2. e.kind # "ZERO" /\ e.file # None => WasThere(e.file)
        BY <2>2 DEF Exists, WasThere
      <4> QED BY <2>0, <4>1, <4>2 DEF Listed
    <3> QED BY <1>0, <2>0, <3>1, <3>2 DEF WalkGoes, Walking, Truth
  <2> QED BY <2>1, <2>2
<1>5. CASE Descend
  <2>0. pc = "extents" /\ next > Len(descriptor.extents) /\ Listed(descriptor, next)
    BY <1>5 DEF Descend, WalkInv
  <2>1. \A p \in ExtentFiles(here) : WasThere(p)
    <3> TAKE p \in ExtentFiles(here)
    <3>1. PICK i \in DOMAIN descriptor.extents :
            descriptor.extents[i].kind # "ZERO" /\ p = descriptor.extents[i].file /\ p # None
      BY <1>0, <1>1 DEF ExtentFiles
    <3>2. i \in 1 .. next - 1
      BY <1>0, <1>2, <2>0
    <3> QED BY <2>0, <3>1, <3>2 DEF Listed
  <2>2. CASE descriptor.parent = None
    <3>1. Validated /\ Intact
      BY <1>0, <1>1, <1>5, <2>1, <2>2, WalkEnds DEF Descend
    <3> QED BY <1>0, <3>1, ValidatedGoes
  <2>3. CASE descriptor.parent # None
    <3>1. /\ here' = descriptor.parent /\ depth' = depth + 1 /\ pc' = "enter"
          /\ UNCHANGED <<result, visited, descriptor, next>>
      BY <1>5, <2>3 DEF Descend
    <3>2. WasThere(descriptor.parent)
      BY <2>0, <2>3 DEF Listed
    <3>3. Reached(depth + 1, descriptor.parent)
      <4>1. depth + 1 \in 0 .. MaxDepth + 1 /\ (depth + 1) - 1 = depth
        BY <1>1
      <4>2. ASSUME NEW i \in 1 .. depth + 1 PROVE WasThere(Ancestor[i])
        <5>1. i \in 1 .. depth \/ i = depth + 1
          BY <1>1
        <5> QED BY <1>0, <1>1, <3>2, <5>1 DEF Reached
      <4>3. ASSUME NEW i \in 0 .. depth PROVE \A p \in ExtentFiles(Ancestor[i]) : WasThere(p)
        <5>1. i \in 0 .. depth - 1 \/ i = depth
          BY <1>1
        <5> QED BY <1>0, <1>1, <2>1, <5>1 DEF Reached
      <4>4. Apart(depth)
        BY <1>0 DEF Met
      <4> QED BY <1>1, <2>3, <4>1, <4>2, <4>3, <4>4 DEF Reached
    <3>4. visited' = Identities(depth' - 1)
      <4>1. (depth + 1) - 1 = depth
        BY <1>1
      <4> QED BY <1>0, <3>1, <4>1 DEF Met
    <3> QED BY <1>0, <3>1, <3>3, <3>4 DEF WalkGoes, Walking, Truth
  <2> QED BY <2>2, <2>3
<1> QED BY <1>3, <1>4, <1>5

\* The backends, behind the preflight.
LEMMA BackendStep ==
  ASSUME WalkInv, ResolveQemuNbd \/ OpenRaw \/ OpenVmdk \/ OpenText \/ OpenExtent
  PROVE  WalkGoes /\ Truth(format', result')
<1>0. /\ result = "none" /\ fs \in FileSystems /\ format' = format
      /\ pc \in {"resolve", "raw", "open", "open_text", "extent"}
  BY DEF ResolveQemuNbd, OpenRaw, OpenVmdk, OpenText, OpenExtent, WalkInv, unread
<1>1. ASSUME NEW r \in {"io", "nbd", "qemu_not_found", "native", "unsupported_format"}, Return(r),
             r \in {"io"} \/ (format = "vmdk" => Intact)
      PROVE  WalkGoes /\ Truth(format', result')
  <2>1. Truth(format, r)
    BY <1>1 DEF Truth
  <2> QED BY <1>0, <1>1, <2>1, Answered
<1>2. ASSUME Return("image_not_found"), ~Exists(Image)
      PROVE  WalkGoes /\ Truth(format', result')
  BY <1>0, <1>2, Answered DEF Truth
<1>3. pc \in {"open", "open_text", "extent", "resolve"} => (format = "vmdk" => Intact)
  BY DEF WalkInv
<1>4. CASE ResolveQemuNbd
  BY <1>1, <1>3, <1>4 DEF ResolveQemuNbd
<1>5. CASE OpenRaw
  <2>1. pc = "raw" /\ (format = "vmdk" => Intact)
    BY <1>5 DEF OpenRaw, WalkInv
  <2> QED BY <1>1, <1>2, <1>5, <2>1 DEF OpenRaw, Access
<1>6. CASE OpenVmdk
  <2>1. pc = "open"
    BY <1>6 DEF OpenVmdk
  <2>2. CASE ~Exists(Image)
    BY <1>2, <1>6, <2>2 DEF OpenVmdk, Access
  <2>3. CASE Exists(Image) /\ ~File(Image).readable
    BY <1>1, <1>6, <2>3 DEF OpenVmdk, Access
  <2>4. CASE Exists(Image) /\ File(Image).readable
    <3>1. WasThere(Image) /\ File(Image).layout \in {"sparse", "text", "foreign", "plain"}
      BY <1>0, <2>4, FileIs DEF Exists, WasThere
    <3>2. CASE File(Image).layout = "sparse"
      <4>1. Return("unsupported_format") \/ Return("io") \/ Return("native")
        BY <1>6, <2>4, <3>2 DEF OpenVmdk, Access, FromHeader
      <4> QED BY <1>1, <1>3, <2>1, <4>1
    <3>3. CASE File(Image).layout = "text"
      <4>1. Goto("open_text")
        BY <1>6, <2>4, <3>3 DEF OpenVmdk, Access
      <4> QED BY <1>0, <1>3, <2>1, <3>1, <3>3, <4>1 DEF Goto, WalkGoes, Walking, Truth
    <3>4. CASE File(Image).layout \in {"foreign", "plain"}
      <4>1. Return("unsupported_format")
        BY <1>6, <2>4, <3>4 DEF OpenVmdk, Access
      <4> QED BY <1>1, <1>3, <2>1, <4>1
    <3> QED BY <3>1, <3>2, <3>3, <3>4
  <2> QED BY <2>2, <2>3, <2>4
<1>7. CASE OpenText
  <2>1. pc = "open_text" /\ WasThere(Image) /\ File(Image).layout = "text"
    BY <1>7 DEF OpenText, WalkInv
  <2>2. CASE Return("io") \/ Return("unsupported_format")
    <3>1. CASE Return("io")
      BY <1>1, <3>1
    <3>2. CASE Return("unsupported_format")
      BY <1>1, <1>3, <2>1, <3>2
    <3> QED BY <2>2, <3>1, <3>2
  <2>3. CASE ~(Return("io") \/ Return("unsupported_format"))
    <3>1. /\ descriptor' = File(Image) /\ next' = 1 /\ pc' = "extent"
          /\ UNCHANGED <<result, here, depth, visited>>
      BY <1>7, <2>3 DEF OpenText, Access
    <3> QED BY <1>0, <1>3, <2>1, <3>1 DEF WalkGoes, Walking, Truth
  <2> QED BY <2>2, <2>3
<1>8. CASE OpenExtent
  <2> DEFINE e == descriptor.extents[next]
  <2>1. /\ pc = "extent" /\ WasThere(Image) /\ File(Image).layout = "text"
        /\ descriptor = File(Image) /\ next \in Nat \ {0}
    BY <1>8 DEF OpenExtent, WalkInv
  <2>2. CASE Return("io") \/ Return("unsupported_format") \/ Return("native")
    <3>1. CASE Return("io")
      BY <1>1, <3>1
    <3>2. CASE Return("unsupported_format") \/ Return("native")
      BY <1>1, <1>3, <2>1, <3>2
    <3> QED BY <2>2, <3>1, <3>2
  <2>3. CASE NextExtent
    <3>1. next' = next + 1 /\ UNCHANGED <<pc, result, here, depth, visited, descriptor>>
      BY <2>3 DEF NextExtent
    <3> QED BY <1>0, <1>3, <2>1, <3>1 DEF WalkGoes, Walking, Truth
  <2>4. CASE /\ Return("missing_component") /\ next <= Len(descriptor.extents)
             /\ e.kind # "ZERO" /\ e.file # None /\ ~Exists(e.file)
    <3>1. next \in DOMAIN descriptor.extents
      BY <1>0, <2>1, <2>4, FileIs
    <3>2. 0 \in 0 .. MaxDepth /\ Ancestor[0] = Image /\ Image # None
      BY AncestorIs, OpenAssumption
    <3>3. HasDescriptor(File(Image))
      BY <2>1 DEF HasDescriptor
    <3>4. e.file \in Components
      BY <2>1, <2>4, <3>1, <3>2, <3>3, ExtentIsComponent
    <3> QED BY <1>0, <2>4, <3>4, Answered DEF Truth
  <2>5. \/ Return("io") \/ Return("unsupported_format") \/ Return("native") \/ NextExtent
        \/ /\ Return("missing_component") /\ next <= Len(descriptor.extents)
           /\ e.kind # "ZERO" /\ e.file # None /\ ~Exists(e.file)
    <3>1. CASE next > Len(descriptor.extents) /\ Return("native")
      BY <3>1
    <3>2. CASE next <= Len(descriptor.extents) /\ ~(next > Len(descriptor.extents) /\ Return("native"))
      <4>1. CASE e.kind = "ZERO"
        BY <1>8, <3>2, <4>1 DEF OpenExtent, FlatKinds, SparseKinds
      <4>2. CASE e.kind \in FlatKinds /\ e.file # None
        BY <1>8, <3>2, <4>2 DEF OpenExtent, FlatKinds, SparseKinds, Access
      <4>3. CASE e.kind \in SparseKinds /\ e.file # None
        BY <1>8, <3>2, <4>3 DEF OpenExtent, FlatKinds, SparseKinds, Access, FromHeader
      <4>4. CASE /\ e.kind # "ZERO" /\ ~(e.kind \in FlatKinds /\ e.file # None)
                 /\ ~(e.kind \in SparseKinds /\ e.file # None)
        BY <1>8, <3>2, <4>4 DEF OpenExtent
      <4> QED BY <4>1, <4>2, <4>3, <4>4
    <3> QED BY <1>8, <3>1, <3>2 DEF OpenExtent
  <2> QED BY <2>2, <2>3, <2>4, <2>5
<1> QED BY <1>4, <1>5, <1>6, <1>7, <1>8

\* Removing a file makes no true answer false.
LEMMA RemoveStep ==
  ASSUME WalkInv, PreflightTruthful, Remove \/ UNCHANGED vars
  PROVE  WalkGoes /\ Truth(format', result')
<1>1. UNCHANGED <<format, pc, here, depth, visited, descriptor, next, result>>
  BY DEF Remove, vars, walk
<1>2. Truth(format, result)
  BY DEF PreflightTruthful, Truth, Intact
<1> QED BY <1>1, <1>2 DEF WalkGoes, WalkInv

\* The walk through the chain of parents (validate_vmdk_components_inner) keeps
\* account of what it has seen, and every answer is true, for all file systems.
THEOREM OpenInvariant == Spec => []OpenInv
<1>1. ASSUME Init PROVE OpenInv
  BY <1>1 DEF Init, OpenInv, WalkInv, Walking, PreflightTruthful
<1>2. ASSUME OpenInv, [Next]_vars PROVE OpenInv'
  <2>1. WalkInv /\ PreflightTruthful
    BY <1>2 DEF OpenInv
  <2>2. WalkGoes /\ Truth(format', result')
    BY <1>2, <2>1, AskingStep, EnterStep, ReadStep, ComponentsStep, BackendStep, RemoveStep
       DEF Next, Step
  <2>3. fs' = fs /\ gone \subseteq gone'
    BY <1>2, OnlyRemoved
  <2>4. PreflightTruthful'
    BY <2>2, <2>3, TruthStays
  <2>5. WalkInv'
    BY <2>1, <2>2, <2>3, WalkStays
  <2> QED BY <2>4, <2>5 DEF OpenInv
<1> QED BY <1>1, <1>2, PTL DEF Spec

\* What the preflight of a VMDK says is true whatever is removed meanwhile, for
\* chains of every shape and length, every depth limit and every file system.
THEOREM PreflightIsTruthful == Spec => []PreflightTruthful
<1>1. OpenInv => PreflightTruthful
  BY DEF OpenInv
<1> QED BY <1>1, OpenInvariant, PTL

-----------------------------------------------------------------------------
(* The three judges.  File(Image) is the image, nothing is removed. *)

\* RoutingAgrees of three answers.
Agree(v, a, r) ==
  /\ v = "corrupt" /\ r = "native" => OpensDoubted(File(Image))
  /\ v = "sound" /\ a = "native" /\ r \notin {"none", "native"}
       => PromisesTooMuch(File(Image)) \/ Damaged(File(Image))
  /\ a = "native" /\ r = "unsupported_format" => PromisesTooMuch(File(Image))
  /\ a = "nbd" /\ r = "native" => PromisesTooLittle(File(Image))

\* What the first two judges have seen when they answered v and a.
Judged(v, a) ==
  /\ extension \in Extensions
  /\ v \in {"sound", "corrupt"} => Exists(Image) /\ File(Image).readable
  /\ v = "sound" => TRUE \in Verdicts(File(Image))
  /\ v = "corrupt" => FALSE \in Verdicts(File(Image))
  /\ a \in {"native", "nbd"} =>
       Exists(Image) /\ (extension = "vmdk" => Decodes(File(Image)))
  /\ a = "nbd" => TRUE \in Requires(File(Image))
  /\ a = "native" => FALSE \in Requires(File(Image))

\* What verify_image_integrity calls corrupt although it is recognised.
LEMMA CorruptMeans ==
  ASSUME NEW f, extension \in Extensions, FALSE \in Verdicts(f), f.length # "none",
         f.layout \in {"sparse", "text", "foreign", "plain"}
  PROVE  \/ extension = "raw" /\ f.length # "full"
         \/ extension = "vmdk" /\ f.layout \notin {"sparse", "text"}
         \/ extension = "foreign"
         \/ extension \in {"dump", "legacy", "none"} /\ f.layout # "sparse"
<1>1. extension \in {"raw", "dump", "vmdk", "foreign", "legacy", "none"}
  BY OpenAssumption
<1>2. CASE extension = "raw"
  BY <1>2 DEF Verdicts
<1>3. CASE extension = "vmdk"
  BY <1>3 DEF Verdicts
<1>4. CASE extension \in {"dump", "legacy", "none"}
  BY <1>4 DEF Verdicts
<1> QED BY <1>1, <1>2, <1>3, <1>4

\* What requires_nbd promises to open natively.
LEMMA NativeMeans ==
  ASSUME NEW f, extension \in Extensions, FALSE \in Requires(f),
         f.layout \in {"sparse", "text", "foreign", "plain"}
  PROVE  \/ extension = "raw"
         \/ /\ extension = "vmdk" /\ f.layout = "sparse" /\ f.valid /\ f.supported
            /\ f.described /\ (HasParent(f) \/ Len(f.extents) > 1) => ~f.whole
         \/ /\ extension = "vmdk" /\ f.layout = "text" /\ ~HasParent(f)
            /\ Len(f.extents) = 1 /\ f.extents[1].kind \in {"FLAT", "ZERO"}
<1>1. extension \in {"raw", "dump", "vmdk", "foreign", "legacy", "none"}
  BY OpenAssumption
<1>2. CASE extension \in {"dump", "foreign", "legacy", "none"}
  BY <1>2 DEF Requires
<1>3. CASE extension = "vmdk" /\ f.layout = "sparse"
  BY <1>3 DEF Requires
<1>4. CASE extension = "vmdk" /\ f.layout = "text"
  BY <1>4 DEF Requires
<1>5. CASE extension = "vmdk" /\ f.layout \in {"foreign", "plain"}
  BY <1>5 DEF Requires
<1> QED BY <1>1, <1>2, <1>3, <1>4, <1>5

\* What requires_nbd leaves to qemu-nbd although it is a VMDK by name.
LEMMA NbdMeans ==
  ASSUME NEW f, extension = "vmdk", TRUE \in Requires(f)
  PROVE  /\ f.layout = "sparse" =>
              ~f.valid \/ ~f.supported \/ (f.described /\ (HasParent(f) \/ Len(f.extents) > 1))
         /\ f.layout = "text" =>
              \/ HasParent(f) \/ Len(f.extents) # 1 \/ f.split
              \/ f.extents[1].kind \notin {"FLAT", "ZERO"}
<1>1. CASE f.layout = "sparse"
  BY <1>1 DEF Requires
<1>2. CASE f.layout = "text"
  BY <1>2 DEF Requires
<1> QED BY <1>1, <1>2

\* What the native opener accepts, the other two refuse only where they may.
LEMMA NativeAgrees ==
  ASSUME fs \in FileSystems, Exists(Image), NEW v, NEW a, Judged(v, a),
         \/ Format(File(Image)) = "raw"
         \/ /\ File(Image).layout = "sparse" /\ File(Image).valid /\ File(Image).supported
            /\ ~(File(Image).described
                   /\ (HasParent(File(Image)) \/ Len(File(Image).extents) > 1))
         \/ /\ File(Image).layout = "text" /\ ~HasParent(File(Image))
            /\ File(Image).extents # <<>>
  PROVE  Agree(v, a, "native")
<1> DEFINE f == File(Image)
<1>1. /\ f.layout \in {"sparse", "text", "foreign", "plain"}
      /\ f.length = "none" => f.layout = "plain"
      /\ Len(f.extents) \in Nat /\ (f.extents # <<>> <=> Len(f.extents) # 0)
  BY FileIs DEF Exists, WasThere
<1>2. extension \in {"raw", "dump", "vmdk", "foreign", "legacy", "none"} /\ extension \in Extensions
  BY OpenAssumption DEF Judged
<1>3. Format(f) = "raw" => f.layout = "plain" /\ extension \in {"raw", "dump", "none"}
  BY <1>1, <1>2 DEF Format, FormatByExtension
<1>4. ASSUME v = "corrupt" PROVE OpensDoubted(f)
  <2>1. FALSE \in Verdicts(f)
    BY <1>4 DEF Judged
  <2>2. CASE f.length = "none"
    BY <1>1, <1>3, <2>2 DEF OpensDoubted
  <2>3. CASE f.length # "none"
    <3>1. \/ extension = "raw" /\ f.length # "full"
          \/ extension = "vmdk" /\ f.layout \notin {"sparse", "text"}
          \/ extension = "foreign"
          \/ extension \in {"dump", "legacy", "none"} /\ f.layout # "sparse"
      BY <1>1, <1>2, <2>1, <2>3, CorruptMeans
    <3> QED BY <1>3, <3>1 DEF OpensDoubted
  <2> QED BY <2>2, <2>3
<1>5. ASSUME a = "nbd" PROVE PromisesTooLittle(f)
  <2>1. CASE extension # "vmdk"
    BY <2>1 DEF PromisesTooLittle
  <2>2. CASE extension = "vmdk"
    <3>1. TRUE \in Requires(f)
      BY <1>5 DEF Judged
    <3>2. /\ f.layout = "sparse" =>
               ~f.valid \/ ~f.supported \/ (f.described /\ (HasParent(f) \/ Len(f.extents) > 1))
          /\ f.layout = "text" =>
               \/ HasParent(f) \/ Len(f.extents) # 1 \/ f.split
               \/ f.extents[1].kind \notin {"FLAT", "ZERO"}
      BY <2>2, <3>1, NbdMeans
    <3>3. f.layout = "text" /\ ~HasParent(f) /\ Len(f.extents) # 0
      BY <1>1, <1>3, <2>2, <3>2
    <3>4. Len(f.extents) # 1 => Len(f.extents) > 1
      <4>1. \A n \in Nat : n # 0 /\ n # 1 => n > 1
        OBVIOUS
      <4> QED BY <1>1, <3>3, <4>1
    <3> QED BY <3>2, <3>3, <3>4 DEF PromisesTooLittle
  <2> QED BY <2>1, <2>2
<1> QED BY <1>4, <1>5 DEF Agree

\* A refusal that the first two did not expect has one of the named reasons.
LEMMA RefusalAgrees ==
  ASSUME NEW v, NEW a, NEW r, r # "native",
         v = "sound" /\ a = "native" => PromisesTooMuch(File(Image)) \/ Damaged(File(Image)),
         a = "native" /\ r = "unsupported_format" => PromisesTooMuch(File(Image))
  PROVE  Agree(v, a, r)
BY DEF Agree

\* RouteInv of the next state, in terms of this state's files.
RouteGoes ==
  LET f == File(Image) IN
  /\ pc' # "resolve"
  /\ Judged(verdict', advice')
  /\ pc' = "raw" => Exists(Image) /\ f.readable /\ Format(f) = "raw"
  /\ pc' \in Walking \cup {"open", "open_text", "extent"} =>
       /\ Exists(Image) /\ f.readable /\ Format(f) = "vmdk"
       /\ f.layout = "sparse" => f.valid
  /\ pc' = "extent" => ~HasParent(f) /\ f.extents # <<>>
  /\ pc' \in Walking /\ advice' = "native" /\ ~PromisesTooMuch(f) =>
       /\ here' = Image /\ depth' = 0
       /\ pc' = "enter" => visited' = {}
  /\ Agree(verdict', advice', result')

LEMMA RouteStays ==
  ASSUME fs' = fs, gone' = gone, extension' = extension, RouteGoes
  PROVE  RouteInv'
<1>1. File(Image)' = File(Image) /\ (Exists(Image)' <=> Exists(Image))
  BY DEF File, Exists, Canonical
<1>2. \A p : (Exists(p)' <=> Exists(p)) /\ File(p)' = File(p)
  BY DEF File, Exists, Canonical
<1>3. /\ Verdicts(File(Image))' = Verdicts(File(Image))
      /\ Requires(File(Image))' = Requires(File(Image))
      /\ Format(File(Image))' = Format(File(Image))
      /\ (HasParent(File(Image))' <=> HasParent(File(Image)))
      /\ (Decodes(File(Image))' <=> Decodes(File(Image)))
  BY <1>1 DEF Verdicts, Requires, Format, FormatByExtension, HasParent, Decodes
<1>4. /\ (OpensDoubted(File(Image))' <=> OpensDoubted(File(Image)))
      /\ (PromisesTooMuch(File(Image))' <=> PromisesTooMuch(File(Image)))
      /\ (PromisesTooLittle(File(Image))' <=> PromisesTooLittle(File(Image)))
  BY <1>1 DEF OpensDoubted, PromisesTooMuch, PromisesTooLittle
<1>5. Damaged(File(Image))' <=> Damaged(File(Image))
  <2> DEFINE g == File(Image)
  <2> HIDE DEF g
  <2>1. Damaged(g)' <=> Damaged(g)
    BY <1>1, <1>2 DEF Damaged, HasDescriptor, g
  <2> QED BY <2>1 DEF g
<1>6. RoutingAgrees'
  BY <1>4, <1>5 DEF RouteGoes, Agree, RoutingAgrees
<1> QED BY <1>1, <1>3, <1>4, <1>6 DEF RouteGoes, Judged, RouteInv

\* While nothing is removed and nothing forced, RouteInv says this.
LEMMA RouteNow ==
  ASSUME RouteInv, gone = {}, ~forced
  PROVE  LET f == File(Image) IN
         /\ pc # "resolve" /\ Judged(verdict, advice) /\ Agree(verdict, advice, result)
         /\ pc = "raw" => Exists(Image) /\ f.readable /\ Format(f) = "raw"
         /\ pc \in Walking \cup {"open", "open_text", "extent"} =>
              /\ Exists(Image) /\ f.readable /\ Format(f) = "vmdk"
              /\ f.layout = "sparse" => f.valid
         /\ pc = "extent" => ~HasParent(f) /\ f.extents # <<>>
         /\ pc \in Walking /\ advice = "native" /\ ~PromisesTooMuch(f) =>
              /\ here = Image /\ depth = 0
              /\ pc = "enter" => visited = {}
BY DEF RouteInv, RoutingAgrees, Agree, Judged

\* An answer ends the call; the other judges have nothing more to say.
LEMMA RouteAnswered ==
  ASSUME NEW r, Return(r), verdict' = verdict, advice' = advice,
         Judged(verdict, advice), Agree(verdict, advice, r)
  PROVE  RouteGoes
<1>1. pc' = "done" /\ result' = r
  BY DEF Return
<1>2. Judged(verdict', advice') /\ Agree(verdict', advice', result')
  BY <1>1
<1> QED BY <1>1, <1>2 DEF RouteGoes, Walking

\* No answer yet: nothing to disagree about.
LEMMA NothingToSay ==
  ASSUME NEW v, NEW a
  PROVE  Agree(v, a, "none")
BY DEF Agree

\* The answers of the first two judges.
LEMMA JudgesStep ==
  ASSUME WalkInv, RouteInv, gone = {}, ~forced, VerifyImageIntegrity \/ RequiresNbd
  PROVE  RouteGoes
<1>1. Judged(verdict, advice) /\ result = "none"
  BY RouteNow DEF WalkInv, VerifyImageIntegrity, RequiresNbd
<1>2. CASE VerifyImageIntegrity
  <2>1. pc' = "advice" /\ result' = "none" /\ advice' = advice
    BY <1>1, <1>2 DEF VerifyImageIntegrity, Goto
  <2>2. /\ verdict' \in {"sound", "corrupt"} => Exists(Image) /\ File(Image).readable
        /\ verdict' = "sound" => TRUE \in Verdicts(File(Image))
        /\ verdict' = "corrupt" => FALSE \in Verdicts(File(Image))
    <3>1. CASE ~Exists(Image) \/ ~File(Image).readable
      BY <1>2, <3>1 DEF VerifyImageIntegrity
    <3>2. CASE Exists(Image) /\ File(Image).readable
      <4>1. PICK v \in Verdicts(File(Image)) : verdict' = IF v THEN "sound" ELSE "corrupt"
        BY <1>2, <3>2 DEF VerifyImageIntegrity
      <4>2. Verdicts(File(Image)) \subseteq BOOLEAN
        <5>1. /\ extension \in {"raw", "dump", "vmdk", "foreign", "legacy", "none"}
          BY <1>1, OpenAssumption DEF Judged
        <5> QED BY <5>1 DEF Verdicts
      <4>3. v = TRUE \/ v = FALSE
        BY <4>1, <4>2
      <4> QED BY <3>2, <4>1, <4>3
    <3> QED BY <3>1, <3>2
  <2>3. Judged(verdict', advice')
    BY <1>1, <2>1, <2>2 DEF Judged
  <2> QED BY <2>1, <2>3, NothingToSay DEF RouteGoes, Walking
<1>3. CASE RequiresNbd
  <2>1. pc' = "identify" /\ result' = "none" /\ verdict' = verdict
    BY <1>1, <1>3 DEF RequiresNbd, Goto
  <2>2. /\ advice' \in {"native", "nbd"} =>
             Exists(Image) /\ (extension = "vmdk" => Decodes(File(Image)))
        /\ advice' = "nbd" => TRUE \in Requires(File(Image))
        /\ advice' = "native" => FALSE \in Requires(File(Image))
    <3> DEFINE legible == File(Image).readable /\ Decodes(File(Image))
    <3>1. CASE ~Exists(Image) \/ (extension = "vmdk" /\ ~legible)
      BY <1>3, <3>1 DEF RequiresNbd
    <3>2. CASE Exists(Image) /\ (extension = "vmdk" => legible)
      <4>1. PICK v \in Requires(File(Image)) : advice' = IF v THEN "nbd" ELSE "native"
        BY <1>3, <3>2 DEF RequiresNbd
      <4>2. Requires(File(Image)) \subseteq BOOLEAN
        <5>1. /\ extension \in {"raw", "dump", "vmdk", "foreign", "legacy", "none"}
          BY <1>1, OpenAssumption DEF Judged
        <5>2. File(Image).layout \in {"sparse", "text", "foreign", "plain"}
          BY <3>2, FileIs DEF WalkInv, Exists, WasThere
        <5> QED BY <5>1, <5>2 DEF Requires
      <4>3. v = TRUE \/ v = FALSE
        BY <4>1, <4>2
      <4> QED BY <3>2, <4>1, <4>3
    <3> QED BY <3>1, <3>2
  <2>3. Judged(verdict', advice')
    BY <1>1, <2>1, <2>2 DEF Judged
  <2> QED BY <2>1, <2>3, NothingToSay DEF RouteGoes, Walking
<1> QED BY <1>2, <1>3

\* What an image is like that requires_nbd rightly promises to open natively.
LEMMA Expected ==
  ASSUME fs \in FileSystems, NEW v, Judged(v, "native"), ~PromisesTooMuch(File(Image))
  PROVE  LET f == File(Image) IN
         \/ Format(f) = "raw" /\ f.layout = "plain"
         \/ /\ f.layout = "sparse" /\ f.valid /\ f.supported /\ ~f.huge
            /\ ~(f.described /\ (HasParent(f) \/ Len(f.extents) > 1))
         \/ /\ f.layout = "text" /\ ~HasParent(f) /\ Len(f.extents) = 1
            /\ f.extents[1].kind \in {"FLAT", "ZERO"}
            /\ f.extents[1].kind = "FLAT" => f.extents[1].file # None
            /\ Decodes(f)
<1> DEFINE f == File(Image)
<1>1. /\ Exists(Image) /\ extension \in Extensions /\ FALSE \in Requires(f)
      /\ extension = "vmdk" => Decodes(f)
  BY DEF Judged
<1>2. /\ f.layout \in {"sparse", "text", "foreign", "plain"}
      /\ DOMAIN f.extents = 1 .. Len(f.extents)
  BY <1>1, FileIs DEF Exists, WasThere
<1>3. \/ extension = "raw"
      \/ /\ extension = "vmdk" /\ f.layout = "sparse" /\ f.valid /\ f.supported
         /\ f.described /\ (HasParent(f) \/ Len(f.extents) > 1) => ~f.whole
      \/ /\ extension = "vmdk" /\ f.layout = "text" /\ ~HasParent(f)
         /\ Len(f.extents) = 1 /\ f.extents[1].kind \in {"FLAT", "ZERO"}
  BY <1>1, <1>2, NativeMeans
<1>4. CASE extension = "raw"
  BY <1>4 DEF PromisesTooMuch, Format, FormatByExtension
<1>5. CASE extension = "vmdk" /\ f.layout = "sparse"
  BY <1>3, <1>5 DEF PromisesTooMuch
<1>6. CASE extension = "vmdk" /\ f.layout = "text"
  <2>1. Len(f.extents) = 1 => 1 \in DOMAIN f.extents
    BY <1>2
  <2> QED BY <1>1, <1>3, <1>6, <2>1 DEF PromisesTooMuch
<1> QED BY <1>3, <1>4, <1>5, <1>6

\* A refusal that ends the call.
LEMMA Refused ==
  ASSUME NEW r, r # "native", Return(r), verdict' = verdict, advice' = advice,
         Judged(verdict, advice),
         verdict = "sound" /\ advice = "native" /\ ~PromisesTooMuch(File(Image))
           => Damaged(File(Image)),
         advice = "native" /\ ~PromisesTooMuch(File(Image)) => r # "unsupported_format"
  PROVE  RouteGoes
<1>1. Agree(verdict, advice, r)
  BY RefusalAgrees
<1> QED BY <1>1, RouteAnswered

\* A step of the walk through the image itself.
LEMMA WalkedOn ==
  ASSUME NEW f, f = File(Image), result' = "none", verdict' = verdict, advice' = advice,
         Judged(verdict, advice), pc' \in (Walking \ {"enter"}) \cup {"open", "open_text"},
         Exists(Image), f.readable, Format(f) = "vmdk", f.layout = "sparse" => f.valid,
         advice = "native" /\ ~PromisesTooMuch(f) => here' = Image /\ depth' = 0
  PROVE  RouteGoes
<1>1. Judged(verdict', advice') /\ Agree(verdict', advice', result')
  BY NothingToSay
<1>2. pc' \notin {"resolve", "raw", "extent", "enter"}
  BY DEF Walking
<1> QED BY <1>1, <1>2 DEF RouteGoes

\* identify_image, and the branch on the format.
LEMMA IdentifyRoute ==
  ASSUME WalkInv, RouteInv, gone = {}, ~forced, Identify
  PROVE  RouteGoes
<1> DEFINE f == File(Image)
<1>0. /\ fs \in FileSystems /\ Judged(verdict, advice) /\ verdict' = verdict /\ advice' = advice
      /\ pc = "identify" /\ result = "none" /\ here = Image /\ depth = 0 /\ visited = {}
  BY RouteNow DEF WalkInv, Identify, asked
<1>1. CASE ~Exists(Image)
  <2>1. Return("image_not_found")
    BY <1>1 DEF Identify, Access
  <2> QED BY <1>0, <1>1, <2>1, Refused DEF Judged
<1>2. CASE Exists(Image) /\ ~f.readable
  <2>1. Return("io")
    BY <1>2 DEF Identify, Access
  <2> QED BY <1>0, <1>2, <2>1, Refused DEF Judged
<1>3. CASE Exists(Image) /\ f.readable /\ f.layout = "sparse" /\ ~f.valid
  <2>1. Return("io")
    BY <1>3 DEF Identify, Access
  <2>2. advice = "native" => PromisesTooMuch(f)
    BY <1>0, <1>3, Expected
  <2> QED BY <1>0, <2>1, <2>2, Refused
<1>4. CASE Exists(Image) /\ f.readable /\ ~(f.layout = "sparse" /\ ~f.valid)
  <2>1. f.layout \in {"sparse", "text", "foreign", "plain"}
    BY <1>0, <1>4, FileIs DEF Exists, WasThere
  <2>2. Format(f) \in {"vmdk", "raw", "foreign"}
    BY <2>1 DEF Format, FormatByExtension
  <2>3. CASE Format(f) = "vmdk"
    <3>1. Goto("enter")
      BY <1>4, <2>3 DEF Identify, Access
    <3>2. pc' = "enter" /\ result' = "none" /\ here' = Image /\ depth' = 0 /\ visited' = {}
      BY <1>0, <3>1 DEF Goto, walk
    <3>3. Judged(verdict', advice') /\ Agree(verdict', advice', result')
      BY <1>0, <3>2, NothingToSay
    <3> QED BY <1>4, <2>3, <3>2, <3>3 DEF RouteGoes
  <2>4. CASE Format(f) = "raw"
    <3>1. Goto("raw")
      BY <1>4, <2>4 DEF Identify, Access
    <3>2. pc' = "raw" /\ result' = "none"
      BY <1>0, <3>1 DEF Goto
    <3>3. Judged(verdict', advice') /\ Agree(verdict', advice', result')
      BY <1>0, <3>2, NothingToSay
    <3> QED BY <1>4, <2>4, <3>2, <3>3 DEF RouteGoes, Walking
  <2>5. CASE Format(f) = "foreign"
    <3>1. Return("unsupported_format")
      BY <1>4, <2>5 DEF Identify, Access
    <3>2. f.layout \notin {"sparse", "text"}
      BY <2>5 DEF Format
    <3>3. advice = "native" => PromisesTooMuch(f)
      BY <1>0, <2>5, <3>2, Expected
    <3> QED BY <1>0, <3>1, <3>3, Refused
  <2> QED BY <2>2, <2>3, <2>4, <2>5
<1> QED BY <1>1, <1>2, <1>3, <1>4

\* The preflight refuses an image that is promised to open only if a file that
\* its descriptor names is missing.
LEMMA WalkRoute ==
  ASSUME WalkInv, RouteInv, gone = {}, ~forced,
         Enter \/ ReadHeader \/ ReadText \/ CheckParent \/ CheckExtent \/ Descend
  PROVE  RouteGoes
<1> DEFINE f == File(Image)
           P == advice = "native" /\ ~PromisesTooMuch(f)
<1>0. /\ pc \in Walking /\ fs \in FileSystems /\ result = "none"
      /\ verdict' = verdict /\ advice' = advice
  BY DEF WalkInv, Enter, ReadHeader, ReadText, CheckParent, CheckExtent, Descend, Walking,
         unread, asked
<1>1. /\ Judged(verdict, advice) /\ Exists(Image) /\ f.readable /\ Format(f) = "vmdk"
      /\ f.layout = "sparse" => f.valid
      /\ P => here = Image /\ depth = 0 /\ (pc = "enter" => visited = {})
  BY <1>0, RouteNow
<1>2. /\ P => f.layout \in {"sparse", "text"}
      /\ P /\ HasDescriptor(f) => f.parent = None
      /\ P => Decodes(f)
  <2> SUFFICES ASSUME P
               PROVE  /\ f.layout \in {"sparse", "text"} /\ Decodes(f)
                      /\ HasDescriptor(f) => f.parent = None
    OBVIOUS
  <2>1. Judged(verdict, "native") /\ ~PromisesTooMuch(f)
    BY <1>1
  <2> QED BY <1>0, <1>1, <2>1, Expected DEF HasDescriptor, HasParent, Decodes
<1>3. ASSUME NEW r, r \in {"parse", "io", "image_not_found", "missing_component"}, Return(r),
             P => Damaged(f)
      PROVE  RouteGoes
  BY <1>0, <1>1, <1>3, Refused
<1>4. ASSUME result' = "none", pc' \in (Walking \ {"enter"}) \cup {"open"},
             P => here' = Image /\ depth' = 0
      PROVE  RouteGoes
  BY <1>0, <1>1, <1>4, WalkedOn
<1>5. ASSUME Validated PROVE RouteGoes
  <2>1. pc' = "open" /\ result' = "none" /\ here' = here /\ depth' = depth
    BY <1>0, <1>5 DEF Validated, Goto, walk
  <2> QED BY <1>0, <1>1, <1>4, <2>1
<1>6. ASSUME NEW g, Described(g) PROVE RouteGoes
  <2>1. pc' = "parent" /\ result' = "none" /\ here' = here /\ depth' = depth
    BY <1>0, <1>6 DEF Described
  <2> QED BY <1>0, <1>1, <1>4, <2>1 DEF Walking
<1> HIDE DEF P
<1>7. CASE Enter
  <2>1. CASE (depth > MaxDepth \/ Identity(here) \in visited) /\ Return("parse")
    <3>1. pc = "enter" /\ ~(0 > MaxDepth)
      BY <1>7, OpenAssumption DEF Enter
    <3>2. ~P
      BY <1>1, <2>1, <3>1
    <3> QED BY <1>3, <2>1, <3>2
  <2>2. CASE pc' = "read" /\ UNCHANGED <<result, here, depth, descriptor, next>>
    <3>1. pc' \in (Walking \ {"enter"}) \cup {"open"}
      BY <2>2 DEF Walking
    <3> QED BY <1>0, <1>1, <1>4, <2>2, <3>1
  <2> QED BY <1>7, <2>1, <2>2 DEF Enter
<1>8. CASE ReadHeader
  <2>1. CASE Return("image_not_found") /\ ~Exists(here)
    BY <1>1, <1>3, <2>1
  <2>2. CASE Return("missing_component") /\ ~Exists(here)
    BY <1>1, <1>3, <2>2
  <2>3. CASE Return("io") /\ (~File(here).readable \/ (File(here).layout = "sparse" /\ ~File(here).valid))
    BY <1>1, <1>3, <2>3
  <2>4. CASE Goto("text")
    <3>1. pc' = "text" /\ result' = "none" /\ here' = here /\ depth' = depth
      BY <1>0, <2>4 DEF Goto, walk
    <3>2. pc' \in (Walking \ {"enter"}) \cup {"open"}
      BY <3>1 DEF Walking
    <3> QED BY <1>1, <1>4, <3>1, <3>2
  <2> QED BY <1>5, <1>6, <1>8, <2>1, <2>2, <2>3, <2>4 DEF ReadHeader, Access
<1>9. CASE ReadText
  <2>1. CASE Return("io") /\ (~Exists(here) \/ ~File(here).readable)
    BY <1>1, <1>3, <2>1
  <2>2. CASE Return("io") /\ ~Decodes(File(here))
    BY <1>1, <1>2, <1>3, <2>2
  <2> QED BY <1>6, <1>9, <2>1, <2>2 DEF ReadText, Access
<1>10. CASE CheckParent
  <2>0. descriptor = File(here) /\ HasDescriptor(descriptor)
    BY <1>10 DEF CheckParent, WalkInv
  <2>1. CASE descriptor.parent # None /\ Return("missing_component")
    <3>1. ~P
      BY <1>1, <1>2, <2>0, <2>1
    <3> QED BY <1>3, <2>1, <3>1
  <2>2. CASE Goto("extents")
    <3>1. pc' = "extents" /\ result' = "none" /\ here' = here /\ depth' = depth
      BY <1>0, <2>2 DEF Goto, walk
    <3>2. pc' \in (Walking \ {"enter"}) \cup {"open"}
      BY <3>1 DEF Walking
    <3> QED BY <1>1, <1>4, <3>1, <3>2
  <2> QED BY <1>10, <2>1, <2>2 DEF CheckParent
<1>11. CASE CheckExtent
  <2>0. /\ descriptor = File(here) /\ HasDescriptor(descriptor) /\ next \in Nat \ {0}
        /\ pc = "extents" /\ next <= Len(descriptor.extents)
    BY <1>11 DEF CheckExtent, WalkInv
  <2> DEFINE e == descriptor.extents[next]
  <2>1. CASE e.kind # "ZERO" /\ e.file # None /\ ~Exists(e.file) /\ Return("missing_component")
    <3>1. ASSUME P PROVE Damaged(f)
      <4>1. descriptor = f
        BY <1>1, <2>0, <3>1
      <4>2. Len(f.extents) \in Nat /\ DOMAIN f.extents = 1 .. Len(f.extents)
        BY <1>0, <1>1, FileIs DEF Exists, WasThere
      <4>3. next \in DOMAIN f.extents
        BY <2>0, <4>1, <4>2
      <4> QED BY <2>0, <2>1, <4>1, <4>3 DEF Damaged
    <3> QED BY <1>3, <2>1, <3>1
  <2>2. CASE UNCHANGED <<pc, result, here, depth>>
    <3>1. pc' \in (Walking \ {"enter"}) \cup {"open"}
      BY <2>0, <2>2 DEF Walking
    <3> QED BY <1>0, <1>1, <1>4, <2>2, <3>1
  <2> QED BY <1>11, <2>1, <2>2 DEF CheckExtent
<1>12. CASE Descend
  <2>0. descriptor = File(here) /\ HasDescriptor(descriptor)
    BY <1>12 DEF Descend, WalkInv
  <2>1. CASE descriptor.parent # None /\ pc' = "enter" /\ UNCHANGED result
    <3>1. ~P
      BY <1>1, <1>2, <2>0, <2>1
    <3>2. Judged(verdict', advice') /\ Agree(verdict', advice', result')
      BY <1>0, <1>1, <2>1, NothingToSay
    <3> QED BY <1>0, <1>1, <2>1, <3>1, <3>2 DEF RouteGoes, P
  <2> QED BY <1>5, <1>12, <2>1 DEF Descend
<1> QED BY <1>7, <1>8, <1>9, <1>10, <1>11, <1>12

\* One turn of open_vmdk_native's loop over the extents of a descriptor.
LEMMA ExtentRoute ==
  ASSUME WalkInv, RouteInv, gone = {}, ~forced, OpenExtent
  PROVE  RouteGoes
<1> DEFINE f == File(Image)
           e == descriptor.extents[next]
           P == advice = "native" /\ ~PromisesTooMuch(f)
<1>0. /\ pc = "extent" /\ fs \in FileSystems /\ result = "none" /\ descriptor = f
      /\ f.layout = "text" /\ next \in Nat \ {0} /\ verdict' = verdict /\ advice' = advice
  BY DEF WalkInv, OpenExtent, unread, asked
<1>1. /\ Judged(verdict, advice) /\ Exists(Image) /\ f.readable /\ Format(f) = "vmdk"
      /\ ~HasParent(f) /\ f.extents # <<>>
  BY <1>0, RouteNow
<1>2. Len(f.extents) \in Nat /\ DOMAIN f.extents = 1 .. Len(f.extents)
  BY <1>0, <1>1, FileIs DEF Exists, WasThere
<1>3. P => /\ Len(f.extents) = 1 /\ f.extents[1].kind \in {"FLAT", "ZERO"}
           /\ f.extents[1].kind = "FLAT" => f.extents[1].file # None
  <2> SUFFICES ASSUME P PROVE /\ Len(f.extents) = 1 /\ f.extents[1].kind \in {"FLAT", "ZERO"}
                              /\ f.extents[1].kind = "FLAT" => f.extents[1].file # None
    OBVIOUS
  <2>1. Judged(verdict, "native") /\ ~PromisesTooMuch(f)
    BY <1>1
  <2> QED BY <1>0, <2>1, Expected
<1>4. ASSUME NEW r, r \in {"io", "unsupported_format", "missing_component"}, Return(r),
             P => Damaged(f), P => r # "unsupported_format"
      PROVE  RouteGoes
  BY <1>0, <1>1, <1>4, Refused
<1>5. ASSUME NextExtent PROVE RouteGoes
  <2>1. pc' = "extent" /\ result' = "none"
    BY <1>0, <1>5 DEF NextExtent
  <2>2. Judged(verdict', advice') /\ Agree(verdict', advice', result')
    BY <1>0, <1>1, <2>1, NothingToSay
  <2> QED BY <1>0, <1>1, <2>1, <2>2 DEF RouteGoes, Walking
<1>6. CASE next > Len(descriptor.extents) /\ Return("native")
  <2>1. Agree(verdict, advice, "native")
    BY <1>0, <1>1, NativeAgrees
  <2> QED BY <1>0, <1>1, <1>6, <2>1, RouteAnswered
<1>7. CASE ~(next > Len(descriptor.extents) /\ Return("native"))
  <2>1. next <= Len(f.extents) /\ next \in DOMAIN f.extents /\ e = f.extents[next]
    <3>1. next <= Len(descriptor.extents)
      BY <1>7 DEF OpenExtent
    <3> QED BY <1>0, <1>2, <3>1
  <2>2. P => next = 1 /\ e.kind \in {"FLAT", "ZERO"} /\ (e.kind = "FLAT" => e.file # None)
    <3>1. \A n \in Nat \ {0} : n <= 1 => n = 1
      OBVIOUS
    <3> QED BY <1>0, <1>3, <2>1, <3>1
  <2>3. ASSUME e.kind # "ZERO", e.file # None, ~Exists(e.file) \/ ~File(e.file).readable
        PROVE  Damaged(f)
    BY <1>0, <2>1, <2>3 DEF Damaged, HasDescriptor
  <2> HIDE DEF P
  <2>4. CASE e.kind = "ZERO"
    BY <1>5, <1>7, <2>4 DEF OpenExtent, FlatKinds, SparseKinds
  <2>5. CASE e.kind \in FlatKinds /\ e.file # None
    <3>1. Access(e.file, "missing_component", NextExtent)
      BY <1>7, <2>5 DEF OpenExtent, FlatKinds, SparseKinds
    <3>2. e.kind # "ZERO"
      BY <2>5 DEF FlatKinds
    <3> QED BY <1>4, <1>5, <2>3, <2>5, <3>1, <3>2 DEF Access
  <2>6. CASE e.kind \in SparseKinds /\ e.file # None
    <3>1. ~P /\ e.kind # "ZERO" /\ e.kind \notin FlatKinds
      BY <2>2, <2>6 DEF SparseKinds, FlatKinds
    <3>2. Return("missing_component") \/ Return("io") \/ Return("unsupported_format") \/ NextExtent
      BY <1>7, <2>6, <3>1 DEF OpenExtent, Access, FromHeader
    <3> QED BY <1>4, <1>5, <3>1, <3>2
  <2>7. CASE /\ e.kind # "ZERO" /\ ~(e.kind \in FlatKinds /\ e.file # None)
             /\ ~(e.kind \in SparseKinds /\ e.file # None)
    <3>1. Return("unsupported_format")
      BY <1>7, <2>7 DEF OpenExtent
    <3>2. ~P
      BY <2>2, <2>7 DEF FlatKinds
    <3> QED BY <1>4, <3>1, <3>2
  <2> QED BY <2>4, <2>5, <2>6, <2>7
<1> QED BY <1>6, <1>7

\* The native backends, and qemu-nbd, which is out of the question.
LEMMA BackendRoute ==
  ASSUME WalkInv, RouteInv, gone = {}, ~forced,
         ResolveQemuNbd \/ OpenRaw \/ OpenVmdk \/ OpenText
  PROVE  RouteGoes
<1> DEFINE f == File(Image)
           P == advice = "native" /\ ~PromisesTooMuch(f)
<1>0. /\ pc \in {"raw", "open", "open_text"} /\ fs \in FileSystems /\ result = "none"
      /\ verdict' = verdict /\ advice' = advice
  BY RouteNow DEF WalkInv, ResolveQemuNbd, OpenRaw, OpenVmdk, OpenText, unread, asked
<1>1. /\ Judged(verdict, advice) /\ Exists(Image) /\ f.readable
      /\ f.layout = "sparse" /\ pc # "raw" => f.valid
      /\ Format(f) = IF pc = "raw" THEN "raw" ELSE "vmdk"
  BY <1>0, RouteNow
<1>2. f.layout \in {"sparse", "text", "foreign", "plain"} /\ (f.extents # <<>> <=> Len(f.extents) # 0)
  BY <1>0, <1>1, FileIs DEF Exists, WasThere
<1>3. P => \/ Format(f) = "raw" /\ f.layout = "plain"
           \/ /\ f.layout = "sparse" /\ f.valid /\ f.supported /\ ~f.huge
              /\ ~(f.described /\ (HasParent(f) \/ Len(f.extents) > 1))
           \/ f.layout = "text" /\ ~HasParent(f) /\ Len(f.extents) = 1 /\ Decodes(f)
  <2> SUFFICES ASSUME P
               PROVE  \/ Format(f) = "raw" /\ f.layout = "plain"
                      \/ /\ f.layout = "sparse" /\ f.valid /\ f.supported /\ ~f.huge
                         /\ ~(f.described /\ (HasParent(f) \/ Len(f.extents) > 1))
                      \/ f.layout = "text" /\ ~HasParent(f) /\ Len(f.extents) = 1 /\ Decodes(f)
    OBVIOUS
  <2>1. Judged(verdict, "native") /\ ~PromisesTooMuch(f)
    BY <1>1
  <2> QED BY <1>0, <2>1, Expected
<1>4. ASSUME NEW r, r \in {"io", "unsupported_format"}, Return(r),
             P => Damaged(f), P => r # "unsupported_format"
      PROVE  RouteGoes
  BY <1>0, <1>1, <1>4, Refused
<1>5. ASSUME Return("native"), Agree(verdict, advice, "native") PROVE RouteGoes
  BY <1>0, <1>1, <1>5, RouteAnswered
<1> HIDE DEF P
<1>6. CASE OpenRaw
  <2>1. pc = "raw" /\ Return("native")
    BY <1>1, <1>6 DEF OpenRaw, Access
  <2>2. Agree(verdict, advice, "native")
    BY <1>0, <1>1, <2>1, NativeAgrees
  <2> QED BY <1>5, <2>1, <2>2
<1>7. CASE OpenVmdk
  <2>0. pc = "open" /\ Format(f) = "vmdk"
    BY <1>1, <1>7 DEF OpenVmdk
  <2>1. CASE f.layout = "sparse"
    <3>1. CASE f.described /\ (HasParent(f) \/ Len(f.extents) > 1)
      <4>1. Return("unsupported_format")
        BY <1>1, <1>7, <2>1, <3>1 DEF OpenVmdk, Access
      <4>2. ~P
        BY <1>3, <2>1, <3>1
      <4> QED BY <1>4, <4>1, <4>2
    <3>2. CASE ~(f.described /\ (HasParent(f) \/ Len(f.extents) > 1))
      <4>0. FromHeader(f, Return("native"))
        BY <1>1, <1>7, <2>1, <3>2 DEF OpenVmdk, Access
      <4>1. CASE ~f.supported \/ f.huge
        <5>1. Return("unsupported_format")
          BY <4>0, <4>1 DEF FromHeader
        <5>2. ~P
          BY <1>3, <2>1, <4>1
        <5> QED BY <1>4, <5>1, <5>2
      <4>2. CASE f.supported /\ ~f.huge /\ ~f.directory
        <5>1. Return("io")
          BY <4>0, <4>2 DEF FromHeader
        <5>2. Damaged(f)
          BY <2>1, <4>2 DEF Damaged
        <5> QED BY <1>4, <5>1, <5>2
      <4>3. CASE f.supported /\ ~f.huge /\ f.directory
        <5>1. Return("native")
          BY <4>0, <4>3 DEF FromHeader
        <5>2. Agree(verdict, advice, "native")
          BY <1>0, <1>1, <2>0, <2>1, <3>2, <4>3, NativeAgrees
        <5> QED BY <1>5, <5>1, <5>2
      <4> QED BY <4>1, <4>2, <4>3
    <3> QED BY <3>1, <3>2
  <2>2. CASE f.layout = "text"
    <3>1. Goto("open_text")
      BY <1>1, <1>7, <2>2 DEF OpenVmdk, Access
    <3>2. pc' = "open_text" /\ result' = "none"
      BY <1>0, <3>1 DEF Goto
    <3>3. Judged(verdict', advice') /\ Agree(verdict', advice', result')
      BY <1>0, <1>1, <3>2, NothingToSay
    <3> QED BY <1>1, <2>0, <2>2, <3>2, <3>3 DEF RouteGoes, Walking
  <2>3. CASE f.layout \in {"foreign", "plain"}
    <3>1. Return("unsupported_format")
      BY <1>1, <1>7, <2>3 DEF OpenVmdk, Access
    <3>2. ~P
      BY <1>3, <2>0, <2>3
    <3> QED BY <1>4, <3>1, <3>2
  <2> QED BY <1>2, <2>1, <2>2, <2>3
<1>8. CASE OpenText
  <2>0. pc = "open_text" /\ Format(f) = "vmdk" /\ f.layout = "text"
    BY <1>1, <1>8 DEF OpenText, WalkInv
  <2>1. CASE Decodes(f) /\ (HasParent(f) \/ f.extents = <<>>)
    <3>1. Return("unsupported_format")
      BY <1>1, <1>8, <2>1 DEF OpenText, Access
    <3>2. ~P
      BY <1>2, <1>3, <2>0, <2>1
    <3> QED BY <1>4, <3>1, <3>2
  <2>2. CASE ~Decodes(f)
    <3>1. Return("io")
      BY <1>1, <1>8, <2>2 DEF OpenText, Access
    <3>2. ~P
      BY <1>3, <2>0, <2>2
    <3> QED BY <1>4, <3>1, <3>2
  <2>3. CASE Decodes(f) /\ ~(HasParent(f) \/ f.extents = <<>>)
    <3>1. pc' = "extent" /\ result' = "none"
      BY <1>0, <1>1, <1>8, <2>3 DEF OpenText, Access
    <3>2. Judged(verdict', advice') /\ Agree(verdict', advice', result')
      BY <1>0, <1>1, <3>1, NothingToSay
    <3> QED BY <1>1, <2>0, <2>3, <3>1, <3>2 DEF RouteGoes, Walking
  <2> QED BY <2>1, <2>2, <2>3
<1>9. ~ResolveQemuNbd
  BY <1>0 DEF ResolveQemuNbd
<1> QED BY <1>6, <1>7, <1>8, <1>9

\* What verify_image_integrity, requires_nbd and the opener have seen of the image
\* is the same file, as long as nobody removes one.
THEOREM RouteInvariant == Spec => [](OpenInv /\ RouteInv)
<1>1. ASSUME Init PROVE RouteInv
  <2>1. /\ verdict = "none" /\ advice = "none" /\ result = "none" /\ pc = "verify"
        /\ extension \in Extensions
    BY <1>1 DEF Init
  <2> QED BY <2>1 DEF RouteInv, RoutingAgrees, Walking
<1>2. ASSUME OpenInv, RouteInv, [Next]_vars PROVE RouteInv'
  <2>1. fs' = fs /\ gone \subseteq gone' /\ WalkInv
    BY <1>2, OnlyRemoved DEF OpenInv
  <2>2. CASE gone' # {} \/ forced'
    BY <2>2 DEF RouteInv
  <2>3. CASE gone' = {} /\ ~forced'
    <3>1. gone = {}
      BY <2>1, <2>3
    <3>2. CASE Step
      <4>1. extension' = extension /\ forced' = forced
        BY <3>2 DEF Step, VerifyImageIntegrity, RequiresNbd, Identify, Enter, ReadHeader,
                    ReadText, CheckParent, CheckExtent, Descend, ResolveQemuNbd, OpenRaw,
                    OpenVmdk, OpenText, OpenExtent, unread
      <4>2. RouteGoes
        BY <1>2, <2>1, <2>3, <3>1, <3>2, <4>1, JudgesStep, IdentifyRoute, WalkRoute,
           BackendRoute, ExtentRoute DEF Step
      <4> QED BY <2>1, <2>3, <3>1, <4>1, <4>2, RouteStays
    <3>3. CASE Remove
      BY <2>3, <3>3 DEF Remove
    <3>4. CASE UNCHANGED vars
      <4>1. /\ extension' = extension /\ forced' = forced /\ pc' = pc /\ here' = here
            /\ depth' = depth /\ visited' = visited /\ verdict' = verdict /\ advice' = advice
            /\ result' = result
        BY <3>4 DEF vars, walk, asked
      <4>2. RouteGoes
        BY <1>2, <2>3, <3>1, <4>1, RouteNow DEF RouteGoes
      <4> QED BY <2>1, <2>3, <3>1, <4>1, <4>2, RouteStays
    <3> QED BY <1>2, <3>2, <3>3, <3>4 DEF Next
  <2> QED BY <2>2, <2>3
<1> QED BY <1>1, <1>2, OpenInvariant, PTL DEF Spec

\* verify_image_integrity and requires_nbd disagree with the native opener about a
\* file that stays as it is in the listed cases only, for all file systems.
THEOREM JudgesDisagreeOnlyThere == Spec => []RoutingAgrees
<1>1. RouteInv => RoutingAgrees
  BY DEF RouteInv, RoutingAgrees
<1> QED BY <1>1, RouteInvariant, PTL
=============================================================================
