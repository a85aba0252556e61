---------------------------- MODULE CommandProofs ----------------------------
(***************************************************************************)
(* Proofs about the command and about the inspection of one image.         *)
(*                                                                         *)
(* The command, for every finite tree, every command line and every        *)
(* failure of the file system: the walk reports exactly what it could get  *)
(* to, and what the command prints accounts for all of it.                 *)
(*                                                                         *)
(* An inspection, for every disk, every request, every failure of a read   *)
(* and every moment of cancellation: a report that is returned rests on no *)
(* refused read, what a poller or the callback sees never goes back, the   *)
(* partitions found are those that the table declares, a cancellation      *)
(* keeps a report from being returned, the packages that are reported are  *)
(* those of the status file, and what is reported of Windows is what its   *)
(* hives hold, or says that it is not.                                     *)
(***************************************************************************)
EXTENDS CommandLine, Inspection, FiniteSetTheorems, WellFoundedInduction, TLAPS

-----------------------------------------------------------------------------
(* The tree. *)

\* What the tree's assumption says, in parts.
LEMMA TreeIs ==
  /\ Root \in Dirs /\ Root \in Nodes /\ Root \notin Files
  /\ \A n \in Nodes \ {Root} : Parent[n] \in Dirs /\ Parent[n] \in Nodes
  /\ \A S \in SUBSET (Nodes \ {Root}) :
       (\A n \in S : Parent[n] \in S) => S = {}
BY TreeAssumption DEF Nodes

\* The sets that hold the parent of n and of each of their own members; what is
\* in all of them is above n.
Closed(n, S) ==
  /\ n # Root => Parent[n] \in S
  /\ \A m \in S : m # Root => Parent[m] \in S
UpFrom(n) == {a \in Nodes : \A S \in SUBSET Nodes : Closed(n, S) => a \in S}

\* UpFrom satisfies the equation that defines Above.
LEMMA UpFromIs ==
  ASSUME NEW n \in Nodes
  PROVE  UpFrom(n) = IF n = Root THEN {} ELSE {Parent[n]} \cup UpFrom(Parent[n])
<1>1. CASE n = Root
  <2>1. Closed(n, {}) /\ {} \in SUBSET Nodes
    BY <1>1 DEF Closed
  <2> QED BY <1>1, <2>1 DEF UpFrom
<1>2. CASE n # Root
  <2> DEFINE p == Parent[n]
             T == {p} \cup UpFrom(p)
  <2>1. p \in Nodes
    BY <1>2, TreeIs
  <2>2. \A m \in UpFrom(p) : m # Root => Parent[m] \in UpFrom(p)
    <3> SUFFICES ASSUME NEW m \in UpFrom(p), m # Root PROVE Parent[m] \in UpFrom(p)
      OBVIOUS
    <3>1. m \in Nodes /\ Parent[m] \in Nodes
      BY TreeIs DEF UpFrom
    <3>2. \A S \in SUBSET Nodes : Closed(p, S) => Parent[m] \in S
      BY <3>1 DEF UpFrom, Closed
    <3> QED BY <3>1, <3>2 DEF UpFrom
  <2>3. p # Root => Parent[p] \in UpFrom(p)
    <3> SUFFICES ASSUME p # Root PROVE Parent[p] \in UpFrom(p)
      OBVIOUS
    <3>1. Parent[p] \in Nodes
      BY <2>1, TreeIs
    <3> QED BY <3>1 DEF UpFrom, Closed
  <2>4. T \in SUBSET Nodes /\ Closed(n, T)
    BY <2>1, <2>2, <2>3 DEF Closed, UpFrom
  <2>5. UpFrom(n) \subseteq T
    BY <2>4 DEF UpFrom
  <2>6. p \in UpFrom(n)
    BY <1>2, <2>1 DEF UpFrom, Closed
  <2>7. ASSUME NEW a \in UpFrom(p) PROVE a \in UpFrom(n)
    <3>1. \A S \in SUBSET Nodes : Closed(n, S) => Closed(p, S)
      BY <1>2 DEF Closed
    <3> QED BY <3>1 DEF UpFrom
  <2> QED BY <1>2, <2>5, <2>6, <2>7
<1> QED BY <1>1, <1>2

\* Above is well defined: it satisfies its own equation.
LEMMA AboveIs ==
  ASSUME NEW n \in Nodes
  PROVE  Above[n] = IF n = Root THEN {} ELSE {Parent[n]} \cup Above[Parent[n]]
<1> DEFINE body(g) == [m \in Nodes |-> IF m = Root THEN {}
                                       ELSE {Parent[m]} \cup g[Parent[m]]]
           up == [m \in Nodes |-> UpFrom(m)]
<1>1. up = body(up)
  <2>1. ASSUME NEW m \in Nodes PROVE up[m] = body(up)[m]
    <3>1. m # Root => Parent[m] \in Nodes
      BY TreeIs
    <3> QED BY <3>1, UpFromIs
  <2> QED BY <2>1
<1>2. \E g : g = body(g)
  BY <1>1
<1>3. Above = CHOOSE g : g = body(g)
  BY DEF Above
<1>4. Above = body(Above)
  BY <1>2, <1>3
<1> QED BY <1>4

\* Above, case by case.
LEMMA AboveCases ==
  /\ Above[Root] = {}
  /\ \A n \in Nodes \ {Root} : Above[n] = {Parent[n]} \cup Above[Parent[n]]
BY AboveIs, TreeIs

\* Only directories are above a node.
LEMMA AboveDirs ==
  ASSUME NEW n \in Nodes
  PROVE  Above[n] \subseteq Dirs
<1> DEFINE S == {m \in Nodes \ {Root} : ~(Above[m] \subseteq Dirs)}
<1>1. ASSUME NEW m \in S PROVE Parent[m] \in S
  BY <1>1, AboveCases, TreeIs
<1>2. S = {}
  BY <1>1, TreeIs
<1> QED BY <1>2, AboveCases

\* What is above a node has its own parent above it too.
LEMMA AboveClosed ==
  ASSUME NEW n \in Nodes, NEW a \in Above[n], a # Root
  PROVE  Parent[a] \in Above[n]
<1> DEFINE bad(m) == \E b \in Above[m] : b # Root /\ Parent[b] \notin Above[m]
           S == {m \in Nodes \ {Root} : bad(m)}
<1>1. ASSUME NEW m \in S PROVE Parent[m] \in S
  <2>1. PICK b \in Above[m] : b # Root /\ Parent[b] \notin Above[m]
    OBVIOUS
  <2>2. Above[m] = {Parent[m]} \cup Above[Parent[m]] /\ Parent[m] \in Nodes
    BY AboveCases, TreeIs
  <2>3. b # Parent[m]
    BY <2>1, <2>2, AboveCases, TreeIs
  <2>4. b \in Above[Parent[m]] /\ Parent[b] \notin Above[Parent[m]]
    BY <2>1, <2>2, <2>3
  <2>5. Parent[m] # Root
    BY <2>4, AboveCases
  <2> QED BY <2>1, <2>2, <2>4, <2>5
<1>2. S = {}
  BY <1>1, TreeIs
<1>3. n # Root
  BY AboveCases
<1> QED BY <1>2, <1>3

\* No node is above itself.
LEMMA AboveAcyclic ==
  ASSUME NEW n \in Nodes
  PROVE  n \notin Above[n]
<1> DEFINE S == {m \in Nodes \ {Root} : m \in Above[m]}
<1>1. ASSUME NEW m \in S PROVE Parent[m] \in S
  <2>1. Above[m] = {Parent[m]} \cup Above[Parent[m]] /\ Parent[m] \in Nodes
    BY AboveCases, TreeIs
  <2>2. CASE m = Parent[m]
    BY <2>2
  <2>3. CASE m \in Above[Parent[m]]
    <3>1. Parent[m] \in Above[Parent[m]]
      BY <2>1, <2>3, AboveClosed
    <3>2. Parent[m] # Root
      BY <3>1, AboveCases
    <3> QED BY <2>1, <3>1, <3>2
  <2> QED BY <2>1, <2>2, <2>3
<1>2. S = {}
  BY <1>1, TreeIs
<1> QED BY <1>2, AboveCases

\* The way down from what is above a node goes through one of its entries.
LEMMA AboveStep ==
  ASSUME NEW n \in Nodes, NEW a \in Above[n]
  PROVE  \E m \in {n} \cup Above[n] : m \in Nodes \ {Root} /\ Parent[m] = a
<1> DEFINE leads(k, b) == \E m \in {k} \cup Above[k] : m \in Nodes \ {Root} /\ Parent[m] = b
           S == {k \in Nodes \ {Root} : \E b \in Above[k] : ~leads(k, b)}
<1>1. ASSUME NEW k \in S PROVE Parent[k] \in S
  <2>1. PICK b \in Above[k] : ~leads(k, b)
    OBVIOUS
  <2>2. Above[k] = {Parent[k]} \cup Above[Parent[k]] /\ Parent[k] \in Nodes
    BY AboveCases, TreeIs
  <2>3. b # Parent[k]
    BY <2>1
  <2>4. b \in Above[Parent[k]] /\ ~leads(Parent[k], b)
    BY <2>1, <2>2, <2>3
  <2>5. Parent[k] # Root
    BY <2>4, AboveCases
  <2> QED BY <2>2, <2>4, <2>5
<1>2. S = {}
  BY <1>1, TreeIs
<1>3. n # Root
  BY AboveCases
<1> QED BY <1>2, <1>3

\* The root is above every other node.
LEMMA RootAbove ==
  ASSUME NEW n \in Nodes \ {Root}
  PROVE  Root \in Above[n]
<1> DEFINE S == {m \in Nodes \ {Root} : Root \notin Above[m]}
<1>1. ASSUME NEW m \in S PROVE Parent[m] \in S
  BY <1>1, AboveCases, TreeIs
<1>2. S = {}
  BY <1>1, TreeIs
<1> QED BY <1>2

\* An entry of a directory lies one deeper than it.
DepthIs(d, k) == k \in Nat /\ IsFiniteSet(Above[d]) /\ Cardinality(Above[d]) = k
LEMMA DepthGrows ==
  ASSUME NEW n \in Nodes \ {Root}, NEW k, DepthIs(Parent[n], k)
  PROVE  DepthIs(n, k + 1)
<1> DEFINE p == Parent[n]
<1>1. p \in Nodes /\ Above[n] = Above[p] \cup {p} /\ p \notin Above[p]
  BY AboveCases, AboveAcyclic, TreeIs
<1>2. IsFiniteSet(Above[p] \cup {p}) /\ Cardinality(Above[p] \cup {p}) = Cardinality(Above[p]) + 1
  BY <1>1, FS_AddElement DEF DepthIs
<1> QED BY <1>1, <1>2 DEF DepthIs

-----------------------------------------------------------------------------
(* The queue. *)

Pairs == Dirs \X Nat

\* The directories in a queue, each of which is there once.
DirsOf(q)   == {q[i][1] : i \in DOMAIN q}
Distinct(q) == \A i, j \in DOMAIN q : q[i][1] = q[j][1] => i = j

\* Their depths are right.
DepthsRight(q) == \A i \in DOMAIN q : DepthIs(q[i][1], q[i][2])

\* pop_front takes one directory out.
LEMMA QueuePop ==
  ASSUME NEW q \in Seq(Pairs), q # <<>>, Distinct(q), DepthsRight(q)
  PROVE  /\ Tail(q) \in Seq(Pairs) /\ Head(q) \in Pairs
         /\ Head(q)[1] \in DirsOf(q) /\ DirsOf(Tail(q)) = DirsOf(q) \ {Head(q)[1]}
         /\ Distinct(Tail(q)) /\ DepthsRight(Tail(q)) /\ DepthIs(Head(q)[1], Head(q)[2])
<1> DEFINE t == Tail(q)
<1>1. /\ t \in Seq(Pairs) /\ Head(q) = q[1] /\ q[1] \in Pairs /\ Len(q) \in Nat /\ Len(q) > 0
      /\ DOMAIN q = 1 .. Len(q) /\ DOMAIN t = 1 .. Len(q) - 1
      /\ \A i \in 1 .. Len(q) - 1 : t[i] = q[i + 1]
  OBVIOUS
<1> HIDE DEF t
<1>2. 1 \in DOMAIN q /\ \A i \in DOMAIN t : i + 1 \in DOMAIN q /\ i + 1 # 1
  BY <1>1
<1>3. DirsOf(t) \subseteq DirsOf(q) \ {q[1][1]}
  BY <1>1, <1>2 DEF DirsOf, Distinct
<1>4. ASSUME NEW d \in DirsOf(q), d # q[1][1] PROVE d \in DirsOf(t)
  <2>1. PICK i \in DOMAIN q : d = q[i][1]
    BY DEF DirsOf
  <2>2. i # 1
    BY <2>1, <1>4
  <2>3. i - 1 \in DOMAIN t /\ t[i - 1] = q[i]
    BY <1>1, <2>2
  <2> QED BY <2>1, <2>3 DEF DirsOf
<1>5. Distinct(t)
  <2> SUFFICES ASSUME NEW i \in DOMAIN t, NEW j \in DOMAIN t, t[i][1] = t[j][1] PROVE i = j
    BY DEF Distinct
  <2>1. i + 1 = j + 1
    BY <1>1, <1>2 DEF Distinct
  <2> QED BY <1>1, <2>1
<1>6. DepthsRight(t)
  BY <1>1, <1>2 DEF DepthsRight
<1>7. q[1][1] \in DirsOf(q) /\ DepthIs(q[1][1], q[1][2])
  BY <1>2 DEF DirsOf, DepthsRight
<1> QED BY <1>1, <1>3, <1>4, <1>5, <1>6, <1>7 DEF t

\* push_back puts one in.
LEMMA QueuePush ==
  ASSUME NEW q \in Seq(Pairs), Distinct(q), DepthsRight(q),
         NEW d \in Dirs, NEW k \in Nat, d \notin DirsOf(q), DepthIs(d, k)
  PROVE  /\ Append(q, <<d, k>>) \in Seq(Pairs)
         /\ DirsOf(Append(q, <<d, k>>)) = DirsOf(q) \cup {d}
         /\ Distinct(Append(q, <<d, k>>)) /\ DepthsRight(Append(q, <<d, k>>))
<1> DEFINE t == Append(q, <<d, k>>)
           n == Len(q)
<1>1. /\ t \in Seq(Pairs) /\ n \in Nat /\ DOMAIN q = 1 .. n /\ DOMAIN t = 1 .. n + 1
      /\ \A i \in 1 .. n : t[i] = q[i]
      /\ t[n + 1] = <<d, k>>
  BY DEF Pairs
<1> HIDE DEF t, n
<1>2. n + 1 \in DOMAIN t /\ t[n + 1][1] = d /\ t[n + 1][2] = k
  BY <1>1
<1>3. \A i \in DOMAIN t : i = n + 1 \/ (i \in DOMAIN q /\ t[i] = q[i])
  BY <1>1
<1>4. DOMAIN q \subseteq DOMAIN t
  BY <1>1
<1>5. DirsOf(t) = DirsOf(q) \cup {d}
  BY <1>1, <1>2, <1>3, <1>4 DEF DirsOf
<1>6. Distinct(t)
  <2> SUFFICES ASSUME NEW i \in DOMAIN t, NEW j \in DOMAIN t, t[i][1] = t[j][1] PROVE i = j
    BY DEF Distinct
  <2>1. CASE i \in DOMAIN q /\ j \in DOMAIN q
    BY <1>1, <2>1 DEF Distinct
  <2>2. CASE i = n + 1 /\ j \in DOMAIN q
    BY <1>1, <1>2, <2>2 DEF DirsOf
  <2>3. CASE j = n + 1 /\ i \in DOMAIN q
    BY <1>1, <1>2, <2>3 DEF DirsOf
  <2> QED BY <1>3, <2>1, <2>2, <2>3
<1>7. DepthsRight(t)
  BY <1>2, <1>3 DEF DepthsRight
<1> QED BY <1>1, <1>5, <1>6, <1>7 DEF t

-----------------------------------------------------------------------------
(* The walk. *)

\* What the walk has yet to look at, and what it is done with and remembers.
Pending == DirsOf(queue) \cup left
Handled == found \cup inaccessible \cup skipped

\* Everything above a node lets the walk get to it.
Opened(n) == \A a \in Above[n] : Admitted(a) /\ a \notin inaccessible

WalkType ==
  /\ wpc \in {"idle", "root", "pop", "entries", "done"}
  /\ maxDepth \in Nat \cup {None}
  /\ queue \in Seq(Pairs) /\ reading \in Pairs /\ left \subseteq Nodes \ {Root}
  /\ found \subseteq Images \ Empty /\ inaccessible \subseteq Dirs /\ skipped \subseteq Nodes

\* Nothing was looked at yet.
Fresh ==
  /\ queue = <<>> /\ left = {} /\ found = {} /\ inaccessible = {} /\ skipped = {}
  /\ answer = "none"

\* Where the walk stands.
Position ==
  /\ wpc # "entries" => left = {}
  /\ wpc = "entries" => /\ DepthIs(reading[1], reading[2])
                       /\ \A n \in left : Parent[n] = reading[1]
  /\ Distinct(queue) /\ DepthsRight(queue) /\ DirsOf(queue) \cap left = {}
  /\ wpc \in {"idle", "root"} => Fresh
  /\ wpc # "done" => answer = "none"
  /\ answer = "report" => queue = <<>>

\* The walk does not come back: what is pending is above nothing that is pending
\* or handled, and was not handled itself.
Apart ==
  /\ \A p, q \in Pending : p \notin Above[q]
  /\ \A h \in Handled, p \in Pending : p # h /\ p \notin Above[h]

\* What is pending or reported can be got to.
Sound ==
  /\ \A n \in Pending \cup found \cup inaccessible : Opened(n)
  /\ \A d \in DirsOf(queue) \cup inaccessible : Admitted(d)
  /\ found \cap skipped = {}

\* An image that can be got to was found, or is still to come.
Complete ==
  wpc \notin {"idle", "root"} /\ answer \in {"none", "report"} =>
    \A f \in (Images \ Empty) \ skipped :
      Opened(f) => f \in found \/ \E a \in {f} \cup Above[f] : a \in Pending

WalkInv == WalkType /\ Position /\ Apart /\ Sound /\ Complete

\* Files are nodes, and no directories.
LEMMA ImagesAre ==
  \A f \in Images : f \in Files /\ f \in Nodes /\ f # Root /\ f \notin Dirs
BY TreeAssumption DEF Images, Nodes

\* What is handled or pending is a node.
LEMMA NodesAre ==
  ASSUME WalkType
  PROVE  /\ Handled \subseteq Nodes /\ Pending \subseteq Nodes /\ DirsOf(queue) \subseteq Dirs
         /\ Dirs \subseteq Nodes
<1>1. DirsOf(queue) \subseteq Dirs
  BY DEF WalkType, DirsOf, Pairs
<1>2. Dirs \subseteq Nodes
  BY DEF Nodes
<1>3. Handled \subseteq Nodes
  BY <1>2, ImagesAre DEF WalkType, Handled
<1> QED BY <1>1, <1>2, <1>3 DEF Pending, WalkType

\* The options and what was skipped decide who is admitted.
LEMMA AdmittedSame ==
  ASSUME UNCHANGED <<options, skipped>>
  PROVE  \A d : Admitted(d)' <=> Admitted(d)
BY DEF options, Admitted, IsExcluded, FileName
LEMMA OpenedSame ==
  ASSUME UNCHANGED <<options, skipped, inaccessible>>
  PROVE  \A n : Opened(n)' <=> Opened(n)
BY AdmittedSame DEF Opened

\* A directory is read: its entries take its place.
LEMMA ReadDirStep == ASSUME WalkInv, ReadDir PROVE WalkInv'
<1> DEFINE d == Head(queue)[1]
<1>1. /\ WalkType /\ Position /\ Apart /\ Sound /\ Complete
      /\ wpc = "pop" /\ left = {} /\ queue \in Seq(Pairs) /\ queue # <<>>
      /\ Distinct(queue) /\ DepthsRight(queue)
  BY DEF WalkInv, ReadDir, Position, WalkType
<1>2. /\ queue' = Tail(queue) /\ reading' = Head(queue) /\ wpc' = "entries"
      /\ left' = Children(d) /\ UNCHANGED <<options, found, inaccessible, skipped, answer>>
  BY DEF ReadDir
<1>3. /\ queue' \in Seq(Pairs) /\ reading' \in Pairs /\ reading'[1] = d
      /\ d \in DirsOf(queue) /\ DirsOf(queue') = DirsOf(queue) \ {d}
      /\ Distinct(queue') /\ DepthsRight(queue') /\ DepthIs(reading'[1], reading'[2])
  BY <1>1, <1>2, QueuePop
<1>4. d \in Pending /\ d \in Nodes /\ d \in Dirs /\ Pending = DirsOf(queue)
  BY <1>1, <1>3, NodesAre DEF Pending
<1>5. Admitted(d) /\ Opened(d) /\ d \notin inaccessible
  BY <1>1, <1>3, <1>4 DEF Sound, Apart, Handled
<1> HIDE DEF d
<1>6. \A n \in Children(d) : /\ n \in Nodes \ {Root} /\ Parent[n] = d
                            /\ Above[n] = {d} \cup Above[d]
  BY AboveCases DEF Children
<1>7. Pending' = (Pending \ {d}) \cup Children(d) /\ Handled' = Handled
  BY <1>2, <1>3, <1>4 DEF Pending, Handled
<1>8. Pending \subseteq Nodes /\ Handled \subseteq Nodes
  BY <1>1, NodesAre
<1>9. ASSUME NEW n \in Children(d), NEW m \in Nodes, n = m \/ n \in Above[m]
      PROVE  d \in Above[m]
  BY <1>6, <1>9, AboveCases, AboveClosed
<1>10. WalkType'
  BY <1>1, <1>2, <1>3, <1>6 DEF WalkType, options
<1>11. \A n \in Children(d) : n \notin Pending
  BY <1>1, <1>4, <1>8, <1>9 DEF Apart
<1>12. Position'
  BY <1>1, <1>2, <1>3, <1>4, <1>6, <1>11 DEF Position
<1>13. Apart'
  <2>1. ASSUME NEW p \in Pending', NEW q \in Pending' PROVE p \notin Above[q]
    <3>1. CASE p \in Pending \ {d} /\ q \in Pending \ {d}
      BY <1>1, <3>1 DEF Apart
    <3>2. CASE p \in Pending \ {d} /\ q \in Children(d)
      BY <1>1, <1>4, <1>6, <3>2 DEF Apart
    <3>3. CASE p \in Children(d) /\ q \in Pending \ {d}
      BY <1>1, <1>4, <1>8, <1>9, <3>3 DEF Apart
    <3>4. CASE p \in Children(d) /\ q \in Children(d)
      <4>1. p # d /\ p \notin Above[d]
        BY <1>4, <1>9, <3>4, AboveAcyclic
      <4> QED BY <1>6, <3>4, <4>1
    <3> QED BY <1>7, <3>1, <3>2, <3>3, <3>4
  <2>2. ASSUME NEW h \in Handled', NEW p \in Pending' PROVE p # h /\ p \notin Above[h]
    <3>1. CASE p \in Pending \ {d}
      BY <1>1, <1>7, <3>1 DEF Apart
    <3>2. CASE p \in Children(d)
      BY <1>1, <1>4, <1>7, <1>8, <1>9, <3>2 DEF Apart
    <3> QED BY <1>7, <3>1, <3>2
  <2> QED BY <2>1, <2>2 DEF Apart
<1>14. Sound'
  <2>1. \A n : Opened(n)' <=> Opened(n)
    BY <1>2, OpenedSame
  <2>2. \A n : Admitted(n)' <=> Admitted(n)
    BY <1>2, AdmittedSame
  <2>3. \A n \in Children(d) : Opened(n)
    BY <1>5, <1>6 DEF Opened
  <2>4. \A n \in Pending' \cup found' \cup inaccessible' : Opened(n)
    BY <1>1, <1>2, <1>7, <2>3 DEF Sound
  <2>5. \A n \in DirsOf(queue') \cup inaccessible' : Admitted(n)
    BY <1>1, <1>2, <1>3 DEF Sound
  <2>6. found' \cap skipped' = {}
    BY <1>1, <1>2 DEF Sound
  <2> QED BY <2>1, <2>2, <2>4, <2>5, <2>6 DEF Sound
<1>15. Complete'
  <2> SUFFICES ASSUME answer' \in {"none", "report"},
                      NEW f \in (Images \ Empty) \ skipped', Opened(f)'
               PROVE  f \in found' \/ \E a \in {f} \cup Above[f] : a \in Pending'
    BY DEF Complete
  <2>1. Opened(f) /\ f \in (Images \ Empty) \ skipped /\ answer \in {"none", "report"}
    BY <1>2, OpenedSame
  <2>2. f \in found \/ \E a \in {f} \cup Above[f] : a \in Pending
    BY <1>1, <2>1 DEF Complete
  <2>3. ASSUME NEW a \in {f} \cup Above[f], a \in Pending
        PROVE  \E b \in {f} \cup Above[f] : b \in Pending'
    <3>1. CASE a # d
      BY <1>7, <2>3, <3>1
    <3>2. CASE a = d
      <4>1. d \in Above[f] /\ f \in Nodes
        BY <1>4, <2>3, <3>2, ImagesAre
      <4>2. PICK m \in {f} \cup Above[f] : m \in Nodes \ {Root} /\ Parent[m] = d
        BY <4>1, AboveStep
      <4> QED BY <1>7, <4>2 DEF Children
    <3> QED BY <3>1, <3>2
  <2> QED BY <1>2, <2>2, <2>3
<1> QED BY <1>10, <1>12, <1>13, <1>14, <1>15 DEF WalkInv

\* A directory cannot be read: it is reported, and what is below it is out of reach.
LEMMA ReadDirFailsStep == ASSUME WalkInv, ReadDirFails PROVE WalkInv'
<1> DEFINE d == Head(queue)[1]
<1>1. /\ WalkType /\ Position /\ Apart /\ Sound /\ Complete
      /\ wpc = "pop" /\ left = {} /\ queue \in Seq(Pairs) /\ queue # <<>>
      /\ Distinct(queue) /\ DepthsRight(queue)
  BY DEF WalkInv, ReadDirFails, Position, WalkType
<1>2. /\ queue' = Tail(queue) /\ UNCHANGED <<options, reading, left, found, skipped>>
      /\ \/ d = Root /\ wpc' = "done" /\ answer' = "io" /\ inaccessible' = inaccessible
         \/ d # Root /\ inaccessible' = inaccessible \cup {d} /\ UNCHANGED <<wpc, answer>>
  BY DEF ReadDirFails
<1>3. /\ queue' \in Seq(Pairs) /\ d \in DirsOf(queue) /\ DirsOf(queue') = DirsOf(queue) \ {d}
      /\ Distinct(queue') /\ DepthsRight(queue')
  BY <1>1, <1>2, QueuePop
<1>4. d \in Pending /\ d \in Nodes /\ d \in Dirs /\ Pending = DirsOf(queue)
  BY <1>1, <1>3, NodesAre DEF Pending
<1>5. Admitted(d) /\ Opened(d)
  BY <1>1, <1>3, <1>4 DEF Sound
<1> HIDE DEF d
<1>6. Pending' = Pending \ {d} /\ Handled' \subseteq Handled \cup {d}
  BY <1>1, <1>2, <1>3, <1>4 DEF Pending, Handled
<1>7. inaccessible \subseteq inaccessible' /\ inaccessible' \subseteq inaccessible \cup {d}
  BY <1>2
<1>8. WalkType'
  BY <1>1, <1>2, <1>3, <1>4, <1>7 DEF WalkType, options
<1>9. Position'
  <2>1. /\ wpc' # "entries" /\ wpc' \notin {"idle", "root"} /\ left' = {}
        /\ answer' # "report"
    BY <1>1, <1>2 DEF Position
  <2>2. wpc' # "done" => answer' = "none"
    BY <1>1, <1>2 DEF Position
  <2>3. DirsOf(queue') \cap left' = {}
    BY <2>1
  <2> QED BY <1>3, <2>1, <2>2, <2>3 DEF Position
<1>10. Apart'
  BY <1>1, <1>4, <1>6 DEF Apart
<1>11. \A n : Admitted(n)' <=> Admitted(n)
  BY <1>2, AdmittedSame
<1>12. ASSUME NEW n, Opened(n), d \notin Above[n] PROVE Opened(n)'
  BY <1>7, <1>11, <1>12 DEF Opened
<1>13. Sound'
  <2>1. \A n \in Pending \cup found \cup inaccessible : d \notin Above[n]
    BY <1>1, <1>4 DEF Apart, Handled
  <2>2. d \notin Above[d]
    BY <1>4, AboveAcyclic
  <2>3. \A n \in Pending' \cup found' \cup inaccessible' : Opened(n)'
    BY <1>1, <1>2, <1>5, <1>6, <1>7, <1>12, <2>1, <2>2 DEF Sound
  <2>4. \A n \in DirsOf(queue') \cup inaccessible' : Admitted(n)'
    BY <1>1, <1>3, <1>5, <1>7, <1>11 DEF Sound
  <2>5. found' \cap skipped' = {}
    BY <1>1, <1>2 DEF Sound
  <2> QED BY <2>3, <2>4, <2>5 DEF Sound
<1>14. Complete'
  <2> SUFFICES ASSUME answer' \in {"none", "report"},
                      NEW f \in (Images \ Empty) \ skipped', Opened(f)'
               PROVE  f \in found' \/ \E a \in {f} \cup Above[f] : a \in Pending'
    BY DEF Complete
  <2>1. Opened(f) /\ f \in (Images \ Empty) \ skipped /\ d \notin Above[f]
        /\ answer \in {"none", "report"}
    BY <1>2, <1>7, <1>11 DEF Opened
  <2>2. f \in found \/ \E a \in {f} \cup Above[f] : a \in Pending
    BY <1>1, <2>1 DEF Complete
  <2>3. f # d
    BY <1>4, ImagesAre
  <2> QED BY <1>2, <1>6, <2>1, <2>2, <2>3
<1> QED BY <1>8, <1>9, <1>10, <1>13, <1>14 DEF WalkInv

\* An entry cannot be read: it is skipped, and what is below it is out of reach.
LEMMA SkipEntryStep == ASSUME WalkInv, NEW n \in left, SkipUnreadable(n) PROVE WalkInv'
<1>1. /\ WalkType /\ Position /\ Apart /\ Sound /\ Complete /\ wpc = "entries"
      /\ n \in Nodes /\ n # Root /\ n \in Pending /\ n \notin DirsOf(queue)
  BY DEF WalkInv, SkipUnreadable, Position, WalkType, Pending
<1>2. /\ left' = left \ {n} /\ skipped' = skipped \cup {n}
      /\ UNCHANGED <<options, wpc, queue, reading, found, inaccessible, answer>>
  BY DEF SkipUnreadable
<1>3. Pending' = Pending \ {n} /\ Handled' = Handled \cup {n}
  BY <1>1, <1>2 DEF Pending, Handled
<1>4. WalkType'
  BY <1>1, <1>2 DEF WalkType, options
<1>5. Position'
  BY <1>1, <1>2 DEF Position
<1>6. Apart'
  BY <1>1, <1>3 DEF Apart
<1>7. \A d : Admitted(d)' <=> Admitted(d) /\ (d = Root \/ d # n)
  BY <1>1, <1>2 DEF options, Admitted, IsExcluded, FileName
<1>8. ASSUME NEW m, Opened(m), n \notin Above[m] PROVE Opened(m)'
  BY <1>2, <1>7, <1>8 DEF Opened
<1>9. Sound'
  <2>1. \A m \in Pending \cup found \cup inaccessible : n \notin Above[m]
    BY <1>1 DEF Apart, Handled
  <2>2. \A m \in Pending' \cup found' \cup inaccessible' : Opened(m)'
    BY <1>1, <1>2, <1>3, <1>8, <2>1 DEF Sound
  <2>3. n \notin inaccessible /\ n \notin found
    BY <1>1 DEF Apart, Handled
  <2>4. \A m \in DirsOf(queue') \cup inaccessible' : Admitted(m)'
    BY <1>1, <1>2, <1>7, <2>3 DEF Sound
  <2>5. found' \cap skipped' = {}
    BY <1>1, <1>2, <2>3 DEF Sound
  <2> QED BY <2>2, <2>4, <2>5 DEF Sound
<1>10. Complete'
  <2> SUFFICES ASSUME answer' \in {"none", "report"},
                      NEW f \in (Images \ Empty) \ skipped', Opened(f)'
               PROVE  f \in found' \/ \E a \in {f} \cup Above[f] : a \in Pending'
    BY DEF Complete
  <2>1. Opened(f) /\ f \in (Images \ Empty) \ skipped /\ n \notin Above[f] /\ f # n
        /\ answer \in {"none", "report"}
    BY <1>1, <1>2, <1>7 DEF Opened
  <2>2. f \in found \/ \E a \in {f} \cup Above[f] : a \in Pending
    BY <1>1, <2>1 DEF Complete
  <2> QED BY <1>2, <1>3, <2>1, <2>2
<1> QED BY <1>4, <1>5, <1>6, <1>9, <1>10 DEF WalkInv

\* An entry is visited: a directory that the options admit is queued, one level
\* deeper, and an image is found.
LEMMA VisitEntryStep == ASSUME WalkInv, NEW n \in left, VisitEntry(n) PROVE WalkInv'
<1> DEFINE enters == n \in Dirs /\ recursive /\ ~IsExcluded(n) /\ BelowLimit(reading[2])
<1>1. /\ WalkType /\ Position /\ Apart /\ Sound /\ Complete /\ wpc = "entries"
      /\ n \in Nodes /\ n # Root /\ n \in Pending /\ n \notin DirsOf(queue)
      /\ Parent[n] = reading[1] /\ DepthIs(reading[1], reading[2])
  BY DEF WalkInv, VisitEntry, Position, WalkType, Pending
<1>2. /\ left' = left \ {n}
      /\ queue' = IF enters THEN Append(queue, <<n, reading[2] + 1>>) ELSE queue
      /\ found' = IF n \in Images \ Empty THEN found \cup {n} ELSE found
      /\ UNCHANGED <<options, wpc, reading, inaccessible, skipped, answer>>
  BY DEF VisitEntry
<1>3. DepthIs(n, reading[2] + 1)
  BY <1>1, DepthGrows
<1>4. n \notin skipped /\ n \notin found /\ n \notin inaccessible
  BY <1>1 DEF Apart, Handled
\* The walk's test of the depth and the reference's agree.
<1>5. n \in Dirs => (enters <=> Admitted(n))
  <2>1. reading[2] \in Nat /\ Cardinality(Above[n]) = reading[2] + 1
    BY <1>1, <1>3 DEF DepthIs
  <2>2. BelowLimit(reading[2]) <=> (maxDepth # None => Cardinality(Above[n]) <= maxDepth)
    <3>1. CASE maxDepth = None
      BY <3>1 DEF BelowLimit
    <3>2. CASE maxDepth # None
      <4>1. maxDepth \in Nat
        BY <1>1, <3>2 DEF WalkType
      <4> QED BY <2>1, <3>2, <4>1 DEF BelowLimit
    <3> QED BY <3>1, <3>2
  <2> QED BY <1>1, <1>4, <2>2 DEF Admitted
<1>6. /\ queue' \in Seq(Pairs) /\ Distinct(queue') /\ DepthsRight(queue')
      /\ DirsOf(queue') = DirsOf(queue) \cup (IF enters THEN {n} ELSE {})
  <2>1. queue \in Seq(Pairs) /\ Distinct(queue) /\ DepthsRight(queue)
    BY <1>1 DEF WalkType, Position
  <2>2. CASE enters
    <3>1. n \in Dirs /\ reading[2] + 1 \in Nat
      BY <1>3, <2>2 DEF DepthIs
    <3> QED BY <1>1, <1>2, <1>3, <2>1, <2>2, <3>1, QueuePush
  <2>3. CASE ~enters
    BY <1>2, <2>1, <2>3
  <2> QED BY <2>2, <2>3
<1>7. enters => Admitted(n)
  BY <1>5
<1>8. \A f : n \in Above[f] /\ f \in Nodes /\ Admitted(n) => enters
  BY <1>5, AboveDirs
<1> HIDE DEF enters
<1>9. Pending' = (Pending \ {n}) \cup (IF enters THEN {n} ELSE {})
  BY <1>1, <1>2, <1>6 DEF Pending
<1>10. Handled' = Handled \cup (IF n \in Images \ Empty THEN {n} ELSE {})
  BY <1>2 DEF Handled
<1>11. n \in Images => ~enters
  BY ImagesAre DEF enters
<1>12. WalkType'
  BY <1>1, <1>2, <1>6 DEF WalkType, options
<1>13. Position'
  BY <1>1, <1>2, <1>6 DEF Position
<1>14. Apart'
  <2>1. Pending' \subseteq Pending
    BY <1>1, <1>9
  <2>2. \A p, q \in Pending' : p \notin Above[q]
    BY <1>1, <2>1 DEF Apart
  <2>3. ASSUME NEW h \in Handled', NEW p \in Pending' PROVE p # h /\ p \notin Above[h]
    <3>1. CASE h \in Handled
      BY <1>1, <2>1, <3>1 DEF Apart
    <3>2. CASE h = n /\ n \in Images
      BY <1>1, <1>9, <1>11, <2>1, <3>2 DEF Apart
    <3> QED BY <1>10, <3>1, <3>2
  <2> QED BY <2>2, <2>3 DEF Apart
<1>15. \A m : Opened(m)' <=> Opened(m)
  BY <1>2, OpenedSame
<1>16. \A m : Admitted(m)' <=> Admitted(m)
  BY <1>2, AdmittedSame
<1>17. Sound'
  <2>1. Opened(n)
    BY <1>1 DEF Sound
  <2>2. \A m \in Pending' \cup found' \cup inaccessible' : Opened(m)
    BY <1>1, <1>2, <1>9, <2>1 DEF Sound
  <2>3. \A m \in DirsOf(queue') \cup inaccessible' : Admitted(m)
    BY <1>1, <1>2, <1>6, <1>7 DEF Sound
  <2>4. found' \cap skipped' = {}
    BY <1>1, <1>2, <1>4 DEF Sound
  <2> QED BY <1>15, <1>16, <2>2, <2>3, <2>4 DEF Sound
<1>18. Complete'
  <2> SUFFICES ASSUME answer' \in {"none", "report"},
                      NEW f \in (Images \ Empty) \ skipped', Opened(f)'
               PROVE  f \in found' \/ \E a \in {f} \cup Above[f] : a \in Pending'
    BY DEF Complete
  <2>1. Opened(f) /\ f \in (Images \ Empty) \ skipped /\ f \in Nodes
        /\ answer \in {"none", "report"}
    BY <1>2, <1>15, ImagesAre
  <2>2. f \in found \/ \E a \in {f} \cup Above[f] : a \in Pending
    BY <1>1, <2>1 DEF Complete
  <2>3. ASSUME NEW a \in {f} \cup Above[f], a \in Pending, f # n
        PROVE  a \in Pending'
    <3>1. CASE a # n
      BY <1>9, <2>3, <3>1
    <3>2. CASE a = n
      <4>1. n \in Above[f] /\ Admitted(n)
        BY <2>1, <2>3, <3>2 DEF Opened
      <4> QED BY <1>8, <1>9, <2>1, <3>2, <4>1
    <3> QED BY <3>1, <3>2
  <2> QED BY <1>2, <2>1, <2>2, <2>3
<1> QED BY <1>12, <1>13, <1>14, <1>17, <1>18 DEF WalkInv

\* The first step of the walk: the root is queued, above everything.
LEMMA ValidateRootStep == ASSUME WalkInv, ValidateRoot PROVE WalkInv'
<1>1. /\ WalkType /\ Fresh /\ wpc = "root" /\ Above[Root] = {} /\ Root \in Dirs
  BY AboveCases, TreeIs DEF WalkInv, ValidateRoot, Position
<1>2. UNCHANGED <<options, reading, left, found, inaccessible, skipped>>
  BY DEF ValidateRoot
<1>3. CASE wpc' = "done" /\ queue' = queue /\ answer' \in {"image_not_found", "io", "other"}
  <2>1. queue' = <<>> /\ left' = {} /\ found' = {} /\ inaccessible' = {} /\ skipped' = {}
    BY <1>1, <1>2, <1>3 DEF Fresh
  <2>2. DirsOf(<<>>) = {} /\ Distinct(<<>>) /\ DepthsRight(<<>>)
    BY DEF DirsOf, Distinct, DepthsRight
  <2>3. Pending' = {} /\ Handled' = {}
    BY <2>1, <2>2 DEF Pending, Handled
  <2>4. WalkType'
    BY <1>1, <1>2, <1>3 DEF WalkType, options
  <2>5. Position'
    BY <1>3, <2>1, <2>2 DEF Position
  <2>6. Apart' /\ Sound'
    BY <2>1, <2>2, <2>3 DEF Apart, Sound
  <2>7. Complete'
    BY <1>3 DEF Complete
  <2> QED BY <2>4, <2>5, <2>6, <2>7 DEF WalkInv
<1>4. CASE wpc' = "pop" /\ queue' = <<<<Root, 0>>>> /\ answer' = answer
  <2>1. left' = {} /\ found' = {} /\ inaccessible' = {} /\ skipped' = {} /\ answer' = "none"
    BY <1>1, <1>2, <1>4 DEF Fresh
  <2>2. DepthIs(Root, 0)
    BY <1>1, FS_EmptySet DEF DepthIs
  <2>3. /\ queue' \in Seq(Pairs) /\ DirsOf(queue') = {Root} /\ Distinct(queue')
        /\ DepthsRight(queue')
    BY <1>1, <1>4, <2>2 DEF Pairs, DirsOf, Distinct, DepthsRight
  <2>4. Pending' = {Root} /\ Handled' = {}
    BY <2>1, <2>3 DEF Pending, Handled
  <2>5. WalkType'
    BY <1>1, <1>2, <1>4, <2>3 DEF WalkType, options
  <2>6. Position'
    BY <1>4, <2>1, <2>3 DEF Position
  <2>7. Apart'
    BY <1>1, <2>4 DEF Apart
  <2>8. Sound'
    BY <1>1, <2>1, <2>3, <2>4 DEF Sound, Opened, Admitted
  <2>9. Complete'
    <3>1. \A f \in Images : Root \in Above[f]
      BY ImagesAre, RootAbove
    <3> QED BY <2>4, <3>1 DEF Complete
  <2> QED BY <2>5, <2>6, <2>7, <2>8, <2>9 DEF WalkInv
<1> QED BY <1>3, <1>4 DEF ValidateRoot

\* The end of a directory and the end of the walk change no more than the place.
LEMMA EndStep == ASSUME WalkInv, EndOfDir \/ EndOfWalk PROVE WalkInv'
<1>1. /\ UNCHANGED <<options, queue, reading, left, found, inaccessible, skipped>>
      /\ left = {} /\ wpc \in {"entries", "pop"} /\ wpc' \in {"pop", "done"}
      /\ answer' = answer \/ (answer' = "report" /\ wpc' = "done" /\ queue = <<>>)
      /\ answer # "report"
  BY DEF EndOfDir, EndOfWalk, WalkInv, Position
<1>2. Pending' = Pending /\ Handled' = Handled
  BY <1>1 DEF Pending, Handled
<1>3. \A n : (Opened(n)' <=> Opened(n)) /\ (Admitted(n)' <=> Admitted(n))
  BY <1>1, OpenedSame, AdmittedSame
<1>4. WalkType'
  BY <1>1 DEF WalkInv, WalkType, options
<1>5. Position'
  BY <1>1 DEF WalkInv, Position
<1>6. Apart' /\ Sound'
  BY <1>1, <1>2, <1>3 DEF WalkInv, Apart, Sound
<1>7. Complete'
  <2>1. answer = "none"
    BY <1>1 DEF WalkInv, Position
  <2> QED BY <1>1, <1>2, <1>3, <2>1 DEF WalkInv, Complete
<1> QED BY <1>4, <1>5, <1>6, <1>7 DEF WalkInv

\* Every step of the walk keeps its invariant.
LEMMA WalkStepKeeps == ASSUME WalkInv, WalkStep PROVE WalkInv'
BY ValidateRootStep, ReadDirStep, ReadDirFailsStep, EndStep, SkipEntryStep, VisitEntryStep
   DEF WalkStep

\* So does the call, with options of the right type, and a step that leaves the
\* walk alone.
LEMMA CallKeeps ==
  ASSUME WalkInv, NEW deep, NEW without, NEW limit \in Nat \cup {None},
         CallListVms(deep, without, limit)
  PROVE  WalkInv'
<1>1. /\ WalkType /\ Fresh /\ wpc' = "root" /\ maxDepth' = limit
      /\ UNCHANGED <<queue, reading, left, found, inaccessible, skipped, answer>>
  BY DEF WalkInv, Position, CallListVms
<1>2. DirsOf(<<>>) = {} /\ Distinct(<<>>) /\ DepthsRight(<<>>)
  BY DEF DirsOf, Distinct, DepthsRight
<1>3. Pending' = {} /\ Handled' = {} /\ Fresh'
  BY <1>1, <1>2 DEF Pending, Handled, Fresh
<1>4. WalkType'
  BY <1>1 DEF WalkType
<1>5. Position'
  BY <1>1, <1>2, <1>3 DEF Position, Fresh
<1>6. Apart' /\ Sound'
  BY <1>1, <1>2, <1>3 DEF Apart, Sound, Fresh
<1>7. Complete'
  BY <1>1 DEF Complete
<1> QED BY <1>4, <1>5, <1>6, <1>7 DEF WalkInv

LEMMA StillKeeps == ASSUME WalkInv, UNCHANGED discoveryVars PROVE WalkInv'
<1>1. /\ UNCHANGED <<options, wpc, queue, reading, left, found, inaccessible, skipped, answer>>
  BY DEF discoveryVars
<1>2. Pending' = Pending /\ Handled' = Handled
  BY <1>1 DEF Pending, Handled
<1>3. \A n : (Opened(n)' <=> Opened(n)) /\ (Admitted(n)' <=> Admitted(n))
  BY <1>1, OpenedSame, AdmittedSame
<1>4. WalkType' /\ Position'
  BY <1>1 DEF WalkInv, WalkType, Position, Fresh, options
<1>5. Apart' /\ Sound' /\ Complete'
  BY <1>1, <1>2, <1>3 DEF WalkInv, Apart, Sound, Complete
<1> QED BY <1>4, <1>5 DEF WalkInv

\* Before the call nothing was looked at.
LEMMA WalkBegins == DiscoveryInit => WalkInv
<1> SUFFICES ASSUME DiscoveryInit PROVE WalkInv
  OBVIOUS
<1>1. DirsOf(<<>>) = {} /\ Distinct(<<>>) /\ DepthsRight(<<>>)
  BY DEF DirsOf, Distinct, DepthsRight
<1>2. /\ Fresh /\ wpc = "idle" /\ maxDepth = None /\ reading = <<Root, 0>>
  BY DEF DiscoveryInit, Fresh
<1>3. Pending = {} /\ Handled = {}
  BY <1>1, <1>2 DEF Pending, Handled, Fresh
<1>4. WalkType
  BY <1>2, TreeIs DEF WalkType, Fresh, Pairs
<1>5. Position
  BY <1>1, <1>2 DEF Position, Fresh
<1>6. Apart /\ Sound /\ Complete
  BY <1>1, <1>2, <1>3 DEF Apart, Sound, Complete, Fresh
<1> QED BY <1>4, <1>5, <1>6 DEF WalkInv

\* When the walk has nothing left to look at, what it found is what it could reach.
LEMMA WalkIsExact == WalkInv => ReportExact
<1> SUFFICES ASSUME WalkInv, answer = "report"
             PROVE  /\ found = {f \in (Images \ Empty) \ skipped : Walked(Parent[f])}
                    /\ \A d \in inaccessible : Admitted(d) /\ (d # Root => Walked(Parent[d]))
  BY DEF ReportExact
<1>1. WalkType /\ Position /\ Apart /\ Sound /\ Complete
  BY DEF WalkInv
<1>2. wpc = "done" /\ queue = <<>> /\ left = {}
  BY <1>1 DEF Position
<1>3. Pending = {}
  BY <1>2 DEF Pending, DirsOf
<1>4. \A n \in Nodes \ {Root} : Walked(Parent[n]) <=> Opened(n)
  BY AboveCases DEF Walked, Opened
<1>5. \A f \in Images : Walked(Parent[f]) <=> Opened(f)
  BY <1>4, ImagesAre
<1>6. \A f \in (Images \ Empty) \ skipped : Opened(f) => f \in found
  BY <1>1, <1>2, <1>3 DEF Complete
<1>7. \A f \in found : f \in (Images \ Empty) \ skipped /\ Opened(f)
  BY <1>1 DEF WalkType, Sound
<1>8. \A d \in inaccessible : d \in Nodes /\ Admitted(d) /\ Opened(d)
  BY <1>1, NodesAre DEF WalkType, Sound
<1>9. found = {f \in (Images \ Empty) \ skipped : Walked(Parent[f])}
  BY <1>5, <1>6, <1>7
<1> QED BY <1>4, <1>8, <1>9

-----------------------------------------------------------------------------
(* The command. *)

Fields == {"json", "concurrent", "recursive", "full", "quiet", "workers", "maxDepth",
           "excluded", "target"}

\* The numbers of a configuration are numbers.
ConfigType ==
  /\ DOMAIN config = Fields
  /\ config.quiet \in BOOLEAN /\ config.json \in BOOLEAN
  /\ config.workers \in Nat \cup {None} /\ config.maxDepth \in Nat \cup {None}

\* What inspect_batch left behind: an image without an outcome means a panic, and
\* one that did not panic itself means that no worker was left.
Unanswered == found \ (reports \cup failures)
BatchTold ==
  /\ Unanswered # {} => panicked # {}
  /\ Unanswered \ panicked # {} =>
       Cardinality(panicked) = PoolSizeOf(Workers, Cardinality(found), MaxPool)

CommandInv ==
  /\ WalkInv /\ ConfigType /\ args \in Seq(Arguments)
  /\ stage \in {"parse", "file", "directory"} => wpc = "idle"
  /\ stage \in {"batch", "print"} => wpc = "done" /\ answer = "report"
  /\ stage = "print" => BatchTold
  /\ stage # "exit" => told = {} /\ (config.quiet \/ warned = inaccessible)
  /\ CommandTruthful

\* The rest of the arguments are arguments.
LEMMA RestOfArgs ==
  ASSUME NEW s \in Seq(Arguments), NEW n \in 1 .. Len(s)
  PROVE  SubSeq(s, n + 1, Len(s)) \in Seq(Arguments)
OBVIOUS

\* An argument changes one field of the configuration, to what its type admits.
LEMMA FieldSet ==
  ASSUME ConfigType, NEW f \in Fields, NEW v, config' = [config EXCEPT ![f] = v],
         f \in {"json", "quiet"} => v = TRUE,
         f \in {"workers", "maxDepth"} => v \in Nat \cup {None}
  PROVE  ConfigType' /\ (config.quiet => config'.quiet)
<1>1. /\ DOMAIN config' = Fields
      /\ \A g \in Fields : config'[g] = IF g = f THEN v ELSE config[g]
  BY DEF ConfigType
<1>2. "quiet" \in Fields /\ "json" \in Fields /\ "workers" \in Fields /\ "maxDepth" \in Fields
  BY DEF Fields
<1>3. config'.quiet = TRUE \/ config'.quiet = config.quiet
  BY <1>1, <1>2
<1>4. config'.json = TRUE \/ config'.json = config.json
  BY <1>1, <1>2
<1>5. config'.workers \in Nat \cup {None} /\ config'.maxDepth \in Nat \cup {None}
  BY <1>1, <1>2 DEF ConfigType
<1>6. config'.quiet \in BOOLEAN /\ (config.quiet => config'.quiet)
  BY <1>3, Zenon DEF ConfigType
<1>7. config'.json \in BOOLEAN
  BY <1>4, Zenon DEF ConfigType
<1> QED BY <1>1, <1>5, <1>6, <1>7 DEF ConfigType

\* A step of the parser takes arguments and sets a field, or ends the command
\* before anything was looked at.
LEMMA ParseEffect ==
  ASSUME CommandInv, ParseFlag \/ ParseValue \/ ParseOther
  PROVE  /\ stage = "parse" /\ UNCHANGED <<discoveryVars, batchVars, outputVars>>
         /\ stage' \in {"parse", "exit"} /\ args' \in Seq(Arguments)
         /\ ConfigType' /\ (config.quiet => config'.quiet)
<1>0. /\ stage = "parse" /\ args # <<>> /\ ConfigType /\ args \in Seq(Arguments)
      /\ UNCHANGED <<discoveryVars, batchVars, outputVars>>
  BY DEF ParseFlag, ParseValue, ParseOther, CommandInv
<1>1. /\ 1 \in 1 .. Len(args) /\ Len(args) \in Nat /\ args[1] \in Arguments
      /\ Len(args) > 1 => 2 \in 1 .. Len(args) /\ args[2] \in Arguments
  BY <1>0
<1>2. ASSUME Parse(1) \/ (Parse(2) /\ Len(args) > 1)
      PROVE  stage' = "parse" /\ args' \in Seq(Arguments)
  BY <1>0, <1>1, <1>2, RestOfArgs DEF Parse
<1>3. ASSUME UNCHANGED config PROVE ConfigType' /\ (config.quiet => config'.quiet)
  BY <1>0, <1>3 DEF ConfigType
<1>4. ASSUME NEW status, Exit(status), UNCHANGED <<args, config>>
      PROVE  stage' = "exit" /\ args' \in Seq(Arguments)
             /\ ConfigType' /\ (config.quiet => config'.quiet)
  BY <1>0, <1>3, <1>4 DEF Exit
<1>5. \A a \in Arguments : a.number \in Nat \cup {None}
  BY CommandAssumption
<1>6. CASE ParseFlag
  <2>1. ASSUME NEW f \in DOMAIN Flags, config' = [config EXCEPT ![f] = TRUE], Parse(1)
        PROVE  ConfigType' /\ (config.quiet => config'.quiet)
    <3>1. f \in Fields /\ f \notin {"workers", "maxDepth"}
      BY DEF Flags, Fields
    <3> QED BY <1>0, <2>1, <3>1, FieldSet
  <2> QED BY <1>0, <1>2, <1>3, <1>4, <1>6, <2>1 DEF ParseFlag
<1>7. ASSUME NEW n \in Nat \cup {None}, NEW used \in {1, 2}, used = 2 => Len(args) > 1,
             SetWorkers(n, used)
      PROVE  /\ stage' \in {"parse", "exit"} /\ args' \in Seq(Arguments)
             /\ ConfigType' /\ (config.quiet => config'.quiet)
  <2>1. CASE config' = [config EXCEPT !["workers"] = n] /\ Parse(used)
    <3>1. "workers" \in Fields
      BY DEF Fields
    <3>2. ConfigType' /\ (config.quiet => config'.quiet)
      BY <1>0, <2>1, <3>1, FieldSet
    <3> QED BY <1>2, <1>7, <2>1, <3>2
  <2>2. CASE Exit(1) /\ UNCHANGED <<args, config>>
    BY <1>4, <2>2
  <2> QED BY <1>7, <2>1, <2>2 DEF SetWorkers
<1>8. CASE ParseValue
  <2>1. CASE /\ config' = [config EXCEPT !["excluded"] = config["excluded"] \cup {args[2].exclusion}]
             /\ Parse(2) /\ Len(args) > 1
    <3>1. "excluded" \in Fields
      BY DEF Fields
    <3>2. ConfigType' /\ (config.quiet => config'.quiet)
      BY <1>0, <2>1, <3>1, FieldSet
    <3> QED BY <1>0, <1>2, <2>1, <3>2
  <2>2. CASE /\ config' = [config EXCEPT !["maxDepth"] = args[2].number]
             /\ Parse(2) /\ Len(args) > 1
    <3>1. "maxDepth" \in Fields /\ args[2].number \in Nat \cup {None}
      BY <1>1, <1>5, <2>2 DEF Fields
    <3>2. ConfigType' /\ (config.quiet => config'.quiet)
      BY <1>0, <2>2, <3>1, FieldSet
    <3> QED BY <1>0, <1>2, <2>2, <3>2
  <2>3. CASE Exit(1) /\ UNCHANGED <<args, config>>
    BY <1>0, <1>4, <2>3
  <2>4. CASE Len(args) > 1 /\ SetWorkers(args[2].number, 2)
    <3>1. args[2].number \in Nat \cup {None}
      BY <1>1, <1>5, <2>4
    <3> QED BY <1>0, <1>7, <2>4, <3>1
  <2>5. CASE SetWorkers(args[1].number, 1)
    <3>1. args[1].number \in Nat \cup {None}
      BY <1>1, <1>5
    <3>2. 1 \in {1, 2} /\ (1 = 2 => Len(args) > 1)
      OBVIOUS
    <3>3. /\ stage' \in {"parse", "exit"} /\ args' \in Seq(Arguments)
          /\ ConfigType' /\ (config.quiet => config'.quiet)
      BY <1>7, <2>5, <3>1, <3>2
    <3> QED BY <1>0, <3>3
  <2> QED BY <1>8, <2>1, <2>2, <2>3, <2>4, <2>5 DEF ParseValue
<1>9. CASE ParseOther
  <2>1. CASE config' = [config EXCEPT !["target"] = [kind |-> args[1].kind]] /\ Parse(1)
    <3>1. "target" \in Fields
      BY DEF Fields
    <3>2. ConfigType' /\ (config.quiet => config'.quiet)
      BY <1>0, <2>1, <3>1, FieldSet
    <3> QED BY <1>0, <1>2, <2>1, <3>2
  <2>2. CASE Exit(1) /\ UNCHANGED <<args, config>>
    BY <1>0, <1>4, <2>2
  <2> QED BY <1>9, <2>1, <2>2 DEF ParseOther
<1> QED BY <1>6, <1>8, <1>9

\* The pool of a batch has a worker as soon as there is an image.
LEMMA PoolIs ==
  ASSUME ConfigType, NEW n \in Nat
  PROVE  /\ PoolSizeOf(Workers, n, MaxPool) \in Nat
         /\ n > 0 => PoolSizeOf(Workers, n, MaxPool) > 0
<1>1. Workers \in Nat
  BY DEF ConfigType, Workers
<1>2. MaxPool \in Nat /\ MaxPool > 0
  BY CommandAssumption
<1> QED BY <1>1, <1>2 DEF PoolSizeOf

\* The images of a walk, and any part of them, can be counted.
LEMMA ImagesCounted ==
  ASSUME WalkInv, NEW P \in SUBSET found
  PROVE  /\ IsFiniteSet(P) /\ Cardinality(P) \in Nat
         /\ Cardinality(P) = 0 <=> P = {}
<1>1. IsFiniteSet(Nodes) /\ P \subseteq Nodes
  BY TreeAssumption, ImagesAre DEF WalkInv, WalkType
<1>2. IsFiniteSet(P)
  BY <1>1, FS_Subset
<1> QED BY <1>2, FS_CardinalityType, FS_EmptySet

\* What a step may change besides the walk: the command goes on, with nothing told.
LEMMA GoesOn ==
  ASSUME CommandInv, WalkInv', ConfigType', args' \in Seq(Arguments), stage' # "exit",
         stage' \in {"parse", "file", "directory"} => wpc' = "idle",
         stage' \in {"batch", "print"} => wpc' = "done" /\ answer' = "report",
         stage' = "print" => BatchTold',
         told' = {}, config'.quiet \/ warned' = inaccessible'
  PROVE  CommandInv'
BY DEF CommandInv, CommandTruthful

\* The command ends in front of the output, with an error or before the walk ended.
LEMMA EndsEarly ==
  ASSUME CommandInv, WalkInv', ConfigType', args' \in Seq(Arguments), stage' = "exit",
         told' = {}, wpc' = "done" => exit' # 0
  PROVE  CommandInv'
<1>1. CommandTruthful'
  BY DEF CommandTruthful
<1> QED BY <1>1 DEF CommandInv

LEMMA ParseKeeps ==
  ASSUME CommandInv, ParseFlag \/ ParseValue \/ ParseOther
  PROVE  CommandInv'
<1>1. /\ stage = "parse" /\ UNCHANGED <<discoveryVars, batchVars, outputVars>>
      /\ stage' \in {"parse", "exit"} /\ args' \in Seq(Arguments)
      /\ ConfigType' /\ (config.quiet => config'.quiet)
  BY ParseEffect
<1>2. wpc' = wpc /\ inaccessible' = inaccessible /\ told' = told /\ warned' = warned
  BY <1>1 DEF discoveryVars, outputVars
<1>3. WalkInv' /\ wpc' = "idle" /\ told' = {}
  BY <1>1, <1>2, StillKeeps DEF CommandInv
<1>4. config'.quiet \/ warned' = inaccessible'
  BY <1>1, <1>2 DEF CommandInv
<1>5. CASE stage' = "parse"
  BY <1>1, <1>3, <1>4, <1>5, GoesOn
<1>6. CASE stage' = "exit"
  BY <1>1, <1>3, <1>6, EndsEarly
<1> QED BY <1>1, <1>5, <1>6

\* A step that leaves the walk, the arguments and the configuration alone.
LEMMA StillParts ==
  ASSUME CommandInv, stage # "exit", UNCHANGED <<discoveryVars, args, config>>
  PROVE  /\ WalkInv' /\ ConfigType' /\ args' \in Seq(Arguments)
         /\ wpc' = wpc /\ answer' = answer /\ inaccessible' = inaccessible
         /\ found' = found /\ told = {}
         /\ warned' = warned => config'.quiet \/ warned' = inaccessible'
<1>1. /\ wpc' = wpc /\ answer' = answer /\ inaccessible' = inaccessible /\ found' = found
      /\ args' = args /\ config' = config /\ UNCHANGED discoveryVars
  BY DEF discoveryVars
<1>2. WalkInv'
  BY <1>1, StillKeeps DEF CommandInv
<1>3. ConfigType' /\ args' \in Seq(Arguments)
  BY <1>1 DEF CommandInv, ConfigType
<1>4. told = {} /\ (config.quiet \/ warned = inaccessible)
  BY DEF CommandInv
<1> QED BY <1>1, <1>2, <1>3, <1>4

LEMMA MainKeeps == ASSUME CommandInv, Main \/ RunFile PROVE CommandInv'
<1>1. /\ stage # "exit" /\ wpc = "idle" /\ UNCHANGED <<discoveryVars, args, config>>
      /\ UNCHANGED outputVars /\ stage' \in {"file", "directory", "exit"}
  BY DEF Main, RunFile, CommandInv, To, Exit
<1>2. told' = told /\ warned' = warned
  BY <1>1 DEF outputVars
<1>3. CASE stage' = "exit"
  BY <1>1, <1>2, <1>3, StillParts, EndsEarly
<1>4. CASE stage' # "exit"
  BY <1>1, <1>2, <1>4, StillParts, GoesOn
<1> QED BY <1>3, <1>4

LEMMA ListingKeeps == ASSUME CommandInv, Listing PROVE CommandInv'
<1>1. /\ CallListVms(config.recursive, config.excluded, config.maxDepth)
      /\ stage = "directory" /\ stage' = "listing" /\ UNCHANGED <<args, config>>
      /\ UNCHANGED outputVars
  BY DEF Listing, To
<1>2. config.maxDepth \in Nat \cup {None} /\ WalkInv
  BY DEF CommandInv, ConfigType
<1>3. WalkInv' /\ inaccessible' = inaccessible
  BY <1>1, <1>2, CallKeeps DEF CallListVms
<1>4. told' = {} /\ warned' = warned /\ (config.quiet \/ warned = inaccessible)
  BY <1>1 DEF outputVars, CommandInv
<1>5. ConfigType' /\ args' \in Seq(Arguments) /\ config' = config
  BY <1>1 DEF CommandInv, ConfigType
<1> QED BY <1>1, <1>3, <1>4, <1>5, GoesOn

\* The walk warns of a directory when it meets it, unless it was told to be quiet.
LEMMA WalkKeeps == ASSUME CommandInv, Walk PROVE CommandInv'
<1>1. /\ stage = "listing" /\ WalkStep /\ UNCHANGED <<stage, args, config>> /\ told' = told
      /\ warned' = IF config.quiet THEN warned ELSE inaccessible'
  BY DEF Walk
<1>2. WalkInv'
  BY <1>1, WalkStepKeeps DEF CommandInv
<1>3. told' = {} /\ ConfigType' /\ args' \in Seq(Arguments) /\ config' = config
  BY <1>1 DEF CommandInv, ConfigType
<1>4. config'.quiet \/ warned' = inaccessible'
  BY <1>1, <1>3
<1> QED BY <1>1, <1>2, <1>3, <1>4, GoesOn

LEMMA ListedKeeps == ASSUME CommandInv, ListingReturns PROVE CommandInv'
<1>1. /\ stage = "listing" /\ wpc = "done" /\ UNCHANGED <<discoveryVars, args, config>>
      /\ UNCHANGED <<batchVars, outputVars>>
      /\ \/ stage' = "exit" /\ exit' = 1
         \/ /\ answer = "report"
            /\ stage' = IF found = {} THEN "print" ELSE "batch"
  BY DEF ListingReturns, Exit, To
<1>2. told' = told /\ warned' = warned
  BY <1>1 DEF outputVars
<1>3. CASE stage' = "exit"
  BY <1>1, <1>2, <1>3, StillParts, EndsEarly
<1>4. CASE stage' # "exit"
  <2>1. stage' = "print" => found' = {}
    BY <1>1, <1>4, StillParts
  <2>2. stage' = "print" => BatchTold'
    BY <2>1 DEF BatchTold, Unanswered
  <2>3. stage' \in {"print", "batch"} /\ answer = "report"
    BY <1>1, <1>4
  <2> QED BY <1>1, <1>2, <1>4, <2>2, <2>3, StillParts, GoesOn
<1> QED BY <1>3, <1>4

\* A batch that returns answers for every image, save those that panicked and, with
\* no worker left, those still in its queue.
LEMMA RunBatchKeeps == ASSUME CommandInv, RunBatch PROVE CommandInv'
<1>1. /\ stage = "batch" /\ UNCHANGED <<discoveryVars, args, config>> /\ UNCHANGED outputVars
  BY DEF RunBatch
<1>2. told' = told /\ warned' = warned
  BY <1>1 DEF outputVars
<1>3. wpc' = "done" /\ answer' = "report" /\ WalkInv /\ ConfigType
  BY <1>1, StillParts DEF CommandInv
<1>4. CASE Exit(1)
  <2>1. stage' = "exit" /\ exit' # 0
    BY <1>4 DEF Exit
  <2> QED BY <1>1, <1>2, <2>1, StillParts, EndsEarly
<1>5. CASE ~Exit(1)
  <2> DEFINE pool == PoolSizeOf(Workers, Cardinality(found), MaxPool)
  <2>1. stage' = "print"
    BY <1>5 DEF RunBatch, To
  <2>2. PICK P \in SUBSET found :
          /\ Cardinality(P) <= pool /\ panicked' = P
          /\ \E D \in SUBSET (found \ P) :
               /\ Cardinality(P) < pool => D = found \ P
               /\ \E R \in SUBSET D : reports' = R /\ failures' = D \ R
    BY <1>5 DEF RunBatch
  <2>3. PICK D \in SUBSET (found \ P) :
          /\ Cardinality(P) < pool => D = found \ P
          /\ \E R \in SUBSET D : reports' = R /\ failures' = D \ R
    BY <2>2
  <2>4. reports' \cup failures' = D
    BY <2>3
  <2>5. found' = found /\ Workers' = Workers
    BY <1>1, StillParts DEF Workers
  <2>6. /\ Cardinality(found) \in Nat /\ Cardinality(P) \in Nat
        /\ Cardinality(P) = 0 <=> P = {}
        /\ Cardinality(found) = 0 <=> found = {}
    BY <1>3, ImagesCounted
  <2>7. pool \in Nat /\ (found # {} => pool > 0)
    BY <1>3, <2>6, PoolIs
  <2>8. pool' = pool
    BY <2>5
  <2> HIDE DEF pool
  <2>9. Unanswered' = found \ D
    BY <2>4, <2>5 DEF Unanswered
  <2>10. Unanswered' # {} => panicked' # {}
    BY <2>2, <2>3, <2>6, <2>7, <2>9
  <2>11. Unanswered' \ panicked' # {} => Cardinality(panicked') = pool
    BY <2>2, <2>3, <2>6, <2>7, <2>9
  <2>12. BatchTold'
    BY <2>5, <2>10, <2>11 DEF BatchTold, pool
  <2> QED BY <1>1, <1>2, <1>3, <2>1, <2>12, StillParts, GoesOn
<1> QED BY <1>4, <1>5

\* The output names what the batch answered for, and nothing is lost to it: what
\* the walk could reach is what it found.
LEMMA PrintKeeps == ASSUME CommandInv, PrintJson \/ PrintHuman PROVE CommandInv'
<1>1. /\ stage = "print" /\ UNCHANGED <<discoveryVars, args, config>> /\ UNCHANGED batchVars
      /\ stage' = "exit"
      /\ \/ exit' = 101 /\ (told' = told \/ ~config.json)
         \/ /\ exit' = 0 /\ told' = reports \cup failures
            /\ warned' = inaccessible \/ (warned' = warned /\ ~config.json)
  BY DEF PrintJson, PrintHuman, Exit, outputVars
<1>2. /\ wpc = "done" /\ answer = "report" /\ BatchTold /\ WalkInv
      /\ told = {} /\ (config.quiet \/ warned = inaccessible)
  BY <1>1 DEF CommandInv
<1>3. /\ WalkInv' /\ ConfigType' /\ args' \in Seq(Arguments) /\ answer' = "report"
      /\ inaccessible' = inaccessible /\ found' = found /\ wpc' = "done"
  BY <1>1, <1>2, StillParts
<1>4. CASE exit' = 101 /\ (told' = told \/ ~config.json)
  <2>1. told' = {} \/ ~config'.json
    BY <1>1, <1>2, <1>4
  <2>2. CommandTruthful'
    BY <1>4, <2>1 DEF CommandTruthful
  <2> QED BY <1>1, <1>3, <2>2 DEF CommandInv
<1>5. CASE /\ exit' = 0 /\ told' = reports \cup failures
           /\ warned' = inaccessible \/ (warned' = warned /\ ~config.json)
  <2>1. Reachable = found
    BY <1>2, WalkIsExact DEF ReportExact, Reachable
  <2>2. UNCHANGED <<recursive, excluded, maxDepth, skipped, inaccessible>>
    BY <1>1 DEF discoveryVars, options
  <2>3. \A n : Walked(n)' <=> Walked(n)
    BY <2>2 DEF Walked, Admitted, IsExcluded
  <2>4. Reachable' = found
    BY <2>1, <2>2, <2>3 DEF Reachable
  <2>5. Dropped' = Unanswered
    BY <1>5, <2>4 DEF Dropped, Unanswered
  <2>6. panicked' = panicked /\ config' = config /\ Workers' = Workers
    BY <1>1 DEF batchVars, Workers
  <2>7. /\ Dropped' # {} => panicked' # {}
        /\ Dropped' \ panicked' # {} =>
             Cardinality(panicked') = PoolSizeOf(Workers', Cardinality(Reachable'), MaxPool)
    BY <1>2, <2>4, <2>5, <2>6 DEF BatchTold
  <2>8. warned' = inaccessible \/ (config.quiet /\ ~config.json)
    BY <1>2, <1>5, Zenon
  <2>9. inaccessible' \subseteq warned' \/ (config'.quiet /\ ~config'.json)
    BY <1>3, <2>6, <2>8
  <2>10. CommandTruthful'
    BY <1>3, <1>5, <2>7, <2>9 DEF CommandTruthful
  <2> QED BY <1>1, <1>3, <2>10 DEF CommandInv
<1> QED BY <1>1, <1>4, <1>5

\* A command starts with its arguments and the default options.
LEMMA CommandBegins == CommandInit => CommandInv
<1> SUFFICES ASSUME CommandInit PROVE CommandInv
  OBVIOUS
<1>1. /\ DiscoveryInit /\ stage = "parse" /\ args \in CommandLines
      /\ told = {} /\ warned = {}
      /\ config = [json |-> FALSE, concurrent |-> FALSE, recursive |-> FALSE,
                   full |-> FALSE, quiet |-> FALSE, workers |-> None,
                   maxDepth |-> None, excluded |-> {}, target |-> NoTarget]
  BY DEF CommandInit
<1>2. WalkInv /\ wpc = "idle" /\ inaccessible = {}
  BY <1>1, WalkBegins DEF DiscoveryInit
<1>3. args \in Seq(Arguments)
  BY <1>1, CommandAssumption
<1>4. DOMAIN config = Fields /\ config.workers = None /\ config.maxDepth = None
  BY <1>1 DEF Fields
<1>5. config.quiet \in BOOLEAN /\ config.json \in BOOLEAN
  BY <1>1
<1>6. ConfigType
  BY <1>4, <1>5 DEF ConfigType
<1> QED BY <1>1, <1>2, <1>3, <1>6 DEF CommandInv, CommandTruthful

LEMMA CommandStepKeeps == CommandInv /\ [CommandStep]_commandVars => CommandInv'
<1> SUFFICES ASSUME CommandInv, [CommandStep]_commandVars PROVE CommandInv'
  OBVIOUS
<1>1. CASE CommandStep
  BY <1>1, ParseKeeps, MainKeeps, ListingKeeps, WalkKeeps, ListedKeeps, RunBatchKeeps,
     PrintKeeps DEF CommandStep
<1>2. CASE UNCHANGED commandVars
  <2>1. /\ UNCHANGED <<stage, args, config, told, warned, panicked, exit, reports, failures>>
        /\ UNCHANGED discoveryVars
        /\ UNCHANGED <<recursive, excluded, maxDepth, skipped, inaccessible, wpc, answer, found>>
    BY <1>2 DEF commandVars, batchVars, outputVars, discoveryVars, options
  <2>2. WalkInv'
    BY <2>1, StillKeeps DEF CommandInv
  <2>3. \A n : Walked(n)' <=> Walked(n)
    BY <2>1 DEF Walked, Admitted, IsExcluded
  <2>4. Reachable' = Reachable /\ Dropped' = Dropped /\ Workers' = Workers
    BY <2>1, <2>3 DEF Reachable, Dropped, Workers
  <2>5. CommandTruthful'
    BY <2>1, <2>4 DEF CommandInv, CommandTruthful
  <2>6. ConfigType'
    BY <2>1 DEF CommandInv, ConfigType
  <2>7. BatchTold' <=> BatchTold
    BY <2>1, <2>4 DEF BatchTold, Unanswered
  <2> QED BY <2>1, <2>2, <2>5, <2>6, <2>7 DEF CommandInv
<1> QED BY <1>1, <1>2

\* list_vms_with_options reports every non-empty image of every directory that the
\* options admit and that could be read, and no other file, for every finite tree,
\* every choice of options and every failure of the file system on the way.
THEOREM DiscoveryIsExact == CommandSpec => []ReportExact
<1>1. CommandInv => ReportExact
  BY WalkIsExact DEF CommandInv
<1> QED BY <1>1, CommandBegins, CommandStepKeeps, PTL DEF CommandSpec

\* What the command prints accounts for every image of the directory it was given:
\* parse_args, the walk, inspect_batch and the output lose none between them.
THEOREM CommandsAreTruthful == CommandSpec => []CommandTruthful
<1>1. CommandInv => CommandTruthful
  BY DEF CommandInv
<1> QED BY <1>1, CommandBegins, CommandStepKeeps, PTL DEF CommandSpec

(***************************************************************************)
(* One inspection.                                                         *)
(***************************************************************************)

-----------------------------------------------------------------------------
(* Refused reads. *)

\* What a step may do to `refused`: nothing, or tell that the token was set.
TellsTheToken ==
  \/ refused' = refused
  \/ refused' = (refused \/ token)
  \/ token /\ refused' = TRUE

\* A step of the detector refuses a read only because of the token.
LEMMA DetectorTells ==
  ASSUME DetectTable \/ DetectFileSystems \/ Increment
  PROVE  TellsTheToken
<1>1. CASE DetectTable
  BY <1>1, Zenon DEF DetectTable, Detecting, CheckToken, ReadHeader, ReadGpt, ReadGptEntry,
                     ReadMbr, EndOfMbr, ReadEbr, ChainTooLong, ReadBlocks, TellsTheToken
<1>2. CASE DetectFileSystems
  BY <1>2, Zenon DEF DetectFileSystems, Detecting, CheckToken, NextPartition, ProbeBootSector,
                     ProbeExt, ProbeBtrfs, ProbeSwap, Probe, ReadBlocks, TellsTheToken
<1>3. CASE Increment
  BY <1>3, Zenon DEF Increment, CountPartition, TellsTheToken
<1> QED BY <1>1, <1>2, <1>3

\* So does a step of the Windows analyser.
LEMMA WindowsTells == ASSUME WindowsStep PROVE TellsTheToken
<1>1. CASE FindSystem \/ ExtractSoftware \/ ReadSystem
  BY <1>1, Zenon DEF FindSystem, ExtractSoftware, ReadSystem, Mount, Access, TellsTheToken
<1>2. CASE OpenSoftware \/ SearchPrograms \/ AnalyzeSystem
  BY <1>2, Zenon DEF OpenSoftware, SearchPrograms, AnalyzeSystem, Scan, TellsTheToken
<1>3. CASE Remount \/ ReadKernel \/ CheckLicense
  BY <1>3, Zenon DEF Remount, ReadKernel, CheckLicense, Mount, Access, TellsTheToken
<1>4. CASE NextFolder \/ OpenFolder \/ ScanFolder
  BY <1>4, Zenon DEF NextFolder, OpenFolder, ScanFolder, Scan, Access, TellsTheToken
<1> QED BY <1>1, <1>2, <1>3, <1>4 DEF WindowsStep

\* And a step of the Linux analyser, or the choice between them.
LEMMA LinuxTells == ASSUME LinuxStep \/ GetInspector PROVE TellsTheToken
<1>1. CASE ReadSuperBlock \/ ReadOsRelease \/ ReadHostname
  BY <1>1, Zenon DEF ReadSuperBlock, ReadOsRelease, ReadHostname, Mount, Access, TellsTheToken
<1>2. CASE ReadDpkg \/ ParseDpkgStatus
  BY <1>2, Zenon DEF ReadDpkg, ParseDpkgStatus, Scan, Access, TellsTheToken
<1>3. CASE DetectToolFiles \/ SortPackages
  BY <1>3, Zenon DEF DetectToolFiles, SortPackages, Access, TellsTheToken
<1>4. CASE GetInspector
  BY <1>4, Zenon DEF GetInspector, TellsTheToken
<1> QED BY <1>1, <1>2, <1>3, <1>4 DEF LinuxStep

\* What ReportIsWhole needs to be inductive: a refusal leaves the token set, the
\* token stays set, and the last stage is announced only with the token clear.
WholeInv ==
  /\ token \in BOOLEAN /\ refused \in BOOLEAN
  /\ refused => token
  /\ pc = "finish" => ~refused
  /\ result = "ok" => pc = "done" /\ ~refused

\* Only the detector and the analysers, which run in their own stages, refuse
\* reads; every other step leaves `refused` alone.
LEMMA WholeStep == WholeInv /\ [Next]_vars => WholeInv'
<1> SUFFICES ASSUME WholeInv, [Next]_vars PROVE WholeInv'
  OBVIOUS
<1> USE DEF WholeInv
<1>1. ASSUME TellsTheToken, UNCHANGED <<pc, token, result>>,
             pc \in {"detecting", "analyze"}
      PROVE  WholeInv'
  <2>1. refused' \in BOOLEAN /\ (refused' => token)
    <3>1. CASE refused' = refused
      BY <3>1, Zenon
    <3>2. CASE refused' = (refused \/ token)
      BY <3>2, Zenon
    <3>3. CASE token /\ refused' = TRUE
      BY <3>3, Zenon
    <3> QED BY <1>1, <3>1, <3>2, <3>3, Zenon DEF TellsTheToken
  <2>2. pc' # "finish" /\ result' # "ok" /\ token' = token
    BY <1>1
  <2> QED BY <2>1, <2>2, Zenon
<1>2. CASE DetectTable \/ DetectFileSystems \/ Increment
  <2>1. UNCHANGED <<pc, token, result>> /\ pc = "detecting"
    BY <1>2 DEF DetectTable, DetectFileSystems, Detecting, Increment, cancelVars
  <2> QED BY <1>1, <1>2, <2>1, DetectorTells
<1>3. CASE AnalyzeGuest
  <2>1. UNCHANGED <<pc, token, result>> /\ pc = "analyze"
    BY <1>3 DEF AnalyzeGuest, Analyzing, cancelVars
  <2>2. TellsTheToken
    BY <1>3, WindowsTells, LinuxTells, Zenon DEF AnalyzeGuest, Analyzing
  <2> QED BY <1>1, <2>1, <2>2
<1>4. ASSUME UNCHANGED <<token, refused>>, pc' # "finish", result' = "ok" => result = "ok",
             pc = "done" => pc' = "done"
      PROVE  WholeInv'
  BY <1>4, Zenon
<1>5. CASE Metadata \/ Identify \/ OpenBackend \/ Detected \/ Analyzed
  <2>1. /\ UNCHANGED <<token, refused>> /\ pc # "done" /\ pc' # "finish"
        /\ result' = "ok" => result = "ok"
    BY <1>5 DEF Metadata, Identify, OpenBackend, Detected, Analyzed, Goto, Return, cancelVars
  <2> QED BY <1>4, <2>1
<1>6. CASE Begin \/ Backend \/ Detect \/ Guest
  <2>1. /\ UNCHANGED <<token, refused>> /\ pc # "done" /\ pc' # "finish"
        /\ result' = "ok" => result = "ok"
    BY <1>6 DEF Begin, Backend, Detect, Guest, EnterStage, Goto, Return, cancelVars
  <2> QED BY <1>4, <2>1
<1>7. CASE Report
  <2>1. UNCHANGED <<token, refused>>
    BY <1>7 DEF Report, EnterStage, cancelVars
  <2>2. /\ pc = "report" /\ result # "ok" /\ result' # "ok"
        /\ pc' = "finish" => ~token
    BY <1>7 DEF Report, EnterStage, Goto, Return, IsCancelled
  <2> QED BY <2>1, <2>2, Zenon
<1>8. CASE Finish
  BY <1>8 DEF Finish, Return, cancelVars
<1>9. CASE EngineCancel \/ ProgressCancel \/ ProgressCancelLink
  <2>1. UNCHANGED <<pc, result, refused>> /\ (token' = token \/ token' = TRUE)
    BY <1>9 DEF EngineCancel, ProgressCancel, ProgressCancelLink
  <2> QED BY <2>1, Zenon
<1>10. CASE UNCHANGED vars
  BY <1>10 DEF vars, cancelVars
<1> QED
  BY <1>2, <1>3, <1>5, <1>6, <1>7, <1>8, <1>9, <1>10 DEF Next, Step

\* A report never rests on reads that a cancellation refused or on lists that it
\* cut short: the analysers swallow both, and run_inspection's look at the token
\* behind them turns such an analysis into Cancelled.
THEOREM ReportsAreWhole == Spec => []ReportIsWhole
<1>1. Init => WholeInv
  BY DEF Init, WholeInv
<1>2. WholeInv => ReportIsWhole
  BY DEF WholeInv, ReportIsWhole
<1> QED BY <1>1, <1>2, WholeStep, PTL DEF Spec

-----------------------------------------------------------------------------
(* Progress. *)

\* What a quotient is.
LEMMA QuotientIs ==
  ASSUME NEW x \in Nat, NEW n \in Nat \ {0}
  PROVE  x \div n \in Nat /\ n * (x \div n) <= x /\ x < n * (x \div n) + n
OBVIOUS

\* task_completion_percentage does not go back when one more task is done.
LEMMA PercentGrows ==
  ASSUME NEW done \in Nat, NEW all \in Nat \ {0}
  PROVE  PercentOf(done, all) <= PercentOf(done + 1, all)
<1> DEFINE capped(d) == IF d > all THEN all ELSE d
           x == capped(done) * 100
           y == capped(done + 1) * 100
           p == x \div all
           q == y \div all
<1>1. x \in Nat /\ y \in Nat /\ x <= y
  OBVIOUS
<1>2. PercentOf(done, all) = p /\ PercentOf(done + 1, all) = q
  BY DEF PercentOf
<1> HIDE DEF x, y
<1>3. p \in Nat /\ all * p <= x /\ q \in Nat /\ y < all * q + all
  BY <1>1, QuotientIs
<1> HIDE DEF p, q
<1>4. ASSUME p >= q + 1 PROVE FALSE
  <2>1. all * p >= all * (q + 1)
    BY <1>3, <1>4
  <2>2. all * (q + 1) = all * q + all /\ all * p \in Int /\ all * q \in Int
    BY <1>3
  <2> QED BY <1>1, <1>3, <2>1, <2>2
<1> QED BY <1>2, <1>3, <1>4

\* It is a number.
LEMMA PercentIsNat ==
  ASSUME NEW done \in Nat, NEW all \in Nat \ {0}
  PROVE  PercentOf(done, all) \in Nat
<1> DEFINE x == (IF done > all THEN all ELSE done) * 100
<1>1. x \in Nat
  OBVIOUS
<1> HIDE DEF x
<1>2. x \div all \in Nat
  BY <1>1
<1> QED BY <1>2 DEF PercentOf, x

\* How far the stage, the events and the percentage may have got where
\* run_inspection stands.  Before its first announcement the stage and the
\* percentage may be those that an earlier inspection left.
StageBy ==
  [metadata |-> 4, begin |-> 4, identify |-> 1, backend |-> 1, open |-> 1, detect |-> 1,
   detecting |-> 2, guest |-> 2, analyze |-> 3, report |-> 3, finish |-> 4, done |-> 4]
PercentBy ==
  [metadata |-> 0, begin |-> 0, identify |-> 5, backend |-> 5, open |-> 15, detect |-> 15,
   detecting |-> 25, guest |-> 25, analyze |-> 55, report |-> 55, finish |-> 90, done |-> 100]
ShownBy == [PercentBy EXCEPT !["metadata"] = 100, !["begin"] = 100]
Places == {"metadata", "begin", "identify", "backend", "open", "detect", "detecting", "guest",
           "analyze", "report", "finish", "done"}

\* Sorted(s): no element of a sequence is larger than a later one.
Sorted(s) == \A i, j \in DOMAIN s : i < j => s[i] <= s[j]

\* What ProgressMonotone needs to be inductive: everything stage so far is
\* within what the place admits.
ProgressInv ==
  /\ pc \in Places
  /\ stageId \in Nat /\ stageId <= StageBy[pc]
  /\ completed \in Nat /\ total \in Nat
  /\ percentage \in Nat \/ total > 0
  /\ total = 0 => percentage <= ShownBy[pc]
  /\ events \in Seq(Nat) /\ Sorted(events)
  /\ \A i \in DOMAIN events : events[i] <= PercentBy[pc]

\* One step's part of ProgressMonotone.
Advances ==
  /\ pc # "begin" => stageId' >= stageId
  /\ pc # "begin" \/ total > 0 => SnapshotPercentage' >= SnapshotPercentage
  /\ Sorted(events')

\* Appending what lies between two bounds keeps a sequence sorted.
LEMMA SortedAppend ==
  ASSUME NEW s \in Seq(Nat), Sorted(s), NEW t \in Seq(Nat), Sorted(t), NEW m \in Nat, NEW n \in Nat,
         \A i \in DOMAIN s : s[i] <= m,
         \A i \in DOMAIN t : m <= t[i] /\ t[i] <= n, m <= n
  PROVE  /\ s \o t \in Seq(Nat) /\ Sorted(s \o t)
         /\ \A i \in DOMAIN (s \o t) : (s \o t)[i] <= n
<1> DEFINE u == s \o t
<1> DEFINE k == Len(s)
           l == Len(t)
<1>1. /\ u \in Seq(Nat) /\ DOMAIN u = 1 .. k + l
      /\ DOMAIN s = 1 .. k /\ DOMAIN t = 1 .. l /\ k \in Nat /\ l \in Nat
  OBVIOUS
<1>2. \A i \in 1 .. k : u[i] = s[i] /\ s[i] \in Nat
  OBVIOUS
<1>3. \A i \in 1 .. l : t[i] \in Nat
  OBVIOUS
<1>4. \A i \in k + 1 .. k + l : u[i] = t[i - k]
  OBVIOUS
<1>5. /\ \A i, j \in 1 .. k : i < j => s[i] <= s[j]
      /\ \A i, j \in 1 .. l : i < j => t[i] <= t[j]
  BY <1>1 DEF Sorted
<1>6. /\ \A i \in 1 .. k : s[i] <= m
      /\ \A i \in 1 .. l : m <= t[i] /\ t[i] <= n
  BY <1>1
<1> HIDE DEF u, k, l
<1>7. \A i \in k + 1 .. k + l : i - k \in 1 .. l
  BY <1>1
<1>8. ASSUME NEW i \in 1 .. k + l, NEW j \in 1 .. k + l, i < j PROVE u[i] <= u[j]
  <2>1. CASE j <= k
    <3>1. i \in 1 .. k /\ j \in 1 .. k
      BY <1>1, <1>8, <2>1
    <3> QED BY <1>2, <1>5, <1>8, <3>1
  <2>2. CASE i > k
    <3>1. i \in k + 1 .. k + l /\ j \in k + 1 .. k + l
      BY <1>1, <1>8, <2>2
    <3>2. i - k < j - k
      BY <1>1, <1>8
    <3> QED BY <1>4, <1>5, <1>7, <3>1, <3>2
  <2>3. CASE i <= k /\ j > k
    <3>1. i \in 1 .. k /\ j \in k + 1 .. k + l
      BY <1>1, <2>3
    <3>2. u[i] \in Nat /\ u[i] <= m
      BY <1>2, <1>6, <3>1
    <3>3. u[j] \in Nat /\ m <= u[j]
      BY <1>3, <1>4, <1>6, <1>7, <3>1
    <3> QED BY <3>2, <3>3
  <2> QED BY <1>1, <2>1, <2>2, <2>3
<1>9. ASSUME NEW i \in 1 .. k + l PROVE u[i] <= n
  <2>1. CASE i \in 1 .. k
    <3>1. u[i] \in Nat /\ u[i] <= m
      BY <1>2, <1>6, <2>1
    <3> QED BY <3>1
  <2>2. CASE i \in k + 1 .. k + l
    BY <1>4, <1>6, <1>7, <2>2
  <2> QED BY <1>1, <2>1, <2>2
<1>10. Sorted(u)
  BY <1>1, <1>8 DEF Sorted
<1> QED BY <1>1, <1>9, <1>10 DEF u

\* The bounds are numbers, in the order of the stages.
LEMMA BoundsAre ==
  /\ \A p \in Places : StageBy[p] \in Nat /\ PercentBy[p] \in Nat
  /\ \A p \in Places : ShownBy[p] \in Nat /\ PercentBy[p] <= ShownBy[p]
  /\ ShownBy["metadata"] = 100 /\ ShownBy["begin"] = 100
  /\ \A p \in Places \ {"metadata", "begin"} : ShownBy[p] = PercentBy[p]
  /\ StageBy["metadata"] = 4 /\ StageBy["begin"] = 4 /\ StageBy["identify"] = 1
  /\ StageBy["backend"] = 1 /\ StageBy["open"] = 1 /\ StageBy["detect"] = 1
  /\ StageBy["detecting"] = 2 /\ StageBy["guest"] = 2 /\ StageBy["analyze"] = 3
  /\ StageBy["report"] = 3 /\ StageBy["finish"] = 4 /\ StageBy["done"] = 4
  /\ PercentBy["metadata"] = 0 /\ PercentBy["begin"] = 0 /\ PercentBy["identify"] = 5
  /\ PercentBy["backend"] = 5 /\ PercentBy["open"] = 15 /\ PercentBy["detect"] = 15
  /\ PercentBy["detecting"] = 25 /\ PercentBy["guest"] = 25 /\ PercentBy["analyze"] = 55
  /\ PercentBy["report"] = 55 /\ PercentBy["finish"] = 90 /\ PercentBy["done"] = 100
BY DEF StageBy, PercentBy, ShownBy, Places

\* A step that announces nothing and goes on is within the bounds of the place it
\* goes to.
LEMMA QuietAdvances ==
  ASSUME ProgressInv, UNCHANGED progressVars, NEW to \in Places, pc' = to,
         StageBy[pc] <= StageBy[to], PercentBy[pc] <= PercentBy[to],
         ShownBy[pc] <= ShownBy[to]
  PROVE  ProgressInv' /\ Advances
<1>1. /\ pc \in Places /\ stageId \in Nat /\ stageId <= StageBy[pc] /\ completed \in Nat
      /\ total \in Nat /\ (total = 0 => percentage \in Nat /\ percentage <= ShownBy[pc])
      /\ events \in Seq(Nat) /\ Sorted(events)
      /\ \A i \in DOMAIN events : events[i] \in Nat /\ events[i] <= PercentBy[pc]
  BY DEF ProgressInv
<1>2. /\ StageBy[pc] \in Nat /\ StageBy[to] \in Nat
      /\ PercentBy[pc] \in Nat /\ PercentBy[to] \in Nat
      /\ ShownBy[pc] \in Nat /\ ShownBy[to] \in Nat /\ PercentBy[to] <= ShownBy[to]
  BY <1>1, BoundsAre
<1>3. /\ stageId' = stageId /\ percentage' = percentage /\ completed' = completed
      /\ total' = total /\ events' = events
  BY DEF progressVars
<1>4. \A i \in DOMAIN events : events[i] <= PercentBy[to]
  BY <1>1, <1>2
<1>5. ProgressInv'
  BY <1>1, <1>2, <1>3, <1>4 DEF ProgressInv
<1>6. SnapshotPercentage' = SnapshotPercentage
  BY <1>3 DEF SnapshotPercentage
<1>7. SnapshotPercentage >= SnapshotPercentage
  <2>1. CASE total = 0
    BY <1>1, <2>1 DEF SnapshotPercentage
  <2>2. CASE total # 0
    <3>1. PercentOf(completed, total) \in Nat
      BY <1>1, <2>2, PercentIsNat
    <3> QED BY <1>1, <2>2, <3>1 DEF SnapshotPercentage
  <2> QED BY <2>1, <2>2
<1> QED BY <1>1, <1>3, <1>5, <1>6, <1>7 DEF Advances

\* set_stage_id and set_percentage with values of the stage that is entered.
LEMMA PublishAdvances ==
  ASSUME ProgressInv, NEW announced \in Nat, NEW ps \in Seq(Nat), ps # <<>>, Sorted(ps),
         NEW to \in Places, pc' = to, Publish(announced, ps), pc # "metadata",
         pc # "begin" => stageId <= announced, announced <= StageBy[to],
         PercentBy[pc] <= PercentBy[to],
         \A i \in DOMAIN ps : PercentBy[pc] <= ps[i] /\ ps[i] <= PercentBy[to]
  PROVE  ProgressInv' /\ Advances
<1>1. /\ pc \in Places /\ stageId \in Nat /\ stageId <= StageBy[pc] /\ completed \in Nat
      /\ total \in Nat /\ (total = 0 => percentage \in Nat /\ percentage <= ShownBy[pc])
      /\ events \in Seq(Nat) /\ Sorted(events)
      /\ \A i \in DOMAIN events : events[i] <= PercentBy[pc]
  BY DEF ProgressInv
<1>2. /\ StageBy[pc] \in Nat /\ StageBy[to] \in Nat
      /\ PercentBy[pc] \in Nat /\ PercentBy[to] \in Nat
      /\ ShownBy[pc] \in Nat /\ ShownBy[to] \in Nat /\ PercentBy[to] <= ShownBy[to]
  BY <1>1, BoundsAre
<1>3. /\ stageId' = announced /\ percentage' = ps[Len(ps)] /\ events' = events \o ps
      /\ completed' = completed /\ total' = total
  BY DEF Publish
<1>4. /\ events \o ps \in Seq(Nat) /\ Sorted(events \o ps)
      /\ \A i \in DOMAIN (events \o ps) : (events \o ps)[i] <= PercentBy[to]
  BY <1>1, <1>2, SortedAppend
<1>5. /\ ps[Len(ps)] \in Nat /\ PercentBy[pc] <= ps[Len(ps)]
      /\ ps[Len(ps)] <= PercentBy[to]
  <2>1. Len(ps) \in DOMAIN ps
    OBVIOUS
  <2> QED BY <2>1
<1> DEFINE last == ps[Len(ps)]
<1> HIDE DEF last
<1>6. percentage' = last /\ last \in Nat /\ PercentBy[pc] <= last /\ last <= PercentBy[to]
  BY <1>3, <1>5 DEF last
<1>7. last <= ShownBy[to]
  BY <1>2, <1>6
<1>8. ProgressInv'
  BY <1>1, <1>2, <1>3, <1>4, <1>6, <1>7 DEF ProgressInv
<1>9. ASSUME pc # "begin" \/ total > 0
      PROVE  SnapshotPercentage' >= SnapshotPercentage
  <2>1. CASE total = 0
    <3>1. ShownBy[pc] = PercentBy[pc]
      BY <1>1, <1>9, <2>1, BoundsAre
    <3>2. SnapshotPercentage = percentage /\ SnapshotPercentage' = last
      BY <1>3, <1>6, <2>1 DEF SnapshotPercentage
    <3> QED BY <1>1, <1>2, <1>6, <2>1, <3>1, <3>2
  <2>2. CASE total # 0
    <3>1. PercentOf(completed, total) \in Nat
      BY <1>1, <2>2, PercentIsNat
    <3> QED BY <1>1, <1>3, <2>2, <3>1 DEF SnapshotPercentage
  <2> QED BY <2>1, <2>2
<1> QED BY <1>1, <1>3, <1>4, <1>8, <1>9 DEF Advances

\* A stage is announced behind everything that came before it, or not at all.
LEMMA EnterAdvances ==
  ASSUME ProgressInv, NEW from \in Places \ {"metadata", "done"}, NEW to \in Places,
         NEW announced \in Nat, NEW ps \in Seq(Nat), ps # <<>>, Sorted(ps),
         EnterStage(from, announced, ps, to),
         from # "begin" => stageId <= announced, announced <= StageBy[to], PercentBy[from] <= PercentBy[to],
         \A i \in DOMAIN ps : PercentBy[from] <= ps[i] /\ ps[i] <= PercentBy[to]
  PROVE  ProgressInv' /\ Advances
<1>1. pc = from
  BY DEF EnterStage
<1>2. CASE Goto(to) /\ Publish(announced, ps)
  <2>1. pc' = to
    BY <1>2 DEF Goto
  <2> QED BY <1>1, <1>2, <2>1, PublishAdvances
<1>3. CASE Return("cancelled") /\ UNCHANGED progressVars
  <2>1. pc' = "done" /\ "done" \in Places
    BY <1>3 DEF Return, Places
  <2>2. /\ StageBy[pc] <= StageBy["done"] /\ PercentBy[pc] <= PercentBy["done"]
        /\ ShownBy[pc] <= ShownBy["done"]
    BY <1>1, BoundsAre, SMTT(30) DEF Places
  <2> QED BY <1>3, <2>1, <2>2, QuietAdvances
<1> QED BY <1>2, <1>3 DEF EnterStage

\* The partition counter grows while the stage stands still.
LEMMA IncrementAdvances ==
  ASSUME ProgressInv, Increment
  PROVE  ProgressInv' /\ Advances
<1>1. /\ pc \in Places /\ stageId \in Nat /\ stageId <= StageBy[pc] /\ completed \in Nat
      /\ total \in Nat /\ (total = 0 => percentage \in Nat /\ percentage <= ShownBy[pc])
      /\ events \in Seq(Nat) /\ Sorted(events)
      /\ \A i \in DOMAIN events : events[i] <= PercentBy[pc]
  BY DEF ProgressInv
<1>2. /\ pc' = pc /\ stageId' = stageId /\ total' = total /\ events' = events
      /\ completed' = completed + 1
      /\ percentage' = IF total > 0 THEN PercentOf(completed + 1, total) ELSE percentage
  BY DEF Increment
<1>3. total = 0 => percentage' = percentage
  BY <1>1, <1>2
<1>4. ProgressInv'
  BY <1>1, <1>2, <1>3 DEF ProgressInv
<1>5. SnapshotPercentage' >= SnapshotPercentage
  <2>1. CASE total = 0
    BY <1>1, <1>2, <1>3, <2>1 DEF SnapshotPercentage
  <2>2. CASE total # 0
    <3>1. /\ PercentOf(completed, total) \in Nat /\ PercentOf(completed + 1, total) \in Nat
          /\ PercentOf(completed, total) <= PercentOf(completed + 1, total)
      <4>1. completed + 1 \in Nat /\ total \in Nat \ {0}
        BY <1>1, <2>2
      <4> QED BY <1>1, <4>1, PercentIsNat, PercentGrows
    <3>2. SnapshotPercentage = PercentOf(completed, total)
      BY <1>1, <2>2 DEF SnapshotPercentage
    <3>3. SnapshotPercentage' = PercentOf(completed + 1, total)
      BY <1>1, <1>2, <2>2 DEF SnapshotPercentage
    <3> QED BY <3>1, <3>2, <3>3
  <2> QED BY <2>1, <2>2
<1> QED BY <1>1, <1>2, <1>4, <1>5 DEF Advances

\* Every step advances.
LEMMA ProgressStep ==
  ASSUME ProgressInv, [Next]_vars
  PROVE  ProgressInv' /\ Advances
<1>0. pc \in Places /\ stageId \in Nat /\ stageId <= StageBy[pc]
  BY DEF ProgressInv
<1>1. ASSUME NEW to \in Places, pc' = to, UNCHANGED progressVars,
             StageBy[pc] <= StageBy[to], PercentBy[pc] <= PercentBy[to],
             ShownBy[pc] <= ShownBy[to]
      PROVE  ProgressInv' /\ Advances
  BY <1>1, QuietAdvances
<1>2. ASSUME UNCHANGED <<pc, progressVars>> PROVE ProgressInv' /\ Advances
  <2>1. StageBy[pc] \in Nat /\ PercentBy[pc] \in Nat /\ ShownBy[pc] \in Nat
    BY <1>0, BoundsAre
  <2> QED BY <1>0, <1>2, <2>1, QuietAdvances
<1>3. CASE Begin
  <2> DEFINE ps == <<5>>
  <2>1. /\ ps \in Seq(Nat) /\ ps # <<>> /\ Sorted(ps)
        /\ \A i \in DOMAIN ps : 0 <= ps[i] /\ ps[i] <= 5
    BY DEF Sorted
  <2>2. EnterStage("begin", 1, ps, "identify")
    BY <1>3 DEF Begin
  <2> HIDE DEF ps
  <2>3. "begin" \in Places \ {"metadata", "done"} /\ "identify" \in Places
    BY DEF Places
  <2>4. pc = "begin"
    BY <2>2 DEF EnterStage
  <2>5. /\ PercentBy["begin"] = 0 /\ PercentBy["identify"] = 5
        /\ 1 \in Nat /\ 1 <= StageBy["identify"]
    BY <1>0, <2>4, BoundsAre
  <2>6. \A i \in DOMAIN ps : PercentBy["begin"] <= ps[i] /\ ps[i] <= PercentBy["identify"]
    BY <2>1, <2>5
  <2> QED BY <2>1, <2>2, <2>3, <2>4, <2>5, <2>6, EnterAdvances
<1>4. CASE Backend
  <2> DEFINE ps == IF request.forceNbd THEN <<15, 15>> ELSE <<15>>
  <2>1. /\ ps \in Seq(Nat) /\ ps # <<>> /\ Sorted(ps)
        /\ \A i \in DOMAIN ps : 5 <= ps[i] /\ ps[i] <= 15
    BY DEF Sorted
  <2>2. EnterStage("backend", stageId, ps, "open")
    BY <1>4 DEF Backend
  <2> HIDE DEF ps
  <2>3. "backend" \in Places \ {"metadata", "done"} /\ "open" \in Places
    BY DEF Places
  <2>4. pc = "backend"
    BY <2>2 DEF EnterStage
  <2>5. /\ PercentBy["backend"] = 5 /\ PercentBy["open"] = 15
        /\ stageId <= stageId /\ stageId \in Nat /\ stageId <= StageBy["open"]
    BY <1>0, <2>4, BoundsAre
  <2>6. \A i \in DOMAIN ps : PercentBy["backend"] <= ps[i] /\ ps[i] <= PercentBy["open"]
    BY <2>1, <2>5
  <2> QED BY <2>1, <2>2, <2>3, <2>4, <2>5, <2>6, EnterAdvances
<1>5. CASE Detect
  <2> DEFINE ps == <<25>>
  <2>1. /\ ps \in Seq(Nat) /\ ps # <<>> /\ Sorted(ps)
        /\ \A i \in DOMAIN ps : 15 <= ps[i] /\ ps[i] <= 25
    BY DEF Sorted
  <2>2. EnterStage("detect", 2, ps, "detecting")
    BY <1>5 DEF Detect
  <2> HIDE DEF ps
  <2>3. "detect" \in Places \ {"metadata", "done"} /\ "detecting" \in Places
    BY DEF Places
  <2>4. pc = "detect"
    BY <2>2 DEF EnterStage
  <2>5. /\ PercentBy["detect"] = 15 /\ PercentBy["detecting"] = 25
        /\ stageId <= 2 /\ 2 \in Nat /\ 2 <= StageBy["detecting"]
    BY <1>0, <2>4, BoundsAre
  <2>6. \A i \in DOMAIN ps : PercentBy["detect"] <= ps[i] /\ ps[i] <= PercentBy["detecting"]
    BY <2>1, <2>5
  <2> QED BY <2>1, <2>2, <2>3, <2>4, <2>5, <2>6, EnterAdvances
<1>6. CASE Guest
  <2> DEFINE ps == <<45, 55>>
  <2>1. /\ ps \in Seq(Nat) /\ ps # <<>> /\ Sorted(ps)
        /\ \A i \in DOMAIN ps : 25 <= ps[i] /\ ps[i] <= 55
    BY DEF Sorted
  <2>2. EnterStage("guest", 3, ps, "analyze")
    BY <1>6 DEF Guest
  <2> HIDE DEF ps
  <2>3. "guest" \in Places \ {"metadata", "done"} /\ "analyze" \in Places
    BY DEF Places
  <2>4. pc = "guest"
    BY <2>2 DEF EnterStage
  <2>5. /\ PercentBy["guest"] = 25 /\ PercentBy["analyze"] = 55
        /\ stageId <= 3 /\ 3 \in Nat /\ 3 <= StageBy["analyze"]
    BY <1>0, <2>4, BoundsAre
  <2>6. \A i \in DOMAIN ps : PercentBy["guest"] <= ps[i] /\ ps[i] <= PercentBy["analyze"]
    BY <2>1, <2>5
  <2> QED BY <2>1, <2>2, <2>3, <2>4, <2>5, <2>6, EnterAdvances
<1>7. CASE Report
  <2> DEFINE ps == <<90>>
  <2>1. /\ ps \in Seq(Nat) /\ ps # <<>> /\ Sorted(ps)
        /\ \A i \in DOMAIN ps : 55 <= ps[i] /\ ps[i] <= 90
    BY DEF Sorted
  <2>2. EnterStage("report", 4, ps, "finish")
    BY <1>7 DEF Report
  <2> HIDE DEF ps
  <2>3. "report" \in Places \ {"metadata", "done"} /\ "finish" \in Places
    BY DEF Places
  <2>4. pc = "report"
    BY <2>2 DEF EnterStage
  <2>5. /\ PercentBy["report"] = 55 /\ PercentBy["finish"] = 90
        /\ stageId <= 4 /\ 4 \in Nat /\ 4 <= StageBy["finish"]
    BY <1>0, <2>4, BoundsAre
  <2>6. \A i \in DOMAIN ps : PercentBy["report"] <= ps[i] /\ ps[i] <= PercentBy["finish"]
    BY <2>1, <2>5
  <2> QED BY <2>1, <2>2, <2>3, <2>4, <2>5, <2>6, EnterAdvances
<1>8. CASE Finish
  <2> DEFINE ps == <<100>>
  <2>1. /\ ps \in Seq(Nat) /\ ps # <<>> /\ Sorted(ps)
        /\ \A i \in DOMAIN ps : 90 <= ps[i] /\ ps[i] <= 100
    BY DEF Sorted
  <2>2. Publish(4, ps) /\ pc = "finish" /\ pc' = "done"
    BY <1>8 DEF Finish, Return
  <2> HIDE DEF ps
  <2>3. "finish" \in Places /\ "done" \in Places
    BY DEF Places
  <2>4. pc = "finish"
    BY <2>2 DEF EnterStage
  <2>5. /\ PercentBy["finish"] = 90 /\ PercentBy["done"] = 100
        /\ stageId <= 4 /\ 4 \in Nat /\ 4 <= StageBy["done"]
    BY <1>0, <2>4, BoundsAre
  <2>6. \A i \in DOMAIN ps : PercentBy["finish"] <= ps[i] /\ ps[i] <= PercentBy["done"]
    BY <2>1, <2>5
  <2> QED BY <2>1, <2>2, <2>3, <2>4, <2>5, <2>6, PublishAdvances
<1>9. CASE Metadata \/ Identify \/ OpenBackend \/ Detected \/ Analyzed
  <2>1. /\ UNCHANGED progressVars
        /\ \/ pc' = "done" /\ pc \in Places
           \/ pc = "metadata" /\ pc' = "begin"
           \/ pc = "identify" /\ pc' = "backend"
           \/ pc = "open" /\ pc' = "detect"
           \/ pc = "detecting" /\ pc' = "guest"
           \/ pc = "analyze" /\ pc' = "report"
    BY <1>0, <1>9 DEF Metadata, Identify, OpenBackend, Detected, Analyzed, Goto, Return
  <2> QED BY <1>1, <2>1, BoundsAre DEF Places
<1>10. CASE DetectTable \/ DetectFileSystems
  BY <1>2, <1>10 DEF DetectTable, DetectFileSystems, Detecting
<1>11. CASE AnalyzeGuest
  BY <1>2, <1>11 DEF AnalyzeGuest, Analyzing
<1>12. CASE EngineCancel \/ ProgressCancel \/ ProgressCancelLink
  BY <1>2, <1>12 DEF EngineCancel, ProgressCancel, ProgressCancelLink
<1>13. CASE UNCHANGED vars
  BY <1>2, <1>13 DEF vars
<1>14. CASE Increment
  BY <1>14, IncrementAdvances
<1> QED
  BY <1>3, <1>4, <1>5, <1>6, <1>7, <1>8, <1>9, <1>10, <1>11, <1>12, <1>13, <1>14 DEF Next, Step

\* What a poller or the callback sees of an inspection never goes back: the stage,
\* the percentage of a snapshot and the percentages in the order the callback got
\* them, whatever an earlier inspection left on the engine; only the first
\* announcement may undo that, and with a plan left by a batch not even it takes
\* the percentage of a snapshot back.
THEOREM ProgressNeverGoesBack == Spec => ProgressMonotone
<1>1. Init => ProgressInv
  <2> SUFFICES ASSUME Init PROVE ProgressInv
    OBVIOUS
  <2>1. pc = "metadata" /\ events = <<>> /\ total \in Nat /\ completed \in Nat
    BY InspectionBounds DEF Init
  <2>3. /\ stageId \in Nat /\ stageId <= 4
        /\ total = 0 => percentage \in Nat /\ percentage <= 100
    BY DEF Init, Leftovers
  <2>2. events \in Seq(Nat) /\ Sorted(events) /\ DOMAIN events = {}
    BY <2>1 DEF Sorted
  <2> QED BY <2>1, <2>2, <2>3, BoundsAre DEF ProgressInv, Places
<1>2. ProgressInv /\ [Next]_vars => ProgressInv' /\ Advances
  BY ProgressStep
<1>3. Advances => [/\ pc # "begin" => stageId' >= stageId
                   /\ pc # "begin" \/ total > 0 =>
                        SnapshotPercentage' >= SnapshotPercentage
                   /\ \A i, j \in DOMAIN events' : i < j => events'[i] <= events'[j]]_vars
  BY DEF Advances, Sorted
<1> QED BY <1>1, <1>2, <1>3, PTL DEF Spec, ProgressMonotone

-----------------------------------------------------------------------------
(* The partitions. *)

PartitionType == [start : Nat, size : Nat, fs : FileSystems \cup {"unknown"}]

\* A partition with the file system that starts there.
Completed(q) ==
  [start |-> q.start, size |-> q.size,
   fs |-> IF q.size = 0 THEN "unknown" ELSE FsAt(q.start \div Sector)]
Found == {Completed(parts[p]) : p \in DOMAIN parts}

\* What the entries in front of this one declare.
TableUpTo(n) ==
  {Declared(disk.table[j].first, disk.table[j].last - disk.table[j].first + 1) :
     j \in {i \in DOMAIN disk.table : i < n /\ IsListed(disk.table[i])}}
PrimaryUpTo(n)  == {s \in Primary : s < n}
ExtendedUpTo(n) == {s \in Extended : s < n}
MbrUpTo(n) ==
  {Declared(disk.mbr[s].lba, disk.mbr[s].sectors) : s \in PrimaryUpTo(n)}
    \cup UNION {LogicalOf(s) : s \in ExtendedUpTo(n)}

\* What a set of extended boot records declares.
LogicalFrom(R) ==
  {Declared(x + disk.ebr[x].rel, disk.ebr[x].sectors) :
     x \in {y \in R : disk.ebr[y].kind # "empty" /\ disk.ebr[y].sectors > 0}}

\* How many partitions the entries in front of this one may have given.
RoomUpTo(n) == Cardinality(PrimaryUpTo(n)) + MaxEbr * Cardinality(ExtendedUpTo(n))

Probing   == {"boot_sector", "ext", "btrfs", "swap"}
BehindTable == Probing \cup {"between", "partition", "count", "done"}

DetectorTypes ==
  /\ disk \in Disks /\ parts \in Seq(PartitionType)
  /\ dpc \in BehindTable \cup {"entry", "header", "gpt", "table", "mbr", "ebr"}
  /\ slot \in Nat \ {0} /\ base \in Nat /\ lba \in Nat /\ links \in 0 .. MaxEbr
  /\ current \in Nat \ {0} /\ scheme \in {"none", "gpt", "mbr"}
  /\ dpc # "done" => failure = "none"

\* The record at lba is where the chain leads in `links` links, and nowhere else.
AtLink ==
  /\ \A c \in Chains(base, links) : c[links] = lba
  /\ lba \in DOMAIN disk.ebr => Chains(base, links) # {}

\* What the detector has found when it stands in the table...
InTable ==
  /\ dpc \in {"entry", "header", "gpt"} => parts = <<>> /\ slot = 1 /\ current = 1
  /\ dpc = "gpt" => scheme = "gpt"
  /\ dpc \in {"entry", "header"} => scheme = "none"
  /\ dpc = "table" => /\ scheme = "gpt" /\ Found = TableUpTo(slot)
                      /\ Len(parts) < slot /\ slot <= Len(disk.table) + 1
  /\ dpc = "mbr" => /\ scheme = "mbr" /\ slot <= 5 /\ Found = MbrUpTo(slot)
                    /\ Len(parts) <= RoomUpTo(slot)
  /\ dpc = "ebr" => /\ scheme = "mbr" /\ slot \in Extended /\ base = disk.mbr[slot].lba
                    /\ Found = MbrUpTo(slot) \cup LogicalFrom(Reaches(base, links - 1))
                    /\ Len(parts) <= RoomUpTo(slot) + links
                    /\ AtLink

\* ... and behind it.
TableRead ==
  /\ scheme = "gpt" => Found = GptDeclares /\ Len(parts) <= Len(disk.table)
  /\ scheme = "mbr" => /\ Found = MbrDeclares
                       /\ Len(parts) <= Cardinality(Primary) + MaxEbr * Cardinality(Extended)
  /\ scheme = "none" => Len(parts) = 1 /\ parts[1].start = 0

\* The probes pass over a file system only to come to the one that tells it.
ToCome ==
  CASE dpc = "boot_sector" -> FileSystems
    [] dpc = "ext"   -> ExtFs \cup {"btrfs", "swap"}
    [] dpc = "btrfs" -> {"btrfs", "swap"}
    [] dpc = "swap"  -> {"swap"}
    [] OTHER         -> {}

\* The partitions in front of the current one are probed, those behind it are not.
Probed ==
  /\ dpc \notin BehindTable \ {"between"} => current = 1
  /\ scheme # "none" =>
       \A p \in DOMAIN parts :
         /\ p < current \/ (p = current /\ dpc = "count") => parts[p] = Completed(parts[p])
         /\ p > current \/ (p = current /\ dpc # "count") => parts[p].fs = "unknown"
  /\ dpc = "done" /\ failure = "none" => current > Len(parts)
  /\ dpc \in Probing \cup {"count"} => current \in DOMAIN parts
  /\ dpc \in Probing => /\ parts[current].size > 0
                        /\ FsAt(FirstSector(current)) \in ToCome \cup {"unknown"}

DetectorInv ==
  /\ DetectorTypes
  /\ dpc # "done" \/ failure = "none" =>
       InTable /\ Probed /\ (dpc \in BehindTable => TableRead)

\* The facts about a disk, and those that a step cannot change.
LEMMA DiskIs ==
  ASSUME disk \in Disks
  PROVE  /\ IsDisk(disk) /\ MaxEbr \in Nat /\ MaxEbr >= 1
         /\ \A s \in 1 .. 4 : disk.mbr[s].lba \in Nat /\ disk.mbr[s].sectors \in Nat
         /\ Len(disk.table) \in Nat /\ DOMAIN disk.table = 1 .. Len(disk.table)
         /\ \A j \in DOMAIN disk.table :
              disk.table[j].first \in Nat /\ disk.table[j].last \in Nat
         /\ \A n : FsAt(n) \in FileSystems \cup {"unknown"}
<1>1. IsDisk(disk) /\ MaxEbr \in Nat /\ MaxEbr >= 1
  BY DetectorAssumption
<1>2. \A s \in 1 .. 4 : disk.mbr[s].lba \in Nat /\ disk.mbr[s].sectors \in Nat
  BY <1>1 DEF IsDisk
<1>3. Len(disk.table) \in Nat /\ DOMAIN disk.table = 1 .. Len(disk.table)
  BY <1>1 DEF IsDisk
<1>4. \A j \in DOMAIN disk.table : disk.table[j].first \in Nat /\ disk.table[j].last \in Nat
  <2>1. disk.table \in Seq([used : BOOLEAN, first : Nat, last : Nat])
    BY <1>1 DEF IsDisk
  <2>2. ASSUME NEW S, NEW s \in Seq(S), NEW j \in DOMAIN s PROVE s[j] \in S
    OBVIOUS
  <2>3. \A j \in DOMAIN disk.table : disk.table[j] \in [used : BOOLEAN, first : Nat, last : Nat]
    BY <2>1, <2>2
  <2> QED BY <2>3
<1>5. \A n : FsAt(n) \in FileSystems \cup {"unknown"}
  BY <1>1 DEF IsDisk, FsAt
<1> QED BY <1>1, <1>2, <1>3, <1>4, <1>5

LEMMA TablesSame ==
  ASSUME disk' = disk
  PROVE  /\ GptDeclares' = GptDeclares /\ MbrDeclares' = MbrDeclares
         /\ Primary' = Primary /\ Extended' = Extended
         /\ \A n : TableUpTo(n)' = TableUpTo(n) /\ MbrUpTo(n)' = MbrUpTo(n)
                   /\ RoomUpTo(n)' = RoomUpTo(n)
         /\ \A R : LogicalFrom(R)' = LogicalFrom(R)
         /\ \A q : Completed(q)' = Completed(q)
         /\ \A f, n : Chains(f, n)' = Chains(f, n) /\ Reaches(f, n)' = Reaches(f, n)
         /\ \A n : FsAt(n)' = FsAt(n)
<1>1. \A n : FsAt(n)' = FsAt(n)
  BY DEF FsAt
<1>2. \A f, n : Declared(f, n)' = Declared(f, n)
  BY <1>1 DEF Declared, Bytes
<1>3. \A q : Completed(q)' = Completed(q)
  BY <1>1 DEF Completed
<1>4. Primary' = Primary /\ Extended' = Extended
  BY DEF Primary, Extended, Entries
<1>5. \A f, n : Chains(f, n)' = Chains(f, n)
  BY DEF Chains, IsChain
<1>6. \A f, n : Reaches(f, n)' = Reaches(f, n)
  BY <1>5 DEF Reaches
<1>7. \A R : LogicalFrom(R)' = LogicalFrom(R)
  BY <1>2 DEF LogicalFrom
<1>8. \A s : LogicalOf(s)' = LogicalOf(s)
  BY <1>2, <1>6 DEF LogicalOf
<1>9. GptDeclares' = GptDeclares
  BY <1>2 DEF GptDeclares, IsListed
<1>10. MbrDeclares' = MbrDeclares
  BY <1>2, <1>4, <1>8 DEF MbrDeclares
<1>11. \A n : TableUpTo(n)' = TableUpTo(n)
  BY <1>2 DEF TableUpTo, IsListed
<1>12. \A n : PrimaryUpTo(n)' = PrimaryUpTo(n) /\ ExtendedUpTo(n)' = ExtendedUpTo(n)
  BY <1>4 DEF PrimaryUpTo, ExtendedUpTo
<1>13. \A n : MbrUpTo(n)' = MbrUpTo(n) /\ RoomUpTo(n)' = RoomUpTo(n)
  BY <1>2, <1>8, <1>12 DEF MbrUpTo, RoomUpTo
<1> QED BY <1>1, <1>3, <1>4, <1>5, <1>6, <1>7, <1>9, <1>10, <1>11, <1>13

\* Offsets are natural numbers.
LEMMA BytesNat == ASSUME NEW n \in Nat PROVE Bytes(n) \in Nat
<1>1. n * Sector \in Nat
  BY DetectorAssumption
<1> QED BY <1>1, DetectorAssumption DEF Bytes

\* A partition that was just found has no file system yet; with it, it is what the
\* table declares.
LEMMA PartitionIs ==
  ASSUME NEW f \in Nat, NEW n \in Nat
  PROVE  /\ Partition(f, n) \in PartitionType /\ Partition(f, n).fs = "unknown"
         /\ Completed(Partition(f, n)) = Declared(f, n)
<1>1. Bytes(f) \in Nat /\ Bytes(n) \in Nat
  BY BytesNat
<1>2. Partition(f, n) = [start |-> Bytes(f), size |-> Bytes(n), fs |-> "unknown"]
  BY DEF Partition
<1> QED BY <1>1, <1>2 DEF PartitionType, Completed, Declared

\* The partition appended is the one found, and the others stay as they were.
LEMMA FoundAppend ==
  ASSUME parts \in Seq(PartitionType), NEW q \in PartitionType, disk' = disk,
         parts' = Append(parts, q)
  PROVE  /\ parts' \in Seq(PartitionType) /\ Found' = Found \cup {Completed(q)}
         /\ Len(parts') = Len(parts) + 1 /\ Len(parts) \in Nat
         /\ \A p \in DOMAIN parts' :
              parts'[p] = q \/ (p \in DOMAIN parts /\ parts'[p] = parts[p])
<1>1. /\ parts' \in Seq(PartitionType) /\ Len(parts') = Len(parts) + 1 /\ Len(parts) \in Nat
      /\ DOMAIN parts = 1 .. Len(parts) /\ DOMAIN parts' = 1 .. Len(parts) + 1
      /\ parts'[Len(parts) + 1] = q /\ \A p \in DOMAIN parts : parts'[p] = parts[p]
  OBVIOUS
<1>2. Found' = {Completed(parts'[p]) : p \in DOMAIN parts'}
  BY TablesSame DEF Found
<1>3. Found' = Found \cup {Completed(q)}
  <2>1. Found = {Completed(parts[p]) : p \in DOMAIN parts}
    BY DEF Found
  <2> QED BY <1>1, <1>2, <2>1
<1>4. \A p \in DOMAIN parts' : p = Len(parts) + 1 \/ p \in DOMAIN parts
  BY <1>1
<1> QED BY <1>1, <1>3, <1>4

LEMMA FoundSame ==
  ASSUME disk' = disk, parts' = parts PROVE Found' = Found
BY TablesSame DEF Found

\* The beginning of a chain is a chain.
LEMMA ChainPrefix ==
  ASSUME NEW f, NEW k \in Nat, NEW j \in 0 .. k, NEW c \in Chains(f, k)
  PROVE  [i \in 0 .. j |-> c[i]] \in Chains(f, j)
<1>1. c \in [0 .. k -> DOMAIN disk.ebr] /\ IsChain(c, f, k)
  BY DEF Chains
<1>2. [i \in 0 .. j |-> c[i]] \in [0 .. j -> DOMAIN disk.ebr]
  BY <1>1
<1>3. \A i \in 0 .. j : [n \in 0 .. j |-> c[n]][i] = c[i]
  OBVIOUS
<1>4. \A i \in 0 .. j - 1 : i \in 0 .. j /\ i + 1 \in 0 .. j /\ i \in 0 .. k - 1
  OBVIOUS
<1>5. IsChain([i \in 0 .. j |-> c[i]], f, j)
  BY <1>1, <1>3, <1>4 DEF IsChain
<1> QED BY <1>2, <1>5 DEF Chains

\* What the chain reaches with one record more.
LEMMA LinkReached ==
  ASSUME AtLink, links \in Nat
  PROVE  Reaches(base, links) =
           Reaches(base, links - 1) \cup (IF lba \in DOMAIN disk.ebr THEN {lba} ELSE {})
<1>1. {c[links] : c \in Chains(base, links)} = IF lba \in DOMAIN disk.ebr THEN {lba} ELSE {}
  <2>1. \A c \in Chains(base, links) : c[links] = lba /\ c[links] \in DOMAIN disk.ebr
    BY DEF AtLink, Chains
  <2>2. lba \in DOMAIN disk.ebr => \E c \in Chains(base, links) : TRUE
    BY DEF AtLink
  <2> QED BY <2>1, <2>2
<1>2. 0 .. links = (0 .. links - 1) \cup {links}
  OBVIOUS
<1> QED BY <1>1, <1>2 DEF Reaches

\* Where the chain ends, it reaches no more.
LEMMA ChainEnds ==
  ASSUME AtLink, links \in Nat, lba \notin DOMAIN disk.ebr \/ disk.ebr[lba].next = 0,
         NEW n \in Nat, links <= n
  PROVE  Reaches(base, n) = Reaches(base, links)
<1>1. ASSUME NEW k \in 0 .. n, links < k, NEW c \in Chains(base, k) PROVE FALSE
  <2>1. [i \in 0 .. links |-> c[i]] \in Chains(base, links)
    BY <1>1, ChainPrefix
  <2>2. c[links] = lba
    BY <2>1 DEF AtLink
  <2>3. c[links] \in DOMAIN disk.ebr /\ disk.ebr[c[links]].next # 0
    BY <1>1 DEF Chains, IsChain
  <2> QED BY <2>2, <2>3
<1>2. \A k \in 0 .. n : k > links => {c[k] : c \in Chains(base, k)} = {}
  BY <1>1
<1>3. \A k \in 0 .. n : k > links \/ k \in 0 .. links
  OBVIOUS
<1>4. 0 .. links \subseteq 0 .. n
  OBVIOUS
<1> QED BY <1>2, <1>3, <1>4 DEF Reaches

\* Where it goes on, lba goes with it.
LEMMA LinkNext ==
  ASSUME AtLink, links \in Nat, disk' = disk, base' = base, links' = links + 1,
         lba \in DOMAIN disk.ebr, disk.ebr[lba].next # 0, lba' = base + disk.ebr[lba].next
  PROVE  AtLink'
<1>1. ASSUME NEW c \in Chains(base, links + 1) PROVE c[links + 1] = lba'
  <2>1. [i \in 0 .. links |-> c[i]] \in Chains(base, links)
    BY ChainPrefix
  <2>2. c[links] = lba
    BY <2>1 DEF AtLink
  <2>3. c[links + 1] = base + disk.ebr[c[links]].next
    BY DEF Chains, IsChain
  <2> QED BY <2>2, <2>3
<1>2. ASSUME lba' \in DOMAIN disk.ebr PROVE Chains(base, links + 1) # {}
  <2>1. PICK c \in Chains(base, links) : c[links] = lba
    BY DEF AtLink
  <2>2. c \in [0 .. links -> DOMAIN disk.ebr] /\ IsChain(c, base, links)
    BY DEF Chains
  <2> DEFINE d == [i \in 0 .. links + 1 |-> IF i <= links THEN c[i] ELSE lba']
  <2>3. d \in [0 .. links + 1 -> DOMAIN disk.ebr]
    BY <1>2, <2>2
  <2>4. d[links + 1] = lba' /\ \A i \in 0 .. links : d[i] = c[i]
    OBVIOUS
  <2> HIDE DEF d
  <2>5. ASSUME NEW i \in 0 .. links
        PROVE  disk.ebr[d[i]].next # 0 /\ d[i + 1] = base + disk.ebr[d[i]].next
    <3>1. CASE i = links
      BY <2>1, <2>4, <3>1
    <3>2. CASE i < links
      <4>1. i \in 0 .. links - 1 /\ i + 1 \in 0 .. links
        BY <3>2
      <4> QED BY <2>2, <2>4, <4>1 DEF IsChain
    <3> QED BY <3>1, <3>2
  <2>6. IsChain(d, base, links + 1)
    <3>1. d[0] = base
      BY <2>2, <2>4 DEF IsChain
    <3>2. 0 .. links + 1 - 1 = 0 .. links
      OBVIOUS
    <3> QED BY <2>5, <3>1, <3>2 DEF IsChain
  <2> QED BY <2>3, <2>6 DEF Chains
<1>3. Chains(base, links)' = Chains(base, links + 1)
  BY DEF Chains, IsChain
<1>4. AtLink' <=> /\ \A c \in Chains(base, links)' : c[links'] = lba'
                  /\ lba' \in DOMAIN disk.ebr => Chains(base, links)' # {}
  BY DEF AtLink
<1> QED BY <1>1, <1>2, <1>3, <1>4

\* The entries of the MBR in front of the next one, their room and what they declare.
LEMMA NextEntry ==
  ASSUME disk \in Disks, NEW s \in 1 .. 4
  PROVE  /\ RoomUpTo(s) \in Nat /\ RoomUpTo(s + 1) \in Nat
         /\ s \in Primary =>
              /\ RoomUpTo(s + 1) = RoomUpTo(s) + 1
              /\ MbrUpTo(s + 1) =
                   MbrUpTo(s) \cup {Declared(disk.mbr[s].lba, disk.mbr[s].sectors)}
         /\ s \in Extended => /\ RoomUpTo(s + 1) = RoomUpTo(s) + MaxEbr
                              /\ MbrUpTo(s + 1) = MbrUpTo(s) \cup LogicalOf(s)
         /\ s \notin Primary \cup Extended =>
              RoomUpTo(s + 1) = RoomUpTo(s) /\ MbrUpTo(s + 1) = MbrUpTo(s)
<1>1. MaxEbr \in Nat
  BY DiskIs
<1>2. Primary \subseteq 1 .. 4 /\ Extended \subseteq 1 .. 4 /\ Primary \cap Extended = {}
  BY DEF Primary, Extended, Entries
<1>3. IsFiniteSet(1 .. 4)
  <2>1. ASSUME NEW a \in Int, NEW b \in Int PROVE IsFiniteSet(a .. b)
    BY FS_Interval
  <2>2. 1 \in Int /\ 4 \in Int
    OBVIOUS
  <2> QED BY <2>1, <2>2
<1>4. /\ IsFiniteSet(PrimaryUpTo(s)) /\ Cardinality(PrimaryUpTo(s)) \in Nat
      /\ IsFiniteSet(ExtendedUpTo(s)) /\ Cardinality(ExtendedUpTo(s)) \in Nat
  <2>1. PrimaryUpTo(s) \subseteq 1 .. 4 /\ ExtendedUpTo(s) \subseteq 1 .. 4
    BY <1>2 DEF PrimaryUpTo, ExtendedUpTo
  <2> QED BY <1>3, <2>1, FS_Subset, FS_CardinalityType
<1>5. s \notin PrimaryUpTo(s) /\ s \notin ExtendedUpTo(s)
  BY DEF PrimaryUpTo, ExtendedUpTo
<1>6. /\ PrimaryUpTo(s + 1) = IF s \in Primary THEN PrimaryUpTo(s) \cup {s} ELSE PrimaryUpTo(s)
      /\ ExtendedUpTo(s + 1) = IF s \in Extended THEN ExtendedUpTo(s) \cup {s}
                                                 ELSE ExtendedUpTo(s)
  <2>1. \A n \in 1 .. 4 : n < s + 1 <=> n < s \/ n = s
    OBVIOUS
  <2> QED BY <1>2, <2>1 DEF PrimaryUpTo, ExtendedUpTo
<1>7. /\ Cardinality(PrimaryUpTo(s) \cup {s}) = Cardinality(PrimaryUpTo(s)) + 1
      /\ Cardinality(ExtendedUpTo(s) \cup {s}) = Cardinality(ExtendedUpTo(s)) + 1
  BY <1>4, <1>5, FS_AddElement
<1>8. ASSUME NEW a \in Nat, NEW b \in Nat
      PROVE  a + MaxEbr * b \in Nat /\ MaxEbr * (b + 1) = MaxEbr * b + MaxEbr
  BY <1>1
<1>9. ASSUME NEW a \in Nat, NEW b \in Nat PROVE MaxEbr * b \in Nat
  BY <1>1
<1>10. s \in Primary => RoomUpTo(s + 1) = RoomUpTo(s) + 1
  <2> SUFFICES ASSUME s \in Primary PROVE RoomUpTo(s + 1) = RoomUpTo(s) + 1
    OBVIOUS
  <2>1. /\ Cardinality(PrimaryUpTo(s + 1)) = Cardinality(PrimaryUpTo(s)) + 1
        /\ ExtendedUpTo(s + 1) = ExtendedUpTo(s)
    BY <1>2, <1>6, <1>7
  <2>2. MaxEbr * Cardinality(ExtendedUpTo(s)) \in Nat
    BY <1>4, <1>9
  <2> QED BY <1>4, <2>1, <2>2 DEF RoomUpTo
<1>11. s \in Extended => RoomUpTo(s + 1) = RoomUpTo(s) + MaxEbr
  <2> SUFFICES ASSUME s \in Extended PROVE RoomUpTo(s + 1) = RoomUpTo(s) + MaxEbr
    OBVIOUS
  <2>1. /\ Cardinality(ExtendedUpTo(s + 1)) = Cardinality(ExtendedUpTo(s)) + 1
        /\ PrimaryUpTo(s + 1) = PrimaryUpTo(s)
    BY <1>2, <1>6, <1>7
  <2>2. /\ MaxEbr * Cardinality(ExtendedUpTo(s)) \in Nat
        /\ MaxEbr * (Cardinality(ExtendedUpTo(s)) + 1) =
             MaxEbr * Cardinality(ExtendedUpTo(s)) + MaxEbr
    BY <1>4, <1>8, <1>9
  <2> QED BY <1>1, <1>4, <2>1, <2>2 DEF RoomUpTo
<1>12. s \notin Primary \cup Extended => RoomUpTo(s + 1) = RoomUpTo(s)
  BY <1>6 DEF RoomUpTo
<1>13. RoomUpTo(s) \in Nat
  BY <1>4, <1>8 DEF RoomUpTo
<1>14. RoomUpTo(s + 1) \in Nat
  BY <1>1, <1>10, <1>11, <1>12, <1>13
<1>15. s \in Primary =>
         MbrUpTo(s + 1) = MbrUpTo(s) \cup {Declared(disk.mbr[s].lba, disk.mbr[s].sectors)}
  BY <1>2, <1>6 DEF MbrUpTo
<1>16. s \in Extended => MbrUpTo(s + 1) = MbrUpTo(s) \cup LogicalOf(s)
  BY <1>2, <1>6 DEF MbrUpTo
<1>17. s \notin Primary \cup Extended => MbrUpTo(s + 1) = MbrUpTo(s)
  BY <1>6 DEF MbrUpTo
<1> QED BY <1>10, <1>11, <1>12, <1>13, <1>14, <1>15, <1>16, <1>17

\* In front of the first entry there is nothing, in front of the fifth everything.
LEMMA AllEntries ==
  /\ MbrUpTo(1) = {} /\ RoomUpTo(1) = MaxEbr * 0 /\ MbrUpTo(5) = MbrDeclares
  /\ RoomUpTo(5) = Cardinality(Primary) + MaxEbr * Cardinality(Extended)
<1>1. Primary \subseteq 1 .. 4 /\ Extended \subseteq 1 .. 4
  BY DEF Primary, Extended, Entries
<1>2. \A n \in 1 .. 4 : n < 5 /\ ~(n < 1)
  OBVIOUS
<1>3. PrimaryUpTo(1) = {} /\ ExtendedUpTo(1) = {}
  BY <1>1, <1>2 DEF PrimaryUpTo, ExtendedUpTo
<1>4. PrimaryUpTo(5) = Primary /\ ExtendedUpTo(5) = Extended
  BY <1>1, <1>2 DEF PrimaryUpTo, ExtendedUpTo
<1>5. MbrUpTo(1) = {} /\ MbrUpTo(5) = MbrDeclares
  BY <1>3, <1>4 DEF MbrUpTo, MbrDeclares
<1>6. RoomUpTo(1) = 0 + MaxEbr * 0
  BY <1>3, FS_EmptySet DEF RoomUpTo
<1>7. MaxEbr * 0 = 0
  BY DetectorAssumption
<1> QED BY <1>4, <1>5, <1>6, <1>7 DEF RoomUpTo

-----------------------------------------------------------------------------
(* The steps of the detector. *)

\* In the table no partition has been probed.
NoneTold == \A p \in DOMAIN parts : parts[p].fs = "unknown"
Reading == {"entry", "header", "gpt", "table", "mbr", "ebr", "between"}

LEMMA ReadingWas ==
  ASSUME DetectorInv, dpc \in Reading
  PROVE  /\ DetectorTypes /\ InTable /\ current = 1 /\ failure = "none"
         /\ scheme # "none" => NoneTold
         /\ dpc = "between" => TableRead
<1>1. DetectorTypes /\ dpc # "done" /\ failure = "none"
  BY DEF DetectorInv, DetectorTypes, Reading
<1>2. InTable /\ Probed /\ (dpc \in BehindTable => TableRead)
  BY <1>1 DEF DetectorInv
<1>3. dpc \notin BehindTable \ {"between"} /\ dpc # "count" /\ ("between" \in BehindTable)
  BY DEF Reading, BehindTable, Probing
<1>4. current = 1 /\ current \in Nat
  BY <1>2, <1>3 DEF Probed
<1>5. scheme # "none" => NoneTold
  <2>1. \A p \in DOMAIN parts : p \in Nat /\ p >= 1
    BY <1>1 DEF DetectorTypes
  <2>2. \A p \in DOMAIN parts : p > current \/ (p = current /\ dpc # "count")
    BY <1>3, <1>4, <2>1
  <2> QED BY <1>2, <2>2 DEF Probed, NoneTold
<1> QED BY <1>1, <1>2, <1>3, <1>4, <1>5

LEMMA ReadingIs ==
  ASSUME DetectorTypes', InTable', dpc' \in Reading, current' = 1,
         scheme' # "none" => NoneTold', dpc' = "between" => TableRead'
  PROVE  DetectorInv'
<1>1. /\ dpc' \notin BehindTable \ {"between"} /\ dpc' # "count" /\ dpc' # "done"
      /\ dpc' \notin Probing \cup {"count"}
      /\ dpc' \in BehindTable => dpc' = "between"
  BY DEF Reading, BehindTable, Probing
<1>2. \A p \in DOMAIN parts' : ~(p < 1)
  BY DEF DetectorTypes
<1>3. Probed'
  BY <1>1, <1>2, Zenon DEF Probed, NoneTold
<1> QED BY <1>1, <1>3 DEF DetectorInv

\* An error ends the detector, and nothing is claimed about what it had found.
LEMMA FailedIs ==
  ASSUME DetectorTypes, UNCHANGED <<disk, parts, scheme, slot, base, lba, links, current>>,
         dpc' = "done", failure' # "none"
  PROVE  DetectorInv'
BY DEF DetectorInv, DetectorTypes, BehindTable

LEMMA DetectorStill ==
  ASSUME DetectorInv, UNCHANGED detectorVars
  PROVE  DetectorInv'
<1>1. UNCHANGED <<disk, dpc, slot, base, lba, links, parts, current, scheme, failure>>
  BY DEF detectorVars, walkVars
<1>2. Found' = Found /\ \A n : Completed(n)' = Completed(n) /\ FsAt(n)' = FsAt(n)
  BY <1>1, FoundSame, TablesSame
<1>3. AtLink' = AtLink
  BY <1>1 DEF AtLink, Chains, IsChain
<1>4. DetectorTypes' = DetectorTypes
  BY <1>1 DEF DetectorTypes
<1>5. LogicalFrom(Reaches(base, links - 1))' = LogicalFrom(Reaches(base, links - 1))
  BY <1>1 DEF LogicalFrom, Reaches, Chains, IsChain, Declared, Bytes, FsAt
<1>6. InTable => InTable'
  <2>1. Extended' = Extended
    BY <1>1, TablesSame
  <2>2. /\ PrimaryUpTo(slot)' = PrimaryUpTo(slot)
        /\ ExtendedUpTo(slot)' = ExtendedUpTo(slot)
    BY <1>1, <2>1, TablesSame DEF PrimaryUpTo, ExtendedUpTo
  <2>3. RoomUpTo(slot)' = RoomUpTo(slot)
    BY <2>2 DEF RoomUpTo
  <2>4. TableUpTo(slot)' = TableUpTo(slot)
    BY <1>1 DEF TableUpTo, IsListed, Declared, Bytes, FsAt
  <2>5. MbrUpTo(slot)' = MbrUpTo(slot)
    <3>1. \A f, n : Declared(f, n)' = Declared(f, n)
      BY <1>1 DEF Declared, Bytes, FsAt
    <3>2. \A s : LogicalOf(s)' = LogicalOf(s)
      BY <1>1, <3>1, TablesSame DEF LogicalOf
    <3> QED BY <1>1, <2>2, <3>1, <3>2 DEF MbrUpTo
  <2>6. MbrUpTo(slot)' \cup LogicalFrom(Reaches(base, links - 1))' =
          MbrUpTo(slot) \cup LogicalFrom(Reaches(base, links - 1))
    BY <1>5, <2>5
  <2> QED BY <1>1, <1>2, <1>3, <2>1, <2>3, <2>4, <2>5, <2>6 DEF InTable
<1>7. TableRead => TableRead'
  BY <1>1, <1>2, TablesSame DEF TableRead
<1>8. Probed => Probed'
  BY <1>1, <1>2 DEF Probed, FirstSector, ToCome
<1> QED BY <1>1, <1>4, <1>6, <1>7, <1>8 DEF DetectorInv

\* The detector's own checks of the token.
LEMMA CheckStep ==
  ASSUME DetectorInv, CheckToken("entry", "header") \/ CheckToken("between", "partition")
  PROVE  DetectorInv'
<1>1. UNCHANGED <<disk, slot, base, lba, links, parts, scheme, current>>
  BY DEF CheckToken, walkVars, Fail, Go
<1>2. dpc \in Reading
  BY DEF CheckToken, Reading
<1>3. DetectorTypes /\ InTable /\ current = 1 /\ failure = "none" /\ (scheme # "none" => NoneTold)
      /\ (dpc = "between" => TableRead)
  BY <1>2, ReadingWas
<1>4. CASE dpc' = "done" /\ failure' = "interrupted"
  BY <1>1, <1>3, <1>4, FailedIs
<1>5. CASE dpc = "entry" /\ dpc' = "header" /\ failure' = failure
  <2>1. DetectorTypes'
    BY <1>1, <1>3, <1>5 DEF DetectorTypes, BehindTable, Probing
  <2>2. InTable'
    BY <1>1, <1>3, <1>5 DEF InTable
  <2>3. scheme' # "none" => NoneTold'
    BY <1>1, <1>3 DEF NoneTold
  <2> QED BY <1>1, <1>3, <1>5, <2>1, <2>2, <2>3, ReadingIs DEF Reading
<1>6. CASE dpc = "between" /\ dpc' = "partition" /\ failure' = failure
  <2>1. DetectorTypes'
    BY <1>1, <1>3, <1>6 DEF DetectorTypes, BehindTable, Probing
  <2>2. InTable'
    BY <1>6 DEF InTable
  <2>3. TableRead'
    BY <1>1, <1>3, <1>6, FoundSame, TablesSame DEF TableRead
  <2>4. \A p \in DOMAIN parts' : ~(p < current')
    BY <1>1, <1>3 DEF DetectorTypes
  <2>5. Probed'
    <3>1. /\ dpc' \in BehindTable \ {"between"} /\ dpc' # "count" /\ dpc' # "done"
          /\ dpc' \notin Probing \cup {"count"}
      BY <1>6 DEF BehindTable, Probing
    <3>2. scheme' # "none" => \A p \in DOMAIN parts' : parts'[p].fs = "unknown"
      BY <1>1, <1>3 DEF NoneTold
    <3> QED BY <2>4, <3>1, <3>2, Zenon DEF Probed
  <2> QED BY <2>1, <2>2, <2>3, <2>5 DEF DetectorInv
<1>7. \/ dpc' = "done" /\ failure' = "interrupted"
      \/ dpc = "entry" /\ dpc' = "header" /\ failure' = failure
      \/ dpc = "between" /\ dpc' = "partition" /\ failure' = failure
  BY DEF CheckToken, Fail, Go
<1> QED BY <1>4, <1>5, <1>6, <1>7

\* Nothing has been found in front of the first entry.
LEMMA NothingYet ==
  ASSUME disk \in Disks, disk' = disk, parts' = <<>>
  PROVE  /\ Found' = {} /\ Len(parts') = 0 /\ NoneTold'
         /\ TableUpTo(1)' = {} /\ MbrUpTo(1)' = {} /\ RoomUpTo(1)' = 0
<1>1. Found' = {} /\ Len(parts') = 0 /\ NoneTold'
  BY DEF Found, NoneTold
<1>2. TableUpTo(1) = {}
  <2>1. \A i \in DOMAIN disk.table : ~(i < 1)
    BY DiskIs
  <2> QED BY <2>1 DEF TableUpTo
<1>3. MbrUpTo(1) = {} /\ RoomUpTo(1) = 0
  BY AllEntries, DetectorAssumption
<1> QED BY <1>1, <1>2, <1>3, TablesSame

\* A disk, or a boot sector, that is one volume.
LEMMA WholeIs ==
  ASSUME disk \in Disks, parts' = Whole
  PROVE  /\ parts' \in Seq(PartitionType) /\ Len(parts') = 1 /\ parts'[1].start = 0
<1>1. IsDisk(disk)
  BY DiskIs
<1>2. Bytes(disk.size) \in Nat
  BY <1>1, BytesNat DEF IsDisk
<1>3. IdentifyFs(0) \in FileSystems \cup {"unknown"}
  BY DiskIs DEF IdentifyFs
<1>4. [start |-> 0, size |-> Bytes(disk.size), fs |-> IdentifyFs(0)] \in PartitionType
  BY <1>2, <1>3 DEF PartitionType
<1> QED BY <1>4 DEF Whole

LEMMA HeaderStep ==
  ASSUME DetectorInv, ReadHeader
  PROVE  DetectorInv'
<1>1. dpc = "header" /\ UNCHANGED <<disk, slot, base, lba, links, current>>
  BY DEF ReadHeader, ReadBlocks, walkVars, Fail, Go
<1>2. dpc \in Reading
  BY <1>1 DEF Reading
<1>3. /\ DetectorTypes /\ InTable /\ current = 1 /\ failure = "none"
      /\ parts = <<>> /\ slot = 1 /\ scheme = "none"
  BY <1>1, <1>2, ReadingWas DEF InTable
<1>4. \/ dpc' = "done" /\ failure' = "other" /\ UNCHANGED <<parts, scheme>>
      \/ dpc' = "gpt" /\ scheme' = "gpt" /\ UNCHANGED <<failure, parts>>
      \/ dpc' = "mbr" /\ scheme' = "mbr" /\ UNCHANGED <<failure, parts>>
      \/ dpc' = "between" /\ parts' = Whole /\ UNCHANGED <<failure, scheme>>
  BY DEF ReadHeader, ReadBlocks, Fail, Go
<1>5. CASE dpc' = "done" /\ failure' = "other" /\ UNCHANGED <<parts, scheme>>
  BY <1>1, <1>3, <1>5, FailedIs
<1>6. CASE dpc' = "gpt" /\ scheme' = "gpt" /\ UNCHANGED <<failure, parts>>
  <2>1. DetectorTypes'
    BY <1>1, <1>3, <1>6 DEF DetectorTypes
  <2>2. InTable'
    BY <1>1, <1>3, <1>6 DEF InTable
  <2>3. NoneTold'
    BY <1>3, <1>6 DEF NoneTold
  <2> QED BY <1>1, <1>3, <1>6, <2>1, <2>2, <2>3, ReadingIs DEF Reading
<1>7. CASE dpc' = "mbr" /\ scheme' = "mbr" /\ UNCHANGED <<failure, parts>>
  <2>1. DetectorTypes'
    BY <1>1, <1>3, <1>7 DEF DetectorTypes
  <2>2. Found' = MbrUpTo(1)' /\ Len(parts') = 0 /\ RoomUpTo(1)' = 0 /\ NoneTold'
    BY <1>1, <1>3, <1>7, NothingYet DEF DetectorTypes
  <2>3. slot' = 1
    BY <1>1, <1>3
  <2>4. MbrUpTo(slot)' = MbrUpTo(1)' /\ RoomUpTo(slot)' = RoomUpTo(1)'
    BY <2>3 DEF MbrUpTo, RoomUpTo, PrimaryUpTo, ExtendedUpTo
  <2>5. Len(parts') <= RoomUpTo(slot)' /\ Found' = MbrUpTo(slot)' /\ slot' <= 5
    BY <2>2, <2>3, <2>4
  <2>6. InTable'
    BY <1>7, <2>5 DEF InTable
  <2> QED BY <1>1, <1>3, <1>7, <2>1, <2>2, <2>6, ReadingIs DEF Reading
<1>8. CASE dpc' = "between" /\ parts' = Whole /\ UNCHANGED <<failure, scheme>>
  <2>1. parts' \in Seq(PartitionType) /\ Len(parts') = 1 /\ parts'[1].start = 0
    BY <1>3, <1>8, WholeIs DEF DetectorTypes
  <2>2. DetectorTypes'
    BY <1>1, <1>3, <1>8, <2>1 DEF DetectorTypes, BehindTable
  <2>3. InTable'
    BY <1>8 DEF InTable
  <2>4. TableRead' /\ scheme' = "none"
    BY <1>3, <1>8, <2>1 DEF TableRead
  <2> QED BY <1>1, <1>3, <1>8, <2>2, <2>3, <2>4, ReadingIs DEF Reading
<1> QED BY <1>4, <1>5, <1>6, <1>7, <1>8

\* What the entries in front of the current one declare, when the current one moves.
LEMMA EntryMoves ==
  ASSUME disk' = disk
  PROVE  \A n : slot' = n => /\ TableUpTo(slot)' = TableUpTo(n)
                             /\ MbrUpTo(slot)' = MbrUpTo(n)
                             /\ RoomUpTo(slot)' = RoomUpTo(n)
<1> SUFFICES ASSUME NEW n, slot' = n
             PROVE  /\ TableUpTo(slot)' = TableUpTo(n)
                    /\ MbrUpTo(slot)' = MbrUpTo(n)
                    /\ RoomUpTo(slot)' = RoomUpTo(n)
  OBVIOUS
<1>1. \A f, m : Declared(f, m)' = Declared(f, m)
  BY DEF Declared, Bytes, FsAt
<1>2. \A s : LogicalOf(s)' = LogicalOf(s)
  BY <1>1, TablesSame DEF LogicalOf
<1>3. PrimaryUpTo(slot)' = PrimaryUpTo(n) /\ ExtendedUpTo(slot)' = ExtendedUpTo(n)
  BY TablesSame DEF PrimaryUpTo, ExtendedUpTo
<1>4. TableUpTo(slot)' = TableUpTo(n)
  BY <1>1 DEF TableUpTo, IsListed
<1>5. MbrUpTo(slot)' = MbrUpTo(n)
  BY <1>1, <1>2, <1>3 DEF MbrUpTo
<1>6. RoomUpTo(slot)' = RoomUpTo(n)
  BY <1>3 DEF RoomUpTo
<1> QED BY <1>4, <1>5, <1>6

LEMMA GptStep ==
  ASSUME DetectorInv, ReadGpt
  PROVE  DetectorInv'
<1>1. dpc = "gpt" /\ UNCHANGED <<disk, slot, base, lba, links, current, parts, scheme>>
  BY DEF ReadGpt, ReadBlocks, walkVars, Fail, Go
<1>2. dpc \in Reading
  BY <1>1 DEF Reading
<1>3. /\ DetectorTypes /\ InTable /\ current = 1 /\ failure = "none"
      /\ parts = <<>> /\ slot = 1 /\ scheme = "gpt"
  BY <1>1, <1>2, ReadingWas DEF InTable
<1>4. \/ dpc' = "done" /\ failure' \in {"invalid_data", "other"}
      \/ dpc' = "table" /\ UNCHANGED failure
  BY DEF ReadGpt, ReadBlocks, Fail, Go
<1>5. CASE dpc' = "done" /\ failure' \in {"invalid_data", "other"}
  BY <1>1, <1>3, <1>5, FailedIs
<1>6. CASE dpc' = "table" /\ UNCHANGED failure
  <2>1. DetectorTypes'
    BY <1>1, <1>3, <1>6 DEF DetectorTypes
  <2>2. Found' = TableUpTo(1)' /\ Len(parts') = 0 /\ NoneTold'
    BY <1>1, <1>3, <1>6, NothingYet DEF DetectorTypes
  <2>3. Found' = TableUpTo(slot)' /\ slot' = 1
    BY <1>1, <1>3, <2>2, EntryMoves, TablesSame
  <2>4. Len(disk'.table) \in Nat
    BY <1>1, <1>3, DiskIs DEF DetectorTypes
  <2>5. Len(parts') < slot' /\ slot' <= Len(disk'.table) + 1
    BY <2>2, <2>3, <2>4
  <2>6. InTable'
    BY <1>1, <1>3, <1>6, <2>3, <2>5 DEF InTable
  <2> QED BY <1>1, <1>3, <1>6, <2>1, <2>2, <2>6, ReadingIs DEF Reading
<1> QED BY <1>4, <1>5, <1>6

\* What the table declares with one entry more, and with all of them.
LEMMA TableNext ==
  ASSUME disk \in Disks, NEW n \in DOMAIN disk.table
  PROVE  TableUpTo(n + 1) =
           IF IsListed(disk.table[n])
           THEN TableUpTo(n) \cup {Declared(disk.table[n].first,
                                            disk.table[n].last - disk.table[n].first + 1)}
           ELSE TableUpTo(n)
<1>0. DOMAIN disk.table \subseteq Nat
  BY DiskIs
<1>1. \A i \in DOMAIN disk.table : i < n + 1 <=> (i < n \/ i = n)
  BY <1>0
<1> DEFINE I(m) == {i \in DOMAIN disk.table : i < m /\ IsListed(disk.table[i])}
<1>2. I(n + 1) = IF IsListed(disk.table[n]) THEN I(n) \cup {n} ELSE I(n)
  BY <1>1
<1>3. \A m : TableUpTo(m) =
        {Declared(disk.table[j].first, disk.table[j].last - disk.table[j].first + 1) : j \in I(m)}
  BY DEF TableUpTo
<1> HIDE DEF I
<1> QED BY <1>2, <1>3

LEMMA TableAll ==
  ASSUME disk \in Disks
  PROVE  TableUpTo(Len(disk.table) + 1) = GptDeclares
<1>1. \A i \in DOMAIN disk.table : i < Len(disk.table) + 1
  BY DiskIs
<1> DEFINE I == {j \in DOMAIN disk.table : IsListed(disk.table[j])}
<1>2. TableUpTo(Len(disk.table) + 1) =
        {Declared(disk.table[j].first, disk.table[j].last - disk.table[j].first + 1) : j \in I}
  BY <1>1 DEF TableUpTo
<1>3. GptDeclares = {Declared(e.first, e.last - e.first + 1) : e \in {disk.table[i] : i \in I}}
  BY DEF GptDeclares
<1> HIDE DEF I
<1> QED BY <1>2, <1>3

LEMMA GptEntryStep ==
  ASSUME DetectorInv, ReadGptEntry
  PROVE  DetectorInv'
<1>1. dpc = "table" /\ UNCHANGED <<disk, base, lba, links, current, scheme, failure>>
  BY DEF ReadGptEntry
<1>2. dpc \in Reading
  BY <1>1 DEF Reading
<1>3. /\ DetectorTypes /\ InTable /\ current = 1 /\ failure = "none" /\ scheme = "gpt"
      /\ Found = TableUpTo(slot) /\ Len(parts) < slot /\ slot <= Len(disk.table) + 1 /\ NoneTold
  BY <1>1, <1>2, ReadingWas DEF InTable
<1>4. disk \in Disks /\ slot \in Nat \ {0} /\ parts \in Seq(PartitionType) /\ Len(parts) \in Nat
  BY <1>3 DEF DetectorTypes
<1>5. Len(disk.table) \in Nat /\ DOMAIN disk.table = 1 .. Len(disk.table)
  BY <1>4, DiskIs
<1>6. CASE slot > Len(disk.table)
  <2>1. dpc' = "between" /\ UNCHANGED <<slot, parts>>
    BY <1>3, <1>4, <1>5, <1>6 DEF ReadGptEntry
  <2>2. slot = Len(disk.table) + 1 /\ Len(parts) <= Len(disk.table)
    BY <1>3, <1>4, <1>5, <1>6
  <2>3. DetectorTypes'
    BY <1>1, <1>3, <2>1 DEF DetectorTypes, BehindTable
  <2>4. InTable'
    BY <2>1 DEF InTable
  <2>5. Found = GptDeclares
    BY <1>3, <1>4, <2>2, TableAll
  <2>6. Found' = GptDeclares' /\ Len(parts') <= Len(disk'.table) /\ scheme' = "gpt"
    BY <1>1, <1>3, <2>1, <2>2, <2>5, FoundSame, TablesSame
  <2>7. TableRead' /\ NoneTold'
    BY <1>3, <2>1, <2>6 DEF TableRead, NoneTold
  <2> QED BY <1>1, <1>3, <2>1, <2>3, <2>4, <2>7, ReadingIs DEF Reading
<1>7. CASE slot <= Len(disk.table)
  <2> DEFINE e == disk.table[slot]
             q == Partition(e.first, e.last - e.first + 1)
  <2>1. /\ dpc' = dpc /\ slot' = slot + 1
        /\ parts' = IF IsListed(e) THEN Append(parts, q) ELSE parts
    BY <1>4, <1>5, <1>7 DEF ReadGptEntry
  <2>2. slot \in DOMAIN disk.table /\ slot + 1 \in Nat \ {0} /\ slot + 1 <= Len(disk.table) + 1
    BY <1>4, <1>5, <1>7
  <2>3. e.first \in Nat /\ e.last \in Nat
    BY <1>4, <2>2, DiskIs
  <2>4. ASSUME IsListed(e)
        PROVE  /\ q \in PartitionType /\ q.fs = "unknown"
               /\ Completed(q) = Declared(e.first, e.last - e.first + 1)
    <3>1. e.last - e.first + 1 \in Nat
      BY <2>3, <2>4 DEF IsListed
    <3> HIDE DEF e
    <3> QED BY <2>3, <3>1, PartitionIs
  <2>5. TableUpTo(slot + 1) =
          IF IsListed(e) THEN TableUpTo(slot) \cup {Declared(e.first, e.last - e.first + 1)}
                         ELSE TableUpTo(slot)
    BY <1>4, <2>2, TableNext
  <2> HIDE DEF e, q
  <2>6. /\ parts' \in Seq(PartitionType) /\ Found' = TableUpTo(slot + 1)
        /\ Len(parts') <= Len(parts) + 1 /\ Len(parts') \in Nat /\ NoneTold'
    <3>1. CASE IsListed(e)
      <4>1. parts' = Append(parts, q)
        BY <2>1, <3>1
      <4>2. /\ parts' \in Seq(PartitionType) /\ Found' = Found \cup {Completed(q)}
            /\ Len(parts') = Len(parts) + 1
            /\ \A p \in DOMAIN parts' :
                 parts'[p] = q \/ (p \in DOMAIN parts /\ parts'[p] = parts[p])
        BY <1>1, <1>4, <2>4, <3>1, <4>1, FoundAppend
      <4>3. NoneTold'
        BY <1>3, <2>4, <3>1, <4>2 DEF NoneTold
      <4>4. Found' = TableUpTo(slot + 1)
        BY <1>3, <2>4, <2>5, <3>1, <4>2
      <4> QED BY <1>4, <4>2, <4>3, <4>4
    <3>2. CASE ~IsListed(e)
      <4>1. parts' = parts
        BY <2>1, <3>2
      <4>2. Found' = TableUpTo(slot + 1)
        BY <1>1, <1>3, <2>5, <3>2, <4>1, FoundSame
      <4>3. NoneTold'
        BY <1>3, <4>1 DEF NoneTold
      <4> QED BY <1>4, <4>1, <4>2, <4>3
    <3> QED BY <3>1, <3>2
  <2>7. DetectorTypes'
    BY <1>1, <1>3, <2>1, <2>2, <2>6 DEF DetectorTypes
  <2>8. Found' = TableUpTo(slot)'
    BY <1>1, <2>1, <2>6, EntryMoves
  <2>9. Len(parts') < slot' /\ slot' <= Len(disk'.table) + 1
    BY <1>1, <1>3, <1>4, <2>1, <2>2, <2>6
  <2>10. InTable'
    BY <1>1, <1>3, <2>1, <2>8, <2>9 DEF InTable
  <2> QED BY <1>1, <1>3, <2>1, <2>6, <2>7, <2>10, ReadingIs DEF Reading
<1> QED BY <1>4, <1>5, <1>6, <1>7

\* The first record of a chain is where the extended partition starts.
LEMMA ChainBegins ==
  ASSUME disk' = disk, links' = 0, lba' = base'
  PROVE  AtLink' /\ LogicalFrom(Reaches(base, links - 1))' = {}
<1>1. AtLink' <=> /\ \A c \in Chains(base, links)' : c[links'] = lba'
                  /\ lba' \in DOMAIN disk.ebr => Chains(base, links)' # {}
  BY DEF AtLink
<1>2. Chains(base, links)' = {c \in [0 .. 0 -> DOMAIN disk.ebr] : c[0] = base'}
  BY DEF Chains, IsChain
<1>3. lba' \in DOMAIN disk.ebr =>
        [i \in 0 .. 0 |-> lba'] \in {c \in [0 .. 0 -> DOMAIN disk.ebr] : c[0] = base'}
  OBVIOUS
<1>4. AtLink'
  BY <1>1, <1>2, <1>3
<1>5. 0 .. links' - 1 = {}
  OBVIOUS
<1>6. Reaches(base, links - 1)' = {}
  BY <1>5 DEF Reaches
<1>7. LogicalFrom(Reaches(base, links - 1))' = {}
  BY <1>6 DEF LogicalFrom
<1> QED BY <1>4, <1>7

LEMMA MbrStep ==
  ASSUME DetectorInv, ReadMbr
  PROVE  DetectorInv'
<1>1. dpc = "mbr" /\ slot <= 4 /\ UNCHANGED <<disk, current, scheme, failure>>
  BY DEF ReadMbr
<1>2. dpc \in Reading
  BY <1>1 DEF Reading
<1>3. /\ DetectorTypes /\ current = 1 /\ failure = "none" /\ scheme = "mbr"
      /\ Found = MbrUpTo(slot) /\ Len(parts) <= RoomUpTo(slot) /\ NoneTold
  BY <1>1, <1>2, ReadingWas DEF InTable
<1>4. disk \in Disks /\ slot \in 1 .. 4 /\ parts \in Seq(PartitionType) /\ Len(parts) \in Nat
  BY <1>1, <1>3 DEF DetectorTypes
<1>5. disk.mbr[slot].lba \in Nat /\ disk.mbr[slot].sectors \in Nat /\ MaxEbr \in Nat
  BY <1>4, DiskIs
<1> DEFINE e == disk.mbr[slot]
<1>6. /\ slot \in Primary <=> e.kind = "data" /\ e.sectors > 0
      /\ slot \in Extended <=> e.kind = "extended" /\ e.sectors > 0
  BY <1>4 DEF Primary, Extended, Entries
<1>7. ASSUME dpc' = "mbr", slot' = slot + 1, UNCHANGED <<base, lba, links>>,
             parts' \in Seq(PartitionType), Found' = MbrUpTo(slot + 1),
             Len(parts') <= RoomUpTo(slot + 1), NoneTold'
      PROVE  DetectorInv'
  <2>1. DetectorTypes'
    BY <1>1, <1>3, <1>4, <1>7 DEF DetectorTypes
  <2>2. Found' = MbrUpTo(slot)' /\ Len(parts') <= RoomUpTo(slot)' /\ slot' <= 5
    BY <1>1, <1>4, <1>7, EntryMoves
  <2>3. InTable'
    BY <1>1, <1>3, <1>7, <2>2 DEF InTable
  <2> QED BY <1>1, <1>3, <1>7, <2>1, <2>3, ReadingIs DEF Reading
<1>8. CASE e.kind = "empty" \/ e.sectors = 0
  <2>1. slot \notin Primary \cup Extended
    BY <1>5, <1>6, <1>8
  <2>2. dpc' = "mbr" /\ slot' = slot + 1 /\ UNCHANGED <<base, lba, links, parts>>
    BY <1>1, <1>5, <1>8 DEF ReadMbr
  <2>3. MbrUpTo(slot + 1) = MbrUpTo(slot) /\ RoomUpTo(slot + 1) = RoomUpTo(slot)
    BY <1>4, <2>1, NextEntry
  <2>4. NoneTold' /\ Found' = Found
    BY <1>1, <1>3, <2>2, FoundSame DEF NoneTold
  <2> QED BY <1>3, <1>4, <1>7, <2>2, <2>3, <2>4
<1>9. CASE e.kind = "data" /\ e.sectors > 0
  <2> DEFINE q == Partition(e.lba, e.sectors)
  <2>1. /\ dpc' = "mbr" /\ slot' = slot + 1 /\ UNCHANGED <<base, lba, links>>
        /\ parts' = Append(parts, q)
    BY <1>1, <1>5, <1>9 DEF ReadMbr
  <2>2. q \in PartitionType /\ q.fs = "unknown" /\ Completed(q) = Declared(e.lba, e.sectors)
    BY <1>5, PartitionIs
  <2> HIDE DEF q
  <2>3. /\ parts' \in Seq(PartitionType) /\ Found' = Found \cup {Completed(q)}
        /\ Len(parts') = Len(parts) + 1
        /\ \A p \in DOMAIN parts' :
             parts'[p] = q \/ (p \in DOMAIN parts /\ parts'[p] = parts[p])
    BY <1>1, <1>4, <2>1, <2>2, FoundAppend
  <2>4. NoneTold'
    BY <1>3, <2>2, <2>3 DEF NoneTold
  <2>5. /\ RoomUpTo(slot) \in Nat /\ RoomUpTo(slot + 1) = RoomUpTo(slot) + 1
        /\ MbrUpTo(slot + 1) = MbrUpTo(slot) \cup {Declared(e.lba, e.sectors)}
    BY <1>4, <1>6, <1>9, NextEntry
  <2>6. Found' = MbrUpTo(slot + 1) /\ Len(parts') <= RoomUpTo(slot + 1)
    BY <1>3, <1>4, <2>2, <2>3, <2>5
  <2> QED BY <1>7, <2>1, <2>3, <2>4, <2>6
<1>10. CASE e.kind = "extended" /\ e.sectors > 0
  <2>1. /\ dpc' = "ebr" /\ base' = e.lba /\ lba' = e.lba /\ links' = 0
        /\ UNCHANGED <<slot, parts>>
    BY <1>1, <1>5, <1>10 DEF ReadMbr
  <2>2. slot \in Extended
    BY <1>6, <1>10
  <2>3. DetectorTypes'
    BY <1>1, <1>3, <1>5, <2>1 DEF DetectorTypes
  <2>4. AtLink' /\ LogicalFrom(Reaches(base, links - 1))' = {}
    BY <1>1, <2>1, ChainBegins
  <2>5. /\ slot' \in Extended' /\ base' = disk'.mbr[slot'].lba
        /\ MbrUpTo(slot)' = MbrUpTo(slot) /\ RoomUpTo(slot)' = RoomUpTo(slot)
        /\ RoomUpTo(slot) \in Nat /\ Found' = Found
    BY <1>1, <1>4, <2>1, <2>2, EntryMoves, TablesSame, NextEntry, FoundSame
  <2>6. /\ Found' = MbrUpTo(slot)' \cup LogicalFrom(Reaches(base, links - 1))'
        /\ Len(parts') <= RoomUpTo(slot)' + links'
    BY <1>3, <1>4, <2>1, <2>4, <2>5
  <2>7. InTable'
    BY <1>1, <1>3, <2>1, <2>4, <2>5, <2>6 DEF InTable
  <2>8. NoneTold'
    BY <1>3, <2>1 DEF NoneTold
  <2> QED BY <1>1, <1>3, <2>1, <2>3, <2>7, <2>8, ReadingIs DEF Reading
<1>11. e.kind \in {"empty", "data", "extended"}
  BY <1>4, DiskIs DEF IsDisk
<1> QED BY <1>5, <1>8, <1>9, <1>10, <1>11

LEMMA EndOfMbrStep ==
  ASSUME DetectorInv, EndOfMbr
  PROVE  DetectorInv'
<1>1. /\ dpc = "mbr" /\ slot > 4 /\ dpc' = "between"
      /\ UNCHANGED <<disk, slot, base, lba, links, current, failure>>
  BY DEF EndOfMbr, walkVars
<1>2. dpc \in Reading
  BY <1>1 DEF Reading
<1>3. /\ DetectorTypes /\ current = 1 /\ failure = "none" /\ scheme = "mbr" /\ slot <= 5
      /\ Found = MbrUpTo(slot) /\ Len(parts) <= RoomUpTo(slot) /\ NoneTold
  BY <1>1, <1>2, ReadingWas DEF InTable
<1>4. slot = 5
  BY <1>1, <1>3 DEF DetectorTypes
<1>5. InTable'
  BY <1>1 DEF InTable
<1>6. CASE scheme' = "none" /\ parts' = Whole
  <2>1. parts' \in Seq(PartitionType) /\ Len(parts') = 1 /\ parts'[1].start = 0
    BY <1>3, <1>6, WholeIs DEF DetectorTypes
  <2>2. DetectorTypes'
    BY <1>1, <1>3, <1>6, <2>1 DEF DetectorTypes, BehindTable
  <2>3. TableRead'
    BY <1>6, <2>1 DEF TableRead
  <2> QED BY <1>1, <1>3, <1>5, <1>6, <2>2, <2>3, ReadingIs DEF Reading
<1>7. CASE UNCHANGED <<scheme, parts>>
  <2>1. DetectorTypes'
    BY <1>1, <1>3, <1>7 DEF DetectorTypes, BehindTable
  <2>2. /\ Found = MbrDeclares
        /\ Len(parts) <= Cardinality(Primary) + MaxEbr * Cardinality(Extended)
    BY <1>3, <1>4, AllEntries
  <2>3. /\ Found' = MbrDeclares'
        /\ Len(parts') <= Cardinality(Primary') + MaxEbr * Cardinality(Extended')
    BY <1>1, <1>7, <2>2, FoundSame, TablesSame
  <2>4. TableRead' /\ NoneTold'
    BY <1>3, <1>7, <2>3 DEF TableRead, NoneTold
  <2> QED BY <1>1, <1>3, <1>5, <2>1, <2>4, ReadingIs DEF Reading
<1> QED BY <1>6, <1>7 DEF EndOfMbr

\* The record at lba gives its logical partition, if it has one.
LEMMA LogicalIs ==
  ASSUME DetectorTypes, NoneTold, disk' = disk, lba \in DOMAIN disk.ebr,
         parts' = parts \o Logical(lba)
  PROVE  /\ parts' \in Seq(PartitionType) /\ Found' = Found \cup LogicalFrom({lba})
         /\ Len(parts') <= Len(parts) + 1 /\ Len(parts) \in Nat /\ Len(parts') \in Nat
         /\ NoneTold'
<1>1. parts \in Seq(PartitionType) /\ disk \in Disks /\ lba \in Nat /\ Len(parts) \in Nat
  BY DEF DetectorTypes
<1> DEFINE e == disk.ebr[lba]
           has == e.kind # "empty" /\ e.sectors > 0
           q == Partition(lba + e.rel, e.sectors)
<1>2. e.rel \in Nat /\ e.sectors \in Nat
  BY <1>1, DiskIs DEF IsDisk
<1>3. LogicalFrom({lba}) = IF has THEN {Declared(lba + e.rel, e.sectors)} ELSE {}
  BY DEF LogicalFrom
<1>4. CASE has
  <2>1. lba + e.rel \in Nat
    BY <1>1, <1>2
  <2>2. q \in PartitionType /\ q.fs = "unknown" /\ Completed(q) = Declared(lba + e.rel, e.sectors)
    BY <1>2, <2>1, PartitionIs
  <2>3. Logical(lba) = <<q>>
    BY <1>4 DEF Logical
  <2> HIDE DEF q, e
  <2>4. parts' = Append(parts, q)
    BY <1>1, <2>2, <2>3
  <2>5. /\ parts' \in Seq(PartitionType) /\ Found' = Found \cup {Completed(q)}
        /\ Len(parts') = Len(parts) + 1
        /\ \A p \in DOMAIN parts' :
             parts'[p] = q \/ (p \in DOMAIN parts /\ parts'[p] = parts[p])
    BY <1>1, <2>2, <2>4, FoundAppend
  <2>6. NoneTold'
    BY <2>2, <2>5 DEF NoneTold
  <2>7. Found' = Found \cup LogicalFrom({lba})
    BY <1>3, <1>4, <2>2, <2>5
  <2>8. Len(parts') <= Len(parts) + 1 /\ Len(parts') \in Nat
    BY <1>1, <2>5
  <2> QED BY <1>1, <2>5, <2>6, <2>7, <2>8
<1>5. CASE ~has
  <2>1. Logical(lba) = <<>>
    BY <1>5 DEF Logical
  <2>2. parts' = parts
    BY <1>1, <2>1
  <2>3. Found' = Found /\ NoneTold'
    BY <2>2, FoundSame DEF NoneTold
  <2> QED BY <1>1, <1>3, <1>5, <2>2, <2>3
<1> QED BY <1>4, <1>5

\* A chain that is walked to its end, or to the bound, is an entry done.
LEMMA ChainOver ==
  ASSUME DetectorTypes, slot \in Extended, disk' = disk, UNCHANGED <<base, lba, current>>,
         links' \in 0 .. MaxEbr, scheme = "mbr", scheme' = scheme, failure' = failure,
         failure = "none",
         dpc' = "mbr", slot' = slot + 1, current = 1, parts' \in Seq(PartitionType), NoneTold',
         Found' = MbrUpTo(slot) \cup LogicalOf(slot), Len(parts') <= RoomUpTo(slot) + MaxEbr
  PROVE  DetectorInv'
<1>1. slot \in 1 .. 4 /\ disk \in Disks
  BY DEF Extended, Entries, DetectorTypes
<1>2. MbrUpTo(slot + 1) = MbrUpTo(slot) \cup LogicalOf(slot)
      /\ RoomUpTo(slot + 1) = RoomUpTo(slot) + MaxEbr
  BY <1>1, NextEntry
<1>3. DetectorTypes'
  BY <1>1 DEF DetectorTypes
<1>4. Found' = MbrUpTo(slot)' /\ Len(parts') <= RoomUpTo(slot)' /\ slot' <= 5
  BY <1>1, <1>2, EntryMoves
<1>5. InTable'
  BY <1>4 DEF InTable
<1> QED BY <1>3, <1>5, ReadingIs DEF Reading

\* What the detector knows in a chain.
LEMMA InChain ==
  ASSUME DetectorInv, dpc = "ebr"
  PROVE  /\ DetectorTypes /\ current = 1 /\ failure = "none" /\ scheme = "mbr" /\ NoneTold
         /\ slot \in Extended /\ AtLink /\ links \in 0 .. MaxEbr /\ MaxEbr \in Nat
         /\ Found = MbrUpTo(slot) \cup LogicalFrom(Reaches(base, links - 1))
         /\ Len(parts) <= RoomUpTo(slot) + links /\ Len(parts) \in Nat /\ RoomUpTo(slot) \in Nat
         /\ base = disk.mbr[slot].lba
         /\ LogicalOf(slot) = LogicalFrom(Reaches(base, MaxEbr - 1))
<1>1. dpc \in Reading
  BY DEF Reading
<1>2. /\ DetectorTypes /\ current = 1 /\ failure = "none" /\ scheme = "mbr" /\ NoneTold
      /\ slot \in Extended /\ AtLink /\ base = disk.mbr[slot].lba
      /\ Found = MbrUpTo(slot) \cup LogicalFrom(Reaches(base, links - 1))
      /\ Len(parts) <= RoomUpTo(slot) + links
  BY <1>1, ReadingWas DEF InTable
<1>3. disk \in Disks /\ slot \in 1 .. 4 /\ links \in 0 .. MaxEbr /\ Len(parts) \in Nat
  BY <1>2 DEF DetectorTypes, Extended, Entries
<1>4. RoomUpTo(slot) \in Nat /\ MaxEbr \in Nat
  BY <1>3, NextEntry, DiskIs
<1>5. LogicalOf(slot) = LogicalFrom(Reaches(base, MaxEbr - 1))
  BY <1>2 DEF LogicalOf, LogicalFrom
<1> QED BY <1>2, <1>3, <1>4, <1>5

LEMMA ChainTooLongStep ==
  ASSUME DetectorInv, ChainTooLong
  PROVE  DetectorInv'
<1>1. /\ dpc = "ebr" /\ links = MaxEbr /\ dpc' = "mbr" /\ slot' = slot + 1
      /\ UNCHANGED <<disk, base, lba, links, parts, current, scheme, failure>>
  BY DEF ChainTooLong, EndOfChain
<1>2. /\ DetectorTypes /\ current = 1 /\ failure = "none" /\ scheme = "mbr" /\ NoneTold
      /\ slot \in Extended /\ links \in 0 .. MaxEbr
      /\ Found = MbrUpTo(slot) \cup LogicalFrom(Reaches(base, links - 1))
      /\ Len(parts) <= RoomUpTo(slot) + links
      /\ LogicalOf(slot) = LogicalFrom(Reaches(base, MaxEbr - 1))
  BY <1>1, InChain
<1>3. Found' = MbrUpTo(slot) \cup LogicalOf(slot) /\ Len(parts') <= RoomUpTo(slot) + MaxEbr
  BY <1>1, <1>2, FoundSame
<1>4. NoneTold' /\ parts' \in Seq(PartitionType)
  BY <1>1, <1>2 DEF NoneTold, DetectorTypes
<1> QED BY <1>1, <1>2, <1>3, <1>4, ChainOver

LEMMA EbrStep ==
  ASSUME DetectorInv, ReadEbr
  PROVE  DetectorInv'
<1>1. dpc = "ebr" /\ links < MaxEbr /\ UNCHANGED <<disk, current>>
  BY DEF ReadEbr
<1>2. /\ DetectorTypes /\ current = 1 /\ failure = "none" /\ scheme = "mbr" /\ NoneTold
      /\ slot \in Extended /\ AtLink /\ links \in 0 .. MaxEbr /\ MaxEbr \in Nat
      /\ Found = MbrUpTo(slot) \cup LogicalFrom(Reaches(base, links - 1))
      /\ Len(parts) <= RoomUpTo(slot) + links /\ Len(parts) \in Nat /\ RoomUpTo(slot) \in Nat
      /\ base = disk.mbr[slot].lba
      /\ LogicalOf(slot) = LogicalFrom(Reaches(base, MaxEbr - 1))
  BY <1>1, InChain
<1>3. links \in Nat /\ links + 1 \in 0 .. MaxEbr /\ links <= MaxEbr - 1 /\ MaxEbr - 1 \in Nat
  BY <1>1, <1>2
<1>4. Reaches(base, links) =
        Reaches(base, links - 1) \cup (IF lba \in DOMAIN disk.ebr THEN {lba} ELSE {})
  BY <1>2, <1>3, LinkReached
<1>5. LogicalFrom(Reaches(base, links)) =
        LogicalFrom(Reaches(base, links - 1))
          \cup (IF lba \in DOMAIN disk.ebr THEN LogicalFrom({lba}) ELSE {})
  BY <1>4 DEF LogicalFrom
<1>6. ASSUME lba \notin DOMAIN disk.ebr \/ disk.ebr[lba].next = 0
      PROVE  LogicalOf(slot) = LogicalFrom(Reaches(base, links))
  <2>1. Reaches(base, MaxEbr - 1) = Reaches(base, links)
    BY <1>2, <1>3, <1>6, ChainEnds
  <2> QED BY <1>2, <2>1
<1>7. \/ dpc' = "done" /\ failure' = "other" /\ UNCHANGED <<parts, scheme, slot, base, lba, links>>
      \/ /\ lba \notin DOMAIN disk.ebr /\ links' = links + 1 /\ UNCHANGED <<parts, scheme>>
         /\ EndOfChain
      \/ /\ lba \in DOMAIN disk.ebr /\ disk.ebr[lba].next = 0
         /\ links' = links + 1 /\ parts' = parts \o Logical(lba) /\ UNCHANGED scheme
         /\ EndOfChain
      \/ /\ lba \in DOMAIN disk.ebr /\ disk.ebr[lba].next # 0
         /\ links' = links + 1 /\ parts' = parts \o Logical(lba)
         /\ lba' = base + disk.ebr[lba].next
         /\ UNCHANGED <<scheme, dpc, failure, slot, base>>
  BY Zenon DEF ReadEbr, ReadBlocks, Fail, walkVars
<1>8. CASE dpc' = "done" /\ failure' = "other"
             /\ UNCHANGED <<parts, scheme, slot, base, lba, links>>
  BY <1>1, <1>2, <1>8, FailedIs
<1>9. CASE /\ lba \notin DOMAIN disk.ebr /\ links' = links + 1 /\ UNCHANGED <<parts, scheme>>
           /\ EndOfChain
  <2>1. Found' = MbrUpTo(slot) \cup LogicalOf(slot)
    BY <1>1, <1>2, <1>5, <1>6, <1>9, FoundSame
  <2>2. Len(parts') <= RoomUpTo(slot) + MaxEbr /\ parts' \in Seq(PartitionType) /\ NoneTold'
    BY <1>2, <1>3, <1>9 DEF NoneTold, DetectorTypes
  <2> QED BY <1>1, <1>2, <1>3, <1>9, <2>1, <2>2, ChainOver DEF EndOfChain
<1>10. CASE /\ lba \in DOMAIN disk.ebr /\ disk.ebr[lba].next = 0
            /\ links' = links + 1 /\ parts' = parts \o Logical(lba) /\ UNCHANGED scheme
            /\ EndOfChain
  <2>1. /\ parts' \in Seq(PartitionType) /\ Found' = Found \cup LogicalFrom({lba})
        /\ Len(parts') <= Len(parts) + 1 /\ Len(parts') \in Nat /\ NoneTold'
    BY <1>1, <1>2, <1>10, LogicalIs
  <2>2. Found' = MbrUpTo(slot) \cup LogicalOf(slot)
    <3>1. LogicalOf(slot) = LogicalFrom(Reaches(base, links - 1)) \cup LogicalFrom({lba})
      BY <1>5, <1>6, <1>10
    <3>2. Found' = (MbrUpTo(slot) \cup LogicalFrom(Reaches(base, links - 1)))
                     \cup LogicalFrom({lba})
      BY <1>2, <2>1
    <3> QED BY <3>1, <3>2, Zenon
  <2>3. Len(parts') <= RoomUpTo(slot) + MaxEbr
    BY <1>2, <1>3, <2>1
  <2> QED BY <1>1, <1>2, <1>3, <1>10, <2>1, <2>2, <2>3, ChainOver DEF EndOfChain
<1>11. CASE /\ lba \in DOMAIN disk.ebr /\ disk.ebr[lba].next # 0
            /\ links' = links + 1 /\ parts' = parts \o Logical(lba)
            /\ lba' = base + disk.ebr[lba].next
            /\ UNCHANGED <<scheme, dpc, failure, slot, base>>
  <2>1. /\ parts' \in Seq(PartitionType) /\ Found' = Found \cup LogicalFrom({lba})
        /\ Len(parts') <= Len(parts) + 1 /\ Len(parts') \in Nat /\ NoneTold'
    BY <1>1, <1>2, <1>11, LogicalIs
  <2>2. AtLink'
    BY <1>1, <1>2, <1>3, <1>11, LinkNext
  <2>3. lba' \in Nat
    <3>1. disk \in Disks /\ base \in Nat
      BY <1>2 DEF DetectorTypes
    <3>2. disk.ebr[lba].next \in Nat
      BY <1>11, <3>1, DiskIs DEF IsDisk
    <3> QED BY <1>11, <3>1, <3>2
  <2>4. DetectorTypes'
    BY <1>1, <1>2, <1>3, <1>11, <2>1, <2>3 DEF DetectorTypes
  <2>5. LogicalFrom(Reaches(base, links - 1))' = LogicalFrom(Reaches(base, links))
    <3>1. links' - 1 = links
      BY <1>3, <1>11
    <3>2. Reaches(base, links - 1)' = Reaches(base, links)
      BY <1>1, <1>11, <3>1, TablesSame DEF Reaches
    <3> QED BY <1>1, <3>2, TablesSame DEF LogicalFrom
  <2>6. /\ MbrUpTo(slot)' = MbrUpTo(slot) /\ RoomUpTo(slot)' = RoomUpTo(slot)
        /\ slot' \in Extended' /\ base' = disk'.mbr[slot'].lba
    BY <1>1, <1>2, <1>11, EntryMoves, TablesSame
  <2>7. /\ Found' = MbrUpTo(slot)' \cup LogicalFrom(Reaches(base, links - 1))'
        /\ Len(parts') <= RoomUpTo(slot)' + links'
    <3>1. LogicalFrom(Reaches(base, links - 1))' =
            LogicalFrom(Reaches(base, links - 1)) \cup LogicalFrom({lba})
      BY <1>5, <1>11, <2>5
    <3>2. Found' = (MbrUpTo(slot) \cup LogicalFrom(Reaches(base, links - 1)))
                     \cup LogicalFrom({lba})
      BY <1>2, <2>1
    <3>3. Found' = MbrUpTo(slot)' \cup LogicalFrom(Reaches(base, links - 1))'
      BY <2>6, <3>1, <3>2, Zenon
    <3>4. Len(parts') <= RoomUpTo(slot)' + links'
      BY <1>2, <1>3, <1>11, <2>1, <2>6
    <3> QED BY <3>3, <3>4
  <2>8. InTable'
    BY <1>1, <1>2, <1>11, <2>2, <2>6, <2>7 DEF InTable
  <2> QED BY <1>1, <1>2, <1>11, <2>1, <2>4, <2>8, ReadingIs DEF Reading
<1> QED BY <1>7, <1>8, <1>9, <1>10, <1>11

\* Behind the table.
LEMMA BehindWas ==
  ASSUME DetectorInv, dpc \in Probing \cup {"partition", "count"}
  PROVE  /\ DetectorTypes /\ TableRead /\ Probed /\ failure = "none"
         /\ disk \in Disks /\ parts \in Seq(PartitionType) /\ current \in Nat \ {0}
         /\ Len(parts) \in Nat /\ DOMAIN parts = 1 .. Len(parts)
         /\ \A p \in DOMAIN parts : p \in Nat /\ parts[p] \in PartitionType
<1>1. dpc \in BehindTable /\ dpc # "done"
  BY DEF BehindTable, Probing
<1>2. DetectorTypes /\ TableRead /\ Probed /\ failure = "none"
  BY <1>1 DEF DetectorInv, DetectorTypes
<1>3. disk \in Disks /\ parts \in Seq(PartitionType) /\ current \in Nat \ {0}
  BY <1>2 DEF DetectorTypes
<1>4. Len(parts) \in Nat /\ DOMAIN parts = 1 .. Len(parts)
  BY <1>3
<1>5. ASSUME NEW S, NEW u \in Seq(S), NEW j \in DOMAIN u PROVE u[j] \in S
  OBVIOUS
<1> QED BY <1>2, <1>3, <1>4, <1>5

LEMMA BehindIs ==
  ASSUME DetectorTypes', TableRead', Probed', dpc' \in BehindTable \ {"between"}
  PROVE  DetectorInv'
<1>1. InTable'
  BY DEF InTable, BehindTable, Probing
<1> QED BY <1>1 DEF DetectorInv

\* A partition without a file system to find is complete.
LEMMA CompleteIs ==
  ASSUME NEW q \in PartitionType, q.fs = IF q.size = 0 THEN "unknown" ELSE FsAt(q.start \div Sector)
  PROVE  Completed(q) = q
<1>1. q = [start |-> q.start, size |-> q.size, fs |-> q.fs]
  BY DEF PartitionType
<1>2. Completed(q) = [start |-> q.start, size |-> q.size, fs |-> q.fs]
  BY DEF Completed
<1> QED BY <1>1, <1>2

LEMMA PartitionStep ==
  ASSUME DetectorInv, NextPartition
  PROVE  DetectorInv'
<1>1. /\ dpc = "partition"
      /\ UNCHANGED <<disk, slot, base, lba, links, parts, scheme, current>>
  BY DEF NextPartition, walkVars, Fail, Go
<1>2. /\ DetectorTypes /\ TableRead /\ Probed /\ failure = "none"
      /\ disk \in Disks /\ parts \in Seq(PartitionType) /\ current \in Nat \ {0}
      /\ Len(parts) \in Nat /\ DOMAIN parts = 1 .. Len(parts)
      /\ \A p \in DOMAIN parts : p \in Nat /\ parts[p] \in PartitionType
  BY <1>1, BehindWas
<1>3. /\ \A q : Completed(q)' = Completed(q)
      /\ \A n : FsAt(n)' = FsAt(n)
  BY <1>1, TablesSame
<1>4. TableRead'
  BY <1>1, <1>2, FoundSame, TablesSame DEF TableRead
<1>5. scheme # "none" =>
        \A p \in DOMAIN parts :
          /\ p < current => parts[p] = Completed(parts[p])
          /\ p >= current => parts[p].fs = "unknown"
  BY <1>1, <1>2 DEF Probed
<1>6. CASE dpc' = "done" /\ failure' = "interrupted"
  BY <1>1, <1>2, <1>6, FailedIs
<1>7. CASE /\ current <= Len(parts) /\ dpc' = "boot_sector" /\ failure' = failure
           /\ parts[current].fs = "unknown" /\ parts[current].size > 0
  <2>1. DetectorTypes'
    BY <1>1, <1>2, <1>7 DEF DetectorTypes, BehindTable, Probing
  <2>2. FsAt(FirstSector(current)) \in FileSystems \cup {"unknown"}
    BY <1>2, DiskIs
  <2>3. FsAt(FirstSector(current))' \in ToCome' \cup {"unknown"}
    <3>1. ToCome' = FileSystems
      BY <1>7 DEF ToCome
    <3>2. FsAt(FirstSector(current))' = FsAt(FirstSector(current))
      BY <1>1 DEF FsAt, FirstSector
    <3> QED BY <2>2, <3>1, <3>2
  <2>4. current \in DOMAIN parts
    BY <1>2, <1>7
  <2>5. scheme # "none" =>
          \A p \in DOMAIN parts :
            /\ p < current => parts[p] = Completed(parts[p])
            /\ p > current \/ p = current => parts[p].fs = "unknown"
    BY <1>2, <1>5
  <2>6. dpc' \in BehindTable \ {"between"} /\ dpc' # "count" /\ dpc' # "done"
    BY <1>7 DEF BehindTable, Probing
  <2>7. Probed'
    BY <1>1, <1>3, <1>7, <2>3, <2>4, <2>5, <2>6 DEF Probed
  <2> QED BY <1>4, <2>1, <2>6, <2>7, BehindIs
<1>8. CASE /\ current <= Len(parts) /\ dpc' = "count" /\ failure' = failure
           /\ ~(parts[current].fs = "unknown" /\ parts[current].size > 0)
  <2>1. DetectorTypes'
    BY <1>1, <1>2, <1>8 DEF DetectorTypes, BehindTable, Probing
  <2>2. current \in DOMAIN parts
    BY <1>2, <1>8
  <2>3. scheme # "none" => parts[current] = Completed(parts[current])
    <3> SUFFICES ASSUME scheme # "none" PROVE parts[current] = Completed(parts[current])
      OBVIOUS
    <3>1. parts[current] \in PartitionType /\ parts[current].fs = "unknown"
      BY <1>2, <1>5, <2>2
    <3>2. parts[current].size = 0
      BY <1>8, <3>1 DEF PartitionType
    <3> QED BY <3>1, <3>2, CompleteIs
  <2>4. scheme # "none" =>
          \A p \in DOMAIN parts :
            /\ p < current \/ p = current => parts[p] = Completed(parts[p])
            /\ p > current => parts[p].fs = "unknown"
    BY <1>2, <1>5, <2>3
  <2>5. dpc' \in BehindTable \ {"between"} /\ dpc' \notin Probing /\ dpc' # "done"
    BY <1>8 DEF BehindTable, Probing
  <2>6. Probed'
    BY <1>1, <1>3, <1>8, <2>2, <2>4, <2>5 DEF Probed
  <2> QED BY <1>4, <2>1, <2>5, <2>6, BehindIs
<1>9. CASE current > Len(parts) /\ dpc' = "done" /\ failure' = failure
  <2>1. DetectorTypes'
    BY <1>1, <1>2, <1>9 DEF DetectorTypes, BehindTable, Probing
  <2>2. \A p \in DOMAIN parts : p < current /\ ~(p > current) /\ p # current
    BY <1>2, <1>9
  <2>3. scheme # "none" => \A p \in DOMAIN parts : parts[p] = Completed(parts[p])
    BY <1>5, <2>2
  <2>4. dpc' \in BehindTable \ {"between"} /\ dpc' \notin Probing \cup {"count"}
    BY <1>9 DEF BehindTable, Probing
  <2>5. Probed'
    BY <1>1, <1>3, <1>9, <2>2, <2>3, <2>4 DEF Probed
  <2> QED BY <1>4, <2>1, <2>4, <2>5, BehindIs
<1> QED BY <1>6, <1>7, <1>8, <1>9 DEF NextPartition, Fail, Go

\* A probe that tells the file system completes the partition; one that does not
\* leaves it to the next, and behind the last there is none to tell.
LEMMA ProbeStep ==
  ASSUME DetectorInv, NEW from \in Probing, NEW known \in SUBSET FileSystems, NEW to,
         Probe(from, known, to),
         \/ to \in Probing /\ ToCome \ known =
              (CASE to = "ext" -> ExtFs \cup {"btrfs", "swap"}
                 [] to = "btrfs" -> {"btrfs", "swap"} [] to = "swap" -> {"swap"}
                 [] OTHER -> {})
         \/ to = "count" /\ ToCome \ known = {}
  PROVE  DetectorInv'
<1> DEFINE fs == FsAt(FirstSector(current))
<1>1. /\ dpc = from /\ dpc \in Probing
      /\ UNCHANGED <<disk, slot, base, lba, links, scheme, current>>
  BY DEF Probe, ReadBlocks, walkVars, Fail, SetFs, Go
<1>2. /\ DetectorTypes /\ TableRead /\ Probed /\ failure = "none"
      /\ disk \in Disks /\ parts \in Seq(PartitionType) /\ current \in Nat \ {0}
      /\ Len(parts) \in Nat /\ DOMAIN parts = 1 .. Len(parts)
      /\ \A p \in DOMAIN parts : p \in Nat /\ parts[p] \in PartitionType
  BY <1>1, BehindWas
<1>3. /\ \A q : Completed(q)' = Completed(q)
      /\ \A n : FsAt(n)' = FsAt(n)
  BY <1>1, TablesSame
<1>4. dpc # "count"
  BY <1>1 DEF Probing
<1>5. /\ current \in DOMAIN parts /\ parts[current].size > 0 /\ fs \in ToCome \cup {"unknown"}
      /\ parts[current] \in PartitionType
  BY <1>1, <1>2 DEF Probed
<1>6. scheme # "none" =>
        \A p \in DOMAIN parts :
          /\ p < current => parts[p] = Completed(parts[p])
          /\ p > current \/ p = current => parts[p].fs = "unknown"
  BY <1>2, <1>4 DEF Probed
<1>7. \/ dpc' = "done" /\ failure' = "other" /\ UNCHANGED parts
      \/ /\ fs \in known /\ dpc' = "count" /\ failure' = failure
         /\ parts' = [parts EXCEPT ![current].fs = fs]
      \/ fs \notin known /\ dpc' = to /\ UNCHANGED <<failure, parts>>
  BY DEF Probe, ReadBlocks, Fail, SetFs, Go
<1>8. CASE dpc' = "done" /\ failure' = "other" /\ UNCHANGED parts
  BY <1>1, <1>2, <1>8, FailedIs
<1>9. CASE /\ fs \in known /\ dpc' = "count" /\ failure' = failure
           /\ parts' = [parts EXCEPT ![current].fs = fs]
  <2> DEFINE old == parts[current]
             new == [old EXCEPT !.fs = fs]
  <2>1. /\ new \in PartitionType /\ new.start = old.start /\ new.size = old.size /\ new.fs = fs
    BY <1>5, <1>9 DEF PartitionType
  <2>2. fs = FsAt(old.start \div Sector)
    BY DEF FirstSector
  <2>3. Completed(new) = new
    <3>1. new.size # 0
      BY <1>5, <2>1 DEF PartitionType
    <3> HIDE DEF new, old, fs
    <3> QED BY <2>1, <2>2, <3>1, CompleteIs
  <2>4. Completed(new) = Completed(old)
    BY <2>1 DEF Completed
  <2>5. parts' = [parts EXCEPT ![current] = new]
    BY <1>9
  <2> HIDE DEF old, new, fs
  <2>6. /\ parts' \in Seq(PartitionType) /\ DOMAIN parts' = DOMAIN parts
        /\ Len(parts') = Len(parts) /\ parts'[current] = new
        /\ \A p \in DOMAIN parts : p # current => parts'[p] = parts[p]
    BY <1>2, <1>5, <2>1, <2>5
  <2>7. Found' = Found
    <3>1. Found' = {Completed(parts'[p]) : p \in DOMAIN parts'}
      BY <1>3 DEF Found
    <3>2. \A p \in DOMAIN parts : Completed(parts'[p]) = Completed(parts[p])
      BY <2>4, <2>6 DEF old
    <3> QED BY <2>6, <3>1, <3>2 DEF Found
  <2>8. parts'[1].start = parts[1].start
    BY <2>1, <2>6, <1>2, <1>5 DEF old
  <2>9. DetectorTypes'
    BY <1>1, <1>2, <1>9, <2>6 DEF DetectorTypes, BehindTable
  <2>10. TableRead'
    BY <1>1, <1>2, <2>6, <2>7, <2>8, TablesSame DEF TableRead
  <2>11. dpc' \in BehindTable \ {"between"} /\ dpc' \notin Probing /\ dpc' # "done"
    BY <1>9 DEF BehindTable, Probing
  <2>12. scheme # "none" =>
          \A p \in DOMAIN parts :
            /\ p < current \/ p = current => parts'[p] = Completed(parts'[p])
            /\ p > current => parts'[p].fs = "unknown"
    BY <1>2, <1>6, <2>3, <2>6
  <2>13. Probed'
    BY <1>1, <1>3, <1>5, <1>9, <2>6, <2>11, <2>12 DEF Probed
  <2> QED BY <2>9, <2>10, <2>11, <2>13, BehindIs
<1>10. CASE fs \notin known /\ dpc' = to /\ UNCHANGED <<failure, parts>>
  <2>1. TableRead'
    BY <1>1, <1>2, <1>10, FoundSame, TablesSame DEF TableRead
  <2>2. fs \in (ToCome \ known) \cup {"unknown"}
    BY <1>5, <1>10
  <2>3. FsAt(FirstSector(current))' = fs
    BY <1>1, <1>10 DEF FsAt, FirstSector
  <2> HIDE DEF fs
  <2>4. CASE to = "count"
    <3>1. fs = "unknown"
      BY <2>2, <2>4 DEF Probing
    <3>2. DetectorTypes'
      BY <1>1, <1>2, <1>10, <2>4 DEF DetectorTypes, BehindTable
    <3>3. scheme # "none" => parts[current] = Completed(parts[current])
      <4> SUFFICES ASSUME scheme # "none" PROVE parts[current] = Completed(parts[current])
        OBVIOUS
      <4>1. parts[current].fs = "unknown"
        BY <1>2, <1>5, <1>6
      <4>2. FsAt(parts[current].start \div Sector) = "unknown"
        BY <3>1 DEF fs, FirstSector
      <4> QED BY <1>5, <4>1, <4>2, CompleteIs
    <3>4. dpc' \in BehindTable \ {"between"} /\ dpc' \notin Probing /\ dpc' # "done"
      BY <1>10, <2>4 DEF BehindTable, Probing
    <3>5. scheme # "none" =>
            \A p \in DOMAIN parts :
              /\ p < current \/ p = current => parts[p] = Completed(parts[p])
              /\ p > current => parts[p].fs = "unknown"
      BY <1>2, <1>6, <3>3
    <3>6. Probed'
      BY <1>1, <1>3, <1>5, <1>10, <2>4, <3>4, <3>5 DEF Probed
    <3> QED BY <2>1, <3>2, <3>4, <3>6, BehindIs
  <2>5. CASE to \in Probing
    <3>1. DetectorTypes'
      BY <1>1, <1>2, <1>10, <2>5 DEF DetectorTypes, BehindTable, Probing
    <3>2. dpc' \in BehindTable \ {"between"} /\ dpc' # "count" /\ dpc' # "done"
      BY <1>10, <2>5 DEF BehindTable, Probing
    <3>3. (ToCome \ known) \subseteq ToCome'
      BY <1>10, <2>5 DEF ToCome, Probing
    <3>4. FsAt(FirstSector(current))' \in ToCome' \cup {"unknown"}
      BY <2>2, <2>3, <3>3
    <3>5. Probed'
      BY <1>1, <1>3, <1>5, <1>6, <1>10, <2>5, <3>2, <3>4 DEF Probed
    <3> QED BY <2>1, <3>1, <3>2, <3>5, BehindIs
  <2> QED BY <2>4, <2>5
<1> QED BY <1>7, <1>8, <1>9, <1>10

LEMMA ProbesStep ==
  ASSUME DetectorInv, ProbeBootSector \/ ProbeExt \/ ProbeBtrfs \/ ProbeSwap
  PROVE  DetectorInv'
<1>1. CASE ProbeBootSector
  <2>1. dpc = "boot_sector"
    BY <1>1 DEF ProbeBootSector, Probe
  <2>2. ToCome \ BootSectorFs = ExtFs \cup {"btrfs", "swap"}
    BY <2>1 DEF ToCome, FileSystems, BootSectorFs, ExtFs
  <2>3. BootSectorFs \in SUBSET FileSystems
    BY DEF FileSystems
  <2> QED BY <1>1, <2>2, <2>3, ProbeStep DEF ProbeBootSector, Probing
<1>2. CASE ProbeExt
  <2>1. dpc = "ext"
    BY <1>2 DEF ProbeExt, Probe
  <2>2. ToCome \ ExtFs = {"btrfs", "swap"}
    BY <2>1 DEF ToCome, ExtFs
  <2>3. ExtFs \in SUBSET FileSystems
    BY DEF FileSystems
  <2> QED BY <1>2, <2>2, <2>3, ProbeStep DEF ProbeExt, Probing
<1>3. CASE ProbeBtrfs
  <2>1. dpc = "btrfs"
    BY <1>3 DEF ProbeBtrfs, Probe
  <2>2. ToCome \ {"btrfs"} = {"swap"}
    BY <2>1 DEF ToCome
  <2>3. {"btrfs"} \in SUBSET FileSystems
    BY DEF FileSystems
  <2> QED BY <1>3, <2>2, <2>3, ProbeStep DEF ProbeBtrfs, Probing
<1>4. CASE ProbeSwap
  <2>1. dpc = "swap"
    BY <1>4 DEF ProbeSwap, Probe
  <2>2. ToCome \ {"swap"} = {}
    BY <2>1 DEF ToCome
  <2>3. {"swap"} \in SUBSET FileSystems
    BY DEF FileSystems
  <2> QED BY <1>4, <2>2, <2>3, ProbeStep DEF ProbeSwap, Probing
<1> QED BY <1>1, <1>2, <1>3, <1>4

LEMMA CountStep ==
  ASSUME DetectorInv, CountPartition
  PROVE  DetectorInv'
<1>1. /\ dpc = "count" /\ dpc' = "partition" /\ current' = current + 1
      /\ UNCHANGED <<disk, slot, base, lba, links, parts, scheme, failure>>
  BY DEF CountPartition, walkVars
<1>2. /\ DetectorTypes /\ TableRead /\ Probed /\ failure = "none"
      /\ disk \in Disks /\ parts \in Seq(PartitionType) /\ current \in Nat \ {0}
      /\ Len(parts) \in Nat /\ DOMAIN parts = 1 .. Len(parts)
      /\ \A p \in DOMAIN parts : p \in Nat /\ parts[p] \in PartitionType
  BY <1>1, BehindWas
<1>3. \A q : Completed(q)' = Completed(q)
  BY <1>1, TablesSame
<1>4. TableRead'
  BY <1>1, <1>2, FoundSame, TablesSame DEF TableRead
<1>5. DetectorTypes'
  BY <1>1, <1>2 DEF DetectorTypes, BehindTable
<1>6. /\ dpc' \in BehindTable \ {"between"} /\ dpc' \notin Probing \cup {"count"}
      /\ dpc' # "done"
  BY <1>1 DEF BehindTable, Probing
<1>7. scheme # "none" =>
        \A p \in DOMAIN parts :
          /\ p < current + 1 => parts[p] = Completed(parts[p])
          /\ p > current + 1 \/ p = current + 1 => parts[p].fs = "unknown"
  BY <1>1, <1>2 DEF Probed
<1>8. Probed'
  BY <1>1, <1>3, <1>6, <1>7 DEF Probed
<1> QED BY <1>4, <1>5, <1>6, <1>8, BehindIs

LEMMA DetectorInvStep == DetectorInv /\ [Next]_vars => DetectorInv'
<1> SUFFICES ASSUME DetectorInv, [Next]_vars PROVE DetectorInv'
  OBVIOUS
<1>1. CASE DetectTable
  BY <1>1, CheckStep, HeaderStep, GptStep, GptEntryStep, MbrStep, EndOfMbrStep, EbrStep,
     ChainTooLongStep DEF DetectTable, Detecting
<1>2. CASE DetectFileSystems
  BY <1>2, CheckStep, PartitionStep, ProbesStep DEF DetectFileSystems, Detecting
<1>3. CASE Increment
  BY <1>3, CountStep DEF Increment
<1>4. CASE Begin \/ Backend \/ Detect \/ Guest \/ Report
  <2>1. UNCHANGED detectorVars
    BY <1>4 DEF Begin, Backend, Detect, Guest, Report, EnterStage
  <2> QED BY <2>1, DetectorStill
<1>5. CASE Metadata \/ Identify \/ OpenBackend \/ Detected \/ Analyzed \/ Finish
  <2>1. UNCHANGED detectorVars
    BY <1>5 DEF Metadata, Identify, OpenBackend, Detected, Analyzed, Finish
  <2> QED BY <2>1, DetectorStill
<1>6. CASE AnalyzeGuest
  <2>1. UNCHANGED detectorVars
    BY <1>6 DEF AnalyzeGuest, Analyzing
  <2> QED BY <2>1, DetectorStill
<1>7. CASE EngineCancel \/ ProgressCancel \/ ProgressCancelLink
  <2>1. UNCHANGED detectorVars
    BY <1>7 DEF EngineCancel, ProgressCancel, ProgressCancelLink
  <2> QED BY <2>1, DetectorStill
<1>8. CASE UNCHANGED vars
  BY <1>8, DetectorStill DEF vars
<1> QED BY <1>1, <1>2, <1>3, <1>4, <1>5, <1>6, <1>7, <1>8 DEF Next, Step

LEMMA DetectorInvInit == Init => DetectorInv
<1> SUFFICES ASSUME Init PROVE DetectorInv
  OBVIOUS
<1>1. /\ disk \in Disks /\ dpc = "entry" /\ slot = 1 /\ base = 0 /\ lba = 0 /\ links = 0
      /\ parts = <<>> /\ current = 1 /\ scheme = "none" /\ failure = "none"
  BY DEF Init, DetectorInit
<1>2. MaxEbr \in Nat
  BY DetectorAssumption
<1>3. DetectorTypes
  BY <1>1, <1>2 DEF DetectorTypes
<1>4. InTable /\ Probed /\ dpc \notin BehindTable
  BY <1>1 DEF InTable, Probed, BehindTable, Probing
<1> QED BY <1>3, <1>4 DEF DetectorInv

\* A detector that succeeds has found exactly the partitions that the table of
\* the disk declares, each with the file system that starts there, and no more of
\* them than the table has room for: for every disk (chains of extended boot
\* records that are cyclic, or too long, included), whatever the reads do and
\* whenever the inspection is cancelled.
THEOREM PartitionsAreExact == Spec => []PartitionsExact
<1>1. Init => DetectorInv
  BY DetectorInvInit
<1>2. DetectorInv /\ [Next]_vars => DetectorInv'
  BY DetectorInvStep
<1>3. DetectorInv => PartitionsExact
  <2> SUFFICES ASSUME DetectorInv, dpc = "done", failure = "none" PROVE PartitionsExact
    BY DEF PartitionsExact
  <2>1. DetectorTypes /\ Probed /\ TableRead
    BY DEF DetectorInv, BehindTable
  <2>2. /\ disk \in Disks /\ parts \in Seq(PartitionType) /\ Len(parts) \in Nat
        /\ DOMAIN parts = 1 .. Len(parts) /\ current \in Nat /\ current > Len(parts)
        /\ scheme \in {"none", "gpt", "mbr"}
    BY <2>1 DEF DetectorTypes, Probed
  <2>3. \A p \in DOMAIN parts : p < current
    BY <2>2
  <2>4. scheme # "none" => \A p \in DOMAIN parts : parts[p] = Completed(parts[p])
    BY <2>1, <2>3 DEF Probed
  <2>5. scheme # "none" => {parts[p] : p \in DOMAIN parts} = Found
    BY <2>4 DEF Found
  <2>6. Cardinality(Primary) + MaxEbr * Cardinality(Extended) \in Nat
    <3>1. RoomUpTo(4 + 1) \in Nat
      BY <2>2, NextEntry
    <3>2. RoomUpTo(5) \in Nat
      BY <3>1
    <3> QED BY <3>2, AllEntries
  <2>7. CASE scheme = "gpt"
    BY <2>1, <2>5, <2>7 DEF TableRead, PartitionsExact
  <2>8. CASE scheme = "mbr"
    <3>1. /\ {parts[p] : p \in DOMAIN parts} = MbrDeclares
          /\ Len(parts) <= Cardinality(Primary) + MaxEbr * Cardinality(Extended)
      BY <2>1, <2>5, <2>8 DEF TableRead
    <3>2. Len(parts) <= Cardinality(Primary) + MaxEbr * Cardinality(Extended) + 1
      BY <2>2, <2>6, <3>1
    <3> QED BY <2>8, <3>1, <3>2 DEF PartitionsExact
  <2>9. CASE scheme = "none"
    <3>1. Len(parts) = 1 /\ parts[1].start = 0
      BY <2>1, <2>9 DEF TableRead
    <3>2. Len(parts) <= Cardinality(Primary) + MaxEbr * Cardinality(Extended) + 1
      BY <2>6, <3>1
    <3> QED BY <2>9, <3>1, <3>2 DEF PartitionsExact
  <2> QED BY <2>2, <2>7, <2>8, <2>9
<1> QED BY <1>1, <1>2, <1>3, PTL DEF Spec

-----------------------------------------------------------------------------
(* Cancellation. *)

\* Whoever has cancelled has set the token, and only an inspection that is over has
\* a result.
CancelInv ==
  /\ canceller = "returned" => token
  /\ pc # "done" => result = "none"

\* The last look at the token is yet to come, or it has been met.
CheckAhead == canceller = "returned" /\ token /\ pc # "finish" /\ result # "ok"

LEMMA CancelStep ==
  /\ CancelInv /\ [Next]_vars => CancelInv'
  /\ CheckAhead /\ [Next]_vars => CheckAhead'
<1>1. ASSUME UNCHANGED <<pc, cancelVars, result>>
      PROVE  (CancelInv => CancelInv') /\ (CheckAhead => CheckAhead')
  BY <1>1, Zenon DEF CancelInv, CheckAhead, cancelVars
<1>2. ASSUME UNCHANGED cancelVars, Goto("begin") \/ Goto("backend") \/ Goto("detect")
                                     \/ Goto("guest") \/ Goto("report"), pc # "done"
      PROVE  (CancelInv => CancelInv') /\ (CheckAhead => CheckAhead')
  BY <1>2, Zenon DEF CancelInv, CheckAhead, cancelVars, Goto
<1>3. ASSUME UNCHANGED cancelVars, NEW e, Return(e), e # "ok"
      PROVE  (CancelInv => CancelInv') /\ (CheckAhead => CheckAhead')
  BY <1>3, Zenon DEF CancelInv, CheckAhead, cancelVars, Return
<1>4. ASSUME NEW from, NEW stage_, NEW ps, NEW to, EnterStage(from, stage_, ps, to),
             from # "done"
      PROVE  (CancelInv => CancelInv') /\ (CheckAhead => CheckAhead')
  <2>1. CASE IsCancelled
    BY <1>3, <1>4, <2>1, Zenon DEF EnterStage
  <2>2. CASE ~IsCancelled
    <3>1. ~token /\ Goto(to) /\ UNCHANGED cancelVars /\ pc = from
      BY <1>4, <2>2, Zenon DEF EnterStage, IsCancelled
    <3> QED BY <1>4, <3>1, Zenon DEF CancelInv, CheckAhead, cancelVars, Goto
  <2> QED BY <2>1, <2>2
<1> SUFFICES ASSUME [Next]_vars
             PROVE  (CancelInv => CancelInv') /\ (CheckAhead => CheckAhead')
  BY Zenon
<1>5. CASE Begin \/ Backend \/ Detect \/ Guest \/ Report
  BY <1>4, <1>5, Zenon DEF Begin, Backend, Detect, Guest, Report
<1>6. CASE Metadata \/ Identify
  <2>1. /\ UNCHANGED cancelVars /\ pc # "done"
        /\ \/ Goto("begin") \/ Goto("backend")
           \/ \E e \in {"image_not_found", "io"} : Return(e)
    BY <1>6 DEF Metadata, Identify
  <2> QED BY <1>2, <1>3, <2>1
<1>7. CASE OpenBackend
  <2>1. /\ UNCHANGED cancelVars /\ pc # "done"
        /\ Goto("detect") \/ \E e : Return(e) /\ e # "ok"
    BY <1>7 DEF OpenBackend
  <2> QED BY <1>2, <1>3, <2>1
<1>8. CASE Detected
  <2>1. /\ UNCHANGED cancelVars /\ pc # "done"
        /\ Goto("guest") \/ Return("cancelled") \/ Return("io")
    BY <1>8 DEF Detected
  <2> QED BY <1>2, <1>3, <2>1
<1>9. CASE Analyzed
  <2>1. UNCHANGED cancelVars /\ pc # "done" /\ Goto("report")
    BY <1>9 DEF Analyzed
  <2> QED BY <1>2, <2>1
<1>10. CASE Finish
  <2>1. UNCHANGED cancelVars /\ pc = "finish" /\ pc' = "done"
    BY <1>10 DEF Finish, Return
  <2> QED BY <2>1, Zenon DEF CancelInv, CheckAhead, cancelVars
<1>11. CASE DetectTable \/ DetectFileSystems \/ Increment \/ AnalyzeGuest
  <2>1. UNCHANGED <<pc, cancelVars, result>>
    BY <1>11, Zenon DEF DetectTable, DetectFileSystems, Detecting, Increment, AnalyzeGuest, Analyzing
  <2> QED BY <1>1, <2>1
<1>12. CASE EngineCancel \/ ProgressCancel \/ ProgressCancelLink
  BY <1>12, Zenon DEF EngineCancel, ProgressCancel, ProgressCancelLink, CancelInv, CheckAhead
<1>13. CASE UNCHANGED vars
  <2>1. UNCHANGED <<pc, cancelVars, result>>
    BY <1>13 DEF vars
  <2> QED BY <1>1, <2>1
<1> QED
  BY <1>5, <1>6, <1>7, <1>8, <1>9, <1>10, <1>11, <1>12, <1>13 DEF Next, Step

\* A call to cancel() that returned before the last look at the token keeps the
\* inspection from ending in a report, at whatever step it came: the safety half of
\* CancelTakesEffect.
THEOREM CancelledGivesNoReport == Spec => NoReportOnceCancelled
<1>1. Init => CancelInv
  BY DEF Init, CancelInv
<1>2. CancelInv /\ canceller = "returned" /\ pc \notin {"finish", "done"} => CheckAhead
  BY Zenon DEF CancelInv, CheckAhead
<1>3. CheckAhead => result # "ok"
  BY DEF CheckAhead
<1> QED BY <1>1, <1>2, <1>3, CancelStep, PTL DEF Spec, NoReportOnceCancelled

-----------------------------------------------------------------------------
(* The order of the list of programs. *)

LEMMA SeqElement ==
  ASSUME NEW S, NEW s \in Seq(S)
  PROVE  \A j \in DOMAIN s : s[j] \in S
OBVIOUS

\* Induction, as the existence of a least counterexample.
LEMMA Least ==
  ASSUME NEW T, T \subseteq Nat, T # {}
  PROVE  \E n \in T : \A m \in T : n <= m
<1> DEFINE R == OpToRel(<, Nat)
<1>1. IsWellFoundedOn(R, Nat)
  BY NatLessThanWellFounded
<1>2. \A x, y \in Nat : <<y, x>> \in R <=> y < x
  BY DEF OpToRel
<1> HIDE DEF R
<1>3. PICK x \in T : \A y \in T : ~(<<y, x>> \in R)
  BY <1>1, WFMin
<1>4. ASSUME NEW y \in T PROVE x <= y
  <2>1. x \in Nat /\ y \in Nat /\ ~(<<y, x>> \in R)
    BY <1>3
  <2>2. ~(y < x)
    BY <1>2, <2>1
  <2> QED BY <2>1, <2>2
<1> QED BY <1>4

\* The members of S in front of i.
InFront(S, R, i) == {j \in S : <<j, i>> \in R}
IsOrder(S, R) ==
  /\ \A x \in S : <<x, x>> \notin R
  /\ \A x, y, z \in S : <<x, y>> \in R /\ <<y, z>> \in R => <<x, z>> \in R
  /\ \A x, y \in S : x = y \/ <<x, y>> \in R \/ <<y, x>> \in R

\* A later member has more members in front of it, and none has all of them.
LEMMA RankGrows ==
  ASSUME NEW S, NEW R, IsFiniteSet(S), IsOrder(S, R), NEW a \in S
  PROVE  /\ Cardinality(InFront(S, R, a)) \in Nat /\ Cardinality(S) \in Nat
         /\ Cardinality(InFront(S, R, a)) < Cardinality(S)
         /\ \A b \in S : <<a, b>> \in R =>
              Cardinality(InFront(S, R, a)) < Cardinality(InFront(S, R, b))
<1>1. \A b \in S : /\ IsFiniteSet(InFront(S, R, b)) /\ Cardinality(InFront(S, R, b)) \in Nat
                   /\ Cardinality(S) \in Nat
  <2> TAKE b \in S
  <2>1. InFront(S, R, b) \in SUBSET S
    BY DEF InFront
  <2>2. IsFiniteSet(InFront(S, R, b))
    BY <2>1, FS_Subset
  <2> QED BY <2>2, FS_CardinalityType
<1>2. Cardinality(InFront(S, R, a)) < Cardinality(S)
  <2>1. InFront(S, R, a) \in SUBSET S /\ a \notin InFront(S, R, a)
    BY DEF InFront, IsOrder
  <2>2. /\ Cardinality(InFront(S, R, a)) <= Cardinality(S)
        /\ Cardinality(S) = Cardinality(InFront(S, R, a)) => S = InFront(S, R, a)
    BY <2>1, FS_Subset
  <2> QED BY <1>1, <2>1, <2>2
<1>3. ASSUME NEW b \in S, <<a, b>> \in R
      PROVE  Cardinality(InFront(S, R, a)) < Cardinality(InFront(S, R, b))
  <2>1. /\ InFront(S, R, a) \in SUBSET InFront(S, R, b)
        /\ a \notin InFront(S, R, a) /\ a \in InFront(S, R, b)
    BY <1>3 DEF InFront, IsOrder
  <2>2. /\ Cardinality(InFront(S, R, a)) <= Cardinality(InFront(S, R, b))
        /\ Cardinality(InFront(S, R, b)) = Cardinality(InFront(S, R, a)) =>
             InFront(S, R, b) = InFront(S, R, a)
    BY <1>1, <2>1, FS_Subset
  <2> QED BY <1>1, <2>1, <2>2
<1> QED BY <1>1, <1>2, <1>3

\* InOrder takes every member once, in the order of R.
LEMMA Ordered ==
  ASSUME NEW S, NEW R, IsFiniteSet(S), IsOrder(S, R)
  PROVE  /\ Cardinality(S) \in Nat /\ InOrder(S, R) \in [1 .. Cardinality(S) -> S]
         /\ \A i \in S : \E k \in 1 .. Cardinality(S) : InOrder(S, R)[k] = i
         /\ \A k, l \in 1 .. Cardinality(S) :
              k < l => <<InOrder(S, R)[k], InOrder(S, R)[l]>> \in R
<1> DEFINE n == Cardinality(S)
           T == 0 .. n - 1
           f == [i \in S |-> Cardinality(InFront(S, R, i))]
           e == InOrder(S, R)
<1>1. n \in Nat
  BY FS_CardinalityType
<1>2. /\ IsFiniteSet(T) /\ Cardinality(T) = n
  <2>1. 0 \in Int /\ n - 1 \in Int
    BY <1>1
  <2>2. IsFiniteSet(T) /\ Cardinality(T) = IF 0 > n - 1 THEN 0 ELSE (n - 1) - 0 + 1
    BY <2>1, FS_Interval
  <2> QED BY <1>1, <2>2
<1>3. \A i \in S : /\ f[i] \in Nat /\ f[i] < n
                   /\ \A j \in S : <<i, j>> \in R => f[i] < f[j]
  BY RankGrows
<1>4. e = [k \in 1 .. n |-> CHOOSE i \in S : Cardinality(InFront(S, R, i)) = k - 1]
  BY Zenon DEF InOrder, InFront
<1>0. \A i \in S : f[i] = Cardinality(InFront(S, R, i))
  OBVIOUS
<1> HIDE DEF n, f, e
<1>5. \A i \in S : f[i] \in T /\ f[i] + 1 \in 1 .. n
  BY <1>1, <1>3
<1>6. \A i, j \in S : f[i] = f[j] => i = j
  <2> SUFFICES ASSUME NEW i \in S, NEW j \in S, i # j PROVE f[i] # f[j]
    OBVIOUS
  <2>1. <<i, j>> \in R \/ <<j, i>> \in R
    BY DEF IsOrder
  <2>2. f[i] \in Nat /\ f[j] \in Nat /\ (f[i] < f[j] \/ f[j] < f[i])
    BY <1>3, <2>1
  <2> QED BY <2>2
<1>7. f \in Injection(S, T)
  <2>1. f \in [S -> T]
    BY <1>5 DEF f
  <2> QED BY <1>6, <2>1 DEF Injection, IsInjective
<1>8. f \in Surjection(S, T)
  BY <1>2, <1>7, FS_Injection DEF n
<1>9. \A k \in 1 .. n : k - 1 \in T
  BY <1>1
<1>10. \A k \in 1 .. n : \E i \in S : f[i] = k - 1
  BY <1>8, <1>9 DEF Surjection
<1>11. \A k \in 1 .. n : e[k] \in S /\ f[e[k]] = k - 1
  <2> TAKE k \in 1 .. n
  <2>1. \E i \in S : Cardinality(InFront(S, R, i)) = k - 1
    BY <1>0, <1>10
  <2>2. e[k] = CHOOSE i \in S : Cardinality(InFront(S, R, i)) = k - 1
    BY <1>4
  <2>3. e[k] \in S /\ Cardinality(InFront(S, R, e[k])) = k - 1
    BY <2>1, <2>2
  <2> QED BY <1>0, <2>3
<1>12. \A i \in S : e[f[i] + 1] = i
  <2> TAKE i \in S
  <2>1. f[i] + 1 \in 1 .. n /\ f[i] \in Nat
    BY <1>3, <1>5
  <2>2. e[f[i] + 1] \in S /\ f[e[f[i] + 1]] = (f[i] + 1) - 1
    BY <1>11, <2>1
  <2>3. f[e[f[i] + 1]] = f[i]
    BY <2>1, <2>2
  <2> QED BY <1>6, <2>2, <2>3
<1>13. \A k, l \in 1 .. n : k < l => <<e[k], e[l]>> \in R
  <2> SUFFICES ASSUME NEW k \in 1 .. n, NEW l \in 1 .. n, k < l PROVE <<e[k], e[l]>> \in R
    OBVIOUS
  <2>1. e[k] \in S /\ e[l] \in S /\ f[e[k]] = k - 1 /\ f[e[l]] = l - 1
    BY <1>11
  <2>2. f[e[k]] < f[e[l]]
    BY <1>1, <2>1
  <2>3. e[k] # e[l] /\ <<e[l], e[k]>> \notin R
    BY <1>3, <2>1, <2>2
  <2> QED BY <2>1, <2>3 DEF IsOrder
<1>14. e \in [1 .. n -> S]
  BY <1>4, <1>11
<1>15. \A i \in S : \E k \in 1 .. n : e[k] = i
  BY <1>5, <1>12
<1> QED BY <1>1, <1>13, <1>14, <1>15 DEF n, e

\* The entries at some of the places of a sequence, in their order.
LEMMA KeptIs ==
  ASSUME NEW S, NEW s \in Seq(S), NEW I \in SUBSET DOMAIN s
  PROVE  /\ Kept(s, I) \in Seq(S) /\ Len(Kept(s, I)) = Cardinality(I)
         /\ Cardinality(I) \in Nat
         /\ \E at \in [1 .. Cardinality(I) -> I] :
              /\ \A i \in I : \E k \in 1 .. Cardinality(I) : at[k] = i
              /\ \A k, l \in 1 .. Cardinality(I) : k < l => at[k] < at[l]
              /\ \A k \in 1 .. Cardinality(I) : Kept(s, I)[k] = s[at[k]]
<1> DEFINE R == {p \in I \X I : p[1] < p[2]}
           n == Cardinality(I)
           at == InOrder(I, R)
<1>1. IsFiniteSet(I) /\ I \subseteq Nat
  <2>1. DOMAIN s = 1 .. Len(s) /\ Len(s) \in Nat
    OBVIOUS
  <2>2. IsFiniteSet(1 .. Len(s))
    BY <2>1, FS_Interval
  <2> QED BY <2>1, <2>2, FS_Subset
<1>2. \A x, y \in I : <<x, y>> \in R <=> x < y
  OBVIOUS
<1>3. IsOrder(I, R)
  <2>1. \A x, y \in I : x \in Nat /\ y \in Nat
    BY <1>1
  <2> HIDE DEF R
  <2> QED BY <1>2, <2>1 DEF IsOrder
<1>4. /\ n \in Nat /\ at \in [1 .. n -> I]
      /\ \A i \in I : \E k \in 1 .. n : at[k] = i
      /\ \A k, l \in 1 .. n : k < l => <<at[k], at[l]>> \in R
  BY <1>1, <1>3, Ordered
<1>5. Kept(s, I) = [k \in 1 .. n |-> s[at[k]]]
  BY DEF Kept
<1> HIDE DEF R, n, at
<1>6. \A k, l \in 1 .. n : k < l => at[k] < at[l]
  BY <1>2, <1>4
<1>7. \A k \in 1 .. n : s[at[k]] \in S
  BY <1>4
<1>8. Kept(s, I) \in Seq(S) /\ Len(Kept(s, I)) = n
  BY <1>4, <1>5, <1>7
<1>9. \A k \in 1 .. n : Kept(s, I)[k] = s[at[k]]
  BY <1>5
<1> QED BY <1>4, <1>6, <1>8, <1>9 DEF n

\* sort_by_key gives the same entries, in the order of their keys.
LEMMA SortIs ==
  ASSUME NEW S, NEW s \in Seq(S), NEW key \in [DOMAIN s -> Int]
  PROVE  /\ SortByKey(s, key) \in Seq(S) /\ DOMAIN SortByKey(s, key) = DOMAIN s
         /\ \E at \in [DOMAIN s -> DOMAIN s] :
              /\ \A i \in DOMAIN s : \E k \in DOMAIN s : at[k] = i
              /\ \A k, l \in DOMAIN s : k < l => key[at[k]] <= key[at[l]]
              /\ \A k \in DOMAIN s : SortByKey(s, key)[k] = s[at[k]]
<1> DEFINE I == DOMAIN s
           R == {p \in I \X I : \/ key[p[1]] < key[p[2]]
                                \/ key[p[1]] = key[p[2]] /\ p[1] < p[2]}
           at == InOrder(I, R)
<1>1. I = 1 .. Len(s) /\ Len(s) \in Nat /\ I \subseteq Nat
  OBVIOUS
<1>2. IsFiniteSet(I) /\ Cardinality(I) = Len(s)
  <2>1. /\ IsFiniteSet(1 .. Len(s))
        /\ Cardinality(1 .. Len(s)) = IF 1 > Len(s) THEN 0 ELSE Len(s) - 1 + 1
    BY <1>1, FS_Interval
  <2> QED BY <1>1, <2>1
<1>3. \A x, y \in I :
        <<x, y>> \in R <=> (key[x] < key[y] \/ (key[x] = key[y] /\ x < y))
  OBVIOUS
<1>4. SortByKey(s, key) = [k \in I |-> s[at[k]]]
  BY DEF SortByKey
<1> HIDE DEF R
<1>5. IsOrder(I, R)
  <2>1. \A x \in I : x \in Nat /\ key[x] \in Int
    BY <1>1
  <2> HIDE DEF I
  <2>2. \A x \in I : <<x, x>> \notin R
    BY <1>3, <2>1
  <2>3. ASSUME NEW x \in I, NEW y \in I, NEW z \in I, <<x, y>> \in R, <<y, z>> \in R
        PROVE  <<x, z>> \in R
    <3>1. /\ x \in Nat /\ y \in Nat /\ z \in Nat
          /\ key[x] \in Int /\ key[y] \in Int /\ key[z] \in Int
      BY <2>1
    <3>2. /\ key[x] < key[y] \/ (key[x] = key[y] /\ x < y)
          /\ key[y] < key[z] \/ (key[y] = key[z] /\ y < z)
      BY <1>3, <2>3
    <3>3. key[x] < key[z] \/ (key[x] = key[z] /\ x < z)
      BY <3>1, <3>2
    <3> QED BY <1>3, <3>3
  <2>4. ASSUME NEW x \in I, NEW y \in I PROVE x = y \/ <<x, y>> \in R \/ <<y, x>> \in R
    <3>1. x \in Nat /\ y \in Nat /\ key[x] \in Int /\ key[y] \in Int
      BY <2>1
    <3> QED BY <1>3, <3>1
  <2> QED BY <2>2, <2>3, <2>4 DEF IsOrder
<1>6. /\ at \in [I -> I]
      /\ \A i \in I : \E k \in I : at[k] = i
      /\ \A k, l \in I : k < l => <<at[k], at[l]>> \in R
  <2>1. 1 .. Cardinality(I) = I
    BY <1>1, <1>2
  <2> HIDE DEF I
  <2>2. /\ at \in [1 .. Cardinality(I) -> I]
        /\ \A i \in I : \E k \in 1 .. Cardinality(I) : at[k] = i
        /\ \A k, l \in 1 .. Cardinality(I) : k < l => <<at[k], at[l]>> \in R
    BY <1>2, <1>5, Ordered
  <2> QED BY <2>1, <2>2
<1> HIDE DEF at
<1>7. \A k, l \in I : k < l => key[at[k]] <= key[at[l]]
  <2> SUFFICES ASSUME NEW k \in I, NEW l \in I, k < l PROVE key[at[k]] <= key[at[l]]
    OBVIOUS
  <2>1. at[k] \in I /\ at[l] \in I /\ <<at[k], at[l]>> \in R
    BY <1>6
  <2>2. key[at[k]] < key[at[l]] \/ key[at[k]] = key[at[l]]
    BY <1>3, <2>1
  <2>3. key[at[k]] \in Int /\ key[at[l]] \in Int
    BY <2>1
  <2> QED BY <2>2, <2>3
<1>8. \A k \in I : s[at[k]] \in S
  BY <1>6
<1>9. SortByKey(s, key) \in Seq(S) /\ DOMAIN SortByKey(s, key) = I
  BY <1>1, <1>4, <1>8
<1>10. \A k \in I : SortByKey(s, key)[k] = s[at[k]]
  BY <1>4
<1> QED BY <1>6, <1>7, <1>9, <1>10

\* dedup_by on a list in the order of the names: every entry stays, or one like it,
\* and no two neighbours are alike.
LEMMA DedupIs ==
  ASSUME NEW S, NEW t \in Seq(S), \A p \in S : p.name \in Int,
         \A k, l \in DOMAIN t : k < l => t[k].name <= t[l].name
  PROVE  /\ Dedup(t) \in Seq(S) /\ ToSet(Dedup(t)) \subseteq ToSet(t)
         /\ \A i \in DOMAIN t : \E p \in ToSet(Dedup(t)) : SameProgram(p, t[i])
         /\ \A k \in 1 .. Len(Dedup(t)) - 1 :
              /\ Dedup(t)[k].name <= Dedup(t)[k + 1].name
              /\ ~SameProgram(Dedup(t)[k], Dedup(t)[k + 1])
<1> DEFINE I == {i \in DOMAIN t : i = 1 \/ ~SameProgram(t[i - 1], t[i])}
           n == Cardinality(I)
           d == Dedup(t)
<1>1. DOMAIN t = 1 .. Len(t) /\ Len(t) \in Nat /\ \A i \in DOMAIN t : i \in Nat /\ t[i] \in S
  OBVIOUS
<1>2. d = Kept(t, I) /\ I \in SUBSET DOMAIN t
  BY DEF Dedup
<1>3. \A i \in DOMAIN t : i \in I <=> (i = 1 \/ ~SameProgram(t[i - 1], t[i]))
  OBVIOUS
<1> HIDE DEF I, d
<1>4. /\ d \in Seq(S) /\ Len(d) = n /\ n \in Nat
      /\ \E at \in [1 .. n -> I] :
           /\ \A i \in I : \E k \in 1 .. n : at[k] = i
           /\ \A k, l \in 1 .. n : k < l => at[k] < at[l]
           /\ \A k \in 1 .. n : d[k] = t[at[k]]
  <2>1. /\ Kept(t, I) \in Seq(S) /\ Len(Kept(t, I)) = Cardinality(I) /\ Cardinality(I) \in Nat
        /\ \E at \in [1 .. Cardinality(I) -> I] :
             /\ \A i \in I : \E k \in 1 .. Cardinality(I) : at[k] = i
             /\ \A k, l \in 1 .. Cardinality(I) : k < l => at[k] < at[l]
             /\ \A k \in 1 .. Cardinality(I) : Kept(t, I)[k] = t[at[k]]
    BY <1>2, KeptIs, ZenonT(60)
  <2> QED BY <1>2, <2>1
<1> HIDE DEF n
<1>5. PICK at \in [1 .. n -> I] :
        /\ \A i \in I : \E k \in 1 .. n : at[k] = i
        /\ \A k, l \in 1 .. n : k < l => at[k] < at[l]
        /\ \A k \in 1 .. n : d[k] = t[at[k]]
  BY <1>4
<1>6. \A k \in 1 .. n : at[k] \in I /\ at[k] \in DOMAIN t /\ at[k] \in Nat
  BY <1>1, <1>2, <1>5
<1>7. DOMAIN d = 1 .. n
  BY <1>4
<1>8. ToSet(d) = {d[k] : k \in 1 .. n} /\ ToSet(t) = {t[i] : i \in DOMAIN t}
  BY <1>7 DEF ToSet
<1>9. ToSet(d) \subseteq ToSet(t)
  BY <1>5, <1>6, <1>8
<1>10. ASSUME NEW i \in DOMAIN t PROVE \E p \in ToSet(d) : SameProgram(p, t[i])
  <2> DEFINE T == {j \in 1 .. i : \A m \in j .. i : SameProgram(t[m], t[i])}
  <2>1. i \in Nat /\ i \in T /\ T \subseteq Nat
    BY <1>1 DEF SameProgram
  <2>2. PICK j \in T : \A m \in T : j <= m
    BY <2>1, Least
  <2>3. j \in 1 .. i /\ j \in Nat /\ j \in DOMAIN t /\ SameProgram(t[j], t[i])
    <3>1. j \in 1 .. i /\ \A m \in j .. i : SameProgram(t[m], t[i])
      OBVIOUS
    <3>2. j \in j .. i
      BY <2>1, <3>1
    <3> QED BY <1>1, <3>1, <3>2
  <2>4. j \in I
    <3> SUFFICES ASSUME j # 1, SameProgram(t[j - 1], t[j]) PROVE FALSE
      BY <1>3, <2>3
    <3>1. j - 1 \in 1 .. i
      BY <2>1, <2>3
    <3>2. SameProgram(t[j - 1], t[i])
      BY <2>3 DEF SameProgram
    <3>3. \A m \in j - 1 .. i : m = j - 1 \/ m \in j .. i
      BY <2>1, <2>3
    <3>4. j - 1 \in T
      BY <3>1, <3>2, <3>3
    <3> HIDE DEF T
    <3> QED BY <2>2, <2>3, <3>4
  <2> HIDE DEF T
  <2>5. PICK k \in 1 .. n : at[k] = j
    BY <1>5, <2>4
  <2>6. d[k] = t[j] /\ d[k] \in ToSet(d)
    BY <1>5, <1>8, <2>5
  <2> QED BY <2>3, <2>6
<1>11. ASSUME NEW k \in 1 .. n - 1
       PROVE  d[k].name <= d[k + 1].name /\ ~SameProgram(d[k], d[k + 1])
  <2> DEFINE a == at[k]
             b == at[k + 1]
             T == {j \in a .. b - 1 : ~SameProgram(t[j], t[a])}
  <2>1. k \in 1 .. n /\ k + 1 \in 1 .. n /\ k < k + 1 /\ k \in Nat
    BY <1>4
  <2>2. /\ a \in I /\ b \in I /\ a \in Nat /\ b \in Nat /\ a < b /\ a \in DOMAIN t /\ b \in DOMAIN t
        /\ d[k] = t[a] /\ d[k + 1] = t[b]
    BY <1>5, <1>6, <2>1
  <2>3. ASSUME NEW j \in I, a < j, j < b PROVE FALSE
    <3>1. PICK l \in 1 .. n : at[l] = j
      BY <1>5
    <3>2. l \in Nat /\ at[l] \in Nat
      BY <1>4, <1>6, <3>1
    <3>3. ~(l <= k)
      <4>1. l < k => at[l] < at[k]
        BY <1>5, <2>1
      <4>2. l = k => at[l] = a
        OBVIOUS
      <4> HIDE DEF a, b
      <4> QED BY <2>1, <2>2, <2>3, <3>1, <3>2, <4>1, <4>2 DEF a
    <3>4. ~(l >= k + 1)
      <4>1. l > k + 1 => at[k + 1] < at[l]
        BY <1>5, <2>1
      <4>2. l = k + 1 => at[l] = b
        OBVIOUS
      <4> HIDE DEF a
      <4> QED BY <2>1, <2>2, <2>3, <3>1, <3>2, <4>1, <4>2
    <3> QED BY <2>1, <3>2, <3>3, <3>4
  <2> HIDE DEF a, b
  <2>4. T = {}
    <3> SUFFICES ASSUME T # {} PROVE FALSE
      OBVIOUS
    <3>1. T \subseteq Nat
      BY <2>2
    <3>2. PICK j \in T : \A m \in T : j <= m
      BY <3>1, Least
    <3>3. j \in a .. b - 1 /\ ~SameProgram(t[j], t[a]) /\ j \in Nat
      BY <3>1
    <3>4. j # a
      BY <3>3 DEF SameProgram
    <3>5. a < j /\ j < b /\ j \in DOMAIN t /\ j - 1 \in a .. b - 1 /\ j # 1
      BY <1>1, <2>2, <3>3, <3>4
    <3>6. j - 1 \notin T
      <4>1. \A m \in T : m \in Nat
        BY <3>1
      <4> HIDE DEF T
      <4> QED BY <3>2, <3>3, <4>1
    <3>7. SameProgram(t[j - 1], t[a])
      BY <3>5, <3>6
    <3>8. j \notin I
      BY <2>3, <3>5
    <3>9. SameProgram(t[j - 1], t[j])
      BY <1>3, <3>5, <3>8
    <3> QED BY <3>3, <3>7, <3>9 DEF SameProgram
  <2>5. b - 1 \in a .. b - 1 /\ b # 1
    BY <1>1, <2>2
  <2>6. SameProgram(t[b - 1], t[a])
    BY <2>4, <2>5
  <2>7. ~SameProgram(t[b - 1], t[b])
    BY <1>3, <2>2, <2>5
  <2>8. ~SameProgram(t[a], t[b])
    BY <2>6, <2>7 DEF SameProgram
  <2> QED BY <2>2, <2>8
<1> QED BY <1>4, <1>9, <1>10, <1>11 DEF d

\* What the list of programs is made into: the same programs, by name.
LEMMA SortedProgramsAre ==
  ASSUME NEW S, NEW s \in Seq(S), \A p \in S : p.name \in Int
  PROVE  /\ SortedPrograms(s) \in Seq(S) /\ ToSet(SortedPrograms(s)) \subseteq ToSet(s)
         /\ \A e \in ToSet(s) : \E p \in ToSet(SortedPrograms(s)) : SameProgram(p, e)
         /\ \A k \in 1 .. Len(SortedPrograms(s)) - 1 :
              /\ SortedPrograms(s)[k].name <= SortedPrograms(s)[k + 1].name
              /\ ~SameProgram(SortedPrograms(s)[k], SortedPrograms(s)[k + 1])
<1>0. PICK key : key = [i \in DOMAIN s |-> s[i].name]
  OBVIOUS
<1> DEFINE t == SortByKey(s, key)
<1>1. \A i \in DOMAIN s : s[i] \in S /\ key[i] \in Int /\ key[i] = s[i].name
  BY <1>0
<1>2. SortedPrograms(s) = Dedup(t)
  BY <1>0 DEF SortedPrograms
<1>3. /\ t \in Seq(S) /\ DOMAIN t = DOMAIN s
      /\ \E at \in [DOMAIN s -> DOMAIN s] :
           /\ \A i \in DOMAIN s : \E k \in DOMAIN s : at[k] = i
           /\ \A k, l \in DOMAIN s : k < l => key[at[k]] <= key[at[l]]
           /\ \A k \in DOMAIN s : t[k] = s[at[k]]
  <2>0. key \in [DOMAIN s -> Int]
    BY <1>0, <1>1
  <2>1. /\ SortByKey(s, key) \in Seq(S) /\ DOMAIN SortByKey(s, key) = DOMAIN s
        /\ \E at \in [DOMAIN s -> DOMAIN s] :
             /\ \A i \in DOMAIN s : \E k \in DOMAIN s : at[k] = i
             /\ \A k, l \in DOMAIN s : k < l => key[at[k]] <= key[at[l]]
             /\ \A k \in DOMAIN s : SortByKey(s, key)[k] = s[at[k]]
    BY <2>0, SortIs, ZenonT(60)
  <2> QED BY <2>1
<1> HIDE DEF t
<1>4. PICK at \in [DOMAIN s -> DOMAIN s] :
        /\ \A i \in DOMAIN s : \E k \in DOMAIN s : at[k] = i
        /\ \A k, l \in DOMAIN s : k < l => key[at[k]] <= key[at[l]]
        /\ \A k \in DOMAIN s : t[k] = s[at[k]]
  BY <1>3
<1>5. \A k \in DOMAIN s : at[k] \in DOMAIN s /\ t[k].name = key[at[k]]
  BY <1>1, <1>4
<1>6. \A k, l \in DOMAIN t : k < l => t[k].name <= t[l].name
  BY <1>3, <1>4, <1>5
<1>7. ToSet(t) = ToSet(s)
  <2>1. ToSet(t) = {t[k] : k \in DOMAIN s} /\ ToSet(s) = {s[i] : i \in DOMAIN s}
    BY <1>3, Zenon DEF ToSet
  <2>2. \A k \in DOMAIN s : t[k] = s[at[k]] /\ at[k] \in DOMAIN s
    BY <1>4, <1>5
  <2>3. \A i \in DOMAIN s : \E k \in DOMAIN s : s[i] = t[k]
    <3> TAKE i \in DOMAIN s
    <3>1. PICK k \in DOMAIN s : at[k] = i
      BY <1>4
    <3> QED BY <2>2, <3>1
  <2>4. {t[k] : k \in DOMAIN s} \subseteq {s[i] : i \in DOMAIN s}
    BY <2>2
  <2>5. {s[i] : i \in DOMAIN s} \subseteq {t[k] : k \in DOMAIN s}
    BY <2>3
  <2> QED BY <2>1, <2>4, <2>5
<1>8. /\ Dedup(t) \in Seq(S) /\ ToSet(Dedup(t)) \subseteq ToSet(t)
      /\ \A i \in DOMAIN t : \E p \in ToSet(Dedup(t)) : SameProgram(p, t[i])
      /\ \A k \in 1 .. Len(Dedup(t)) - 1 :
           /\ Dedup(t)[k].name <= Dedup(t)[k + 1].name
           /\ ~SameProgram(Dedup(t)[k], Dedup(t)[k + 1])
  BY <1>3, <1>6, DedupIs
<1>9. \A e \in ToSet(t) : \E i \in DOMAIN t : e = t[i]
  BY DEF ToSet
<1> QED BY <1>2, <1>7, <1>8, <1>9

-----------------------------------------------------------------------------
(* The packages. *)

\* A file system that is told is the one that starts there.
Told ==
  \A p \in DOMAIN parts :
    parts[p].fs # "unknown" => parts[p].fs = FsAt(parts[p].start \div Sector)

\* The partitions that the Linux analyser may try.
ExtParts == {q \in PartitionType : q.fs \in ExtFs /\ q.fs = FsAt(q.start \div Sector)}

WindowsPlaces == {"find_system", "extract", "read_system", "open_software", "uninstall",
                  "system", "remount", "kernel", "license", "folders", "folder", "entries"}
\* The places of the Linux analyser: in front of the packages, on a volume or not
\* yet, at them, and behind them.
VolumePlaces == {"os_release", "hostname", "dpkg"}
BehindLines  == {"tool_files", "sort"}

\* An installed package as the list has it, and the stanza it comes from.
Package(r) ==
  [name |-> LineOf(r, "package", 0), version |-> LineOf(r, "version", ""),
   publisher |-> LineOf(r, "section", ""), source |-> "dpkg"]
Counts(r) == LineOf(r, "status", FALSE) /\ LineOf(r, "package", 0) # 0
StanzaOf(r) ==
  [name |-> LineOf(r, "package", 0), version |-> LineOf(r, "version", ""),
   section |-> LineOf(r, "section", ""), installed |-> LineOf(r, "status", FALSE)]

\* The packages whose stanza ends in front of line n.
InstalledUpTo(n) == {Package(r) : r \in {x \in Runs : x[2] < n /\ Counts(x)}}

IsBlank(i) == Contents.dpkg[i].key = "blank"

\* The lines from a on, in front of c, are of one stanza, and the first of them is
\* the stanza's first.
Begins(a, c) ==
  /\ \A i \in a .. c - 1 : ~IsBlank(i)
  /\ a = 1 \/ IsBlank(a - 1)

\* Tools with a version are one of these packages.
ToolsFrom(entries) ==
  info.tools.version # "" =>
    \E p \in entries : /\ p.name \in DOMAIN ToolNames
                       /\ ToolNames[p.name] = info.tools.kind
                       /\ p.version = info.tools.version

\* All of these packages are in the list, when it is wanted at all.
Collected(entries) ==
  /\ programs \in Seq(Installed)
  /\ Apps => ToSet(programs) = entries
  /\ ~Apps => programs = <<>>
  /\ ToolsFrom(entries)

\* The list at the next line: the stanzas that are over, and the one being read.
AtLine ==
  /\ cursor \in 1 .. Len(Contents.dpkg) + 1
  /\ \E a \in 1 .. cursor : /\ Begins(a, cursor)
                            /\ stanza = StanzaOf(<<a, cursor - 1>>)
                            /\ Collected(InstalledUpTo(a))

\* Where the analysers stand, and what they have.
PlacesInv ==
  /\ gpc \in WindowsPlaces \cup VolumePlaces \cup BehindLines
               \cup {"start", "superblock", "lines", "done"}
  /\ gpc # "start" => pc \in {"analyze", "report", "finish", "done"}
  /\ gpc \in WindowsPlaces => os = "windows"
  /\ gpc \in VolumePlaces \cup {"start", "superblock"} =>
       /\ programs = <<>> /\ "tools" \in DOMAIN info /\ info.tools = NoTools
       /\ cursor = 1 /\ stanza = NoStanza
  /\ gpc = "superblock" => candidates \in Seq(ExtParts)
  /\ gpc \in VolumePlaces \cup BehindLines \cup {"lines"} => IsLinuxVolume(Contents)
  /\ gpc \in BehindLines \cup {"lines"} => "tools" \in DOMAIN info

\* What is reported: nothing, or all of the packages.
ExactReport ==
  /\ programs # <<>> => Apps /\ ListsExactly(Installed)
  /\ ToolsFrom(Installed)

PackagesInv ==
  /\ gpc = "lines" /\ ~refused => AtLine
  /\ gpc \in BehindLines /\ ~refused =>
       (programs = <<>> /\ info.tools.version = "") \/ Collected(Installed)
  /\ gpc = "done" /\ os = "linux" /\ ~refused => ExactReport

LinuxInv == Told /\ PlacesInv /\ PackagesInv

\* A set of numbers with a bound has a greatest, and Max takes it.
LEMMA MaxIs ==
  ASSUME NEW T, T # {}, NEW b \in Nat, \A x \in T : x \in Nat /\ x <= b
  PROVE  Max(T) \in T /\ \A x \in T : x <= Max(T)
<1> DEFINE U == {k \in Nat : b - k \in T}
<1>1. U # {}
  <2>1. PICK x \in T : TRUE
    OBVIOUS
  <2>2. b - x \in Nat /\ b - (b - x) = x
    BY <2>1
  <2> QED BY <2>1, <2>2
<1>2. PICK k \in U : \A m \in U : k <= m
  BY <1>1, Least
<1>3. b - k \in T /\ k \in Nat
  OBVIOUS
<1>4. ASSUME NEW x \in T PROVE b - k >= x
  <2>1. x \in Nat /\ b - x \in Nat /\ b - (b - x) = x
    OBVIOUS
  <2>2. b - x \in U
    BY <2>1
  <2>3. k <= b - x
    BY <1>2, <2>2
  <2> QED BY <1>3, <2>1, <2>3
<1>5. \E x \in T : \A y \in T : x >= y
  BY <1>3, <1>4
<1>6. Max(T) \in T /\ \A y \in T : Max(T) >= y
  BY <1>5, Zenon DEF Max
<1> QED BY <1>6

\* The last line of a kind among none, and with one line more.
LEMMA LineOfNone ==
  ASSUME NEW a \in Nat, NEW key, NEW none
  PROVE  LineOf(<<a, a - 1>>, key, none) = none
<1>1. a .. a - 1 = {}
  OBVIOUS
<1> QED BY <1>1 DEF LineOf

LEMMA StanzaOfNone ==
  ASSUME NEW a \in Nat
  PROVE  StanzaOf(<<a, a - 1>>) = NoStanza
<1>1. \A key, none : LineOf(<<a, a - 1>>, key, none) = none
  BY LineOfNone
<1> QED BY <1>1, Zenon DEF StanzaOf, NoStanza

LEMMA LineOfMore ==
  ASSUME NEW a \in Nat, NEW c \in Nat, a <= c, NEW key, NEW none
  PROVE  LineOf(<<a, c>>, key, none) =
           IF Contents.dpkg[c].key = key THEN Contents.dpkg[c].value
                                         ELSE LineOf(<<a, c - 1>>, key, none)
<1> DEFINE at(n) == {i \in a .. n : Contents.dpkg[i].key = key}
<1>1. \A n : LineOf(<<a, n>>, key, none) =
              IF at(n) = {} THEN none ELSE Contents.dpkg[Max(at(n))].value
  BY DEF LineOf
<1>2. \A i \in a .. c : i = c \/ i \in a .. c - 1
  OBVIOUS
<1>3. \A i \in a .. c - 1 : i \in a .. c
  OBVIOUS
<1>4. CASE Contents.dpkg[c].key = key
  <2>1. c \in at(c) /\ \A x \in at(c) : x \in Nat /\ x <= c
    BY <1>4
  <2>2. PICK T : T = at(c)
    OBVIOUS
  <2>3. Max(T) \in T /\ c <= Max(T)
    BY <2>1, <2>2, MaxIs
  <2>4. Max(T) = c
    BY <2>1, <2>2, <2>3
  <2>5. at(c) # {}
    BY <2>1
  <2> QED BY <1>1, <1>4, <2>2, <2>4, <2>5
<1>5. CASE Contents.dpkg[c].key # key
  <2>1. at(c) = at(c - 1)
    BY <1>2, <1>3, <1>5
  <2> HIDE DEF at
  <2> QED BY <1>1, <1>5, <2>1
<1> QED BY <1>4, <1>5

LEMMA StanzaFields ==
  ASSUME NEW r
  PROVE  /\ StanzaOf(r).name = LineOf(r, "package", 0)
         /\ StanzaOf(r).version = LineOf(r, "version", "")
         /\ StanzaOf(r).section = LineOf(r, "section", "")
         /\ StanzaOf(r).installed = LineOf(r, "status", FALSE)
<1>1. \A n, v, s, i :
        /\ [name |-> n, version |-> v, section |-> s, installed |-> i].name = n
        /\ [name |-> n, version |-> v, section |-> s, installed |-> i].version = v
        /\ [name |-> n, version |-> v, section |-> s, installed |-> i].section = s
        /\ [name |-> n, version |-> v, section |-> s, installed |-> i].installed = i
  OBVIOUS
<1> QED BY <1>1, Zenon DEF StanzaOf

\* What a run of lines gives a package.
LEMMA PackageIs ==
  ASSUME IsLinuxVolume(Contents), NEW r \in (DOMAIN Contents.dpkg) \X (DOMAIN Contents.dpkg)
  PROVE  LineOf(r, "package", 0) \in Nat /\ LineOf(r, "status", FALSE) \in BOOLEAN
<1>1. /\ Len(Contents.dpkg) \in Nat /\ DOMAIN Contents.dpkg = 1 .. Len(Contents.dpkg)
      /\ r[1] \in 1 .. Len(Contents.dpkg) /\ r[2] \in 1 .. Len(Contents.dpkg)
      /\ \A i \in DOMAIN Contents.dpkg :
           /\ Contents.dpkg[i].key = "package" => Contents.dpkg[i].value \in Nat
           /\ Contents.dpkg[i].key = "status" => Contents.dpkg[i].value \in BOOLEAN
  BY DEF IsLinuxVolume
<1>2. ASSUME NEW key, NEW none
      PROVE  \/ LineOf(r, key, none) = none
             \/ \E i \in DOMAIN Contents.dpkg :
                  Contents.dpkg[i].key = key /\ LineOf(r, key, none) = Contents.dpkg[i].value
  <2>1. PICK T : T = {i \in r[1] .. r[2] : Contents.dpkg[i].key = key}
    OBVIOUS
  <2>2. LineOf(r, key, none) = IF T = {} THEN none ELSE Contents.dpkg[Max(T)].value
    BY <2>1 DEF LineOf
  <2>3. \A x \in T : /\ x \in Nat /\ x <= r[2] /\ x \in DOMAIN Contents.dpkg
                     /\ Contents.dpkg[x].key = key
    BY <1>1, <2>1
  <2>4. T # {} => Max(T) \in T
    BY <1>1, <2>3, MaxIs
  <2> QED BY <2>2, <2>3, <2>4
<1>3. LineOf(r, "package", 0) \in Nat
  BY <1>1, <1>2
<1>4. LineOf(r, "status", FALSE) \in BOOLEAN
  <2>1. PICK none : none = FALSE
    OBVIOUS
  <2>2. \/ LineOf(r, "status", none) = none
        \/ \E i \in DOMAIN Contents.dpkg :
             /\ Contents.dpkg[i].key = "status"
             /\ LineOf(r, "status", none) = Contents.dpkg[i].value
    BY <1>2
  <2>3. \/ LineOf(r, "status", FALSE) = FALSE
        \/ \E i \in DOMAIN Contents.dpkg :
             /\ Contents.dpkg[i].key = "status"
             /\ LineOf(r, "status", FALSE) = Contents.dpkg[i].value
    BY <2>1, <2>2, Zenon
  <2>4. \A i \in DOMAIN Contents.dpkg :
          Contents.dpkg[i].key = "status" => Contents.dpkg[i].value \in BOOLEAN
    BY <1>1, Zenon
  <2>5. ASSUME NEW i \in DOMAIN Contents.dpkg, Contents.dpkg[i].key = "status",
               LineOf(r, "status", FALSE) = Contents.dpkg[i].value
        PROVE  LineOf(r, "status", FALSE) \in BOOLEAN
    <3>1. Contents.dpkg[i].value \in BOOLEAN
      BY <2>4, <2>5, Zenon
    <3> QED BY <2>5, <3>1, Zenon
  <2> QED BY <2>3, <2>5, Zenon
<1> QED BY <1>3, <1>4

\* The stanza that ends at a blank line, or with the file, is the only run that
\* ends there.
LEMMA RunEnds ==
  ASSUME IsLinuxVolume(Contents), NEW c \in 1 .. Len(Contents.dpkg) + 1, NEW a \in 1 .. c,
         Begins(a, c), c = Len(Contents.dpkg) + 1 \/ IsBlank(c)
  PROVE  /\ a < c => <<a, c - 1>> \in Runs
         /\ \A r \in Runs : r[2] < c + 1 <=> (r[2] < a \/ (a < c /\ r = <<a, c - 1>>))
<1> DEFINE n == Len(Contents.dpkg)
<1>1. n \in Nat /\ DOMAIN Contents.dpkg = 1 .. n /\ c \in Nat /\ a \in Nat
  BY DEF IsLinuxVolume
<1>2. \A r : r \in Runs <=>
        /\ r \in (1 .. n) \X (1 .. n) /\ r[1] <= r[2]
        /\ \A i \in r[1] .. r[2] : ~IsBlank(i)
        /\ r[1] = 1 \/ IsBlank(r[1] - 1)
        /\ r[2] = n \/ IsBlank(r[2] + 1)
  BY <1>1 DEF Runs, IsBlank
<1> HIDE DEF n
<1>3. /\ \A i \in a .. c - 1 : ~IsBlank(i)
      /\ a = 1 \/ IsBlank(a - 1)
      /\ c = n + 1 \/ IsBlank(c)
      /\ c \in 1 .. n + 1
  BY DEF Begins, n
<1>4. a < c => <<a, c - 1>> \in Runs
  <2> SUFFICES ASSUME a < c PROVE <<a, c - 1>> \in Runs
    OBVIOUS
  <2>1. PICK r : r = <<a, c - 1>>
    OBVIOUS
  <2>2. r[1] = a /\ r[2] = c - 1 /\ r \in (1 .. n) \X (1 .. n) /\ r[1] <= r[2]
    BY <1>1, <1>3, <2>1
  <2>3. r[2] = n \/ IsBlank(r[2] + 1)
    <3>1. (c - 1) + 1 = c /\ (c = n + 1 => c - 1 = n)
      BY <1>1
    <3> QED BY <1>3, <2>2, <3>1
  <2> QED BY <1>2, <1>3, <2>1, <2>2, <2>3
<1>5. ASSUME NEW r \in Runs, r[2] < c + 1, ~(r[2] < a)
      PROVE  a < c /\ r = <<a, c - 1>>
  <2>1. /\ r = <<r[1], r[2]>> /\ r[1] \in 1 .. n /\ r[2] \in 1 .. n /\ r[1] <= r[2]
        /\ \A i \in r[1] .. r[2] : ~IsBlank(i)
        /\ r[1] = 1 \/ IsBlank(r[1] - 1)
        /\ r[2] = n \/ IsBlank(r[2] + 1)
    BY <1>2, <1>5
  <2>2. r[2] # c
    <3>1. r[2] \in r[1] .. r[2]
      BY <1>1, <2>1
    <3> QED BY <1>1, <1>3, <2>1, <3>1
  <2>3. r[2] = c - 1 /\ a < c
    <3>1. r[2] <= c - 1 /\ a <= r[2]
      BY <1>1, <1>5, <2>1, <2>2
    <3>2. CASE r[2] = n
      BY <1>1, <1>3, <3>1, <3>2
    <3>3. CASE IsBlank(r[2] + 1)
      <4>1. r[2] + 1 \notin a .. c - 1
        BY <1>3, <3>3
      <4> QED BY <1>1, <2>1, <3>1, <4>1
    <3> QED BY <2>1, <3>2, <3>3
  <2>4. r[1] = a
    <3>1. CASE r[1] < a
      <4>1. a # 1 /\ a - 1 \in r[1] .. r[2]
        BY <1>1, <2>1, <2>3, <3>1
      <4> QED BY <1>3, <2>1, <4>1
    <3>2. CASE r[1] > a
      <4>1. r[1] # 1 /\ r[1] - 1 \in a .. c - 1
        BY <1>1, <2>1, <2>3, <3>2
      <4> QED BY <1>3, <2>1, <4>1
    <3> QED BY <1>1, <2>1, <3>1, <3>2
  <2> QED BY <2>1, <2>3, <2>4
<1>6. ASSUME NEW r \in Runs, r[2] < a \/ (a < c /\ r = <<a, c - 1>>)
      PROVE  r[2] < c + 1
  <2>1. r[2] \in Nat
    BY <1>1, <1>2
  <2> QED BY <1>1, <1>6, <2>1
<1> QED BY <1>4, <1>5, <1>6

\* So the packages up to the next line are those in front of the stanza, and the
\* stanza's own, if it is one.
LEMMA StanzaEnds ==
  ASSUME IsLinuxVolume(Contents), NEW c \in 1 .. Len(Contents.dpkg) + 1, NEW a \in 1 .. c,
         Begins(a, c), c = Len(Contents.dpkg) + 1 \/ IsBlank(c)
  PROVE  /\ Counts(<<a, c - 1>>) =>
              InstalledUpTo(c + 1) = InstalledUpTo(a) \cup {Package(<<a, c - 1>>)}
         /\ ~Counts(<<a, c - 1>>) => InstalledUpTo(c + 1) = InstalledUpTo(a)
         /\ Counts(<<a, c - 1>>) => Package(<<a, c - 1>>) \in Installed
<1> PICK run : run = <<a, c - 1>>
  OBVIOUS
<1>1. /\ a < c => run \in Runs
      /\ \A r \in Runs : r[2] < c + 1 <=> (r[2] < a \/ (a < c /\ r = run))
  BY RunEnds
<1>2. Counts(run) => a < c
  <2> SUFFICES ASSUME ~(a < c) PROVE ~Counts(run)
    OBVIOUS
  <2>1. a = c /\ a \in Nat
    OBVIOUS
  <2>2. LineOf(<<a, a - 1>>, "status", FALSE) = FALSE
    <3>1. {i \in a .. a - 1 : Contents.dpkg[i].key = "status"} = {}
      BY <2>1
    <3>2. <<a, a - 1>>[1] = a /\ <<a, a - 1>>[2] = a - 1
      OBVIOUS
    <3> QED BY <3>1, <3>2, Zenon DEF LineOf
  <2>3. LineOf(run, "status", FALSE) = FALSE
    BY <2>1, <2>2
  <2> QED BY <2>3, Zenon DEF Counts
<1>3. \A m, e : e \in InstalledUpTo(m) <=> \E r \in Runs : r[2] < m /\ Counts(r) /\ e = Package(r)
  BY DEF InstalledUpTo
<1>4. \A e : e \in Installed <=> \E r \in Runs : Counts(r) /\ e = Package(r)
  BY DEF Installed, Counts, Package
<1>5. ASSUME Counts(run) PROVE InstalledUpTo(c + 1) = InstalledUpTo(a) \cup {Package(run)}
  <2>1. \A e : e \in InstalledUpTo(c + 1) <=> e \in InstalledUpTo(a) \/ e = Package(run)
    BY <1>1, <1>2, <1>3, <1>5
  <2> QED BY <2>1
<1>6. ASSUME ~Counts(run) PROVE InstalledUpTo(c + 1) = InstalledUpTo(a)
  <2>1. \A e : e \in InstalledUpTo(c + 1) <=> e \in InstalledUpTo(a)
    BY <1>1, <1>3, <1>6
  <2> QED BY <2>1
<1> QED BY <1>1, <1>2, <1>4, <1>5, <1>6

LEMMA AllInstalled ==
  ASSUME IsLinuxVolume(Contents)
  PROVE  /\ InstalledUpTo(Len(Contents.dpkg) + 1 + 1) = Installed
         /\ InstalledUpTo(1) = {}
         /\ \A p \in Installed : p.name \in Int
<1>1. Len(Contents.dpkg) \in Nat /\ DOMAIN Contents.dpkg = 1 .. Len(Contents.dpkg)
  BY DEF IsLinuxVolume
<1>2. \A r \in Runs : /\ r \in (DOMAIN Contents.dpkg) \X (DOMAIN Contents.dpkg)
                      /\ r[2] \in Nat /\ r[2] < Len(Contents.dpkg) + 1 + 1 /\ ~(r[2] < 1)
  BY <1>1 DEF Runs
<1>3. \A m, e : e \in InstalledUpTo(m) <=> \E r \in Runs : r[2] < m /\ Counts(r) /\ e = Package(r)
  BY DEF InstalledUpTo
<1>4. \A e : e \in Installed <=> \E r \in Runs : Counts(r) /\ e = Package(r)
  BY DEF Installed, Counts, Package
<1>5. \A e : /\ e \in InstalledUpTo(Len(Contents.dpkg) + 1 + 1) <=> e \in Installed
             /\ e \notin InstalledUpTo(1)
  BY <1>2, <1>3, <1>4
<1>6. \A r \in Runs : Package(r).name \in Int
  <2>1. \A r \in Runs : LineOf(r, "package", 0) \in Nat
    BY <1>2, PackageIs, Zenon
  <2> QED BY <2>1 DEF Package
<1> QED BY <1>4, <1>5, <1>6

LEMMA AppendIs ==
  ASSUME NEW S, NEW s \in Seq(S), NEW q
  PROVE  \A p \in DOMAIN Append(s, q) :
           Append(s, q)[p] = q \/ (p \in DOMAIN s /\ Append(s, q)[p] = s[p])
<1> DEFINE T == S \cup {q}
<1>1. s \in Seq(T) /\ q \in T
  OBVIOUS
<1> HIDE DEF T
<1>2. /\ DOMAIN Append(s, q) = 1 .. Len(s) + 1 /\ DOMAIN s = 1 .. Len(s) /\ Len(s) \in Nat
      /\ Append(s, q)[Len(s) + 1] = q
      /\ \A p \in 1 .. Len(s) : Append(s, q)[p] = s[p]
  BY <1>1
<1>3. \A p \in 1 .. Len(s) + 1 : p = Len(s) + 1 \/ p \in 1 .. Len(s)
  BY <1>2
<1> QED BY <1>2, <1>3

\* A step of the detector tells a file system only where it is.
LEMMA ToldStep == DetectorInv /\ Told /\ [Next]_vars => Told'
<1> SUFFICES ASSUME DetectorInv, Told, [Next]_vars PROVE Told'
  OBVIOUS
<1>0. disk \in Disks /\ parts \in Seq(PartitionType) /\ Sector \in Nat \ {0} /\ current \in Nat
  BY DetectorAssumption DEF DetectorInv, DetectorTypes
<1>1. ASSUME disk' = disk, parts' = parts PROVE Told'
  BY <1>1 DEF Told, FsAt
<1>2. ASSUME disk' = disk, NEW q, q.fs = "unknown", parts' = Append(parts, q) PROVE Told'
  <2>1. \A p \in DOMAIN parts' : parts'[p] = q \/ (p \in DOMAIN parts /\ parts'[p] = parts[p])
    BY <1>0, <1>2, AppendIs
  <2>2. \A n : FsAt(n)' = FsAt(n)
    BY <1>2 DEF FsAt
  <2> QED BY <1>2, <2>1, <2>2 DEF Told
<1>3. ASSUME disk' = disk, parts' = Whole PROVE Told'
  <2>1. DOMAIN parts' = {1} /\ parts'[1].start = 0 /\ parts'[1].fs = IdentifyFs(0)
    BY <1>3 DEF Whole
  <2>2. 0 \div Sector = 0
    BY <1>0
  <2>3. IdentifyFs(0) # "unknown" => IdentifyFs(0) = FsAt(0)
    BY DEF IdentifyFs
  <2>4. \A n : FsAt(n)' = FsAt(n)
    BY <1>3 DEF FsAt
  <2> QED BY <2>1, <2>2, <2>3, <2>4 DEF Told
<1>4. \A f, n : Partition(f, n).fs = "unknown"
  BY DEF Partition
<1>5. CASE DetectTable
  <2>1. disk' = disk
    BY <1>5 DEF DetectTable, Detecting, CheckToken, ReadHeader, ReadGpt, ReadGptEntry, ReadMbr,
                EndOfMbr, ReadEbr, ChainTooLong
  <2>2. \/ parts' = parts \/ parts' = Whole
        \/ \E f, n : parts' = Append(parts, Partition(f, n))
        \/ parts' = parts \o Logical(lba)
    BY <1>5 DEF DetectTable, Detecting, CheckToken, ReadHeader, ReadGpt, ReadGptEntry, ReadMbr,
                EndOfMbr, ReadEbr, ChainTooLong, ReadBlocks, Fail, Go, EndOfChain
  <2>3. CASE parts' = parts \o Logical(lba)
    <3>1. Logical(lba) = <<>> \/ \E f, n : Logical(lba) = <<Partition(f, n)>>
      BY DEF Logical
    <3>2. CASE Logical(lba) = <<>>
      BY <1>0, <1>1, <2>1, <2>3, <3>2
    <3>3. ASSUME NEW f, NEW n, Logical(lba) = <<Partition(f, n)>> PROVE Told'
      <4>1. PICK q : q = Partition(f, n)
        OBVIOUS
      <4>2. \A S, s : s \in Seq(S) => s \o <<q>> = Append(s, q)
        OBVIOUS
      <4>3. parts' = Append(parts, q)
        BY <1>0, <2>3, <3>3, <4>1, <4>2
      <4> QED BY <1>2, <1>4, <2>1, <4>1, <4>3
    <3> QED BY <3>1, <3>2, <3>3
  <2> QED BY <1>1, <1>2, <1>3, <1>4, <2>1, <2>2, <2>3
<1>6. CASE DetectFileSystems
  <2>1. disk' = disk
    BY <1>6 DEF DetectFileSystems, Detecting, CheckToken, NextPartition, ProbeBootSector,
                ProbeExt, ProbeBtrfs, ProbeSwap, Probe
  <2>2. \/ parts' = parts
        \/ parts' = [parts EXCEPT ![current].fs = FsAt(FirstSector(current))]
    BY <1>6 DEF DetectFileSystems, Detecting, CheckToken, NextPartition, ProbeBootSector,
                ProbeExt, ProbeBtrfs, ProbeSwap, Probe, ReadBlocks, SetFs, Fail, Go
  <2>3. CASE parts' = [parts EXCEPT ![current].fs = FsAt(FirstSector(current))]
    <3>1. \A p \in DOMAIN parts : parts[p] \in PartitionType
      BY <1>0
    <3>2. /\ DOMAIN parts' = DOMAIN parts
          /\ \A p \in DOMAIN parts : p # current => parts'[p] = parts[p]
          /\ current \in DOMAIN parts =>
               parts'[current] = [parts[current] EXCEPT !.fs = FsAt(FirstSector(current))]
      BY <2>3
    <3>3. current \in DOMAIN parts =>
            /\ parts'[current].start = parts[current].start
            /\ parts'[current].fs = FsAt(parts[current].start \div Sector)
      BY <3>1, <3>2 DEF FirstSector, PartitionType
    <3>4. \A n : FsAt(n)' = FsAt(n)
      BY <2>1 DEF FsAt
    <3> QED BY <3>2, <3>3, <3>4 DEF Told
  <2> QED BY <1>1, <2>1, <2>2, <2>3
<1>7. CASE Increment
  BY <1>1, <1>7 DEF Increment, CountPartition
<1>8. CASE Begin \/ Backend \/ Detect \/ Guest \/ Report
  BY <1>1, <1>8 DEF Begin, Backend, Detect, Guest, Report, EnterStage, detectorVars
<1>9. CASE Metadata \/ Identify \/ OpenBackend \/ Detected \/ Analyzed \/ Finish \/ AnalyzeGuest
  BY <1>1, <1>9 DEF Metadata, Identify, OpenBackend, Detected, Analyzed, Finish, AnalyzeGuest,
                    Analyzing, detectorVars
<1>10. CASE EngineCancel \/ ProgressCancel \/ ProgressCancelLink \/ UNCHANGED vars
  BY <1>1, <1>10 DEF EngineCancel, ProgressCancel, ProgressCancelLink, vars, detectorVars
<1> QED BY <1>5, <1>6, <1>7, <1>8, <1>9, <1>10 DEF Next, Step

\* What the volume holds stays as it is.
LEMMA VolumeSame ==
  ASSUME UNCHANGED <<disk, volume>>
  PROVE  /\ Contents' = Contents /\ Installed' = Installed /\ Runs' = Runs
         /\ \A r : StanzaOf(r)' = StanzaOf(r)
         /\ \A n : InstalledUpTo(n)' = InstalledUpTo(n)
         /\ \A a, c : Begins(a, c)' = Begins(a, c)
         /\ IsLinuxVolume(Contents)' = IsLinuxVolume(Contents)
<1>1. Contents' = Contents
  BY DEF Contents
<1>2. \A r, key, none : LineOf(r, key, none)' = LineOf(r, key, none)
  BY <1>1 DEF LineOf
<1>3. Runs' = Runs
  BY <1>1 DEF Runs
<1>4. \A r : /\ StanzaOf(r)' = StanzaOf(r) /\ Package(r)' = Package(r)
  BY <1>2 DEF StanzaOf, Package
<1>5. Installed' = Installed
  BY <1>2, <1>3 DEF Installed
<1>6. \A n : InstalledUpTo(n)' = InstalledUpTo(n)
  BY <1>2, <1>3, <1>4 DEF InstalledUpTo, Counts
<1>7. \A a, c : Begins(a, c)' = Begins(a, c)
  BY <1>1 DEF Begins, IsBlank
<1>8. IsLinuxVolume(Contents)' = IsLinuxVolume(Contents)
  BY <1>1 DEF IsLinuxVolume
<1> QED BY <1>1, <1>3, <1>4, <1>5, <1>6, <1>7, <1>8

LEMMA LineReached ==
  ASSUME NEW m, cursor' = m, m \in 1 .. Len(Contents'.dpkg) + 1, NEW a \in 1 .. m,
         Begins(a, m)', stanza' = StanzaOf(<<a, m - 1>>)', Collected(InstalledUpTo(a))'
  PROVE  AtLine'
<1>1. Begins(a, cursor)'
  BY DEF Begins
<1>2. StanzaOf(<<a, cursor - 1>>)' = StanzaOf(<<a, m - 1>>)'
  BY DEF StanzaOf, LineOf
<1> QED BY <1>1, <1>2 DEF AtLine

LEMMA RefusedSame == refused' = refused => (~refused' => ~refused)
BY Zenon

\* In front of the analysis nothing is there, whatever the other parts do.
LEMMA StartStill ==
  ASSUME PlacesInv, gpc = "start", UNCHANGED <<gpc, programs, info, cursor, stanza>>
  PROVE  PlacesInv' /\ PackagesInv'
<1>1. /\ gpc' = "start" /\ programs' = <<>> /\ "tools" \in DOMAIN info'
      /\ info'.tools = NoTools /\ cursor' = 1 /\ stanza' = NoStanza
  BY DEF PlacesInv
<1>2. PlacesInv'
  BY <1>1 DEF PlacesInv, WindowsPlaces, VolumePlaces, BehindLines
<1>3. PackagesInv'
  BY <1>1 DEF PackagesInv, BehindLines
<1> QED BY <1>2, <1>3

\* Nor does anything change behind an analyser that stands still.
LEMMA GuestStill ==
  ASSUME PlacesInv, PackagesInv,
         UNCHANGED <<guestVars, disk, os, refused>>,
         gpc # "start" => pc' \in {"analyze", "report", "finish", "done"}
  PROVE  PlacesInv' /\ PackagesInv'
<1>1. UNCHANGED <<request, gpc, candidates, volume, info, programs, cursor, stanza, disk, os,
                  refused>>
  BY DEF guestVars, resultVars, scanVars
<1>2. /\ Contents' = Contents /\ Installed' = Installed
      /\ \A r : StanzaOf(r)' = StanzaOf(r)
      /\ \A n : InstalledUpTo(n)' = InstalledUpTo(n)
      /\ \A a, c : Begins(a, c)' = Begins(a, c)
      /\ IsLinuxVolume(Contents)' = IsLinuxVolume(Contents)
  BY <1>1, VolumeSame
<1>3. ExtParts' = ExtParts
  BY <1>1 DEF ExtParts, FsAt
<1>4. PlacesInv'
  BY <1>1, <1>2, <1>3 DEF PlacesInv
<1>5. AtLine => AtLine'
  <2> SUFFICES ASSUME AtLine PROVE AtLine'
    OBVIOUS
  <2>1. PICK a \in 1 .. cursor : /\ Begins(a, cursor) /\ stanza = StanzaOf(<<a, cursor - 1>>)
                                 /\ Collected(InstalledUpTo(a))
    BY DEF AtLine
  <2>2. Collected(InstalledUpTo(a))'
    BY <1>1, <1>2, <2>1 DEF Collected, ToolsFrom, Apps
  <2>3. Begins(a, cursor)' /\ stanza' = StanzaOf(<<a, cursor - 1>>)'
    BY <1>1, <1>2, <2>1
  <2> QED BY <1>1, <1>2, <2>2, <2>3 DEF AtLine
<1>6. Collected(Installed) => Collected(Installed)'
  BY <1>1, <1>2 DEF Collected, ToolsFrom, Apps
<1>7. ExactReport => ExactReport'
  BY <1>1, <1>2 DEF ExactReport, ToolsFrom, Apps, ListsExactly
<1>8. PackagesInv'
  <2>0. ~refused' => ~refused
    BY <1>1, RefusedSame
  <2>1. gpc' = "lines" /\ ~refused' => AtLine'
    BY <1>1, <2>0, <1>5 DEF PackagesInv
  <2>2. gpc' \in BehindLines /\ ~refused' =>
          (programs' = <<>> /\ info'.tools.version = "") \/ Collected(Installed)'
    BY <1>1, <2>0, <1>6 DEF PackagesInv
  <2>3. gpc' = "done" /\ os' = "linux" /\ ~refused' => ExactReport'
    BY <1>1, <2>0, <1>7 DEF PackagesInv
  <2> QED BY <2>1, <2>2, <2>3 DEF PackagesInv
<1> QED BY <1>4, <1>8

\* get_inspector: the Linux analyser is given ext partitions, the largest first.
LEMMA InspectorStep ==
  ASSUME DetectorInv, Told, PlacesInv, pc = "analyze", GetInspector,
         UNCHANGED <<pc, disk, os, stanza>>
  PROVE  PlacesInv' /\ PackagesInv'
<1>1. /\ gpc = "start" /\ UNCHANGED <<request, volume, programs, cursor, refused>>
      /\ programs' = <<>> /\ cursor' = 1 /\ stanza' = NoStanza
      /\ "tools" \in DOMAIN info /\ info.tools = NoTools
  BY DEF GetInspector, PlacesInv, scanVars
<1>2. info' = info \/ info' = [NoInfo EXCEPT !.name = "unknown"]
  BY DEF GetInspector
<1>3. "tools" \in DOMAIN info' /\ info'.tools = NoTools /\ info'.tools.version = ""
  <2>1. NoTools.version = "" /\ "tools" \in DOMAIN NoInfo /\ NoInfo.tools = NoTools
    BY DEF NoInfo, NoTools
  <2>2. /\ "tools" \in DOMAIN [NoInfo EXCEPT !.name = "unknown"]
        /\ [NoInfo EXCEPT !.name = "unknown"].tools = NoTools
    BY <2>1
  <2> QED BY <1>1, <1>2, <2>1, <2>2
<1>4. \/ gpc' = "done"
      \/ gpc' = "find_system" /\ os = "windows"
      \/ /\ gpc' = "superblock"
         /\ LET ext == OfFileSystem(ExtFs)
            IN candidates' = SortByKey(ext, [i \in DOMAIN ext |-> -ext[i].size])
  BY Zenon DEF GetInspector
<1>5. CASE gpc' = "done"
  <2>1. ExactReport'
    BY <1>1, <1>3 DEF ExactReport, ToolsFrom
  <2>2. PlacesInv'
    BY <1>5 DEF PlacesInv, WindowsPlaces, VolumePlaces, BehindLines
  <2>3. PackagesInv'
    BY <1>5, <2>1 DEF PackagesInv, BehindLines
  <2> QED BY <2>2, <2>3
<1>6. CASE gpc' = "find_system" /\ os = "windows"
  <2>1. PlacesInv'
    BY <1>6 DEF PlacesInv, WindowsPlaces, VolumePlaces, BehindLines
  <2>2. PackagesInv'
    BY <1>6 DEF PackagesInv, BehindLines
  <2> QED BY <2>1, <2>2
<1>7. CASE /\ gpc' = "superblock"
           /\ LET ext == OfFileSystem(ExtFs)
              IN candidates' = SortByKey(ext, [i \in DOMAIN ext |-> -ext[i].size])
  <2>1. parts \in Seq(PartitionType)
    BY DEF DetectorInv, DetectorTypes
  <2>2. PICK I : I = {p \in DOMAIN parts : parts[p].fs \in ExtFs}
    OBVIOUS
  <2>3. PICK ext : ext = Kept(parts, I)
    OBVIOUS
  <2>4. I \in SUBSET DOMAIN parts
    BY <2>2
  <2>5. /\ ext \in Seq(PartitionType) /\ Len(ext) = Cardinality(I)
        /\ \E at \in [1 .. Cardinality(I) -> I] :
             \A k \in 1 .. Cardinality(I) : ext[k] = parts[at[k]]
    <3>1. /\ Kept(parts, I) \in Seq(PartitionType)
          /\ Len(Kept(parts, I)) = Cardinality(I)
          /\ \E at \in [1 .. Cardinality(I) -> I] :
               \A k \in 1 .. Cardinality(I) : Kept(parts, I)[k] = parts[at[k]]
      BY <2>1, <2>4, KeptIs, ZenonT(60)
    <3> QED BY <2>3, <3>1
  <2>6. ext \in Seq(ExtParts)
    <3>1. \A i \in I : parts[i] \in ExtParts
      <4> TAKE i \in I
      <4>1. parts[i] \in PartitionType /\ parts[i].fs \in ExtFs /\ i \in DOMAIN parts
        BY <2>1, <2>2
      <4>2. parts[i].fs # "unknown"
        BY <4>1 DEF ExtFs
      <4> QED BY <4>1, <4>2 DEF Told, ExtParts
    <3>2. \A k \in 1 .. Len(ext) : ext[k] \in ExtParts
      BY <2>5, <3>1
    <3> QED BY <2>5, <3>2
  <2>7. PICK key : key = [i \in DOMAIN ext |-> -ext[i].size]
    OBVIOUS
  <2>8. key \in [DOMAIN ext -> Int]
    <3>0. \A i \in DOMAIN ext : ext[i] \in PartitionType
      BY <2>5, SeqElement
    <3>1. \A i \in DOMAIN ext : ext[i].size \in Nat
      BY <3>0 DEF PartitionType
    <3>2. \A i \in DOMAIN ext : -ext[i].size \in Int
      BY <3>1
    <3> QED BY <2>7, <3>2
  <2>9. SortByKey(ext, key) \in Seq(ExtParts)
    BY <2>6, <2>8, SortIs, Zenon
  <2>10. candidates' = SortByKey(ext, key)
    BY <1>7, <2>2, <2>3, <2>7 DEF OfFileSystem
  <2>11. ExtParts' = ExtParts
    BY DEF ExtParts, FsAt
  <2>12. PlacesInv'
    BY <1>1, <1>3, <1>7, <2>9, <2>10, <2>11 DEF PlacesInv, WindowsPlaces, VolumePlaces, BehindLines
  <2>13. PackagesInv'
    BY <1>7 DEF PackagesInv, BehindLines
  <2> QED BY <2>12, <2>13
<1> QED BY <1>4, <1>5, <1>6, <1>7

\* The Windows analyser keeps to its places, on a Windows disk.
LEMMA WindowsPlacesStep ==
  ASSUME PlacesInv, pc = "analyze", WindowsStep, UNCHANGED <<pc, os>>
  PROVE  PlacesInv' /\ PackagesInv'
<1>1. gpc \in WindowsPlaces /\ gpc' \in WindowsPlaces \cup {"done"}
  <2>1. CASE FindSystem \/ ExtractSoftware \/ ReadSystem
    BY <2>1 DEF FindSystem, ExtractSoftware, ReadSystem, Mount, Access, Degraded, WindowsPlaces
  <2>2. CASE OpenSoftware \/ SearchPrograms \/ AnalyzeSystem
    BY <2>2 DEF OpenSoftware, SearchPrograms, AnalyzeSystem, Scan, WindowsPlaces
  <2>3. CASE Remount \/ ReadKernel \/ CheckLicense
    <3>1. ToFolders => gpc' \in WindowsPlaces \cup {"done"}
      BY DEF ToFolders, WindowsPlaces
    <3>2. \A how, date : Approximate(how, date) => ToFolders
      BY DEF Approximate
    <3>3. CASE Remount
      BY <3>3 DEF Remount, Mount, WindowsPlaces
    <3>4. CASE ReadKernel
      <4>1. gpc = "kernel" /\ (gpc' = "license" \/ ToFolders)
        BY <3>2, <3>4, Zenon DEF ReadKernel, Access
      <4> QED BY <3>1, <4>1 DEF WindowsPlaces
    <3>5. CASE CheckLicense
      <4>1. gpc = "license" /\ ToFolders
        BY <3>2, <3>5, Zenon DEF CheckLicense, Access
      <4> QED BY <3>1, <4>1 DEF WindowsPlaces
    <3> QED BY <2>3, <3>3, <3>4, <3>5
  <2>4. CASE NextFolder \/ OpenFolder \/ ScanFolder
    BY <2>4 DEF NextFolder, OpenFolder, ScanFolder, EndOfFolders, LeaveFolder, SkipEntry,
                TakeEntry, Scan, Access, WindowsPlaces
  <2> QED BY <2>1, <2>2, <2>3, <2>4 DEF WindowsStep
<1>2. os' = "windows"
  BY <1>1 DEF PlacesInv
<1>3. gpc' \notin VolumePlaces \cup BehindLines \cup {"start", "superblock", "lines"}
  BY <1>1 DEF WindowsPlaces, VolumePlaces, BehindLines
<1>4. PlacesInv'
  BY <1>1, <1>2, <1>3 DEF PlacesInv
<1>5. PackagesInv'
  BY <1>2, <1>3 DEF PackagesInv
<1> QED BY <1>4, <1>5

\* A refusal is never taken back.
LEMMA RefusedStays == ASSUME TellsTheToken PROVE ~refused' => ~refused
<1>1. refused' = refused => (~refused' => ~refused)
  BY RefusedSame
<1>2. refused' = (refused \/ token) => (~refused' => ~refused)
  BY ONLY Zenon
<1>3. refused' = TRUE => (~refused' => ~refused)
  BY ONLY Zenon
<1> QED BY <1>1, <1>2, <1>3 DEF TellsTheToken

LEMMA ToSetAppend ==
  ASSUME NEW S, NEW s \in Seq(S), NEW q \in S
  PROVE  Append(s, q) \in Seq(S) /\ ToSet(Append(s, q)) = ToSet(s) \cup {q}
<1>1. /\ Append(s, q) \in Seq(S) /\ DOMAIN Append(s, q) = 1 .. Len(s) + 1
      /\ DOMAIN s = 1 .. Len(s) /\ Len(s) \in Nat /\ Append(s, q)[Len(s) + 1] = q
      /\ \A p \in 1 .. Len(s) : Append(s, q)[p] = s[p]
  OBVIOUS
<1>2. /\ \A p \in 1 .. Len(s) + 1 : p = Len(s) + 1 \/ p \in 1 .. Len(s)
      /\ \A p \in 1 .. Len(s) : p \in 1 .. Len(s) + 1
      /\ Len(s) + 1 \in 1 .. Len(s) + 1
  BY <1>1
<1> QED BY <1>1, <1>2 DEF ToSet

LEMMA InfoKeeps ==
  ASSUME "tools" \in DOMAIN info, NEW x, NEW y
  PROVE  /\ "tools" \in DOMAIN [info EXCEPT !.name = x, !.build = y]
         /\ [info EXCEPT !.name = x, !.build = y].tools = info.tools
         /\ "tools" \in DOMAIN [info EXCEPT !.edition = x]
         /\ [info EXCEPT !.edition = x].tools = info.tools
         /\ "tools" \in DOMAIN [info EXCEPT !.tools = x]
         /\ [info EXCEPT !.tools = x].tools = x
OBVIOUS

\* The volume is one of the ext partitions.
LEMMA SuperBlockStep ==
  ASSUME disk \in Disks, PlacesInv, pc = "analyze", ReadSuperBlock, UNCHANGED <<pc, disk, os>>
  PROVE  PlacesInv' /\ PackagesInv'
<1>1. /\ gpc = "superblock" /\ programs' = <<>> /\ cursor' = 1 /\ stanza' = NoStanza
      /\ "tools" \in DOMAIN info /\ info.tools = NoTools /\ candidates \in Seq(ExtParts)
  BY DEF ReadSuperBlock, PlacesInv, scanVars
<1>2. \/ /\ gpc' = "done"
         /\ info' = info \/ info' = [NoInfo EXCEPT !.name = "no_rootfs"]
      \/ /\ candidates # <<>> /\ volume' = Head(candidates).start \div Sector
         /\ gpc' \in {"os_release", "dpkg"} /\ info' = info
      \/ /\ candidates # <<>> /\ candidates' = Tail(candidates)
         /\ gpc' = gpc /\ info' = info
  BY Zenon DEF ReadSuperBlock, Mount
<1>3. CASE /\ gpc' = "done"
           /\ info' = info \/ info' = [NoInfo EXCEPT !.name = "no_rootfs"]
  <2>1. NoTools.version = "" /\ NoInfo.tools = NoTools /\ "tools" \in DOMAIN NoInfo
    BY DEF NoInfo, NoTools
  <2>2. [NoInfo EXCEPT !.name = "no_rootfs"].tools = NoTools
    BY <2>1
  <2>3. info'.tools.version = ""
    BY <1>1, <1>3, <2>1, <2>2
  <2>4. ExactReport'
    BY <1>1, <2>3 DEF ExactReport, ToolsFrom
  <2>5. PlacesInv'
    BY <1>3 DEF PlacesInv, WindowsPlaces, VolumePlaces, BehindLines
  <2>6. PackagesInv'
    BY <1>3, <2>4 DEF PackagesInv, BehindLines
  <2> QED BY <2>5, <2>6
<1>4. CASE /\ candidates # <<>> /\ volume' = Head(candidates).start \div Sector
           /\ gpc' \in {"os_release", "dpkg"} /\ info' = info
  <2>1. Head(candidates) \in ExtParts
    BY <1>1, <1>4
  <2>2. FsAt(volume') \in ExtFs
    BY <1>4, <2>1 DEF ExtParts
  <2>3. volume' \in DOMAIN disk.fs /\ disk.fs[volume'] \in ExtFs
    BY <2>2 DEF FsAt, ExtFs
  <2>4. IsLinuxVolume(disk.guest[volume'])
    BY <2>3, LinuxAssumption
  <2>5. Contents' = disk.guest[volume']
    BY DEF Contents
  <2>6. IsLinuxVolume(Contents)'
    BY <2>4, <2>5 DEF IsLinuxVolume
  <2>7. PlacesInv'
    BY <1>1, <1>4, <2>6 DEF PlacesInv, WindowsPlaces, VolumePlaces, BehindLines
  <2>8. PackagesInv'
    BY <1>4 DEF PackagesInv, BehindLines
  <2> QED BY <2>7, <2>8
<1>5. CASE /\ candidates # <<>> /\ candidates' = Tail(candidates)
           /\ gpc' = gpc /\ info' = info
  <2>1. candidates' \in Seq(ExtParts)
    BY <1>1, <1>5
  <2>2. ExtParts' = ExtParts
    BY DEF ExtParts, FsAt
  <2>3. PlacesInv'
    BY <1>1, <1>5, <2>1, <2>2 DEF PlacesInv, WindowsPlaces, VolumePlaces, BehindLines
  <2>4. PackagesInv'
    BY <1>1, <1>5 DEF PackagesInv, BehindLines
  <2> QED BY <2>3, <2>4
<1> QED BY <1>2, <1>3, <1>4, <1>5

\* os-release and the hostname do not touch the packages.
LEMMA SmallFilesStep ==
  ASSUME PlacesInv, pc = "analyze", ReadOsRelease \/ ReadHostname, UNCHANGED <<pc, disk, os>>
  PROVE  PlacesInv' /\ PackagesInv'
<1>1. /\ gpc \in VolumePlaces /\ gpc' \in VolumePlaces
      /\ UNCHANGED <<volume, programs, cursor, stanza>>
  BY DEF ReadOsRelease, ReadHostname, Access, NextPath, VolumePlaces, scanVars
<1>2. /\ programs = <<>> /\ "tools" \in DOMAIN info /\ info.tools = NoTools
      /\ cursor = 1 /\ stanza = NoStanza /\ IsLinuxVolume(Contents)
  BY <1>1 DEF PlacesInv
<1>3. \/ info' = info
      \/ \E x, y : info' = [info EXCEPT !.name = x, !.build = y]
      \/ \E x : info' = [info EXCEPT !.edition = x]
  <2>1. CASE ReadOsRelease
    <3>1. \/ info' = info
          \/ info' = ParseOsRelease(Contents.osRelease[list])
      BY <2>1, Zenon DEF ReadOsRelease, Access, NextPath
    <3>2. \A u : \E x, y : ParseOsRelease(u) = [info EXCEPT !.name = x, !.build = y]
      BY Zenon DEF ParseOsRelease
    <3>3. CASE info' = ParseOsRelease(Contents.osRelease[list])
      <4>1. PICK x, y : ParseOsRelease(Contents.osRelease[list]) =
                          [info EXCEPT !.name = x, !.build = y]
        BY <3>2
      <4>2. info' = [info EXCEPT !.name = x, !.build = y]
        BY <3>3, <4>1
      <4> QED BY <4>2
    <3> QED BY <3>1, <3>3
  <2>2. CASE ReadHostname
    BY <2>2, Zenon DEF ReadHostname, Access
  <2> QED BY <2>1, <2>2
<1>4. "tools" \in DOMAIN info' /\ info'.tools = NoTools
  BY <1>2, <1>3, InfoKeeps
<1>5. IsLinuxVolume(Contents)'
  BY <1>1, <1>2, VolumeSame
<1>6. gpc' \notin WindowsPlaces \cup BehindLines \cup {"start", "superblock", "lines", "done"}
  BY <1>1 DEF WindowsPlaces, VolumePlaces, BehindLines
<1>7. PlacesInv'
  BY <1>1, <1>2, <1>4, <1>5, <1>6 DEF PlacesInv
<1>8. PackagesInv'
  BY <1>6 DEF PackagesInv
<1> QED BY <1>7, <1>8

\* Behind the packages only the tools can still change, to some without a version.
LEMMA BehindLinesIs ==
  ASSUME IsLinuxVolume(Contents)', gpc' \in BehindLines, pc' = "analyze",
         "tools" \in DOMAIN info',
         ~refused' => \/ programs' = <<>> /\ info'.tools.version = ""
                      \/ Collected(Installed)'
  PROVE  PlacesInv' /\ PackagesInv'
<1>1. gpc' \notin WindowsPlaces \cup VolumePlaces \cup {"start", "superblock", "lines", "done"}
  BY DEF WindowsPlaces, VolumePlaces, BehindLines
<1>2. PlacesInv'
  BY <1>1 DEF PlacesInv
<1>3. PackagesInv'
  BY <1>1 DEF PackagesInv
<1> QED BY <1>2, <1>3

\* The status file: its first line, or none of it.
LEMMA DpkgStep ==
  ASSUME PlacesInv, pc = "analyze", ReadDpkg, UNCHANGED <<pc, disk, os>>
  PROVE  PlacesInv' /\ PackagesInv'
<1>1. /\ gpc = "dpkg" /\ UNCHANGED <<volume, programs, stanza, info, request>>
      /\ gpc' \in BehindLines \/ (gpc' = "lines" /\ cursor' = cursor)
  BY DEF ReadDpkg, Access, ToToolFiles, BehindLines, scanVars
<1>2. /\ programs = <<>> /\ "tools" \in DOMAIN info /\ info.tools = NoTools
      /\ cursor = 1 /\ stanza = NoStanza /\ IsLinuxVolume(Contents)
  BY <1>1 DEF PlacesInv, VolumePlaces
<1>3. NoTools.version = ""
  BY DEF NoTools
<1>4. IsLinuxVolume(Contents)' /\ Contents' = Contents /\ Installed' = Installed
  BY <1>1, <1>2, VolumeSame
<1>5. CASE gpc' \in BehindLines
  BY <1>1, <1>2, <1>3, <1>4, <1>5, BehindLinesIs
<1>6. CASE gpc' = "lines" /\ cursor' = cursor
  <2>1. gpc' \notin WindowsPlaces \cup VolumePlaces \cup BehindLines
                    \cup {"start", "superblock", "done"}
    BY <1>6 DEF WindowsPlaces, VolumePlaces, BehindLines
  <2>2. PlacesInv'
    BY <1>1, <1>2, <1>4, <1>6, <2>1 DEF PlacesInv
  <2>3. Collected({})
    <3>1. ToSet(programs) = {}
      BY <1>2 DEF ToSet
    <3>2. info.tools.version = ""
      BY <1>2, <1>3
    <3>3. ToolsFrom({})
      BY <3>2 DEF ToolsFrom
    <3>4. programs \in Seq(Installed)
      BY <1>2
    <3> QED BY <1>2, <3>1, <3>3, <3>4 DEF Collected
  <2>4. Collected({})'
    BY <1>1, <1>4, <2>3 DEF Collected, ToolsFrom, Apps
  <2>5. StanzaOf(<<1, 1 - 1>>) = NoStanza
    BY StanzaOfNone
  <2>6. Begins(1, 1)
    BY DEF Begins
  <2>7. /\ InstalledUpTo(1)' = {} /\ Begins(1, 1)' /\ stanza' = StanzaOf(<<1, 1 - 1>>)'
    BY <1>1, <1>2, <2>5, <2>6, AllInstalled, VolumeSame
  <2>8. cursor' = 1 /\ 1 \in 1 .. 1 /\ cursor' \in 1 .. Len(Contents'.dpkg) + 1
    BY <1>2, <1>4, <1>6 DEF IsLinuxVolume
  <2>9. AtLine'
    BY <2>4, <2>7, <2>8 DEF AtLine
  <2>10. PackagesInv'
    BY <2>1, <2>9 DEF PackagesInv
  <2> QED BY <2>2, <2>10
<1> QED BY <1>1, <1>5, <1>6

\* The stanza that is over is a program or tools if it is an installed package.
LEMMA PackageStep ==
  ASSUME IsLinuxVolume(Contents), NEW c \in 1 .. Len(Contents.dpkg) + 1, NEW a \in 1 .. c,
         Begins(a, c), c = Len(Contents.dpkg) + 1 \/ IsBlank(c),
         stanza = StanzaOf(<<a, c - 1>>), Collected(InstalledUpTo(a)), "tools" \in DOMAIN info,
         ProcessPackage, UNCHANGED <<disk, volume, request>>
  PROVE  Collected(InstalledUpTo(c + 1))' /\ "tools" \in DOMAIN info'
<1>1. PICK run : run = <<a, c - 1>>
  OBVIOUS
<1>2. PICK q : q = Package(run)
  OBVIOUS
<1>3. PICK all : all = InstalledUpTo(c + 1)
  OBVIOUS
<1>4. /\ Counts(run) => all = InstalledUpTo(a) \cup {q} /\ q \in Installed
      /\ ~Counts(run) => all = InstalledUpTo(a)
  BY <1>1, <1>2, <1>3, StanzaEnds
<1>5. /\ Installed' = Installed /\ InstalledUpTo(c + 1)' = all /\ (Apps' <=> Apps)
  BY <1>3, VolumeSame DEF Apps
<1>6. stanza = StanzaOf(run)
  BY <1>1
<1>7. Counts(run) <=> (stanza.installed /\ stanza.name # 0)
  <2>1. stanza.installed = LineOf(run, "status", FALSE) /\ stanza.name = LineOf(run, "package", 0)
    BY <1>6, StanzaFields
  <2> QED BY <2>1, Zenon DEF Counts
<1>8. q = [name |-> stanza.name, version |-> stanza.version,
           publisher |-> stanza.section, source |-> "dpkg"]
  BY <1>2, <1>6, StanzaFields DEF Package
<1>9. /\ programs' = IF Counts(run) /\ Apps THEN Append(programs, q) ELSE programs
      /\ info' = IF /\ Counts(run) /\ System /\ info.tools = NoTools
                    /\ stanza.name \in DOMAIN ToolNames
                 THEN [info EXCEPT !.tools = [kind |-> ToolNames[stanza.name],
                                              version |-> stanza.version]]
                 ELSE info
  BY <1>7, <1>8 DEF ProcessPackage
<1>10. programs \in Seq(Installed) /\ (~Apps => programs = <<>>) /\ ToolsFrom(InstalledUpTo(a))
       /\ (Apps => ToSet(programs) = InstalledUpTo(a))
  BY DEF Collected
<1>11. /\ programs' \in Seq(Installed)
       /\ Apps => ToSet(programs') = all
       /\ ~Apps => programs' = <<>>
  <2>1. CASE Counts(run) /\ Apps
    <3>1. q \in Installed /\ programs' = Append(programs, q)
      BY <1>4, <1>9, <2>1
    <3>2. ToSet(Append(programs, q)) = ToSet(programs) \cup {q}
      BY <1>10, <3>1, ToSetAppend
    <3> QED BY <1>4, <1>10, <2>1, <3>1, <3>2
  <2>2. CASE ~(Counts(run) /\ Apps)
    BY <1>4, <1>9, <1>10, <2>2
  <2> QED BY <2>1, <2>2
<1>12. ToolsFrom(all)' /\ "tools" \in DOMAIN info'
  <2>1. CASE info' = info
    BY <1>4, <1>10, <2>1 DEF ToolsFrom
  <2>2. CASE /\ Counts(run) /\ stanza.name \in DOMAIN ToolNames
             /\ info' = [info EXCEPT !.tools = [kind |-> ToolNames[stanza.name],
                                                version |-> stanza.version]]
    <3>1. /\ "tools" \in DOMAIN info'
          /\ info'.tools = [kind |-> ToolNames[stanza.name], version |-> stanza.version]
      BY <2>2, InfoKeeps
    <3>2. info'.tools.kind = ToolNames[q.name] /\ info'.tools.version = q.version
      BY <1>8, <3>1
    <3>3. q \in all /\ q.name \in DOMAIN ToolNames
      BY <1>4, <1>8, <2>2
    <3> QED BY <3>1, <3>2, <3>3 DEF ToolsFrom
  <2> QED BY <1>9, <2>1, <2>2
<1>13. Collected(all)'
  BY <1>5, <1>11, <1>12 DEF Collected
<1> QED BY <1>5, <1>12, <1>13 DEF Collected, ToolsFrom

LEMMA ToolsStay ==
  ASSUME ProcessPackage, "tools" \in DOMAIN info
  PROVE  "tools" \in DOMAIN info'
<1>1. info' = info \/ \E x : info' = [info EXCEPT !.tools = x]
  BY Zenon DEF ProcessPackage
<1> QED BY <1>1, InfoKeeps

\* A line that is not blank belongs to the stanza.
LEMMA WithLineIs ==
  ASSUME NEW a \in Nat, NEW c \in Nat, a <= c, stanza = StanzaOf(<<a, c - 1>>),
         Contents.dpkg[c].key # "blank"
  PROVE  WithLine(Contents.dpkg[c]) = StanzaOf(<<a, c>>)
<1>1. PICK line : line = Contents.dpkg[c]
  OBVIOUS
<1>2. PICK n : n = LineOf(<<a, c - 1>>, "package", 0)
  OBVIOUS
<1>3. PICK v : v = LineOf(<<a, c - 1>>, "version", "")
  OBVIOUS
<1>4. PICK s : s = LineOf(<<a, c - 1>>, "section", "")
  OBVIOUS
<1>5. PICK i : i = LineOf(<<a, c - 1>>, "status", FALSE)
  OBVIOUS
<1>6. stanza = [name |-> n, version |-> v, section |-> s, installed |-> i]
  BY <1>2, <1>3, <1>4, <1>5, Zenon DEF StanzaOf
<1>7. ASSUME NEW key, NEW none
      PROVE  LineOf(<<a, c>>, key, none) =
               IF line.key = key THEN line.value ELSE LineOf(<<a, c - 1>>, key, none)
  BY <1>1, LineOfMore
<1>8. LineOf(<<a, c>>, "package", 0) = IF line.key = "package" THEN line.value ELSE n
  BY <1>2, <1>7, Zenon
<1>9. LineOf(<<a, c>>, "version", "") = IF line.key = "version" THEN line.value ELSE v
  BY <1>3, <1>7, Zenon
<1>10. LineOf(<<a, c>>, "section", "") = IF line.key = "section" THEN line.value ELSE s
  BY <1>4, <1>7, Zenon
<1>11. LineOf(<<a, c>>, "status", FALSE) = IF line.key = "status" THEN line.value ELSE i
  BY <1>5, <1>7, Zenon
<1>12. StanzaOf(<<a, c>>) =
         [name |-> IF line.key = "package" THEN line.value ELSE n,
          version |-> IF line.key = "version" THEN line.value ELSE v,
          section |-> IF line.key = "section" THEN line.value ELSE s,
          installed |-> IF line.key = "status" THEN line.value ELSE i]
  BY <1>8, <1>9, <1>10, <1>11, Zenon DEF StanzaOf
<1>13. line.key # "blank"
  BY <1>1
<1>14. WithLine(line) =
         [name |-> IF line.key = "package" THEN line.value ELSE n,
          version |-> IF line.key = "version" THEN line.value ELSE v,
          section |-> IF line.key = "section" THEN line.value ELSE s,
          installed |-> IF line.key = "status" THEN line.value ELSE i]
  BY ONLY <1>6, <1>13 DEF WithLine
<1> QED BY <1>1, <1>12, <1>14

\* A line of the status file, or its end.
LEMMA LinesStep ==
  ASSUME PlacesInv, PackagesInv, pc = "analyze", ParseDpkgStatus, UNCHANGED <<pc, disk, os>>
  PROVE  PlacesInv' /\ PackagesInv'
<1> DEFINE n == Len(Contents.dpkg)
<1>1. gpc = "lines" /\ UNCHANGED <<volume, request>>
  BY DEF ParseDpkgStatus
<1>2. /\ IsLinuxVolume(Contents) /\ "tools" \in DOMAIN info
      /\ ~refused => AtLine
  BY <1>1 DEF PlacesInv, PackagesInv
<1>3. /\ IsLinuxVolume(Contents)' /\ Contents' = Contents /\ Installed' = Installed
      /\ \A r : StanzaOf(r)' = StanzaOf(r)
      /\ \A m : InstalledUpTo(m)' = InstalledUpTo(m)
      /\ \A a, c : Begins(a, c)' = Begins(a, c)
  BY <1>1, <1>2, VolumeSame
<1>4. n \in Nat
  BY <1>2 DEF IsLinuxVolume
<1>5. \/ cursor > n /\ LastPackage /\ refused' = refused
      \/ LastPackage /\ refused' = TRUE
      \/ /\ cursor <= n /\ stanza' = WithLine(Contents.dpkg[cursor])
         /\ \/ Contents.dpkg[cursor].key = "blank" /\ ProcessPackage
            \/ Contents.dpkg[cursor].key # "blank" /\ programs' = programs /\ info' = info
         /\ cursor' = cursor + 1 /\ gpc' = gpc /\ refused' = refused
  BY Zenon DEF ParseDpkgStatus, Scan
<1>6. ASSUME AtLine, NEW c, c = cursor
      PROVE  c \in 1 .. n + 1 /\ \E a \in 1 .. c : /\ Begins(a, c)
                                                   /\ stanza = StanzaOf(<<a, c - 1>>)
                                                   /\ Collected(InstalledUpTo(a))
  BY <1>6, Zenon DEF AtLine
<1>7. ASSUME LastPackage, ~refused' => ~refused /\ cursor > n
      PROVE  PlacesInv' /\ PackagesInv'
  <2>1. ProcessPackage /\ gpc' \in BehindLines /\ "tools" \in DOMAIN info'
    <3>1. ProcessPackage /\ gpc' \in BehindLines
      BY <1>7 DEF LastPackage, ToToolFiles, BehindLines
    <3> QED BY <1>2, <3>1, ToolsStay
  <2>2. ~refused' => Collected(Installed)'
    <3> SUFFICES ASSUME ~refused' PROVE Collected(Installed)'
      OBVIOUS
    <3>1. cursor \in 1 .. n + 1 /\ AtLine /\ cursor > n
      BY <1>2, <1>6, <1>7
    <3>2. PICK c : c = cursor
      OBVIOUS
    <3>3. c = n + 1 /\ c \in 1 .. n + 1
      BY <1>4, <3>1, <3>2
    <3>4. PICK a \in 1 .. c : /\ Begins(a, c) /\ stanza = StanzaOf(<<a, c - 1>>)
                              /\ Collected(InstalledUpTo(a))
      BY <1>6, <3>1, <3>2
    <3>5. Collected(InstalledUpTo(c + 1))'
      BY <1>1, <1>2, <2>1, <3>3, <3>4, PackageStep
    <3>6. InstalledUpTo(c + 1)' = Installed'
      BY <1>2, <1>3, <3>3, AllInstalled
    <3> QED BY <3>5, <3>6 DEF Collected, ToolsFrom
  <2> QED BY <1>3, <2>1, <2>2, BehindLinesIs
<1>8. CASE cursor > n /\ LastPackage /\ refused' = refused
  BY <1>7, <1>8, RefusedSame
<1>9. CASE LastPackage /\ refused' = TRUE
  <2>1. ~(~refused')
    BY <1>9, Zenon
  <2> QED BY <1>7, <1>9, <2>1
<1>10. CASE /\ cursor <= n /\ stanza' = WithLine(Contents.dpkg[cursor])
            /\ \/ Contents.dpkg[cursor].key = "blank" /\ ProcessPackage
               \/ Contents.dpkg[cursor].key # "blank" /\ programs' = programs /\ info' = info
            /\ cursor' = cursor + 1 /\ gpc' = gpc /\ refused' = refused
  <2>1. gpc' = "lines" /\ "tools" \in DOMAIN info'
    BY <1>1, <1>2, <1>10, ToolsStay
  <2>2. gpc' \notin WindowsPlaces \cup VolumePlaces \cup BehindLines
                    \cup {"start", "superblock", "done"}
    BY <2>1 DEF WindowsPlaces, VolumePlaces, BehindLines
  <2>3. PlacesInv'
    BY <1>3, <2>1, <2>2 DEF PlacesInv
  <2>4. ~refused' => ~refused
    BY <1>10, RefusedSame
  <2>5. ASSUME ~refused PROVE AtLine'
    <3>1. PICK c : c = cursor
      OBVIOUS
    <3>2. /\ c \in 1 .. n + 1 /\ c \in Nat /\ c <= n /\ c \in 1 .. n
          /\ \E a \in 1 .. c : /\ Begins(a, c) /\ stanza = StanzaOf(<<a, c - 1>>)
                               /\ Collected(InstalledUpTo(a))
      BY <1>2, <1>4, <1>6, <1>10, <2>5, <3>1
    <3>3. PICK a \in 1 .. c : /\ Begins(a, c) /\ stanza = StanzaOf(<<a, c - 1>>)
                              /\ Collected(InstalledUpTo(a))
      BY <3>2
    <3>4. /\ cursor' = c + 1 /\ c + 1 \in 1 .. Len(Contents'.dpkg) + 1 /\ (c + 1) - 1 = c
          /\ a \in Nat /\ a <= c
      BY <1>3, <1>4, <1>10, <3>1, <3>2, <3>3
    <3>5. CASE Contents.dpkg[c].key = "blank"
      <4>1. ProcessPackage /\ stanza' = NoStanza
        BY <1>10, <3>1, <3>5 DEF WithLine
      <4>2. IsBlank(c)
        BY <3>5 DEF IsBlank
      <4>3. Collected(InstalledUpTo(c + 1))'
        BY <1>1, <1>2, <3>2, <3>3, <4>1, <4>2, PackageStep
      <4>4. Begins(c + 1, c + 1)
        <5>1. (c + 1) .. ((c + 1) - 1) = {}
          BY <3>2
        <5> QED BY <3>4, <4>2, <5>1 DEF Begins
      <4>5. StanzaOf(<<c + 1, (c + 1) - 1>>) = NoStanza
        BY <3>2, StanzaOfNone
      <4>6. c + 1 \in 1 .. c + 1
        BY <3>2
      <4>7. /\ Begins(c + 1, c + 1)' /\ stanza' = StanzaOf(<<c + 1, (c + 1) - 1>>)'
        BY <1>3, <4>1, <4>4, <4>5
      <4> QED BY <3>4, <4>3, <4>6, <4>7, LineReached
    <3>6. CASE Contents.dpkg[c].key # "blank"
      <4>1. programs' = programs /\ info' = info
        BY <1>10, <3>1, <3>6
      <4>2. stanza' = StanzaOf(<<a, (c + 1) - 1>>)
        BY <1>10, <3>1, <3>2, <3>3, <3>4, <3>6, WithLineIs
      <4>3. Begins(a, c + 1)
        <5>1. \A i \in a .. (c + 1) - 1 : i = c \/ i \in a .. c - 1
          BY <3>2, <3>4
        <5> QED BY <3>3, <3>6, <5>1 DEF Begins, IsBlank
      <4>4. Collected(InstalledUpTo(a))'
        BY <1>1, <1>3, <3>3, <4>1 DEF Collected, ToolsFrom, Apps
      <4>5. a \in 1 .. c + 1
        BY <3>2, <3>3
      <4>6. /\ Begins(a, c + 1)' /\ stanza' = StanzaOf(<<a, (c + 1) - 1>>)'
        BY <1>3, <4>2, <4>3
      <4> QED BY <3>4, <4>4, <4>5, <4>6, LineReached
    <3> QED BY <3>5, <3>6
  <2>6. PackagesInv'
    BY <2>2, <2>4, <2>5 DEF PackagesInv
  <2> QED BY <2>3, <2>6
<1> QED BY <1>5, <1>8, <1>9, <1>10

\* A file of the tools makes them known without a version.
LEMMA ToolFilesStep ==
  ASSUME PlacesInv, PackagesInv, pc = "analyze", DetectToolFiles, UNCHANGED <<pc, disk, os>>
  PROVE  PlacesInv' /\ PackagesInv'
<1>1. /\ gpc = "tool_files" /\ gpc' \in BehindLines /\ UNCHANGED <<volume, request, programs>>
  BY DEF DetectToolFiles, Access, NextPath, BehindLines
<1>2. /\ IsLinuxVolume(Contents) /\ "tools" \in DOMAIN info
      /\ ~refused => (programs = <<>> /\ info.tools.version = "") \/ Collected(Installed)
  BY <1>1 DEF PlacesInv, PackagesInv, BehindLines
<1>3. /\ IsLinuxVolume(Contents)' /\ Installed' = Installed
  BY <1>1, <1>2, VolumeSame
<1>4. \/ info' = info
      \/ \E k : info' = [info EXCEPT !.tools = [kind |-> k, version |-> ""]]
  BY Zenon DEF DetectToolFiles, Access, NextPath
<1>5. "tools" \in DOMAIN info' /\ (info' = info \/ info'.tools.version = "")
  <2>1. CASE info' = info
    BY <1>2, <2>1
  <2>2. ASSUME NEW k, info' = [info EXCEPT !.tools = [kind |-> k, version |-> ""]]
        PROVE  "tools" \in DOMAIN info' /\ info'.tools.version = ""
    <3>1. "tools" \in DOMAIN info' /\ info'.tools = [kind |-> k, version |-> ""]
      BY <1>2, <2>2, InfoKeeps
    <3>2. [kind |-> k, version |-> ""].version = ""
      OBVIOUS
    <3> QED BY <3>1, <3>2, Zenon
  <2> QED BY <1>4, <2>1, <2>2
<1>6. TellsTheToken
  BY LinuxTells DEF LinuxStep
<1>7. Collected(Installed) => Collected(Installed)'
  <2>1. ToolsFrom(Installed) => ToolsFrom(Installed)'
    BY <1>3, <1>5 DEF ToolsFrom
  <2> QED BY <1>1, <1>3, <2>1 DEF Collected, Apps
<1>8. ~refused' => (programs' = <<>> /\ info'.tools.version = "") \/ Collected(Installed)'
  BY <1>1, <1>2, <1>5, <1>6, <1>7, RefusedStays
<1> QED BY <1>1, <1>3, <1>5, <1>8, BehindLinesIs

\* The list is put in order, and the analysis is over.
LEMMA SortStep ==
  ASSUME PlacesInv, PackagesInv, pc = "analyze", SortPackages, UNCHANGED <<pc, disk, os>>
  PROVE  PlacesInv' /\ PackagesInv'
<1>1. /\ gpc = "sort" /\ gpc' = "done" /\ UNCHANGED <<volume, request, info>>
      /\ refused' = refused
      /\ programs' = IF Apps THEN SortedPrograms(programs) ELSE programs
  BY DEF SortPackages
<1>2. /\ IsLinuxVolume(Contents)
      /\ ~refused => (programs = <<>> /\ info.tools.version = "") \/ Collected(Installed)
  BY <1>1 DEF PlacesInv, PackagesInv, BehindLines
<1>3. /\ Installed' = Installed /\ (Apps' <=> Apps)
  BY <1>1, VolumeSame DEF Apps
<1>4. \A p \in Installed : p.name \in Int
  BY <1>2, AllInstalled
<1>5. ASSUME programs = <<>>, info.tools.version = "" PROVE ExactReport'
  <2>1. programs \in Seq(Installed) /\ ToSet(programs) = {}
    <3>1. ToSet(<<>>) = {} /\ <<>> \in Seq(Installed)
      BY DEF ToSet
    <3> QED BY <1>5, <3>1
  <2>2. PICK u : u = SortedPrograms(programs)
    OBVIOUS
  <2>3. u \in Seq(Installed) /\ ToSet(u) \subseteq {}
    BY <1>4, <2>1, <2>2, SortedProgramsAre
  <2>4. DOMAIN u = {}
    BY <2>3 DEF ToSet
  <2>5. u = <<>>
    BY <2>3, <2>4
  <2>6. programs' = <<>>
    BY <1>1, <1>5, <2>2, <2>5
  <2> QED BY <1>1, <1>5, <2>6 DEF ExactReport, ToolsFrom
<1>6. ASSUME Collected(Installed) PROVE ExactReport'
  <2>1. programs \in Seq(Installed) /\ ToolsFrom(Installed)
    BY <1>6 DEF Collected
  <2>2. ToolsFrom(Installed)'
    BY <1>1, <1>3, <2>1 DEF ToolsFrom
  <2>3. CASE ~Apps
    <3>1. programs' = <<>>
      BY <1>1, <1>6, <2>3 DEF Collected
    <3> QED BY <2>2, <3>1 DEF ExactReport
  <2>4. CASE Apps
    <3>1. ToSet(programs) = Installed /\ programs' = SortedPrograms(programs)
      BY <1>1, <1>6, <2>4 DEF Collected
    <3>2. /\ ToSet(programs') \subseteq Installed
          /\ \A e \in Installed : \E p \in ToSet(programs') : SameProgram(p, e)
          /\ \A k \in 1 .. Len(programs') - 1 :
               /\ programs'[k].name <= programs'[k + 1].name
               /\ ~SameProgram(programs'[k], programs'[k + 1])
      BY <1>4, <2>1, <3>1, SortedProgramsAre
    <3>3. ListsExactly(Installed)'
      BY <1>3, <3>2 DEF ListsExactly, SameProgram
    <3> QED BY <1>3, <2>2, <2>4, <3>3 DEF ExactReport
  <2> QED BY <2>3, <2>4
<1>7. ~refused' => ~refused
  BY <1>1, RefusedSame
<1>8. ~refused' => ExactReport'
  BY <1>2, <1>5, <1>6, <1>7
<1>9. PlacesInv'
  BY <1>1 DEF PlacesInv, WindowsPlaces, VolumePlaces, BehindLines
<1>10. PackagesInv'
  BY <1>1, <1>8 DEF PackagesInv, BehindLines
<1> QED BY <1>9, <1>10

LEMMA LinuxInvStep == DetectorInv /\ LinuxInv /\ [Next]_vars => LinuxInv'
<1> SUFFICES ASSUME DetectorInv, LinuxInv, [Next]_vars PROVE PlacesInv' /\ PackagesInv'
  BY ToldStep DEF LinuxInv
<1>0. Told /\ PlacesInv /\ PackagesInv /\ disk \in Disks
  BY DEF LinuxInv, DetectorInv, DetectorTypes
<1>1. ASSUME pc \notin {"analyze", "report", "finish", "done"}, UNCHANGED guestVars
      PROVE  PlacesInv' /\ PackagesInv'
  <2>1. gpc = "start"
    BY <1>0, <1>1 DEF PlacesInv
  <2>2. UNCHANGED <<gpc, programs, info, cursor, stanza>>
    BY <1>1 DEF guestVars, resultVars, scanVars
  <2> QED BY <1>0, <2>1, <2>2, StartStill
<1>2. CASE DetectTable \/ DetectFileSystems \/ Increment
  <2>1. pc = "detecting" /\ UNCHANGED guestVars
    BY <1>2 DEF DetectTable, DetectFileSystems, Detecting, Increment
  <2> QED BY <1>1, <2>1
<1>3. CASE Metadata \/ Identify \/ OpenBackend \/ Detected
  <2>1. pc \in {"metadata", "identify", "open", "detecting"} /\ UNCHANGED guestVars
    BY <1>3 DEF Metadata, Identify, OpenBackend, Detected
  <2> QED BY <1>1, <2>1
<1>4. CASE Begin \/ Backend \/ Detect \/ Guest
  <2>1. pc \in {"begin", "backend", "detect", "guest"} /\ UNCHANGED guestVars
    BY <1>4 DEF Begin, Backend, Detect, Guest, EnterStage
  <2> QED BY <1>1, <2>1
<1>5. CASE AnalyzeGuest
  <2>1. pc = "analyze" /\ UNCHANGED <<pc, disk, os>>
    BY <1>5 DEF AnalyzeGuest, Analyzing, detectorVars
  <2>2. CASE GetInspector /\ UNCHANGED <<hiveVars, stanza>>
    BY <1>0, <2>1, <2>2, InspectorStep
  <2>3. CASE WindowsStep
    BY <1>0, <2>1, <2>3, WindowsPlacesStep
  <2>4. CASE LinuxStep
    BY <1>0, <2>1, <2>4, SuperBlockStep, SmallFilesStep, DpkgStep, LinesStep, ToolFilesStep,
       SortStep DEF LinuxStep
  <2> QED BY <1>5, <2>2, <2>3, <2>4 DEF AnalyzeGuest, Analyzing
<1>6. CASE Analyzed \/ Report \/ Finish
  <2>1. /\ UNCHANGED <<guestVars, detectorVars, refused>>
        /\ pc' \in {"report", "finish", "done"}
    BY <1>6 DEF Analyzed, Report, Finish, EnterStage, Goto, Return
  <2>2. UNCHANGED <<guestVars, disk, os, refused>>
    BY <2>1 DEF detectorVars
  <2> QED BY <1>0, <2>1, <2>2, GuestStill
<1>7. CASE EngineCancel \/ ProgressCancel \/ ProgressCancelLink \/ UNCHANGED vars
  <2>1. UNCHANGED <<guestVars, detectorVars, refused, pc>>
    BY <1>7 DEF EngineCancel, ProgressCancel, ProgressCancelLink, vars
  <2>2. /\ UNCHANGED <<guestVars, disk, os, refused>>
        /\ gpc # "start" => pc' \in {"analyze", "report", "finish", "done"}
    BY <1>0, <2>1 DEF detectorVars, PlacesInv
  <2> QED BY <1>0, <2>2, GuestStill
<1> QED BY <1>2, <1>3, <1>4, <1>5, <1>6, <1>7 DEF Next, Step

LEMMA LinuxInvInit == Init => LinuxInv
<1> SUFFICES ASSUME Init PROVE LinuxInv
  OBVIOUS
<1>1. /\ parts = <<>> /\ gpc = "start" /\ programs = <<>> /\ info = NoInfo
      /\ cursor = 1 /\ stanza = NoStanza
  BY DEF Init, DetectorInit, GuestInit, LinuxInit
<1>2. Told
  BY <1>1 DEF Told
<1>3. "tools" \in DOMAIN info /\ info.tools = NoTools
  BY <1>1 DEF NoInfo
<1>4. PlacesInv
  BY <1>1, <1>3 DEF PlacesInv, WindowsPlaces, VolumePlaces, BehindLines
<1>5. PackagesInv
  BY <1>1 DEF PackagesInv, BehindLines
<1> QED BY <1>2, <1>4, <1>5 DEF LinuxInv

\* The Linux analyser never warns, and what it reports is all or nothing: a list of
\* programs that is not empty is exactly the installed packages of the dpkg status
\* file of the volume it chose, in order and without neighbours that are alike, and
\* tools with a version are one of them.  This holds for every status file, whichever
\* reads fail, unless a cancellation was met.
THEOREM PackagesAreExact == Spec => []PackagesExact
<1>1. LinuxInv => PackagesExact
  BY Zenon DEF LinuxInv, PackagesInv, ExactReport, ToolsFrom, PackagesExact
<1> QED BY <1>1, DetectorInvInit, DetectorInvStep, LinuxInvInit, LinuxInvStep, PTL DEF Spec

-----------------------------------------------------------------------------
(* The date of the kernel. *)

\* civil_from_days: the year of the era and the day of the year, from the day of the
\* era, of which there are 146097.
LEMMA YearOfEra ==
  ASSUME NEW doe \in Nat, doe <= 146096, NEW yoe,
         yoe = (doe - doe \div 1460 + doe \div 36524 - doe \div 146096) \div 365
  PROVE  /\ yoe \in Nat /\ yoe <= 399
         /\ doe - (365 * yoe + yoe \div 4 - yoe \div 100) \in Nat
         /\ doe - (365 * yoe + yoe \div 4 - yoe \div 100) <= 365
<1>1. PICK q1 \in Int : q1 = doe \div 1460 /\ 1460 * q1 <= doe /\ doe < 1460 * q1 + 1460
  BY SMT
<1>2. PICK q2 \in Int : q2 = doe \div 36524 /\ 36524 * q2 <= doe /\ doe < 36524 * q2 + 36524
  BY SMT
<1>3. PICK q3 \in Int : q3 = doe \div 146096 /\ 146096 * q3 <= doe /\ doe < 146096 * q3 + 146096
  BY SMT
<1>4. yoe \in Int /\ 365 * yoe <= doe - q1 + q2 - q3 /\ doe - q1 + q2 - q3 < 365 * yoe + 365
  BY <1>1, <1>2, <1>3, SMT
<1>5. PICK f \in Int : f = yoe \div 4 /\ 4 * f <= yoe /\ yoe < 4 * f + 4
  BY <1>4, SMT
<1>6. PICK c \in Int : c = yoe \div 100 /\ 100 * c <= yoe /\ yoe < 100 * c + 100
  BY <1>4, SMT
<1>7. 0 <= q2 /\ q2 <= 4 /\ 0 <= q3 /\ q3 <= 1 /\ 0 <= q1 /\ q1 <= 100
  BY <1>1, <1>2, <1>3, SMT
<1>8. yoe \in Nat /\ yoe <= 399
  BY <1>1, <1>2, <1>3, <1>4, <1>7, SMT
<1>9. doe - (365 * yoe + f - c) \in Nat /\ doe - (365 * yoe + f - c) <= 365
  BY <1>1, <1>2, <1>3, <1>4, <1>5, <1>6, <1>7, <1>8, SMTT(60)
<1> QED BY <1>5, <1>6, <1>8, <1>9, SMT

\* The leap years before a year, from 1970 on.
LeapsBefore(y) == {x \in 1970 .. y - 1 : Leap(x)}
LeapCount(y) == (y - 1) \div 4 - (y - 1) \div 100 + (y - 1) \div 400 - 477

LEMMA OneMoreYear ==
  ASSUME NEW y \in Nat, y >= 1970
  PROVE  LeapCount(y + 1) = LeapCount(y) + (IF Leap(y) THEN 1 ELSE 0)
<1>1. PICK a \in Int, b \in Int : a = (y - 1) \div 4 /\ b = y \div 4
  OBVIOUS
<1>2. PICK c \in Int, d \in Int : c = (y - 1) \div 100 /\ d = y \div 100
  OBVIOUS
<1>3. PICK e \in Int, f \in Int : e = (y - 1) \div 400 /\ f = y \div 400
  OBVIOUS
<1>4. b = a + (IF y % 4 = 0 THEN 1 ELSE 0)
  BY <1>1
<1>5. d = c + (IF y % 100 = 0 THEN 1 ELSE 0)
  BY <1>2
<1>6. f = e + (IF y % 400 = 0 THEN 1 ELSE 0)
  BY <1>3
<1>7. (y % 400 = 0 => y % 100 = 0) /\ (y % 100 = 0 => y % 4 = 0)
  OBVIOUS
<1>8. LeapCount(y) = a - c + e - 477 /\ LeapCount(y + 1) = b - d + f - 477
  BY <1>1, <1>2, <1>3 DEF LeapCount
<1> QED BY <1>4, <1>5, <1>6, <1>7, <1>8 DEF Leap

LEMMA LeapsAre ==
  ASSUME NEW y \in Nat, y >= 1970
  PROVE  Cardinality(LeapsBefore(y)) = LeapCount(y)
<1> DEFINE P(n) == Cardinality(LeapsBefore(1970 + n)) = LeapCount(1970 + n)
           T == {n \in Nat : ~P(n)}
<1>1. \A n \in Nat : IsFiniteSet(LeapsBefore(1970 + n))
  <2> TAKE n \in Nat
  <2>1. 1970 \in Int /\ 1970 + n - 1 \in Int
    OBVIOUS
  <2>2. IsFiniteSet(1970 .. 1970 + n - 1)
    BY <2>1, FS_Interval
  <2>3. LeapsBefore(1970 + n) \in SUBSET (1970 .. 1970 + n - 1)
    BY DEF LeapsBefore
  <2> QED BY <2>2, <2>3, FS_Subset
<1>2. P(0)
  <2>1. LeapsBefore(1970 + 0) = {}
    BY DEF LeapsBefore
  <2>2. LeapCount(1970 + 0) = 0
    BY DEF LeapCount
  <2>3. Cardinality(LeapsBefore(1970 + 0)) = 0
    BY <2>1, FS_EmptySet
  <2> QED BY <2>2, <2>3
<1>3. ASSUME NEW n \in Nat, P(n) PROVE P(n + 1)
  <2>1. PICK x : x = 1970 + n
    OBVIOUS
  <2>2. x \in Nat /\ x >= 1970 /\ 1970 + (n + 1) = x + 1
    BY <2>1
  <2>3. LeapsBefore(x + 1) = IF Leap(x) THEN LeapsBefore(x) \cup {x} ELSE LeapsBefore(x)
    <3>1. \A k : k \in 1970 .. x + 1 - 1 <=> k \in 1970 .. x - 1 \/ k = x
      BY <2>2
    <3> QED BY <3>1 DEF LeapsBefore
  <2>4. x \notin LeapsBefore(x) /\ IsFiniteSet(LeapsBefore(x))
    BY <1>1, <2>1, <2>2 DEF LeapsBefore
  <2>5. Cardinality(LeapsBefore(x)) = LeapCount(x)
    BY <1>3, <2>1
  <2>6. Cardinality(LeapsBefore(x) \cup {x}) = Cardinality(LeapsBefore(x)) + 1
    BY <2>4, FS_AddElement
  <2>7. LeapCount(x + 1) = LeapCount(x) + (IF Leap(x) THEN 1 ELSE 0) /\ LeapCount(x) \in Int
    BY <2>2, OneMoreYear DEF LeapCount
  <2>8. Cardinality(LeapsBefore(x + 1)) = LeapCount(x + 1)
    BY <2>3, <2>5, <2>6, <2>7
  <2> QED BY <2>2, <2>8
<1>4. y - 1970 \in Nat /\ 1970 + (y - 1970) = y
  OBVIOUS
<1>5. SUFFICES P(y - 1970)
  BY <1>4
<1> HIDE DEF P
<1>6. T = {}
  <2> SUFFICES ASSUME T # {} PROVE FALSE
    OBVIOUS
  <2>1. T \subseteq Nat /\ T # {}
    OBVIOUS
  <2>2. PICK n \in T : \A m \in T : n <= m
    <3> HIDE DEF T
    <3> QED BY ONLY <2>1, Least, Zenon
  <2>3. n \in Nat /\ n # 0
    BY <1>2
  <2>4. n - 1 \in Nat /\ n - 1 \notin T /\ n - 1 + 1 = n
    BY <2>2, <2>3
  <2> QED BY <1>3, <2>4
<1> QED BY <1>4, <1>6

\* The days of a year that are in front of its months.
Before == <<0, 31, 59, 90, 120, 151, 181, 212, 243, 273, 304, 334>>

\* Months counted from March, from the day of the year that begins then.
LEMMA MonthOfYear ==
  ASSUME NEW doy \in Nat, doy <= 365, NEW mp, mp = (5 * doy + 2) \div 153
  PROVE  /\ mp \in Nat /\ mp <= 11
         /\ mp < 10 => (153 * mp + 2) \div 5 = Before[mp + 3] - 59
         /\ mp >= 10 => (153 * mp + 2) \div 5 = Before[mp - 9] + 306
         /\ doy >= 306 => mp >= 10
<1>1. mp \in Nat /\ mp <= 11 /\ (doy >= 306 => mp >= 10)
  OBVIOUS
<1>2. \/ mp = 0 \/ mp = 1 \/ mp = 2 \/ mp = 3 \/ mp = 4 \/ mp = 5
      \/ mp = 6 \/ mp = 7 \/ mp = 8 \/ mp = 9 \/ mp = 10 \/ mp = 11
  BY <1>1
<1>3. /\ Before[1] = 0 /\ Before[2] = 31 /\ Before[3] = 59 /\ Before[4] = 90
      /\ Before[5] = 120 /\ Before[6] = 151 /\ Before[7] = 181 /\ Before[8] = 212
      /\ Before[9] = 243 /\ Before[10] = 273 /\ Before[11] = 304 /\ Before[12] = 334
  BY DEF Before
<1>4. mp < 10 => (153 * mp + 2) \div 5 = Before[mp + 3] - 59
  BY <1>2, <1>3
<1>5. mp >= 10 => (153 * mp + 2) \div 5 = Before[mp - 9] + 306
  BY <1>2, <1>3
<1> QED BY <1>1, <1>4, <1>5

LEMMA BeforeIs == \A i \in 1 .. 12 : Before[i] \in Nat
<1>1. Before \in Seq(Nat) /\ DOMAIN Before = 1 .. 12
  BY DEF Before
<1> QED BY <1>1, SeqElement

\* civil_from_days is right: the number of the date it gives is the day it was given.
LEMMA CivilIs ==
  ASSUME NEW days \in Nat
  PROVE  DayNumber(CivilFromDays(days)) = days
<1> DEFINE z   == days + 719468
           era == z \div 146097
           doe == z - era * 146097
           yoe == (doe - doe \div 1460 + doe \div 36524 - doe \div 146096) \div 365
           doy == doe - (365 * yoe + yoe \div 4 - yoe \div 100)
           mp  == (5 * doy + 2) \div 153
           m   == IF mp < 10 THEN mp + 3 ELSE mp - 9
           y   == yoe + era * 400 + (IF m <= 2 THEN 1 ELSE 0)
<1>1. CivilFromDays(days) = <<y, m, doy - (153 * mp + 2) \div 5 + 1>>
  BY SMT DEF CivilFromDays
<1>2. z \in Nat /\ z = days + 719468
  BY SMT
<1>3. era \in Nat /\ era * 146097 <= z /\ z < era * 146097 + 146097
  <2> HIDE DEF z
  <2> QED BY <1>2, SMT
<1>4. doe \in Nat /\ doe = z - era * 146097 /\ doe <= 146096
  <2> HIDE DEF z, era
  <2> QED BY <1>2, <1>3, SMT
<1>5. yoe \in Nat /\ yoe <= 399
  <2> HIDE DEF doe
  <2> QED BY <1>4, YearOfEra, SMT
<1>6. doy = doe - (365 * yoe + yoe \div 4 - yoe \div 100)
  <2> HIDE DEF doe, yoe
  <2> QED BY SMT
<1>7. doy \in Nat /\ doy <= 365
  <2> HIDE DEF doe
  <2> QED BY <1>4, YearOfEra, SMT
<1> HIDE DEF z, era, doe, yoe, doy
<1>8. /\ mp \in Nat /\ mp <= 11
      /\ mp < 10 => (153 * mp + 2) \div 5 = Before[mp + 3] - 59
      /\ mp >= 10 => (153 * mp + 2) \div 5 = Before[mp - 9] + 306
      /\ doy >= 306 => mp >= 10
  BY <1>7, MonthOfYear, SMT
<1> HIDE DEF mp
<1>9. m = IF mp < 10 THEN mp + 3 ELSE mp - 9
  BY SMT
<1>10. m \in Int /\ (m <= 2 <=> ~(mp < 10)) /\ (m > 2 <=> mp < 10)
  BY <1>8, SMT
<1> HIDE DEF m
<1>11. y = yoe + era * 400 + (IF mp < 10 THEN 0 ELSE 1)
  BY <1>10, SMT
<1> HIDE DEF y
<1>12. PICK f \in Int : f = yoe \div 4 /\ 4 * f <= yoe /\ yoe < 4 * f + 4
  BY <1>5, SMT
<1>13. PICK c \in Int : c = yoe \div 100 /\ 100 * c <= yoe /\ yoe < 100 * c + 100
  BY <1>5, SMT
<1>14. y \in Nat /\ y >= 1970
  BY <1>2, <1>3, <1>4, <1>5, <1>6, <1>7, <1>8, <1>11, <1>12, <1>13, SMT
<1>15. PICK Y \in Nat : Y = yoe + era * 400
  BY <1>3, <1>5, SMT
<1>16. Y \div 4 = f + 100 * era /\ Y \div 100 = c + 4 * era /\ Y \div 400 = era
  BY <1>3, <1>5, <1>12, <1>13, <1>15, SMT
<1>17. LeapCount(Y + 1) = f - c + 97 * era - 477
  BY <1>3, <1>16, SMT DEF LeapCount
<1>18. PICK before \in Nat : before = Before[m]
  <2>1. m \in 1 .. 12
    BY <1>8, <1>9, SMT
  <2> QED BY <2>1, BeforeIs
<1>19. PICK k \in Int : /\ k = (153 * mp + 2) \div 5
                        /\ k = before + (IF mp < 10 THEN -59 ELSE 306)
  BY <1>8, <1>9, <1>18, SMT
<1>20. Cardinality(LeapsBefore(y)) + (IF Leap(y) /\ m > 2 THEN 1 ELSE 0) = LeapCount(Y + 1)
  <2>1. CASE mp < 10
    <3>1. y = Y /\ m > 2
      BY <1>11, <1>10, <1>15, <2>1, SMT
    <3> QED BY <1>14, <3>1, LeapsAre, OneMoreYear, SMT
  <2>2. CASE ~(mp < 10)
    <3>1. y = Y + 1 /\ ~(m > 2)
      BY <1>11, <1>10, <1>15, <2>2, SMT
    <3> QED BY <1>3, <1>14, <1>17, <3>1, LeapsAre, SMT
  <2> QED BY <2>1, <2>2, SMT
<1>21. DayNumber(<<y, m, doy - k + 1>>) =
         365 * (y - 1970) + Cardinality(LeapsBefore(y)) + before
           + (IF Leap(y) /\ m > 2 THEN 1 ELSE 0) + (doy - k + 1) - 1
  BY <1>18, SMT DEF DayNumber, LeapsBefore, Before
<1>22. Cardinality(LeapsBefore(y)) \in Int
  BY <1>14, LeapsAre, SMT DEF LeapCount
<1>23. DayNumber(CivilFromDays(days)) =
         365 * (y - 1970) + (f - c + 97 * era - 477) + before + (doy - k + 1) - 1
  BY <1>7, <1>1, <1>14, <1>17, <1>20, <1>21, <1>19, <1>22, SMT
<1>24. y = Y + (IF mp < 10 THEN 0 ELSE 1)
  BY <1>11, <1>15, SMT
<1>25. doy = days + 719468 - era * 146097 - 365 * yoe - f + c
  BY <1>2, <1>3, <1>4, <1>5, <1>6, <1>12, <1>13, SMT
<1> QED BY <1>3, <1>5, <1>7, <1>8, <1>15, <1>19, <1>23, <1>24, <1>25, SMT

-----------------------------------------------------------------------------
(* What the Windows analyser has at each of its places. *)

LinuxPlaces == VolumePlaces \cup BehindLines \cup {"superblock", "lines"}

NtfsParts ==
  {p \in PartitionType : p.fs = "ntfs" /\ FsAt(p.start \div Sector) = "ntfs"}

\* A hive that is not there, or one that can be told by its keys.
MayBeHive(h) == h = NoHive \/ IsHive(h)
HoldsHives == MayBeHive(Contents.software) /\ MayBeHive(Contents.system)

\* Nothing was found yet, in whichever hives.
NothingFound ==
  /\ programs = <<>> /\ "from_folders" \notin warnings
  /\ list = 1 /\ cursor = 1 /\ fallback = FALSE

\* SOFTWARE could be opened: the information is the hive's, and a warning tells
\* of a recovery.
SoftwareOpened ==
  /\ fallback = FALSE /\ IsHive(software) /\ MayBeHive(system) /\ Opens(software)
  /\ warnings = {} => software.state = "clean"
  /\ System => info = ExtractGuestInfo(software)

\* It could not: that is told, and a date is the kernel's.
Dated ==
  /\ {"name", "build", "tools"} \subseteq DOMAIN info
  /\ info.name = "approximate" => DayNumber(info.build) \in KernelDays
Lost ==
  /\ fallback = TRUE /\ ~Opens(software)
  /\ "software_lost" \in warnings /\ "from_folders" \notin warnings
  /\ Dated

\* The programs of the keys that search_programs_in_registry went through.
EntriesAt(i, j) == ToSet(ProgramsOf(software.uninstall[i][j]))
EntriesUpTo(l, c) ==
  {e \in EntriesOf(software) :
     \E i \in {1, 2} : \E j \in DOMAIN software.uninstall[i] :
       (i < l \/ (i = l /\ j < c)) /\ e \in EntriesAt(i, j)}
AtKey ==
  /\ list \in {1, 2, 3} /\ cursor \in Nat \ {0}
  /\ list <= 2 => cursor <= Len(software.uninstall[list]) + 1
  /\ programs \in Seq(EntriesOf(software))
  /\ ToSet(programs) = EntriesUpTo(list, cursor)

Wanted == IF Apps THEN EntriesOf(software) ELSE {}
FromFolders == IsList(programs) /\ \A p \in ToSet(programs) : p.source = "folder"

\* The parts of RegistryExact.
Truthful ==
  warnings = {} =>
    /\ software.state = "clean"
    /\ System => InfoHeld
    /\ System /\ Evidence(software) = {} => system.state \in {"clean", "missing"}
Registered ==
  /\ Truthful
  /\ Opens(software) => ListsExactly(Wanted)
  /\ ~Opens(software) =>
       /\ \A p \in ToSet(programs) : p.source = "folder"
       /\ programs # <<>> <=> "from_folders" \in warnings
       /\ info.name = "approximate" => DayNumber(info.build) \in KernelDays

RegistryInv ==
  /\ gpc \in LinuxPlaces => os # "windows"
  /\ gpc \in {"start", "find_system", "extract"} =>
       NothingFound /\ software = NoHive /\ system = NoHive
  /\ gpc = "find_system" => candidates \in Seq(NtfsParts)
  /\ gpc \in {"extract", "read_system"} => HoldsHives
  /\ gpc = "read_system" => NothingFound /\ IsHive(software) /\ system = NoHive
  /\ gpc = "open_software" => NothingFound /\ IsHive(software) /\ MayBeHive(system)
  /\ gpc = "uninstall" => Apps /\ SoftwareOpened /\ (~refused => AtKey)
  /\ gpc = "system" =>
       \/ SoftwareOpened /\ (~refused => ListsExactly(Wanted))
       \/ Lost /\ programs = <<>> /\ MayBeHive(system)
  /\ gpc \in {"remount", "kernel", "license"} => Lost /\ programs = <<>>
  /\ gpc \in {"folders", "folder", "entries"} => Lost /\ FromFolders
  /\ gpc = "done" /\ os = "windows" /\ (System \/ Apps) /\ ~refused => Registered

-----------------------------------------------------------------------------
(* What the hives hold. *)

LEMMA MinIs ==
  ASSUME NEW T, T \subseteq Nat, T # {}
  PROVE  Min(T) \in T
<1>1. \E x \in T : \A y \in T : x <= y
  BY Least
<1>2. Min(T) \in T
  BY <1>1, Zenon DEF Min
<1> QED BY <1>2

LEMMA KindsAre == "none" \notin ToSet(Kinds) /\ NoTools.kind = "none"
BY DEF ToSet, Kinds, NoTools

\* The first text among some values is one of theirs, and "" only where none is.
LEMMA FirstTextIs ==
  ASSUME NEW values, IsList(values), NEW fields
  PROVE  LET held == {x \in ToSet(values) : x.name \in fields /\ x.text # ""}
         IN \/ held = {} /\ FirstText(values, fields) = ""
            \/ FirstText(values, fields) # "" /\ \E v \in held : FirstText(values, fields) = v.text
<1> DEFINE I == {i \in 1 .. Len(values) : values[i].name \in fields /\ values[i].text # ""}
           at == IF I # {} THEN Min(I) ELSE 0
<1>1. FirstText(values, fields) = IF at = 0 THEN "" ELSE values[at].text
  BY DEF FirstText, SelectInSeq
<1>2. DOMAIN values = 1 .. Len(values) /\ Len(values) \in Nat
  BY DEF IsList
<1>3. I \subseteq Nat /\ 0 \notin I
  <2>1. I \subseteq 1 .. Len(values)
    BY Zenon
  <2> HIDE DEF I
  <2> QED BY <1>2, <2>1
<1>4. CASE I = {}
  BY <1>1, <1>2, <1>4 DEF ToSet
<1>5. CASE I # {}
  <2>1. at \in I /\ at # 0
    BY <1>3, <1>5, MinIs
  <2> HIDE DEF at
  <2> QED BY <1>1, <1>2, <2>1 DEF ToSet
<1> QED BY <1>4, <1>5

\* The keys that name integration tools, and what is made of them.
LEMMA ClassifyIs ==
  ASSUME NEW keys, IsKeys(keys)
  PROVE  \/ ClassifyKeys(keys) = NoTools /\ \A k \in ToSet(keys) : ~NamesTools(k)
         \/ /\ ClassifyKeys(keys) # NoTools
            /\ \E k \in ToSet(keys) :
                 NamesTools(k) /\ ClassifyKeys(keys).kind = ToolNames[k.DisplayName]
<1> DEFINE I == {i \in 1 .. Len(keys) : NamesTools(keys[i])}
           at == IF I # {} THEN Min(I) ELSE 0
<1>1. ClassifyKeys(keys) = IF at = 0 THEN NoTools
                           ELSE [kind |-> ToolNames[keys[at].DisplayName],
                                 version |-> Value(keys[at], "DisplayVersion")]
  BY DEF ClassifyKeys, SelectInSeq
<1>2. DOMAIN keys = 1 .. Len(keys) /\ Len(keys) \in Nat
  BY DEF IsKeys, IsList
<1>3. I \subseteq Nat /\ 0 \notin I
  BY <1>2
<1>4. CASE I = {}
  BY <1>1, <1>2, <1>4 DEF ToSet
<1>5. CASE I # {}
  <2>1. at \in I /\ at # 0
    BY <1>3, <1>5, MinIs
  <2> HIDE DEF at
  <2>2. keys[at] \in ToSet(keys) /\ NamesTools(keys[at])
    BY <1>2, <2>1 DEF ToSet
  <2>3. ClassifyKeys(keys).kind = ToolNames[keys[at].DisplayName]
    BY <1>1, <2>1
  <2>4. ToolNames[keys[at].DisplayName] # "none"
    BY <2>2, KindsAre, WindowsAssumption DEF NamesTools
  <2>5. ClassifyKeys(keys) # NoTools
    BY <2>3, <2>4, KindsAre
  <2> QED BY <2>2, <2>3, <2>5
<1> QED BY <1>4, <1>5

LEMMA ToolKeyIs ==
  ASSUME NEW keys, DOMAIN keys \subseteq ToSet(Kinds)
  PROVE  \/ ToolKey(keys) = NoTools /\ DOMAIN keys = {}
         \/ ToolKey(keys) # NoTools /\ ToolKey(keys).kind \in DOMAIN keys
<1> DEFINE I == {i \in 1 .. Len(Kinds) : Kinds[i] \in DOMAIN keys}
           at == IF I # {} THEN Min(I) ELSE 0
<1>1. ToolKey(keys) = IF at = 0 THEN NoTools
                      ELSE [kind |-> Kinds[at], version |-> keys[Kinds[at]]]
  BY DEF ToolKey, SelectInSeq
<1>2. DOMAIN Kinds = 1 .. Len(Kinds) /\ Len(Kinds) \in Nat
  BY DEF Kinds
<1>3. I \subseteq Nat /\ 0 \notin I
  BY <1>2
<1>4. CASE I = {}
  BY <1>1, <1>2, <1>4 DEF ToSet
<1>5. CASE I # {}
  <2>1. at \in I /\ at # 0
    BY <1>3, <1>5, MinIs
  <2> HIDE DEF at
  <2>2. Kinds[at] \in DOMAIN keys /\ Kinds[at] # "none"
    BY <2>1, KindsAre
  <2>3. ToolKey(keys).kind = Kinds[at]
    BY <1>1, <2>1
  <2> QED BY <2>2, <2>3, KindsAre
<1> QED BY <1>4, <1>5

LEMMA FirstToolsIs ==
  ASSUME NEW a, NEW b, NEW c, NEW d
  PROVE  \/ FirstTools(<<a, b, c, d>>) = NoTools /\ {a, b, c, d} \subseteq {NoTools}
         \/ FirstTools(<<a, b, c, d>>) \in {a, b, c, d} \ {NoTools}
<1>1. PICK four : four = <<a, b, c, d>>
  OBVIOUS
<1> DEFINE I == {i \in 1 .. Len(four) : four[i] # NoTools}
           at == IF I # {} THEN Min(I) ELSE 0
<1>2. FirstTools(four) = IF at = 0 THEN NoTools ELSE four[at]
  BY DEF FirstTools, SelectInSeq
<1>3. /\ Len(four) = 4 /\ four[1] = a /\ four[2] = b /\ four[3] = c /\ four[4] = d
  BY <1>1
<1>4. I \subseteq Nat /\ 0 \notin I
  BY <1>3
<1>5. CASE I = {}
  BY <1>1, <1>2, <1>3, <1>5
<1>6. CASE I # {}
  <2>1. at \in I /\ at # 0
    BY <1>4, <1>6, MinIs
  <2> HIDE DEF at
  <2>2. at = 1 \/ at = 2 \/ at = 3 \/ at = 4
    BY <1>3, <2>1
  <2> QED BY <1>1, <1>2, <1>3, <2>1, <2>2
<1> QED BY <1>5, <1>6

\* The tools that SOFTWARE names are there whenever it gives evidence of any.
LEMMA SoftwareToolsAre ==
  ASSUME NEW hive, IsHive(hive)
  PROVE  \/ SoftwareTools(hive) = NoTools /\ Evidence(hive) = {}
         \/ SoftwareTools(hive) # NoTools /\ SoftwareTools(hive).kind \in Evidence(hive)
<1>1. PICK a, b, c, d : /\ a = ToolKey(hive.tools) /\ b = ClassifyKeys(hive.products)
                        /\ c = ClassifyKeys(hive.uninstall[1])
                        /\ d = ClassifyKeys(hive.uninstall[2])
  OBVIOUS
<1>2. SoftwareTools(hive) = FirstTools(<<a, b, c, d>>)
  BY <1>1 DEF SoftwareTools
<1>3. PICK keys : keys = KeysOf(hive) \cup ToSet(hive.products)
  OBVIOUS
<1>4. /\ \A k \in keys : NamesTools(k) => ToolNames[k.DisplayName] \in Evidence(hive)
      /\ DOMAIN hive.tools \subseteq Evidence(hive)
      /\ DOMAIN hive.tools = {} /\ (\A k \in keys : ~NamesTools(k)) => Evidence(hive) = {}
  BY <1>3 DEF Evidence
<1>5. /\ ToSet(hive.uninstall[1]) \subseteq keys /\ ToSet(hive.uninstall[2]) \subseteq keys
      /\ ToSet(hive.products) \subseteq keys
      /\ keys \subseteq ToSet(hive.uninstall[1]) \cup ToSet(hive.uninstall[2]) \cup ToSet(hive.products)
  BY <1>3 DEF KeysOf
<1>6. \/ a = NoTools /\ DOMAIN hive.tools = {}
      \/ a # NoTools /\ a.kind \in Evidence(hive)
  BY <1>1, <1>4, ToolKeyIs DEF IsHive
<1>7. \/ b = NoTools /\ \A k \in ToSet(hive.products) : ~NamesTools(k)
      \/ b # NoTools /\ b.kind \in Evidence(hive)
  BY <1>1, <1>4, <1>5, ClassifyIs DEF IsHive
<1>8. \/ c = NoTools /\ \A k \in ToSet(hive.uninstall[1]) : ~NamesTools(k)
      \/ c # NoTools /\ c.kind \in Evidence(hive)
  BY <1>1, <1>4, <1>5, ClassifyIs DEF IsHive
<1>9. \/ d = NoTools /\ \A k \in ToSet(hive.uninstall[2]) : ~NamesTools(k)
      \/ d # NoTools /\ d.kind \in Evidence(hive)
  BY <1>1, <1>4, <1>5, ClassifyIs DEF IsHive
<1>10. \/ SoftwareTools(hive) = NoTools /\ {a, b, c, d} \subseteq {NoTools}
       \/ SoftwareTools(hive) \in {a, b, c, d} \ {NoTools}
  BY <1>2, FirstToolsIs
<1> QED BY <1>4, <1>5, <1>6, <1>7, <1>8, <1>9, <1>10

LEMMA ProgramsOfIs ==
  ASSUME NEW key
  PROVE  \/ ProgramsOf(key) = <<>> /\ ToSet(ProgramsOf(key)) = {}
         \/ \E q : ProgramsOf(key) = <<q>> /\ ToSet(ProgramsOf(key)) = {q}
<1>1. ToSet(<<>>) = {} /\ \A q : ToSet(<<q>>) = {q}
  BY DEF ToSet
<1>2. ProgramsOf(key) = <<>> \/ \E q : ProgramsOf(key) = <<q>>
  BY Zenon DEF ProgramsOf
<1> QED BY <1>1, <1>2

\* Every key of the two trees, in whatever order, and its programs.
LEMMA EntriesAre ==
  ASSUME IsHive(software)
  PROVE  /\ \A i \in {1, 2} : \A j \in DOMAIN software.uninstall[i] :
              EntriesAt(i, j) \subseteq EntriesOf(software)
         /\ \A e \in EntriesOf(software) : \E i \in {1, 2} :
              \E j \in DOMAIN software.uninstall[i] : e \in EntriesAt(i, j)
         /\ \A i \in {1, 2} : /\ DOMAIN software.uninstall[i] = 1 .. Len(software.uninstall[i])
                              /\ Len(software.uninstall[i]) \in Nat
         /\ \A e \in EntriesOf(software) : e.name \in Int
<1>1. IsKeys(software.uninstall[1]) /\ IsKeys(software.uninstall[2])
  BY DEF IsHive
<1>2. \A i \in {1, 2} : /\ DOMAIN software.uninstall[i] = 1 .. Len(software.uninstall[i])
                        /\ Len(software.uninstall[i]) \in Nat
  BY <1>1 DEF IsKeys, IsList
<1>3. \A k : k \in KeysOf(software) <=>
               \E i \in {1, 2} : \E j \in DOMAIN software.uninstall[i] : k = software.uninstall[i][j]
  BY DEF KeysOf, ToSet
<1>4. \A e : e \in EntriesOf(software) <=>
               \E k \in KeysOf(software) : e \in ToSet(ProgramsOf(k))
  BY DEF EntriesOf
<1>5. \A i \in {1, 2} : \A j \in DOMAIN software.uninstall[i] :
        EntriesAt(i, j) \subseteq EntriesOf(software)
  BY <1>3, <1>4 DEF EntriesAt
<1>6. \A e \in EntriesOf(software) : \E i \in {1, 2} :
        \E j \in DOMAIN software.uninstall[i] : e \in EntriesAt(i, j)
  BY <1>3, <1>4 DEF EntriesAt
<1>7. ASSUME NEW e \in EntriesOf(software) PROVE e.name \in Int
  <2>1. PICK k \in KeysOf(software) : e \in ToSet(ProgramsOf(k))
    BY <1>4
  <2>2. "DisplayName" \in DOMAIN k => k.DisplayName \in Nat
    BY <1>1, <2>1 DEF KeysOf, IsKeys
  <2>3. ToSet(<<>>) = {} /\ \A q : ToSet(<<q>>) = {q}
    BY DEF ToSet
  <2>4. /\ "DisplayName" \in DOMAIN k
        /\ ProgramsOf(k) = <<[name |-> k.DisplayName, version |-> Value(k, "DisplayVersion"),
                              publisher |-> Value(k, "Publisher"), source |-> "registry"]>>
    BY <2>1, <2>3, Zenon DEF ProgramsOf
  <2>5. e = [name |-> k.DisplayName, version |-> Value(k, "DisplayVersion"),
             publisher |-> Value(k, "Publisher"), source |-> "registry"]
    BY <2>1, <2>3, <2>4
  <2> QED BY <2>2, <2>4, <2>5
<1> QED BY <1>2, <1>5, <1>6, <1>7

LEMMA EntriesMove ==
  ASSUME IsHive(software), NEW l \in {1, 2, 3}, NEW c \in Nat \ {0}
  PROVE  /\ EntriesUpTo(1, 1) = {}
         /\ l = 3 => EntriesUpTo(l, c) = EntriesOf(software)
         /\ l # 3 /\ c > Len(software.uninstall[l]) => EntriesUpTo(l + 1, 1) = EntriesUpTo(l, c)
         /\ l # 3 /\ c <= Len(software.uninstall[l]) =>
              EntriesUpTo(l, c + 1) = EntriesUpTo(l, c) \cup EntriesAt(l, c)
<1>1. \A i \in {1, 2} : /\ DOMAIN software.uninstall[i] = 1 .. Len(software.uninstall[i])
                        /\ Len(software.uninstall[i]) \in Nat
  BY EntriesAre
<1>2. \A i \in {1, 2} : \A j \in DOMAIN software.uninstall[i] : j \in Nat \ {0}
  BY <1>1
<1>3. \A i \in {1, 2} : \A j \in DOMAIN software.uninstall[i] :
        EntriesAt(i, j) \subseteq EntriesOf(software)
  BY EntriesAre
<1>4. EntriesUpTo(1, 1) = {}
  BY <1>2 DEF EntriesUpTo
<1>5. l = 3 => EntriesUpTo(l, c) = EntriesOf(software)
  BY EntriesAre DEF EntriesUpTo
<1>6. ASSUME l # 3, c > Len(software.uninstall[l])
      PROVE  EntriesUpTo(l + 1, 1) = EntriesUpTo(l, c)
  <2>1. \A i \in {1, 2} : \A j \in DOMAIN software.uninstall[i] :
          (i < l + 1 \/ (i = l + 1 /\ j < 1)) <=> (i < l \/ (i = l /\ j < c))
    BY <1>1, <1>2, <1>6
  <2> QED BY <2>1 DEF EntriesUpTo
<1>7. ASSUME l # 3, c <= Len(software.uninstall[l])
      PROVE  EntriesUpTo(l, c + 1) = EntriesUpTo(l, c) \cup EntriesAt(l, c)
  <2>1. \A i \in {1, 2} : \A j \in DOMAIN software.uninstall[i] :
          (i < l \/ (i = l /\ j < c + 1)) <=> ((i < l \/ (i = l /\ j < c)) \/ (i = l /\ j = c))
    BY <1>2
  <2>2. l \in {1, 2} /\ c \in DOMAIN software.uninstall[l]
    BY <1>1, <1>7
  <2>3. EntriesAt(l, c) \subseteq EntriesOf(software)
    BY <1>3, <2>2
  <2> QED BY <2>1, <2>2, <2>3 DEF EntriesUpTo
<1> QED BY <1>4, <1>5, <1>6, <1>7

\* What extract_guest_info takes from SOFTWARE.
LEMMA InfoIs ==
  ASSUME IsHive(software), info = ExtractGuestInfo(software)
  PROVE  /\ {"name", "build", "tools"} \subseteq DOMAIN info
         /\ info.tools = SoftwareTools(software)
         /\ info.name \in IF TextsOf(software, "ProductName") = {} THEN {"unknown_edition"}
                          ELSE TextsOf(software, "ProductName")
<1>1. PICK product : product = FirstText(software.values, {"ProductName"})
  OBVIOUS
<1>2. /\ {"name", "build", "tools"} \subseteq DOMAIN info
      /\ info.tools = SoftwareTools(software)
      /\ info.name = IF product = "" THEN "unknown_edition" ELSE product
  BY <1>1 DEF ExtractGuestInfo
<1>3. PICK held : held = {x \in ToSet(software.values) : x.name \in {"ProductName"} /\ x.text # ""}
  OBVIOUS
<1>4. \/ held = {} /\ product = ""
      \/ product # "" /\ \E v \in held : product = v.text
  BY <1>1, <1>3, FirstTextIs DEF IsHive
<1>5. TextsOf(software, "ProductName") = {v.text : v \in held}
  BY <1>3 DEF TextsOf
<1> QED BY <1>2, <1>4, <1>5

-----------------------------------------------------------------------------
(* The steps. *)

LEMMA RequestSame ==
  ASSUME request' = request
  PROVE  (Apps' <=> Apps) /\ (System' <=> System)
BY DEF Apps, System

\* The list and what it should hold.
LEMMA ListSame ==
  ASSUME UNCHANGED <<request, programs, software>>
  PROVE  /\ Wanted' = Wanted /\ (ListsExactly(Wanted)' <=> ListsExactly(Wanted))
         /\ (FromFolders' <=> FromFolders)
<1>1. Wanted' = Wanted
  BY RequestSame DEF Wanted
<1> QED BY <1>1 DEF ListsExactly, FromFolders

\* Nothing changes behind an analyser that stands still.
LEMMA RegistryStill ==
  ASSUME RegistryInv, UNCHANGED <<guestVars, disk, os, refused>>
  PROVE  RegistryInv'
<1>1. /\ UNCHANGED <<request, gpc, candidates, volume, info, programs, warnings, list, cursor>>
      /\ UNCHANGED <<software, system, fallback, disk, os>>
      /\ refused' = refused
  BY DEF guestVars, resultVars, scanVars, hiveVars
<1>2. /\ (Apps' <=> Apps) /\ (System' <=> System)
  BY <1>1, RequestSame
<1>3. /\ (ListsExactly(Wanted)' <=> ListsExactly(Wanted)) /\ (FromFolders' <=> FromFolders)
  BY <1>1, ListSame
<1>4. (HoldsHives' <=> HoldsHives) /\ NtfsParts' = NtfsParts
  BY <1>1 DEF HoldsHives, Contents, NtfsParts, FsAt
<1>5. (NothingFound' <=> NothingFound) /\ (Lost' <=> Lost)
  BY <1>1 DEF NothingFound, Lost, Dated
<1>6. SoftwareOpened' <=> SoftwareOpened
  BY <1>1, <1>2 DEF SoftwareOpened
<1>7. AtKey' <=> AtKey
  BY <1>1 DEF AtKey, EntriesUpTo, EntriesAt
<1>8. Registered' <=> Registered
  BY <1>1, <1>2, <1>3 DEF Registered, Truthful, InfoHeld
<1>9. ~refused' => ~refused
  BY <1>1, RefusedSame
<1> QED BY <1>1, <1>2, <1>3, <1>4, <1>5, <1>6, <1>7, <1>8, <1>9 DEF RegistryInv

LEMMA RegistryStart ==
  ASSUME RegistryInv, gpc = "start", UNCHANGED guestVars
  PROVE  RegistryInv'
<1>1. UNCHANGED <<gpc, programs, warnings, list, cursor, software, system, fallback>>
  BY DEF guestVars, resultVars, scanVars, hiveVars
<1>2. NothingFound' <=> NothingFound
  BY <1>1 DEF NothingFound
<1> QED BY <1>1, <1>2 DEF RegistryInv, LinuxPlaces, VolumePlaces, BehindLines

\* get_inspector: the Windows analyser is given the NTFS partitions.
LEMMA RegistryInspector ==
  ASSUME DetectorInv, Told, RegistryInv, GetInspector, UNCHANGED <<hiveVars, disk, os>>
  PROVE  RegistryInv'
<1>1. /\ gpc = "start" /\ UNCHANGED <<request, programs, warnings, list, cursor>>
      /\ UNCHANGED <<software, system, fallback>>
  BY DEF GetInspector, scanVars, hiveVars
<1>2. NothingFound' /\ software' = NoHive /\ system' = NoHive
  BY <1>1 DEF RegistryInv, NothingFound
<1>3. (Apps' <=> Apps) /\ (System' <=> System)
  BY <1>1, RequestSame
<1>4. \/ gpc' = "done" /\ (os = "unknown" \/ (~System /\ ~Apps))
      \/ gpc' = "superblock" /\ os = "linux"
      \/ gpc' = "find_system" /\ candidates' = OfFileSystem({"ntfs"})
  BY Zenon DEF GetInspector
<1>5. CASE gpc' = "done" /\ (os = "unknown" \/ (~System /\ ~Apps))
  BY <1>3, <1>5 DEF RegistryInv, LinuxPlaces, VolumePlaces, BehindLines
<1>6. CASE gpc' = "superblock" /\ os = "linux"
  BY <1>6 DEF RegistryInv, LinuxPlaces, VolumePlaces, BehindLines
<1>7. CASE gpc' = "find_system" /\ candidates' = OfFileSystem({"ntfs"})
  <2>1. parts \in Seq(PartitionType)
    BY DEF DetectorInv, DetectorTypes
  <2>2. PICK I : I = {p \in DOMAIN parts : parts[p].fs \in {"ntfs"}}
    OBVIOUS
  <2>3. I \in SUBSET DOMAIN parts
    BY <2>2
  <2>4. PICK ntfs : ntfs = Kept(parts, I)
    OBVIOUS
  <2>5. /\ ntfs \in Seq(PartitionType) /\ Len(ntfs) = Cardinality(I)
        /\ \E at \in [1 .. Cardinality(I) -> I] :
             \A k \in 1 .. Cardinality(I) : ntfs[k] = parts[at[k]]
    <3>1. /\ Kept(parts, I) \in Seq(PartitionType)
          /\ Len(Kept(parts, I)) = Cardinality(I)
          /\ \E at \in [1 .. Cardinality(I) -> I] :
               \A k \in 1 .. Cardinality(I) : Kept(parts, I)[k] = parts[at[k]]
      BY <2>1, <2>3, KeptIs, ZenonT(60)
    <3> QED BY <2>4, <3>1
  <2>6. \A i \in I : parts[i] \in NtfsParts
    <3> TAKE i \in I
    <3>1. parts[i] \in PartitionType /\ parts[i].fs = "ntfs" /\ i \in DOMAIN parts
      BY <2>1, <2>2
    <3> QED BY <3>1 DEF Told, NtfsParts
  <2>7. \A k \in 1 .. Len(ntfs) : ntfs[k] \in NtfsParts
    BY <2>5, <2>6
  <2>8. ntfs \in Seq(NtfsParts)
    BY <2>5, <2>7
  <2>9. NtfsParts' = NtfsParts
    BY DEF NtfsParts, FsAt
  <2>10. candidates' \in Seq(NtfsParts)'
    BY <1>7, <2>2, <2>4, <2>8, <2>9 DEF OfFileSystem
  <2> QED BY <1>2, <1>7, <2>10 DEF RegistryInv, LinuxPlaces, VolumePlaces, BehindLines
<1> QED BY <1>4, <1>5, <1>6, <1>7

\* The Linux analyser works on other disks.
LEMMA RegistryLinux ==
  ASSUME RegistryInv, LinuxStep, os' = os
  PROVE  RegistryInv'
<1>1. gpc \in LinuxPlaces /\ gpc' \in LinuxPlaces \cup {"done"}
  <2>1. CASE ReadSuperBlock
    BY <2>1 DEF ReadSuperBlock, Mount, LinuxPlaces, VolumePlaces, BehindLines
  <2>2. CASE ReadOsRelease
    BY <2>2 DEF ReadOsRelease, Access, NextPath, LinuxPlaces, VolumePlaces, BehindLines
  <2>3. CASE ReadHostname \/ SortPackages
    BY <2>3 DEF ReadHostname, SortPackages, LinuxPlaces, VolumePlaces, BehindLines
  <2>4. ToToolFiles => gpc' \in LinuxPlaces
    BY DEF ToToolFiles, LinuxPlaces, VolumePlaces, BehindLines
  <2>5. CASE ReadDpkg
    <3>1. gpc = "dpkg" /\ (gpc' = "lines" \/ ToToolFiles)
      BY <2>5 DEF ReadDpkg, Access
    <3> QED BY <2>4, <3>1 DEF LinuxPlaces, VolumePlaces, BehindLines
  <2>6. CASE ParseDpkgStatus
    <3>1. gpc = "lines" /\ (gpc' = gpc \/ ToToolFiles)
      BY <2>6 DEF ParseDpkgStatus, Scan, LastPackage
    <3> QED BY <2>4, <3>1 DEF LinuxPlaces, VolumePlaces, BehindLines
  <2>7. CASE DetectToolFiles
    BY <2>7 DEF DetectToolFiles, Access, NextPath, LinuxPlaces, VolumePlaces, BehindLines
  <2> QED BY <2>1, <2>2, <2>3, <2>5, <2>6, <2>7 DEF LinuxStep
<1>2. os' # "windows"
  BY <1>1 DEF RegistryInv
<1> QED BY <1>1, <1>2 DEF RegistryInv, LinuxPlaces, VolumePlaces, BehindLines

\* Without a SOFTWARE hive there is nothing to report, and a warning says so.
LEMMA DegradedIs ==
  ASSUME NEW about, about # "from_folders", Degraded(about), software' = NoHive
  PROVE  gpc' = "done" /\ Registered'
<1>1. /\ gpc' = "done" /\ programs' = <<>> /\ warnings' = {about}
      /\ info' = [NoInfo EXCEPT !.name = "dirty"]
  BY DEF Degraded
<1>2. info'.name = "dirty"
  BY <1>1 DEF NoInfo
<1>3. ~Opens(software')
  BY DEF Opens, NoHive
<1>4. ToSet(programs') = {}
  BY <1>1 DEF ToSet
<1> QED BY <1>1, <1>2, <1>3, <1>4 DEF Registered, Truthful

LEMMA AtDone ==
  ASSUME gpc' = "done", Registered'
  PROVE  RegistryInv'
BY DEF RegistryInv, LinuxPlaces, VolumePlaces, BehindLines

\* The volume with the configuration is an NTFS volume.
LEMMA FindSystemStep ==
  ASSUME disk \in Disks, RegistryInv, FindSystem, UNCHANGED <<disk, os>>
  PROVE  RegistryInv'
<1>1. /\ gpc = "find_system" /\ UNCHANGED <<request, list, cursor, software, system, fallback>>
  BY DEF FindSystem, scanVars, hiveVars
<1>2. NothingFound /\ software' = NoHive /\ system' = NoHive /\ candidates \in Seq(NtfsParts)
  BY <1>1 DEF RegistryInv
<1>3. NtfsParts' = NtfsParts
  BY DEF NtfsParts, FsAt
<1>4. \/ Degraded("no_system_volume")
      \/ /\ candidates # <<>> /\ UNCHANGED <<programs, warnings>>
         /\ \/ gpc' = "extract" /\ volume' = Head(candidates).start \div Sector
            \/ gpc' = gpc /\ candidates' = Tail(candidates)
  BY DEF FindSystem, Mount, resultVars
<1>5. CASE Degraded("no_system_volume")
  <2>1. gpc' = "done" /\ Registered'
    BY <1>2, <1>5, DegradedIs
  <2> QED BY <2>1, AtDone
<1>6. ASSUME candidates # <<>>, UNCHANGED <<programs, warnings>>, gpc' = gpc,
             candidates' = Tail(candidates)
      PROVE  RegistryInv'
  <2>1. candidates' \in Seq(NtfsParts)'
    BY <1>2, <1>3, <1>6
  <2>2. NothingFound'
    BY <1>1, <1>2, <1>6 DEF NothingFound
  <2> QED BY <1>1, <1>2, <1>6, <2>1, <2>2 DEF RegistryInv, LinuxPlaces, VolumePlaces, BehindLines
<1>7. ASSUME candidates # <<>>, UNCHANGED <<programs, warnings>>, gpc' = "extract",
             volume' = Head(candidates).start \div Sector
      PROVE  RegistryInv'
  <2>1. Head(candidates) \in NtfsParts
    BY <1>2, <1>7
  <2>2. FsAt(volume') = "ntfs"
    BY <1>7, <2>1 DEF NtfsParts
  <2>3. volume' \in DOMAIN disk.fs /\ disk.fs[volume'] = "ntfs"
    BY <2>2 DEF FsAt
  <2>4. \A h \in {disk.guest[volume'].software, disk.guest[volume'].system} : h = NoHive \/ IsHive(h)
    BY <2>3, WindowsAssumption
  <2>5. HoldsHives'
    BY <2>4 DEF HoldsHives, MayBeHive, Contents
  <2>6. NothingFound'
    BY <1>1, <1>2, <1>7 DEF NothingFound
  <2> QED BY <1>2, <1>7, <2>5, <2>6 DEF RegistryInv, LinuxPlaces, VolumePlaces, BehindLines
<1> QED BY <1>4, <1>5, <1>6, <1>7

LEMMA ExtractStep ==
  ASSUME RegistryInv, ExtractSoftware, UNCHANGED <<disk, os>>
  PROVE  RegistryInv'
<1>1. /\ gpc = "extract" /\ UNCHANGED <<request, volume, list, cursor, system, fallback>>
  BY DEF ExtractSoftware, scanVars
<1>2. NothingFound /\ software = NoHive /\ system' = NoHive /\ HoldsHives
  BY <1>1 DEF RegistryInv
<1>3. \/ Degraded("not_extracted") /\ software' = software
      \/ /\ Contents.software # NoHive /\ software' = Contents.software
         /\ gpc' \in {"read_system", "open_software"} /\ UNCHANGED <<programs, warnings>>
  BY DEF ExtractSoftware, Mount, resultVars
<1>4. CASE Degraded("not_extracted") /\ software' = software
  <2>1. gpc' = "done" /\ Registered'
    BY <1>2, <1>4, DegradedIs
  <2> QED BY <2>1, AtDone
<1>5. CASE /\ Contents.software # NoHive /\ software' = Contents.software
           /\ gpc' \in {"read_system", "open_software"} /\ UNCHANGED <<programs, warnings>>
  <2>1. IsHive(software')
    BY <1>2, <1>5 DEF HoldsHives, MayBeHive
  <2>2. HoldsHives'
    BY <1>1, <1>2 DEF HoldsHives, Contents
  <2>3. NothingFound'
    BY <1>1, <1>2, <1>5 DEF NothingFound
  <2>4. MayBeHive(system)'
    BY <1>2 DEF MayBeHive
  <2> QED BY <1>2, <1>5, <2>1, <2>2, <2>3, <2>4 DEF RegistryInv, LinuxPlaces, VolumePlaces, BehindLines
<1> QED BY <1>3, <1>4, <1>5

LEMMA ReadSystemStep ==
  ASSUME RegistryInv, ReadSystem, UNCHANGED <<disk, os>>
  PROVE  RegistryInv'
<1>1. /\ gpc = "read_system" /\ gpc' = "open_software"
      /\ UNCHANGED <<request, programs, list, cursor, software, fallback>>
  BY DEF ReadSystem, scanVars
<1>2. NothingFound /\ IsHive(software) /\ system = NoHive /\ HoldsHives
  BY <1>1 DEF RegistryInv
<1>3. \/ system' = Contents.system /\ warnings' = warnings
      \/ system' = system /\ warnings' = warnings \cup {"system_unread"}
  BY DEF ReadSystem, Access, Warn
<1>4. MayBeHive(system)'
  BY <1>2, <1>3 DEF HoldsHives, MayBeHive
<1>5. NothingFound'
  BY <1>1, <1>2, <1>3 DEF NothingFound
<1> QED BY <1>1, <1>2, <1>4, <1>5 DEF RegistryInv, LinuxPlaces, VolumePlaces, BehindLines

LEMMA EntriesReached ==
  ASSUME software' = software, NEW l, NEW c, list' = l, cursor' = c
  PROVE  EntriesUpTo(list, cursor)' = EntriesUpTo(l, c)
BY DEF EntriesUpTo, EntriesAt

\* SOFTWARE opens, by recovery too, or is given up: both are told.
LEMMA OpenSoftwareStep ==
  ASSUME RegistryInv, OpenSoftware, UNCHANGED <<disk, os>>
  PROVE  RegistryInv'
<1>1. /\ gpc = "open_software"
      /\ UNCHANGED <<request, programs, list, cursor, software, system>>
  BY DEF OpenSoftware, scanVars
<1>2. /\ NothingFound /\ IsHive(software) /\ MayBeHive(system)
  BY <1>1 DEF RegistryInv
<1>3. (Apps' <=> Apps) /\ (System' <=> System)
  BY <1>1, RequestSame
<1>4. CASE Opens(software)
  <2>1. /\ info' = IF System THEN ExtractGuestInfo(software) ELSE NoInfo
        /\ warnings' = warnings \cup Notice(software, "software_recovered")
        /\ gpc' = IF Apps THEN "uninstall" ELSE "system"
        /\ fallback' = fallback
    BY <1>4 DEF OpenSoftware, Warn
  <2>2. warnings' = {} => software.state = "clean"
    BY <1>4, <2>1 DEF Notice, Opens
  <2>3. SoftwareOpened'
    BY <1>1, <1>2, <1>3, <1>4, <2>1, <2>2 DEF SoftwareOpened, NothingFound
  <2>4. CASE Apps
    <3>1. EntriesUpTo(1, 1) = {}
      <4>1. 1 \in {1, 2, 3} /\ 1 \in Nat \ {0}
        OBVIOUS
      <4> QED BY <1>2, <4>1, EntriesMove
    <3>2. programs' = <<>> /\ list' = 1 /\ cursor' = 1
      BY <1>1, <1>2 DEF NothingFound
    <3>3. Len(software'.uninstall[1]) \in Nat
      BY <1>1, <1>2, EntriesAre
    <3>4. ToSet(programs') = {} /\ programs' \in Seq(EntriesOf(software'))
      BY <3>2 DEF ToSet
    <3>5. AtKey'
      <4>1. EntriesUpTo(list, cursor)' = EntriesUpTo(1, 1)
        BY <1>1, <3>2, EntriesReached
      <4>2. list' \in {1, 2, 3} /\ cursor' \in Nat \ {0}
        BY <3>2
      <4>3. cursor' <= Len(software'.uninstall[list']) + 1
        BY <3>2, <3>3
      <4>4. ToSet(programs') = EntriesUpTo(list, cursor)'
        BY <3>1, <3>4, <4>1
      <4> QED BY <3>4, <4>2, <4>3, <4>4 DEF AtKey
    <3> QED BY <1>3, <2>1, <2>3, <2>4, <3>5 DEF RegistryInv, LinuxPlaces, VolumePlaces, BehindLines
  <2>5. CASE ~Apps
    <3>1. programs' = <<>> /\ Wanted' = {}
      BY <1>1, <1>2, <1>3, <2>5 DEF NothingFound, Wanted
    <3>2. ToSet(programs') = {} /\ Len(programs') = 0
      BY <3>1 DEF ToSet
    <3>3. ListsExactly(Wanted)'
      BY <3>1, <3>2 DEF ListsExactly
    <3> QED BY <2>1, <2>3, <2>5, <3>3 DEF RegistryInv, LinuxPlaces, VolumePlaces, BehindLines
  <2> QED BY <2>4, <2>5
<1>5. CASE ~Opens(software)
  <2>1. /\ info' = [NoInfo EXCEPT !.name = "dirty"] /\ warnings' = warnings \cup {"software_lost"}
        /\ fallback' = TRUE /\ gpc' = "system"
    BY <1>5 DEF OpenSoftware, Warn
  <2>2. {"name", "build", "tools"} \subseteq DOMAIN info' /\ info'.name = "dirty"
    BY <2>1 DEF NoInfo
  <2>3. Lost'
    BY <1>1, <1>2, <1>5, <2>1, <2>2 DEF Lost, Dated, NothingFound
  <2>4. programs' = <<>> /\ MayBeHive(system)'
    BY <1>1, <1>2 DEF NothingFound
  <2> QED BY <2>1, <2>3, <2>4 DEF RegistryInv, LinuxPlaces, VolumePlaces, BehindLines
<1> QED BY <1>4, <1>5

\* One key of the two trees, or the order at the end.
LEMMA SearchStep ==
  ASSUME RegistryInv, SearchPrograms, UNCHANGED <<disk, os>>
  PROVE  RegistryInv'
<1>1. /\ gpc = "uninstall" /\ UNCHANGED <<request, info, warnings, software, system, fallback>>
  BY DEF SearchPrograms, hiveVars
<1>2. Apps /\ SoftwareOpened /\ (~refused => AtKey)
  BY <1>1 DEF RegistryInv
<1>3. (Apps' <=> Apps) /\ (System' <=> System)
  BY <1>1, RequestSame
<1>4. SoftwareOpened'
  BY <1>1, <1>2, <1>3 DEF SoftwareOpened
<1>5. /\ IsHive(software) /\ EntriesOf(software') = EntriesOf(software)
      /\ \A l, c : EntriesUpTo(l, c)' = EntriesUpTo(l, c)
  BY <1>1, <1>2 DEF SoftwareOpened, EntriesUpTo, EntriesAt
<1>6. ~refused' => ~refused
  <2>1. TellsTheToken
    BY WindowsTells DEF WindowsStep
  <2> QED BY <2>1, RefusedStays
<1>7. ASSUME list > 2, programs' = SortedPrograms(programs), gpc' = "system"
      PROVE  RegistryInv'
  <2>1. ASSUME AtKey PROVE ListsExactly(Wanted)'
    <3>1. list = 3 /\ cursor \in Nat \ {0} /\ programs \in Seq(EntriesOf(software))
      BY <1>7, <2>1 DEF AtKey
    <3>2. ToSet(programs) = EntriesOf(software)
      BY <1>5, <2>1, <3>1, EntriesMove DEF AtKey
    <3>3. \A e \in EntriesOf(software) : e.name \in Int
      BY <1>5, EntriesAre
    <3>4. PICK u : u = SortedPrograms(programs)
      OBVIOUS
    <3>5. /\ ToSet(u) \subseteq EntriesOf(software)
          /\ \A e \in EntriesOf(software) : \E p \in ToSet(u) : SameProgram(p, e)
          /\ \A k \in 1 .. Len(u) - 1 :
               u[k].name <= u[k + 1].name /\ ~SameProgram(u[k], u[k + 1])
      BY <3>1, <3>2, <3>3, <3>4, SortedProgramsAre
    <3>6. Wanted' = EntriesOf(software) /\ programs' = u
      BY <1>2, <1>3, <1>5, <1>7, <3>4 DEF Wanted
    <3> QED BY <3>5, <3>6 DEF ListsExactly, SameProgram
  <2>2. ~refused' => ListsExactly(Wanted)'
    BY <1>2, <1>6, <2>1
  <2> QED BY <1>4, <1>7, <2>2 DEF RegistryInv, LinuxPlaces, VolumePlaces, BehindLines
<1>8. ASSUME gpc' = gpc, ~refused' => AtKey'
      PROVE  RegistryInv'
  BY <1>1, <1>2, <1>3, <1>4, <1>8 DEF RegistryInv, LinuxPlaces, VolumePlaces, BehindLines
<1>9. ASSUME list <= 2, cursor > Len(software.uninstall[list]), NextList, programs' = programs, AtKey
      PROVE  AtKey'
  <2>1. list' = list + 1 /\ cursor' = 1 /\ list \in {1, 2} /\ cursor \in Nat \ {0}
    BY <1>9 DEF NextList, AtKey
  <2>2. EntriesUpTo(list + 1, 1) = EntriesUpTo(list, cursor)
    BY <1>5, <1>9, <2>1, EntriesMove
  <2>3. EntriesUpTo(list, cursor)' = EntriesUpTo(list + 1, 1)
    BY <1>1, <2>1, EntriesReached
  <2>4. \A i \in {1, 2} : Len(software'.uninstall[i]) \in Nat
    BY <1>1, <1>5, EntriesAre
  <2>5. list' \in {1, 2, 3} /\ cursor' \in Nat \ {0}
    BY <2>1
  <2>6. list' <= 2 => cursor' <= Len(software'.uninstall[list']) + 1
    BY <2>1, <2>4
  <2> QED BY <1>5, <1>9, <2>2, <2>3, <2>5, <2>6 DEF AtKey
<1>10. ASSUME list <= 2, cursor <= Len(software.uninstall[list]), cursor' = cursor + 1,
              list' = list, programs' = programs \o ProgramsOf(software.uninstall[list][cursor]),
              AtKey
       PROVE  AtKey'
  <2>1. list \in {1, 2} /\ cursor \in Nat \ {0}
    BY <1>10 DEF AtKey
  <2>2. EntriesUpTo(list, cursor + 1) = EntriesUpTo(list, cursor) \cup EntriesAt(list, cursor)
    BY <1>5, <1>10, <2>1, EntriesMove
  <2>3. EntriesUpTo(list, cursor)' = EntriesUpTo(list, cursor + 1)
    BY <1>1, <1>10, EntriesReached
  <2>4. Len(software.uninstall[list]) \in Nat /\ cursor \in DOMAIN software.uninstall[list]
    BY <1>5, <1>10, <2>1, EntriesAre
  <2>5. EntriesAt(list, cursor) \subseteq EntriesOf(software)
    BY <1>5, <2>1, <2>4, EntriesAre
  <2>6. programs \in Seq(EntriesOf(software))
    BY <1>10 DEF AtKey
  <2>7. PICK more : more = ProgramsOf(software.uninstall[list][cursor])
    OBVIOUS
  <2>8. \/ more = <<>> /\ EntriesAt(list, cursor) = {}
        \/ \E q : more = <<q>> /\ EntriesAt(list, cursor) = {q}
    BY <2>7, ProgramsOfIs DEF EntriesAt
  <2>9. /\ programs' \in Seq(EntriesOf(software))
        /\ ToSet(programs') = ToSet(programs) \cup EntriesAt(list, cursor)
    <3>1. CASE more = <<>> /\ EntriesAt(list, cursor) = {}
      <4>1. programs' = programs
        BY <1>10, <2>6, <2>7, <3>1
      <4> QED BY <2>6, <3>1, <4>1
    <3>2. ASSUME NEW q, more = <<q>>, EntriesAt(list, cursor) = {q}
          PROVE  /\ programs' \in Seq(EntriesOf(software))
                 /\ ToSet(programs') = ToSet(programs) \cup EntriesAt(list, cursor)
      <4>1. q \in EntriesOf(software)
        BY <2>5, <3>2
      <4>2. programs' = Append(programs, q)
        <5>1. programs' = programs \o <<q>>
          BY <1>10, <2>7, <3>2
        <5> QED BY <2>6, <4>1, <5>1
      <4> QED BY <2>6, <3>2, <4>1, <4>2, ToSetAppend
    <3> QED BY <2>8, <3>1, <3>2
  <2>10. ToSet(programs) = EntriesUpTo(list, cursor)
    BY <1>10 DEF AtKey
  <2>11. cursor' \in Nat \ {0} /\ cursor' <= Len(software'.uninstall[list']) + 1
    BY <1>1, <1>10, <2>1, <2>4
  <2> QED BY <1>5, <1>10, <2>1, <2>2, <2>3, <2>9, <2>10, <2>11 DEF AtKey
<1>11. \/ list > 2 /\ programs' = SortedPrograms(programs) /\ gpc' = "system"
       \/ /\ list <= 2 /\ cursor > Len(software.uninstall[list])
          /\ NextList /\ gpc' = gpc /\ programs' = programs
       \/ gpc' = gpc /\ refused' = TRUE
       \/ /\ list <= 2 /\ cursor <= Len(software.uninstall[list])
          /\ programs' = programs \o ProgramsOf(software.uninstall[list][cursor])
          /\ cursor' = cursor + 1 /\ list' = list /\ gpc' = gpc
  BY DEF SearchPrograms, Scan
<1>12. refused' = TRUE => (~refused' => AtKey')
  BY ONLY Zenon
<1>13. ASSUME gpc' = gpc, AtKey => AtKey' PROVE RegistryInv'
  <2>1. ~refused' => AtKey'
    BY <1>2, <1>6, <1>13
  <2> QED BY <1>8, <1>13, <2>1
<1> QED BY <1>7, <1>8, <1>9, <1>10, <1>11, <1>12, <1>13

LEMMA ToolsKeep ==
  ASSUME {"name", "build", "tools"} \subseteq DOMAIN info, NEW t
  PROVE  /\ {"name", "build", "tools"} \subseteq DOMAIN [info EXCEPT !.tools = t]
         /\ [info EXCEPT !.tools = t].name = info.name
         /\ [info EXCEPT !.tools = t].build = info.build
         /\ [info EXCEPT !.tools = t].tools = t
OBVIOUS

\* The SYSTEM hive is asked for the tools that SOFTWARE did not name.
LEMMA AnalyzeSystemStep ==
  ASSUME RegistryInv, AnalyzeSystem, UNCHANGED <<disk, os>>
  PROVE  RegistryInv'
<1>1. /\ gpc = "system" /\ gpc' = (IF fallback THEN "remount" ELSE "done")
      /\ UNCHANGED <<request, programs, software, system, fallback>> /\ refused' = refused
  BY DEF AnalyzeSystem, hiveVars
<1>2. (Apps' <=> Apps) /\ (System' <=> System)
  BY <1>1, RequestSame
<1>3. \/ /\ System /\ info.tools = NoTools /\ Opens(system)
         /\ info' = [info EXCEPT !.tools = ToolKey(system.services)]
         /\ warnings' = warnings \cup Notice(system, "system_recovered")
      \/ /\ system # NoHive /\ warnings' = warnings \cup {"system_lost"} /\ info' = info
      \/ /\ ~System \/ info.tools # NoTools \/ system = NoHive
         /\ info' = info /\ warnings' = warnings
  BY Zenon DEF AnalyzeSystem, Warn
<1>4. Notice(system, "system_recovered") \subseteq {"system_recovered"}
  BY DEF Notice
<1>5. ASSUME SoftwareOpened PROVE Truthful'
  <2>1. /\ IsHive(software) /\ MayBeHive(system) /\ (warnings = {} => software.state = "clean")
        /\ System => info = ExtractGuestInfo(software)
    BY <1>5 DEF SoftwareOpened
  <2>2. SUFFICES ASSUME warnings' = {}
                 PROVE  /\ software'.state = "clean"
                        /\ System' => InfoHeld'
                        /\ System' /\ Evidence(software') = {} => system'.state \in {"clean", "missing"}
    BY DEF Truthful
  <2>3. software'.state = "clean"
    BY <1>1, <1>3, <2>1, <2>2
  <2>4. SUFFICES ASSUME System
                 PROVE  InfoHeld' /\ (Evidence(software') = {} => system'.state \in {"clean", "missing"})
    BY <1>2, <2>3
  <2>5. PICK own, names : /\ own = Evidence(software) /\ names = TextsOf(software, "ProductName")
    OBVIOUS
  <2>6. /\ {"name", "build", "tools"} \subseteq DOMAIN info
        /\ info.name \in IF names = {} THEN {"unknown_edition"} ELSE names
        /\ \/ info.tools = NoTools /\ own = {}
           \/ info.tools # NoTools /\ info.tools.kind \in own
    BY <2>1, <2>4, <2>5, InfoIs, SoftwareToolsAre
  <2>7. PICK other : other = IF system = NoHive THEN {} ELSE DOMAIN system.services
    OBVIOUS
  <2>8. InfoHeld' <=>
          /\ info'.name \in IF names = {} THEN {"unknown_edition"} ELSE names
          /\ own # {} => info'.tools.kind \in own
          /\ own = {} => IF other = {} THEN info'.tools = NoTools ELSE info'.tools.kind \in other
    BY <1>1, <2>5, <2>7 DEF InfoHeld
  <2>9. NoHive.state = "missing"
    BY DEF NoHive
  <2>10. CASE /\ System /\ info.tools = NoTools /\ Opens(system)
              /\ info' = [info EXCEPT !.tools = ToolKey(system.services)]
              /\ warnings' = warnings \cup Notice(system, "system_recovered")
    <3>1. own = {} /\ system # NoHive /\ IsHive(system)
      BY <2>1, <2>6, <2>9, <2>10 DEF Opens, MayBeHive
    <3>2. PICK t : t = ToolKey(system.services)
      OBVIOUS
    <3>3. info'.name = info.name /\ info'.tools = t
      BY <2>6, <2>10, <3>2, ToolsKeep
    <3>4. \/ t = NoTools /\ other = {}
          \/ t # NoTools /\ t.kind \in other
      BY <2>7, <3>1, <3>2, ToolKeyIs DEF IsHive
    <3>5. InfoHeld'
      BY <2>6, <2>8, <3>1, <3>3, <3>4
    <3>6. system.state = "clean"
      BY <2>2, <2>10 DEF Notice, Opens
    <3> QED BY <1>1, <3>5, <3>6
  <2>11. CASE /\ ~System \/ info.tools # NoTools \/ system = NoHive
              /\ info' = info /\ warnings' = warnings
    <3>1. own = {} => system = NoHive /\ info.tools = NoTools
      BY <2>4, <2>6, <2>11
    <3>2. InfoHeld'
      BY <2>6, <2>7, <2>8, <2>11, <3>1
    <3> QED BY <1>1, <2>5, <2>9, <3>1, <3>2
  <2> QED BY <1>3, <2>2, <2>10, <2>11
<1>6. ASSUME SoftwareOpened, ~refused => ListsExactly(Wanted) PROVE RegistryInv'
  <2>1. gpc' = "done" /\ Opens(software')
    BY <1>1, <1>6 DEF SoftwareOpened
  <2>2. ~refused' => ListsExactly(Wanted)'
    <3>1. ~refused' => ~refused
      BY <1>1, RefusedSame
    <3> QED BY <1>1, <1>6, <3>1, ListSame
  <2>3. ~refused' => Registered'
    BY <1>5, <1>6, <2>1, <2>2 DEF Registered
  <2> QED BY <2>1, <2>3 DEF RegistryInv, LinuxPlaces, VolumePlaces, BehindLines
<1>7. ASSUME Lost, programs = <<>> PROVE RegistryInv'
  <2>1. gpc' = "remount" /\ fallback' = TRUE
    BY <1>1, <1>7 DEF Lost
  <2>2. Dated'
    <3>1. {"name", "build", "tools"} \subseteq DOMAIN info
      BY <1>7 DEF Lost, Dated
    <3>2. /\ {"name", "build", "tools"} \subseteq DOMAIN info'
          /\ info'.name = info.name /\ info'.build = info.build
      BY <1>3, <3>1, ToolsKeep
    <3> QED BY <1>7, <3>2 DEF Lost, Dated
  <2>3. "software_lost" \in warnings' /\ "from_folders" \notin warnings'
    BY <1>3, <1>4, <1>7 DEF Lost
  <2>4. Lost'
    BY <1>1, <1>7, <2>1, <2>2, <2>3 DEF Lost
  <2> QED BY <1>1, <1>7, <2>1, <2>4 DEF RegistryInv, LinuxPlaces, VolumePlaces, BehindLines
<1> QED BY <1>1, <1>6, <1>7 DEF RegistryInv

\* The end of an analysis that had to do without SOFTWARE.
LEMMA LostIsTold ==
  ASSUME gpc' = "done", ~Opens(software'), "software_lost" \in warnings', Dated',
         \A p \in ToSet(programs') : p.source = "folder",
         programs' # <<>> <=> "from_folders" \in warnings'
  PROVE  RegistryInv'
<1>1. Registered'
  BY DEF Registered, Truthful, Dated
<1> QED BY <1>1, AtDone

LEMMA EmptyList ==
  ASSUME programs' = <<>>
  PROVE  ToSet(programs') = {} /\ FromFolders'
<1>1. ToSet(programs') = {} /\ programs' \in Seq({})
  BY DEF ToSet
<1> QED BY <1>1 DEF FromFolders, IsList

LEMMA RemountStep ==
  ASSUME RegistryInv, Remount
  PROVE  RegistryInv'
<1>1. /\ gpc = "remount" /\ UNCHANGED <<info, programs, software, fallback>>
      /\ \/ gpc' \in {"kernel", "folders"} /\ warnings' = warnings
         \/ gpc' = "done" /\ warnings' = warnings \cup {"not_remounted"}
  BY DEF Remount, Mount, Warn, hiveVars
<1>2. Lost /\ programs' = <<>>
  BY <1>1 DEF RegistryInv
<1>3. /\ Lost' /\ ToSet(programs') = {} /\ FromFolders'
  BY <1>1, <1>2, EmptyList DEF Lost, Dated
<1>4. CASE gpc' \in {"kernel", "folders"}
  BY <1>2, <1>3, <1>4 DEF RegistryInv, LinuxPlaces, VolumePlaces, BehindLines
<1>5. CASE gpc' = "done"
  BY <1>2, <1>3, <1>5, LostIsTold DEF Lost
<1> QED BY <1>1, <1>4, <1>5

\* Behind the search for the version, with a date or without.
LEMMA ToFoldersIs ==
  ASSUME Lost', programs' = <<>>, ToFolders
  PROVE  RegistryInv'
<1>1. ToSet(programs') = {} /\ FromFolders' /\ gpc' \in {"folders", "done"}
  BY EmptyList DEF ToFolders
<1>2. CASE gpc' = "folders"
  BY <1>1, <1>2 DEF RegistryInv, LinuxPlaces, VolumePlaces, BehindLines
<1>3. CASE gpc' = "done"
  BY <1>1, <1>3, LostIsTold DEF Lost
<1> QED BY <1>1, <1>2, <1>3

LEMMA ApproximateIs ==
  ASSUME Lost, UNCHANGED <<software, fallback, programs>>, programs = <<>>,
         NEW how, how # "from_folders", NEW date, Approximate(how, date),
         how = "approximate" => DayNumber(date) \in KernelDays
  PROVE  RegistryInv'
<1>1. /\ info' = [NoInfo EXCEPT !.name = how, !.build = date]
      /\ warnings' = warnings \cup {how} /\ ToFolders
  BY DEF Approximate, Warn
<1>2. /\ {"name", "build", "tools"} \subseteq DOMAIN info'
      /\ info'.name = how /\ info'.build = date
  BY <1>1 DEF NoInfo
<1>3. Dated'
  BY <1>2 DEF Dated
<1>4. Lost'
  BY <1>1, <1>3 DEF Lost
<1> QED BY <1>1, <1>4, ToFoldersIs

\* The date of the kernel is a day that its header carries.
LEMMA KernelStep ==
  ASSUME RegistryInv, ReadKernel
  PROVE  RegistryInv'
<1>1. /\ gpc = "kernel" /\ UNCHANGED <<programs, software, fallback>>
      /\ \/ gpc' = "license" /\ UNCHANGED <<info, warnings>>
         \/ \E day \in KernelDays : Approximate("approximate", CivilFromDays(day))
  BY Zenon DEF ReadKernel, Access, PeTimestamps, resultVars, hiveVars
<1>2. Lost /\ programs = <<>>
  BY <1>1 DEF RegistryInv
<1>3. CASE gpc' = "license" /\ UNCHANGED <<info, warnings>>
  <2>1. Lost'
    BY <1>1, <1>2, <1>3 DEF Lost, Dated
  <2> QED BY <1>1, <1>2, <1>3, <2>1 DEF RegistryInv, LinuxPlaces, VolumePlaces, BehindLines
<1>4. ASSUME NEW day \in KernelDays, Approximate("approximate", CivilFromDays(day))
      PROVE  RegistryInv'
  <2>1. PICK date : date = CivilFromDays(day)
    OBVIOUS
  <2>2. DayNumber(date) \in KernelDays
    BY <2>1, CivilIs, WindowsAssumption
  <2>3. Approximate("approximate", date)
    BY <1>4, <2>1
  <2> QED BY <1>1, <1>2, <2>2, <2>3, ApproximateIs
<1> QED BY <1>1, <1>3, <1>4

LEMMA LicenseStep ==
  ASSUME RegistryInv, CheckLicense
  PROVE  RegistryInv'
<1>1. /\ gpc = "license" /\ UNCHANGED <<programs, software, fallback>>
      /\ \/ Approximate("license", "")
         \/ warnings' = warnings \cup {"undetermined"} /\ ToFolders /\ info' = info
  BY Zenon DEF CheckLicense, Access, Warn, hiveVars
<1>2. Lost /\ programs = <<>>
  BY <1>1 DEF RegistryInv
<1>3. CASE Approximate("license", "")
  BY <1>1, <1>2, <1>3, ApproximateIs
<1>4. CASE warnings' = warnings \cup {"undetermined"} /\ ToFolders /\ info' = info
  <2>1. Lost'
    BY <1>1, <1>2, <1>4 DEF Lost, Dated
  <2> QED BY <1>1, <1>2, <1>4, <2>1, ToFoldersIs
<1> QED BY <1>1, <1>3, <1>4

\* The folders: what is taken from them says so, one by one and at the end.
LEMMA FoldersStep ==
  ASSUME RegistryInv, NextFolder \/ OpenFolder \/ ScanFolder
  PROVE  RegistryInv'
<1>1. /\ gpc \in {"folders", "folder", "entries"} /\ UNCHANGED <<info, software, fallback>>
  BY DEF NextFolder, OpenFolder, ScanFolder, resultVars, hiveVars
<1>2. Lost /\ FromFolders
  BY <1>1 DEF RegistryInv
<1>3. ASSUME warnings' = warnings, gpc' \in {"folders", "folder", "entries"}, FromFolders'
      PROVE  RegistryInv'
  <2>1. Lost'
    BY <1>1, <1>2, <1>3 DEF Lost, Dated
  <2> QED BY <1>3, <2>1 DEF RegistryInv, LinuxPlaces, VolumePlaces, BehindLines
<1>4. programs' = programs => FromFolders'
  BY <1>2 DEF FromFolders
<1>5. ASSUME EndOfFolders, programs' = programs PROVE RegistryInv'
  <2>1. /\ gpc' = "done"
        /\ warnings' = warnings \cup (IF programs = <<>> THEN {} ELSE {"from_folders"})
    BY <1>5 DEF EndOfFolders, Warn
  <2>2. programs' # <<>> <=> "from_folders" \in warnings'
    BY <1>2, <1>5, <2>1 DEF Lost
  <2>3. Dated' /\ "software_lost" \in warnings' /\ ~Opens(software')
    BY <1>1, <1>2, <2>1 DEF Lost, Dated
  <2>4. \A p \in ToSet(programs') : p.source = "folder"
    BY <1>2, <1>5 DEF FromFolders
  <2> QED BY <2>1, <2>2, <2>3, <2>4, LostIsTold
<1>6. CASE NextFolder
  <2>1. programs' = programs /\ (EndOfFolders \/ (gpc' = "folder" /\ warnings' = warnings))
    BY <1>6 DEF NextFolder, Scan
  <2> QED BY <1>3, <1>4, <1>5, <2>1
<1>7. CASE OpenFolder
  <2>1. programs' = programs /\ warnings' = warnings /\ gpc' \in {"entries", "folders"}
    BY <1>7 DEF OpenFolder, Access, resultVars
  <2> QED BY <1>3, <1>4, <2>1
<1>8. CASE ScanFolder
  <2>1. /\ gpc = "entries" /\ warnings' = warnings
        /\ LeaveFolder \/ SkipEntry \/ \E e : TakeEntry(e)
    BY <1>8, Zenon DEF ScanFolder, Scan
  <2>2. CASE LeaveFolder \/ SkipEntry
    <3>1. programs' = programs /\ gpc' \in {"folders", "entries"}
      BY <2>1, <2>2 DEF LeaveFolder, SkipEntry
    <3> QED BY <1>3, <1>4, <2>1, <3>1
  <2>3. ASSUME NEW e, TakeEntry(e) PROVE RegistryInv'
    <3>1. PICK q : q = [name |-> e.name, version |-> "", publisher |-> "", source |-> "folder"]
      OBVIOUS
    <3>2. programs' = Append(programs, q) /\ gpc' = gpc /\ q.source = "folder"
      BY <2>3, <3>1 DEF TakeEntry
    <3>3. PICK S : S = ToSet(programs) \cup {q}
      OBVIOUS
    <3>4. programs \in Seq(S) /\ q \in S
      <4>1. programs \in Seq(ToSet(programs)) /\ ToSet(programs) \subseteq S /\ q \in S
        BY <1>2, <3>3 DEF FromFolders, IsList
      <4> QED BY <4>1
    <3>5. programs' \in Seq(S) /\ ToSet(programs') = ToSet(programs) \cup {q}
      BY <3>2, <3>4, ToSetAppend
    <3>6. programs' \in Seq(ToSet(programs')) /\ \A p \in ToSet(programs') : p.source = "folder"
      BY <1>2, <3>2, <3>3, <3>5 DEF FromFolders
    <3>7. FromFolders'
      BY <3>6 DEF FromFolders, IsList
    <3> QED BY <1>3, <2>1, <3>2, <3>7
  <2> QED BY <2>1, <2>2, <2>3
<1> QED BY <1>6, <1>7, <1>8

LEMMA RegistryInvStep ==
  DetectorInv /\ LinuxInv /\ RegistryInv /\ [Next]_vars => RegistryInv'
<1> SUFFICES ASSUME DetectorInv, LinuxInv, RegistryInv, [Next]_vars PROVE RegistryInv'
  OBVIOUS
<1>0. Told /\ PlacesInv /\ disk \in Disks
  BY DEF LinuxInv, DetectorInv, DetectorTypes
<1>1. ASSUME pc \notin {"analyze", "report", "finish", "done"}, UNCHANGED guestVars
      PROVE  RegistryInv'
  <2>1. gpc = "start"
    BY <1>0, <1>1 DEF PlacesInv
  <2> QED BY <1>1, <2>1, RegistryStart
<1>2. CASE DetectTable \/ DetectFileSystems \/ Increment
  <2>1. pc = "detecting" /\ UNCHANGED guestVars
    BY <1>2 DEF DetectTable, DetectFileSystems, Detecting, Increment
  <2> QED BY <1>1, <2>1
<1>3. CASE Metadata \/ Identify \/ OpenBackend \/ Detected
  <2>1. pc \in {"metadata", "identify", "open", "detecting"} /\ UNCHANGED guestVars
    BY <1>3 DEF Metadata, Identify, OpenBackend, Detected
  <2> QED BY <1>1, <2>1
<1>4. CASE Begin \/ Backend \/ Detect \/ Guest
  <2>1. pc \in {"begin", "backend", "detect", "guest"} /\ UNCHANGED guestVars
    BY <1>4 DEF Begin, Backend, Detect, Guest, EnterStage
  <2> QED BY <1>1, <2>1
<1>5. CASE AnalyzeGuest
  <2>1. UNCHANGED <<disk, os>>
    BY <1>5 DEF AnalyzeGuest, Analyzing, detectorVars
  <2>2. CASE GetInspector /\ UNCHANGED <<hiveVars, stanza>>
    BY <1>0, <2>1, <2>2, RegistryInspector
  <2>3. CASE WindowsStep
    BY <1>0, <2>1, <2>3, FindSystemStep, ExtractStep, ReadSystemStep, OpenSoftwareStep, SearchStep,
       AnalyzeSystemStep, RemountStep, KernelStep, LicenseStep, FoldersStep DEF WindowsStep
  <2>4. CASE LinuxStep
    BY <2>1, <2>4, RegistryLinux
  <2> QED BY <1>5, <2>2, <2>3, <2>4 DEF AnalyzeGuest, Analyzing
<1>6. CASE Analyzed \/ Report \/ Finish
  <2>1. UNCHANGED <<guestVars, detectorVars, refused>>
    BY <1>6 DEF Analyzed, Report, Finish, EnterStage
  <2> QED BY <2>1, RegistryStill DEF detectorVars
<1>7. CASE EngineCancel \/ ProgressCancel \/ ProgressCancelLink \/ UNCHANGED vars
  <2>1. UNCHANGED <<guestVars, detectorVars, refused>>
    BY <1>7 DEF EngineCancel, ProgressCancel, ProgressCancelLink, vars
  <2> QED BY <2>1, RegistryStill DEF detectorVars
<1> QED BY <1>2, <1>3, <1>4, <1>5, <1>6, <1>7 DEF Next, Step

\* An analysis of Windows that met no cancellation tells what it could not read, for
\* every content of the hives and whichever reads fail: without a warning both hives
\* were intact and the information is theirs; a SOFTWARE hive that opened, by recovery
\* too, gives exactly the programs of its uninstall keys; and one that did not gives
\* folders that are marked as such, and a date that is the kernel's.
THEOREM RegistryIsExact == Spec => []RegistryExact
<1>1. Init => RegistryInv
  <2> SUFFICES ASSUME Init PROVE RegistryInv
    OBVIOUS
  <2>1. /\ gpc = "start" /\ programs = <<>> /\ warnings = {} /\ list = 1 /\ cursor = 1
        /\ software = NoHive /\ system = NoHive /\ fallback = FALSE
    BY DEF Init, GuestInit, WindowsInit
  <2>2. NothingFound
    BY <2>1 DEF NothingFound
  <2> QED BY <2>1, <2>2 DEF RegistryInv, LinuxPlaces, VolumePlaces, BehindLines
<1>2. RegistryInv => RegistryExact
  BY Zenon DEF RegistryInv, Registered, Truthful, Wanted, RegistryExact
<1> QED BY <1>1, <1>2, DetectorInvInit, DetectorInvStep, LinuxInvInit, LinuxInvStep,
           RegistryInvStep, PTL DEF Spec
=============================================================================
