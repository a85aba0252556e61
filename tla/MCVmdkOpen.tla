----------------------------- MODULE MCVmdkOpen -----------------------------
(* File systems with one image and up to four other files.  The depth limit  *)
(* is two.                                                                   *)
EXTENDS VmdkOpen, TLC

NoFile == "-"

Plain == [layout |-> "plain", readable |-> TRUE, length |-> "full",
          mark |-> FALSE, utf8 |-> TRUE, valid |-> TRUE,
          supported |-> TRUE, huge |-> FALSE, directory |-> TRUE,
          described |-> FALSE, whole |-> TRUE, parent |-> NoFile,
          delta |-> FALSE, extents |-> <<>>, split |-> FALSE]
Locked  == [Plain EXCEPT !.readable = FALSE]
Foreign == [Plain EXCEPT !.layout = "foreign"]
Sparse  == [Plain EXCEPT !.layout = "sparse"]

Ext(k, f) == [kind |-> k, file |-> f]
Text(xs, p)     == [Plain EXCEPT !.layout = "text", !.extents = xs, !.parent = p]
Embedded(xs, p) == [Text(xs, p) EXCEPT !.layout = "sparse", !.described = TRUE]

Host(files, links) == [files |-> files, links |-> links]
Alone(f) == Host("a" :> f, <<>>)
With(f, x) == Host("a" :> f @@ "x" :> x, <<>>)
Chain3(last) ==
  "a" :> Text(<<Ext("FLAT", "x"), Ext("ZERO", NoFile)>>, "b")
    @@ "b" :> Embedded(<<Ext("SPARSE", "b")>>, "c")
    @@ "c" :> last @@ "x" :> Plain

\* One image on its own.
Single ==
  {Alone(f) : f \in {Plain, Locked, Foreign, Sparse,
     [Plain EXCEPT !.length = "none"], [Plain EXCEPT !.length = "short"],
     [Plain EXCEPT !.mark = TRUE],
     [Sparse EXCEPT !.valid = FALSE], [Sparse EXCEPT !.supported = FALSE],
     [Sparse EXCEPT !.huge = TRUE], [Sparse EXCEPT !.directory = FALSE],
     [Sparse EXCEPT !.described = TRUE, !.delta = TRUE],
     [Sparse EXCEPT !.described = TRUE, !.delta = TRUE, !.whole = FALSE],
     Embedded(<<Ext("SPARSE", "a")>>, NoFile),
     Embedded(<<Ext("SPARSE", "renamed")>>, NoFile),
     Embedded(<<Ext("SPARSE", "a"), Ext("ZERO", NoFile)>>, NoFile),
     Text(<<>>, NoFile), Text(<<Ext("FLAT", NoFile)>>, NoFile),
     [Text(<<Ext("ZERO", NoFile)>>, NoFile) EXCEPT !.utf8 = FALSE],
     Text(<<Ext("ZERO", NoFile)>>, NoFile),
     [Text(<<Ext("ZERO", NoFile)>>, NoFile) EXCEPT !.split = TRUE],
     [Text(<<Ext("ZERO", NoFile)>>, NoFile) EXCEPT !.delta = TRUE]}}

\* A descriptor with one extent of each kind, in files of each sort, and with
\* two, the second of which is missing in the last file system.
Descriptors ==
  {With(Text(<<Ext(k, "x")>>, NoFile), x) :
     k \in {"FLAT", "VMFS", "SPARSE", "OTHER"},
     x \in {Plain, Locked, Sparse, [Sparse EXCEPT !.supported = FALSE],
            [Sparse EXCEPT !.directory = FALSE]}}
  \cup {With(Text(<<Ext("FLAT", "x"), Ext("SPARSE", y)>>, NoFile), Sparse) :
          y \in {"x", "missing"}}

\* Chains: of the greatest length, one too long, cyclic, cyclic through a link,
\* without the last parent, in no UTF-8, and with a missing extent at their end.
Chains ==
  {Host(Chain3(last), "l" :> "a") :
     last \in {Plain, Locked, Text(<<>>, "x"), Text(<<>>, "a"),
               Text(<<>>, "l"), Text(<<>>, "c"), Text(<<>>, "missing"),
               [Text(<<>>, "missing") EXCEPT !.utf8 = FALSE],
               Text(<<Ext("VMFS", "missing")>>, NoFile)}}

MCFileSystems == Single \cup Descriptors \cup Chains
=============================================================================
