--------------------------- MODULE MCCommandLine ----------------------------
(* A tree of depth two in which the name "cache" occurs in two places:       *)
(*   root: a, b, disk, empty, extent;  a: cacheA;  b: cacheB, link;          *)
(* link being a symbolic link with the name of an image;                     *)
(*   cacheA: deepA;  cacheB: deepB, whose name is not UTF-8 and ends in -flat *)
EXTENDS CommandLine

CONSTANTS root, a, b, cacheA, cacheB, disk, empty, extent, link, deepA, deepB

MCDirs   == {root, a, b, cacheA, cacheB}
MCFiles  == {disk, empty, extent, link, deepA, deepB}
MCParent == [n \in (MCDirs \cup MCFiles) \ {root} |->
               CASE n \in {a, b, disk, empty, extent} -> root
                 [] n = cacheA -> a
                 [] n \in {cacheB, link} -> b
                 [] n = deepA  -> cacheA
                 [] n = deepB  -> cacheB]
MCNameOf == [d \in MCDirs |->
               CASE d = root -> "root" [] d = a -> "a" [] d = b -> "b"
                 [] d \in {cacheA, cacheB} -> "cache"]
MCName == [f \in MCFiles |->
             [ext  |-> IF f = deepA THEN "qcow2" ELSE "vmdk",
              tail |-> IF f \in {extent, deepB} THEN "flat" ELSE "none"]]
MCNotUtf8 == {deepB}
MCEmpty   == {empty}
MCSpecial == {link}

-----------------------------------------------------------------------------
(* Arguments. *)

Word(text) == [text |-> text, number |-> None, kind |-> "missing", exclusion |-> None]
Number(n)  == [Word("path") EXCEPT !.number = n]
Path(kind) == [Word("path") EXCEPT !.kind = kind]
Without(e) == [Word("path") EXCEPT !.exclusion = e]

ByName(n) == [by |-> "name", name |-> n]
ByPath(d) == [by |-> "path", dir |-> d]
MCExclusions == {ByName("cache"), ByPath(a), ByPath(cacheA)}

\* Walks with every combination of exclusion and depth, printed both ways.
Walks ==
  {<<Word("--recursive")>> \o ex \o depth \o out \o <<Path("directory")>> :
     ex \in {<<>>} \cup {<<Word("--exclude"), Without(e)>> : e \in MCExclusions},
     depth \in {<<>>} \cup {<<Word("--max-depth"), Number(n)>> : n \in {0, 1}},
     out \in {<<Word("--json"), Word("--full-report")>>,
              <<Word("--quiet-discovery"), Word("--workers"), Number(2)>>}}

Others ==
  {<<>>, <<Word("--help"), Word("--unknown")>>, <<Word("--unknown"), Word("--help")>>,
   <<Path("file"), Word("--force-nbd")>>, <<Path("file"), Path("file")>>,
   <<Path("missing")>>, <<Word("--workers="), Path("file")>>,
   <<Word("--workers"), Path("file")>>,
   <<[Word("--workers=") EXCEPT !.number = 0]>>, <<Path("file"), Word("--workers")>>,
   <<Word("--exclude")>>, <<Word("--max-depth"), Word("--json"), Path("file")>>,
   <<Path("directory"), Word("--concurrent")>>,
   <<Path("directory"), Word("--recursive"),
     [Word("--workers=") EXCEPT !.number = 3]>>}

MCCommandLines == Walks \cup Others
=============================================================================
