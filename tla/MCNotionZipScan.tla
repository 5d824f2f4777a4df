--------------------------- MODULE MCNotionZipScan ---------------------------
(***************************************************************************)
(* Model-checking instance of NotionZipScan: view trees of two levels with  *)
(* names that collide only after trim and lowercase, 32-hex ids that are   *)
(* equal only after lowercase, a non-hex id, and one chain of pages deeper *)
(* than print_tree's cut-off.                                              *)
(***************************************************************************)
EXTENDS NotionZipScan

IdSet == {"h", "H", "X"}
NameSet == {"a", "A ", "b"}

MCHex32 == {"h", "H"}
MCLower == "h" :> "h" @@ "H" :> "h" @@ "X" :> "x"
MCNorm == "a" :> "a" @@ "A " :> "a" @@ "b" :> "b"

Page(name, id, ch) == [name |-> name, id |-> id, dir |-> ch # <<>>, ch |-> ch]

Leaves == {Page(n, i, <<>>) : n \in NameSet, i \in IdSet}

\* sequences of 1..n elements of S
Seqs1(S, n) == UNION {[1..m -> S] : m \in 1..n}

Dirs == {Page(n, "X", ch) : n \in {"a", "b"}, ch \in Seqs1(Leaves, 2)}

\* a chain of k pages, each the only child of the one before
RECURSIVE Chain(_)
Chain(k) == IF k = 0 THEN <<>> ELSE <<Page("a", "h", Chain(k - 1))>>

MCViews ==
    {<<p>> : p \in Leaves \cup Dirs}
    \cup {<<p, l>> : p \in Leaves \cup Dirs, l \in Leaves}
    \cup {<<l, p>> : p \in Dirs, l \in Leaves}
    \cup {Chain(MaxDepth + 1)}

=============================================================================
