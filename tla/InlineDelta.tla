---------------------------- MODULE InlineDelta ----------------------------
(***************************************************************************)
(* insert_markdown_as_inline_delta of md_importer.rs: the secondary parse  *)
(* entry that folds a callout's content or a toggle's summary into the    *)
(* block's delta.  The markdown is trimmed, re-parsed by to_mdast, and     *)
(* the children of the Root are walked: the children of a Paragraph or a  *)
(* Heading are folded by process_inline_mdast_node when inline and        *)
(* inserted as their textual rendering otherwise; any other child is      *)
(* inserted as its textual rendering.                                     *)
(*                                                                         *)
(* A node is a record [k, v, ch]: its kind, the literal value of a Text,  *)
(* InlineCode, InlineMath, Code or Html node (a word of Words), and its    *)
(* children.  A segment of the delta is [text, attrs]: a sequence of words *)
(* (the string it inserts) and its attribute set.                         *)
(***************************************************************************)
EXTENDS Naturals, Sequences, SequencesExt

CONSTANTS
    Words,       \* the literal values the tests tell apart
    Newline,     \* the "\n" a Break inserts
    Inputs       \* the markdown strings: EmptyMd when markdown.trim() is
                 \* empty, otherwise the Root to_mdast returns for it

VARIABLES
    root,        \* the Root node to_mdast(md) returned, or EmptyMd
    i,           \* the index of the Root child the for loop is at
    j,           \* the index of the Paragraph or Heading child it is at
    delta        \* text_map[block_id]: the segments inserted so far

vars == <<root, i, j, delta>>

ASSUME Newline \notin Words

\* md.is_empty(): the function returns before to_mdast
EmptyMd == [k |-> "Empty", v |-> "", ch |-> <<>>]

-----------------------------------------------------------------------------
(* process_inline_mdast_node and is_inline_node (importer/util.rs, spec    *)
(* 4.2), and Node::to_string of the markdown crate                         *)

\* is_inline_node
IsInline(n) ==
    n.k \in {"Text", "InlineCode", "InlineMath", "Strong", "Emphasis",
             "Delete", "Link", "Break"}

\* the attribute a leaf or a wrapper adds to the segments below it
Mark(k) ==
    CASE k = "InlineCode" -> {"code"}
      [] k = "InlineMath" -> {"math_inline"}
      [] k = "Strong"     -> {"bold"}
      [] k = "Emphasis"   -> {"italic"}
      [] k = "Delete"     -> {"strikethrough"}
      [] k = "Link"       -> {"link"}
      [] OTHER            -> {}

Plain(text) == [text |-> text, attrs |-> {}]

\* process_inline_mdast_node: a leaf is one segment carrying the attributes
\* of the wrappers above it, a Break a plain "\n", a wrapper the segments
\* of its children in order
RECURSIVE Fold(_, _)
Fold(n, attrs) ==
    CASE n.k \in {"Text", "InlineCode", "InlineMath"} ->
            <<[text |-> <<n.v>>, attrs |-> attrs \cup Mark(n.k)]>>
      [] n.k = "Break" -> <<Plain(<<Newline>>)>>
      [] OTHER ->
            FlattenSeq([x \in 1..Len(n.ch) |-> Fold(n.ch[x], attrs \cup Mark(n.k))])

ProcessInline(n) == Fold(n, {})

\* Node::to_string: the literal values below the node, in order; voids
\* (Image, Break, ThematicBreak) render as nothing
RECURSIVE NodeToString(_)
NodeToString(n) ==
    CASE n.k \in {"Text", "InlineCode", "InlineMath", "Code", "Html"} -> <<n.v>>
      [] n.k \in {"Image", "Break", "ThematicBreak"} -> <<>>
      [] OTHER -> FlattenSeq([x \in 1..Len(n.ch) |-> NodeToString(n.ch[x])])

-----------------------------------------------------------------------------
(* The loop over the Root's children                                       *)

\* fault: the Heading arm is missing and a heading falls into `_`
IsFoldedBlockNoHeading(n) == n.k = "Paragraph"

\* the match arms mdast::Node::Paragraph(p) and mdast::Node::Heading(h)
IsFoldedBlock(n) == n.k \in {"Paragraph", "Heading"}

Child == root.ch[i]

Init ==
    /\ root \in Inputs
    /\ i = 1
    /\ j = 1
    /\ delta = <<>>

\* for c in p.children (or h.children): an inline child is folded by
\* process_inline_mdast_node, any other is inserted as c.to_string()
FoldBlockChild ==
    /\ root # EmptyMd
    /\ i <= Len(root.ch)
    /\ IsFoldedBlock(Child)
    /\ j <= Len(Child.ch)
    /\ delta' = delta \o IF IsInline(Child.ch[j]) THEN ProcessInline(Child.ch[j])
                         ELSE <<Plain(NodeToString(Child.ch[j]))>>
    /\ j' = j + 1
    /\ UNCHANGED <<root, i>>

\* the paragraph's or heading's children are done: next Root child
NextRootChild ==
    /\ root # EmptyMd
    /\ i <= Len(root.ch)
    /\ IsFoldedBlock(Child)
    /\ j > Len(Child.ch)
    /\ i' = i + 1
    /\ j' = 1
    /\ UNCHANGED <<root, delta>>

\* `_ =>`: any other Root child is inserted as child.to_string()
InsertOther ==
    /\ root # EmptyMd
    /\ i <= Len(root.ch)
    /\ ~IsFoldedBlock(Child)
    /\ delta' = Append(delta, Plain(NodeToString(Child)))
    /\ i' = i + 1
    /\ UNCHANGED <<root, j>>

Next == FoldBlockChild \/ NextRootChild \/ InsertOther

Spec == Init /\ [][Next]_vars

\* the function has returned: empty markdown, or every Root child walked
Done == root = EmptyMd \/ i > Len(root.ch)

-----------------------------------------------------------------------------
(* Properties                                                              *)

\* the literal leaves below n in reading order: its word, whether it is
\* styled (a reader sees its wrappers' marks: spec 4.9 folds the inline
\* descendants of a paragraph or heading, and degrades everything else to
\* plain text) and the marks of the wrappers between it and the block
RECURSIVE Leaves(_, _, _)
Leaves(n, styled, marks) ==
    LET m == IF styled THEN marks \cup Mark(n.k) ELSE marks
    IN  IF n.k \in {"Text", "InlineCode", "InlineMath", "Code", "Html"}
        THEN <<[word |-> n.v, styled |-> styled, marks |-> m]>>
        ELSE FlattenSeq([x \in 1..Len(n.ch) |-> Leaves(n.ch[x], styled, m)])

\* the leaves of the re-parsed content; only the inline children of a
\* Root-level paragraph or heading are styled
ContentLeaves(r) ==
    IF r = EmptyMd THEN <<>>
    ELSE FlattenSeq([x \in 1..Len(r.ch) |->
           LET c == r.ch[x]
           IN  IF c.k \in {"Paragraph", "Heading"}
               THEN FlattenSeq([y \in 1..Len(c.ch) |->
                                  Leaves(c.ch[y], IsInline(c.ch[y]), {})])
               ELSE Leaves(c, FALSE, {})])

\* the words a delta inserts, without the newlines of hard breaks
DeltaWords(d) ==
    SelectSeq(FlattenSeq([x \in 1..Len(d) |-> d[x].text]),
              LAMBDA w : w # Newline)

\* the segments of a delta that carry a mark
Formatted(d) == SelectSeq(d, LAMBDA s : s.attrs # {})

\* On return, the callout's or toggle's delta keeps the content it was
\* given (spec 4.9 and 4.2): it inserts every word of the re-parsed
\* content once and in reading order, and the formatted segments are, in
\* order, exactly the styled words that have marks, each alone with the
\* union of its wrappers' marks.  The code reaches this through two nested
\* loops with an arm per block kind, one inline fold and one to_string per
\* other node; a block kind that takes the wrong arm keeps its words and
\* silently loses its marks.
DeltaKeepsContent ==
    Done =>
      LET leaves == ContentLeaves(root)
          marked == SelectSeq(leaves, LAMBDA l : l.styled /\ l.marks # {})
      IN  /\ DeltaWords(delta) = [x \in 1..Len(leaves) |-> leaves[x].word]
          /\ Formatted(delta) = [x \in 1..Len(marked) |->
                                    [text |-> <<marked[x].word>>,
                                     attrs |-> marked[x].marks]]

=============================================================================
