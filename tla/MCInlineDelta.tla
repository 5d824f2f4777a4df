--------------------------- MODULE MCInlineDelta ---------------------------
(***************************************************************************)
(* The re-parsed contents for InlineDelta: empty markdown, and Roots of    *)
(* one or two children drawn from paragraphs and headings with plain,     *)
(* nested and non-inline children, and the block kinds that degrade to    *)
(* text (a list, a code block, an html block, a thematic break).          *)
(***************************************************************************)
EXTENDS InlineDelta

MCWords == {"w1", "w2"}

Leaf(k, v) == [k |-> k, v |-> v, ch |-> <<>>]
Node(k, cs) == [k |-> k, v |-> "", ch |-> cs]

Txt(v) == Leaf("Text", v)
Brk == Leaf("Break", "")
Img == Leaf("Image", "")

\* Root children: "w1", "**w1** w2", "w2 <span>" (inline html is not
\* inline), "![](u)", "w1\ <br> _[`w2`](u)_", "~~w2~~ $w1$", "# _w2_",
\* "#", "- **w1**", "```\nw2\n```", "<div>", "---"
Blocks ==
    {Node("Paragraph", <<Txt("w1")>>),
     Node("Paragraph", <<Node("Strong", <<Txt("w1")>>), Txt("w2")>>),
     Node("Paragraph", <<Txt("w2"), Leaf("Html", "w1")>>),
     Node("Paragraph", <<Img>>),
     Node("Paragraph", <<Txt("w1"), Brk,
                         Node("Emphasis", <<Node("Link", <<Leaf("InlineCode", "w2")>>)>>)>>),
     Node("Paragraph", <<Node("Delete", <<Txt("w2")>>), Leaf("InlineMath", "w1")>>),
     Node("Heading", <<Node("Emphasis", <<Txt("w2")>>)>>),
     Node("Heading", <<>>),
     Node("List", <<Node("ListItem", <<Node("Paragraph",
                                            <<Node("Strong", <<Txt("w1")>>)>>)>>)>>),
     Leaf("Code", "w2"),
     Leaf("Html", "w1"),
     Leaf("ThematicBreak", "")}

MCInputs == {EmptyMd} \cup {Node("Root", cs) : cs \in BoundedSeq(Blocks, 2) \ {<<>>}}

=============================================================================
