---------------------------- MODULE MCMdImporter ----------------------------
(***************************************************************************)
(* Model-checking instances of MdImporter: small families of the mdast     *)
(* trees markdown::to_mdast produces, chosen so that every branch of the   *)
(* walker is taken, alone and next to its neighbours.                      *)
(***************************************************************************)
EXTENDS MdImporter

-----------------------------------------------------------------------------
(* mdast constructors                                                      *)

Txt == [k |-> "Text"]
Img == [k |-> "Image"]
Code == [k |-> "Code"]
Rule == [k |-> "ThematicBreak"]
Para(cs) == [k |-> "Paragraph", ch |-> cs]
Heading(cs) == [k |-> "Heading", ch |-> cs]
Quote(cs) == [k |-> "Blockquote", ch |-> cs]
LI(cs) == [k |-> "ListItem", ch |-> cs]
MdList(lt, items) == [k |-> "List", lt |-> lt, ch |-> items]
Table(rows) == [k |-> "Table", rows |-> rows]
Root(cs) == [k |-> "Root", ch |-> cs]

\* an Html node; frag is the shape of html.value.trim()
Frag(tag, closed, content, summary, body) ==
    [tag |-> tag, closed |-> closed, content |-> content,
     summary |-> summary, body |-> body]
Html(frag) == [k |-> "Html", frag |-> frag]

\* "<aside>" [icon and text] ["</aside>"]
Aside(closed, content) == Html(Frag("aside", closed, content, "none", <<>>))
AsideEnd == Html(Frag("/aside", FALSE, FALSE, "none", <<>>))
\* "<details>" ["<summary>..</summary>" [body]]; summary "none" when the
\* fragment holds no complete <summary> element
Details(summary, body) == Html(Frag("details", FALSE, FALSE, summary, body))
DetailsEnd == Html(Frag("/details", FALSE, FALSE, "none", <<>>))
\* "<summary>text" ["</summary>" [body]]
Summary(closed, body) == Html(Frag("summary", closed, FALSE, "text", body))
\* any other html block, e.g. "<div>"
OtherHtml == Html(Frag("other", FALSE, FALSE, "none", <<>>))

\* sequences of 1..n elements of S
Seqs1(S, n) == UNION {[1..m -> S] : m \in 1..n}

-----------------------------------------------------------------------------
(* Block structure: paragraphs, images, headings, code, quotes, lists      *)

Leaves ==
    {Para(<<Txt>>), Para(<<Img>>), Para(<<Txt, Img>>), Heading(<<Txt>>),
     Code, Rule}

\* what a quote or list item may hold: a paragraph, an image paragraph,
\* code, or a nested one-item list
Inner == {Para(<<Txt>>), Para(<<Img>>), Code,
          MdList("numbered", <<LI(<<Para(<<Txt>>)>>)>>)}

Containers ==
    {Quote(<<>>), LI(<<>>)} \cup
    {Quote(cs) : cs \in Seqs1(Inner, 2)} \cup
    {MdList(lt, <<LI(cs)>>) : lt \in {"bulleted", "todo"},
                              cs \in Seqs1(Inner, 2)}

BlockDocs == {Root(cs) : cs \in Seqs1(Leaves \cup Containers, 2)}


-----------------------------------------------------------------------------
(* Tables: generic tables and Notion columns layouts                       *)

\* a two-column header, empty or not, with no body, with one or two body
\* rows of one or two cells each, or with four equal rows (more than the
\* three rows a filled columns layout may have); six empty header cells
\* with a full empty row, a short empty row, or a row with one filled cell;
\* and generic tables whose cells hold images
E == "empty"
T == "text"
I == "image"
Rows2 == Seqs1({E, T}, 2)
TableDocs ==
    {Root(<<Table(<<hd>> \o body)>>) :
        hd \in {<<E, E>>, <<T, E>>},
        body \in {<<>>} \cup Seqs1(Rows2, 2)
                 \cup {[i \in 1..4 |-> r] : r \in {<<T, E>>, <<E, E>>}}}
    \cup
    {Root(<<Table(<<[c \in 1..6 |-> E]>> \o body)>>) :
        body \in {<<[c \in 1..6 |-> E]>>, <<[c \in 1..5 |-> E]>>,
                  <<[c \in 1..6 |-> IF c = 1 THEN T ELSE E]>>}}
    \cup
    {Root(<<Table(<<<<T, I>>, body>>)>>) :
        body \in {<<I, T>>, <<E, I>>, <<I>>}}

HtmlPieces ==
    {Aside(FALSE, TRUE), Aside(TRUE, FALSE), AsideEnd,
     Details("text", <<>>), Details("none", <<>>),
     Details("empty", <<Para(<<Img>>)>>), DetailsEnd,
     Summary(TRUE, <<Code>>), Summary(FALSE, <<>>),
     OtherHtml, Para(<<Txt>>)}

HtmlDocs == {Root(cs) : cs \in Seqs1(HtmlPieces, 3)}

\* a callout inside a toggle, as Notion exports it
NestedHtmlDocs ==
    {Root(<<Details("text", <<>>), Aside(FALSE, TRUE), AsideEnd, DetailsEnd>>)}

\* block structure and tables together
StructureDocs == BlockDocs \cup TableDocs

=============================================================================
