-------------------------- MODULE MCHtmlFragments --------------------------
(***************************************************************************)
(* The Html values for HtmlFragments: every <aside> fragment of up to     *)
(* four pieces and every <details> fragment of up to five, a piece being  *)
(* one char or one whole tag.                                             *)
(***************************************************************************)
EXTENDS HtmlFragments

\* the chars: a space, an ASCII letter, a letter outside ASCII (U+00C9),
\* an ASCII punctuation mark, '<', U+26A0 WARNING SIGN and U+FE0F
\* VARIATION SELECTOR-16, which makes the sign an emoji
MCSpace      == {"sp"}
MCAsciiAlnum == {"a"}
MCAlnum      == {"a", "Eacute"}

Char(c) == <<c>>

AsidePieces ==
    {Char(c) : c \in {"sp", "a", "Eacute", "*", "<", "warning", "vs16"}}
    \cup {Tag("aside>"), Tag("/aside>")}

DetailsPieces ==
    {Char("sp"), Char("a")}
    \cup {Tag(t) : t \in {"details>", "/details>", "summary>", "/summary>"}}

\* the strings made of at most n pieces
Strings(pieces, n) == {FlattenSeq(ps) : ps \in BoundedSeq(pieces, n)}

MCInputs ==
    {Trim(Tag("aside>") \o s) : s \in Strings(AsidePieces, 4)}
    \cup {Trim(Tag("details>") \o s) : s \in Strings(DetailsPieces, 5)}
    \cup {<<"a">>, <<"*", "a">>}

=============================================================================
