--------------------------- MODULE HtmlFragments ---------------------------
(***************************************************************************)
(* The string parsers of the embedded-HTML rewriters of md_importer.rs:    *)
(* parse_aside_html, parse_details_html and extract_tag_content, applied  *)
(* in the order process_mdast_node_children tries them on an Html value.  *)
(*                                                                         *)
(* A string is a sequence of tokens.  A token is one Rust char, named by   *)
(* the class the code and the properties tell apart ("sp" a whitespace,   *)
(* "a" an ASCII letter, "warning" U+26A0, "vs16" U+FE0F, ...), or the rest  *)
(* of a tag literal after its '<' ("aside>", "/summary>", ...), which only *)
(* ever follows a "<" token: the string "<aside>" is <<"<", "aside>">>.    *)
(* The parsers only take strings apart at whitespace, at the first char   *)
(* and at whole tags, so nothing splits a tag rest.                       *)
(***************************************************************************)
EXTENDS Naturals, Sequences, SequencesExt

CONSTANTS
    Space,       \* chars for which char::is_whitespace holds
    AsciiAlnum,  \* chars for which char::is_ascii_alphanumeric holds
    Alnum,       \* chars for which char::is_alphanumeric holds (Unicode)
    Inputs       \* the trimmed Html values the children loop hands over

VARIABLES
    html,        \* the value: html.value.trim() in the children loop
    phase,       \* "aside", "details", then "callout", "toggle" or "other"
    aside,       \* the result of parse_aside_html(value)
    details      \* the result of parse_details_html(value)

vars == <<html, phase, aside, details>>

\* the rests of the tag literals the parsers match
TagRests == {"aside>", "/aside>", "details>", "/details>", "summary>", "/summary>"}

ASSUME /\ AsciiAlnum \subseteq Alnum
       /\ Space \cap (Alnum \cup TagRests) = {}

\* Option::None
None == [some |-> FALSE]

\* the string of a tag, "<" followed by its rest
Tag(rest) == <<"<", rest>>

-----------------------------------------------------------------------------
(* The str methods the parsers call                                        *)

\* str::trim_start, str::trim_end, str::trim
TrimStart(s) ==
    LET i == SelectInSeq(s, LAMBDA x : x \notin Space)
    IN  IF i = 0 THEN <<>> ELSE SubSeq(s, i, Len(s))

TrimEnd(s) == SubSeq(s, 1, SelectLastInSeq(s, LAMBDA x : x \notin Space))

Trim(s) == TrimEnd(TrimStart(s))

\* str::trim_start_matches(w): every leading occurrence of w
RECURSIVE TrimStartMatches(_, _)
TrimStartMatches(s, w) ==
    IF IsPrefix(w, s) THEN TrimStartMatches(SubSeq(s, Len(w) + 1, Len(s)), w)
    ELSE s

\* str::find(w): the position of the first occurrence of w, 0 for None
Find(s, w) ==
    SelectInSeq([i \in 1..Len(s) |-> i],
                LAMBDA i : i + Len(w) - 1 <= Len(s)
                           /\ SubSeq(s, i, i + Len(w) - 1) = w)

\* str::strip_suffix(w).unwrap_or(s)
StripSuffix(s, w) ==
    IF IsSuffix(w, s) THEN SubSeq(s, 1, Len(s) - Len(w)) ELSE s

-----------------------------------------------------------------------------
(* The parsers                                                             *)

\* fault: the content loses its first char whether or not it became the icon
ParseAsideDropsFirst(value) ==
    LET h == Trim(value)
        c == Trim(StripSuffix(Trim(TrimStartMatches(h, Tag("aside>"))),
                              Tag("/aside>")))
        lift == c # <<>> /\ c[1] \notin AsciiAlnum
    IN  IF ~IsPrefix(Tag("aside>"), h) THEN None
        ELSE [some    |-> TRUE,
              icon    |-> IF lift THEN <<c[1]>> ELSE <<>>,
              content |-> IF c = <<>> THEN c ELSE TrimStart(Tail(c))]

\* parse_aside_html: after the leading <aside> tags and one closing
\* </aside>, a first char that is not ASCII alphanumeric becomes the icon
\* and the rest, trimmed at its start, the content
ParseAside(value) ==
    LET h == Trim(value)
        c == Trim(StripSuffix(Trim(TrimStartMatches(h, Tag("aside>"))),
                              Tag("/aside>")))
        lift == c # <<>> /\ c[1] \notin AsciiAlnum
    IN  IF ~IsPrefix(Tag("aside>"), h) THEN None
        ELSE [some    |-> TRUE,
              icon    |-> IF lift THEN <<c[1]>> ELSE <<>>,
              content |-> IF lift THEN TrimStart(Tail(c)) ELSE c]

\* extract_tag_content(input, tag): the text between the first <tag> and
\* the first </tag> after it, and the text after that </tag>
ExtractTagContent(input, tag) ==
    LET open  == Tag(tag \o ">")
        close == Tag("/" \o tag \o ">")
        start == Find(input, open)
        afterOpen == SubSeq(input, start + Len(open), Len(input))
        end == Find(afterOpen, close)
    IN  IF start = 0 \/ end = 0 THEN None
        ELSE [some       |-> TRUE,
              content    |-> SubSeq(afterOpen, 1, end - 1),
              afterClose |-> SubSeq(afterOpen, end + Len(close), Len(afterOpen))]

\* fault: the body is taken from the text after <details> instead of the
\* text after </summary> (rest = after_summary left out)
ParseDetailsNoAdvance(value) ==
    LET h == Trim(value)
        rest == TrimStartMatches(h, Tag("details>"))
        sum  == ExtractTagContent(rest, "summary")
    IN  IF ~IsPrefix(Tag("details>"), h) \/ ~sum.some THEN None
        ELSE [some    |-> TRUE,
              summary |-> Trim(sum.content),
              body    |-> Trim(StripSuffix(Trim(rest), Tag("/details>")))]

\* parse_details_html: the first <summary>...</summary> after the leading
\* <details> tags is the summary; what follows it, less one closing
\* </details>, is the body; no summary, no toggle
ParseDetails(value) ==
    LET h == Trim(value)
        rest == TrimStartMatches(h, Tag("details>"))
        sum  == ExtractTagContent(rest, "summary")
    IN  IF ~IsPrefix(Tag("details>"), h) \/ ~sum.some THEN None
        ELSE [some    |-> TRUE,
              summary |-> Trim(sum.content),
              body    |-> Trim(StripSuffix(Trim(sum.afterClose), Tag("/details>")))]

-----------------------------------------------------------------------------
(* The children loop tries the parsers in turn                             *)

Init ==
    /\ html \in Inputs
    /\ phase = "aside"
    /\ aside = None
    /\ details = None

\* if let Some(callout) = parse_aside_html(value): a callout, else go on
TryAside ==
    /\ phase = "aside"
    /\ aside' = ParseAside(html)
    /\ phase' = IF aside'.some THEN "callout" ELSE "details"
    /\ UNCHANGED <<html, details>>

\* if value.starts_with("<details>"): a toggle, whose summary and body come
\* from parse_details_html(value) when it returns Some; any other value is
\* walked by process_mdast_node
TryDetails ==
    /\ phase = "details"
    /\ details' = ParseDetails(html)
    /\ phase' = IF IsPrefix(Tag("details>"), html) THEN "toggle" ELSE "other"
    /\ UNCHANGED <<html, aside>>

Next == TryAside \/ TryDetails

Spec == Init /\ [][Next]_vars

-----------------------------------------------------------------------------
(* Properties                                                              *)

\* the visible text of a string: what is left without whitespace
Visible(s) == SelectSeq(s, LAMBDA x : x \notin Space)

\* s is t with some of its elements left out, the rest in order
RECURSIVE IsSubsequence(_, _)
IsSubsequence(s, t) ==
    \/ s = <<>>
    \/ /\ t # <<>>
       /\ IF s[1] = t[1] THEN IsSubsequence(Tail(s), Tail(t))
                         ELSE IsSubsequence(s, Tail(t))

\* the inner text of an <aside> fragment (spec 4.7): the fragment without
\* its opening tag and without a closing tag at its end
AsideInner(h) ==
    StripSuffix(TrimStartMatches(h, Tag("aside>")), Tag("/aside>"))

\* A callout keeps the fragment's text: icon and content, read one after
\* the other, spell the inner text of the <aside> fragment up to
\* whitespace.  parse_aside_html trims, strips tags and lifts the icon in
\* four steps, and a slip in any of them loses or repeats a char.
AsideTextKept ==
    phase = "callout" =>
        Visible(aside.icon \o aside.content) = Visible(AsideInner(html))

\* A toggle shows no text twice and none out of order: its summary and its
\* body, one after the other, are a subsequence of the fragment.
\* parse_details_html cuts the value at <summary>, </summary> and
\* </details>, and the body must start after the summary it consumed.
DetailsTextInOrder ==
    phase = "toggle" /\ details.some =>
        IsSubsequence(Visible(details.summary \o details.body), Visible(html))


\* The icon is what spec 4.7 lifts: "If the opening fragment's inner text
\* begins with a non-alphanumeric character, that first character is
\* lifted into data.icon", and no icon otherwise.  parse_aside_html tests
\* first.is_ascii_alphanumeric(), so a first letter outside ASCII (an
\* accented or CJK letter) becomes the icon and leaves the text.
IconAsSpecified ==
    phase = "callout" =>
        LET inner == Trim(AsideInner(html))
        IN  aside.icon = IF inner # <<>> /\ inner[1] \notin Alnum
                         THEN <<inner[1]>> ELSE <<>>

\* the text of a string: its chars without whitespace and without tags
RECURSIVE TextOf(_)
TextOf(s) ==
    IF s = <<>> THEN <<>>
    ELSE IF Len(s) > 1 /\ s[1] = "<" /\ s[2] \in TagRests
         THEN TextOf(SubSeq(s, 3, Len(s)))
    ELSE IF s[1] \in Space THEN TextOf(Tail(s))
    ELSE <<s[1]>> \o TextOf(Tail(s))

\* A toggle keeps the text of its fragment (spec 4.7: the summary becomes
\* the toggle's text and "any trailing body text inside the same opening
\* fragment is re-parsed into the toggle's children"; spec 7: best effort,
\* consume what is parseable).  The toggle branch takes text from the
\* fragment only when parse_details_html returns Some, which needs a
\* complete <summary>, and extract_tag_content drops whatever stands
\* between <details> and <summary>.
DetailsTextKept ==
    phase = "toggle" =>
        TextOf(IF details.some THEN details.summary \o details.body ELSE <<>>)
            = TextOf(html)

=============================================================================
