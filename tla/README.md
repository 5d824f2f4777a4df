# TLA+ models of the Markdown importer

This directory holds TLA+ models of the Markdown importer in
`src/collab-document/src/importer/md_importer.rs`. The importer turns a
Markdown string into a flat document snapshot with four parts:

- `blocks`: block id → block;
- `children_map`: block id → ordered child ids;
- `text_map`: text id → delta runs;
- the page id.

The models are checked with TLC.

## The system

`MDImporter::import` parses the input with `markdown::to_mdast`. It creates the
page block and walks the mdast tree with two mutually recursive functions:

- **`process_mdast_node`** (lines 150-372) dispatches on one node:
  - inline nodes become runs of the parent's delta;
  - a closing `</aside>` or `</details>` is dropped;
  - a `List` passes its list type on to its items;
  - a `Paragraph` whose only child is an `Image` is replaced by an image block;
  - a `Table` becomes either a Notion *columns* layout
    (`parse_notion_columns_table`, lines 73-148) or a generic table
    (`process_table_row`, lines 425-550);
  - `Root`, `Paragraph` and `Heading` create a block and walk their children;
  - `Blockquote` and `ListItem` put the text of a leading paragraph into their
    own delta and walk the remaining children;
  - `Code` keeps its text;
  - every other node creates a block with its text.
- **`process_mdast_node_children`** (lines 552-710) is the sibling loop. It
  recognises Notion's html fragments:
  - `<aside>` opens a *callout*: its siblings are walked into it until a
    closing `</aside>`;
  - `<details>` opens a *toggle*: a `<summary>` sibling or the fragment itself
    supplies its text, a re-parsed body is walked into it, and its siblings
    are walked into it until `</details>`;
  - a stray closing tag is skipped.
- **Block creation** (`create_block`, `update_children_map`,
  `ensure_children_map_entry`, `process_image`) inserts each block and appends
  its id to its parent's children.
  - The ids come from `generate_id`.
  - The html rewriters re-parse fragment text through
    `insert_markdown_as_inline_delta` (lines 778-833), the *secondary parse
    entry*. It trims the text, re-parses it with `to_mdast` and folds the
    Root's children into the block's delta.

The importer is one synchronous call and nothing runs concurrently. The hard
parts are therefore not interleavings. They are:

- the **order** in which a recursive walk with look-ahead loops emits blocks;
- the **scanning of html siblings**, where the loop index jumps over consumed
  nodes;
- **termination** of those loops;
- the **string surgery** of the html parsers (`parse_aside_html`,
  `parse_details_html`, `extract_tag_content`, lines 716-776), which trim,
  strip tags and lift a first character;
- the **consistency** of the three maps that the walk builds incrementally.

`src/collab-importer/examples/verify_notion_zip.rs` is an example CLI. It
unzips and imports a Notion export, then runs three recursive scans over the
returned view tree:

- an indented listing cut at depth 6 (`print_tree`);
- a duplicate scan of 32-hex notion ids (`collect_duplicate_ids`);
- a scan for siblings whose names agree after trim and lowercase
  (`collect_sibling_name_collisions`).

The three scans are modelled; the I/O around them is not.

## Modules

### `MdImporter.tla`: the walker

The recursion becomes an explicit call stack, so that each step of the walk is
one TLA+ action.

| Variable | Code |
|---|---|
| `doc` | the mdast tree `to_mdast` returned (chosen from the constant `Docs`) |
| `blocks` | `document_data.blocks`: id → `[ty, parent, origin, data]`, where `origin` is the mdast path of the node the block came from and `data` the keys of `Block.data` (kept for table cells only) |
| `childrenMap` | `meta.children_map` |
| `textMap` | `meta.text_map`: id → number of delta runs |
| `nextId` | `generate_id`, a counter of fresh ids; the page id is the model value `PageId` |
| `stack` | the Rust call stack: `node` frames are `process_mdast_node` calls; `children` frames are `process_mdast_node_children` loops (their `idx`, and whether they are in the plain loop, a callout's inner loop or a toggle's inner loop); `rows` and `columns` frames are the two table loops |

The data is abstracted as follows:

- A text node is one run.
- An html node carries the *shape* of its trimmed value: its tag; whether it
  closes itself; whether it has content; whether it holds a complete
  `<summary>` and whether that summary is empty; and the nodes its re-parsed
  body yields.
- A table cell is `"empty"`, `"text"` or `"image"`.
  - `CellEmpty` is `is_table_cell_empty`: only text counts, so an image-only
    cell is empty.
  - In a generic table, an image cell's paragraph gets an image block child
    (`CellItems`).
  - A cell block's data has `row` and `col`, and `align` only when the
    table's alignment list has an entry for its column (`CellData`, from
    `create_simple_table_cell_block`). The list has the header's length.

The actions follow the branches of the code, in the code's order:

- **node branches:** `ProcessInline`, `SkipClosingHtml`, `ProcessList`,
  `FlattenImageParagraph`, `ProcessImage`, `ProcessColumnsTable`,
  `ProcessContainer`, `ProcessHeadSplit`, `ProcessCode`, `ProcessTable`,
  `ProcessOther`;
- **children loop:** `ChildrenDone`, `SkipClosingTag`, `OpenCallout`,
  `OpenToggle`, `VisitChild`;
- **callout and toggle inner loops:** `InnerLoopExhausted`, `CloseInnerLoop`,
  `ToggleSummary`, `InnerChild`;
- **table loops:** `ProcessTableRow`, `ProcessColumn`, `TableLoopDone`.

Each action does all the map updates its branch makes (`Emit`, `AddRuns`). The
one exception is the Rust-level unreachable `Image` branch: no action takes it,
so a state that would need it cannot step.

`MarkdownRuns` and `DetailsParsed` model `insert_markdown_as_inline_delta` and
`parse_details_html` by what they produce. `IsNotionColumns` translates
`parse_notion_columns_table` condition by condition.

Three helpers come from `importer/util.rs`, which is not under `src/`:
`IsInline`, `BlockTypeOf` and `AddRuns`. They are modelled from `spec.md` and
marked as such in `PROJECT.json`.

### `BlockTree.tla`: what the walk promises

`BlockTree` is the abstract specification of an import. It has four variables:
`parentOf`, `kids`, `runs` and `open`.

- **`Grow`** adds any number of blocks in one step.
  - Each new block hangs under a block that exists after the step. Only the
    page has no parent.
  - Each new block is appended once, behind its parent's existing children.
  - Existing blocks keep their parent and their children prefix.
  - Deltas only grow.
- **`Finish`** closes the import. It is weakly fair, so the import returns.

`MdImporter` checks `ImplementsBlockTree == Tree!Spec`, where `Tree` is
`INSTANCE BlockTree WITH` this mapping:

| `BlockTree` | Mapped to |
|---|---|
| `parentOf` | each block's parent field |
| `kids` | its `children_map` entry, or `<<>>` where the code made none |
| `runs` | `textMap` |
| `open` | `~Done` |

A detailed step that emits several blocks (a table row with its cells, a
callout) is one `Grow` step. A step that only moves the stack is a stutter.

### `NotionZipScan.tla`: the scans of `verify_notion_zip.rs`

`main` runs the three recursive scans in sequence (`phase`). Each activation
is a frame on `frames`, and one step handles one page.

- `PrintPage` and `PrintReturn` model `print_tree`.
- `DupVisit`, `ScanReturn` and `FilterDups` model `collect_duplicate_ids` and
  `main`'s filter.
- `BucketSiblings` and `CollisionVisit` model the two loops of
  `collect_sibling_name_collisions`.

The model keeps real strings for names, ids and paths: a path is built with
the code's `format!("{}/{}")`. Trim and lowercase are constants over the model's
finite name and id sets (`Norm`, `Lower`), and so is the 32-hex test (`Hex32`).

The HashMap's iteration order is unspecified, so the collision reports are a
set. The sort of `id_dups` only orders printed lines, so it is left out.

`MCNotionZipScan` supplies the inputs. It uses names `a`, `A ` and `b`, and ids
`h`, `H` and `X`:

- `a` and `A ` collide only after trim and lowercase.
- `h` and `H` are one duplicate only after lowercase.
- `X` is not hex.

The view trees are one- and two-level trees, and one chain of seven pages that
reaches `print_tree`'s cut-off at `max_depth = 6`, the value `main` passes.

### `HtmlFragments.tla`: the html string parsers

The walker sees a fragment only through its shape. `HtmlFragments` models the
parsers that compute that shape, on strings:

- A string is a sequence of tokens. A token is either one Rust `char`, named by
  its class (`"sp"`, `"a"`, `"Eacute"`, `"warning"` for U+26A0, `"vs16"` for
  U+FE0F), or the rest of a tag after its `<`. So `<aside>` is
  `<<"<", "aside>">>`. The parsers only cut strings at whitespace, at the
  first char and at whole tags, so a tag rest is never split.
- The `str` methods are operators: `Trim`, `TrimStartMatches`, `Find` and
  `StripSuffix`.
- `ParseAside`, `ParseDetails` and `ExtractTagContent` translate the three
  functions line by line.
- `Init` picks the trimmed value the children loop holds (line 563).
  `TryAside` and then `TryDetails` follow the loop's order (lines 569
  and 613). A value `parse_aside_html` accepts makes a callout. Any other
  value starting with `<details>` makes a toggle, whether
  `parse_details_html` accepts it or not. The rest fall through to the
  walker.
- The char classes are constants: `Space` (`char::is_whitespace`),
  `AsciiAlnum` (`is_ascii_alphanumeric`) and `Alnum` (`is_alphanumeric`).

`MCHtmlFragments` enumerates the values. These are every `<aside>` fragment
followed by up to four pieces, and every `<details>` fragment followed by up to
five. A piece is one char or one whole tag. That is 14,339 values, which
cover:

- repeated opening tags;
- a tag as the first text;
- a missing or doubled closing tag;
- text before, inside and after `<summary>`;
- a `<summary>` without `</summary>`.

### `InlineDelta.tla`: the secondary parse entry

`insert_markdown_as_inline_delta` fills the delta of a callout (its content)
and of a toggle (its summary). `InlineDelta` models the whole function on the
Root `to_mdast` returns.

| Variable | Code |
|---|---|
| `root` | the Root of the re-parsed text, or `EmptyMd` when `markdown.trim()` is empty (the early return at line 785) |
| `i` | the position of `for child in root.children` (line 797) |
| `j` | the position of `for c in p.children` / `h.children` (lines 800, 811) |
| `delta` | `text_map[block_id]`: a sequence of segments `[text, attrs]` |

- `FoldBlockChild` is one iteration of the inner loop of the `Paragraph` or
  `Heading` arm. An inline child is folded by `process_inline_mdast_node`;
  any other child is inserted as one plain segment of its `to_string()`.
- `NextRootChild` leaves a paragraph or heading; `InsertOther` is the `_` arm.
- `Fold` is `process_inline_mdast_node` from spec §4.2 (`importer/util.rs` is
  not under `src/`). A leaf is one segment with the union of the wrappers'
  attributes, and a `Break` is a plain newline.
- `NodeToString` is the markdown crate's `Node::to_string`: the literal values
  below a node, in order, where images, breaks and rules render as nothing.
- A word is a model value (`w1`, `w2`), so a segment's text is a sequence of
  words.

The `to_mdast` error branch (lines 789-794) and the non-Root branch
(828-832) cannot be taken: without MDX, `to_mdast` does not fail, and it
always returns a Root.

`MCInlineDelta` enumerates empty markdown and Roots of one or two children
out of twelve (157 inputs). The children are:

- paragraphs with plain, bold, nested italic link code, strikethrough,
  inline math, a hard break, inline html and an image;
- a heading with an italic word, and an empty heading;
- blocks that degrade to text: a list holding bold text, a code block, an
  html block and a thematic break.

### `MCMdImporter.tla`: the inputs

This module defines mdast constructors and the families of documents:

| Family | Contents | Size |
|---|---|---|
| `BlockDocs` | roots of one or two blocks drawn from leaves (paragraphs with text, an image, or both; heading; code; rule) and containers (empty and filled quotes, list items and bulleted or todo lists, holding up to two of paragraph, image paragraph, code and a nested numbered list) | 4692 documents |
| `TableDocs` | a two-column header, empty or not, with bodies of 0-2 rows of 1-2 cells or four equal rows; six-column empty headers with a full empty row, a short empty row, or a row with one filled cell; generic tables with image cells | 34 documents |
| `HtmlDocs` | roots of 1-3 pieces out of eleven: open and self-closed callouts, `</aside>`, details fragments with a text summary, no summary, or an empty summary plus a re-parsed image body, `</details>`, `<summary>` fragments with and without a closing tag, another html block, and a paragraph | 1463 documents |
| `NestedHtmlDocs` | a callout inside a toggle, as Notion exports it | 1 document |

These bounds reach every branch, including:

- the columns boundaries: 2 columns, 5 and 6 columns, 3 and 4 rows, and
  all-empty versus filled bodies;
- head splits with and without a leading paragraph;
- a toggle body followed by siblings;
- stray and nested closing tags.

The bounds were chosen by coverage: every action and every disjunct fires in
the passing runs. A deeper tree repeats the same frames and adds no new
branch.

## Properties

| Property | Kind | What it says |
|---|---|---|
| `TypeOK` | type invariant | Includes that every id in the maps is one `generate_id` has already issued, so a block emitted under an id the counter has not passed breaks it. A skipped id does not. |
| `SnapshotConsistent` | safety | After every step, every `children_map` key and child is a block. Every non-page block is listed exactly once, under the block its `parent` field names. The page is nobody's child. This is what `update_children_map`, `process_image` and the html branches must keep together. |
| `ReadingOrder` | safety | A block is listed after its siblings from earlier mdast nodes. The check compares origins: one path before another in document order. This is the look-ahead loops' ordering promise. |
| `ImagesConserved` | safety | On return, the number of image blocks equals the number of images in the source, counting bare images, images beside text, images in head paragraphs and images in generic table cells. It is checked on `walk_blocks` only: in `walk_html` a nested `<details>` is degraded to text and its image is lost (the `nested_html_opener` finding). |
| `ImplementsBlockTree` | refinement, with liveness | The walk implements `BlockTree`: no step rewrites an emitted block, reorders or drops a linked child, links a block twice or under a missing parent, or shrinks a delta. The import also returns (`BlockTree`'s weak fairness of `Finish`, with `open` mapped to `~Done`), so a loop that fails to advance `idx` violates it. The walk is checked under weak fairness of `Next`, which the code justifies: `import` is a single synchronous call that nothing preempts. |
| `AsideTextKept` (fragments) | safety | A callout's icon and content, read one after the other, spell the `<aside>` fragment's inner text up to whitespace. |
| `DetailsTextInOrder` (fragments) | safety | A toggle's summary and body, read one after the other, are a subsequence of the fragment: no text is repeated or reordered. |
| `DeltaKeepsContent` (inline delta) | safety | On return, the delta inserts every word of the re-parsed content once and in reading order. Its formatted segments are, in order, exactly the words spec §4.9 styles (the inline descendants of a paragraph or heading) that have marks, each alone with the union of its wrappers' marks. The reference walks the leaves of the tree (`ContentLeaves`), not the code's loops, `Fold` or `to_string`. A block kind that falls into the `_` arm keeps its words but loses their marks. |
| `PrintedAsTree` (scan) | safety | After `print_tree`, the listing is the pre-order of the pages at most 6 levels deep, indented two columns per level, with the id shown only when it is 32-hex. |
| `DupScanCorrect` (scan) | safety | The reported duplicates are exactly the lowercased 32-hex ids carried by two or more pages. Each comes with all its pages' paths, in pre-order. |
| `CollisionsCorrect` (scan) | safety | One report per group of two or more siblings whose normalized names agree. It sits at the parent's path and carries the group's variants. |

The violation runs each check one property that `spec.md` states of the
program and that the code breaks:

| Property | What it checks |
|---|---|
| `EveryBlockHasChildrenEntry` | spec §3: every block has an entry |
| `SelfClosedFragmentKeepsSiblings` | spec §4.7: siblings are consumed only up to the matching close |
| `HtmlOpenersRecognised` | spec §4.7: an opener is never seen in isolation |
| `TextConserved` | reading order and content; §4.1 |
| `ColumnsLayoutAsSpecified` | spec §4.5 |
| `ImagesConserved` | spec §4.4: every image becomes an image block |
| `IconAsSpecified` | spec §4.7: the first character becomes the icon exactly when it is non-alphanumeric. Spec §9 accepts that a multi-codepoint emoji may be split, so only the first char is compared. |
| `DetailsTextKept` | spec §4.7 and §7: the toggle keeps the fragment's text, best effort |

## Runs

| Run | Documents | Expect | What it shows |
|---|---|---|---|
| `walk_blocks` | `BlockDocs ∪ TableDocs` | pass | `TypeOK`, `SnapshotConsistent`, `ReadingOrder`, `ImagesConserved` and `ImplementsBlockTree` hold for block structure, image promotion, head splits and both table rewrites (about 100k states, about 1.5 minutes). |
| `walk_html` | `HtmlDocs` | pass | The same properties except `ImagesConserved` hold for callouts, toggles, summaries and closing tags (14k states). |
| `fragments` | `MCInputs` | pass | `AsideTextKept` and `DetailsTextInOrder` hold for every fragment value (36k states). |
| `inline_delta` | `MCInlineDelta` | pass | `DeltaKeepsContent` holds for every enumerated re-parse (757 states). |
| `scan_views` | `MCViews` | pass | The three scans of `verify_notion_zip.rs` match their reference definitions (121k states). |
| `callout_children_entry` | `HtmlDocs` | violation | An `<aside>` with no siblings yields a callout with no `children_map` entry (lines 585, 624). |
| `self_closed_aside` | `HtmlDocs` | violation | A self-closed `<aside></aside>` followed by a sibling (in TLC's trace a `<summary>` fragment; a paragraph is taken the same way) nests that sibling in the callout (line 590; the same loop for `<details>` at 648). |
| `nested_html_opener` | `NestedHtmlDocs` | violation | The inner `<aside>` becomes a text block (lines 599, 683), not a callout. Its `</aside>` is dropped as a bare closing tag (lines 168-173), so the blocks between them stay directly in the toggle. The toggle closes at its own `</details>`. |
| `head_split_drops_text` | `BlockDocs` | violation | `> ```code```` loses the code block: the head split skips a first child that is not a paragraph (lines 313-335). |
| `aside_icon` | `MCInputs` | violation | `<aside>É</aside>` gives the icon `É`, because the test is `is_ascii_alphanumeric` (line 737). CJK text is affected the same way. The one-code-point lift of an emoji (line 734) is not claimed, since spec §9 accepts it. |
| `details_text_lost` | `MCInputs` | violation | `<details>a</details>` becomes a toggle without text: `parse_details_html` fails without a `<summary>` (line 757), and the branch (line 628) takes nothing else from the fragment. Text before `<summary>` is dropped as well (`extract_tag_content`, line 770). |
| `ragged_columns_table` | `TableDocs` | violation | An empty two-cell header with a one-cell body row (empty or holding text, depending on the trace) is turned into columns: the row-length check only guards the all-empty branch (lines 100-121). |

Each property of the passing runs has a mutant in `PROJECT.json`: a plausible
bug in the mapped definition that the property catches. The mutant operators
sit in `MdImporter.tla`, `HtmlFragments.tla` and `NotionZipScan.tla`, each
marked `\* fault:`. The mutants of `InlineDelta.tla` are there too.

Three disagreements were found while modelling but have no run of their own:

- **Image-only cells in a columns layout.** `is_table_cell_empty` counts only
  text (line 245). The columns rewrite therefore skips an image-only cell, and
  `ImagesConserved` fails on such a table. `walk_blocks` leaves these tables
  out.
- **A `<summary>` sibling without `</summary>`.** It is skipped together with
  its text (line 657). `TextConserved` would catch this.
- **Cells past the alignment list.** `create_simple_table_cell_block` sets
  `align` only when `alignments.get(col)` is `Some` (line 528). The list has
  the header's length, and markdown-rs keeps a body row's excess cells, so
  those cells get no `align`. Spec §4.6 says `align` defaults to left. The
  walk models the keys (`CellData`); a one-cell header with a two-cell row
  shows it.

The secondary parse entry has two more effects. Spec §4.9 prescribes both,
so no property is violated:

- An image in a callout's content or a toggle's summary renders as nothing
  (line 805).
- The text of several re-parsed blocks is glued into one delta with no
  separator (line 797).

## Not modelled

- **Parse options and `to_mdast` itself.** The models start from mdast trees.
- **Block data other than a table cell's keys.** This covers heading level,
  list start, todo `checked`, code language and image url. No property reads
  them.
- **The parsers' result inside the walk.** `MdImporter` keeps a fragment's
  shape, and `HtmlFragments` checks the parsers that produce it. The two are
  not composed into one state space, because the strings would multiply the
  walk's documents.
- **Delta attributes inside the walk.** `MdImporter` counts runs
  (`MarkdownRuns` is one run for non-empty re-parsed text). The segments and
  their attributes are modelled in `InlineDelta` only. Link hrefs are not
  modelled.
- **The I/O of `verify_notion_zip.rs`.** This covers unzipping, the import
  call and the summary printing. The order of printed lines is also left out.

## Plan for further work

1. Block data for lists: the list type carried through head splits and
   callouts (lines 327-334, 604).
2. Html fragments nested inside quotes and list items.
3. Larger html families: four pieces per document, and a body under every
   fragment kind.
