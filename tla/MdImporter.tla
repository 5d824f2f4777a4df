----------------------------- MODULE MdImporter -----------------------------
(***************************************************************************)
(* The Markdown importer of collab-document (importer/md_importer.rs):    *)
(* MDImporter::import walks a parsed mdast tree and fills a DocumentData   *)
(* snapshot (blocks, meta.children_map, meta.text_map).                    *)
(*                                                                         *)
(* The recursion of process_mdast_node / process_mdast_node_children is    *)
(* modelled as an explicit call stack: every frame is one activation, the  *)
(* top frame (the last element of `stack`) is the one running, and a step  *)
(* is one iteration of the activation's body up to its next recursive      *)
(* call.  The walk is single-threaded, so the interleavings explored are   *)
(* the different input documents, not schedules.                          *)
(*                                                                         *)
(* Data abstraction: a text run is counted, not spelled; an inline subtree *)
(* is a Text node; an Html node carries the shape of its fragment (which   *)
(* tag it opens or closes, whether it closes itself, whether its summary   *)
(* or content is empty) and, where the code re-parses part of it with      *)
(* to_mdast, the nodes that parse yields.  A table is its rows, each row   *)
(* the sequence of its cells, TRUE for a non-empty cell.  Every block      *)
(* records the mdast path of the node it came from (`origin`), so that     *)
(* properties can relate the snapshot to the input.                        *)
(***************************************************************************)
EXTENDS Naturals, Sequences, SequencesExt, FiniteSets

CONSTANTS
    PageId,     \* document_id passed to import: the id of the root page block
    Docs        \* the mdast Root nodes that to_mdast may hand to the walker

VARIABLES
    doc,          \* the input: the mdast Root node being imported
    blocks,       \* document_data.blocks: id -> [ty, parent, origin]
    childrenMap,  \* document_data.meta.children_map: id -> Seq(id)
    textMap,      \* document_data.meta.text_map: id -> number of text runs
    nextId,       \* generate_id(): the next fresh id
    stack         \* activations of process_mdast_node(_children), top last

vars == <<doc, blocks, childrenMap, textMap, nextId, stack>>

\* parent_id = None, and Block.parent = "" (unwrap_or_default) for the root
NoId == 0

-----------------------------------------------------------------------------
(* Node shapes and the classifiers of importer/util.rs                     *)

\* is_inline_node: the inline kinds, abstracted to Text
IsInline(n) == n.k = "Text"

IsHtml(n, tag) == n.k = "Html" /\ n.frag.tag = tag

\* html.value.trim() == "</aside>" || ... == "</details>"
IsClosingTag(n) == IsHtml(n, "/aside") \/ IsHtml(n, "/details")

\* mdast_node_type_to_block_type(node, list_type)
BlockTypeOf(n, lt) ==
    CASE n.k = "Root"          -> "page"
      [] n.k = "Paragraph"     -> "paragraph"
      [] n.k = "Heading"       -> "heading"
      [] n.k = "Blockquote"    -> "quote"
      [] n.k = "Code"          -> "code"
      [] n.k = "ThematicBreak" -> "divider"
      [] n.k = "Table"         -> "simple_table"
      [] n.k = "ListItem"      -> CASE lt = "numbered" -> "numbered_list"
                                    [] lt = "todo"     -> "todo_list"
                                    [] OTHER           -> "bulleted_list"
      [] OTHER                 -> "text"

\* is_table_cell_empty: collect_cell_text gathers only the text of Text,
\* InlineCode, InlineMath and their Strong/Emphasis/Delete/Link wrappers,
\* so a cell holding only an image is as empty as a blank one
CellEmpty(cell) == cell # "text"

\* parse_notion_columns_table: rows[1] is the header, a cell is "empty",
\* "text" or "image" (a cell whose only content is an image)
IsNotionColumns(rows) ==
    LET header   == rows[1]
        colCount == Len(header)
        body     == Tail(rows)
        allBodyEmpty ==
            \A r \in 1..Len(body) :
                /\ Len(body[r]) = colCount
                /\ \A c \in 1..Len(body[r]) : CellEmpty(body[r][c])
    IN  /\ Len(rows) >= 1
        /\ colCount >= 2
        /\ \A c \in 1..colCount : CellEmpty(header[c])
        /\ body # <<>>
        /\ IF allBodyEmpty THEN colCount >= 6
                           ELSE colCount <= 5 /\ Len(body) <= 3

\* parse_details_html: Some only when the fragment holds a complete
\* <summary>..</summary> element (extract_tag_content)
DetailsParsed(frag) == frag.summary # "none"

\* insert_markdown_as_inline_delta: nothing for an empty (trimmed) string,
\* otherwise the runs of the re-parsed inline content, counted as one
MarkdownRuns(nonEmpty) == IF nonEmpty THEN 1 ELSE 0

-----------------------------------------------------------------------------
(* The snapshot: emitting blocks                                           *)

\* A block the code is about to insert: ensure says whether it also calls
\* ensure_children_map_entry, runs how many text runs go into text_map.
\* data holds the keys of Block.data; only a table cell's are modelled.
Item(id, ty, parent, origin, ensure, runs) ==
    [id |-> id, ty |-> ty, parent |-> parent, origin |-> origin,
     ensure |-> ensure, runs |-> runs, data |-> {}]

IdsOf(items) == {items[i].id : i \in 1..Len(items)}

\* update_children_map for every item, in order, after the ensures
ChildIdsUnder(items, p) ==
    LET under == SelectSeq(items, LAMBDA it : it.parent = p)
    IN  [i \in 1..Len(under) |-> under[i].id]

\* fault: update_children_map replaces the parent's list by the new child
\* (children_map.insert(parent, vec![child])) instead of appending to it
EmitOverwrite(items) ==
    LET ItemOf(b) == items[CHOOSE i \in 1..Len(items) : items[i].id = b]
        parents == {items[i].parent : i \in 1..Len(items)} \ {NoId}
    IN  /\ blocks' = [b \in DOMAIN blocks \cup IdsOf(items) |->
                        IF b \in DOMAIN blocks THEN blocks[b]
                        ELSE [ty |-> ItemOf(b).ty, parent |-> ItemOf(b).parent,
                              origin |-> ItemOf(b).origin, data |-> ItemOf(b).data]]
        /\ childrenMap' = [p \in DOMAIN childrenMap \cup parents \cup IdsOf(items) |->
                             IF p \in parents THEN ChildIdsUnder(items, p)
                             ELSE IF p \in DOMAIN childrenMap THEN childrenMap[p]
                             ELSE <<>>]
        /\ textMap' = [b \in DOMAIN textMap \cup
                             {items[i].id : i \in {j \in 1..Len(items) : items[j].runs > 0}} |->
                         IF b \in DOMAIN textMap THEN textMap[b] ELSE ItemOf(b).runs]

\* blocks.insert, ensure_children_map_entry and update_children_map of a
\* sequence of new blocks, and insert_delta_to_text_map of their runs
Emit(items) ==
    LET newIds  == IdsOf(items)
        ItemOf(b) == items[CHOOSE i \in 1..Len(items) : items[i].id = b]
        keys == DOMAIN childrenMap
                  \cup {items[i].id : i \in {j \in 1..Len(items) : items[j].ensure}}
                  \cup ({items[i].parent : i \in 1..Len(items)} \ {NoId})
        texted == {items[i].id : i \in {j \in 1..Len(items) : items[j].runs > 0}}
    IN  /\ blocks' = [b \in DOMAIN blocks \cup newIds |->
                        IF b \in DOMAIN blocks THEN blocks[b]
                        ELSE [ty     |-> ItemOf(b).ty,
                              parent |-> ItemOf(b).parent,
                              origin |-> ItemOf(b).origin, data |-> ItemOf(b).data]]
        /\ childrenMap' = [p \in keys |->
                             (IF p \in DOMAIN childrenMap THEN childrenMap[p]
                                                          ELSE <<>>)
                             \o ChildIdsUnder(items, p)]
        /\ textMap' = [b \in DOMAIN textMap \cup texted |->
                         IF b \in DOMAIN textMap THEN textMap[b]
                                                 ELSE ItemOf(b).runs]

\* insert_delta_to_text_map on an existing block: the runs are appended
AddRuns(id, n) ==
    textMap' = IF n = 0 THEN textMap
               ELSE [b \in DOMAIN textMap \cup {id} |->
                       (IF b \in DOMAIN textMap THEN textMap[b] ELSE 0)
                       + (IF b = id THEN n ELSE 0)]

-----------------------------------------------------------------------------
(* Activations                                                             *)

\* process_mdast_node(node, parent_id, block_id, list_type, ..)
NodeFrame(n, path, parent, bid, lt) ==
    [f |-> "node", node |-> n, path |-> path, parent |-> parent,
     bid |-> bid, lt |-> lt]

\* process_mdast_node_children(parent_id, children, list_type, ..): idx is
\* the loop index, mode says whether the loop is inside the inner loop of
\* a callout or a toggle whose block is target
ChildrenFrame(parent, nodes, paths, lt) ==
    [f |-> "children", parent |-> parent, nodes |-> nodes, paths |-> paths,
     idx |-> 1, lt |-> lt, mode |-> "scan", target |-> NoId,
     summaryWritten |-> FALSE]

\* the paths of the children ch of the node at path
ChildPaths(path, ch) == [i \in 1..Len(ch) |-> Append(path, i)]

\* the loop of process_table_row calls over the rows of a generic table
RowsFrame(id, path, rows) ==
    [f |-> "rows", id |-> id, path |-> path, rows |-> rows, idx |-> 1]

\* the column loop of the Notion columns rewrite
ColumnsFrame(id, path, rows) ==
    [f |-> "columns", id |-> id, path |-> path, rows |-> rows, idx |-> 1]

Top == stack[Len(stack)]

\* pop the running activation and push fs, whose last element runs next
Return(fs) == stack' = Front(stack) \o fs

Done == stack = <<>>

Running(kind) == stack # <<>> /\ Top.f = kind

\* fault: generate_id hands out the same id again
NextIdAfterStale(bid) == nextId

\* fault: the preassigned block_id is ignored and a fresh id generated
IdForFresh(bid) == nextId

\* block_id.unwrap_or_else(generate_id)
IdFor(bid) == IF bid # NoId THEN bid ELSE nextId

NextIdAfter(bid) == IF bid # NoId THEN nextId ELSE nextId + 1

-----------------------------------------------------------------------------
(* process_mdast_node: one action per branch, in the code's order          *)

\* is_inline_node(node): process_inline_mdast_node appends the node's runs
\* to the parent block's delta
ProcessInline ==
    /\ Running("node")
    /\ IsInline(Top.node)
    /\ AddRuns(Top.parent, 1)
    /\ Return(<<>>)
    /\ UNCHANGED <<doc, blocks, childrenMap, nextId>>

\* a closing </aside> or </details> seen by the walker itself is a no-op
SkipClosingHtml ==
    /\ Running("node")
    /\ IsClosingTag(Top.node)
    /\ Return(<<>>)
    /\ UNCHANGED <<doc, blocks, childrenMap, textMap, nextId>>

\* get_mdast_node_info: a list emits no block, its items are walked under
\* the same parent with the list's type
ProcessList ==
    /\ Running("node")
    /\ Top.node.k = "List"
    /\ Return(<<ChildrenFrame(Top.parent, Top.node.ch,
                              ChildPaths(Top.path, Top.node.ch), Top.node.lt)>>)
    /\ UNCHANGED <<doc, blocks, childrenMap, textMap, nextId>>

IsImageParagraph(n) ==
    n.k = "Paragraph" /\ Len(n.ch) = 1 /\ n.ch[1].k = "Image"

\* fault: the image is appended to its parent's children twice
EmitImageLinkedTwice(parent, origin) ==
    /\ Emit(<<Item(nextId, "image", parent, origin, TRUE, 0),
              Item(nextId, "image", parent, origin, TRUE, 0)>>)
    /\ nextId' = nextId + 1

\* process_image: an image block directly under parent_id
EmitImage(parent, origin) ==
    /\ Emit(<<Item(nextId, "image", parent, origin, TRUE, 0)>>)
    /\ nextId' = nextId + 1

\* a paragraph whose only child is an image is replaced by the image
FlattenImageParagraph ==
    /\ Running("node")
    /\ IsImageParagraph(Top.node)
    /\ Top.parent # NoId
    /\ EmitImage(Top.parent, Append(Top.path, 1))
    /\ Return(<<>>)
    /\ UNCHANGED doc

\* a bare image node
ProcessImage ==
    /\ Running("node")
    /\ Top.node.k = "Image"
    /\ Top.parent # NoId
    /\ EmitImage(Top.parent, Top.path)
    /\ Return(<<>>)
    /\ UNCHANGED doc

\* a table recognised as a Notion columns layout: a simple_columns block,
\* then the column loop
ProcessColumnsTable ==
    /\ Running("node")
    /\ Top.node.k = "Table"
    /\ IsNotionColumns(Top.node.rows)
    /\ LET id == IdFor(Top.bid)
       IN  /\ Emit(<<Item(id, "simple_columns", Top.parent, Top.path, TRUE, 0)>>)
           /\ Return(<<ColumnsFrame(id, Top.path, Top.node.rows)>>)
    /\ nextId' = NextIdAfter(Top.bid)
    /\ UNCHANGED doc

\* the node reaches the generic path: none of the branches above applies
IsGeneric(t) ==
    LET n == t.node
    IN  /\ ~IsInline(n)
        /\ ~IsClosingTag(n)
        /\ n.k # "List"
        /\ ~(IsImageParagraph(n) /\ t.parent # NoId)
        /\ n.k # "Image"
        /\ ~(n.k = "Table" /\ IsNotionColumns(n.rows))

\* create_block, blocks.insert, ensure_children_map_entry, update_children_map
CreateBlock(runs) ==
    /\ Emit(<<Item(IdFor(Top.bid), BlockTypeOf(Top.node, Top.lt), Top.parent,
                   Top.path, TRUE, runs)>>)
    /\ nextId' = NextIdAfter(Top.bid)

\* Root, Paragraph, Heading: the children are walked under the new block
ProcessContainer ==
    /\ Running("node")
    /\ IsGeneric(Top)
    /\ Top.node.k \in {"Root", "Paragraph", "Heading"}
    /\ CreateBlock(0)
    /\ Return(<<ChildrenFrame(IdFor(Top.bid), Top.node.ch,
                              ChildPaths(Top.path, Top.node.ch), "none")>>)
    /\ UNCHANGED doc

\* fault: the rest of a quote or list item is walked before its head
\* paragraph
ProcessHeadSplitRestFirst ==
    /\ Running("node")
    /\ IsGeneric(Top)
    /\ Top.node.k \in {"Blockquote", "ListItem"}
    /\ CreateBlock(0)
    /\ LET id == IdFor(Top.bid)
           ch == Top.node.ch
           rest  == ChildrenFrame(id, Tail(ch),
                      [i \in 1..Len(ch) - 1 |-> Append(Top.path, i + 1)], Top.lt)
           first == ChildrenFrame(id, ch[1].ch,
                      ChildPaths(Append(Top.path, 1), ch[1].ch), "none")
       IN  Return(IF ch = <<>> THEN <<>>
                  ELSE IF ch[1].k = "Paragraph" THEN <<first, rest>>
                  ELSE <<rest>>)
    /\ UNCHANGED doc

\* Blockquote, ListItem: the inline children of a leading paragraph become
\* the block's own text, the remaining children (all but the first) are
\* walked under the block with the current list type
ProcessHeadSplit ==
    /\ Running("node")
    /\ IsGeneric(Top)
    /\ Top.node.k \in {"Blockquote", "ListItem"}
    /\ CreateBlock(0)
    /\ LET id == IdFor(Top.bid)
           ch == Top.node.ch
           rest  == ChildrenFrame(id, Tail(ch),
                      [i \in 1..Len(ch) - 1 |-> Append(Top.path, i + 1)], Top.lt)
           first == ChildrenFrame(id, ch[1].ch,
                      ChildPaths(Append(Top.path, 1), ch[1].ch), "none")
       IN  Return(IF ch = <<>> THEN <<>>
                  ELSE IF ch[1].k = "Paragraph" THEN <<rest, first>>
                  ELSE <<rest>>)
    /\ UNCHANGED doc

\* Code: the literal value as a single run
ProcessCode ==
    /\ Running("node")
    /\ IsGeneric(Top)
    /\ Top.node.k = "Code"
    /\ CreateBlock(1)
    /\ Return(<<>>)
    /\ UNCHANGED doc

\* a generic table: the rows are emitted by process_table_row
ProcessTable ==
    /\ Running("node")
    /\ IsGeneric(Top)
    /\ Top.node.k = "Table"
    /\ CreateBlock(0)
    /\ Return(<<RowsFrame(IdFor(Top.bid), Top.path, Top.node.rows)>>)
    /\ UNCHANGED doc

\* any other node: a block holding node.to_string() as a single run
ProcessOther ==
    /\ Running("node")
    /\ IsGeneric(Top)
    /\ Top.node.k \notin {"Root", "Paragraph", "Heading", "Blockquote",
                          "ListItem", "Code", "Table"}
    /\ CreateBlock(1)
    /\ Return(<<>>)
    /\ UNCHANGED doc

-----------------------------------------------------------------------------
(* process_mdast_node_children: one action per iteration of its loops      *)

Cur == Top.nodes[Top.idx]
CurPath == Top.paths[Top.idx]
LoopOpen == Top.idx <= Len(Top.nodes)

\* the running loop moves on to idx + 1, with the fields in upd changed,
\* and pushes the activations in calls, whose last element runs next
Step(upd, calls) ==
    Return(<<[upd EXCEPT !.idx = Top.idx + 1]>> \o calls)

\* while idx < children.len() ends
ChildrenDone ==
    /\ Running("children")
    /\ Top.mode = "scan"
    /\ ~LoopOpen
    /\ Return(<<>>)
    /\ UNCHANGED <<doc, blocks, childrenMap, textMap, nextId>>

\* a closing tag at sibling level is consumed
SkipClosingTag ==
    /\ Running("children")
    /\ Top.mode = "scan"
    /\ LoopOpen
    /\ IsClosingTag(Cur)
    /\ Step(Top, <<>>)
    /\ UNCHANGED <<doc, blocks, childrenMap, textMap, nextId>>

\* fault: the callout is listed under its parent but never inserted into
\* blocks
OpenCalloutNotInserted ==
    /\ Running("children")
    /\ Top.mode = "scan"
    /\ LoopOpen
    /\ IsHtml(Cur, "aside")
    /\ childrenMap' = [childrenMap EXCEPT ![Top.parent] = Append(@, nextId)]
    /\ nextId' = nextId + 1
    /\ Step([Top EXCEPT !.mode = "callout", !.target = nextId], <<>>)
    /\ UNCHANGED <<doc, blocks, textMap>>

\* parse_aside_html succeeds: a callout block under parent_id (blocks.insert
\* and update_children_map, without ensure_children_map_entry), its content
\* re-parsed into its delta by insert_markdown_as_inline_delta, then the
\* inner loop that walks the following siblings under the callout
OpenCallout ==
    /\ Running("children")
    /\ Top.mode = "scan"
    /\ LoopOpen
    /\ IsHtml(Cur, "aside")
    /\ Emit(<<Item(nextId, "callout", Top.parent, CurPath, FALSE,
                   MarkdownRuns(Cur.frag.content))>>)
    /\ nextId' = nextId + 1
    /\ Step([Top EXCEPT !.mode = "callout", !.target = nextId], <<>>)
    /\ UNCHANGED doc

\* fault: the toggle takes an id without generate_id advancing
OpenToggleSameId ==
    /\ Running("children")
    /\ Top.mode = "scan"
    /\ LoopOpen
    /\ IsHtml(Cur, "details")
    /\ LET frag   == Cur.frag
           parsed == DetailsParsed(frag)
           body   == IF parsed THEN frag.body ELSE <<>>
       IN  /\ Emit(<<Item(nextId, "toggle_list", Top.parent, CurPath, FALSE,
                          MarkdownRuns(parsed /\ frag.summary = "text"))>>)
           /\ Step([Top EXCEPT !.mode = "toggle", !.target = nextId,
                               !.summaryWritten = parsed],
                   IF body = <<>> THEN <<>>
                   ELSE <<ChildrenFrame(nextId, body,
                                        ChildPaths(CurPath, body), "none")>>)
    /\ nextId' = nextId
    /\ UNCHANGED doc

\* fault: the body of the <details> fragment is walked after the siblings
\* that follow it
OpenToggleBodyLast ==
    /\ Running("children")
    /\ Top.mode = "scan"
    /\ LoopOpen
    /\ IsHtml(Cur, "details")
    /\ LET frag   == Cur.frag
           parsed == DetailsParsed(frag)
           body   == IF parsed THEN frag.body ELSE <<>>
       IN  /\ Emit(<<Item(nextId, "toggle_list", Top.parent, CurPath, FALSE,
                          MarkdownRuns(parsed /\ frag.summary = "text"))>>)
           /\ Return((IF body = <<>> THEN <<>>
                      ELSE <<ChildrenFrame(nextId, body,
                                           ChildPaths(CurPath, body), "none")>>)
                     \o <<[Top EXCEPT !.idx = Top.idx + 1, !.mode = "toggle",
                                      !.target = nextId,
                                      !.summaryWritten = parsed]>>)
    /\ nextId' = nextId + 1
    /\ UNCHANGED doc

\* value.starts_with("<details>"): a toggle block (without ensure); when
\* parse_details_html finds a complete <summary>, the summary goes into the
\* toggle's delta and a non-empty body is re-parsed and walked under the
\* toggle before the inner loop over the following siblings
OpenToggle ==
    /\ Running("children")
    /\ Top.mode = "scan"
    /\ LoopOpen
    /\ IsHtml(Cur, "details")
    /\ LET frag   == Cur.frag
           parsed == DetailsParsed(frag)
           body   == IF parsed THEN frag.body ELSE <<>>
       IN  /\ Emit(<<Item(nextId, "toggle_list", Top.parent, CurPath, FALSE,
                          MarkdownRuns(parsed /\ frag.summary = "text"))>>)
           /\ Step([Top EXCEPT !.mode = "toggle", !.target = nextId,
                               !.summaryWritten = parsed],
                   IF body = <<>> THEN <<>>
                   ELSE <<ChildrenFrame(nextId, body,
                                        ChildPaths(CurPath, body), "none")>>)
    /\ nextId' = nextId + 1
    /\ UNCHANGED doc

\* any other sibling: process_mdast_node under parent_id
VisitChild ==
    /\ Running("children")
    /\ Top.mode = "scan"
    /\ LoopOpen
    /\ ~IsClosingTag(Cur)
    /\ ~IsHtml(Cur, "aside")
    /\ ~IsHtml(Cur, "details")
    /\ Step(Top, <<NodeFrame(Cur, CurPath, Top.parent, NoId, Top.lt)>>)
    /\ UNCHANGED <<doc, blocks, childrenMap, textMap, nextId>>

\* the inner loop of a callout or a toggle runs out of siblings
InnerLoopExhausted ==
    /\ Running("children")
    /\ Top.mode \in {"callout", "toggle"}
    /\ ~LoopOpen
    /\ Return(<<[Top EXCEPT !.mode = "scan"]>>)
    /\ UNCHANGED <<doc, blocks, childrenMap, textMap, nextId>>

\* </aside> ends the callout's inner loop, </details> the toggle's
CloseInnerLoop ==
    /\ Running("children")
    /\ LoopOpen
    /\ \/ Top.mode = "callout" /\ IsHtml(Cur, "/aside")
       \/ Top.mode = "toggle" /\ IsHtml(Cur, "/details")
    /\ Step([Top EXCEPT !.mode = "scan"], <<>>)
    /\ UNCHANGED <<doc, blocks, childrenMap, textMap, nextId>>

\* fault: a <summary> without its closing tag is skipped without idx += 1
ToggleSummaryNoAdvance ==
    /\ Running("children")
    /\ Top.mode = "toggle"
    /\ LoopOpen
    /\ ~Top.summaryWritten
    /\ IsHtml(Cur, "summary")
    /\ LET frag == Cur.frag
           body == IF frag.closed THEN frag.body ELSE <<>>
       IN  /\ AddRuns(Top.target,
                      MarkdownRuns(frag.closed /\ frag.summary = "text"))
           /\ IF frag.closed
                THEN Step([Top EXCEPT !.summaryWritten = TRUE],
                          IF body = <<>> THEN <<>>
                          ELSE <<ChildrenFrame(Top.target, body,
                                               ChildPaths(CurPath, body), "none")>>)
                ELSE UNCHANGED stack
    /\ UNCHANGED <<doc, blocks, childrenMap, nextId>>

\* the first <summary> sibling of a toggle whose opening fragment had none:
\* with a closing </summary> its text goes into the toggle's delta and the
\* rest after it is re-parsed and walked under the toggle; without one the
\* node is skipped
ToggleSummary ==
    /\ Running("children")
    /\ Top.mode = "toggle"
    /\ LoopOpen
    /\ ~Top.summaryWritten
    /\ IsHtml(Cur, "summary")
    /\ LET frag == Cur.frag
           body == IF frag.closed THEN frag.body ELSE <<>>
       IN  /\ AddRuns(Top.target,
                      MarkdownRuns(frag.closed /\ frag.summary = "text"))
           /\ Step([Top EXCEPT !.summaryWritten = frag.closed],
                   IF body = <<>> THEN <<>>
                   ELSE <<ChildrenFrame(Top.target, body,
                                        ChildPaths(CurPath, body), "none")>>)
    /\ UNCHANGED <<doc, blocks, childrenMap, nextId>>

\* any other sibling inside a callout or toggle: process_mdast_node under
\* the callout or toggle, keeping the loop's list type
InnerChild ==
    /\ Running("children")
    /\ LoopOpen
    /\ \/ Top.mode = "callout" /\ ~IsHtml(Cur, "/aside")
       \/ /\ Top.mode = "toggle"
          /\ ~IsHtml(Cur, "/details")
          /\ ~(~Top.summaryWritten /\ IsHtml(Cur, "summary"))
    /\ Step(Top, <<NodeFrame(Cur, CurPath, Top.target, NoId, Top.lt)>>)
    /\ UNCHANGED <<doc, blocks, childrenMap, textMap, nextId>>

-----------------------------------------------------------------------------
(* Tables                                                                  *)

\* fault: the cell's children are folded as inline text only, so an image
\* in a cell is not walked
\* create_simple_table_cell_block: row and col always, align only where
\* the table's alignment list has an entry for the column (alignments.get)
CellData(c, aligns) == {"row", "col"} \cup (IF c <= aligns THEN {"align"} ELSE {})

\* the cell block of column c, given how many alignments the table has
CellBlock(r, c, id, rowId, aligns) ==
    [Item(id, "simple_table_cell", rowId, <<r, c>>, TRUE, 0)
        EXCEPT !.data = CellData(c, aligns)]

CellItemsInlineOnly(cell, r, c, id, rowId, aligns) ==
    <<CellBlock(r, c, id, rowId, aligns),
      Item(id + 1, "paragraph", id, <<r, c>>, TRUE,
           IF cell = "text" THEN 1 ELSE 0)>>

\* the blocks one cell emits in process_table_row, from its first id on:
\* the simple_table_cell, its paragraph, and an image block under the
\* paragraph when the cell's content is an image
CellItems(cell, r, c, id, rowId, aligns) ==
    <<CellBlock(r, c, id, rowId, aligns),
      Item(id + 1, "paragraph", id, <<r, c>>, TRUE,
           IF cell = "text" THEN 1 ELSE 0)>>
    \o (IF cell = "image"
         THEN <<Item(id + 2, "image", id + 1, <<r, c, 1>>, TRUE, 0)>>
         ELSE <<>>)

\* process_table_row: a simple_table_row, and per cell a simple_table_cell
\* holding a paragraph (create_paragraph_block) into which the cell's
\* children are walked: its text goes into the paragraph's delta, an image
\* becomes an image block under the paragraph (process_image)
ProcessTableRow ==
    /\ Running("rows")
    /\ Top.idx <= Len(Top.rows)
    /\ LET r   == Top.idx
           row == Top.rows[r]
           rowId == nextId
           \* the ids the cells before c took
           first(c) == rowId + 1
                       + SumFunction([j \in 1..(c - 1) |->
                                        Len(CellItems(row[j], r, j, 0, rowId, 0))])
           rel(it) == [it EXCEPT !.origin = Top.path \o it.origin]
           items == <<Item(rowId, "simple_table_row", Top.id, <<r>>, TRUE, 0)>>
                    \o FlattenSeq([c \in 1..Len(row) |->
                                   CellItems(row[c], r, c, first(c), rowId,
                                             Len(Top.rows[1]))])
       IN  /\ Emit([i \in 1..Len(items) |-> rel(items[i])])
           /\ nextId' = nextId + Len(items)
    /\ Return(<<[Top EXCEPT !.idx = Top.idx + 1]>>)
    /\ UNCHANGED doc

\* the Notion columns rewrite, one column per step: a simple_column, and a
\* paragraph per non-empty cell of that column, row by row
ProcessColumn ==
    /\ Running("columns")
    /\ Top.idx <= Len(Top.rows[1])
    /\ LET c    == Top.idx
           body == Tail(Top.rows)
           filled == SelectSeq([r \in 1..Len(body) |-> r],
                               LAMBDA r : c <= Len(body[r]) /\ ~CellEmpty(body[r][c]))
           colId == nextId
           para(k) == Item(colId + k, "paragraph", colId,
                           Top.path \o <<c, filled[k]>>, TRUE, 1)
           items == <<Item(colId, "simple_column", Top.id,
                           Append(Top.path, c), TRUE, 0)>>
                    \o [k \in 1..Len(filled) |-> para(k)]
       IN  /\ Emit(items)
           /\ nextId' = nextId + 1 + Len(filled)
    /\ Return(<<[Top EXCEPT !.idx = Top.idx + 1]>>)
    /\ UNCHANGED doc

\* fault: the row loop runs one index past the last row before it ends
TableLoopDoneOffByOne ==
    /\ \/ Running("rows") /\ Top.idx > Len(Top.rows) + 1
       \/ Running("columns") /\ Top.idx > Len(Top.rows[1])
    /\ Return(<<>>)
    /\ UNCHANGED <<doc, blocks, childrenMap, textMap, nextId>>

\* the row loop or the column loop ends
TableLoopDone ==
    /\ \/ Running("rows") /\ Top.idx > Len(Top.rows)
       \/ Running("columns") /\ Top.idx > Len(Top.rows[1])
    /\ Return(<<>>)
    /\ UNCHANGED <<doc, blocks, childrenMap, textMap, nextId>>

-----------------------------------------------------------------------------
(* MDImporter::import                                                      *)

EmptyMap == [b \in {} |-> NoId]

\* a fresh DocumentData, and process_mdast_node(root, None, Some(page_id))
Init ==
    /\ doc \in Docs
    /\ blocks = EmptyMap
    /\ childrenMap = EmptyMap
    /\ textMap = EmptyMap
    /\ nextId = 1
    /\ stack = <<NodeFrame(doc, <<>>, NoId, PageId, "none")>>

Next ==
    \/ ProcessInline \/ SkipClosingHtml \/ ProcessList
    \/ FlattenImageParagraph \/ ProcessImage \/ ProcessColumnsTable
    \/ ProcessContainer \/ ProcessHeadSplit \/ ProcessCode
    \/ ProcessTable \/ ProcessOther
    \/ ChildrenDone \/ SkipClosingTag \/ OpenCallout \/ OpenToggle
    \/ VisitChild \/ InnerLoopExhausted \/ CloseInnerLoop
    \/ ToggleSummary \/ InnerChild
    \/ ProcessTableRow \/ ProcessColumn \/ TableLoopDone

Spec == Init /\ [][Next]_vars

\* import is one synchronous call: every enabled step of it is taken
FairSpec == Spec /\ WF_vars(Next)

-----------------------------------------------------------------------------
(* Properties                                                              *)

BlockTypes ==
    {"page", "paragraph", "heading", "quote", "code", "divider", "text",
     "simple_table", "simple_table_row", "simple_table_cell", "image",
     "simple_columns", "simple_column", "callout", "toggle_list",
     "bulleted_list", "numbered_list", "todo_list"}

\* the ids generate_id has handed out so far, and the page id
IssuedIds == {PageId} \cup 1..(nextId - 1)

\* Every block, children-map key and child is an id already issued, every
\* block has a known type and a parent that is an issued id or none, and
\* every text entry holds at least one run.
TypeOK ==
    /\ nextId \in Nat \ {0}
    /\ DOMAIN blocks \subseteq IssuedIds
    /\ \A b \in DOMAIN blocks :
          /\ blocks[b].ty \in BlockTypes
          /\ blocks[b].parent \in IssuedIds \cup {NoId}
          /\ blocks[b].origin \in Seq(Nat)
          /\ blocks[b].data \subseteq {"row", "col", "align"}
    /\ DOMAIN childrenMap \subseteq IssuedIds
    /\ \A p \in DOMAIN childrenMap : childrenMap[p] \in Seq(IssuedIds)
    /\ DOMAIN textMap \subseteq IssuedIds
    /\ \A b \in DOMAIN textMap : textMap[b] \in Nat \ {0}
    /\ \A i \in 1..Len(stack) :
          stack[i].f \in {"node", "children", "rows", "columns"}

\* the positions in children_map at which block b is listed
Listings(b) ==
    UNION {{<<p, i>> : i \in {j \in 1..Len(childrenMap[p]) :
                                  childrenMap[p][j] = b}} :
           p \in DOMAIN childrenMap}

\* The snapshot invariants of DocumentData, in every state of the walk
\* (update_children_map, ensure_children_map_entry and every Block { parent }
\* of md_importer.rs): the children map mentions only blocks that exist,
\* every block but the page is listed exactly once, under the id its parent
\* field names, the page has no parent, and text runs belong to blocks.
SnapshotConsistent ==
    /\ DOMAIN childrenMap \subseteq DOMAIN blocks
    /\ DOMAIN textMap \subseteq DOMAIN blocks
    /\ \A p \in DOMAIN childrenMap :
          \A i \in 1..Len(childrenMap[p]) : childrenMap[p][i] \in DOMAIN blocks
    /\ \A b \in DOMAIN blocks :
          IF b = PageId THEN blocks[b].parent = NoId /\ Listings(b) = {}
          ELSE /\ Cardinality(Listings(b)) = 1
               /\ \A l \in Listings(b) : l[1] = blocks[b].parent

\* document order of two mdast paths
RECURSIVE PathBefore(_, _)
PathBefore(a, b) ==
    IF b = <<>> THEN FALSE
    ELSE IF a = <<>> THEN TRUE
    ELSE IF Head(a) # Head(b) THEN Head(a) < Head(b)
    ELSE PathBefore(Tail(a), Tail(b))

\* Every children list of the snapshot is in reading order of the source:
\* the siblings walked by process_mdast_node_children, the head paragraph
\* and the rest of a quote or list item, the body re-parsed from a
\* <details>/<summary> fragment and the siblings walked after it, and the
\* cells of a columns layout column by column.
ReadingOrder ==
    \A p \in DOMAIN childrenMap :
        \A i \in 1..Len(childrenMap[p]) - 1 :
            PathBefore(blocks[childrenMap[p][i]].origin,
                       blocks[childrenMap[p][i + 1]].origin)

\* The snapshot as BlockTree sees it: a block's parent is its parent field,
\* its children its children_map entry, empty where it has none.
Tree == INSTANCE BlockTree
          WITH Root <- PageId, None <- NoId,
               parentOf <- [b \in DOMAIN blocks |-> blocks[b].parent],
               kids <- [b \in DOMAIN blocks |->
                          IF b \in DOMAIN childrenMap THEN childrenMap[b]
                                                      ELSE <<>>],
               runs <- textMap,
               open <- ~Done

\* The walk implements BlockTree: no step of process_mdast_node, of the
\* children loop, of the html rewriters or of the table rewrites changes a
\* block already emitted, reorders or drops a child already linked, links
\* a block twice or under a block that does not exist, or shrinks a delta;
\* and import returns: every loop of process_mdast_node_children, of the
\* callout and toggle rewriters and of the table rewrites ends.
ImplementsBlockTree == Tree!Spec

-----------------------------------------------------------------------------
(* What the specification promises of the returned snapshot                *)

\* the children of an mdast node as the walker numbers them; an html
\* fragment's children are the nodes its re-parsed part yields
Kids(n) ==
    CASE n.k = "Html"                      -> n.frag.body
      [] n.k \in {"Root", "Paragraph", "Heading", "Blockquote",
                  "ListItem", "List"}      -> n.ch
      [] OTHER                             -> <<>>

\* the paths of all nodes of the tree n at path
RECURSIVE PathsIn(_, _)
PathsIn(n, path) ==
    {path} \cup UNION {PathsIn(Kids(n)[i], Append(path, i)) : i \in 1..Len(Kids(n))}

RECURSIVE NodeAt(_, _)
NodeAt(n, path) ==
    IF path = <<>> THEN n ELSE NodeAt(Kids(n)[Head(path)], Tail(path))

DocNodes == {<<p, NodeAt(doc, p)>> : p \in PathsIn(doc, <<>>)}

\* On return of import every emitted block has a children_map entry,
\* possibly empty (spec section 3, DocumentData.meta.children_map).
EveryBlockHasChildrenEntry ==
    Done => DOMAIN blocks \subseteq DOMAIN childrenMap

\* An <aside>..</aside> or <details>..</details> fragment that is closed
\* within its own Html node consumes no sibling: its callout or toggle
\* holds only blocks re-parsed from inside the fragment (spec 4.7, the
\* rewriter consumes siblings up to the matching closing tag).
SelfClosedFragmentKeepsSiblings ==
    \A b \in DOMAIN blocks :
        LET n == NodeAt(doc, blocks[b].origin)
        IN  (/\ blocks[b].ty \in {"callout", "toggle_list"}
             /\ n.frag.closed
             /\ b \in DOMAIN childrenMap)
            => \A i \in 1..Len(childrenMap[b]) :
                  IsPrefix(blocks[b].origin, blocks[childrenMap[b][i]].origin)

\* On return, every <aside> Html node has become a callout block and every
\* <details> node a toggle block: the walker never sees an opening tag on
\* its own (spec 4.7).
HtmlOpenersRecognised ==
    Done =>
      \A pn \in DocNodes :
        LET ty == IF IsHtml(pn[2], "aside") THEN "callout" ELSE "toggle_list"
        IN  (IsHtml(pn[2], "aside") \/ IsHtml(pn[2], "details"))
            => \E b \in DOMAIN blocks : blocks[b].origin = pn[1]
                                        /\ blocks[b].ty = ty

\* the text runs a node contributes according to spec 4.1 and 4.2
RECURSIVE SpecRuns(_)
SpecRuns(n) ==
    LET kids == Kids(n)
        below == IF kids = <<>> THEN 0
                 ELSE SumFunction([i \in 1..Len(kids) |-> SpecRuns(kids[i])])
    IN  CASE n.k = "Text"  -> 1
          [] n.k = "Image" -> 0
          [] n.k = "Table" ->
               SumFunction([r \in 1..Len(n.rows) |->
                   Cardinality({c \in 1..Len(n.rows[r]) :
                                   ~CellEmpty(n.rows[r][c])})])
          [] n.k \in {"Code", "ThematicBreak"} -> 1
          [] n.k = "Html" /\ n.frag.tag \in {"/aside", "/details"} -> 0
          [] n.k = "Html" /\ n.frag.tag = "aside" ->
               IF n.frag.content THEN 1 ELSE 0
          [] n.k = "Html" /\ n.frag.tag \in {"details", "summary"} ->
               (IF n.frag.summary = "text" THEN 1 ELSE 0) + below
          [] n.k = "Html" -> 1
          [] OTHER -> below

\* On return, no text of the source is lost: the runs in text_map are as
\* many as the text-bearing nodes of the input (spec 4.1: reading order is
\* preserved, 4.8: every heading, code block, .. becomes a block).
TextConserved ==
    Done => SumFunction(textMap) = SpecRuns(doc)

\* spec 4.5: the conditions under which a table is a Notion columns layout
SpecColumns(rows) ==
    LET cc == Len(rows[1])
        body == Tail(rows)
        filled == {<<r, c>> \in (1..Len(body)) \X (1..cc) :
                      c <= Len(body[r]) /\ ~CellEmpty(body[r][c])}
    IN  /\ cc >= 2
        /\ \A c \in 1..cc : CellEmpty(rows[1][c])
        /\ body # <<>>
        /\ \A r \in 1..Len(body) : Len(body[r]) = cc
        /\ \/ filled = {} /\ cc >= 6
           \/ filled # {} /\ cc <= 5 /\ Len(body) <= 3

\* On return, a table became a simple_columns block exactly when it meets
\* the Notion columns conditions of spec 4.5.
ColumnsLayoutAsSpecified ==
    Done =>
      \A pn \in DocNodes :
        pn[2].k = "Table" =>
          ((\E b \in DOMAIN blocks : blocks[b].origin = pn[1]
                                     /\ blocks[b].ty = "simple_columns")
           <=> SpecColumns(pn[2].rows))

\* the images of the tree n: Image nodes, image cells of tables, and the
\* images of the markdown re-parsed from html fragments
RECURSIVE SpecImages(_)
SpecImages(n) ==
    CASE n.k = "Image" -> 1
      [] n.k = "Table" ->
           SumFunction([r \in 1..Len(n.rows) |->
               Cardinality({c \in 1..Len(n.rows[r]) : n.rows[r][c] = "image"})])
      [] OTHER ->
           IF Kids(n) = <<>> THEN 0
           ELSE SumFunction([i \in 1..Len(Kids(n)) |-> SpecImages(Kids(n)[i])])

\* On return, every image of the source is an image block, and no image
\* is emitted twice: image promotion (process_image) for bare images,
\* images as the only child of a paragraph, images next to text, images
\* in the head paragraph of a quote or list item and images in table cells
\* (spec 4.4).
ImagesConserved ==
    Done =>
      Cardinality({b \in DOMAIN blocks : blocks[b].ty = "image"}) = SpecImages(doc)

=============================================================================
