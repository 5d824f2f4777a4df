---------------------------- MODULE NotionZipScan ----------------------------
(***************************************************************************)
(* The scans of collab-importer/examples/verify_notion_zip.rs over the     *)
(* view tree a Notion import returns: print_tree (an indented listing cut  *)
(* at a depth), collect_duplicate_ids (every 32-hex notion_id, lowercased, *)
(* with the slash-joined name paths of the pages carrying it, then the ids *)
(* with more than one path) and collect_sibling_name_collisions (sibling   *)
(* pages whose names agree after trim and lowercase).                      *)
(*                                                                         *)
(* main runs the three scans one after another; each is a recursive walk   *)
(* over the tree and is modelled with an explicit stack of loop frames,    *)
(* one frame per activation, one page per step.  Strings are TLA+ strings: *)
(* paths are built with the code's format!("{}/{}"), while trim, ASCII     *)
(* lowercase and the 32-hex test are given as constants over the finite    *)
(* sets of names and ids of a model.  Unzipping, the import itself and the *)
(* printing of the summary are I/O and not modelled.                       *)
(***************************************************************************)
EXTENDS Naturals, Sequences, SequencesExt, FiniteSets

CONSTANTS
    Views,      \* the view trees NotionImporter::import may return
    Hex32,      \* the ids is_32hex accepts
    Lower,      \* id -> id.to_ascii_lowercase()
    Norm        \* name -> normalize_name(name): trim, then ASCII lowercase

\* the max_depth main passes to print_tree
MaxDepth == 6

VARIABLES
    views,      \* imported.views(): a sequence of pages [name, id, dir, ch]
    phase,      \* which of main's scans is running
    frames,     \* the activations of the running recursive scan
    printed,    \* the lines print_tree has printed
    idMap,      \* collect_duplicate_ids' map: lowercased id -> paths
    dups,       \* id_dups: the ids of idMap with more than one path
    collisions  \* the reports of collect_sibling_name_collisions

vars == <<views, phase, frames, printed, idMap, dups, collisions>>

-----------------------------------------------------------------------------
(* Helpers of the example                                                  *)

\* is_32hex
Is32Hex(id) == id \in Hex32

\* the id a listing shows: notion_id if it is 32-hex, nothing otherwise
ShownId(id) == IF Is32Hex(id) THEN id ELSE ""

\* if path.is_empty() { name } else { format!("{}/{}", path, name) }
JoinPath(path, name) == IF path = "" THEN name ELSE path \o "/" \o name

\* one activation of a scan over the sibling slice `pages`
Frame(pages, path, indent) ==
    [pages |-> pages, path |-> path, indent |-> indent, idx |-> 1,
     bucketed |-> FALSE]

Top == frames[Len(frames)]

\* the page the running loop is at
CurPage == Top.pages[Top.idx]

-----------------------------------------------------------------------------
(* print_tree(imported.views(), 0, 6)                                      *)

\* fault: the listing shows a non-hex notion_id too
PrintPageAnyId ==
    /\ phase = "print"
    /\ frames # <<>>
    /\ Top.indent \div 2 < MaxDepth
    /\ Top.idx <= Len(Top.pages)
    /\ printed' = Append(printed,
                    [indent |-> Top.indent, name |-> CurPage.name,
                     dir |-> CurPage.dir, id |-> CurPage.id])
    /\ frames' = Append([frames EXCEPT ![Len(frames)].idx = @ + 1],
                        Frame(CurPage.ch, "", Top.indent + 2))
    /\ UNCHANGED <<views, phase, idMap, dups, collisions>>

\* one page: its line, then print_tree of its children two columns deeper
PrintPage ==
    /\ phase = "print"
    /\ frames # <<>>
    /\ Top.indent \div 2 < MaxDepth
    /\ Top.idx <= Len(Top.pages)
    /\ printed' = Append(printed,
                    [indent |-> Top.indent, name |-> CurPage.name,
                     dir |-> CurPage.dir, id |-> ShownId(CurPage.id)])
    /\ frames' = Append([frames EXCEPT ![Len(frames)].idx = @ + 1],
                        Frame(CurPage.ch, "", Top.indent + 2))
    /\ UNCHANGED <<views, phase, idMap, dups, collisions>>

\* print_tree returns: at the depth cut-off (indent / 2 >= max_depth) or
\* when its loop is over
PrintReturn ==
    /\ phase = "print"
    /\ frames # <<>>
    /\ Top.indent \div 2 >= MaxDepth \/ Top.idx > Len(Top.pages)
    /\ frames' = Front(frames)
    /\ UNCHANGED <<views, phase, printed, idMap, dups, collisions>>

\* print_tree is done; collect_duplicate_ids(imported.views(), "", ..)
StartDupScan ==
    /\ phase = "print"
    /\ frames = <<>>
    /\ phase' = "dups"
    /\ frames' = <<Frame(views, "", 0)>>
    /\ UNCHANGED <<views, printed, idMap, dups, collisions>>

-----------------------------------------------------------------------------
(* collect_duplicate_ids and the filter of main                            *)

\* fault: the id is used as the key without to_ascii_lowercase
DupKeyRaw(id) == id

\* the key collect_duplicate_ids files an id under
DupKey(id) == Lower[id]

\* one page: a 32-hex notion_id gets the page's path appended under its
\* lowercased form, then the walk descends with the page's path
DupVisit ==
    /\ phase = "dups"
    /\ frames # <<>>
    /\ Top.idx <= Len(Top.pages)
    /\ LET next == JoinPath(Top.path, CurPage.name)
           id   == CurPage.id
           key  == DupKey(id)
       IN  /\ idMap' = IF Is32Hex(id)
                       THEN [k \in DOMAIN idMap \cup {key} |->
                               (IF k \in DOMAIN idMap THEN idMap[k] ELSE <<>>)
                               \o (IF k = key THEN <<next>> ELSE <<>>)]
                       ELSE idMap
           /\ frames' = Append([frames EXCEPT ![Len(frames)].idx = @ + 1],
                               Frame(CurPage.ch, next, 0))
    /\ UNCHANGED <<views, phase, printed, dups, collisions>>

\* a collect_duplicate_ids activation, or the recursion of the sibling scan,
\* returns when its loop is over
ScanReturn ==
    /\ phase \in {"dups", "collisions"}
    /\ frames # <<>>
    /\ Top.idx > Len(Top.pages)
    /\ Top.bucketed \/ phase = "dups"
    /\ frames' = Front(frames)
    /\ UNCHANGED <<views, phase, printed, idMap, dups, collisions>>

\* id_dups: the entries with more than one path (sorted by id for printing;
\* the order of a printed listing is not modelled), then
\* collect_sibling_name_collisions(imported.views(), "", ..)
FilterDups ==
    /\ phase = "dups"
    /\ frames = <<>>
    /\ dups' = [k \in {j \in DOMAIN idMap : Len(idMap[j]) > 1} |-> idMap[k]]
    /\ phase' = "collisions"
    /\ frames' = <<Frame(views, "", 0)>>
    /\ UNCHANGED <<views, printed, idMap, collisions>>

-----------------------------------------------------------------------------
(* collect_sibling_name_collisions                                         *)

\* the variant one page of a colliding group shows: dir or page, and its
\* notion_id when it is 32-hex (kinds are sorted and deduplicated, so a
\* group's variants are a set)
Variant(p) == [dir |-> p.dir, id |-> ShownId(p.id)]

\* fault: a bucket is reported as soon as it holds one page
SiblingReportsSingle(pages, path) ==
    {[path |-> path, name |-> n,
      variants |-> {Variant(pages[i]) : i \in {j \in 1..Len(pages) :
                                                 Norm[pages[j].name] = n}}] :
     n \in {Norm[pages[j].name] : j \in 1..Len(pages)}}

\* the reports for one sibling slice: the pages bucketed by normalized
\* name, one report per bucket of more than one page
SiblingReports(pages, path) ==
    LET bucket(n) == {j \in 1..Len(pages) : Norm[pages[j].name] = n}
    IN  {[path |-> path, name |-> n,
          variants |-> {Variant(pages[i]) : i \in bucket(n)}] :
         n \in {m \in {Norm[pages[j].name] : j \in 1..Len(pages)} :
                  Cardinality(bucket(m)) > 1}}

\* the first loop of an activation: bucket the siblings and report; the
\* HashMap's iteration order is unspecified, so the reports are a set
BucketSiblings ==
    /\ phase = "collisions"
    /\ frames # <<>>
    /\ ~Top.bucketed
    /\ collisions' = collisions \cup SiblingReports(Top.pages, Top.path)
    /\ frames' = [frames EXCEPT ![Len(frames)].bucketed = TRUE]
    /\ UNCHANGED <<views, phase, printed, idMap, dups>>

\* the second loop: recurse into each page's children with its path
CollisionVisit ==
    /\ phase = "collisions"
    /\ frames # <<>>
    /\ Top.bucketed
    /\ Top.idx <= Len(Top.pages)
    /\ frames' = Append([frames EXCEPT ![Len(frames)].idx = @ + 1],
                        Frame(CurPage.ch, JoinPath(Top.path, CurPage.name), 0))
    /\ UNCHANGED <<views, phase, printed, idMap, dups, collisions>>

\* main returns Ok(())
Finish ==
    /\ phase = "collisions"
    /\ frames = <<>>
    /\ phase' = "done"
    /\ UNCHANGED <<views, frames, printed, idMap, dups, collisions>>

-----------------------------------------------------------------------------

Init ==
    /\ views \in Views
    /\ phase = "print"
    /\ frames = <<Frame(views, "", 0)>>
    /\ printed = <<>>
    /\ idMap = [k \in {} |-> <<>>]
    /\ dups = [k \in {} |-> <<>>]
    /\ collisions = {}

Next ==
    \/ PrintPage \/ PrintReturn \/ StartDupScan
    \/ DupVisit \/ ScanReturn \/ FilterDups
    \/ BucketSiblings \/ CollisionVisit \/ Finish

Spec == Init /\ [][Next]_vars

-----------------------------------------------------------------------------
(* Reference definitions: the tree as a set of positions                   *)

\* the positions (index paths) of the pages of a sibling slice
RECURSIVE Positions(_)
Positions(pages) ==
    UNION {{<<i>>} \cup {<<i>> \o q : q \in Positions(pages[i].ch)} :
           i \in 1..Len(pages)}

RECURSIVE PageAt(_, _)
PageAt(pages, pos) ==
    IF Len(pos) = 1 THEN pages[pos[1]]
    ELSE PageAt(pages[pos[1]].ch, Tail(pos))

\* the name path of a position, joined as the scans join it
PathOf(pos) ==
    FoldLeft(LAMBDA path, i : JoinPath(path, PageAt(views, SubSeq(pos, 1, i)).name),
             "", [i \in 1..Len(pos) |-> i])

\* pre-order: a page before its children, siblings in slice order
RECURSIVE PreBefore(_, _)
PreBefore(a, b) ==
    IF a = <<>> THEN b # <<>>
    ELSE IF b = <<>> THEN FALSE
    ELSE IF Head(a) # Head(b) THEN Head(a) < Head(b)
    ELSE PreBefore(Tail(a), Tail(b))

AllPositions == Positions(views)

-----------------------------------------------------------------------------
(* Properties                                                              *)

\* When print_tree is done it has printed, in pre-order, one line per page
\* of depth at most max_depth levels, indented two columns per level, with
\* the id only if it is 32-hex (print_tree's cut-off indent / 2 >=
\* max_depth and the recursion with indent + 2).
PrintedAsTree ==
    phase # "print" =>
      LET shown == SetToSortSeq({p \in AllPositions : Len(p) <= MaxDepth},
                                PreBefore)
          Line(p) == [indent |-> 2 * (Len(p) - 1), name |-> PageAt(views, p).name,
                      dir |-> PageAt(views, p).dir,
                      id |-> ShownId(PageAt(views, p).id)]
      IN  printed = [i \in 1..Len(shown) |-> Line(shown[i])]

\* Once collect_duplicate_ids and the filter are done, the reported ids are
\* exactly the lowercased 32-hex ids that two or more pages carry, each with
\* the paths of all those pages in pre-order (the map is keyed by the
\* lowercased id; paths grow with the recursion).
DupScanCorrect ==
    phase \in {"collisions", "done"} =>
      LET carriers(k) == {p \in AllPositions :
                            Is32Hex(PageAt(views, p).id)
                            /\ Lower[PageAt(views, p).id] = k}
          keys == {Lower[PageAt(views, p).id] :
                     p \in {q \in AllPositions : Is32Hex(PageAt(views, q).id)}}
      IN  /\ DOMAIN dups = {k \in keys : Cardinality(carriers(k)) > 1}
          /\ \A k \in DOMAIN dups :
               LET s == SetToSortSeq(carriers(k), PreBefore)
               IN  dups[k] = [i \in 1..Len(s) |-> PathOf(s[i])]

\* When main returns, a collision is reported exactly for each group of two
\* or more siblings (top-level views included) whose names agree after trim
\* and lowercase, at the path of their parent, with the variants of the
\* group (the bucketing of collect_sibling_name_collisions and its
\* recursion with next_path).
CollisionsCorrect ==
    phase = "done" =>
      LET parents == {<<>>} \cup AllPositions
          kidsOf(p) == IF p = <<>> THEN views ELSE PageAt(views, p).ch
          group(p, n) == {i \in 1..Len(kidsOf(p)) : Norm[kidsOf(p)[i].name] = n}
      IN  collisions =
            {[path |-> PathOf(p), name |-> n,
              variants |-> {Variant(kidsOf(p)[i]) : i \in group(p, n)}] :
               <<p, n>> \in {<<p, n>> \in parents \X Range(Norm) :
                               Cardinality(group(p, n)) > 1}}

=============================================================================
