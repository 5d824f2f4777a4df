------------------------------ MODULE BlockTree ------------------------------
(***************************************************************************)
(* What an import promises of the DocumentData it fills, abstracted from   *)
(* how the walk is organised: the snapshot is a tree rooted at the page    *)
(* that only grows.  A step may add any number of blocks at once, each     *)
(* under a block that exists or is added in the same step, and each       *)
(* appended to the end of its parent's children exactly once; a block      *)
(* already present keeps its parent and the children it already has, in   *)
(* the same order, and text is only ever appended.  Once the import has    *)
(* returned nothing changes, and the import does return.                   *)
(***************************************************************************)
EXTENDS Naturals, Sequences, SequencesExt, FiniteSets

CONSTANTS
    Root,       \* the page id
    None        \* the parent of the page

VARIABLES
    parentOf,   \* block id -> the id of its parent block, None for Root
    kids,       \* block id -> its children, in order
    runs,       \* block id -> the number of text runs in its delta
    open        \* TRUE while import is running

vars == <<parentOf, kids, runs, open>>

EmptyFn == [b \in {} |-> None]

Init ==
    /\ parentOf = EmptyFn
    /\ kids = EmptyFn
    /\ runs = EmptyFn
    /\ open = TRUE

\* the children p had before the step
OldKids(p) == IF p \in DOMAIN kids THEN kids[p] ELSE <<>>

\* blocks are added, each under one block present after the step, and
\* appended behind its parent's existing children exactly once; existing
\* blocks keep their parent and their children's prefix; the delta of a
\* present block only grows
Grow ==
    LET new == DOMAIN parentOf' \ DOMAIN parentOf
        added(p) == SubSeq(kids'[p], Len(OldKids(p)) + 1, Len(kids'[p]))
    IN  /\ open
        /\ DOMAIN parentOf \subseteq DOMAIN parentOf'
        /\ DOMAIN kids' = DOMAIN parentOf'
        /\ \A b \in DOMAIN parentOf : parentOf'[b] = parentOf[b]
        /\ \A b \in new : IF b = Root THEN parentOf'[b] = None
                          ELSE parentOf'[b] \in DOMAIN parentOf'
        /\ \A p \in DOMAIN kids' :
              /\ IsPrefix(OldKids(p), kids'[p])
              /\ Len(added(p)) = Cardinality(ToSet(added(p)))
              /\ ToSet(added(p)) = {b \in new : parentOf'[b] = p}
        /\ DOMAIN runs \subseteq DOMAIN runs'
        /\ DOMAIN runs' \subseteq DOMAIN parentOf'
        /\ \A b \in DOMAIN runs : runs[b] <= runs'[b]
        /\ UNCHANGED open

\* import returns
Finish ==
    /\ open
    /\ open' = FALSE
    /\ UNCHANGED <<parentOf, kids, runs>>

Next == Grow \/ Finish

\* import is one synchronous call that returns
Spec == Init /\ [][Next]_vars /\ WF_vars(Finish)

=============================================================================
