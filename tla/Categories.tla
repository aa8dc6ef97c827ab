----------------------------- MODULE Categories -----------------------------
(***************************************************************************)
(* The tree of categories of the catalog (src/modules/catalog).  A change  *)
(* reads its category without a lock, decides, and saves the whole of it,  *)
(* without a version: what another change saved in between is written      *)
(* back.  Only a move takes the lock of the tree, and only after it read   *)
(* its category.                                                           *)
(***************************************************************************)
EXTENDS Naturals, FiniteSets

CONSTANTS
  CategoryIds,
  NoCategory,       \* the parent of a root
  CategoryEditors   \* changes at the same time

ASSUME CategoriesAssumption == NoCategory \notin CategoryIds /\ IsFiniteSet(CategoryIds)

VARIABLES
  categories,
  categoryEdits,
  treeLock,       \* lockTree: the edits that hold it
  writtenBack     \* categories whose parent was last written by a change that did not move them

categoriesVars == <<categories, categoryEdits, treeLock, writtenBack>>

Parents == CategoryIds \cup {NoCategory}
NotThere == [status |-> "NONE", parent |-> NoCategory]
Deleted == [NotThere EXCEPT !.status = "DELETED"]   \* an id is never given again
NoEdit == [step |-> "none", id |-> NoCategory, row |-> NotThere, moves |-> FALSE]

CategoriesInit ==
  /\ categories = [c \in CategoryIds |-> NotThere]
  /\ categoryEdits = [e \in CategoryEditors |-> NoEdit]
  /\ treeLock = {} /\ writtenBack = {}

-----------------------------------------------------------------------------
(* The tree. *)

Exists(c) == categories[c].status \in {"ACTIVE", "INACTIVE"}
childrenOf(p) == {c \in CategoryIds : Exists(c) /\ categories[c].parent = p}

\* The ancestors within n steps, and itself.
reach[n \in Nat] ==
  [c \in CategoryIds |->
     IF n = 0 \/ categories[c].parent = NoCategory THEN {c} ELSE {c} \cup reach[n - 1][categories[c].parent]]
\* lineage: the category and every ancestor; UNION ends on a cycle too.
lineage(c) == reach[Cardinality(CategoryIds)][c]
InCycle(c) == Exists(c) /\ categories[c].parent # NoCategory /\ c \in lineage(categories[c].parent)

\* isVisible, with the path that led to the category (what it remembers between calls changes no answer).
isVisible[x \in CategoryIds \X SUBSET CategoryIds] ==
  LET row == categories[x[1]] IN
  IF x[1] \in x[2] THEN FALSE
  ELSE row.status = "ACTIVE" /\ (row.parent = NoCategory \/ isVisible[<<row.parent, x[2] \cup {x[1]}>>])

\* The tree of the site.
visibleCategoryIds == {c \in CategoryIds : isVisible[<<c, {}>>]}

\* VISIBLE_CATEGORIES: what the queries of products and of the search see, from the roots down.
down[n \in Nat] ==
  IF n = 0 THEN {c \in childrenOf(NoCategory) : categories[c].status = "ACTIVE"}
  ELSE down[n - 1] \cup {c \in CategoryIds : categories[c].status = "ACTIVE" /\ categories[c].parent \in down[n - 1]}
visibleCategories == down[Cardinality(CategoryIds)]

-----------------------------------------------------------------------------
(* Changes. *)

begin(e, c, row, moves) ==
  /\ categoryEdits[e] = NoEdit
  /\ categoryEdits' = [categoryEdits EXCEPT ![e] = [step |-> IF moves THEN "move" ELSE "save", id |-> c, row |-> row, moves |-> moves]]
  /\ UNCHANGED <<categories, treeLock, writtenBack>>

\* assertUsableParent.
usableParent(p) == p # NoCategory => categories[p].status = "ACTIVE"
NewId(c) == categories[c] = NotThere /\ \A e \in CategoryEditors : categoryEdits[e].id # c

startCreate(e, c, p) == NewId(c) /\ usableParent(p) /\ begin(e, c, [status |-> "ACTIVE", parent |-> p], FALSE)
\* A new name, slug or position.
startRename(e, c) == Exists(c) /\ begin(e, c, categories[c], FALSE)
startDeactivate(e, c) == categories[c].status = "ACTIVE" /\ begin(e, c, [categories[c] EXCEPT !.status = "INACTIVE"], FALSE)
startReactivate(e, c) ==
  /\ categories[c].status = "INACTIVE" /\ usableParent(categories[c].parent)
  /\ begin(e, c, [categories[c] EXCEPT !.status = "ACTIVE"], FALSE)
startMoveCategory(e, c, p) == Exists(c) /\ p # categories[c].parent /\ begin(e, c, [categories[c] EXCEPT !.parent = p], TRUE)

lockTree == treeLock = {}

\* moveUnder, with the tree locked until the end.
checkMove(e) ==
  LET edit == categoryEdits[e]  p == edit.row.parent IN
  /\ edit.step = "move" /\ lockTree
  /\ IF p # NoCategory => (categories[p].status = "ACTIVE" /\ p # edit.id /\ edit.id \notin lineage(p))
     THEN categoryEdits' = [categoryEdits EXCEPT ![e].step = "save"] /\ treeLock' = treeLock \cup {e}
     ELSE categoryEdits' = [categoryEdits EXCEPT ![e] = NoEdit] /\ UNCHANGED treeLock
  /\ UNCHANGED <<categories, writtenBack>>

\* save is an upsert of every column: it also brings back a category deleted meanwhile, unless its parent is gone.
finishEdit(e) ==
  LET edit == categoryEdits[e]  was == categories[edit.id] IN
  /\ edit.step = "save"
  /\ categoryEdits' = [categoryEdits EXCEPT ![e] = NoEdit] /\ treeLock' = treeLock \ {e}
  /\ IF edit.row.parent # NoCategory => Exists(edit.row.parent)
     THEN /\ categories' = [categories EXCEPT ![edit.id] = edit.row]
          /\ writtenBack' = IF edit.moves THEN writtenBack \ {edit.id}
                            ELSE IF was # NotThere /\ was.parent # edit.row.parent THEN writtenBack \cup {edit.id}
                            ELSE writtenBack
     ELSE UNCHANGED <<categories, writtenBack>>

deleteCategory(c) ==
  /\ Exists(c) /\ childrenOf(c) = {}
  /\ categories' = [categories EXCEPT ![c] = Deleted] /\ writtenBack' = writtenBack \ {c}
  /\ UNCHANGED <<categoryEdits, treeLock>>

CategoriesNext ==
  \/ \E e \in CategoryEditors, c \in CategoryIds :
       \/ \E p \in Parents : startCreate(e, c, p) \/ startMoveCategory(e, c, p)
       \/ startRename(e, c) \/ startDeactivate(e, c) \/ startReactivate(e, c)
  \/ \E e \in CategoryEditors : checkMove(e) \/ finishEdit(e)
  \/ \E c \in CategoryIds : deleteCategory(c)

CategoriesSpec == CategoriesInit /\ [][CategoriesNext]_categoriesVars

-----------------------------------------------------------------------------
(* Properties. *)

\* The moves on their own never make a cycle, however many run at once: there is one only where a change that moves
\* nothing wrote an old parent back.
CyclesAreWrittenBack == \A c \in CategoryIds : InCycle(c) => lineage(c) \cap writtenBack # {}

\* The tree of the site and the queries of products, written twice, agree on what is visible, even on a cycle.
VisibilityAgrees == visibleCategoryIds = visibleCategories

\* The tree has no cycle but the ones a stale save writes, and both readings of it agree even then.
TreeReadsAlike == CyclesAreWrittenBack /\ VisibilityAgrees
=============================================================================
