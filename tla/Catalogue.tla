------------------------------ MODULE Catalogue ------------------------------
(***************************************************************************)
(* The category tree: administrators add, edit, move and remove            *)
(* categories and change their covers; an uploaded track gives its         *)
(* category a cover when it has none.                                      *)
(*                                                                         *)
(* An action is one SQL statement or file operation with the code up to    *)
(* the next await.  POST, PUT and DELETE are statements of their own;      *)
(* PATCH /:id/move is one transaction that takes row locks and whose       *)
(* writes show at its COMMIT.  Abstractions: names and descriptions (a     *)
(* tie of two sort orders is broken by id), media, temporary files; a      *)
(* request on a category that is not there ends without a trace.           *)
(***************************************************************************)
EXTENDS Integers, FiniteSets

CONSTANTS
    Category,    \* ids, 1..n: as many as are ever made (a bound)
    Tier,        \* access tiers
    Admin,       \* requests of administrators in flight (a bound)
    TreeAdmin,   \* those of them that may change the tree (a bound)
    CoverAdmin,  \* those of them that may change covers (a bound)
    MaxOrder,    \* largest sort order (a bound)
    MaxCover,    \* covers ever drawn (a bound)
    NoCategory

ASSUME CategoryAssumption ==
    /\ IsFiniteSet(Category) /\ Category # {} /\ Category = 1..Cardinality(Category)
    /\ NoCategory \notin Category
ASSUME TierAssumption == Tier \subseteq Nat /\ Tier # {}
ASSUME AdminAssumption == TreeAdmin \subseteq Admin /\ CoverAdmin \subseteq Admin
ASSUME CatalogueBounds == MaxOrder \in Nat /\ MaxCover \in Nat /\ Cardinality(Category) <= MaxOrder + 1

VARIABLES
    category,  \* the table, by id
    made,      \* ids given
    covers,    \* the cover files <<id, version>> that exist
    drawn,     \* versions given
    op,        \* what each request does
    locked,    \* the rows that each transaction has locked
    untold     \* history: those whose new tier those below have not been given

catalogueVars == <<category, made, covers, drawn, op, locked, untold>>

-----------------------------------------------------------------------------
Parent == Category \union {NoCategory}

CategoryRow == [parent : Parent, tier : Tier, order : 0..MaxOrder, cover : 0..MaxCover]

ASSUME NoCategoryAssumption == NoCategory \notin CategoryRow

OpStep == {"idle", "insert", "descend", "tier", "order", "update", "propagate",
           "moveParent", "moveDescend", "moveSiblings", "moveCommit",
           "children", "cover", "delete", "files",
           "draw", "adopt", "setCover", "setNull", "unlink"}

TreeOp == [at : OpStep, cat : Category, parent : Parent, from : Parent, tier : Tier,
       order : 0..MaxOrder, old : 0..MaxCover, new : 0..MaxCover, moved : BOOLEAN]

Idle == [at |-> "idle", cat |-> 1, parent |-> NoCategory, from |-> NoCategory,
         tier |-> CHOOSE t \in Tier : TRUE, order |-> 0, old |-> 0, new |-> 0, moved |-> FALSE]

CatalogueTypeOK ==
    /\ category \in [Category -> CategoryRow \union {NoCategory}]
    /\ made \in 0..Cardinality(Category) /\ drawn \in 0..MaxCover
    /\ \A c \in Category : category[c] # NoCategory => c <= made
    /\ covers \subseteq Category \X (1..drawn)
    /\ op \in [Admin -> TreeOp]
    /\ locked \in [Admin -> SUBSET Category]
    /\ untold \subseteq Category
    /\ \A a, b \in Admin : a # b => locked[a] \intersect locked[b] = {}

CatalogueInit ==
    /\ category = [c \in Category |-> NoCategory]
    /\ made = 0 /\ covers = {} /\ drawn = 0
    /\ op = [a \in Admin |-> Idle]
    /\ locked = [a \in Admin |-> {}]
    /\ untold = {}

Stands(c) == c # NoCategory /\ category[c] # NoCategory
Children(p) == {c \in Category : Stands(c) /\ category[c].parent = p}

\* The recursive query `descendants`: the least set with c's children and the
\* children of its members.  On a cycle the query would not end.
Holds(S, c) == Children(c) \subseteq S /\ \A d \in S : Children(d) \subseteq S
Below(c) == {d \in Category : \A S \in SUBSET Category : Holds(S, c) => d \in S}

\* COALESCE(MAX(sort_order) + 1, 0)
NextOrder(siblings, next) ==
    IF siblings = {} THEN next = 0
    ELSE /\ \E s \in siblings : next = category[s].order + 1
         /\ \A s \in siblings : category[s].order < next

Unlocked(a, rows) == \A b \in Admin \ {a} : locked[b] \intersect rows = {}
Does(a, step) == op[a].at = step
Then(a, step) == op' = [op EXCEPT ![a].at = step]
EndsOp(a) == op' = [op EXCEPT ![a] = Idle]
Starts(a, step, c) == Does(a, "idle") /\ op' = [op EXCEPT ![a] = [Idle EXCEPT !.at = step, !.cat = c]]
OnlyOp == UNCHANGED <<category, made, covers, drawn, locked, untold>>
OnlyTree == UNCHANGED <<made, covers, drawn>>

Told(c) == untold' = untold \ ({c} \union Below(c))
WithTier(rows, cs, tier) == [c \in Category |-> IF c \in cs THEN [rows[c] EXCEPT !.tier = tier] ELSE rows[c]]

-----------------------------------------------------------------------------
(* POST /: the parent's tier is read, then the row inserted. *)

AddBegin(a, p, t) ==
    /\ Does(a, "idle") /\ (p = NoCategory \/ Stands(p))
    /\ op' = [op EXCEPT ![a] = [Idle EXCEPT !.at = "insert", !.parent = p,
                                            !.tier = IF p = NoCategory THEN t ELSE category[p].tier]]
    /\ OnlyOp

\* The foreign key refuses a parent that has gone.
AddInsert(a) ==
    LET p == op[a].parent
        id == made + 1
    IN /\ Does(a, "insert") /\ Unlocked(a, {p}) /\ EndsOp(a)
       /\ IF p = NoCategory \/ Stands(p)
            THEN /\ id \in Category /\ made' = id
                 /\ \E next \in 0..MaxOrder :
                       /\ NextOrder(Children(p), next)
                       /\ category' = [category EXCEPT ![id] =
                             [parent |-> p, tier |-> op[a].tier, order |-> next, cover |-> 0]]
            ELSE UNCHANGED <<made, category>>
       /\ UNCHANGED <<covers, drawn, locked, untold>>

-----------------------------------------------------------------------------
(* PUT /:id.  `given`: the body has a parent_id, which may be null. *)

EditBegin(a, c, given, p, t) ==
    LET parent == IF given THEN p ELSE category[c].parent IN
    /\ Does(a, "idle") /\ Stands(c) /\ p # c
    /\ op' = [op EXCEPT ![a] =
          [Idle EXCEPT !.cat = c, !.parent = parent, !.tier = t, !.order = category[c].order,
                       !.moved = given /\ p # category[c].parent,
                       !.at = IF given /\ p # NoCategory THEN "descend"
                              ELSE IF parent # NoCategory THEN "tier"
                              ELSE IF given /\ p # category[c].parent THEN "order" ELSE "update"]]
    /\ OnlyOp

\* Mutant: only the children are looked at.
EditDescendsOne(a) ==
    /\ Does(a, "descend")
    /\ IF op[a].parent \in Children(op[a].cat) THEN EndsOp(a) ELSE Then(a, "tier")
    /\ OnlyOp

EditDescends(a) ==
    /\ Does(a, "descend")
    /\ IF op[a].parent \in Below(op[a].cat) THEN EndsOp(a) ELSE Then(a, "tier")
    /\ OnlyOp

EditTier(a) ==
    /\ Does(a, "tier")
    /\ IF Stands(op[a].parent)
         THEN op' = [op EXCEPT ![a].tier = category[op[a].parent].tier,
                               ![a].at = IF op[a].moved THEN "order" ELSE "update"]
         ELSE EndsOp(a)
    /\ OnlyOp

EditOrder(a) ==
    /\ Does(a, "order")
    /\ \E next \in 0..MaxOrder :
          /\ NextOrder(Children(op[a].parent) \ {op[a].cat}, next)
          /\ op' = [op EXCEPT ![a].order = next, ![a].at = "update"]
    /\ OnlyOp

EditUpdate(a) ==
    LET c == op[a].cat
        p == op[a].parent
    IN /\ Does(a, "update") /\ Unlocked(a, {c, p})
       /\ IF Stands(c) /\ p # NoCategory /\ ~Stands(p)
            THEN EndsOp(a) /\ UNCHANGED category
            ELSE /\ Then(a, "propagate")
                 /\ category' = IF Stands(c)
                      THEN [category EXCEPT ![c].parent = p, ![c].tier = op[a].tier, ![c].order = op[a].order]
                      ELSE category
       /\ OnlyTree /\ UNCHANGED <<locked, untold>>

EditPropagate(a) ==
    /\ Does(a, "propagate") /\ Unlocked(a, Below(op[a].cat)) /\ EndsOp(a)
    /\ category' = WithTier(category, Below(op[a].cat), op[a].tier)
    /\ Told(op[a].cat) /\ OnlyTree /\ UNCHANGED locked

\* The second statement fails, or the server stops before it: what the first
\* has written stays.
EditCut(a) ==
    /\ Does(a, "propagate") /\ EndsOp(a)
    /\ untold' = untold \union {op[a].cat}
    /\ UNCHANGED <<category, made, covers, drawn, locked>>

-----------------------------------------------------------------------------
(* PATCH /:id/move: BEGIN, SELECT ... FOR UPDATE, ..., COMMIT *)

Rollback(a) == EndsOp(a) /\ locked' = [locked EXCEPT ![a] = {}]
Locks(a, rows) == Unlocked(a, rows) /\ locked' = [locked EXCEPT ![a] = @ \union rows]

MoveBegin(a, c, p, index) ==
    /\ Does(a, "idle") /\ Stands(c) /\ p # c /\ Locks(a, {c})
    /\ op' = [op EXCEPT ![a] =
          [Idle EXCEPT !.cat = c, !.parent = p, !.from = category[c].parent, !.order = index,
                       !.tier = category[c].tier,
                       !.at = IF p = NoCategory THEN "moveSiblings" ELSE "moveParent"]]
    /\ UNCHANGED <<category, untold>> /\ OnlyTree

MoveParent(a) ==
    /\ Does(a, "moveParent")
    /\ IF Stands(op[a].parent)
         THEN /\ Locks(a, {op[a].parent})
              /\ op' = [op EXCEPT ![a].tier = category[op[a].parent].tier, ![a].at = "moveDescend"]
         ELSE Rollback(a)
    /\ UNCHANGED <<category, untold>> /\ OnlyTree

MoveDescends(a) ==
    /\ Does(a, "moveDescend")
    /\ IF op[a].parent \in Below(op[a].cat) THEN Rollback(a)
       ELSE Then(a, "moveSiblings") /\ UNCHANGED locked
    /\ UNCHANGED <<category, untold>> /\ OnlyTree

MoveSiblings(a) ==
    /\ Does(a, "moveSiblings") /\ Then(a, "moveCommit")
    /\ Locks(a, Children(op[a].from) \union Children(op[a].parent))
    /\ UNCHANGED <<category, untold>> /\ OnlyTree

\* The place of s among `siblings` by sort order, then id.
Place(s, siblings) ==
    Cardinality({r \in siblings : \/ category[r].order < category[s].order
                                  \/ category[r].order = category[s].order /\ r < s})

MoveCommit(a) ==
    LET c == op[a].cat
        p == op[a].parent
        left == IF op[a].from = p THEN {} ELSE Children(op[a].from) \ {c}
        dest == Children(p) \ {c}
        index == IF op[a].order < Cardinality(dest) THEN op[a].order ELSE Cardinality(dest)
        order(s) == CASE s = c -> index
                      [] s \in left -> Place(s, left)
                      [] s \in dest -> IF Place(s, dest) < index THEN Place(s, dest) ELSE Place(s, dest) + 1
                      [] OTHER -> category[s].order
        placed == [s \in Category |->
                      IF ~Stands(s) THEN NoCategory
                      ELSE [category[s] EXCEPT !.order = order(s), !.parent = IF s = c THEN p ELSE @]]
    IN /\ Does(a, "moveCommit") /\ Unlocked(a, left \union dest \union Below(c))
       /\ category' = WithTier(placed, Below(c) \union {c}, op[a].tier)
       /\ Told(c) /\ Rollback(a) /\ OnlyTree

\* The database ends one of two transactions that wait for each other.
MoveAborts(a) ==
    /\ op[a].at \in {"moveParent", "moveSiblings", "moveCommit"} /\ Rollback(a)
    /\ UNCHANGED <<category, untold>> /\ OnlyTree

-----------------------------------------------------------------------------
(* DELETE /:id: ON DELETE CASCADE takes what has come below meanwhile. *)

RemoveBegin(a, c) == Stands(c) /\ Starts(a, "children", c) /\ OnlyOp

RemoveChildren(a) ==
    /\ Does(a, "children")
    /\ IF Children(op[a].cat) # {} THEN EndsOp(a) ELSE Then(a, "cover")
    /\ OnlyOp

RemoveCover(a) == Does(a, "cover") /\ Then(a, "delete") /\ OnlyOp

RemoveRow(a) ==
    LET c == op[a].cat IN
    /\ Does(a, "delete") /\ Unlocked(a, {c} \union Below(c))
    /\ IF Stands(c) THEN Then(a, "files") ELSE EndsOp(a)
    /\ category' = [d \in Category |-> IF d \in {c} \union Below(c) THEN NoCategory ELSE category[d]]
    /\ OnlyTree /\ UNCHANGED <<locked, untold>>

\* The cover, then the directory it lies in.
RemoveCoverFiles(a) ==
    /\ Does(a, "files") /\ EndsOp(a)
    /\ covers' = {f \in covers : f[1] # op[a].cat}
    /\ UNCHANGED <<category, made, drawn, locked, untold>>

-----------------------------------------------------------------------------
(* Covers: PUT and DELETE /:id/thumbnail, and an upload to a category without one *)

CoverBegin(a, c, step) ==
    /\ Stands(c) /\ step \in {"draw", "setNull", "adopt"}
    /\ step = "adopt" => category[c].cover = 0
    /\ Does(a, "idle")
    /\ op' = [op EXCEPT ![a] = [Idle EXCEPT !.at = step, !.cat = c, !.old = category[c].cover,
                                            !.moved = (step = "adopt")]]
    /\ OnlyOp

CoverDraw(a) ==
    /\ Does(a, "draw") \/ Does(a, "adopt")
    /\ drawn < MaxCover /\ drawn' = drawn + 1
    /\ covers' = covers \union {<<op[a].cat, drawn'>>}
    /\ op' = [op EXCEPT ![a].at = "setCover", ![a].new = drawn']
    /\ UNCHANGED <<category, made, locked, untold>>

CoverUpdate(a) ==
    LET c == op[a].cat IN
    /\ Does(a, "setCover") \/ Does(a, "setNull")
    /\ Unlocked(a, {c})
    /\ category' = IF Stands(c) /\ (op[a].moved => category[c].cover = 0)
                     THEN [category EXCEPT ![c].cover = op[a].new] ELSE category
    /\ IF op[a].old = 0 THEN EndsOp(a) ELSE Then(a, "unlink")
    /\ OnlyTree /\ UNCHANGED <<locked, untold>>

CoverUnlink(a) ==
    /\ Does(a, "unlink") /\ EndsOp(a)
    /\ covers' = covers \ {<<op[a].cat, op[a].old>>}
    /\ UNCHANGED <<category, made, drawn, locked, untold>>

\* The UPDATE fails: the file of PUT /thumbnail goes, that of an upload stays.
CoverFails(a) ==
    /\ Does(a, "setCover") /\ EndsOp(a)
    /\ covers' = IF op[a].moved THEN covers ELSE covers \ {<<op[a].cat, op[a].new>>}
    /\ UNCHANGED <<category, made, drawn, locked, untold>>

-----------------------------------------------------------------------------
Restructure(a) ==
    \/ \E p \in Parent, t \in Tier : AddBegin(a, p, t)
    \/ AddInsert(a)
    \/ \E c \in Category :
          \/ \E p \in Parent, t \in Tier : EditBegin(a, c, TRUE, p, t)
          \/ \E t \in Tier : EditBegin(a, c, FALSE, NoCategory, t)
          \/ \E p \in Parent, index \in 0..MaxOrder : MoveBegin(a, c, p, index)
          \/ RemoveBegin(a, c)
    \/ EditDescends(a) \/ EditTier(a) \/ EditOrder(a) \/ EditUpdate(a) \/ EditPropagate(a)
    \/ EditCut(a)
    \/ MoveParent(a) \/ MoveDescends(a) \/ MoveSiblings(a) \/ MoveCommit(a) \/ MoveAborts(a)
    \/ RemoveChildren(a) \/ RemoveCover(a) \/ RemoveRow(a) \/ RemoveCoverFiles(a)

Recover(a) ==
    \/ \E c \in Category, step \in {"draw", "setNull", "adopt"} : CoverBegin(a, c, step)
    \/ CoverDraw(a) \/ CoverUpdate(a) \/ CoverUnlink(a) \/ CoverFails(a)

CatalogueNext ==
    \/ \E a \in TreeAdmin : Restructure(a)
    \/ \E a \in CoverAdmin : Recover(a)

-----------------------------------------------------------------------------
\* No category sits below itself (categories.js:290): every category can be
\* reached from a root, and the recursive queries end.
NoCycle == \A c \in Category : Stands(c) => c \notin Below(c)

\* While the tree is changed by one request at a time, a category has the tier
\* of its parent down every branch, whatever was added, edited, moved and
\* removed, and no two siblings share a place, so that the access check and the
\* order of the listing agree for every reader.  The one exception is an edit
\* that ended between its two statements: what is directly below that category
\* may have another tier until the category, or one above it, is edited or moved.
TreeIsSound ==
    /\ NoCycle
    /\ \A c \in Category : Stands(c) /\ category[c].parent # NoCategory =>
          /\ Stands(category[c].parent)
          /\ \/ category[c].tier = category[category[c].parent].tier
             \/ category[c].parent \in untold
             \/ \E a \in Admin : Does(a, "propagate")
    /\ \A c, d \in Category :
          Stands(c) /\ Stands(d) /\ c # d /\ category[c].parent = category[d].parent
             => category[c].order # category[d].order

\* The cover that a category's row names is stored, while several requests
\* replace, remove and adopt it (categories.js:239).
CoverIsStored ==
    \A c \in Category : Stands(c) /\ category[c].cover # 0 => <<c, category[c].cover>> \in covers

\* What holds in every state of the tree and its covers (categories.js:248, 292).
TreeInv == CatalogueTypeOK /\ TreeIsSound /\ CoverIsStored

CatalogueSpec == CatalogueInit /\ [][CatalogueNext]_catalogueVars
=============================================================================
