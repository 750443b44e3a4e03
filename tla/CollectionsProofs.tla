--------------------------- MODULE CollectionsProofs ---------------------------
(***************************************************************************)
(* Theorems about Collections: the counters are exact, the limits hold,    *)
(* and a deadlock takes a transaction that locks an item before its        *)
(* collection, for any number of collections, books and requests.          *)
(***************************************************************************)
EXTENDS Collections, FiniteSetTheorems, TLAPS

-----------------------------------------------------------------------------
(***************************************************************************)
(* The inductive invariant.  A transaction has read rows before it writes, *)
(* so every conjunct about it says what its locks keep true until then.    *)
(***************************************************************************)
ItemRow(id) == <<"item", id>>
AllItemRows == {ItemRow(id) : id \in Nat}
Row == {CollectionRow(c) : c \in Collection} \cup {BookRow(b) : b \in Book}
       \cup {BookKey(p[1], p[2]) : p \in Book \X Request}
       \cup AllItemRows \cup {UserCollectionsLock}

Ops == {"none", "add", "remove", "toggle", "reorder", "create", "deleteCollection", "deleteBook"}
Statements == {"idle", "lock", "insert", "favorite", "delete", "count", "off", "on", "less", "more",
               "write", "items", "book", "cascade"}
Transactions ==
  [op : Ops, at : Statements, collection : Collection \cup {None}, book : Book \cup {None},
   item : 0..MaxItems, position : Nat, listed : SUBSET Collection, order : Seq(Nat),
   moves : SUBSET (Nat \X (Nat \ {0})), wants : SUBSET Row, locks : SUBSET Row]

Stages ==
  {<<"none", "idle">>, <<"add", "lock">>, <<"add", "insert">>, <<"add", "favorite">>,
   <<"remove", "delete">>, <<"remove", "count">>, <<"remove", "favorite">>,
   <<"toggle", "lock">>, <<"toggle", "off">>, <<"toggle", "on">>, <<"toggle", "less">>,
   <<"toggle", "more">>, <<"reorder", "lock">>, <<"reorder", "write">>,
   <<"create", "count">>, <<"create", "insert">>,
   <<"deleteCollection", "lock">>, <<"deleteCollection", "items">>,
   <<"deleteBook", "book">>, <<"deleteBook", "cascade">>, <<"deleteBook", "count">>}

\* What a request is about, at each stage.
StageOK(r) ==
  /\ <<req[r].op, req[r].at>> \in Stages
  /\ req[r].op \in {"add", "remove", "toggle", "reorder", "deleteCollection"} => req[r].collection \in Collection
  /\ req[r].op \in {"add", "remove", "toggle", "deleteBook"} => req[r].book \in Book
  /\ req[r].op = "toggle" \/ req[r].at = "favorite" => req[r].collection \in Favorites
  /\ req[r].op \in {"reorder", "deleteCollection"} => req[r].collection \notin Favorites

\* The row of its collection is the request's until it ends.
HasCollection(r) ==
  /\ req[r].op \in {"add", "remove", "toggle", "reorder", "deleteCollection"}
  /\ req[r].at \in {"insert", "favorite", "off", "on", "less", "more", "write", "items"}

\* The rows the next statement needs.
WantsOK(r) ==
  LET c == req[r].collection  b == req[r].book  wants == req[r].wants IN
  /\ req[r].at = "lock" \/ At(r, "remove", "count") => wants = {CollectionRow(c)}
  /\ req[r].at \in {"favorite", "less", "more"} => wants = {BookRow(b)}
  /\ req[r].at \in {"delete", "off"} => wants = {ItemRow(req[r].item)}
  /\ req[r].at = "on" => wants = {BookKey(b, r)}
  /\ At(r, "add", "insert") => BookKey(b, r) \in wants /\ wants \subseteq {BookKey(b, r)} \cup AllItemRows
  /\ req[r].at \in {"write", "items"} => wants \subseteq AllItemRows
  /\ At(r, "create", "count") => wants = {UserCollectionsLock}
  /\ At(r, "create", "insert") => wants = {}
  /\ req[r].at = "book" => wants = WholeBook(b)

\* The rows held from the statements before.
LocksOK(r) ==
  LET c == req[r].collection  b == req[r].book  locks == req[r].locks IN
  /\ req[r].at \in {"idle", "lock", "delete", "book"} \/ At(r, "create", "count") => locks = {}
  /\ HasCollection(r) => CollectionRow(c) \in locks
  /\ At(r, "add", "favorite") \/ At(r, "toggle", "more") => BookKey(b, r) \in locks
  /\ At(r, "remove", "count") \/ At(r, "remove", "favorite") \/ At(r, "toggle", "less")
       => ItemRow(req[r].item) \in locks
  /\ At(r, "deleteBook", "cascade") \/ At(r, "deleteBook", "count") => WholeBook(b) \subseteq locks
  /\ At(r, "create", "insert") => UserCollectionsLock \in locks
  /\ req[r].op \notin {"remove", "deleteBook"} =>
       /\ locks \subseteq {CollectionRow(c), BookKey(b, r), UserCollectionsLock} \cup AllItemRows
       /\ UserCollectionsLock \in locks => At(r, "create", "insert")

\* No row has two holders.
LocksExclusive == \A q, r \in Request : q # r => req[q].locks \cap req[r].locks = {}

\* The items a request that has locked its collection first holds or waits for are of
\* that collection, and no other such request holds or waits for them.
CollectionFirst(r) == req[r].op \in {"add", "toggle", "reorder", "deleteCollection"}
Touches(r, id) == ItemRow(id) \in req[r].locks \cup req[r].wants
ItemLocksOK ==
  \A r \in Request : CollectionFirst(r) =>
    /\ \A id \in Nat : Touches(r, id) =>
         id <= lastItem /\ \A i \in items : i.id = id => i.collection = req[r].collection
    /\ \A q \in Request \ {r} : CollectionFirst(q) => \A id \in Nat : ~(Touches(r, id) /\ Touches(q, id))

\* addBook and toggleFavorite: what the new item needs.
InsertOK(r) ==
  LET c == req[r].collection  b == req[r].book IN
  /\ req[r].op = "add" \/ req[r].at \in {"on", "more"} => req[r].position > 0
  /\ At(r, "add", "insert") => collection[c].bookCount < BookLimit[c]
  /\ At(r, "add", "favorite") \/ req[r].at = "more" => book[b].exists
  /\ At(r, "add", "favorite") \/ req[r].at \in {"on", "more"} =>
       \A i \in ItemsIn(c) : i.book # b /\ i.position # req[r].position

\* removeBook and toggleFavorite: the item is there from the statement that locks it.
DeleteOK(r) ==
  /\ req[r].op = "remove" \/ req[r].at \in {"off", "less"} =>
       /\ req[r].item <= lastItem
       /\ \A i \in WithId(req[r].item) : i.collection = req[r].collection /\ i.book = req[r].book
  /\ At(r, "remove", "count") \/ At(r, "remove", "favorite") \/ req[r].at = "less"
       => WithId(req[r].item) # {}

\* reorder: the positions it will write are those of the items it was given.
Named(r) == ToSet(req[r].order)
ReorderOK(r) ==
  req[r].op = "reorder" =>
    /\ \A m, n \in DOMAIN req[r].order : req[r].order[m] = req[r].order[n] => m = n
    /\ \A id \in Named(r) : id <= lastItem
    /\ \A i \in items : i.id \in Named(r) => i.collection = req[r].collection
MovesOK(r) ==
  req[r].at = "write" =>
    /\ \A m, n \in req[r].moves : m[1] = n[1] <=> m[2] = n[2]
    /\ \A m \in req[r].moves : m[1] \in Named(r)
    /\ \A i \in ItemsIn(req[r].collection) :
         /\ i.id \in Named(r) => \E m \in req[r].moves : m[1] = i.id
         /\ (\E m \in req[r].moves : i.position = m[2]) => i.id \in Named(r)

\* delete and deleteById: the rows the cascade and the counts are about.
CollectionOK(r) ==
  /\ HasCollection(r) => Live(req[r].collection)
  /\ req[r].at = "items" => ItemRows(ItemsIn(req[r].collection)) \subseteq req[r].wants
BookOK(r) ==
  LET b == req[r].book IN
  req[r].op = "deleteBook" =>
    /\ \A c \in req[r].listed : collection[c].state # "none"
    /\ req[r].at \in {"cascade", "count"} => book[b].exists
    /\ req[r].at = "cascade" => ItemRows(ItemsOf(b)) \subseteq req[r].wants
    /\ req[r].at = "count" => ItemRows(ItemsOf(b)) \subseteq req[r].locks
    /\ book[b].exists => \A c \in Collection \ raced :
         Live(c) => (c \in req[r].listed <=> \E i \in ItemsOf(b) : i.collection = c)

\* createUserCollection: nobody else creates one before it has.
CreateOK(r) == At(r, "create", "insert") => Cardinality(UserCollections) < UserLimit

TxOK(r) ==
  /\ StageOK(r) /\ WantsOK(r) /\ LocksOK(r)
  /\ InsertOK(r) /\ DeleteOK(r) /\ ReorderOK(r) /\ MovesOK(r)
  /\ CollectionOK(r) /\ BookOK(r) /\ CreateOK(r)

\* Rows refer to rows that exist; ids are not reused.
RowsOK ==
  /\ IsFiniteSet(items) /\ IsFiniteSet(UserCollections)
  /\ \A i, j \in items : i.id = j.id => i = j
  /\ \A i \in items : i.id <= lastItem /\ Live(i.collection) /\ book[i.book].exists
  /\ \A c \in Favorites : Live(c)

\* The model's bound on items leaves one for each request that may insert one.
Inserting == {q \in Request : req[q].op \in {"add", "toggle"}}
SlotsOK == lastItem + Cardinality(Inserting) <= MaxItems

CountsOK == BookCountExact /\ FavoritesExact /\ BookLimitKept /\ UserLimitKept /\ ItemsDistinct
Typed == TypeOK /\ req \in [Request -> Transactions]
IInv ==
  /\ Typed /\ RowsOK /\ CountsOK /\ SlotsOK
  /\ LocksExclusive /\ ItemLocksOK
  /\ \A r \in Request : TxOK(r)

-----------------------------------------------------------------------------
(***************************************************************************)
(* Rows and locks                                                          *)
(***************************************************************************)

\* The names of rows are all different.
LEMMA RowsDistinct ==
  /\ \A c, d : CollectionRow(c) = CollectionRow(d) => c = d
  /\ \A b, d : BookRow(b) = BookRow(d) => b = d
  /\ \A b, d, r, q : BookKey(b, r) = BookKey(d, q) => b = d /\ r = q
  /\ \A x, y : ItemRow(x) = ItemRow(y) => x = y
  /\ \A c, b, r, x : /\ CollectionRow(c) # BookRow(b) /\ CollectionRow(c) # BookKey(b, r)
                     /\ CollectionRow(c) # ItemRow(x) /\ CollectionRow(c) # UserCollectionsLock
  /\ \A b, d, r, x : /\ BookRow(b) # BookKey(d, r) /\ BookRow(b) # ItemRow(x)
                     /\ BookRow(b) # UserCollectionsLock
  /\ \A b, r, x : BookKey(b, r) # ItemRow(x) /\ BookKey(b, r) # UserCollectionsLock
  /\ \A x : ItemRow(x) # UserCollectionsLock
BY DEF CollectionRow, BookRow, BookKey, ItemRow, UserCollectionsLock

\* The same names are those of rows.
LEMMA RowsAreRows ==
  /\ \A c \in Collection : CollectionRow(c) \in Row
  /\ \A b \in Book : BookRow(b) \in Row /\ WholeBook(b) \subseteq Row
  /\ \A b \in Book, r \in Request : BookKey(b, r) \in Row
  /\ AllItemRows \subseteq Row /\ UserCollectionsLock \in Row
<1>1. ASSUME NEW b \in Book, NEW r \in Request PROVE BookKey(b, r) \in Row
  <2>1. <<b, r>> \in Book \X Request /\ <<b, r>>[1] = b /\ <<b, r>>[2] = r OBVIOUS
  <2>2. BookKey(b, r) \in {BookKey(p[1], p[2]) : p \in Book \X Request} BY <2>1
  <2>3. QED BY <2>2 DEF Row
<1>2. \A c \in Collection : CollectionRow(c) \in Row BY DEF Row
<1>3. \A b \in Book : BookRow(b) \in Row BY DEF Row
<1>4. \A b \in Book : WholeBook(b) \subseteq Row BY <1>1, <1>3 DEF WholeBook
<1>5. AllItemRows \subseteq Row /\ UserCollectionsLock \in Row BY DEF Row
<1>6. QED BY <1>1, <1>2, <1>3, <1>4, <1>5

\* No other row is that of an item.
LEMMA ItemRowsApart ==
  /\ \A c : CollectionRow(c) \notin AllItemRows
  /\ \A b, r : BookRow(b) \notin AllItemRows /\ BookKey(b, r) \notin AllItemRows
  /\ UserCollectionsLock \notin AllItemRows
  /\ \A n \in Nat : ItemRow(n) \in AllItemRows
BY RowsDistinct DEF AllItemRows

\* The rows of a set of items.
LEMMA RowsOfItems ==
  ASSUME NEW S, NEW n \in Nat, \A i \in S : i.id \in 0..n
  PROVE  /\ ItemRows(S) \subseteq AllItemRows
         /\ \A id : ItemRow(id) \in ItemRows(S) <=> \E i \in S : i.id = id
         /\ \A i \in S : ItemRow(i.id) \in ItemRows(S)
<1>1. ItemRows(S) = {ItemRow(i.id) : i \in S} BY DEF ItemRows, ItemRow
<1>2. \A id : ItemRow(id) \in ItemRows(S) <=> \E i \in S : i.id = id BY <1>1, RowsDistinct
<1>3. \A i \in S : i.id \in Nat OBVIOUS
<1>4. ItemRows(S) \subseteq AllItemRows BY <1>1, <1>3 DEF AllItemRows
<1>5. QED BY <1>2, <1>4

\* What is known of a request and of the tables.
LEMMA Shapes ==
  ASSUME IInv
  PROVE  /\ req \in [Request -> Transactions]
         /\ lastItem \in 0..MaxItems /\ MaxItems \in Nat /\ items \subseteq Item
         /\ \A i \in items : /\ i.id \in 1..MaxItems /\ i.collection \in Collection
                             /\ i.book \in Book /\ i.position \in Nat \ {0}
BY CollectionsAssumption DEF IInv, Typed, TypeOK, Item, ItemId

\* A row that a statement needs, or its transaction holds, is held by nobody else.
LEMMA Owner ==
  ASSUME IInv, NEW r \in Request, NEW q \in Request, q # r, Blockers(r) = {},
         NEW x \in req[r].locks \cup req[r].wants
  PROVE  x \notin req[q].locks
BY DEF IInv, LocksExclusive, Blockers

\* Of the rows a request has locked nobody else has one.
LEMMA Holder ==
  ASSUME IInv, NEW r \in Request, NEW q \in Request, q # r, NEW x \in req[r].locks
  PROVE  x \notin req[q].locks
BY DEF IInv, LocksExclusive

-----------------------------------------------------------------------------
(***************************************************************************)
(* Steps that leave the tables alone                                       *)
(***************************************************************************)

\* What is known of a request depends on its own transaction and on the tables only.
LEMMA OthersKeep ==
  ASSUME UNCHANGED tables, NEW q \in Request, req'[q] = req[q], TxOK(q)
  PROVE  TxOK(q)'
<1> USE DEF tables, At, HasCollection
<1>1. StageOK(q)' BY DEF TxOK, StageOK
<1>2. WantsOK(q)' BY DEF TxOK, WantsOK
<1>3. LocksOK(q)' BY DEF TxOK, LocksOK
<1>4. InsertOK(q)' BY DEF TxOK, InsertOK, ItemsIn
<1>5. DeleteOK(q)' BY DEF TxOK, DeleteOK, WithId
<1>6. ReorderOK(q)' BY DEF TxOK, ReorderOK, Named
<1>7. MovesOK(q)' BY DEF TxOK, MovesOK, Named, ItemsIn
<1>8. CollectionOK(q)' BY DEF TxOK, CollectionOK, Live, ItemsIn
<1>9. BookOK(q)' BY DEF TxOK, BookOK, ItemsOf, Live
<1>10. CreateOK(q)' BY DEF TxOK, CreateOK, UserCollections, Live
<1>11. QED BY <1>1, <1>2, <1>3, <1>4, <1>5, <1>6, <1>7, <1>8, <1>9, <1>10 DEF TxOK

\* The locks stay exclusive when a request takes rows that nobody holds.
LEMMA LocksStayExclusive ==
  ASSUME IInv, NEW r \in Request, NEW t \in Transactions, req' = [req EXCEPT ![r] = t],
         t.locks = {} \/ (Blockers(r) = {} /\ t.locks \subseteq req[r].locks \cup req[r].wants)
  PROVE  LocksExclusive'
<1>1. \A q \in Request \ {r} : t.locks \cap req[q].locks = {} BY Owner
<1>2. req'[r] = t /\ \A q \in Request \ {r} : req'[q] = req[q] BY Shapes
<1>3. QED BY <1>1, <1>2 DEF LocksExclusive, IInv

\* Why a request comes to touch an item: it did before, or it has locked its collection.
Found(r, t, id) ==
  \/ CollectionFirst(r) /\ Touches(r, id) /\ t.collection = req[r].collection
  \/ /\ CollectionRow(t.collection) \in t.locks
     /\ \E i \in items : i.id = id /\ i.collection = t.collection
FirstOps == {"add", "toggle", "reorder", "deleteCollection"}

\* A request that touches items and locks its collection first has locked it.
LEMMA TouchesLocked ==
  ASSUME IInv, NEW q \in Request, CollectionFirst(q), NEW id \in Nat, Touches(q, id)
  PROVE  CollectionRow(req[q].collection) \in req[q].locks
<1>1. StageOK(q) /\ WantsOK(q) /\ LocksOK(q) BY DEF IInv, TxOK
<1>2. CASE req[q].at = "lock"
  <2>1. req[q].locks = {} /\ req[q].wants = {CollectionRow(req[q].collection)}
    BY <1>1, <1>2 DEF WantsOK, LocksOK
  <2>2. QED BY <2>1, RowsDistinct DEF Touches
<1>3. CASE req[q].at # "lock"
  <2>1. HasCollection(q) BY <1>1, <1>3 DEF StageOK, Stages, HasCollection, CollectionFirst
  <2>2. QED BY <2>1, <1>1 DEF LocksOK
<1>4. QED BY <1>2, <1>3

\* The items that requests touch stay apart when a request finds them under its collection.
LEMMA ItemLocksStay ==
  ASSUME IInv, UNCHANGED <<items, lastItem>>, NEW r \in Request, NEW t \in Transactions,
         req' = [req EXCEPT ![r] = t],
         t.locks = {} \/ (Blockers(r) = {} /\ t.locks \subseteq req[r].locks \cup req[r].wants),
         t.op \in FirstOps => \A id \in Nat : ItemRow(id) \in t.locks \cup t.wants => Found(r, t, id)
  PROVE  ItemLocksOK'
<1>1. req'[r] = t /\ \A q \in Request \ {r} : req'[q] = req[q] BY Shapes
<1>2. \A q \in Request \ {r} : (CollectionFirst(q)' <=> CollectionFirst(q))
                               /\ \A id \in Nat : Touches(q, id)' <=> Touches(q, id)
  BY <1>1 DEF CollectionFirst, Touches
<1>3. ASSUME CollectionFirst(r)', NEW id \in Nat, Touches(r, id)'
      PROVE  /\ id <= lastItem /\ \A i \in items : i.id = id => i.collection = t.collection
             /\ \A q \in Request \ {r} : CollectionFirst(q) => ~Touches(q, id)
  <2>1. Found(r, t, id) BY <1>1, <1>3 DEF CollectionFirst, Touches, FirstOps
  <2>2. CASE CollectionFirst(r) /\ Touches(r, id) /\ t.collection = req[r].collection
    BY <2>2 DEF IInv, ItemLocksOK
  <2>3. CASE /\ CollectionRow(t.collection) \in t.locks
             /\ \E i \in items : i.id = id /\ i.collection = t.collection
    <3>1. PICK i \in items : i.id = id /\ i.collection = t.collection BY <2>3
    <3>2. id <= lastItem /\ \A j \in items : j.id = id => j.collection = t.collection
      BY <3>1 DEF IInv, RowsOK
    <3>3. ASSUME NEW q \in Request \ {r}, CollectionFirst(q), Touches(q, id) PROVE FALSE
      <4>1. req[q].collection = t.collection BY <3>1, <3>3 DEF IInv, ItemLocksOK
      <4>2. CollectionRow(t.collection) \in req[q].locks BY <4>1, <3>3, TouchesLocked
      <4>3. CollectionRow(t.collection) \notin req[q].locks BY <2>3, Owner
      <4>4. QED BY <4>2, <4>3
    <3>4. QED BY <3>2, <3>3
  <2>4. QED BY <2>1, <2>2, <2>3 DEF Found
<1>4. ASSUME NEW p \in Request, CollectionFirst(p)'
      PROVE  /\ \A id \in Nat : Touches(p, id)' =>
                  id <= lastItem' /\ \A i \in items' : i.id = id => i.collection = req'[p].collection
             /\ \A q \in Request \ {p} : CollectionFirst(q)' =>
                  \A id \in Nat : ~(Touches(p, id)' /\ Touches(q, id)')
  <2>1. CASE p = r BY <1>1, <1>2, <1>3, <1>4, <2>1
  <2>2. CASE p # r
    <3>1. \A id \in Nat : Touches(p, id) =>
            id <= lastItem /\ \A i \in items : i.id = id => i.collection = req[p].collection
      BY <1>2, <1>4, <2>2 DEF IInv, ItemLocksOK
    <3>2. \A q \in Request \ {p} : CollectionFirst(q) => \A id \in Nat : ~(Touches(p, id) /\ Touches(q, id))
      BY <1>2, <1>4, <2>2 DEF IInv, ItemLocksOK
    <3>3. \A id \in Nat : Touches(p, id)' =>
            id <= lastItem' /\ \A i \in items' : i.id = id => i.collection = req'[p].collection
      BY <3>1, <1>1, <1>2, <2>2
    <3>4. ASSUME NEW q \in Request \ {p}, CollectionFirst(q)', NEW id \in Nat, Touches(p, id)', Touches(q, id)'
          PROVE FALSE
      <4>1. CASE q = r BY <4>1, <1>2, <1>3, <1>4, <2>2, <3>4
      <4>2. CASE q # r BY <4>2, <3>2, <3>4, <1>2, <2>2
      <4>3. QED BY <4>1, <4>2
    <3>5. QED BY <3>3, <3>4
  <2>3. QED BY <2>1, <2>2
<1>5. QED BY <1>4 DEF ItemLocksOK

\* A step that leaves the tables alone keeps what is known of them.
LEMMA TablesKeep ==
  ASSUME IInv, UNCHANGED tables
  PROVE  RowsOK' /\ CountsOK'
<1>1. RowsOK' BY DEF tables, IInv, RowsOK, UserCollections, Live
<1>2. BookCountExact' BY DEF tables, IInv, CountsOK, BookCountExact, ItemsIn, Live
<1>3. FavoritesExact' BY DEF tables, IInv, CountsOK, FavoritesExact, ItemsOf
<1>4. BookLimitKept' BY DEF tables, IInv, CountsOK, BookLimitKept, ItemsIn
<1>5. UserLimitKept' BY DEF tables, IInv, CountsOK, UserLimitKept, UserCollections, Live
<1>6. ItemsDistinct' BY DEF tables, IInv, CountsOK, ItemsDistinct
<1>7. QED BY <1>1, <1>2, <1>3, <1>4, <1>5, <1>6 DEF CountsOK

\* The types, when only the request of a step changes.
LEMMA TypesKeep ==
  ASSUME IInv, UNCHANGED tables, NEW r \in Request, NEW t \in Transactions,
         req' = [req EXCEPT ![r] = t]
  PROVE  Typed'
<1>1. req' \in [Request -> Transactions] BY Shapes
<1>2. \A q \in Request : /\ req'[q].collection \in Collection \cup {None}
                         /\ req'[q].book \in Book \cup {None} /\ req'[q].item \in 0..MaxItems
  BY <1>1 DEF Transactions
<1>3. TypeOK' BY <1>2 DEF tables, IInv, Typed, TypeOK
<1>4. QED BY <1>1, <1>3 DEF Typed

\* What a step has to show that changes one transaction and no table.
LEMMA Quiet ==
  ASSUME IInv, UNCHANGED tables, NEW r \in Request, NEW t \in Transactions,
         req' = [req EXCEPT ![r] = t],
         t.locks = {} \/ (Blockers(r) = {} /\ t.locks \subseteq req[r].locks \cup req[r].wants),
         t.op \in FirstOps => \A id \in Nat : ItemRow(id) \in t.locks \cup t.wants => Found(r, t, id),
         SlotsOK', TxOK(r)'
  PROVE  IInv'
<1>1. Typed' BY TypesKeep
<1>2. RowsOK' /\ CountsOK' BY TablesKeep
<1>3. LocksExclusive' BY LocksStayExclusive
<1>4. ItemLocksOK' BY ItemLocksStay DEF tables
<1>5. ASSUME NEW q \in Request \ {r} PROVE TxOK(q)'
  <2>1. req'[q] = req[q] BY Shapes
  <2>2. TxOK(q) BY DEF IInv
  <2>3. QED BY <2>1, <2>2, OthersKeep
<1>6. QED BY <1>1, <1>2, <1>3, <1>4, <1>5 DEF IInv

-----------------------------------------------------------------------------
(***************************************************************************)
(* Order and number                                                        *)
(***************************************************************************)

\* In a finite set whose members have different keys each rank is taken once.
LEMMA Ranks ==
  ASSUME NEW S, IsFiniteSet(S), NEW f \in [S -> Nat], \A x, y \in S : f[x] = f[y] => x = y,
         NEW below \in [S -> SUBSET S], \A x, y \in S : y \in below[x] <=> f[y] <= f[x],
         NEW rank \in [S -> Nat], \A x \in S : rank[x] = Cardinality(below[x])
  PROVE  /\ Cardinality(S) \in Nat
         /\ \A x \in S : rank[x] \in 1..Cardinality(S)
         /\ \A x, z \in S : rank[x] = rank[z] => x = z
         /\ \A n \in 1..Cardinality(S) : \E x \in S : rank[x] = n
<1>1. Cardinality(S) \in Nat BY FS_CardinalityType
<1>2. ASSUME NEW x \in S
      PROVE  IsFiniteSet(below[x]) /\ rank[x] \in 1..Cardinality(S)
  <2>1. below[x] \in SUBSET S OBVIOUS
  <2>2. IsFiniteSet(below[x]) /\ Cardinality(below[x]) <= Cardinality(S) BY <2>1, FS_Subset
  <2>3. Cardinality(below[x]) \in Nat BY <2>2, FS_CardinalityType
  <2>4. x \in below[x] OBVIOUS
  <2>5. Cardinality(below[x]) # 0 BY <2>2, <2>4, FS_EmptySet
  <2>6. QED BY <2>2, <2>3, <2>5, <1>1
<1>3. ASSUME NEW x \in S, NEW z \in S, rank[x] = rank[z] PROVE x = z
  <2>1. CASE f[x] <= f[z]
    <3>1. below[x] \in SUBSET below[z] BY <2>1
    <3>2. IsFiniteSet(below[z]) /\ Cardinality(below[x]) = Cardinality(below[z]) BY <1>2, <1>3
    <3>3. z \in below[z] OBVIOUS
    <3>4. below[z] = below[x]
      BY <3>1, <3>2, FS_Subset
    <3>5. f[z] <= f[x] BY <3>3, <3>4
    <3>6. QED BY <3>5, <2>1
  <2>2. CASE f[z] <= f[x]
    <3>1. below[z] \in SUBSET below[x] BY <2>2
    <3>2. IsFiniteSet(below[x]) /\ Cardinality(below[x]) = Cardinality(below[z]) BY <1>2, <1>3
    <3>3. x \in below[x] OBVIOUS
    <3>4. below[z] = below[x]
      BY <3>1, <3>2, FS_Subset
    <3>5. f[x] <= f[z] BY <3>3, <3>4
    <3>6. QED BY <3>5, <2>2
  <2>3. f[x] \in Nat /\ f[z] \in Nat OBVIOUS
  <2>4. QED BY <2>1, <2>2, <2>3
<1>4. ASSUME NEW n \in 1..Cardinality(S) PROVE \E x \in S : rank[x] = n
  <2>1. rank \in [S -> 1..Cardinality(S)]
    <3>1. \A x \in S : rank[x] \in 1..Cardinality(S) BY <1>2
    <3>2. QED BY <3>1
  <2>2. rank \in Injection(S, 1..Cardinality(S)) 
    <3>1. QED BY <2>1, <1>3 DEF Injection, IsInjective
  <2>3. IsFiniteSet(1..Cardinality(S)) /\ Cardinality(1..Cardinality(S)) = Cardinality(S)
    BY <1>1, FS_Interval
  <2>4. rank \in Surjection(S, 1..Cardinality(S))
    <3>1. QED BY <2>2, <2>3, FS_Injection
  <2>5. QED BY <2>4 DEF Surjection
<1>5. QED BY <1>1, <1>2, <1>3, <1>4

\* The member with the largest key.
LEMMA LargestKey ==
  ASSUME NEW S, IsFiniteSet(S), S # {}, NEW f \in [S -> Nat], \A x, y \in S : f[x] = f[y] => x = y
  PROVE  \E x \in S : \A y \in S : f[y] <= f[x]
<1> DEFINE below == [x \in S |-> {y \in S : f[y] <= f[x]}]
           rank == [x \in S |-> Cardinality(below[x])]
<1>1. Cardinality(S) \in Nat /\ Cardinality(S) # 0 BY FS_CardinalityType, FS_EmptySet
<1>2. below \in [S -> SUBSET S] /\ \A x, y \in S : y \in below[x] <=> f[y] <= f[x] OBVIOUS
<1>3. rank \in [S -> Nat] /\ \A x \in S : rank[x] = Cardinality(below[x])
  <2> HIDE DEF below
  <2>1. \A x \in S : below[x] \in SUBSET S BY <1>2
  <2>2. \A x \in S : Cardinality(below[x]) \in Nat BY <2>1, FS_Subset, FS_CardinalityType
  <2>3. QED BY <2>2
<1> HIDE DEF below, rank
<1>4. PICK x \in S : rank[x] = Cardinality(S) BY <1>1, <1>2, <1>3, Ranks
<1>5. below[x] \in SUBSET S /\ Cardinality(below[x]) = Cardinality(S) BY <1>2, <1>3, <1>4
<1>6. below[x] = S BY <1>5, FS_Subset
<1>7. QED BY <1>2, <1>6

\* The largest of finitely many numbers.
LEMMA MaxOfFinite ==
  ASSUME NEW S, IsFiniteSet(S), S # {}
  PROVE  S \subseteq Nat => Max(S) \in S /\ \A x \in S : x <= Max(S)
<1>1. SUFFICES ASSUME S \subseteq Nat PROVE Max(S) \in S /\ \A x \in S : x <= Max(S) OBVIOUS
<1> DEFINE f == [x \in S |-> x]
<1>2. f \in [S -> Nat] /\ \A x, y \in S : f[x] = f[y] => x = y BY <1>1
<1>3. \E x \in S : \A y \in S : f[y] <= f[x]
  <2> HIDE DEF f
  <2>1. QED BY <1>2, LargestKey
<1>4. \E x \in S : \A y \in S : x >= y BY <1>1, <1>3
<1>5. QED BY <1>1, <1>4 DEF Max

\* A new position is after all others.
LEMMA NextPosition ==
  ASSUME IInv, NEW c \in Collection
  PROVE  MaxPosition(c) \in Nat /\ \A i \in ItemsIn(c) : i.position < MaxPosition(c) + 1
<1> DEFINE P == {i.position : i \in ItemsIn(c)}
           S == {0} \cup P
<1>1. ItemsIn(c) \in SUBSET items BY DEF ItemsIn
<1>2. IsFiniteSet(ItemsIn(c)) BY <1>1, FS_Subset DEF IInv, RowsOK
<1>3. IsFiniteSet(P)
  <2> DEFINE g == [i \in ItemsIn(c) |-> i.position]
  <2>1. g \in Surjection(ItemsIn(c), P) BY DEF Surjection
  <2> HIDE DEF g
  <2>2. QED BY <2>1, <1>2, FS_Surjection
<1>4. IsFiniteSet(S) BY <1>3, FS_Union, FS_Singleton
<1>5. S \subseteq Nat BY <1>1, Shapes
<1>6. S # {} OBVIOUS
<1>7. \A i \in ItemsIn(c) : i.position \in S OBVIOUS
<1>8. MaxPosition(c) = Max(S) BY DEF MaxPosition
<1> HIDE DEF S
<1>9. Max(S) \in S /\ \A x \in S : x <= Max(S) BY <1>4, <1>5, <1>6, MaxOfFinite
<1>10. MaxPosition(c) \in Nat BY <1>5, <1>8, <1>9
<1>11. ASSUME NEW i \in ItemsIn(c) PROVE i.position < MaxPosition(c) + 1
  <2>1. i.position \in S /\ i.position \in Nat BY <1>5, <1>7
  <2>2. i.position <= MaxPosition(c) BY <2>1, <1>8, <1>9
  <2>3. QED BY <2>1, <2>2, <1>10
<1>12. QED BY <1>10, <1>11

\* The places in the table of items, when a request begins, goes on or ends.
LEMMA SlotsKeep ==
  ASSUME IInv, lastItem' = lastItem, NEW r \in Request, NEW t \in Transactions,
         req' = [req EXCEPT ![r] = t],
         t.op \in {"add", "toggle"} => req[r].op \in {"add", "toggle"}
  PROVE  SlotsOK'
<1>1. Inserting \in SUBSET Request BY DEF Inserting
<1>2. IsFiniteSet(Inserting) BY <1>1, FS_Subset, CollectionsAssumption
<1>3. Inserting' \in SUBSET Inserting BY Shapes DEF Inserting
<1>4. Cardinality(Inserting') <= Cardinality(Inserting) /\ IsFiniteSet(Inserting') BY <1>2, <1>3, FS_Subset
<1>5. Cardinality(Inserting') \in Nat /\ Cardinality(Inserting) \in Nat BY <1>2, <1>4, FS_CardinalityType
<1>6. lastItem + Cardinality(Inserting) <= MaxItems BY DEF IInv, SlotsOK
<1>7. lastItem + Cardinality(Inserting') <= MaxItems BY <1>4, <1>5, <1>6, Shapes
<1>8. QED BY <1>7 DEF SlotsOK

\* A place is taken.
LEMMA SlotsTaken ==
  ASSUME IInv, SomeItemLeft, lastItem' = lastItem, NEW r \in Request, NEW t \in Transactions,
         req' = [req EXCEPT ![r] = t]
  PROVE  SlotsOK'
<1>1. Inserting \in SUBSET Request BY DEF Inserting
<1>2. IsFiniteSet(Inserting) BY <1>1, FS_Subset, CollectionsAssumption
<1>3. Inserting' \in SUBSET (Inserting \cup {r}) BY Shapes DEF Inserting
<1>4. IsFiniteSet(Inserting \cup {r})
      /\ Cardinality(Inserting \cup {r}) = IF r \in Inserting THEN Cardinality(Inserting)
                                           ELSE Cardinality(Inserting) + 1
  BY <1>2, FS_AddElement
<1>5. Cardinality(Inserting) \in Nat BY <1>2, FS_CardinalityType
<1>6. Cardinality(Inserting \cup {r}) <= Cardinality(Inserting) + 1 BY <1>4, <1>5
<1>7. Cardinality(Inserting') <= Cardinality(Inserting \cup {r}) /\ IsFiniteSet(Inserting')
  BY <1>3, <1>4, FS_Subset
<1>8. Cardinality(Inserting') \in Nat /\ Cardinality(Inserting \cup {r}) \in Nat
  BY <1>4, <1>7, FS_CardinalityType
<1>9. lastItem + Cardinality(Inserting) < MaxItems BY DEF SomeItemLeft, Inserting
<1>10. lastItem + Cardinality(Inserting') <= MaxItems BY <1>5, <1>6, <1>7, <1>8, <1>9, Shapes
<1>11. QED BY <1>10 DEF SlotsOK

\* A place is used.
LEMMA SlotsUsed ==
  ASSUME IInv, lastItem' = lastItem + 1, NEW r \in Inserting, req' = [req EXCEPT ![r] = Idle]
  PROVE  SlotsOK' /\ lastItem' \in 1..MaxItems
<1>1. Inserting \in SUBSET Request BY DEF Inserting
<1>2. IsFiniteSet(Inserting) BY <1>1, FS_Subset, CollectionsAssumption
<1>3. Inserting' = Inserting \ {r} BY <1>1, Shapes DEF Inserting, Idle
<1>4. Cardinality(Inserting) \in Nat BY <1>2, FS_CardinalityType
<1>5. IsFiniteSet(Inserting \ {r}) /\ Cardinality(Inserting \ {r}) = Cardinality(Inserting) - 1
  BY <1>2, FS_RemoveElement
<1>6. Cardinality(Inserting \ {r}) \in Nat BY <1>5, FS_CardinalityType
<1>7. lastItem + Cardinality(Inserting) <= MaxItems BY DEF IInv, SlotsOK
<1>8. lastItem' + Cardinality(Inserting \ {r}) <= MaxItems /\ lastItem' \in 1..MaxItems
  BY <1>4, <1>5, <1>6, <1>7, Shapes
<1>9. QED BY <1>3, <1>8 DEF SlotsOK

\* What an idle request does when it begins.
LEMMA Begins ==
  ASSUME IInv, NEW r \in Request, NEW t \in Transactions, Begin(r, t), t.locks = {},
         t.op \in FirstOps => t.wants = {CollectionRow(t.collection)},
         SlotsOK', TxOK(r)'
  PROVE  IInv'
<1>1. req' = [req EXCEPT ![r] = t] /\ UNCHANGED tables BY DEF Begin
<1>2. t.op \in FirstOps => \A id \in Nat : ItemRow(id) \in t.locks \cup t.wants => Found(r, t, id)
  BY RowsDistinct
<1>3. QED BY <1>1, <1>2, Quiet

\* An idle transaction and one that has begun are transactions.
LEMMA IdleTyped ==
  /\ Idle \in Transactions
  /\ \A op \in Ops, at \in Statements, wants \in SUBSET Row : Transaction(op, at, wants) \in Transactions
  /\ \A op, at, wants : /\ Transaction(op, at, wants).op = op /\ Transaction(op, at, wants).at = at
                        /\ Transaction(op, at, wants).wants = wants /\ Transaction(op, at, wants).locks = {}
<1>1. MaxItems \in Nat /\ 0 \in 0..MaxItems BY CollectionsAssumption
<1>2. <<>> \in Seq(Nat) OBVIOUS
<1>3. {} \in SUBSET Collection /\ {} \in SUBSET (Nat \X (Nat \ {0})) /\ {} \in SUBSET Row OBVIOUS
<1>4. Idle \in Transactions
  <2> DEFINE M == SUBSET (Nat \X (Nat \ {0}))
             R == SUBSET Row
             O == Seq(Nat)
             I == 0..MaxItems
  <2>1. {} \in M /\ {} \in R /\ <<>> \in O /\ 0 \in I BY <1>1, <1>2, <1>3
  <2> HIDE DEF M, R, O, I
  <2>2. Idle \in [op : Ops, at : Statements, collection : Collection \cup {None},
                  book : Book \cup {None}, item : I, position : Nat, listed : SUBSET Collection,
                  order : O, moves : M, wants : R, locks : R]
    BY <2>1 DEF Idle, Ops, Statements
  <2>3. QED BY <2>2 DEF Transactions, M, R, O, I
<1>5. ASSUME NEW op \in Ops, NEW at \in Statements, NEW wants \in SUBSET Row
      PROVE  Transaction(op, at, wants) \in Transactions
  BY <1>4 DEF Transaction, Transactions
<1>6. \A op, at, wants : /\ Transaction(op, at, wants).op = op /\ Transaction(op, at, wants).at = at
                         /\ Transaction(op, at, wants).wants = wants
                         /\ Transaction(op, at, wants).locks = {}
  BY DEF Transaction, Idle
<1>7. QED BY <1>4, <1>5, <1>6

\* addBook begins.
LEMMA AddBookStep ==
  ASSUME IInv, NEW r \in Request, NEW c \in Collection, NEW b \in Book, AddBook(r, c, b)
  PROVE  IInv'
<1> DEFINE t == [Transaction("add", "lock", {CollectionRow(c)}) EXCEPT
                 !.collection = c, !.book = b, !.position = MaxPosition(c) + 1]
<1>1. SomeItemLeft /\ Begin(r, t) BY DEF AddBook
<1>2. {CollectionRow(c)} \in SUBSET Row BY RowsAreRows
<1>3. t \in Transactions
  <2>1. Transaction("add", "lock", {CollectionRow(c)}) \in Transactions BY <1>2, IdleTyped DEF Ops, Statements
  <2>2. MaxPosition(c) + 1 \in Nat BY NextPosition
  <2>3. QED BY <2>1, <2>2 DEF Transactions
<1>4. t.op = "add" /\ t.at = "lock" /\ t.collection = c /\ t.book = b
      /\ t.wants = {CollectionRow(c)} /\ t.locks = {} /\ t.position = MaxPosition(c) + 1
  BY DEF Transaction, Idle
<1> HIDE DEF t
<1>5. req' = [req EXCEPT ![r] = t] /\ UNCHANGED tables BY <1>1 DEF Begin
<1>6. SlotsOK' BY <1>1, <1>3, <1>5, SlotsTaken DEF tables
<1>7. req'[r] = t BY <1>5, Shapes
<1>8. TxOK(r)'
  BY <1>4, <1>7, NextPosition, RowsDistinct
  DEF TxOK, StageOK, Stages, WantsOK, LocksOK, InsertOK, DeleteOK, ReorderOK, MovesOK, CollectionOK,
      BookOK, CreateOK, At, HasCollection
<1>9. QED BY <1>1, <1>3, <1>4, <1>6, <1>8, Begins

\* toggleFavorite begins.
LEMMA ToggleFavoriteStep ==
  ASSUME IInv, NEW r \in Request, NEW c \in Collection, NEW b \in Book, ToggleFavorite(r, c, b)
  PROVE  IInv'
<1> DEFINE t == [Transaction("toggle", "lock", {CollectionRow(c)}) EXCEPT !.collection = c, !.book = b]
<1>1. Begin(r, t) /\ req[r].op = "none" BY DEF ToggleFavorite, Begin
<1>2. SomeItemLeft /\ c \in Favorites BY DEF ToggleFavorite
<1>3. {CollectionRow(c)} \in SUBSET Row BY RowsAreRows
<1>4. t \in Transactions
  <2>1. Transaction("toggle", "lock", {CollectionRow(c)}) \in Transactions BY <1>3, IdleTyped DEF Ops, Statements
  <2>2. QED BY <2>1 DEF Transactions
<1>5. t.op = "toggle" /\ t.at = "lock" /\ t.collection = c /\ t.book = b
      /\ t.wants = {CollectionRow(c)} /\ t.locks = {}
  BY DEF Transaction, Idle
<1> HIDE DEF t
<1>6. req' = [req EXCEPT ![r] = t] /\ UNCHANGED tables BY <1>1 DEF Begin
<1>7. SlotsOK'
  BY <1>4, <1>6, <1>2, SlotsTaken DEF tables
<1>8. req'[r] = t /\ items' = items /\ lastItem' = lastItem /\ book' = book /\ collection' = collection /\ raced' = raced
  BY <1>6, Shapes DEF tables
<1>9. TxOK(r)'
  BY <1>5, <1>8, <1>2, RowsDistinct
  DEF TxOK, StageOK, Stages, WantsOK, LocksOK, InsertOK, DeleteOK, ReorderOK, MovesOK, CollectionOK,
      BookOK, CreateOK, At, HasCollection
<1>10. QED BY <1>1, <1>4, <1>5, <1>7, <1>9, Begins DEF FirstOps

\* removeBook begins with an item that was seen.
LEMMA RemoveBookStep ==
  ASSUME IInv, NEW r \in Request, NEW c \in Collection, NEW i \in items, RemoveBook(r, c, i)
  PROVE  IInv'
<1> DEFINE t == [Transaction("remove", "delete", ItemRows({i})) EXCEPT
                 !.collection = c, !.book = i.book, !.item = i.id]
<1>1. Begin(r, t) /\ req[r].op = "none" BY DEF RemoveBook, Begin
<1>2. i.id \in 1..MaxItems /\ i.book \in Book /\ i.collection = c BY Shapes DEF RemoveBook, ItemsIn
<1>3. ItemRows({i}) = {ItemRow(i.id)} BY DEF ItemRows, ItemRow
<1>4. {ItemRow(i.id)} \in SUBSET Row BY <1>2, RowsAreRows DEF AllItemRows
<1>5. t \in Transactions
  <2>1. Transaction("remove", "delete", ItemRows({i})) \in Transactions
    BY <1>4, <1>3, IdleTyped DEF Ops, Statements
  <2>2. i.id \in 0..MaxItems BY <1>2
  <2>3. QED BY <2>1, <2>2, <1>2 DEF Transactions
<1>6. t.op = "remove" /\ t.at = "delete" /\ t.collection = c /\ t.book = i.book /\ t.item = i.id
      /\ t.wants = {ItemRow(i.id)} /\ t.locks = {}
  BY <1>3 DEF Transaction, Idle
<1> HIDE DEF t
<1>7. req' = [req EXCEPT ![r] = t] /\ UNCHANGED tables BY <1>1 DEF Begin
<1>8. SlotsOK'
  BY <1>1, <1>5, <1>6, <1>7, SlotsKeep DEF tables
<1>9. req'[r] = t /\ items' = items /\ lastItem' = lastItem /\ book' = book /\ collection' = collection /\ raced' = raced
  BY <1>7, Shapes DEF tables
<1>10. TxOK(r)'
  <2>1. i.id <= lastItem /\ \A j \in WithId(i.id) : j.collection = c /\ j.book = i.book
    BY <1>2 DEF IInv, RowsOK, WithId
  <2>2. WithId(i.id)' = WithId(i.id) BY <1>9 DEF WithId
  <2>3. QED
    BY <1>6, <1>9, <1>2, <2>1, <2>2, RowsDistinct
    DEF TxOK, StageOK, Stages, WantsOK, LocksOK, InsertOK, DeleteOK, ReorderOK, MovesOK, CollectionOK,
        BookOK, CreateOK, At, HasCollection
<1>11. QED BY <1>1, <1>5, <1>6, <1>8, <1>10, Begins DEF FirstOps

\* reorder begins with items that were seen.
LEMMA ReorderStep ==
  ASSUME IInv, NEW r \in Request, NEW c \in Collection, NEW ids \in SUBSET {i.id : i \in ItemsIn(c)},
         NEW order \in SetToSeqs(ids), Reorder(r, c, order)
  PROVE  IInv'
<1> DEFINE t == [Transaction("reorder", "lock", {CollectionRow(c)}) EXCEPT !.collection = c, !.order = order]
<1>1. Begin(r, t) /\ req[r].op = "none" BY DEF Reorder, Begin
<1>2. c \notin Favorites BY DEF Reorder
<1>3. IsFiniteSet(ids)
  <2>1. ids \in SUBSET (1..MaxItems) BY Shapes DEF ItemsIn
  <2>2. IsFiniteSet(1..MaxItems) BY Shapes, FS_Interval
  <2>3. QED BY <2>1, <2>2, FS_Subset
<1>4. Cardinality(ids) \in Nat BY <1>3, FS_CardinalityType
<1>5. order \in [1..Cardinality(ids) -> ids]
       /\ \A m, n \in 1..Cardinality(ids) : order[m] = order[n] => m = n
  BY DEF SetToSeqs
<1>6. \A id \in ids : id \in Nat /\ id <= lastItem /\ \A i \in items : i.id = id => i.collection = c
  <2>1. \A i \in ItemsIn(c) : i \in items /\ i.collection = c BY DEF ItemsIn
  <2>2. QED BY <2>1, Shapes DEF IInv, RowsOK
<1>7. order \in Seq(Nat)
  <2>1. order \in [1..Cardinality(ids) -> Nat] BY <1>5, <1>6
  <2>2. QED BY <2>1, <1>4
<1>8. DOMAIN order = 1..Cardinality(ids) /\ ToSet(order) \subseteq ids BY <1>5 DEF ToSet
<1>9. {CollectionRow(c)} \in SUBSET Row BY RowsAreRows
<1>10. t \in Transactions
  <2>1. Transaction("reorder", "lock", {CollectionRow(c)}) \in Transactions
    BY <1>9, IdleTyped DEF Ops, Statements
  <2>2. QED BY <2>1, <1>7 DEF Transactions
<1>11. t.op = "reorder" /\ t.at = "lock" /\ t.collection = c /\ t.order = order
      /\ t.wants = {CollectionRow(c)} /\ t.locks = {}
  BY DEF Transaction, Idle
<1> HIDE DEF t
<1>12. req' = [req EXCEPT ![r] = t] /\ UNCHANGED tables BY <1>1 DEF Begin
<1>13. SlotsOK'
  BY <1>1, <1>10, <1>11, <1>12, SlotsKeep DEF tables
<1>14. req'[r] = t /\ items' = items /\ lastItem' = lastItem /\ book' = book /\ collection' = collection /\ raced' = raced
  BY <1>12, Shapes DEF tables
<1>15. TxOK(r)'
  <2>1. Named(r)' = ToSet(order) BY <1>11, <1>14 DEF Named
  <2>2. ReorderOK(r)' BY <2>1, <1>11, <1>14, <1>5, <1>6, <1>8 DEF ReorderOK
  <2>3. StageOK(r)' /\ WantsOK(r)' /\ LocksOK(r)'
    BY <1>11, <1>14, <1>2, RowsDistinct DEF StageOK, Stages, WantsOK, LocksOK, At, HasCollection
  <2>4. InsertOK(r)' /\ DeleteOK(r)' /\ MovesOK(r)' /\ CollectionOK(r)' /\ BookOK(r)' /\ CreateOK(r)'
    BY <1>11, <1>14 DEF InsertOK, DeleteOK, MovesOK, CollectionOK, BookOK, CreateOK, At, HasCollection
  <2>5. QED BY <2>2, <2>3, <2>4 DEF TxOK
<1>16. QED BY <1>1, <1>10, <1>11, <1>13, <1>15, Begins DEF FirstOps

\* createUserCollection begins.
LEMMA CreateCollectionStep ==
  ASSUME IInv, NEW r \in Request, CreateCollection(r)
  PROVE  IInv'
<1> DEFINE t == Transaction("create", "count", {UserCollectionsLock})
<1>1. Begin(r, t) /\ req[r].op = "none" BY DEF CreateCollection, Begin
<1>2. {UserCollectionsLock} \in SUBSET Row BY RowsAreRows
<1>3. t \in Transactions
  BY <1>2, IdleTyped DEF Ops, Statements
<1>4. t.op = "create" /\ t.at = "count" /\ t.wants = {UserCollectionsLock} /\ t.locks = {}
  BY DEF Transaction, Idle
<1> HIDE DEF t
<1>5. req' = [req EXCEPT ![r] = t] /\ UNCHANGED tables BY <1>1 DEF Begin
<1>6. SlotsOK'
  BY <1>1, <1>3, <1>4, <1>5, SlotsKeep DEF tables
<1>7. req'[r] = t /\ items' = items /\ lastItem' = lastItem /\ book' = book /\ collection' = collection /\ raced' = raced
  BY <1>5, Shapes DEF tables
<1>8. TxOK(r)'
  BY <1>4, <1>7, RowsDistinct
  DEF TxOK, StageOK, Stages, WantsOK, LocksOK, InsertOK, DeleteOK, ReorderOK, MovesOK, CollectionOK,
      BookOK, CreateOK, At, HasCollection
<1>9. QED BY <1>1, <1>3, <1>4, <1>6, <1>8, Begins DEF FirstOps

\* delete begins.
LEMMA DeleteCollectionStep ==
  ASSUME IInv, NEW r \in Request, NEW c \in Collection, DeleteCollection(r, c)
  PROVE  IInv'
<1> DEFINE t == [Transaction("deleteCollection", "lock", {CollectionRow(c)}) EXCEPT !.collection = c]
<1>1. Begin(r, t) /\ req[r].op = "none" BY DEF DeleteCollection, Begin
<1>2. c \notin Favorites BY DEF DeleteCollection
<1>3. {CollectionRow(c)} \in SUBSET Row BY RowsAreRows
<1>4. t \in Transactions
  <2>1. Transaction("deleteCollection", "lock", {CollectionRow(c)}) \in Transactions
    BY <1>3, IdleTyped DEF Ops, Statements
  <2>2. QED BY <2>1 DEF Transactions
<1>5. t.op = "deleteCollection" /\ t.at = "lock" /\ t.collection = c
      /\ t.wants = {CollectionRow(c)} /\ t.locks = {}
  BY DEF Transaction, Idle
<1> HIDE DEF t
<1>6. req' = [req EXCEPT ![r] = t] /\ UNCHANGED tables BY <1>1 DEF Begin
<1>7. SlotsOK'
  BY <1>1, <1>4, <1>5, <1>6, SlotsKeep DEF tables
<1>8. req'[r] = t /\ items' = items /\ lastItem' = lastItem /\ book' = book /\ collection' = collection /\ raced' = raced
  BY <1>6, Shapes DEF tables
<1>9. TxOK(r)'
  BY <1>5, <1>8, <1>2, RowsDistinct
  DEF TxOK, StageOK, Stages, WantsOK, LocksOK, InsertOK, DeleteOK, ReorderOK, MovesOK, CollectionOK,
      BookOK, CreateOK, At, HasCollection
<1>10. QED BY <1>1, <1>4, <1>5, <1>7, <1>9, Begins DEF FirstOps

\* deleteById begins: it lists the collections of the book.
LEMMA DeleteBookStep ==
  ASSUME IInv, NEW r \in Request, NEW b \in Book, DeleteBook(r, b)
  PROVE  IInv'
<1> DEFINE t == [Transaction("deleteBook", "book", WholeBook(b)) EXCEPT
                 !.book = b, !.listed = {i.collection : i \in ItemsOf(b)}]
<1>1. Begin(r, t) /\ req[r].op = "none" BY DEF DeleteBook, Begin
<1>2. {i.collection : i \in ItemsOf(b)} \in SUBSET Collection BY Shapes DEF ItemsOf
<1>3. WholeBook(b) \in SUBSET Row BY RowsAreRows
<1>4. t \in Transactions
  <2>1. Transaction("deleteBook", "book", WholeBook(b)) \in Transactions
    BY <1>3, IdleTyped DEF Ops, Statements
  <2>2. QED BY <2>1, <1>2 DEF Transactions
<1>5. t.op = "deleteBook" /\ t.at = "book" /\ t.book = b
      /\ t.listed = {i.collection : i \in ItemsOf(b)} /\ t.wants = WholeBook(b) /\ t.locks = {}
  BY DEF Transaction, Idle
<1> HIDE DEF t
<1>6. req' = [req EXCEPT ![r] = t] /\ UNCHANGED tables BY <1>1 DEF Begin
<1>7. SlotsOK'
  BY <1>1, <1>4, <1>5, <1>6, SlotsKeep DEF tables
<1>8. req'[r] = t /\ items' = items /\ lastItem' = lastItem /\ book' = book /\ collection' = collection /\ raced' = raced
  BY <1>6, Shapes DEF tables
<1>9. TxOK(r)'
  <2>1. ItemsOf(b)' = ItemsOf(b) BY <1>8 DEF ItemsOf
  <2>2. \A i \in ItemsOf(b) : collection[i.collection].state = "live" BY DEF IInv, RowsOK, Live, ItemsOf
  <2>3. BookOK(r)' BY <1>5, <1>8, <2>1, <2>2 DEF BookOK
  <2>4. StageOK(r)' /\ WantsOK(r)' /\ LocksOK(r)'
    BY <1>5, <1>8, RowsDistinct DEF StageOK, Stages, WantsOK, LocksOK, At, HasCollection
  <2>5. InsertOK(r)' /\ DeleteOK(r)' /\ ReorderOK(r)' /\ MovesOK(r)' /\ CollectionOK(r)' /\ CreateOK(r)'
    BY <1>5, <1>8 DEF InsertOK, DeleteOK, ReorderOK, MovesOK, CollectionOK, CreateOK, At, HasCollection
  <2>6. QED BY <2>3, <2>4, <2>5 DEF TxOK
<1>10. QED BY <1>1, <1>4, <1>5, <1>7, <1>9, Begins DEF FirstOps

-----------------------------------------------------------------------------
(***************************************************************************)
(* Statements that read and lock                                           *)
(***************************************************************************)

\* The end of a transaction that changed nothing.
LEMMA RollbackStep ==
  ASSUME IInv, NEW r \in Request, Rollback(r)
  PROVE  IInv'
<1>1. req' = [req EXCEPT ![r] = Idle] /\ UNCHANGED tables BY DEF Rollback, End
<1>2. Idle \in Transactions BY IdleTyped
<1>3. Idle.op = "none" /\ Idle.at = "idle" /\ Idle.locks = {} /\ Idle.wants = {} BY DEF Idle
<1>4. req'[r] = Idle BY <1>1, Shapes
<1>5. SlotsOK' BY <1>1, <1>2, <1>3, SlotsKeep DEF tables
<1>6. TxOK(r)'
  BY <1>3, <1>4
  DEF TxOK, StageOK, Stages, WantsOK, LocksOK, InsertOK, DeleteOK, ReorderOK, MovesOK, CollectionOK,
      BookOK, CreateOK, At, HasCollection
<1>7. QED BY <1>1, <1>2, <1>3, <1>5, <1>6, Quiet DEF FirstOps

\* The transaction of r after GoTo.
After(r, at, wants) ==
  [req[r] EXCEPT !.at = at, !.locks = req[r].locks \cup req[r].wants, !.wants = wants]

\* The fields of the transaction that has gone on.
LEMMA WentOn ==
  ASSUME IInv, NEW r \in Request, NEW at \in Statements, NEW wants \in SUBSET Row, GoTo(r, at, wants)
  PROVE  /\ After(r, at, wants) \in Transactions
         /\ req' = [req EXCEPT ![r] = After(r, at, wants)] /\ req'[r] = After(r, at, wants)
         /\ req'[r].op = req[r].op /\ req'[r].at = at
         /\ req'[r].collection = req[r].collection /\ req'[r].book = req[r].book
         /\ req'[r].item = req[r].item /\ req'[r].position = req[r].position
         /\ req'[r].listed = req[r].listed /\ req'[r].order = req[r].order
         /\ req'[r].moves = req[r].moves /\ req'[r].wants = wants
         /\ req'[r].locks = req[r].locks \cup req[r].wants
<1> DEFINE t == After(r, at, wants)
<1>1. req[r] \in Transactions BY Shapes
<1>2. t \in Transactions BY <1>1 DEF After, Transactions
<1>3. /\ t.op = req[r].op /\ t.at = at
      /\ t.collection = req[r].collection /\ t.book = req[r].book
      /\ t.item = req[r].item /\ t.position = req[r].position
      /\ t.listed = req[r].listed /\ t.order = req[r].order
      /\ t.moves = req[r].moves /\ t.wants = wants
      /\ t.locks = req[r].locks \cup req[r].wants
  BY <1>1 DEF After, Transactions
<1>4. req' = [req EXCEPT ![r] = t] BY DEF GoTo, After
<1>5. req'[r] = t BY <1>4, Shapes
<1> HIDE DEF t
<1>6. QED BY <1>2, <1>3, <1>4, <1>5 DEF t

\* What a statement has to show that takes the rows it needs and names the next ones.
LEMMA GoesOn ==
  ASSUME IInv, NEW r \in Request, NEW at \in Statements, NEW wants \in SUBSET Row,
         Blockers(r) = {}, GoTo(r, at, wants), UNCHANGED tables,
         req[r].op \in FirstOps => \A id \in Nat : ItemRow(id) \in wants =>
           /\ CollectionRow(req[r].collection) \in req[r].locks \cup req[r].wants
           /\ \E i \in items : i.id = id /\ i.collection = req[r].collection,
         TxOK(r)'
  PROVE  IInv'
<1> DEFINE t == After(r, at, wants)
<1>1. /\ t \in Transactions /\ req' = [req EXCEPT ![r] = t] /\ t.op = req[r].op
      /\ t.collection = req[r].collection /\ t.wants = wants
      /\ t.locks = req[r].locks \cup req[r].wants
  BY WentOn
<1> HIDE DEF t
<1>2. ASSUME t.op \in FirstOps, NEW id \in Nat, ItemRow(id) \in t.locks \cup t.wants
      PROVE  Found(r, t, id)
  <2>1. CASE ItemRow(id) \in req[r].locks \cup req[r].wants
    BY <2>1, <1>1, <1>2 DEF Found, Touches, CollectionFirst, FirstOps
  <2>2. CASE ItemRow(id) \in wants
    BY <2>2, <1>1, <1>2 DEF Found
  <2>3. QED BY <2>1, <2>2, <1>1, <1>2
<1>3. SlotsOK' BY <1>1, SlotsKeep DEF tables
<1>4. QED BY <1>1, <1>2, <1>3, Quiet

\* The tables that a statement leaves alone.
LEMMA TablesSame ==
  ASSUME UNCHANGED tables
  PROVE  /\ book' = book /\ collection' = collection /\ items' = items /\ lastItem' = lastItem /\ raced' = raced
         /\ \A c : ItemsIn(c)' = ItemsIn(c) /\ Live(c)' = Live(c)
         /\ \A b : ItemsOf(b)' = ItemsOf(b)
         /\ \A id : WithId(id)' = WithId(id)
         /\ UserCollections' = UserCollections
BY DEF tables, ItemsIn, Live, ItemsOf, WithId, UserCollections

\* addBook has the row of the collection.
LEMMA LockForAddStep ==
  ASSUME IInv, NEW r \in Request, LockForAdd(r)
  PROVE  IInv'
<1> DEFINE c == req[r].collection
           b == req[r].book
           found == Conflicting(r, c, b, req[r].position)
           wants == {BookKey(b, r)} \cup ItemRows(found)
<1>1. At(r, "add", "lock") /\ Blockers(r) = {} BY DEF LockForAdd, Runs
<1>2. StageOK(r) /\ WantsOK(r) /\ LocksOK(r) /\ InsertOK(r) BY DEF IInv, TxOK
<1>3. c \in Collection /\ b \in Book /\ req[r].locks = {} /\ req[r].wants = {CollectionRow(c)}
      /\ req[r].position > 0
  BY <1>1, <1>2 DEF StageOK, WantsOK, LocksOK, InsertOK, At
<1>4. CASE Rollback(r) BY <1>4, RollbackStep
<1>5. CASE Live(c) /\ collection[c].bookCount < BookLimit[c] /\ GoTo(r, "insert", wants) /\ UNCHANGED tables
  <2>1. \A i \in found : i \in items /\ i.collection = c BY DEF Conflicting, ItemsIn
  <2>2. \A i \in found : i.id \in 0..MaxItems BY <2>1, Shapes
  <2>3. ItemRows(found) \subseteq AllItemRows /\ \A id : ItemRow(id) \in ItemRows(found) <=> \E i \in found : i.id = id
    BY <2>2, RowsOfItems, Shapes
  <2> HIDE DEF found
  <2>4. wants \in SUBSET Row /\ BookKey(b, r) \in wants /\ wants \subseteq {BookKey(b, r)} \cup AllItemRows
    BY <2>3, <1>3, RowsAreRows
  <2>5. \A id : ItemRow(id) \in wants => \E i \in items : i.id = id /\ i.collection = c
    BY <2>1, <2>3, RowsDistinct
  <2> HIDE DEF wants
  <2>6. "insert" \in Statements BY DEF Statements
  <2>7. /\ req'[r].op = "add" /\ req'[r].at = "insert" /\ req'[r].collection = c /\ req'[r].book = b
        /\ req'[r].position = req[r].position /\ req'[r].wants = wants
        /\ req'[r].locks = {CollectionRow(c)}
    BY <1>1, <1>3, <1>5, <2>4, <2>6, WentOn DEF At
  <2>8. StageOK(r)' /\ WantsOK(r)' /\ LocksOK(r)'
    BY <1>3, <2>4, <2>7, RowsDistinct DEF StageOK, Stages, WantsOK, LocksOK, At, HasCollection
  <2>9. InsertOK(r)' /\ DeleteOK(r)' /\ ReorderOK(r)' /\ MovesOK(r)' /\ CollectionOK(r)' /\ BookOK(r)' /\ CreateOK(r)'
    BY <1>3, <1>5, <2>7, TablesSame
    DEF InsertOK, DeleteOK, ReorderOK, MovesOK, CollectionOK, BookOK, CreateOK, At, HasCollection
  <2>10. TxOK(r)' BY <2>8, <2>9 DEF TxOK
  <2>11. QED BY <1>1, <1>3, <1>5, <2>4, <2>5, <2>6, <2>10, GoesOn
<1>6. QED BY <1>4, <1>5 DEF LockForAdd

\* A favourite has been inserted.
LEMMA FavoriteGoes ==
  ASSUME IInv, NEW r \in Request, At(r, "add", "insert"), Blockers(r) = {},
         book[req[r].book].exists, req[r].collection \in Favorites,
         Conflicting(r, req[r].collection, req[r].book, req[r].position) = {},
         GoTo(r, "favorite", {BookRow(req[r].book)}), UNCHANGED tables
  PROVE  IInv'
<1>1. StageOK(r) /\ WantsOK(r) /\ LocksOK(r) /\ InsertOK(r) /\ DeleteOK(r) /\ CollectionOK(r) /\ BookOK(r)
  BY DEF IInv, TxOK
<1>2. req[r].book \in Book /\ \A i \in ItemsIn(req[r].collection) : i.book # req[r].book /\ i.position # req[r].position
  BY <1>1 DEF StageOK, At, Conflicting
<1>3. {BookRow(req[r].book)} \in SUBSET Row BY <1>2, RowsAreRows
<1>4. "favorite" \in Statements /\ req[r].op = "add" /\ req[r].at = "insert" BY DEF Statements, At
<1>5. /\ req'[r].op = "add" /\ req'[r].at = "favorite" /\ req'[r].collection = req[r].collection
      /\ req'[r].book = req[r].book /\ req'[r].item = req[r].item /\ req'[r].position = req[r].position
      /\ req'[r].listed = req[r].listed /\ req'[r].wants = {BookRow(req[r].book)}
      /\ req'[r].locks = req[r].locks \cup req[r].wants
  BY <1>3, <1>4, WentOn
<1>6. StageOK(r)' BY <1>1, <1>2, <1>4, <1>5 DEF StageOK, Stages, At
<1>7. WantsOK(r)' BY <1>2, <1>4, <1>5, RowsDistinct DEF WantsOK, At
<1>8. LocksOK(r)' BY <1>1, <1>2, <1>4, <1>5, RowsDistinct, ItemRowsApart DEF WantsOK, LocksOK, At, HasCollection
<1>9. InsertOK(r)' /\ DeleteOK(r)' /\ ReorderOK(r)' /\ MovesOK(r)' /\ CollectionOK(r)' /\ BookOK(r)' /\ CreateOK(r)'
  BY <1>1, <1>2, <1>4, <1>5, TablesSame
  DEF InsertOK, DeleteOK, ReorderOK, MovesOK, CollectionOK, BookOK, CreateOK, At, HasCollection
<1>10. TxOK(r)' BY <1>6, <1>7, <1>8, <1>9 DEF TxOK
<1>11. req[r].op \in FirstOps => \A id \in Nat : ItemRow(id) \in {BookRow(req[r].book)} =>
        /\ CollectionRow(req[r].collection) \in req[r].locks \cup req[r].wants
        /\ \E i \in items : i.id = id /\ i.collection = req[r].collection
  BY <1>4, RowsDistinct DEF FirstOps
<1>12. QED BY <1>3, <1>4, <1>10, <1>11, GoesOn

\* removeBook has the row of the item, which is there.
LEMMA DeleteItemGoes ==
  ASSUME IInv, NEW r \in Request, At(r, "remove", "delete"), Blockers(r) = {},
         WithId(req[r].item) # {},
         GoTo(r, "count", {CollectionRow(req[r].collection)}), UNCHANGED tables
  PROVE  IInv'
<1>1. StageOK(r) /\ WantsOK(r) /\ LocksOK(r) /\ InsertOK(r) /\ DeleteOK(r) /\ CollectionOK(r) /\ BookOK(r)
  BY DEF IInv, TxOK
<1>2. req[r].collection \in Collection BY <1>1 DEF StageOK, At
<1>3. {CollectionRow(req[r].collection)} \in SUBSET Row BY <1>2, RowsAreRows
<1>4. "count" \in Statements /\ req[r].op = "remove" /\ req[r].at = "delete" BY DEF Statements, At
<1>5. /\ req'[r].op = "remove" /\ req'[r].at = "count" /\ req'[r].collection = req[r].collection
      /\ req'[r].book = req[r].book /\ req'[r].item = req[r].item /\ req'[r].position = req[r].position
      /\ req'[r].listed = req[r].listed /\ req'[r].wants = {CollectionRow(req[r].collection)}
      /\ req'[r].locks = req[r].locks \cup req[r].wants
  BY <1>3, <1>4, WentOn
<1>6. StageOK(r)' BY <1>1, <1>2, <1>4, <1>5 DEF StageOK, Stages, At
<1>7. WantsOK(r)' BY <1>2, <1>4, <1>5, RowsDistinct DEF WantsOK, At
<1>8. LocksOK(r)' BY <1>1, <1>2, <1>4, <1>5, RowsDistinct, ItemRowsApart DEF WantsOK, LocksOK, At, HasCollection
<1>9. InsertOK(r)' /\ DeleteOK(r)' /\ ReorderOK(r)' /\ MovesOK(r)' /\ CollectionOK(r)' /\ BookOK(r)' /\ CreateOK(r)'
  BY <1>1, <1>2, <1>4, <1>5, TablesSame
  DEF InsertOK, DeleteOK, ReorderOK, MovesOK, CollectionOK, BookOK, CreateOK, At, HasCollection
<1>10. TxOK(r)' BY <1>6, <1>7, <1>8, <1>9 DEF TxOK
<1>11. req[r].op \in FirstOps => \A id \in Nat : ItemRow(id) \in {CollectionRow(req[r].collection)} =>
        /\ CollectionRow(req[r].collection) \in req[r].locks \cup req[r].wants
        /\ \E i \in items : i.id = id /\ i.collection = req[r].collection
  BY <1>4, RowsDistinct DEF FirstOps
<1>12. QED BY <1>3, <1>4, <1>10, <1>11, GoesOn

\* A favourite has been removed and the collection counted down.
LEMMA CountRemovedGoes ==
  ASSUME IInv, NEW r \in Request, At(r, "remove", "count"), Blockers(r) = {},
         req[r].collection \in Favorites,
         GoTo(r, "favorite", {BookRow(req[r].book)}), UNCHANGED tables
  PROVE  IInv'
<1>1. StageOK(r) /\ WantsOK(r) /\ LocksOK(r) /\ InsertOK(r) /\ DeleteOK(r) /\ CollectionOK(r) /\ BookOK(r)
  BY DEF IInv, TxOK
<1>2. /\ req[r].book \in Book
      /\ Live(req[r].collection)
  <2>1. req[r].book \in Book BY <1>1 DEF StageOK, At
  <2>2. Live(req[r].collection) BY <1>1 DEF DeleteOK, At, IInv, RowsOK, WithId
  <2>3. QED BY <2>1, <2>2
<1>3. {BookRow(req[r].book)} \in SUBSET Row BY <1>2, RowsAreRows
<1>4. "favorite" \in Statements /\ req[r].op = "remove" /\ req[r].at = "count" BY DEF Statements, At
<1>5. /\ req'[r].op = "remove" /\ req'[r].at = "favorite" /\ req'[r].collection = req[r].collection
      /\ req'[r].book = req[r].book /\ req'[r].item = req[r].item /\ req'[r].position = req[r].position
      /\ req'[r].listed = req[r].listed /\ req'[r].wants = {BookRow(req[r].book)}
      /\ req'[r].locks = req[r].locks \cup req[r].wants
  BY <1>3, <1>4, WentOn
<1>6. StageOK(r)' BY <1>1, <1>2, <1>4, <1>5 DEF StageOK, Stages, At
<1>7. WantsOK(r)' BY <1>2, <1>4, <1>5, RowsDistinct DEF WantsOK, At
<1>8. LocksOK(r)' BY <1>1, <1>2, <1>4, <1>5, RowsDistinct, ItemRowsApart DEF WantsOK, LocksOK, At, HasCollection
<1>9. InsertOK(r)' /\ DeleteOK(r)' /\ ReorderOK(r)' /\ MovesOK(r)' /\ CollectionOK(r)' /\ BookOK(r)' /\ CreateOK(r)'
  BY <1>1, <1>2, <1>4, <1>5, TablesSame
  DEF InsertOK, DeleteOK, ReorderOK, MovesOK, CollectionOK, BookOK, CreateOK, At, HasCollection
<1>10. TxOK(r)' BY <1>6, <1>7, <1>8, <1>9 DEF TxOK
<1>11. req[r].op \in FirstOps => \A id \in Nat : ItemRow(id) \in {BookRow(req[r].book)} =>
        /\ CollectionRow(req[r].collection) \in req[r].locks \cup req[r].wants
        /\ \E i \in items : i.id = id /\ i.collection = req[r].collection
  BY <1>4, RowsDistinct DEF FirstOps
<1>12. QED BY <1>3, <1>4, <1>10, <1>11, GoesOn

\* toggleFavorite has the row of the item it takes away.
LEMMA ToggleOffGoes ==
  ASSUME IInv, NEW r \in Request, At(r, "toggle", "off"), Blockers(r) = {},
         WithId(req[r].item) # {},
         GoTo(r, "less", {BookRow(req[r].book)}), UNCHANGED tables
  PROVE  IInv'
<1>1. StageOK(r) /\ WantsOK(r) /\ LocksOK(r) /\ InsertOK(r) /\ DeleteOK(r) /\ CollectionOK(r) /\ BookOK(r)
  BY DEF IInv, TxOK
<1>2. req[r].book \in Book /\ req[r].item \in Nat BY <1>1, Shapes DEF StageOK, At, Transactions
<1>3. {BookRow(req[r].book)} \in SUBSET Row BY <1>2, RowsAreRows
<1>4. "less" \in Statements /\ req[r].op = "toggle" /\ req[r].at = "off" BY DEF Statements, At
<1>5. /\ req'[r].op = "toggle" /\ req'[r].at = "less" /\ req'[r].collection = req[r].collection
      /\ req'[r].book = req[r].book /\ req'[r].item = req[r].item /\ req'[r].position = req[r].position
      /\ req'[r].listed = req[r].listed /\ req'[r].wants = {BookRow(req[r].book)}
      /\ req'[r].locks = req[r].locks \cup req[r].wants
  BY <1>3, <1>4, WentOn
<1>6. StageOK(r)' BY <1>1, <1>2, <1>4, <1>5 DEF StageOK, Stages, At
<1>7. WantsOK(r)' BY <1>2, <1>4, <1>5, RowsDistinct DEF WantsOK, At
<1>8. LocksOK(r)' BY <1>1, <1>2, <1>4, <1>5, RowsDistinct, ItemRowsApart DEF WantsOK, LocksOK, At, HasCollection
<1>9. InsertOK(r)' /\ DeleteOK(r)' /\ ReorderOK(r)' /\ MovesOK(r)' /\ CollectionOK(r)' /\ BookOK(r)' /\ CreateOK(r)'
  BY <1>1, <1>2, <1>4, <1>5, TablesSame
  DEF InsertOK, DeleteOK, ReorderOK, MovesOK, CollectionOK, BookOK, CreateOK, At, HasCollection
<1>10. TxOK(r)' BY <1>6, <1>7, <1>8, <1>9 DEF TxOK
<1>11. req[r].op \in FirstOps => \A id \in Nat : ItemRow(id) \in {BookRow(req[r].book)} =>
        /\ CollectionRow(req[r].collection) \in req[r].locks \cup req[r].wants
        /\ \E i \in items : i.id = id /\ i.collection = req[r].collection
  BY <1>4, RowsDistinct DEF FirstOps
<1>12. QED BY <1>3, <1>4, <1>10, <1>11, GoesOn

\* toggleFavorite has the key of the book.
LEMMA ToggleOnGoes ==
  ASSUME IInv, NEW r \in Request, At(r, "toggle", "on"), Blockers(r) = {},
         book[req[r].book].exists,
         GoTo(r, "more", {BookRow(req[r].book)}), UNCHANGED tables
  PROVE  IInv'
<1>1. StageOK(r) /\ WantsOK(r) /\ LocksOK(r) /\ InsertOK(r) /\ DeleteOK(r) /\ CollectionOK(r) /\ BookOK(r)
  BY DEF IInv, TxOK
<1>2. req[r].book \in Book BY <1>1 DEF StageOK, At
<1>3. {BookRow(req[r].book)} \in SUBSET Row BY <1>2, RowsAreRows
<1>4. "more" \in Statements /\ req[r].op = "toggle" /\ req[r].at = "on" BY DEF Statements, At
<1>5. /\ req'[r].op = "toggle" /\ req'[r].at = "more" /\ req'[r].collection = req[r].collection
      /\ req'[r].book = req[r].book /\ req'[r].item = req[r].item /\ req'[r].position = req[r].position
      /\ req'[r].listed = req[r].listed /\ req'[r].wants = {BookRow(req[r].book)}
      /\ req'[r].locks = req[r].locks \cup req[r].wants
  BY <1>3, <1>4, WentOn
<1>6. StageOK(r)' BY <1>1, <1>2, <1>4, <1>5 DEF StageOK, Stages, At
<1>7. WantsOK(r)' BY <1>2, <1>4, <1>5, RowsDistinct DEF WantsOK, At
<1>8. LocksOK(r)' BY <1>1, <1>2, <1>4, <1>5, RowsDistinct, ItemRowsApart DEF WantsOK, LocksOK, At, HasCollection
<1>9. InsertOK(r)' /\ DeleteOK(r)' /\ ReorderOK(r)' /\ MovesOK(r)' /\ CollectionOK(r)' /\ BookOK(r)' /\ CreateOK(r)'
  BY <1>1, <1>2, <1>4, <1>5, TablesSame
  DEF InsertOK, DeleteOK, ReorderOK, MovesOK, CollectionOK, BookOK, CreateOK, At, HasCollection
<1>10. TxOK(r)' BY <1>6, <1>7, <1>8, <1>9 DEF TxOK
<1>11. req[r].op \in FirstOps => \A id \in Nat : ItemRow(id) \in {BookRow(req[r].book)} =>
        /\ CollectionRow(req[r].collection) \in req[r].locks \cup req[r].wants
        /\ \E i \in items : i.id = id /\ i.collection = req[r].collection
  BY <1>4, RowsDistinct DEF FirstOps
<1>12. QED BY <1>3, <1>4, <1>10, <1>11, GoesOn

\* createUserCollection has the lock of its user and is below the limit.
LEMMA CountCollectionsGoes ==
  ASSUME IInv, NEW r \in Request, At(r, "create", "count"), Blockers(r) = {},
         Cardinality(UserCollections) < UserLimit,
         GoTo(r, "insert", {}), UNCHANGED tables
  PROVE  IInv'
<1>1. StageOK(r) /\ WantsOK(r) /\ LocksOK(r) /\ InsertOK(r) /\ DeleteOK(r) /\ CollectionOK(r) /\ BookOK(r)
  BY DEF IInv, TxOK
<1>2. Cardinality(UserCollections) < UserLimit OBVIOUS
<1>3. {} \in SUBSET Row OBVIOUS
<1>4. "insert" \in Statements /\ req[r].op = "create" /\ req[r].at = "count" BY DEF Statements, At
<1>5. /\ req'[r].op = "create" /\ req'[r].at = "insert" /\ req'[r].collection = req[r].collection
      /\ req'[r].book = req[r].book /\ req'[r].item = req[r].item /\ req'[r].position = req[r].position
      /\ req'[r].listed = req[r].listed /\ req'[r].wants = {}
      /\ req'[r].locks = req[r].locks \cup req[r].wants
  BY <1>3, <1>4, WentOn
<1>6. StageOK(r)' BY <1>1, <1>2, <1>4, <1>5 DEF StageOK, Stages, At
<1>7. WantsOK(r)' BY <1>2, <1>4, <1>5, RowsDistinct DEF WantsOK, At
<1>8. LocksOK(r)' BY <1>1, <1>2, <1>4, <1>5, RowsDistinct, ItemRowsApart DEF WantsOK, LocksOK, At, HasCollection
<1>9. InsertOK(r)' /\ DeleteOK(r)' /\ ReorderOK(r)' /\ MovesOK(r)' /\ CollectionOK(r)' /\ BookOK(r)' /\ CreateOK(r)'
  BY <1>1, <1>2, <1>4, <1>5, TablesSame
  DEF InsertOK, DeleteOK, ReorderOK, MovesOK, CollectionOK, BookOK, CreateOK, At, HasCollection
<1>10. TxOK(r)' BY <1>6, <1>7, <1>8, <1>9 DEF TxOK
<1>11. req[r].op \in FirstOps => \A id \in Nat : ItemRow(id) \in {} =>
        /\ CollectionRow(req[r].collection) \in req[r].locks \cup req[r].wants
        /\ \E i \in items : i.id = id /\ i.collection = req[r].collection
  BY <1>4, RowsDistinct DEF FirstOps
<1>12. QED BY <1>3, <1>4, <1>10, <1>11, GoesOn

\* delete has the row of the collection.
LEMMA LockForDeleteGoes ==
  ASSUME IInv, NEW r \in Request, At(r, "deleteCollection", "lock"), Blockers(r) = {},
         Live(req[r].collection),
         GoTo(r, "items", ItemRows(ItemsIn(req[r].collection))), UNCHANGED tables
  PROVE  IInv'
<1>1. StageOK(r) /\ WantsOK(r) /\ LocksOK(r) /\ InsertOK(r) /\ DeleteOK(r) /\ CollectionOK(r) /\ BookOK(r)
  BY DEF IInv, TxOK
<1>2. \A i \in ItemsIn(req[r].collection) : i \in items /\ i.collection = req[r].collection /\ i.id \in 0..MaxItems
  BY Shapes DEF ItemsIn
<1>3. \A id : ItemRow(id) \in ItemRows(ItemsIn(req[r].collection)) <=> \E i \in ItemsIn(req[r].collection) : i.id = id
  BY <1>2, RowsOfItems, Shapes
<1>4. req[r].collection \in Collection /\ ItemRows(ItemsIn(req[r].collection)) \subseteq AllItemRows
  BY <1>1, <1>2, RowsOfItems, Shapes DEF StageOK, At
<1>5. ItemRows(ItemsIn(req[r].collection)) \in SUBSET Row BY <1>4, RowsAreRows
<1>6. "items" \in Statements /\ req[r].op = "deleteCollection" /\ req[r].at = "lock" BY DEF Statements, At
<1>7. /\ req'[r].op = "deleteCollection" /\ req'[r].at = "items" /\ req'[r].collection = req[r].collection
      /\ req'[r].book = req[r].book /\ req'[r].item = req[r].item /\ req'[r].position = req[r].position
      /\ req'[r].listed = req[r].listed /\ req'[r].wants = ItemRows(ItemsIn(req[r].collection))
      /\ req'[r].locks = req[r].locks \cup req[r].wants
  BY <1>5, <1>6, WentOn
<1>8. StageOK(r)' BY <1>1, <1>4, <1>6, <1>7 DEF StageOK, Stages, At
<1>9. WantsOK(r)' BY <1>4, <1>6, <1>7, RowsDistinct DEF WantsOK, At
<1>10. LocksOK(r)' BY <1>1, <1>4, <1>6, <1>7, RowsDistinct, ItemRowsApart DEF WantsOK, LocksOK, At, HasCollection
<1>11. InsertOK(r)' /\ DeleteOK(r)' /\ ReorderOK(r)' /\ MovesOK(r)' /\ CollectionOK(r)' /\ BookOK(r)' /\ CreateOK(r)'
  BY <1>1, <1>4, <1>6, <1>7, TablesSame
  DEF InsertOK, DeleteOK, ReorderOK, MovesOK, CollectionOK, BookOK, CreateOK, At, HasCollection
<1>12. TxOK(r)' BY <1>8, <1>9, <1>10, <1>11 DEF TxOK
<1>13. req[r].op \in FirstOps => \A id \in Nat : ItemRow(id) \in ItemRows(ItemsIn(req[r].collection)) =>
        /\ CollectionRow(req[r].collection) \in req[r].locks \cup req[r].wants
        /\ \E i \in items : i.id = id /\ i.collection = req[r].collection
  BY <1>1, <1>6, <1>2, <1>3 DEF WantsOK
<1>14. QED BY <1>5, <1>6, <1>12, <1>13, GoesOn

\* deleteById has the row and the key of the book.
LEMMA LockBookGoes ==
  ASSUME IInv, NEW r \in Request, At(r, "deleteBook", "book"), Blockers(r) = {},
         book[req[r].book].exists,
         GoTo(r, "cascade", ItemRows(ItemsOf(req[r].book))), UNCHANGED tables
  PROVE  IInv'
<1>1. StageOK(r) /\ WantsOK(r) /\ LocksOK(r) /\ InsertOK(r) /\ DeleteOK(r) /\ CollectionOK(r) /\ BookOK(r)
  BY DEF IInv, TxOK
<1>2. \A i \in ItemsOf(req[r].book) : i.id \in 0..MaxItems BY Shapes DEF ItemsOf
<1>3. ItemRows(ItemsOf(req[r].book)) \subseteq AllItemRows /\ req[r].wants = WholeBook(req[r].book)
  BY <1>1, <1>2, RowsOfItems, Shapes DEF WantsOK, At
<1>4. ItemRows(ItemsOf(req[r].book)) \in SUBSET Row BY <1>3, RowsAreRows
<1>5. "cascade" \in Statements /\ req[r].op = "deleteBook" /\ req[r].at = "book" BY DEF Statements, At
<1>6. /\ req'[r].op = "deleteBook" /\ req'[r].at = "cascade" /\ req'[r].collection = req[r].collection
      /\ req'[r].book = req[r].book /\ req'[r].item = req[r].item /\ req'[r].position = req[r].position
      /\ req'[r].listed = req[r].listed /\ req'[r].wants = ItemRows(ItemsOf(req[r].book))
      /\ req'[r].locks = req[r].locks \cup req[r].wants
  BY <1>4, <1>5, WentOn
<1>7. StageOK(r)' BY <1>1, <1>3, <1>5, <1>6 DEF StageOK, Stages, At
<1>8. WantsOK(r)' BY <1>3, <1>5, <1>6, RowsDistinct DEF WantsOK, At
<1>9. LocksOK(r)' BY <1>1, <1>3, <1>5, <1>6, RowsDistinct, ItemRowsApart DEF WantsOK, LocksOK, At, HasCollection
<1>10. InsertOK(r)' /\ DeleteOK(r)' /\ ReorderOK(r)' /\ MovesOK(r)' /\ CollectionOK(r)' /\ BookOK(r)' /\ CreateOK(r)'
  BY <1>1, <1>3, <1>5, <1>6, TablesSame
  DEF InsertOK, DeleteOK, ReorderOK, MovesOK, CollectionOK, BookOK, CreateOK, At, HasCollection
<1>11. TxOK(r)' BY <1>7, <1>8, <1>9, <1>10 DEF TxOK
<1>12. req[r].op \in FirstOps => \A id \in Nat : ItemRow(id) \in ItemRows(ItemsOf(req[r].book)) =>
        /\ CollectionRow(req[r].collection) \in req[r].locks \cup req[r].wants
        /\ \E i \in items : i.id = id /\ i.collection = req[r].collection
  BY <1>5 DEF FirstOps
<1>13. QED BY <1>4, <1>5, <1>11, <1>12, GoesOn

\* deleteById has the items and takes the rows of the listed collections.
LEMMA CascadeGoes ==
  ASSUME IInv, NEW r \in Request, At(r, "deleteBook", "cascade"), Blockers(r) = {},
         NEW wants \in SUBSET Row,
         GoTo(r, "count", wants), UNCHANGED tables
  PROVE  IInv'
<1>1. StageOK(r) /\ WantsOK(r) /\ LocksOK(r) /\ InsertOK(r) /\ DeleteOK(r) /\ CollectionOK(r) /\ BookOK(r)
  BY DEF IInv, TxOK
<1>2. req[r].book \in Book BY <1>1 DEF StageOK, At
<1>3. wants \in SUBSET Row OBVIOUS
<1>4. "count" \in Statements /\ req[r].op = "deleteBook" /\ req[r].at = "cascade" BY DEF Statements, At
<1>5. /\ req'[r].op = "deleteBook" /\ req'[r].at = "count" /\ req'[r].collection = req[r].collection
      /\ req'[r].book = req[r].book /\ req'[r].item = req[r].item /\ req'[r].position = req[r].position
      /\ req'[r].listed = req[r].listed /\ req'[r].wants = wants
      /\ req'[r].locks = req[r].locks \cup req[r].wants
  BY <1>3, <1>4, WentOn
<1>6. StageOK(r)' BY <1>1, <1>2, <1>4, <1>5 DEF StageOK, Stages, At
<1>7. WantsOK(r)' BY <1>2, <1>4, <1>5, RowsDistinct DEF WantsOK, At
<1>8. LocksOK(r)' BY <1>1, <1>2, <1>4, <1>5, RowsDistinct, ItemRowsApart DEF WantsOK, LocksOK, At, HasCollection
<1>9. InsertOK(r)' /\ DeleteOK(r)' /\ ReorderOK(r)' /\ MovesOK(r)' /\ CollectionOK(r)' /\ BookOK(r)' /\ CreateOK(r)'
  BY <1>1, <1>2, <1>4, <1>5, TablesSame
  DEF InsertOK, DeleteOK, ReorderOK, MovesOK, CollectionOK, BookOK, CreateOK, At, HasCollection
<1>10. TxOK(r)' BY <1>6, <1>7, <1>8, <1>9 DEF TxOK
<1>11. req[r].op \in FirstOps => \A id \in Nat : ItemRow(id) \in wants =>
        /\ CollectionRow(req[r].collection) \in req[r].locks \cup req[r].wants
        /\ \E i \in items : i.id = id /\ i.collection = req[r].collection
  BY <1>4 DEF FirstOps
<1>12. QED BY <1>3, <1>4, <1>10, <1>11, GoesOn

\* deleteById takes the next of these rows.
LEMMA CountDownGoes ==
  ASSUME IInv, NEW r \in Request, At(r, "deleteBook", "count"), Blockers(r) = {},
         NEW wants \in SUBSET Row,
         GoTo(r, "count", wants), UNCHANGED tables
  PROVE  IInv'
<1>1. StageOK(r) /\ WantsOK(r) /\ LocksOK(r) /\ InsertOK(r) /\ DeleteOK(r) /\ CollectionOK(r) /\ BookOK(r)
  BY DEF IInv, TxOK
<1>2. req[r].book \in Book BY <1>1 DEF StageOK, At
<1>3. wants \in SUBSET Row OBVIOUS
<1>4. "count" \in Statements /\ req[r].op = "deleteBook" /\ req[r].at = "count" BY DEF Statements, At
<1>5. /\ req'[r].op = "deleteBook" /\ req'[r].at = "count" /\ req'[r].collection = req[r].collection
      /\ req'[r].book = req[r].book /\ req'[r].item = req[r].item /\ req'[r].position = req[r].position
      /\ req'[r].listed = req[r].listed /\ req'[r].wants = wants
      /\ req'[r].locks = req[r].locks \cup req[r].wants
  BY <1>3, <1>4, WentOn
<1>6. StageOK(r)' BY <1>1, <1>2, <1>4, <1>5 DEF StageOK, Stages, At
<1>7. WantsOK(r)' BY <1>2, <1>4, <1>5, RowsDistinct DEF WantsOK, At
<1>8. LocksOK(r)' BY <1>1, <1>2, <1>4, <1>5, RowsDistinct, ItemRowsApart DEF WantsOK, LocksOK, At, HasCollection
<1>9. InsertOK(r)' /\ DeleteOK(r)' /\ ReorderOK(r)' /\ MovesOK(r)' /\ CollectionOK(r)' /\ BookOK(r)' /\ CreateOK(r)'
  BY <1>1, <1>2, <1>4, <1>5, TablesSame
  DEF InsertOK, DeleteOK, ReorderOK, MovesOK, CollectionOK, BookOK, CreateOK, At, HasCollection
<1>10. TxOK(r)' BY <1>6, <1>7, <1>8, <1>9 DEF TxOK
<1>11. req[r].op \in FirstOps => \A id \in Nat : ItemRow(id) \in wants =>
        /\ CollectionRow(req[r].collection) \in req[r].locks \cup req[r].wants
        /\ \E i \in items : i.id = id /\ i.collection = req[r].collection
  BY <1>4 DEF FirstOps
<1>12. QED BY <1>3, <1>4, <1>10, <1>11, GoesOn

\* toggleFavorite has the row of the collection: it looks the item up.
LEMMA LockForToggleStep ==
  ASSUME IInv, NEW r \in Request, LockForToggle(r)
  PROVE  IInv'
<1> DEFINE c == req[r].collection
           b == req[r].book
           found == {i \in ItemsIn(c) : i.book = b}
           wants == IF found # {} THEN ItemRows(found) ELSE {BookKey(b, r)}
           item == IF found = {} THEN 0 ELSE (CHOOSE i \in found : TRUE).id
           at == IF found # {} THEN "off" ELSE "on"
           t == [req[r] EXCEPT !.locks = req[r].wants, !.at = at, !.wants = wants, !.item = item,
                               !.position = MaxPosition(c) + 1]
<1>1. At(r, "toggle", "lock") /\ Blockers(r) = {} /\ UNCHANGED tables /\ req' = [req EXCEPT ![r] = t]
  BY DEF LockForToggle, Runs
<1>2. StageOK(r) /\ WantsOK(r) /\ LocksOK(r) BY DEF IInv, TxOK
<1>3. c \in Collection /\ b \in Book /\ c \in Favorites /\ req[r].locks = {} /\ req[r].wants = {CollectionRow(c)}
      /\ req[r] \in Transactions
  BY <1>1, <1>2, Shapes DEF StageOK, WantsOK, LocksOK, At
<1>4. MaxPosition(c) \in Nat /\ \A i \in ItemsIn(c) : i.position < MaxPosition(c) + 1 BY <1>3, NextPosition
<1>5. \A i \in found : i \in items /\ i.collection = c /\ i.book = b /\ i.id \in 1..MaxItems /\ i.id <= lastItem
  BY Shapes DEF ItemsIn, IInv, RowsOK
<1>6. \A i, j \in found : i = j BY <1>5 DEF IInv, CountsOK, ItemsDistinct
<1>7. found # {} => \E i \in found : /\ item = i.id /\ wants = {ItemRow(i.id)} /\ at = "off"
  <2>1. SUFFICES ASSUME found # {} PROVE \E i \in found : item = i.id /\ wants = {ItemRow(i.id)} OBVIOUS
  <2>2. PICK i \in found : TRUE BY <2>1
  <2>3. found = {i} BY <1>6, <2>2
  <2>4. ItemRows(found) = {ItemRow(i.id)} BY <2>3 DEF ItemRows, ItemRow
  <2>5. (CHOOSE j \in found : TRUE) = i BY <2>3
  <2>6. QED BY <2>1, <2>2, <2>4, <2>5
<1>8. found = {} => item = 0 /\ wants = {BookKey(b, r)} /\ at = "on" OBVIOUS
<1> HIDE DEF item, wants, at, found
<1>9. item \in 0..MaxItems /\ wants \in SUBSET Row /\ at \in Statements
  BY <1>3, <1>5, <1>7, <1>8, Shapes, RowsAreRows DEF Statements, AllItemRows
<1>10. /\ t \in Transactions /\ t.op = "toggle" /\ t.at = at /\ t.collection = c /\ t.book = b /\ t.item = item
       /\ t.position = MaxPosition(c) + 1 /\ t.wants = wants /\ t.locks = {CollectionRow(c)}
  <2>1. req[r].wants \in SUBSET Row /\ MaxPosition(c) + 1 \in Nat BY <1>3, <1>4 DEF Transactions
  <2>2. t \in Transactions BY <1>3, <1>9, <2>1 DEF Transactions
  <2>3. QED BY <2>2, <1>1, <1>3 DEF Transactions, At
<1> HIDE DEF t
<1>11. req'[r] = t BY <1>1, Shapes
<1>12. SlotsOK' BY <1>1, <1>10, SlotsKeep DEF tables, At
<1>13. StageOK(r)' BY <1>3, <1>7, <1>8, <1>10, <1>11 DEF StageOK, Stages
<1>14. WantsOK(r)'
  <2>1. CASE found # {} BY <2>1, <1>7, <1>10, <1>11 DEF WantsOK, At
  <2>2. CASE found = {} BY <2>2, <1>8, <1>10, <1>11 DEF WantsOK, At
  <2>3. QED BY <2>1, <2>2
<1>15. LocksOK(r)'
  <2>1. at \in {"on", "off"} BY <1>7, <1>8
  <2>2. QED BY <2>1, <1>10, <1>11, RowsDistinct DEF LocksOK, At, HasCollection
<1>16. InsertOK(r)'
  <2>1. found = {} => \A i \in ItemsIn(c) : i.book # b /\ i.position # MaxPosition(c) + 1
    BY <1>4, Shapes DEF found, ItemsIn
  <2>2. CASE found = {} BY <2>1, <2>2, <1>1, <1>4, <1>8, <1>10, <1>11, TablesSame DEF InsertOK, At
  <2>3. CASE found # {} BY <2>3, <1>7, <1>10, <1>11 DEF InsertOK, At
  <2>4. QED BY <2>2, <2>3
<1>17. DeleteOK(r)'
  <2>1. CASE found = {} BY <2>1, <1>8, <1>10, <1>11 DEF DeleteOK, At
  <2>2. CASE found # {}
    <3>1. PICK i \in found : item = i.id /\ at = "off" BY <2>2, <1>7
    <3>2. \A j \in WithId(item) : j = i BY <3>1, <1>5 DEF IInv, RowsOK, WithId
    <3>3. QED BY <3>1, <3>2, <1>1, <1>5, <1>10, <1>11, TablesSame DEF DeleteOK, At
  <2>3. QED BY <2>1, <2>2
<1>18. ReorderOK(r)' /\ MovesOK(r)' /\ CollectionOK(r)' /\ BookOK(r)' /\ CreateOK(r)'
  <2>1. at \in {"on", "off"} BY <1>7, <1>8
  <2>2. Live(c) BY <1>3 DEF IInv, RowsOK
  <2>3. QED BY <2>1, <2>2, <1>1, <1>10, <1>11, TablesSame
            DEF ReorderOK, MovesOK, CollectionOK, BookOK, CreateOK, At, HasCollection
<1>19. TxOK(r)' BY <1>13, <1>14, <1>15, <1>16, <1>17, <1>18 DEF TxOK
<1>20. ASSUME NEW id \in Nat, ItemRow(id) \in t.locks \cup t.wants PROVE Found(r, t, id)
  <2>1. ItemRow(id) \in wants BY <1>10, <1>20, RowsDistinct
  <2>2. PICK i \in found : wants = {ItemRow(i.id)} BY <2>1, <1>7, <1>8, RowsDistinct
  <2>3. i.id = id BY <2>1, <2>2, RowsDistinct
  <2>4. QED BY <2>3, <1>5, <1>10 DEF Found
<1>21. t.locks \subseteq req[r].locks \cup req[r].wants BY <1>3, <1>10
<1>22. QED BY <1>1, <1>10, <1>12, <1>19, <1>20, <1>21, Quiet

\* The items of a set with different positions: one at each place.
LEMMA OneAtEachPlace ==
  ASSUME NEW S, IsFiniteSet(S), \A i \in S : i.position \in Nat,
         \A i, j \in S : i.position = j.position => i = j
  PROVE  /\ \A n \in 1..Cardinality(S) : ByPosition(S, n) \in S
         /\ \A m, n \in 1..Cardinality(S) : ByPosition(S, m).position = ByPosition(S, n).position => m = n
<1> DEFINE f == [i \in S |-> i.position]
           below == [i \in S |-> {j \in S : j.position <= i.position}]
           rank == [i \in S |-> Cardinality(below[i])]
<1>1. f \in [S -> Nat] /\ \A x, y \in S : f[x] = f[y] => x = y OBVIOUS
<1>2. below \in [S -> SUBSET S] /\ \A x, y \in S : y \in below[x] <=> f[y] <= f[x] OBVIOUS
<1>3. \A x \in S : below[x] = {j \in S : j.position <= x.position} OBVIOUS
<1> HIDE DEF f, below
<1>4. rank \in [S -> Nat] /\ \A x \in S : rank[x] = Cardinality(below[x])
  <2>1. \A x \in S : below[x] \in SUBSET S BY <1>2
  <2>2. \A x \in S : Cardinality(below[x]) \in Nat BY <2>1, FS_Subset, FS_CardinalityType
  <2>3. QED BY <2>2
<1> HIDE DEF rank
<1>5. \A n \in 1..Cardinality(S) : \E x \in S : rank[x] = n BY <1>1, <1>2, <1>4, Ranks
<1>6. ASSUME NEW n \in 1..Cardinality(S)
      PROVE  ByPosition(S, n) \in S /\ rank[ByPosition(S, n)] = n
  <2>1. PICK x \in S : rank[x] = n BY <1>5
  <2>2. Cardinality(below[x]) = n BY <2>1, <1>4
  <2>3. below[x] = {j \in S : j.position <= x.position} BY <1>3
  <2>4. Cardinality({j \in S : j.position <= x.position}) = n BY <2>2, <2>3
  <2>5. \E i \in S : Cardinality({j \in S : j.position <= i.position}) = n BY <2>4
  <2>6. ByPosition(S, n) \in S
        /\ Cardinality({j \in S : j.position <= ByPosition(S, n).position}) = n
    BY <2>5 DEF ByPosition
  <2>7. below[ByPosition(S, n)] = {j \in S : j.position <= ByPosition(S, n).position} BY <2>6, <1>3
  <2>8. rank[ByPosition(S, n)] = Cardinality(below[ByPosition(S, n)]) BY <2>6, <1>4
  <2>9. QED BY <2>6, <2>7, <2>8
<1>7. ASSUME NEW m \in 1..Cardinality(S), NEW n \in 1..Cardinality(S),
             ByPosition(S, m).position = ByPosition(S, n).position
      PROVE  m = n
  <2>1. ByPosition(S, m) = ByPosition(S, n) BY <1>6, <1>7
  <2>2. QED BY <2>1, <1>6
<1>8. QED BY <1>6, <1>7

\* The items that were named, when all are there, come one at each place of the order.
LEMMA OrderedByPosition ==
  ASSUME IInv, NEW r \in Request, req[r].op = "reorder", Cardinality(Ordered(r)) = Len(req[r].order)
  PROVE  /\ \A n \in DOMAIN req[r].order : ByPosition(Ordered(r), n) \in Ordered(r)
         /\ \A m, n \in DOMAIN req[r].order :
              ByPosition(Ordered(r), m).position = ByPosition(Ordered(r), n).position => m = n
<1> DEFINE S == Ordered(r)
<1>1. S \in SUBSET items /\ \A i \in S : i.collection = req[r].collection BY DEF Ordered, ItemsIn
<1>2. IsFiniteSet(S) BY <1>1, FS_Subset DEF IInv, RowsOK
<1>3. \A i \in S : i.position \in Nat BY <1>1, Shapes
<1>4. \A i, j \in S : i.position = j.position => i = j BY <1>1 DEF IInv, CountsOK, ItemsDistinct
<1>5. req[r].order \in Seq(Nat) BY Shapes DEF Transactions
<1>6. DOMAIN req[r].order = 1..Cardinality(S) BY <1>5
<1> HIDE DEF S
<1>7. /\ \A n \in 1..Cardinality(S) : ByPosition(S, n) \in S
      /\ \A m, n \in 1..Cardinality(S) : ByPosition(S, m).position = ByPosition(S, n).position => m = n
  BY <1>2, <1>3, <1>4, OneAtEachPlace
<1>8. QED BY <1>6, <1>7 DEF S

\* reorder has the row of the collection: it pairs ids and positions.
LEMMA LockForReorderStep ==
  ASSUME IInv, NEW r \in Request, LockForReorder(r)
  PROVE  IInv'
<1> DEFINE c == req[r].collection
           order == req[r].order
           found == Ordered(r)
           place == [n \in DOMAIN order |-> ByPosition(found, n)]
           moves == {<<order[n], place[n].position>> : n \in DOMAIN order}
           t == [req[r] EXCEPT !.at = "write", !.locks = req[r].wants, !.wants = ItemRows(found),
                               !.moves = moves]
<1>1. At(r, "reorder", "lock") /\ Blockers(r) = {} BY DEF LockForReorder, Runs
<1>2. CASE Rollback(r) BY <1>2, RollbackStep
<1>3. ASSUME Live(c), Cardinality(found) = Len(order), UNCHANGED tables, req' = [req EXCEPT ![r] = t]
      PROVE  IInv'
  <2>1. StageOK(r) /\ WantsOK(r) /\ LocksOK(r) /\ ReorderOK(r) BY DEF IInv, TxOK
  <2>2. req[r].op = "reorder" /\ req[r].at = "lock" BY <1>1 DEF At
  <2>3. c \in Collection /\ c \notin Favorites /\ req[r].locks = {} /\ req[r].wants = {CollectionRow(c)}
        /\ req[r] \in Transactions
    BY <2>1, <2>2, Shapes DEF StageOK, WantsOK, LocksOK
  <2>4. \A i \in found : i \in items /\ i.collection = c /\ i.id \in Named(r) /\ i.id \in 0..MaxItems
    BY Shapes DEF Ordered, ItemsIn, Named
  <2>5. \A i \in items : i.collection = c /\ i.id \in Named(r) => i \in found
    BY DEF Ordered, ItemsIn, Named
  <2>6. /\ \A n \in DOMAIN order : place[n] \in found
        /\ \A m, n \in DOMAIN order : place[m].position = place[n].position => m = n
    BY <1>3, <2>2, OrderedByPosition
  <2>7. order \in Seq(Nat) BY <2>3 DEF Transactions
  <2>8. Named(r) = {order[n] : n \in DOMAIN order} BY DEF Named, ToSet
  <2>9. ItemRows(found) \subseteq AllItemRows /\ \A id : ItemRow(id) \in ItemRows(found) <=> \E i \in found : i.id = id
    BY <2>4, RowsOfItems, Shapes
  <2> HIDE DEF place, found
  <2>10. \A m \in moves : \E n \in DOMAIN order : m[1] = order[n] /\ m[2] = place[n].position OBVIOUS
  <2>11. \A n \in DOMAIN order : \E m \in moves : m[1] = order[n] /\ m[2] = place[n].position
    <3>1. ASSUME NEW n \in DOMAIN order PROVE \E m \in moves : m[1] = order[n] /\ m[2] = place[n].position
      <4>1. <<order[n], place[n].position>> \in moves OBVIOUS
      <4>2. QED BY <4>1
    <3>2. QED BY <3>1
  <2>12. moves \in SUBSET (Nat \X (Nat \ {0}))
    <3>1. ASSUME NEW n \in DOMAIN order PROVE <<order[n], place[n].position>> \in Nat \X (Nat \ {0})
      <4>1. place[n].position \in Nat \ {0} BY <2>4, <2>6, Shapes
      <4>2. order[n] \in Nat BY <2>7
      <4>3. QED BY <4>1, <4>2
    <3>2. QED BY <3>1
  <2> HIDE DEF moves
  <2>13. \A m, n \in moves : m[1] = n[1] <=> m[2] = n[2]
    <3>1. ASSUME NEW m \in moves, NEW n \in moves PROVE m[1] = n[1] <=> m[2] = n[2]
      <4>1. PICK k \in DOMAIN order : m[1] = order[k] /\ m[2] = place[k].position BY <2>10
      <4>2. PICK l \in DOMAIN order : n[1] = order[l] /\ n[2] = place[l].position BY <2>10
      <4>3. order[k] = order[l] => k = l BY <2>1, <2>2 DEF ReorderOK
      <4>4. place[k].position = place[l].position => k = l BY <2>6
      <4>5. QED BY <4>1, <4>2, <4>3, <4>4
    <3>2. QED BY <3>1
  <2>14. \A m \in moves : m[1] \in Named(r) BY <2>8, <2>10
  <2>15. ASSUME NEW i \in ItemsIn(c)
         PROVE  /\ i.id \in Named(r) => \E m \in moves : m[1] = i.id
                /\ (\E m \in moves : i.position = m[2]) => i.id \in Named(r)
    <3>1. i \in items /\ i.collection = c BY DEF ItemsIn
    <3>2. i.id \in Named(r) => \E m \in moves : m[1] = i.id BY <2>8, <2>11
    <3>3. ASSUME NEW m \in moves, i.position = m[2] PROVE i.id \in Named(r)
      <4>1. PICK n \in DOMAIN order : m[2] = place[n].position BY <2>10
      <4>2. place[n] \in items /\ place[n].collection = c /\ place[n].id \in Named(r) BY <2>4, <2>6
      <4>3. place[n] = i BY <3>1, <3>3, <4>1, <4>2 DEF IInv, CountsOK, ItemsDistinct
      <4>4. QED BY <4>2, <4>3
    <3>4. QED BY <3>2, <3>3
  <2>16. ItemRows(found) \in SUBSET Row BY <2>9, RowsAreRows
  <2>17. /\ t \in Transactions /\ t.op = "reorder" /\ t.at = "write" /\ t.collection = c /\ t.order = order
         /\ t.moves = moves /\ t.wants = ItemRows(found) /\ t.locks = {CollectionRow(c)}
    <3>1. "write" \in Statements /\ req[r].wants \in SUBSET Row BY <2>3 DEF Statements, Transactions
    <3>2. t \in Transactions BY <2>3, <2>12, <2>16, <3>1 DEF Transactions
    <3>3. QED BY <3>2, <2>2, <2>3 DEF Transactions
  <2> HIDE DEF t
  <2>18. req'[r] = t BY <1>3, Shapes
  <2>19. SlotsOK' BY <1>3, <2>2, <2>17, SlotsKeep DEF tables
  <2>20. StageOK(r)' BY <2>3, <2>17, <2>18 DEF StageOK, Stages
  <2>21. WantsOK(r)' BY <2>9, <2>17, <2>18 DEF WantsOK, At
  <2>22. LocksOK(r)' BY <2>17, <2>18, RowsDistinct DEF LocksOK, At, HasCollection
  <2>23. InsertOK(r)' /\ DeleteOK(r)' /\ BookOK(r)' /\ CreateOK(r)'
    BY <2>17, <2>18 DEF InsertOK, DeleteOK, BookOK, CreateOK, At
  <2>24. ReorderOK(r)'
    BY <1>3, <2>1, <2>2, <2>17, <2>18, TablesSame DEF ReorderOK, Named
  <2>25. MovesOK(r)'
    <3>1. Named(r)' = Named(r) BY <2>17, <2>18 DEF Named
    <3>2. items' = items BY <1>3, TablesSame
    <3>3. req'[r].collection = c /\ req'[r].moves = moves BY <2>17, <2>18
    <3>4. ItemsIn(req[r].collection)' = ItemsIn(c) BY <3>2, <3>3 DEF ItemsIn
    <3>5. QED BY <3>1, <3>3, <3>4, <2>13, <2>14, <2>15 DEF MovesOK
  <2>26. CollectionOK(r)' BY <1>3, <2>17, <2>18, TablesSame DEF CollectionOK, HasCollection
  <2>27. TxOK(r)' BY <2>20, <2>21, <2>22, <2>23, <2>24, <2>25, <2>26 DEF TxOK
  <2>28. ASSUME NEW id \in Nat, ItemRow(id) \in t.locks \cup t.wants PROVE Found(r, t, id)
    <3>1. ItemRow(id) \in ItemRows(found) BY <2>17, <2>28, RowsDistinct
    <3>2. PICK i \in found : i.id = id BY <3>1, <2>9
    <3>3. QED BY <3>2, <2>4, <2>17 DEF Found
  <2>29. t.locks \subseteq req[r].locks \cup req[r].wants BY <2>3, <2>17
  <2>30. QED BY <1>1, <1>3, <2>17, <2>19, <2>27, <2>28, <2>29, Quiet
<1>4. Rollback(r) \/ (/\ Live(c) /\ Cardinality(found) = Len(order) /\ UNCHANGED tables
                      /\ req' = [req EXCEPT ![r] = t])
  <2>1. moves = {<<order[n], ByPosition(found, n).position>> : n \in DOMAIN order} OBVIOUS
  <2> HIDE DEF moves
  <2>2. QED BY <2>1 DEF LockForReorder
<1>5. QED BY <1>2, <1>3, <1>4

-----------------------------------------------------------------------------
(***************************************************************************)
(* Commits                                                                 *)
(***************************************************************************)

\* The rows that were there are where they were, new ones have new ids.
RowsStay ==
  /\ lastItem <= lastItem'
  /\ \A i \in items' : i.id <= lastItem => \E j \in items : j.id = i.id /\ j.collection = i.collection

\* What another request is doing, and the items it was given, do not change at a commit.
LEMMA OthersGoOn ==
  ASSUME IInv, RowsStay, lastItem' \in 0..MaxItems, NEW q \in Request, req'[q] = req[q]
  PROVE  StageOK(q)' /\ WantsOK(q)' /\ LocksOK(q)' /\ ReorderOK(q)'
<1> USE DEF At, HasCollection
<1>1. TxOK(q) BY DEF IInv
<1>2. StageOK(q)' BY <1>1 DEF TxOK, StageOK
<1>3. WantsOK(q)' BY <1>1 DEF TxOK, WantsOK
<1>4. LocksOK(q)' BY <1>1 DEF TxOK, LocksOK
<1>5. ReorderOK(q)'
  <2>1. SUFFICES ASSUME req[q].op = "reorder"
                 PROVE  /\ \A m, n \in DOMAIN req[q].order : req[q].order[m] = req[q].order[n] => m = n
                        /\ \A id \in Named(q) : id <= lastItem'
                        /\ \A i \in items' : i.id \in Named(q) => i.collection = req[q].collection
    BY DEF ReorderOK, Named
  <2>2. ReorderOK(q) BY <1>1 DEF TxOK
  <2>3. \A id \in Named(q) : id \in Nat /\ id <= lastItem
    BY <2>1, <2>2, Shapes DEF ReorderOK, Named, ToSet, Transactions
  <2>4. \A id \in Named(q) : id <= lastItem' BY <2>3, Shapes DEF RowsStay
  <2>5. ASSUME NEW i \in items', i.id \in Named(q) PROVE i.collection = req[q].collection
    <3>1. PICK j \in items : j.id = i.id /\ j.collection = i.collection BY <2>3, <2>5 DEF RowsStay
    <3>2. QED BY <2>1, <2>2, <2>5, <3>1 DEF ReorderOK
  <2>6. QED BY <2>1, <2>2, <2>4, <2>5 DEF ReorderOK
<1>6. QED BY <1>2, <1>3, <1>4, <1>5

\* The types, when a request ends.
LEMMA TypedAtEnd ==
  ASSUME IInv, NEW r \in Request, End(r),
         book' \in [Book -> [exists : BOOLEAN, favoriteCount : Nat]],
         collection' \in [Collection -> [state : {"none", "live", "gone"}, bookCount : Int]],
         items' \subseteq Item, lastItem' \in 0..MaxItems, raced' \subseteq Collection
  PROVE  Typed'
<1>1. req' = [req EXCEPT ![r] = Idle] /\ Idle \in Transactions BY IdleTyped DEF End
<1>2. req' \in [Request -> Transactions] BY <1>1, Shapes
<1>3. \A q \in Request : /\ req'[q].collection \in Collection \cup {None}
                         /\ req'[q].book \in Book \cup {None} /\ req'[q].item \in 0..MaxItems
  BY <1>2 DEF Transactions
<1>4. TypeOK' BY <1>3 DEF TypeOK
<1>5. QED BY <1>2, <1>4 DEF Typed

\* What a commit has to show.
LEMMA Ended ==
  ASSUME IInv, NEW r \in Request, End(r), Typed', RowsOK', CountsOK', SlotsOK', RowsStay,
         \A q \in Request \ {r} : TxOK(q)'
  PROVE  IInv'
<1>1. req' = [req EXCEPT ![r] = Idle] /\ Idle \in Transactions /\ Idle.locks = {} BY IdleTyped DEF End, Idle
<1>2. LocksExclusive' BY <1>1, LocksStayExclusive
<1>3. req'[r] = Idle /\ \A q \in Request \ {r} : req'[q] = req[q] BY <1>1, Shapes
<1>4. TxOK(r)'
  <2>1. Idle.op = "none" /\ Idle.at = "idle" /\ Idle.wants = {} BY DEF Idle
  <2>2. QED
    BY <1>1, <1>3, <2>1
    DEF TxOK, StageOK, Stages, WantsOK, LocksOK, InsertOK, DeleteOK, ReorderOK, MovesOK, CollectionOK,
        BookOK, CreateOK, At, HasCollection
<1>5. ItemLocksOK'
  <2>1. SUFFICES ASSUME NEW p \in Request, CollectionFirst(p)'
        PROVE  /\ \A id \in Nat : Touches(p, id)' =>
                    id <= lastItem' /\ \A i \in items' : i.id = id => i.collection = req'[p].collection
               /\ \A q \in Request \ {p} : CollectionFirst(q)' =>
                    \A id \in Nat : ~(Touches(p, id)' /\ Touches(q, id)')
    BY DEF ItemLocksOK
  <2>2. ~CollectionFirst(r)' BY <1>3 DEF CollectionFirst, Idle
  <2>3. p # r BY <2>1, <2>2
  <2>4. \A q \in Request \ {r} : (CollectionFirst(q)' <=> CollectionFirst(q))
                                 /\ \A id \in Nat : Touches(q, id)' <=> Touches(q, id)
    BY <1>3 DEF CollectionFirst, Touches
  <2>5. CollectionFirst(p) BY <2>1, <2>3, <2>4
  <2>6. \A id \in Nat : Touches(p, id) =>
          id <= lastItem /\ \A i \in items : i.id = id => i.collection = req[p].collection
    BY <2>5 DEF IInv, ItemLocksOK
  <2>7. \A q \in Request \ {p} : CollectionFirst(q) => \A id \in Nat : ~(Touches(p, id) /\ Touches(q, id))
    BY <2>5 DEF IInv, ItemLocksOK
  <2>8. ASSUME NEW id \in Nat, Touches(p, id)'
        PROVE  id <= lastItem' /\ \A i \in items' : i.id = id => i.collection = req'[p].collection
    <3>1. id <= lastItem /\ \A i \in items : i.id = id => i.collection = req[p].collection
      BY <2>3, <2>4, <2>6, <2>8
    <3>2. lastItem \in Nat /\ lastItem' \in Nat BY Shapes, CollectionsAssumption DEF Typed, TypeOK
    <3>3. id <= lastItem' BY <3>1, <3>2 DEF RowsStay
    <3>4. ASSUME NEW i \in items', i.id = id PROVE i.collection = req'[p].collection
      <4>1. PICK j \in items : j.id = i.id /\ j.collection = i.collection BY <3>1, <3>4 DEF RowsStay
      <4>2. QED BY <3>1, <3>4, <4>1, <1>3, <2>3
    <3>5. QED BY <3>3, <3>4
  <2>9. \A q \in Request \ {p} : CollectionFirst(q)' => \A id \in Nat : ~(Touches(p, id)' /\ Touches(q, id)')
    BY <2>2, <2>3, <2>4, <2>7
  <2>10. QED BY <2>8, <2>9
<1>6. \A q \in Request : TxOK(q)' BY <1>4
<1>7. QED BY <1>2, <1>5, <1>6 DEF IInv

\* The items of a collection are finitely many, and so are those of a book in the favourites.
FavoritesOf(b) == {i \in ItemsOf(b) : i.collection \in Favorites}
\* They are finitely many.
LEMMA FiniteParts ==
  ASSUME IInv
  PROVE  /\ \A c : IsFiniteSet(ItemsIn(c)) /\ Cardinality(ItemsIn(c)) \in Nat
         /\ \A b : IsFiniteSet(FavoritesOf(b)) /\ Cardinality(FavoritesOf(b)) \in Nat
         /\ Cardinality(UserCollections) \in Nat
<1>1. IsFiniteSet(items) /\ IsFiniteSet(UserCollections) BY DEF IInv, RowsOK
<1>2. ASSUME NEW c PROVE IsFiniteSet(ItemsIn(c)) /\ Cardinality(ItemsIn(c)) \in Nat
  <2>1. ItemsIn(c) \in SUBSET items BY DEF ItemsIn
  <2>2. QED BY <1>1, <2>1, FS_Subset, FS_CardinalityType
<1>3. ASSUME NEW b PROVE IsFiniteSet(FavoritesOf(b)) /\ Cardinality(FavoritesOf(b)) \in Nat
  <2>1. FavoritesOf(b) \in SUBSET items BY DEF FavoritesOf, ItemsOf
  <2>2. QED BY <1>1, <2>1, FS_Subset, FS_CardinalityType
<1>4. QED BY <1>1, <1>2, <1>3, FS_CardinalityType

-----------------------------------------------------------------------------
(***************************************************************************)
(* An insertion commits                                                    *)
(***************************************************************************)

\* What the three insertions have in common.
Inserts(r, c, b, new) ==
  /\ req[r].op \in {"add", "toggle"} /\ Blockers(r) = {} /\ End(r)
  /\ {CollectionRow(c), BookKey(b, r)} \subseteq req[r].locks \cup req[r].wants
  /\ Live(c) /\ book[b].exists /\ (c \in Favorites \/ collection[c].bookCount < BookLimit[c])
  /\ \A i \in ItemsIn(c) : i.book # b /\ i.position # new.position
  /\ new.id = lastItem + 1 /\ new.collection = c /\ new.book = b
  /\ items' = items \cup {new} /\ lastItem' = lastItem + 1
  /\ collection' = [collection EXCEPT ![c].bookCount = @ + 1]
  /\ NoteRace(c, b)
  /\ book' \in [Book -> [exists : BOOLEAN, favoriteCount : Nat]]
  /\ \A d \in Book :
       /\ book'[d].exists = book[d].exists
       /\ book'[d].favoriteCount =
            IF d = b /\ c \in Favorites THEN book[d].favoriteCount + 1 ELSE book[d].favoriteCount

\* The tables after it.
LEMMA InsertedTables ==
  ASSUME IInv, NEW r \in Request, NEW c \in Collection, NEW b \in Book, NEW new, Inserts(r, c, b, new)
  PROVE  /\ \A d : ItemsIn(d)' = IF d = c THEN ItemsIn(d) \cup {new} ELSE ItemsIn(d)
         /\ \A d : ItemsOf(d)' = IF d = b THEN ItemsOf(d) \cup {new} ELSE ItemsOf(d)
         /\ \A id : id <= lastItem => WithId(id)' = WithId(id)
         /\ \A d \in Collection : /\ Live(d)' = Live(d) /\ collection'[d].state = collection[d].state
                                  /\ d # c => collection'[d] = collection[d]
                                  /\ d = c => collection'[d].bookCount = collection[d].bookCount + 1
         /\ UserCollections' = UserCollections
         /\ raced \subseteq raced' /\ (DeletionUnderWay(b) => c \in raced')
         /\ new \notin items /\ \A i \in items : i.id < new.id
<1>1. items' = items \cup {new} /\ new.id = lastItem + 1 /\ new.collection = c /\ new.book = b BY DEF Inserts
<1>2. \A d : ItemsIn(d)' = IF d = c THEN ItemsIn(d) \cup {new} ELSE ItemsIn(d) BY <1>1 DEF ItemsIn
<1>3. \A d : ItemsOf(d)' = IF d = b THEN ItemsOf(d) \cup {new} ELSE ItemsOf(d) BY <1>1 DEF ItemsOf
<1>4. \A i \in items : i.id < new.id
  <2>1. \A i \in items : i.id <= lastItem /\ i.id \in Nat BY Shapes DEF IInv, RowsOK
  <2>2. lastItem \in Nat BY Shapes
  <2>3. QED BY <1>1, <2>1, <2>2
<1>5. new \notin items BY <1>1, <1>4, Shapes
<1>6. \A id : id <= lastItem => WithId(id)' = WithId(id)
  <2>1. lastItem \in Nat /\ ~(lastItem + 1 <= lastItem) BY Shapes
  <2>2. QED BY <1>1, <2>1 DEF WithId
<1>7. \A d \in Collection : /\ Live(d)' = Live(d) /\ collection'[d].state = collection[d].state
                            /\ d # c => collection'[d] = collection[d]
                            /\ d = c => collection'[d].bookCount = collection[d].bookCount + 1
  <2>1. collection' = [collection EXCEPT ![c].bookCount = @ + 1] BY DEF Inserts
  <2>2. collection \in [Collection -> [state : {"none", "live", "gone"}, bookCount : Int]]
    BY DEF IInv, Typed, TypeOK
  <2>3. QED BY <2>1, <2>2 DEF Live
<1>8. UserCollections' = UserCollections BY <1>7 DEF UserCollections
<1>9. raced \subseteq raced' /\ (DeletionUnderWay(b) => c \in raced') BY DEF Inserts, NoteRace
<1>10. QED BY <1>2, <1>3, <1>4, <1>5, <1>6, <1>7, <1>8, <1>9

\* It takes nothing from the others.
LEMMA InsertedOthers ==
  ASSUME IInv, NEW r \in Request, NEW c \in Collection, NEW b \in Book, NEW new \in Item,
         Inserts(r, c, b, new), NEW q \in Request, q # r, req'[q] = req[q],
         StageOK(q)', WantsOK(q)', LocksOK(q)', ReorderOK(q)'
  PROVE  TxOK(q)'
<1>1. TxOK(q) BY DEF IInv
<1>2. CollectionRow(c) \notin req[q].locks /\ BookKey(b, r) \notin req[q].locks
  <2>1. Blockers(r) = {} /\ {CollectionRow(c), BookKey(b, r)} \subseteq req[r].locks \cup req[r].wants BY DEF Inserts
  <2>2. QED BY <2>1, Owner
<1>3. PICK t : t = req[q] /\ t = req'[q] OBVIOUS
<1>4. HasCollection(q) => req[q].collection # c /\ req[q].collection \in Collection
  BY <1>1, <1>2 DEF TxOK, LocksOK, StageOK, HasCollection
<1>5. HasCollection(q) => ItemsIn(t.collection)' = ItemsIn(t.collection)
  BY <1>3, <1>4, InsertedTables
<1>6. InsertOK(q)'
  <2>1. At(q, "add", "insert") \/ At(q, "add", "favorite") \/ At(q, "toggle", "on") \/ At(q, "toggle", "more")
        => HasCollection(q)
    BY DEF HasCollection, At
  <2>2. req[q].at \in {"on", "more"} => req[q].op = "toggle" BY <1>1 DEF TxOK, StageOK, Stages
  <2>3. At(q, "add", "favorite") \/ req[q].at = "more" => book'[t.book].exists
    BY <1>3, <1>1, <2>2 DEF TxOK, StageOK, InsertOK, Inserts, At
  <2>4. HasCollection(q) => collection'[t.collection] = collection[t.collection]
    BY <1>3, <1>4, InsertedTables
  <2>5. InsertOK(q) BY <1>1 DEF TxOK
  <2>6. req[q].op = "add" \/ req[q].at \in {"on", "more"} => t.position > 0 BY <1>3, <2>5 DEF InsertOK
  <2>7. At(q, "add", "insert") => collection'[t.collection].bookCount < BookLimit[t.collection]
    BY <1>3, <2>1, <2>4, <2>5 DEF InsertOK, At
  <2>8. At(q, "add", "favorite") \/ req[q].at \in {"on", "more"} =>
          \A i \in ItemsIn(t.collection)' : i.book # t.book /\ i.position # t.position
    BY <1>3, <1>5, <2>1, <2>2, <2>5 DEF InsertOK, At
  <2>9. QED BY <1>3, <2>3, <2>6, <2>7, <2>8 DEF InsertOK, At
<1>7. DeleteOK(q)'
  <2>1. DeleteOK(q) BY <1>1 DEF TxOK
  <2>2. req[q].op = "remove" \/ req[q].at \in {"off", "less"} =>
          req[q].item <= lastItem /\ req[q].item <= lastItem' /\ WithId(t.item)' = WithId(t.item)
    <3>1. req[q].item \in Nat /\ lastItem \in Nat /\ lastItem' = lastItem + 1 BY Shapes DEF Transactions, Inserts
    <3>2. req[q].item <= lastItem => WithId(t.item)' = WithId(t.item) BY <1>3, InsertedTables
    <3>3. QED BY <1>3, <2>1, <3>1, <3>2 DEF DeleteOK
  <2>3. QED BY <1>3, <2>1, <2>2 DEF DeleteOK, At
<1>8. MovesOK(q)'
  <2>1. req[q].at = "write" => HasCollection(q) BY <1>1 DEF TxOK, StageOK, Stages, HasCollection
  <2>2. MovesOK(q) BY <1>1 DEF TxOK
  <2>3. QED BY <1>3, <1>5, <2>1, <2>2 DEF MovesOK, Named
<1>9. CollectionOK(q)'
  <2>1. req[q].at = "items" => HasCollection(q) BY <1>1 DEF TxOK, StageOK, Stages, HasCollection
  <2>2. CollectionOK(q) BY <1>1 DEF TxOK
  <2>3. HasCollection(q) => Live(t.collection)' = Live(t.collection) BY <1>3, <1>4, InsertedTables
  <2>4. QED BY <1>3, <1>5, <2>1, <2>2, <2>3 DEF CollectionOK, HasCollection
<1>10. BookOK(q)'
  <2>1. SUFFICES ASSUME req[q].op = "deleteBook" PROVE BookOK(q)' BY DEF BookOK
  <2>2. PICK d : d = req[q].book /\ d = req'[q].book OBVIOUS
  <2>3. BookOK(q) /\ StageOK(q) /\ LocksOK(q) /\ d \in Book /\ req[q].listed \in SUBSET Collection
    BY <1>1, <2>2, <2>1, Shapes DEF TxOK, StageOK, Transactions
  <2>4. \A x \in req[q].listed : collection'[x].state # "none" BY <2>1, <2>3, InsertedTables DEF BookOK
  <2>5. book'[d].exists = book[d].exists BY <2>3 DEF Inserts
  <2>6. \A x \in Collection \ raced' : x \in Collection \ raced /\ Live(x)' = Live(x) BY InsertedTables
  <2>7. CASE d # b
    <3>1. ItemsOf(d)' = ItemsOf(d) BY <2>7, InsertedTables
    <3>2. QED BY <2>2, <2>1, <2>3, <2>4, <2>5, <2>6, <3>1 DEF BookOK
  <2>8. CASE d = b
    <3>1. BookKey(b, r) \in WholeBook(b) BY DEF WholeBook
    <3>2. req[q].at = "book" BY <2>2, <1>2, <2>1, <2>3, <2>8, <3>1 DEF StageOK, Stages, LocksOK, At
    <3>3. DeletionUnderWay(b) BY <2>2, <2>1, <2>8, <3>2 DEF DeletionUnderWay
    <3>4. c \in raced' BY <3>3, InsertedTables
    <3>5. ItemsOf(d)' = ItemsOf(d) \cup {new} BY <2>8, InsertedTables
    <3>6. new.collection = c /\ ItemsOf(d)' = ItemsOf(d) \cup {new} BY <3>5 DEF Inserts
    <3>7. \A x \in Collection \ raced' : (\E i \in ItemsOf(d)' : i.collection = x) <=> (\E i \in ItemsOf(d) : i.collection = x)
      BY <3>4, <3>6
    <3>8. book[d].exists => \A x \in Collection \ raced' :
             Live(x)' => (x \in req[q].listed <=> \E i \in ItemsOf(d)' : i.collection = x)
      BY <2>2, <2>1, <2>3, <2>6, <3>7 DEF BookOK
    <3>9. QED BY <2>2, <2>4, <2>5, <3>2, <3>8 DEF BookOK
  <2>9. QED BY <2>7, <2>8
<1>11. CreateOK(q)' BY <1>1, InsertedTables DEF TxOK, CreateOK, At
<1>12. QED BY <1>6, <1>7, <1>8, <1>9, <1>10, <1>11 DEF TxOK

\* The tables stay in order.
LEMMA InsertedRows ==
  ASSUME IInv, NEW r \in Request, NEW c \in Collection, NEW b \in Book, NEW new \in Item,
         Inserts(r, c, b, new)
  PROVE  RowsOK' /\ RowsStay
<1>1. /\ items' = items \cup {new} /\ lastItem' = lastItem + 1 /\ new.id = lastItem + 1
      /\ new.collection = c /\ new.book = b /\ Live(c) /\ book[b].exists
      /\ \A d \in Book : book'[d].exists = book[d].exists
  BY DEF Inserts
<1>2. new \notin items /\ \A i \in items : i.id < new.id BY InsertedTables
<1>3. \A d \in Collection : Live(d)' = Live(d) BY InsertedTables
<1>4. IsFiniteSet(items)' BY <1>1, FS_AddElement DEF IInv, RowsOK
<1>5. IsFiniteSet(UserCollections)' BY InsertedTables DEF IInv, RowsOK
<1>6. \A i, j \in items' : i.id = j.id => i = j
  <2>1. \A i \in items : i.id # new.id BY <1>2, Shapes
  <2>2. QED BY <1>1, <2>1 DEF IInv, RowsOK
<1>7. \A i \in items' : i.id <= lastItem'
  <2>1. \A i \in items : i.id <= lastItem /\ i.id \in Nat BY Shapes DEF IInv, RowsOK
  <2>2. QED BY <1>1, <2>1, Shapes
<1>8. \A i \in items' : Live(i.collection)' /\ book'[i.book].exists
  <2>1. \A i \in items : Live(i.collection) /\ book[i.book].exists /\ i.collection \in Collection /\ i.book \in Book
    BY Shapes DEF IInv, RowsOK
  <2>2. QED BY <1>1, <1>3, <2>1
<1>9. \A d \in Favorites : Live(d)' BY <1>3, CollectionsAssumption DEF IInv, RowsOK
<1>10. RowsStay
  <2>1. lastItem <= lastItem' /\ ~(new.id <= lastItem) BY <1>1, Shapes
  <2>2. QED BY <1>1, <2>1 DEF RowsStay
<1>11. QED BY <1>4, <1>5, <1>6, <1>7, <1>8, <1>9, <1>10 DEF RowsOK

\* The counters count the new item, and the limits leave room for it.
LEMMA InsertedCounts ==
  ASSUME IInv, NEW r \in Request, NEW c \in Collection, NEW b \in Book, NEW new \in Item,
         Inserts(r, c, b, new)
  PROVE  CountsOK'
<1>1. /\ new.collection = c /\ new.book = b /\ items' = items \cup {new} /\ book[b].exists /\ Live(c)
      /\ \A i \in ItemsIn(c) : i.book # b /\ i.position # new.position
  BY DEF Inserts
<1>2. new \notin items BY InsertedTables
<1>3. /\ \A d : ItemsIn(d)' = IF d = c THEN ItemsIn(d) \cup {new} ELSE ItemsIn(d)
      /\ raced \subseteq raced'
      /\ \A d \in Collection : /\ Live(d)' = Live(d)
                               /\ d # c => collection'[d] = collection[d]
                               /\ d = c => collection'[d].bookCount = collection[d].bookCount + 1
  BY InsertedTables
<1>4. /\ IsFiniteSet(ItemsIn(c)') /\ Cardinality(ItemsIn(c)') = Cardinality(ItemsIn(c)) + 1
  <2>1. new \notin ItemsIn(c) BY <1>2 DEF ItemsIn
  <2>2. IsFiniteSet(ItemsIn(c)) BY FiniteParts
  <2>3. ItemsIn(c)' = ItemsIn(c) \cup {new} BY <1>3
  <2>4. QED BY <2>1, <2>2, <2>3, FS_AddElement
<1>5. \A d \in Collection \ {c} : ItemsIn(d)' = ItemsIn(d) BY <1>3
<1>6. BookCountExact'
  <2>1. SUFFICES ASSUME NEW d \in Collection, d \notin raced', Live(d)'
        PROVE  collection'[d].bookCount = Cardinality(ItemsIn(d)')
    BY DEF BookCountExact
  <2>2. collection[d].bookCount = Cardinality(ItemsIn(d))
    BY <1>3, <2>1 DEF IInv, CountsOK, BookCountExact
  <2>3. CASE d = c BY <2>2, <2>3, <1>3, <1>4
  <2>4. CASE d # c BY <2>2, <2>4, <1>3, <1>5
  <2>5. QED BY <2>3, <2>4
<1>7. FavoritesExact'
  <2>1. SUFFICES ASSUME NEW d \in Book, book'[d].exists
        PROVE  book'[d].favoriteCount = Cardinality({i \in ItemsOf(d)' : i.collection \in Favorites})
    BY DEF FavoritesExact
  <2>2. book[d].favoriteCount = Cardinality(FavoritesOf(d)) /\ IsFiniteSet(FavoritesOf(d))
    BY <2>1, FiniteParts DEF IInv, CountsOK, FavoritesExact, FavoritesOf, Inserts
  <2>3. ItemsOf(d)' = IF d = b THEN ItemsOf(d) \cup {new} ELSE ItemsOf(d) BY InsertedTables
  <2>4. book'[d].favoriteCount =
          IF d = b /\ c \in Favorites THEN book[d].favoriteCount + 1 ELSE book[d].favoriteCount
    BY DEF Inserts
  <2>5. new \notin FavoritesOf(d) BY <1>2 DEF FavoritesOf, ItemsOf
  <2>6. {i \in ItemsOf(d)' : i.collection \in Favorites} =
          IF d = b /\ c \in Favorites THEN FavoritesOf(d) \cup {new} ELSE FavoritesOf(d)
    BY <1>1, <2>3 DEF FavoritesOf
  <2>7. Cardinality(FavoritesOf(d) \cup {new}) = Cardinality(FavoritesOf(d)) + 1
    BY <2>2, <2>5, FS_AddElement
  <2>8. QED BY <2>2, <2>4, <2>6, <2>7
<1>8. BookLimitKept'
  <2>1. SUFFICES ASSUME NEW d \in Collection, d \notin Favorites, d \notin raced'
        PROVE  Cardinality(ItemsIn(d)') <= BookLimit[d]
    BY DEF BookLimitKept
  <2>2. Cardinality(ItemsIn(d)) <= BookLimit[d] BY <1>3, <2>1 DEF IInv, CountsOK, BookLimitKept
  <2>3. CASE d = c
    <3>1. collection[c].bookCount = Cardinality(ItemsIn(c))
      BY <1>1, <1>3, <2>1, <2>3 DEF IInv, CountsOK, BookCountExact
    <3>2. collection[c].bookCount < BookLimit[c] BY <2>1, <2>3 DEF Inserts
    <3>3. Cardinality(ItemsIn(c)) \in Nat /\ BookLimit[c] \in Nat BY FiniteParts, CollectionsAssumption
    <3>4. QED BY <2>3, <3>1, <3>2, <3>3, <1>4
  <2>4. CASE d # c BY <2>2, <2>4, <1>5
  <2>5. QED BY <2>3, <2>4
<1>9. UserLimitKept' BY InsertedTables DEF IInv, CountsOK, UserLimitKept
<1>10. ItemsDistinct'
  <2>1. \A i \in items : i.collection = c => i.book # b /\ i.position # new.position BY <1>1 DEF ItemsIn
  <2>2. QED BY <1>1, <2>1 DEF IInv, CountsOK, ItemsDistinct
<1>11. QED BY <1>6, <1>7, <1>8, <1>9, <1>10 DEF CountsOK

\* An insertion keeps the invariant.
LEMMA Inserted ==
  ASSUME IInv, NEW r \in Request, NEW c \in Collection, NEW b \in Book, NEW new,
         new = [id |-> lastItem + 1, collection |-> c, book |-> b, position |-> req[r].position],
         req[r].position > 0, Inserts(r, c, b, new)
  PROVE  IInv'
<1>1. End(r) /\ r \in Inserting /\ lastItem' = lastItem + 1 BY DEF Inserts, Inserting
<1>2. req' = [req EXCEPT ![r] = Idle] BY <1>1 DEF End
<1>3. SlotsOK' /\ lastItem' \in 1..MaxItems BY <1>1, <1>2, SlotsUsed
<1>4. new \in Item
  <2>1. lastItem + 1 \in 1..MaxItems BY <1>1, <1>3
  <2>2. req[r].position \in Nat \ {0} BY Shapes DEF Transactions
  <2>3. QED BY <2>1, <2>2 DEF Item, ItemId
<1>5. Typed'
  <2>1. items' \subseteq Item BY <1>4, Shapes DEF Inserts
  <2>2. book' \in [Book -> [exists : BOOLEAN, favoriteCount : Nat]] BY DEF Inserts
  <2>3. collection' \in [Collection -> [state : {"none", "live", "gone"}, bookCount : Int]]
    BY DEF Inserts, IInv, Typed, TypeOK
  <2>4. raced' \subseteq Collection BY DEF Inserts, NoteRace, IInv, Typed, TypeOK
  <2>5. lastItem' \in 0..MaxItems BY <1>3, Shapes
  <2>6. QED BY <1>1, <2>1, <2>2, <2>3, <2>4, <2>5, TypedAtEnd
<1>6. RowsOK' /\ RowsStay BY <1>4, InsertedRows
<1>7. CountsOK' BY <1>4, InsertedCounts
<1>8. ASSUME NEW q \in Request \ {r} PROVE TxOK(q)'
  <2>1. req'[q] = req[q] BY <1>2, Shapes
  <2>2. lastItem' \in 0..MaxItems BY <1>3, Shapes
  <2>3. StageOK(q)' /\ WantsOK(q)' /\ LocksOK(q)' /\ ReorderOK(q)' BY <1>6, <2>1, <2>2, OthersGoOn
  <2>4. QED BY <1>4, <2>1, <2>3, InsertedOthers
<1>9. QED BY <1>1, <1>3, <1>5, <1>6, <1>7, <1>8, Ended

\* The first statement of addBook that writes.
LEMMA InsertItemStep ==
  ASSUME IInv, NEW r \in Request, InsertItem(r)
  PROVE  IInv'
<1> DEFINE c == req[r].collection
           b == req[r].book
<1>1. At(r, "add", "insert") /\ Blockers(r) = {} BY DEF InsertItem, Runs
<1>2. StageOK(r) /\ WantsOK(r) /\ LocksOK(r) /\ InsertOK(r) /\ CollectionOK(r) BY DEF IInv, TxOK
<1>3. CASE Rollback(r) BY <1>3, RollbackStep
<1>4. CASE /\ book[b].exists /\ Conflicting(r, c, b, req[r].position) = {} /\ c \in Favorites
           /\ GoTo(r, "favorite", {BookRow(b)}) /\ UNCHANGED tables
  BY <1>1, <1>4, FavoriteGoes
<1>5. ASSUME book[b].exists, Conflicting(r, c, b, req[r].position) = {}, c \notin Favorites,
             Insert(r), End(r), UNCHANGED book
      PROVE  IInv'
  <2>1. PICK new : new = [id |-> lastItem + 1, collection |-> c, book |-> b, position |-> req[r].position]
    OBVIOUS
  <2>2. c \in Collection /\ b \in Book /\ req[r].position > 0 /\ HasCollection(r)
    BY <1>1, <1>2 DEF StageOK, InsertOK, At, HasCollection
  <2>3. {CollectionRow(c), BookKey(b, r)} \subseteq req[r].locks \cup req[r].wants
    BY <1>1, <1>2, <2>2 DEF WantsOK, LocksOK
  <2>4. Live(c) /\ collection[c].bookCount < BookLimit[c] BY <1>1, <1>2, <2>2 DEF CollectionOK, InsertOK
  <2>5. \A i \in ItemsIn(c) : i.book # b /\ i.position # new.position BY <1>5, <2>1 DEF Conflicting
  <2>6. /\ new.id = lastItem + 1 /\ new.collection = c /\ new.book = b
        /\ items' = items \cup {new} /\ lastItem' = lastItem + 1
        /\ collection' = [collection EXCEPT ![c].bookCount = @ + 1] /\ NoteRace(c, b)
    BY <1>5, <2>1 DEF Insert
  <2>7. /\ book' \in [Book -> [exists : BOOLEAN, favoriteCount : Nat]]
        /\ \A d \in Book :
             /\ book'[d].exists = book[d].exists
             /\ book'[d].favoriteCount =
                  IF d = b /\ c \in Favorites THEN book[d].favoriteCount + 1 ELSE book[d].favoriteCount
    BY <1>5 DEF IInv, Typed, TypeOK
  <2>8. req[r].op \in {"add", "toggle"} BY <1>1 DEF At
  <2>9. Inserts(r, c, b, new) BY <1>1, <1>5, <2>3, <2>4, <2>5, <2>6, <2>7, <2>8 DEF Inserts
  <2>10. QED BY <2>1, <2>2, <2>9, Inserted
<1>6. QED BY <1>3, <1>4, <1>5 DEF InsertItem

\* The last statement of an insertion into the favourites.
LEMMA FavoriteInserted ==
  ASSUME IInv, NEW r \in Request, At(r, "add", "favorite") \/ At(r, "toggle", "more"), Blockers(r) = {},
         book' = [book EXCEPT ![req[r].book].favoriteCount = @ + 1], Insert(r), End(r)
  PROVE  IInv'
<1> DEFINE c == req[r].collection
           b == req[r].book
<1>1. StageOK(r) /\ WantsOK(r) /\ LocksOK(r) /\ InsertOK(r) /\ CollectionOK(r) BY DEF IInv, TxOK
<1>2. PICK new : new = [id |-> lastItem + 1, collection |-> c, book |-> b, position |-> req[r].position]
  OBVIOUS
<1>3. c \in Collection /\ b \in Book /\ c \in Favorites /\ req[r].position > 0 /\ HasCollection(r)
  BY <1>1 DEF StageOK, InsertOK, At, HasCollection
<1>4. {CollectionRow(c), BookKey(b, r)} \subseteq req[r].locks \cup req[r].wants BY <1>1, <1>3 DEF LocksOK
<1>5. Live(c) /\ book[b].exists BY <1>1, <1>3 DEF CollectionOK, InsertOK, At
<1>6. \A i \in ItemsIn(c) : i.book # b /\ i.position # new.position BY <1>1, <1>2 DEF InsertOK, At
<1>7. /\ new.id = lastItem + 1 /\ new.collection = c /\ new.book = b
      /\ items' = items \cup {new} /\ lastItem' = lastItem + 1
      /\ collection' = [collection EXCEPT ![c].bookCount = @ + 1] /\ NoteRace(c, b)
  BY <1>2 DEF Insert
<1>8. /\ book' \in [Book -> [exists : BOOLEAN, favoriteCount : Nat]]
      /\ \A d \in Book :
           /\ book'[d].exists = book[d].exists
           /\ book'[d].favoriteCount =
                IF d = b /\ c \in Favorites THEN book[d].favoriteCount + 1 ELSE book[d].favoriteCount
  <2>1. book \in [Book -> [exists : BOOLEAN, favoriteCount : Nat]] BY DEF IInv, Typed, TypeOK
  <2>2. QED BY <2>1, <1>3
<1>9. req[r].op \in {"add", "toggle"} BY DEF At
<1>10. Inserts(r, c, b, new) BY <1>3, <1>4, <1>5, <1>6, <1>7, <1>8, <1>9 DEF Inserts
<1>11. QED BY <1>2, <1>3, <1>10, Inserted

-----------------------------------------------------------------------------
(***************************************************************************)
(* A removal commits                                                       *)
(***************************************************************************)

\* What the three removals have in common.
Deletes(r, c, b, i) ==
  /\ Blockers(r) = {} /\ End(r)
  /\ {CollectionRow(c), ItemRow(i.id)} \subseteq req[r].locks \cup req[r].wants
  /\ i.collection = c /\ i.book = b
  /\ items' = items \ {i} /\ lastItem' = lastItem
  /\ collection' = [collection EXCEPT ![c].bookCount = @ - 1]
  /\ NoteRace(c, b)
  /\ book' \in [Book -> [exists : BOOLEAN, favoriteCount : Nat]]
  /\ \A d \in Book :
       /\ book'[d].exists = book[d].exists
       /\ book[d].exists => book'[d].favoriteCount =
            IF d = b /\ c \in Favorites THEN book[d].favoriteCount - 1 ELSE book[d].favoriteCount

\* The tables after it.
LEMMA DeletedTables ==
  ASSUME IInv, NEW r \in Request, NEW c \in Collection, NEW b \in Book, NEW i \in items, Deletes(r, c, b, i)
  PROVE  /\ \A d : ItemsIn(d)' = IF d = c THEN ItemsIn(d) \ {i} ELSE ItemsIn(d)
         /\ \A d : ItemsOf(d)' = IF d = b THEN ItemsOf(d) \ {i} ELSE ItemsOf(d)
         /\ \A id : /\ WithId(id)' \subseteq WithId(id)
                    /\ id # i.id => WithId(id)' = WithId(id)
         /\ \A d \in Collection : /\ Live(d)' = Live(d) /\ collection'[d].state = collection[d].state
                                  /\ d # c => collection'[d] = collection[d]
                                  /\ d = c => collection'[d].bookCount = collection[d].bookCount - 1
         /\ UserCollections' = UserCollections
         /\ raced \subseteq raced' /\ (DeletionUnderWay(b) => c \in raced')
<1>1. items' = items \ {i} /\ i.collection = c /\ i.book = b BY DEF Deletes
<1>2. \A d : ItemsIn(d)' = IF d = c THEN ItemsIn(d) \ {i} ELSE ItemsIn(d) BY <1>1 DEF ItemsIn
<1>3. \A d : ItemsOf(d)' = IF d = b THEN ItemsOf(d) \ {i} ELSE ItemsOf(d) BY <1>1 DEF ItemsOf
<1>4. \A id : WithId(id)' \subseteq WithId(id) /\ (id # i.id => WithId(id)' = WithId(id)) BY <1>1 DEF WithId
<1>5. \A d \in Collection : /\ Live(d)' = Live(d) /\ collection'[d].state = collection[d].state
                            /\ d # c => collection'[d] = collection[d]
                            /\ d = c => collection'[d].bookCount = collection[d].bookCount - 1
  <2>1. collection' = [collection EXCEPT ![c].bookCount = @ - 1] BY DEF Deletes
  <2>2. collection \in [Collection -> [state : {"none", "live", "gone"}, bookCount : Int]]
    BY DEF IInv, Typed, TypeOK
  <2>3. QED BY <2>1, <2>2 DEF Live
<1>6. UserCollections' = UserCollections BY <1>5 DEF UserCollections
<1>7. raced \subseteq raced' /\ (DeletionUnderWay(b) => c \in raced') BY DEF Deletes, NoteRace
<1>8. QED BY <1>2, <1>3, <1>4, <1>5, <1>6, <1>7

\* A request whose collection a commit does not touch, except to take items from it.
LEMMA CollectionKept ==
  ASSUME IInv, NEW q \in Request, NEW t, t = req[q], t = req'[q],
         HasCollection(q) => /\ ItemsIn(t.collection)' \subseteq ItemsIn(t.collection)
                             /\ collection'[t.collection] = collection[t.collection],
         BookKey(t.book, q) \in req[q].locks => book'[t.book].exists = book[t.book].exists
  PROVE  InsertOK(q)' /\ MovesOK(q)' /\ CollectionOK(q)'
<1>1. StageOK(q) /\ LocksOK(q) /\ InsertOK(q) /\ MovesOK(q) /\ CollectionOK(q) BY DEF IInv, TxOK
<1>2. InsertOK(q)'
  <2>1. At(q, "add", "insert") \/ At(q, "add", "favorite") \/ At(q, "toggle", "on") \/ At(q, "toggle", "more")
        => HasCollection(q)
    BY DEF HasCollection, At
  <2>2. req[q].at \in {"on", "more"} => req[q].op = "toggle" BY <1>1 DEF StageOK, Stages
  <2>3. At(q, "add", "favorite") \/ req[q].at = "more" => book'[t.book].exists
    BY <1>1, <2>2 DEF LocksOK, InsertOK, At
  <2>4. req[q].op = "add" \/ req[q].at \in {"on", "more"} => t.position > 0 BY <1>1 DEF InsertOK
  <2>5. At(q, "add", "insert") => collection'[t.collection].bookCount < BookLimit[t.collection]
    BY <1>1, <2>1 DEF InsertOK
  <2>6. At(q, "add", "favorite") \/ req[q].at \in {"on", "more"} =>
          \A i \in ItemsIn(t.collection)' : i.book # t.book /\ i.position # t.position
    BY <1>1, <2>1, <2>2 DEF InsertOK, At
  <2>7. QED BY <2>3, <2>4, <2>5, <2>6 DEF InsertOK, At
<1>3. MovesOK(q)'
  <2>1. req[q].at = "write" => HasCollection(q) BY <1>1 DEF StageOK, Stages, HasCollection
  <2>2. QED BY <1>1, <2>1 DEF MovesOK, Named
<1>4. CollectionOK(q)'
  <2>1. req[q].at = "items" => HasCollection(q) BY <1>1 DEF StageOK, Stages, HasCollection
  <2>2. HasCollection(q) => Live(t.collection) /\ Live(t.collection)' BY <1>1 DEF CollectionOK, Live
  <2>3. req[q].at = "items" => ItemRows(ItemsIn(t.collection)') \subseteq req[q].wants
    BY <1>1, <2>1 DEF CollectionOK, ItemRows
  <2>4. QED BY <2>2, <2>3 DEF CollectionOK, HasCollection, ItemRows
<1>5. QED BY <1>2, <1>3, <1>4

\* It takes nothing from the others.
LEMMA DeletedOthers ==
  ASSUME IInv, NEW r \in Request, NEW c \in Collection, NEW b \in Book, NEW i \in items,
         Deletes(r, c, b, i), NEW q \in Request, q # r, req'[q] = req[q],
         StageOK(q)', WantsOK(q)', LocksOK(q)', ReorderOK(q)'
  PROVE  TxOK(q)'
<1>1. TxOK(q) BY DEF IInv
<1>2. CollectionRow(c) \notin req[q].locks /\ ItemRow(i.id) \notin req[q].locks
  <2>1. Blockers(r) = {} /\ {CollectionRow(c), ItemRow(i.id)} \subseteq req[r].locks \cup req[r].wants BY DEF Deletes
  <2>2. QED BY <2>1, Owner
<1>3. PICK t : t = req[q] /\ t = req'[q] OBVIOUS
<1>4. HasCollection(q) => t.collection # c /\ t.collection \in Collection
  BY <1>1, <1>2, <1>3 DEF TxOK, LocksOK, StageOK, HasCollection
<1>5. HasCollection(q) => /\ ItemsIn(t.collection)' \subseteq ItemsIn(t.collection)
                          /\ collection'[t.collection] = collection[t.collection]
  BY <1>4, DeletedTables
<1>6. BookKey(t.book, q) \in req[q].locks => book'[t.book].exists = book[t.book].exists
  <2>1. BookKey(t.book, q) \in req[q].locks => t.book \in Book
    <3>1. req[q].locks \subseteq Row BY Shapes DEF Transactions
    <3>2. \A d : BookKey(d, q) \in Row => d \in Book BY RowsDistinct, ItemRowsApart DEF Row
    <3>3. QED BY <3>1, <3>2
  <2>2. QED BY <2>1 DEF Deletes
<1>7. InsertOK(q)' /\ MovesOK(q)' /\ CollectionOK(q)' BY <1>3, <1>5, <1>6, CollectionKept
<1>8. DeleteOK(q)'
  <2>1. DeleteOK(q) /\ LocksOK(q) /\ StageOK(q) BY <1>1 DEF TxOK
  <2>2. WithId(t.item)' \subseteq WithId(t.item) /\ (t.item # i.id => WithId(t.item)' = WithId(t.item)) BY DeletedTables
  <2>3. lastItem' = lastItem BY DEF Deletes
  <2>4. At(q, "remove", "count") \/ At(q, "remove", "favorite") \/ req[q].at = "less"
        => t.item # i.id /\ WithId(t.item) # {}
    BY <1>2, <1>3, <2>1 DEF LocksOK, DeleteOK, StageOK, Stages, At
  <2>5. QED BY <1>3, <2>1, <2>2, <2>3, <2>4 DEF DeleteOK, At
<1>9. BookOK(q)'
  <2>1. SUFFICES ASSUME req[q].op = "deleteBook" PROVE BookOK(q)' BY DEF BookOK
  <2>2. PICK d : d = req[q].book /\ d = req'[q].book OBVIOUS
  <2>3. BookOK(q) /\ StageOK(q) /\ LocksOK(q) /\ d \in Book /\ req[q].listed \in SUBSET Collection
    BY <1>1, <2>1, <2>2, Shapes DEF TxOK, StageOK, Transactions
  <2>4. \A x \in req[q].listed : collection'[x].state # "none" BY <2>1, <2>3, DeletedTables DEF BookOK
  <2>5. book'[d].exists = book[d].exists BY <2>3 DEF Deletes
  <2>6. \A x \in Collection \ raced' : x \in Collection \ raced /\ Live(x)' = Live(x) BY DeletedTables
  <2>7. CASE d # b
    <3>1. ItemsOf(d)' = ItemsOf(d) BY <2>7, DeletedTables
    <3>2. QED BY <2>1, <2>2, <2>3, <2>4, <2>5, <2>6, <3>1 DEF BookOK
  <2>8. CASE d = b
    <3>1. i.collection = c /\ i \in ItemsOf(b) BY DEF Deletes, ItemsOf
    <3>2. ItemsOf(d)' = ItemsOf(d) \ {i} BY <2>8, DeletedTables
    <3>3. ItemRow(i.id) \in ItemRows(ItemsOf(b)) BY <3>1 DEF ItemRows, ItemRow
    <3>4. req[q].at \in {"book", "cascade"}
      BY <1>2, <2>1, <2>2, <2>3, <2>8, <3>3 DEF BookOK, StageOK, Stages
    <3>5. DeletionUnderWay(b) BY <2>1, <2>2, <2>8, <3>4 DEF DeletionUnderWay
    <3>6. c \in raced' BY <3>5, DeletedTables
    <3>7. \A x \in Collection \ raced' : (\E j \in ItemsOf(d)' : j.collection = x) <=> (\E j \in ItemsOf(d) : j.collection = x)
      BY <3>1, <3>2, <3>6
    <3>8. book[d].exists => \A x \in Collection \ raced' :
             Live(x)' => (x \in req[q].listed <=> \E j \in ItemsOf(d)' : j.collection = x)
      BY <2>1, <2>2, <2>3, <2>6, <3>7 DEF BookOK
    <3>9. req[q].at = "cascade" => ItemRows(ItemsOf(d)') \subseteq req[q].wants
      BY <2>1, <2>2, <2>3, <3>2 DEF BookOK, ItemRows
    <3>10. QED BY <2>1, <2>2, <2>3, <2>4, <2>5, <3>4, <3>8, <3>9 DEF BookOK, ItemRows
  <2>9. QED BY <2>7, <2>8
<1>10. CreateOK(q)' BY <1>1, DeletedTables DEF TxOK, CreateOK, At
<1>11. QED BY <1>7, <1>8, <1>9, <1>10 DEF TxOK

\* The tables stay in order.
LEMMA DeletedRows ==
  ASSUME IInv, NEW r \in Request, NEW c \in Collection, NEW b \in Book, NEW i \in items, Deletes(r, c, b, i)
  PROVE  RowsOK' /\ RowsStay
<1>1. items' = items \ {i} /\ lastItem' = lastItem /\ \A d \in Book : book'[d].exists = book[d].exists
  BY DEF Deletes
<1>2. \A d \in Collection : Live(d)' = Live(d) BY DeletedTables
<1>3. IsFiniteSet(items)' BY <1>1, FS_RemoveElement DEF IInv, RowsOK
<1>4. IsFiniteSet(UserCollections)' BY DeletedTables DEF IInv, RowsOK
<1>5. \A j, k \in items' : j.id = k.id => j = k BY <1>1 DEF IInv, RowsOK
<1>6. \A j \in items' : j.id <= lastItem' /\ Live(j.collection)' /\ book'[j.book].exists
  <2>1. \A j \in items : /\ j.id <= lastItem /\ Live(j.collection) /\ book[j.book].exists
                         /\ j.collection \in Collection /\ j.book \in Book
    BY Shapes DEF IInv, RowsOK
  <2>2. QED BY <1>1, <1>2, <2>1
<1>7. \A d \in Favorites : Live(d)' BY <1>2, CollectionsAssumption DEF IInv, RowsOK
<1>8. RowsStay BY <1>1, Shapes DEF RowsStay
<1>9. QED BY <1>3, <1>4, <1>5, <1>6, <1>7, <1>8 DEF RowsOK

\* The counters no longer count the item.
LEMMA DeletedCounts ==
  ASSUME IInv, NEW r \in Request, NEW c \in Collection, NEW b \in Book, NEW i \in items, Deletes(r, c, b, i)
  PROVE  CountsOK'
<1>1. i.collection = c /\ i.book = b /\ items' = items \ {i} BY DEF Deletes
<1>2. /\ \A d : ItemsIn(d)' = IF d = c THEN ItemsIn(d) \ {i} ELSE ItemsIn(d)
      /\ raced \subseteq raced'
      /\ \A d \in Collection : /\ Live(d)' = Live(d)
                               /\ d # c => collection'[d] = collection[d]
                               /\ d = c => collection'[d].bookCount = collection[d].bookCount - 1
  BY DeletedTables
<1>3. IsFiniteSet(ItemsIn(c)') /\ Cardinality(ItemsIn(c)') = Cardinality(ItemsIn(c)) - 1
  <2>1. i \in ItemsIn(c) BY <1>1 DEF ItemsIn
  <2>2. IsFiniteSet(ItemsIn(c)) BY FiniteParts
  <2>3. ItemsIn(c)' = ItemsIn(c) \ {i} BY <1>2
  <2>4. QED BY <2>1, <2>2, <2>3, FS_RemoveElement
<1>4. \A d \in Collection \ {c} : ItemsIn(d)' = ItemsIn(d) BY <1>2
<1>5. BookCountExact'
  <2>1. SUFFICES ASSUME NEW d \in Collection, d \notin raced', Live(d)'
        PROVE  collection'[d].bookCount = Cardinality(ItemsIn(d)')
    BY DEF BookCountExact
  <2>2. collection[d].bookCount = Cardinality(ItemsIn(d))
    BY <1>2, <2>1 DEF IInv, CountsOK, BookCountExact
  <2>3. CASE d = c BY <2>2, <2>3, <1>2, <1>3
  <2>4. CASE d # c BY <2>2, <2>4, <1>2, <1>4
  <2>5. QED BY <2>3, <2>4
<1>6. FavoritesExact'
  <2>1. SUFFICES ASSUME NEW d \in Book, book'[d].exists
        PROVE  book'[d].favoriteCount = Cardinality({j \in ItemsOf(d)' : j.collection \in Favorites})
    BY DEF FavoritesExact
  <2>2. book[d].exists /\ book[d].favoriteCount = Cardinality(FavoritesOf(d)) /\ IsFiniteSet(FavoritesOf(d))
    BY <2>1, FiniteParts DEF IInv, CountsOK, FavoritesExact, FavoritesOf, Deletes
  <2>3. ItemsOf(d)' = IF d = b THEN ItemsOf(d) \ {i} ELSE ItemsOf(d) BY DeletedTables
  <2>4. book'[d].favoriteCount =
          IF d = b /\ c \in Favorites THEN book[d].favoriteCount - 1 ELSE book[d].favoriteCount
    BY <2>2 DEF Deletes
  <2>5. CASE d = b /\ c \in Favorites
    <3>1. i \in FavoritesOf(d) BY <1>1, <2>5 DEF FavoritesOf, ItemsOf
    <3>2. {j \in ItemsOf(d)' : j.collection \in Favorites} = FavoritesOf(d) \ {i} BY <2>3, <2>5 DEF FavoritesOf
    <3>3. Cardinality(FavoritesOf(d) \ {i}) = Cardinality(FavoritesOf(d)) - 1
      BY <2>2, <3>1, FS_RemoveElement
    <3>4. QED BY <2>2, <2>4, <2>5, <3>2, <3>3
  <2>6. CASE ~(d = b /\ c \in Favorites)
    <3>1. {j \in ItemsOf(d)' : j.collection \in Favorites} = FavoritesOf(d)
      BY <1>1, <2>3, <2>6 DEF FavoritesOf, ItemsOf
    <3>2. QED BY <2>2, <2>4, <2>6, <3>1
  <2>7. QED BY <2>5, <2>6
<1>7. BookLimitKept'
  <2>1. SUFFICES ASSUME NEW d \in Collection, d \notin Favorites, d \notin raced'
        PROVE  Cardinality(ItemsIn(d)') <= BookLimit[d]
    BY DEF BookLimitKept
  <2>2. Cardinality(ItemsIn(d)) <= BookLimit[d] BY <1>2, <2>1 DEF IInv, CountsOK, BookLimitKept
  <2>3. Cardinality(ItemsIn(c)) \in Nat /\ BookLimit[d] \in Nat BY FiniteParts, CollectionsAssumption
  <2>4. QED BY <1>3, <1>4, <2>2, <2>3
<1>8. UserLimitKept' BY DeletedTables DEF IInv, CountsOK, UserLimitKept
<1>9. ItemsDistinct' BY <1>1 DEF IInv, CountsOK, ItemsDistinct
<1>10. QED BY <1>5, <1>6, <1>7, <1>8, <1>9 DEF CountsOK

\* A removal keeps the invariant.
LEMMA Deleted ==
  ASSUME IInv, NEW r \in Request, NEW c \in Collection, NEW b \in Book, NEW i \in items, Deletes(r, c, b, i)
  PROVE  IInv'
<1>1. End(r) /\ lastItem' = lastItem BY DEF Deletes
<1>2. req' = [req EXCEPT ![r] = Idle] /\ Idle \in Transactions /\ Idle.op = "none"
  BY <1>1, IdleTyped DEF End, Idle
<1>3. SlotsOK' BY <1>1, <1>2, SlotsKeep
<1>4. Typed'
  <2>1. items' \subseteq Item /\ lastItem' \in 0..MaxItems BY <1>1, Shapes DEF Deletes
  <2>2. book' \in [Book -> [exists : BOOLEAN, favoriteCount : Nat]] BY DEF Deletes
  <2>3. collection' \in [Collection -> [state : {"none", "live", "gone"}, bookCount : Int]]
    BY DEF Deletes, IInv, Typed, TypeOK
  <2>4. raced' \subseteq Collection BY DEF Deletes, NoteRace, IInv, Typed, TypeOK
  <2>5. QED BY <1>1, <2>1, <2>2, <2>3, <2>4, TypedAtEnd
<1>5. RowsOK' /\ RowsStay BY DeletedRows
<1>6. CountsOK' BY DeletedCounts
<1>7. ASSUME NEW q \in Request \ {r} PROVE TxOK(q)'
  <2>1. req'[q] = req[q] BY <1>2, Shapes
  <2>2. lastItem' \in 0..MaxItems BY <1>1, Shapes
  <2>3. StageOK(q)' /\ WantsOK(q)' /\ LocksOK(q)' /\ ReorderOK(q)' BY <1>5, <2>1, <2>2, OthersGoOn
  <2>4. QED BY <2>1, <2>3, DeletedOthers
<1>8. QED BY <1>1, <1>3, <1>4, <1>5, <1>6, <1>7, Ended

\* The item that a request takes away.
LEMMA ItemTaken ==
  ASSUME IInv, NEW r \in Request, Blockers(r) = {}, Delete(r), End(r),
         At(r, "remove", "count") \/ At(r, "remove", "favorite") \/ At(r, "toggle", "less"),
         book' \in [Book -> [exists : BOOLEAN, favoriteCount : Nat]],
         \A d \in Book :
           /\ book'[d].exists = book[d].exists
           /\ book[d].exists => book'[d].favoriteCount =
                IF d = req[r].book /\ req[r].collection \in Favorites
                THEN book[d].favoriteCount - 1 ELSE book[d].favoriteCount
  PROVE  IInv'
<1> DEFINE c == req[r].collection
           b == req[r].book
<1>1. StageOK(r) /\ WantsOK(r) /\ LocksOK(r) /\ DeleteOK(r) BY DEF IInv, TxOK
<1>2. c \in Collection /\ b \in Book BY <1>1 DEF StageOK, At
<1>3. PICK i \in WithId(req[r].item) : i.collection = c /\ i.book = b BY <1>1 DEF DeleteOK, At
<1>4. i \in items /\ i.id = req[r].item BY DEF WithId
<1>5. WithId(req[r].item) = {i} BY <1>4 DEF WithId, IInv, RowsOK
<1>6. {CollectionRow(c), ItemRow(i.id)} \subseteq req[r].locks \cup req[r].wants
  BY <1>1, <1>4 DEF WantsOK, LocksOK, HasCollection, At
<1>7. /\ items' = items \ {i} /\ lastItem' = lastItem
      /\ collection' = [collection EXCEPT ![c].bookCount = @ - 1] /\ NoteRace(c, b)
  BY <1>5 DEF Delete
<1>8. Deletes(r, c, b, i) BY <1>3, <1>6, <1>7 DEF Deletes
<1>9. QED BY <1>2, <1>4, <1>8, Deleted

\* A favourite that is taken away has been counted.
LEMMA FavoriteCounted ==
  ASSUME IInv, NEW r \in Request, At(r, "remove", "favorite") \/ At(r, "toggle", "less")
  PROVE  /\ req[r].book \in Book /\ req[r].collection \in Favorites
         /\ book[req[r].book].exists /\ book[req[r].book].favoriteCount > 0
         /\ book \in [Book -> [exists : BOOLEAN, favoriteCount : Nat]]
<1>1. StageOK(r) /\ DeleteOK(r) BY DEF IInv, TxOK
<1>2. req[r].book \in Book /\ req[r].collection \in Favorites BY <1>1 DEF StageOK, At
<1>3. PICK i \in WithId(req[r].item) : i.collection = req[r].collection /\ i.book = req[r].book
  BY <1>1 DEF DeleteOK, At
<1>4. i \in items /\ i \in FavoritesOf(req[r].book) BY <1>2, <1>3 DEF WithId, FavoritesOf, ItemsOf
<1>5. book[req[r].book].exists BY <1>3, <1>4 DEF IInv, RowsOK
<1>6. Cardinality(FavoritesOf(req[r].book)) \in Nat /\ Cardinality(FavoritesOf(req[r].book)) # 0
  BY <1>4, FiniteParts, FS_EmptySet
<1>7. book[req[r].book].favoriteCount = Cardinality(FavoritesOf(req[r].book))
  BY <1>2, <1>5 DEF IInv, CountsOK, FavoritesExact, FavoritesOf
<1>8. QED BY <1>2, <1>5, <1>6, <1>7 DEF IInv, Typed, TypeOK

\* removeBook locks the item, or finds it gone.
LEMMA DeleteItemStep ==
  ASSUME IInv, NEW r \in Request, DeleteItem(r)
  PROVE  IInv'
BY RollbackStep, DeleteItemGoes DEF DeleteItem, Runs

\* removeBook counts the collection down.
LEMMA CountRemovedStep ==
  ASSUME IInv, NEW r \in Request, CountRemoved(r)
  PROVE  IInv'
<1>1. At(r, "remove", "count") /\ Blockers(r) = {} BY DEF CountRemoved, Runs
<1>2. CASE req[r].collection \in Favorites
  <2>1. GoTo(r, "favorite", {BookRow(req[r].book)}) /\ UNCHANGED tables BY <1>2 DEF CountRemoved
  <2>2. QED BY <1>1, <1>2, <2>1, CountRemovedGoes
<1>3. CASE req[r].collection \notin Favorites
  <2>1. Delete(r) /\ End(r) /\ book' = book BY <1>3 DEF CountRemoved
  <2>2. book' \in [Book -> [exists : BOOLEAN, favoriteCount : Nat]] BY <2>1 DEF IInv, Typed, TypeOK
  <2>3. QED BY <1>1, <1>3, <2>1, <2>2, ItemTaken
<1>4. QED BY <1>2, <1>3

\* removeBook counts the favourites of the book down.
LEMMA FavoriteRemovedStep ==
  ASSUME IInv, NEW r \in Request, FavoriteRemoved(r)
  PROVE  IInv'
<1>1. At(r, "remove", "favorite") /\ Blockers(r) = {} /\ Delete(r) /\ End(r) BY DEF FavoriteRemoved, Runs
<1>2. book' = [book EXCEPT ![req[r].book].favoriteCount = IF @ > 0 THEN @ - 1 ELSE 0] BY DEF FavoriteRemoved
<1>3. /\ req[r].book \in Book /\ req[r].collection \in Favorites
      /\ book[req[r].book].favoriteCount > 0
      /\ book \in [Book -> [exists : BOOLEAN, favoriteCount : Nat]]
  BY <1>1, FavoriteCounted
<1>4. book' \in [Book -> [exists : BOOLEAN, favoriteCount : Nat]] BY <1>2, <1>3
<1>5. \A d \in Book :
        /\ book'[d].exists = book[d].exists
        /\ book[d].exists => book'[d].favoriteCount =
             IF d = req[r].book /\ req[r].collection \in Favorites
             THEN book[d].favoriteCount - 1 ELSE book[d].favoriteCount
  BY <1>2, <1>3
<1>6. QED BY <1>1, <1>4, <1>5, ItemTaken

\* toggleFavorite locks the item it found.
LEMMA ToggleOffStep ==
  ASSUME IInv, NEW r \in Request, ToggleOff(r)
  PROVE  IInv'
BY RollbackStep, ToggleOffGoes DEF ToggleOff, Runs

\* toggleFavorite shares the key of the book.
LEMMA ToggleOnStep ==
  ASSUME IInv, NEW r \in Request, ToggleOn(r)
  PROVE  IInv'
BY RollbackStep, ToggleOnGoes DEF ToggleOn, Runs

\* toggleFavorite has taken the favourite away.
LEMMA ToggledOffStep ==
  ASSUME IInv, NEW r \in Request, ToggledOff(r)
  PROVE  IInv'
<1>1. At(r, "toggle", "less") /\ Blockers(r) = {} BY DEF ToggledOff, Runs
<1>2. CASE Rollback(r) BY <1>2, RollbackStep
<1>3. ASSUME book' = [book EXCEPT ![req[r].book].favoriteCount = @ - 1], Delete(r), End(r) PROVE IInv'
  <2>1. /\ req[r].book \in Book /\ req[r].collection \in Favorites
        /\ book[req[r].book].favoriteCount > 0
        /\ book \in [Book -> [exists : BOOLEAN, favoriteCount : Nat]]
    BY <1>1, FavoriteCounted
  <2>2. book' \in [Book -> [exists : BOOLEAN, favoriteCount : Nat]] BY <1>3, <2>1
  <2>3. \A d \in Book :
          /\ book'[d].exists = book[d].exists
          /\ book[d].exists => book'[d].favoriteCount =
               IF d = req[r].book /\ req[r].collection \in Favorites
               THEN book[d].favoriteCount - 1 ELSE book[d].favoriteCount
    BY <1>3, <2>1
  <2>4. QED BY <1>1, <1>3, <2>2, <2>3, ItemTaken
<1>4. QED BY <1>2, <1>3 DEF ToggledOff

\* addBook counts the favourites of the book up.
LEMMA FavoriteAddedStep ==
  ASSUME IInv, NEW r \in Request, FavoriteAdded(r)
  PROVE  IInv'
BY FavoriteInserted DEF FavoriteAdded, Runs

\* toggleFavorite has added the favourite.
LEMMA ToggledOnStep ==
  ASSUME IInv, NEW r \in Request, ToggledOn(r)
  PROVE  IInv'
BY FavoriteInserted DEF ToggledOn, Runs

-----------------------------------------------------------------------------
(***************************************************************************)
(* A new order commits                                                     *)
(***************************************************************************)

\* What it does to the tables: the items of the collection c get the positions of g.
Reorders(r, c, g) ==
  /\ End(r) /\ UNCHANGED <<book, collection, lastItem, raced>>
  /\ CollectionRow(c) \in req[r].locks /\ c \notin Favorites
  /\ g \in [ItemsIn(c) -> Item]
  /\ items' = {i \in items : i.collection # c} \cup {g[i] : i \in ItemsIn(c)}
  /\ \A i \in ItemsIn(c) : g[i].id = i.id /\ g[i].collection = c /\ g[i].book = i.book
  /\ \A i, j \in ItemsIn(c) : g[i].position = g[j].position => i = j

\* The pairs of a request give each item it was given a position, and no two the same.
LEMMA NewPositions ==
  ASSUME IInv, NEW r \in Request, At(r, "reorder", "write"),
         NEW move, move = [i \in Ordered(r) |-> CHOOSE m \in req[r].moves : m[1] = i.id]
  PROVE  /\ \A i \in Ordered(r) : /\ move[i] \in req[r].moves /\ move[i][1] = i.id
                                  /\ \A m \in req[r].moves : m[1] = i.id => m[2] = move[i][2]
                                  /\ move[i][2] \in Nat \ {0}
         /\ \A i, j \in Ordered(r) : move[i][2] = move[j][2] => i = j
         /\ \A i \in Ordered(r), j \in ItemsIn(req[r].collection) \ Ordered(r) : move[i][2] # j.position
         /\ \A i \in items : (\E m \in req[r].moves : m[1] = i.id) <=> i \in Ordered(r)
<1>1. ReorderOK(r) /\ MovesOK(r) BY DEF IInv, TxOK
<1>2. /\ req[r].op = "reorder" /\ req[r].at = "write" BY DEF At
<1>3. req[r].moves \in SUBSET (Nat \X (Nat \ {0})) BY Shapes DEF Transactions
<1>4. \A i : i \in Ordered(r) <=> i \in items /\ i.collection = req[r].collection /\ i.id \in Named(r)
  BY DEF Ordered, ItemsIn, Named
<1>5. \A m, n \in req[r].moves : m[1] = n[1] <=> m[2] = n[2] BY <1>1, <1>2 DEF MovesOK
<1>6. ASSUME NEW i \in Ordered(r)
      PROVE  /\ move[i] \in req[r].moves /\ move[i][1] = i.id
             /\ \A m \in req[r].moves : m[1] = i.id => m[2] = move[i][2]
             /\ move[i][2] \in Nat \ {0}
  <2>1. \E m \in req[r].moves : m[1] = i.id BY <1>1, <1>2, <1>4 DEF MovesOK, ItemsIn
  <2>2. move[i] = CHOOSE m \in req[r].moves : m[1] = i.id OBVIOUS
  <2>3. move[i] \in req[r].moves /\ move[i][1] = i.id BY <2>1, <2>2
  <2>4. QED BY <2>3, <1>3, <1>5
<1>7. ASSUME NEW i \in Ordered(r), NEW j \in Ordered(r), move[i][2] = move[j][2] PROVE i = j
  <2>1. i.id = j.id BY <1>5, <1>6, <1>7
  <2>2. QED BY <2>1, <1>4 DEF IInv, RowsOK
<1>8. ASSUME NEW i \in Ordered(r), NEW j \in ItemsIn(req[r].collection), j \notin Ordered(r),
             move[i][2] = j.position
      PROVE  FALSE
  <2>1. move[i] \in req[r].moves BY <1>6
  <2>2. j.id \in Named(r) BY <2>1, <1>1, <1>2, <1>8 DEF MovesOK
  <2>3. QED BY <2>2, <1>4, <1>8 DEF ItemsIn
<1>9. ASSUME NEW i \in items, NEW m \in req[r].moves, m[1] = i.id PROVE i \in Ordered(r)
  <2>1. i.id \in Named(r) BY <1>1, <1>2, <1>9 DEF MovesOK
  <2>2. i.collection = req[r].collection BY <2>1, <1>1, <1>2 DEF ReorderOK
  <2>3. QED BY <2>1, <2>2, <1>4
<1>10. QED BY <1>6, <1>7, <1>8, <1>9

\* WriteOrder does that.
LEMMA OrderWritten ==
  ASSUME IInv, NEW r \in Request, WriteOrder(r)
  PROVE  \E g : Reorders(r, req[r].collection, g)
<1> DEFINE c == req[r].collection
           moves == req[r].moves
           moved == {p \in items \X moves : p[1].id = p[2][1]}
           move == [i \in Ordered(r) |-> CHOOSE m \in moves : m[1] = i.id]
           at(i) == IF i \in Ordered(r) THEN [i EXCEPT !.position = move[i][2]] ELSE i
           g == [i \in ItemsIn(c) |-> at(i)]
<1>1. At(r, "reorder", "write") /\ End(r) /\ UNCHANGED <<book, collection, lastItem, raced>>
  BY DEF WriteOrder, Runs
<1>2. items' = (items \ Ordered(r)) \cup {[p[1] EXCEPT !.position = p[2][2]] : p \in moved}
  BY DEF WriteOrder
<1>3. StageOK(r) /\ LocksOK(r) BY DEF IInv, TxOK
<1>4. CollectionRow(c) \in req[r].locks /\ c \notin Favorites BY <1>1, <1>3 DEF StageOK, LocksOK, HasCollection, At
<1>5. Ordered(r) \subseteq ItemsIn(c) /\ ItemsIn(c) \subseteq items /\ \A i \in items : i \in ItemsIn(c) <=> i.collection = c
  BY DEF Ordered, ItemsIn
<1>6. \A i \in Ordered(r) : move[i] = CHOOSE m \in moves : m[1] = i.id OBVIOUS
<1>7. /\ \A i \in Ordered(r) : /\ move[i] \in moves /\ move[i][1] = i.id
                               /\ \A m \in moves : m[1] = i.id => m[2] = move[i][2]
                               /\ move[i][2] \in Nat \ {0}
      /\ \A i, j \in Ordered(r) : move[i][2] = move[j][2] => i = j
      /\ \A i \in Ordered(r), j \in ItemsIn(c) \ Ordered(r) : move[i][2] # j.position
      /\ \A i \in items : (\E m \in moves : m[1] = i.id) <=> i \in Ordered(r)
  BY <1>1, NewPositions
<1> HIDE DEF move
<1>8. \A i \in ItemsIn(c) : /\ at(i) \in Item /\ at(i).id = i.id /\ at(i).collection = c /\ at(i).book = i.book
                            /\ at(i).position = IF i \in Ordered(r) THEN move[i][2] ELSE i.position
  <2>1. \A i \in ItemsIn(c) : i \in Item /\ i.collection = c BY <1>5, Shapes
  <2>2. QED BY <2>1, <1>7 DEF Item
<1>9. {[p[1] EXCEPT !.position = p[2][2]] : p \in moved} = {at(i) : i \in Ordered(r)}
  <2>1. ASSUME NEW p \in moved PROVE p[1] \in Ordered(r) /\ [p[1] EXCEPT !.position = p[2][2]] = at(p[1])
    <3>1. p[1] \in items /\ p[2] \in moves /\ p[1].id = p[2][1] OBVIOUS
    <3>2. p[1] \in Ordered(r) BY <3>1, <1>7
    <3>3. p[2][2] = move[p[1]][2] BY <3>1, <3>2, <1>7
    <3>4. QED BY <3>2, <3>3
  <2>2. ASSUME NEW i \in Ordered(r) PROVE \E p \in moved : at(i) = [p[1] EXCEPT !.position = p[2][2]]
    <3>1. <<i, move[i]>> \in items \X moves BY <1>5, <1>7
    <3>2. <<i, move[i]>>[1] = i /\ <<i, move[i]>>[2] = move[i] OBVIOUS
    <3>3. <<i, move[i]>> \in moved BY <3>1, <3>2, <1>7
    <3>4. QED BY <3>2, <3>3
  <2> HIDE DEF moved, at
  <2>3. QED BY <2>1, <2>2
<1>10. items' = {i \in items : i.collection # c} \cup {at(i) : i \in ItemsIn(c)}
  <2>1. \A i \in ItemsIn(c) \ Ordered(r) : at(i) = i OBVIOUS
  <2> HIDE DEF at, moved
  <2>2. items' = (items \ Ordered(r)) \cup {at(i) : i \in Ordered(r)} BY <1>2, <1>9
  <2>3. QED BY <2>1, <2>2, <1>5
<1>11. \A i, j \in ItemsIn(c) : at(i).position = at(j).position => i = j
  <2>1. SUFFICES ASSUME NEW i \in ItemsIn(c), NEW j \in ItemsIn(c), at(i).position = at(j).position
                 PROVE  i = j
    OBVIOUS
  <2> HIDE DEF at, moved
  <2>2. CASE i \in Ordered(r) /\ j \in Ordered(r) BY <2>1, <2>2, <1>7, <1>8
  <2>3. CASE i \in Ordered(r) /\ j \notin Ordered(r) BY <2>1, <2>3, <1>7, <1>8
  <2>4. CASE i \notin Ordered(r) /\ j \in Ordered(r) BY <2>1, <2>4, <1>7, <1>8
  <2>5. CASE i \notin Ordered(r) /\ j \notin Ordered(r)
    <3>1. i.position = j.position /\ i \in items /\ j \in items /\ i.collection = j.collection
      BY <2>1, <2>5, <1>5, <1>8
    <3>2. QED BY <3>1 DEF IInv, CountsOK, ItemsDistinct
  <2>6. QED BY <2>2, <2>3, <2>4, <2>5
<1> HIDE DEF at, moved
<1>12. /\ g \in [ItemsIn(c) -> Item]
       /\ items' = {i \in items : i.collection # c} \cup {g[i] : i \in ItemsIn(c)}
       /\ \A i \in ItemsIn(c) : g[i].id = i.id /\ g[i].collection = c /\ g[i].book = i.book
       /\ \A i, j \in ItemsIn(c) : g[i].position = g[j].position => i = j
  BY <1>8, <1>10, <1>11
<1> HIDE DEF g
<1>13. Reorders(r, c, g) BY <1>1, <1>4, <1>12 DEF Reorders
<1>14. QED BY <1>13

\* Each item is still there, in another place at most.
LEMMA ReorderedTables ==
  ASSUME IInv, NEW r \in Request, NEW c \in Collection, NEW g, Reorders(r, c, g)
  PROVE  /\ items' \subseteq Item
         /\ \A d : d # c => ItemsIn(d)' = ItemsIn(d)
         /\ ItemsIn(c)' = {g[i] : i \in ItemsIn(c)}
         /\ \A x \in items' : \E i \in items : x.id = i.id /\ x.collection = i.collection /\ x.book = i.book
         /\ \A i \in items : \E x \in items' : x.id = i.id /\ x.collection = i.collection /\ x.book = i.book
         /\ \A x, y \in items' : x.id = y.id => x = y
         /\ \A d : Live(d)' = Live(d) /\ FavoritesOf(d)' = FavoritesOf(d)
         /\ UserCollections' = UserCollections
<1>1. /\ g \in [ItemsIn(c) -> Item] /\ c \notin Favorites
      /\ items' = {i \in items : i.collection # c} \cup {g[i] : i \in ItemsIn(c)}
      /\ \A i \in ItemsIn(c) : g[i].id = i.id /\ g[i].collection = c /\ g[i].book = i.book
      /\ collection' = collection
  BY DEF Reorders
<1>2. ItemsIn(c) \subseteq items /\ \A i \in items : i \in ItemsIn(c) <=> i.collection = c BY DEF ItemsIn
<1>3. \A i \in ItemsIn(c) : g[i] \in items' /\ g[i] \in Item BY <1>1
<1>4. \A x \in items' : (x \in items /\ x.collection # c) \/ \E i \in ItemsIn(c) : x = g[i] BY <1>1
<1>5. \A i \in items : i.collection # c => i \in items' BY <1>1
<1>6. items' \subseteq Item BY <1>3, <1>4, Shapes
<1>7. \A d : d # c => ItemsIn(d)' = ItemsIn(d) BY <1>1, <1>4, <1>5 DEF ItemsIn
<1>8. ItemsIn(c)' = {g[i] : i \in ItemsIn(c)}
  <2>1. ItemsIn(c)' = {x \in items' : x.collection = c} BY DEF ItemsIn
  <2>2. QED BY <2>1, <1>1, <1>3, <1>4
<1>9. \A x \in items' : \E i \in items : x.id = i.id /\ x.collection = i.collection /\ x.book = i.book
  BY <1>1, <1>2, <1>4
<1>10. \A i \in items : \E x \in items' : x.id = i.id /\ x.collection = i.collection /\ x.book = i.book
  BY <1>1, <1>2, <1>3, <1>5
<1>11. \A x, y \in items' : x.id = y.id => x = y
  <2>1. \A i, j \in items : i.id = j.id => i = j BY DEF IInv, RowsOK
  <2>2. QED BY <2>1, <1>1, <1>2, <1>4
<1>12. \A d : Live(d)' = Live(d) BY <1>1 DEF Live
<1>13. \A d : FavoritesOf(d)' = FavoritesOf(d)
  <2>1. \A x : (x \in items' /\ x.collection \in Favorites) <=> (x \in items /\ x.collection \in Favorites)
    BY <1>1, <1>4, <1>5
  <2>2. QED BY <2>1 DEF FavoritesOf, ItemsOf
<1>14. UserCollections' = UserCollections BY <1>1 DEF UserCollections, Live
<1>15. QED BY <1>6, <1>7, <1>8, <1>9, <1>10, <1>11, <1>12, <1>13, <1>14

\* It takes nothing from the others.
LEMMA ReorderedOthers ==
  ASSUME IInv, NEW r \in Request, NEW c \in Collection, NEW g, Reorders(r, c, g),
         NEW q \in Request, q # r, req'[q] = req[q],
         StageOK(q)', WantsOK(q)', LocksOK(q)', ReorderOK(q)'
  PROVE  TxOK(q)'
<1>1. TxOK(q) BY DEF IInv
<1>2. PICK t : t = req[q] /\ t = req'[q] OBVIOUS
<1>3. /\ CollectionRow(c) \in req[r].locks /\ book' = book /\ collection' = collection
      /\ lastItem' = lastItem /\ raced' = raced
  BY DEF Reorders
<1>4. CollectionRow(c) \notin req[q].locks BY <1>3, Holder
<1>5. HasCollection(q) => t.collection # c BY <1>1, <1>2, <1>4 DEF TxOK, LocksOK
<1>6. HasCollection(q) => /\ ItemsIn(t.collection)' \subseteq ItemsIn(t.collection)
                          /\ collection'[t.collection] = collection[t.collection]
  BY <1>3, <1>5, ReorderedTables
<1>7. InsertOK(q)' /\ MovesOK(q)' /\ CollectionOK(q)' BY <1>2, <1>3, <1>6, CollectionKept
<1>8. \A x \in items' : \E i \in items : x.id = i.id /\ x.collection = i.collection /\ x.book = i.book
  BY ReorderedTables
<1>9. \A i \in items : \E x \in items' : x.id = i.id /\ x.collection = i.collection /\ x.book = i.book
  BY ReorderedTables
<1>10. DeleteOK(q)'
  <2>1. DeleteOK(q) BY <1>1 DEF TxOK
  <2>2. \A x \in WithId(t.item)' : \E i \in WithId(t.item) : x.collection = i.collection /\ x.book = i.book
    BY <1>8 DEF WithId
  <2>3. WithId(t.item) # {} => WithId(t.item)' # {} BY <1>9 DEF WithId
  <2>4. req[q].op = "remove" \/ req[q].at \in {"off", "less"} =>
          /\ t.item <= lastItem
          /\ \A x \in WithId(t.item)' : x.collection = t.collection /\ x.book = t.book
    BY <1>2, <2>1, <2>2 DEF DeleteOK
  <2>5. QED BY <1>2, <1>3, <2>1, <2>3, <2>4 DEF DeleteOK, At
<1>11. BookOK(q)'
  <2>1. SUFFICES ASSUME req[q].op = "deleteBook" PROVE BookOK(q)' BY DEF BookOK
  <2>2. BookOK(q) BY <1>1 DEF TxOK
  <2>3. \A x : (\E i \in ItemsOf(t.book)' : i.collection = x) <=> (\E i \in ItemsOf(t.book) : i.collection = x)
    BY <1>8, <1>9 DEF ItemsOf
  <2>4. ItemRows(ItemsOf(t.book)') \subseteq ItemRows(ItemsOf(t.book))
    BY <1>8 DEF ItemsOf, ItemRows
  <2>5. \A d : Live(d)' = Live(d) BY ReorderedTables
  <2>6. QED BY <1>2, <1>3, <2>1, <2>2, <2>3, <2>4, <2>5 DEF BookOK, ItemRows
<1>12. CreateOK(q)' BY <1>1, ReorderedTables DEF TxOK, CreateOK, At
<1>13. QED BY <1>7, <1>10, <1>11, <1>12 DEF TxOK

\* As many items as before.
LEMMA Matched ==
  ASSUME NEW S, IsFiniteSet(S), NEW g, NEW T, T = {g[x] : x \in S}, \A x, y \in S : g[x] = g[y] => x = y
  PROVE  IsFiniteSet(T) /\ Cardinality(T) = Cardinality(S)
<1> DEFINE h == [x \in S |-> g[x]]
<1>1. h \in Surjection(S, T) BY DEF Surjection
<1>2. h \in Injection(S, T) BY DEF Injection, IsInjective
<1> HIDE DEF h
<1>3. QED BY <1>1, <1>2, FS_Surjection

\* Nothing that is counted changes, and the positions stay different.
LEMMA ReorderedCounts ==
  ASSUME IInv, NEW r \in Request, NEW c \in Collection, NEW g, Reorders(r, c, g)
  PROVE  RowsOK' /\ RowsStay /\ CountsOK'
<1>1. /\ book' = book /\ collection' = collection /\ lastItem' = lastItem /\ raced' = raced
      /\ \A i \in ItemsIn(c) : g[i].id = i.id /\ g[i].collection = c /\ g[i].book = i.book
      /\ \A i, j \in ItemsIn(c) : g[i].position = g[j].position => i = j
  BY DEF Reorders
<1>2. \A i, j \in ItemsIn(c) : g[i] = g[j] => i = j BY <1>1
<1>3. IsFiniteSet(ItemsIn(c)) BY FiniteParts
<1>4. ItemsIn(c)' = {g[i] : i \in ItemsIn(c)} BY ReorderedTables
<1>5. IsFiniteSet(ItemsIn(c)') /\ Cardinality(ItemsIn(c)') = Cardinality(ItemsIn(c))
  BY <1>2, <1>3, <1>4, Matched
<1>6. \A d : d # c => ItemsIn(d)' = ItemsIn(d) BY ReorderedTables
<1>7. RowsOK'
  <2>1. IsFiniteSet(items)'
    <3>1. {i \in items : i.collection # c} \in SUBSET items OBVIOUS
    <3>2. IsFiniteSet({i \in items : i.collection # c}) BY <3>1, FS_Subset DEF IInv, RowsOK
    <3>3. items' = {i \in items : i.collection # c} \cup ItemsIn(c)' BY <1>4 DEF Reorders
    <3>4. QED BY <1>5, <3>2, <3>3, FS_Union
  <2>2. IsFiniteSet(UserCollections)' BY ReorderedTables DEF IInv, RowsOK
  <2>3. \A x, y \in items' : x.id = y.id => x = y BY ReorderedTables
  <2>4. \A d : Live(d)' = Live(d) BY ReorderedTables
  <2>5. \A x \in items' : x.id <= lastItem' /\ Live(x.collection)' /\ book'[x.book].exists
    <3>1. \A x \in items' : \E i \in items : x.id = i.id /\ x.collection = i.collection /\ x.book = i.book
      BY ReorderedTables
    <3>2. QED BY <1>1, <2>4, <3>1 DEF IInv, RowsOK
  <2>6. \A d \in Favorites : Live(d)' BY <2>4 DEF IInv, RowsOK
  <2>7. QED BY <2>1, <2>2, <2>3, <2>5, <2>6 DEF RowsOK
<1>8. RowsStay
  <2>1. \A x \in items' : \E i \in items : x.id = i.id /\ x.collection = i.collection /\ x.book = i.book
    BY ReorderedTables
  <2>2. QED BY <1>1, <2>1, Shapes DEF RowsStay
<1>9. \A d : Live(d)' = Live(d) /\ FavoritesOf(d)' = FavoritesOf(d) BY ReorderedTables
<1>10. \A d : Cardinality(ItemsIn(d)') = Cardinality(ItemsIn(d)) BY <1>5, <1>6
<1>11. BookCountExact' BY <1>1, <1>9, <1>10 DEF IInv, CountsOK, BookCountExact
<1>12. FavoritesExact'
  <2>1. \A d : {i \in ItemsOf(d)' : i.collection \in Favorites} = FavoritesOf(d) BY <1>9 DEF FavoritesOf
  <2>2. QED BY <1>1, <2>1 DEF IInv, CountsOK, FavoritesExact, FavoritesOf
<1>13. BookLimitKept' BY <1>1, <1>10 DEF IInv, CountsOK, BookLimitKept
<1>14. UserLimitKept' BY ReorderedTables DEF IInv, CountsOK, UserLimitKept
<1>15. ItemsDistinct'
  <2>1. SUFFICES ASSUME NEW x \in items', NEW y \in items', x # y, x.collection = y.collection
                 PROVE  x.book # y.book /\ x.position # y.position
    BY DEF ItemsDistinct
  <2>2. CASE x.collection = c
    <3>1. x \in ItemsIn(c)' /\ y \in ItemsIn(c)' BY <2>1, <2>2 DEF ItemsIn
    <3>2. PICK i \in ItemsIn(c), j \in ItemsIn(c) : x = g[i] /\ y = g[j] BY <3>1, <1>4
    <3>3. i # j /\ i \in items /\ j \in items /\ i.collection = j.collection BY <2>1, <3>2 DEF ItemsIn
    <3>4. i.book # j.book BY <3>3 DEF IInv, CountsOK, ItemsDistinct
    <3>5. QED BY <1>1, <3>2, <3>3, <3>4
  <2>3. CASE x.collection # c
    <3>1. x \in items /\ y \in items BY <2>1, <2>3, <1>1 DEF Reorders
    <3>2. QED BY <2>1, <3>1 DEF IInv, CountsOK, ItemsDistinct
  <2>4. QED BY <2>2, <2>3
<1>16. QED BY <1>7, <1>8, <1>11, <1>12, <1>13, <1>14, <1>15 DEF CountsOK

\* reorder writes the new positions.
LEMMA WriteOrderStep ==
  ASSUME IInv, NEW r \in Request, WriteOrder(r)
  PROVE  IInv'
<1>1. PICK c : c = req[r].collection OBVIOUS
<1>2. c \in Collection
  <2>1. StageOK(r) /\ At(r, "reorder", "write") BY DEF IInv, TxOK, WriteOrder, Runs
  <2>2. QED BY <1>1, <2>1 DEF StageOK, At
<1>3. PICK g : Reorders(r, c, g) BY <1>1, OrderWritten
<1>4. End(r) /\ UNCHANGED <<book, collection, lastItem, raced>> BY <1>3 DEF Reorders
<1>5. req' = [req EXCEPT ![r] = Idle] /\ Idle \in Transactions /\ Idle.op = "none"
  BY <1>4, IdleTyped DEF End, Idle
<1>6. SlotsOK' BY <1>4, <1>5, SlotsKeep
<1>7. items' \subseteq Item BY <1>2, <1>3, ReorderedTables
<1>8. Typed' BY <1>4, <1>7, Shapes, TypedAtEnd DEF IInv, Typed, TypeOK
<1>9. RowsOK' /\ RowsStay /\ CountsOK' BY <1>2, <1>3, ReorderedCounts
<1>10. ASSUME NEW q \in Request \ {r} PROVE TxOK(q)'
  <2>1. req'[q] = req[q] BY <1>5, Shapes
  <2>2. lastItem' \in 0..MaxItems BY <1>4, Shapes
  <2>3. StageOK(q)' /\ WantsOK(q)' /\ LocksOK(q)' /\ ReorderOK(q)' BY <1>9, <2>1, <2>2, OthersGoOn
  <2>4. QED BY <1>2, <1>3, <2>1, <2>3, ReorderedOthers
<1>11. QED BY <1>4, <1>6, <1>8, <1>9, <1>10, Ended

-----------------------------------------------------------------------------
(***************************************************************************)
(* A collection is made, and deleted                                       *)
(***************************************************************************)
CollectionTypes == [Collection -> [state : {"none", "live", "gone"}, bookCount : Int]]

\* createUserCollection inserts.
LEMMA InsertCollectionStep ==
  ASSUME IInv, NEW r \in Request, NEW c \in Collection, InsertCollection(r, c)
  PROVE  IInv'
<1>1. /\ At(r, "create", "insert") /\ End(r) /\ collection[c].state = "none"
      /\ collection' = [collection EXCEPT ![c] = [state |-> "live", bookCount |-> 0]]
      /\ book' = book /\ items' = items /\ lastItem' = lastItem /\ raced' = raced
  BY DEF InsertCollection, Runs
<1>2. collection \in CollectionTypes BY DEF IInv, Typed, TypeOK, CollectionTypes
<1>3. /\ \A d \in Collection \ {c} : collection'[d] = collection[d] /\ Live(d)' = Live(d)
      /\ collection'[c].bookCount = 0 /\ Live(c)' /\ ~Live(c)
      /\ collection' \in CollectionTypes
  BY <1>1, <1>2 DEF Live, CollectionTypes
<1>4. /\ \A d : ItemsIn(d)' = ItemsIn(d) /\ ItemsOf(d)' = ItemsOf(d)
      /\ \A id : WithId(id)' = WithId(id)
  BY <1>1 DEF ItemsIn, ItemsOf, WithId
<1>5. ItemsIn(c) = {} BY <1>3 DEF IInv, RowsOK, ItemsIn
<1>6. req' = [req EXCEPT ![r] = Idle] /\ Idle \in Transactions /\ Idle.op = "none"
  BY <1>1, IdleTyped DEF End, Idle
<1>7. SlotsOK' BY <1>1, <1>6, SlotsKeep
<1>8. Typed' BY <1>1, <1>3, Shapes, TypedAtEnd DEF IInv, Typed, TypeOK, CollectionTypes
<1>9. /\ IsFiniteSet(UserCollections \cup {c}) /\ Cardinality(UserCollections \cup {c}) <= UserLimit
      /\ UserCollections' \in SUBSET (UserCollections \cup {c})
  <2>1. CreateOK(r) /\ IsFiniteSet(UserCollections) BY DEF IInv, TxOK, RowsOK
  <2>2. Cardinality(UserCollections) < UserLimit BY <1>1, <2>1 DEF CreateOK
  <2>3. c \notin UserCollections BY <1>3 DEF UserCollections
  <2>4. Cardinality(UserCollections) \in Nat /\ UserLimit \in Nat BY FiniteParts, CollectionsAssumption
  <2>5. IsFiniteSet(UserCollections \cup {c})
        /\ Cardinality(UserCollections \cup {c}) = Cardinality(UserCollections) + 1
    BY <2>1, <2>3, FS_AddElement
  <2>6. UserCollections' \in SUBSET (UserCollections \cup {c}) BY <1>3 DEF UserCollections
  <2>7. QED BY <2>2, <2>4, <2>5, <2>6
<1>10. IsFiniteSet(UserCollections)' /\ Cardinality(UserCollections)' <= UserLimit
  <2>1. IsFiniteSet(UserCollections') /\ Cardinality(UserCollections') <= Cardinality(UserCollections \cup {c})
    BY <1>9, FS_Subset
  <2>2. Cardinality(UserCollections') \in Nat /\ Cardinality(UserCollections \cup {c}) \in Nat /\ UserLimit \in Nat
    BY <2>1, <1>9, FS_CardinalityType, CollectionsAssumption
  <2>3. QED BY <1>9, <2>1, <2>2
<1>11. RowsOK'
  <2>1. \A i \in items : i.collection # c /\ i.collection \in Collection BY <1>3, Shapes DEF IInv, RowsOK
  <2>2. \A d \in Favorites : d # c /\ d \in Collection BY <1>3, CollectionsAssumption DEF IInv, RowsOK
  <2>3. QED BY <1>1, <1>3, <1>10, <2>1, <2>2 DEF IInv, RowsOK
<1>12. CountsOK'
  <2>1. BookCountExact'
    <3>1. Cardinality(ItemsIn(c)) = 0 BY <1>5, FS_EmptySet
    <3>2. QED BY <1>1, <1>3, <1>4, <3>1 DEF IInv, CountsOK, BookCountExact
  <2>2. FavoritesExact' BY <1>1, <1>4 DEF IInv, CountsOK, FavoritesExact
  <2>3. BookLimitKept' BY <1>1, <1>4 DEF IInv, CountsOK, BookLimitKept
  <2>4. UserLimitKept' BY <1>10 DEF UserLimitKept
  <2>5. ItemsDistinct' BY <1>1 DEF IInv, CountsOK, ItemsDistinct
  <2>6. QED BY <2>1, <2>2, <2>3, <2>4, <2>5 DEF CountsOK
<1>13. RowsStay BY <1>1, Shapes DEF RowsStay
<1>14. ASSUME NEW q \in Request \ {r} PROVE TxOK(q)'
  <2>1. req'[q] = req[q] /\ TxOK(q) BY <1>6, Shapes DEF IInv
  <2>2. lastItem' \in 0..MaxItems BY <1>1, Shapes
  <2>3. StageOK(q)' /\ WantsOK(q)' /\ LocksOK(q)' /\ ReorderOK(q)' BY <1>13, <2>1, <2>2, OthersGoOn
  <2>4. PICK t : t = req[q] /\ t = req'[q] BY <2>1
  <2>5. HasCollection(q) => t.collection # c /\ t.collection \in Collection
    BY <1>3, <2>1, <2>4 DEF TxOK, CollectionOK, StageOK, HasCollection
  <2>6. HasCollection(q) => /\ ItemsIn(t.collection)' \subseteq ItemsIn(t.collection)
                            /\ collection'[t.collection] = collection[t.collection]
    BY <1>3, <1>4, <2>5
  <2>7. InsertOK(q)' /\ MovesOK(q)' /\ CollectionOK(q)' BY <1>1, <2>4, <2>6, CollectionKept
  <2>8. DeleteOK(q)' BY <1>1, <1>4, <2>1, <2>4 DEF TxOK, DeleteOK, At
  <2>9. BookOK(q)'
    <3>1. SUFFICES ASSUME req[q].op = "deleteBook" PROVE BookOK(q)' BY <2>1 DEF BookOK
    <3>2. BookOK(q) /\ t.listed \in SUBSET Collection BY <2>1, <2>4, Shapes DEF TxOK, Transactions
    <3>3. c \notin t.listed BY <1>1, <2>4, <3>1, <3>2 DEF BookOK
    <3>4. \A d \in t.listed : collection'[d].state # "none" BY <1>3, <2>4, <3>1, <3>2, <3>3 DEF BookOK
    <3>5. \A i \in ItemsOf(t.book) : i.collection # c BY <1>5 DEF ItemsOf, ItemsIn
    <3>6. book[t.book].exists => \A d \in Collection \ raced :
            Live(d)' => (d \in t.listed <=> \E i \in ItemsOf(t.book) : i.collection = d)
      BY <1>3, <2>4, <3>1, <3>2, <3>3, <3>5 DEF BookOK
    <3>7. QED BY <1>1, <1>4, <2>4, <3>1, <3>2, <3>4, <3>6 DEF BookOK
  <2>10. CreateOK(q)'
    <3>1. UserCollectionsLock \in req[r].locks BY <1>1 DEF IInv, TxOK, LocksOK
    <3>2. UserCollectionsLock \notin req[q].locks BY <3>1, Holder
    <3>3. ~At(q, "create", "insert") BY <2>1, <3>2 DEF TxOK, LocksOK
    <3>4. QED BY <2>1, <3>3 DEF CreateOK, At
  <2>11. QED BY <2>3, <2>7, <2>8, <2>9, <2>10 DEF TxOK
<1>15. QED BY <1>1, <1>7, <1>8, <1>11, <1>12, <1>13, <1>14, Ended

\* delete locks the collection, or finds it gone.
LEMMA LockForDeleteStep ==
  ASSUME IInv, NEW r \in Request, LockForDelete(r)
  PROVE  IInv'
BY RollbackStep, LockForDeleteGoes DEF LockForDelete, Runs

\* createUserCollection counts.
LEMMA CountCollectionsStep ==
  ASSUME IInv, NEW r \in Request, CountCollections(r)
  PROVE  IInv'
BY RollbackStep, CountCollectionsGoes DEF CountCollections, Runs

\* delete takes the collection and its items away.
LEMMA CollectionDeletedStep ==
  ASSUME IInv, NEW r \in Request, CollectionDeleted(r)
  PROVE  IInv'
<1>1. PICK c : c = req[r].collection OBVIOUS
<1>2. /\ At(r, "deleteCollection", "items") /\ Blockers(r) = {} /\ End(r)
      /\ collection' = [collection EXCEPT ![c] = [state |-> "gone", bookCount |-> 0]]
      /\ items' = items \ ItemsIn(c) /\ raced' = raced \ {c}
      /\ book' = book /\ lastItem' = lastItem
  BY <1>1 DEF CollectionDeleted, Runs
<1>3. StageOK(r) /\ LocksOK(r) /\ CollectionOK(r) BY DEF IInv, TxOK
<1>4. /\ c \in Collection /\ c \notin Favorites /\ CollectionRow(c) \in req[r].locks
      /\ ItemRows(ItemsIn(c)) \subseteq req[r].wants
  BY <1>1, <1>2, <1>3 DEF StageOK, LocksOK, CollectionOK, HasCollection, At
<1>5. collection \in CollectionTypes BY DEF IInv, Typed, TypeOK, CollectionTypes
<1>6. /\ \A d \in Collection \ {c} : collection'[d] = collection[d] /\ Live(d)' = Live(d)
      /\ ~Live(c)' /\ collection'[c].state = "gone" /\ collection' \in CollectionTypes
  BY <1>2, <1>4, <1>5 DEF Live, CollectionTypes
<1>7. /\ \A d : d # c => ItemsIn(d)' = ItemsIn(d)
      /\ \A d : ItemsIn(d)' \subseteq ItemsIn(d)
      /\ \A i \in items' : i \in items /\ i.collection # c
      /\ \A i \in items : i.collection # c => i \in items'
  BY <1>2 DEF ItemsIn
<1>8. \A d : FavoritesOf(d)' = FavoritesOf(d) BY <1>4, <1>7 DEF FavoritesOf, ItemsOf
<1>9. req' = [req EXCEPT ![r] = Idle] /\ Idle \in Transactions /\ Idle.op = "none"
  BY <1>2, IdleTyped DEF End, Idle
<1>10. SlotsOK' BY <1>2, <1>9, SlotsKeep
<1>11. Typed'
  <2>1. items' \subseteq Item /\ raced' \subseteq Collection /\ lastItem' \in 0..MaxItems
    BY <1>2, Shapes DEF IInv, Typed, TypeOK
  <2>2. book' \in [Book -> [exists : BOOLEAN, favoriteCount : Nat]] BY <1>2 DEF IInv, Typed, TypeOK
  <2>3. QED BY <1>2, <1>6, <2>1, <2>2, TypedAtEnd DEF CollectionTypes
<1>12. IsFiniteSet(UserCollections') /\ Cardinality(UserCollections') <= Cardinality(UserCollections)
       /\ Cardinality(UserCollections') \in Nat
  <2>1. UserCollections' \in SUBSET UserCollections BY <1>6 DEF UserCollections
  <2>2. IsFiniteSet(UserCollections) BY DEF IInv, RowsOK
  <2>3. QED BY <2>1, <2>2, FS_Subset, FS_CardinalityType
<1>13. RowsOK'
  <2>1. IsFiniteSet(items)'
    <3>1. items' \in SUBSET items BY <1>2
    <3>2. QED BY <3>1, FS_Subset DEF IInv, RowsOK
  <2>2. \A i \in items' : i.id <= lastItem' /\ Live(i.collection)' /\ book'[i.book].exists
    BY <1>2, <1>6, <1>7, Shapes DEF IInv, RowsOK
  <2>3. \A d \in Favorites : Live(d)' BY <1>4, <1>6, CollectionsAssumption DEF IInv, RowsOK
  <2>4. QED BY <1>7, <1>12, <2>1, <2>2, <2>3 DEF IInv, RowsOK
<1>14. CountsOK'
  <2>1. BookCountExact' BY <1>2, <1>6, <1>7 DEF IInv, CountsOK, BookCountExact
  <2>2. FavoritesExact'
    <3>1. \A d : {i \in ItemsOf(d)' : i.collection \in Favorites} = FavoritesOf(d) BY <1>8 DEF FavoritesOf
    <3>2. QED BY <1>2, <3>1 DEF IInv, CountsOK, FavoritesExact, FavoritesOf
  <2>3. BookLimitKept'
    <3>1. ItemsIn(c)' = {} BY <1>7 DEF ItemsIn
    <3>2. Cardinality(ItemsIn(c)') = 0 /\ BookLimit[c] \in Nat BY <1>4, <3>1, FS_EmptySet, CollectionsAssumption
    <3>3. QED BY <1>2, <1>7, <3>2 DEF IInv, CountsOK, BookLimitKept
  <2>4. UserLimitKept' BY <1>12, FiniteParts, CollectionsAssumption DEF IInv, CountsOK, UserLimitKept
  <2>5. ItemsDistinct' BY <1>7 DEF IInv, CountsOK, ItemsDistinct
  <2>6. QED BY <2>1, <2>2, <2>3, <2>4, <2>5 DEF CountsOK
<1>15. RowsStay BY <1>2, <1>7, Shapes DEF RowsStay
<1>16. ASSUME NEW q \in Request \ {r} PROVE TxOK(q)'
  <2>1. req'[q] = req[q] /\ TxOK(q) BY <1>9, Shapes DEF IInv
  <2>2. lastItem' \in 0..MaxItems BY <1>2, Shapes
  <2>3. StageOK(q)' /\ WantsOK(q)' /\ LocksOK(q)' /\ ReorderOK(q)' BY <1>15, <2>1, <2>2, OthersGoOn
  <2>4. PICK t : t = req[q] /\ t = req'[q] BY <2>1
  <2>5. CollectionRow(c) \notin req[q].locks /\ \A i \in ItemsIn(c) : ItemRow(i.id) \notin req[q].locks
    <3>1. \A i \in ItemsIn(c) : ItemRow(i.id) \in req[r].wants BY <1>4 DEF ItemRows, ItemRow
    <3>2. QED BY <1>2, <1>4, <3>1, Owner
  <2>6. HasCollection(q) => t.collection # c /\ t.collection \in Collection
    BY <2>1, <2>4, <2>5 DEF TxOK, LocksOK, StageOK, HasCollection
  <2>7. HasCollection(q) => /\ ItemsIn(t.collection)' \subseteq ItemsIn(t.collection)
                            /\ collection'[t.collection] = collection[t.collection]
    BY <1>6, <1>7, <2>6
  <2>8. InsertOK(q)' /\ MovesOK(q)' /\ CollectionOK(q)' BY <1>2, <2>4, <2>7, CollectionKept
  <2>9. DeleteOK(q)'
    <3>1. DeleteOK(q) /\ LocksOK(q) /\ StageOK(q) BY <2>1 DEF TxOK
    <3>2. WithId(t.item)' \subseteq WithId(t.item) BY <1>7 DEF WithId
    <3>3. ItemRow(t.item) \in req[q].locks => WithId(t.item)' = WithId(t.item)
      BY <1>7, <2>5 DEF WithId, ItemsIn
    <3>4. At(q, "remove", "count") \/ At(q, "remove", "favorite") \/ req[q].at = "less" => WithId(t.item)' # {}
      BY <2>4, <3>1, <3>3 DEF LocksOK, DeleteOK, StageOK, Stages, At
    <3>5. QED BY <1>2, <2>4, <3>1, <3>2, <3>4 DEF DeleteOK, At
  <2>10. BookOK(q)'
    <3>1. SUFFICES ASSUME req[q].op = "deleteBook" PROVE BookOK(q)' BY <2>1 DEF BookOK
    <3>2. BookOK(q) /\ t.listed \in SUBSET Collection BY <2>1, <2>4, Shapes DEF TxOK, Transactions
    <3>3. \A d \in t.listed : collection'[d].state # "none" BY <1>6, <2>4, <3>1, <3>2 DEF BookOK
    <3>4. ItemRows(ItemsOf(t.book)') \subseteq ItemRows(ItemsOf(t.book)) BY <1>7 DEF ItemsOf, ItemRows
    <3>5. \A d : d # c => ((\E i \in ItemsOf(t.book)' : i.collection = d) <=> (\E i \in ItemsOf(t.book) : i.collection = d))
      BY <1>7 DEF ItemsOf
    <3>6. book[t.book].exists => \A d \in Collection \ raced' :
            Live(d)' => (d \in t.listed <=> \E i \in ItemsOf(t.book)' : i.collection = d)
      BY <1>2, <1>6, <2>4, <3>1, <3>2, <3>5 DEF BookOK
    <3>7. QED BY <1>2, <2>4, <3>1, <3>2, <3>3, <3>4, <3>6 DEF BookOK, ItemRows
  <2>11. CreateOK(q)'
    <3>1. CreateOK(q) BY <2>1 DEF TxOK
    <3>2. QED BY <1>12, <2>1, <3>1, FiniteParts, CollectionsAssumption DEF CreateOK, At
  <2>12. QED BY <2>3, <2>8, <2>9, <2>10, <2>11 DEF TxOK
<1>17. QED BY <1>2, <1>10, <1>11, <1>13, <1>14, <1>15, <1>16, Ended

-----------------------------------------------------------------------------
(***************************************************************************)
(* A book is deleted                                                       *)
(***************************************************************************)
\* deleteById locks the book, or finds it gone.
LEMMA LockBookStep ==
  ASSUME IInv, NEW r \in Request, LockBook(r)
  PROVE  IInv'
BY RollbackStep, LockBookGoes DEF LockBook, Runs

\* The rows that deleteById locks next.
LEMMA NextLocked ==
  ASSUME NEW r \in Request, NEW S \in SUBSET Collection, LockNext(r, S)
  PROVE  \E wants \in SUBSET Row : GoTo(r, "count", wants)
<1>1. CASE GoTo(r, "count", {}) BY <1>1
<1>2. CASE \E c \in S : GoTo(r, "count", {CollectionRow(c)})
  <2>1. PICK c \in S : GoTo(r, "count", {CollectionRow(c)}) BY <1>2
  <2>2. {CollectionRow(c)} \in SUBSET Row BY RowsAreRows
  <2>3. QED BY <2>1, <2>2
<1>3. QED BY <1>1, <1>2 DEF LockNext

\* deleteById locks the items of the book.
LEMMA CascadeStep ==
  ASSUME IInv, NEW r \in Request, Cascade(r)
  PROVE  IInv'
<1>1. req[r].listed \in SUBSET Collection BY Shapes DEF Transactions
<1>2. At(r, "deleteBook", "cascade") /\ Blockers(r) = {} /\ LockNext(r, req[r].listed) /\ UNCHANGED tables
  BY DEF Cascade, Runs
<1>3. PICK wants \in SUBSET Row : GoTo(r, "count", wants) BY <1>1, <1>2, NextLocked
<1>4. QED BY <1>2, <1>3, CascadeGoes

\* What the deletion of a book does to the tables.
Removes(r, b, listed) ==
  /\ At(r, "deleteBook", "count") /\ Blockers(r) = {} /\ End(r)
  /\ b = req[r].book /\ listed = req[r].listed
  /\ \A c \in listed : CollectionRow(c) \in req[r].locks \cup req[r].wants
  /\ book' = [book EXCEPT ![b] = [exists |-> FALSE, favoriteCount |-> 0]]
  /\ items' = items \ ItemsOf(b)
  /\ collection' = [c \in Collection |->
       IF c \in listed /\ Live(c) THEN [collection[c] EXCEPT !.bookCount = @ - 1] ELSE collection[c]]
  /\ UNCHANGED <<lastItem, raced>>

\* What the deletion knows, and the tables after it.
LEMMA RemovedTables ==
  ASSUME IInv, NEW r \in Request, NEW b, NEW listed, Removes(r, b, listed)
  PROVE  /\ b \in Book /\ listed \subseteq Collection /\ book[b].exists
         /\ WholeBook(b) \subseteq req[r].locks /\ ItemRows(ItemsOf(b)) \subseteq req[r].locks
         /\ \A c \in Collection \ raced : Live(c) => (c \in listed <=> \E i \in ItemsOf(b) : i.collection = c)
         /\ \A d : ItemsIn(d)' = ItemsIn(d) \ ItemsOf(b)
         /\ \A d : d # b => ItemsOf(d)' = ItemsOf(d)
         /\ ItemsOf(b)' = {}
         /\ \A c \in Collection : /\ Live(c)' = Live(c) /\ collection'[c].state = collection[c].state
                                  /\ c \notin listed => collection'[c] = collection[c]
                                  /\ c \in listed /\ Live(c) => collection'[c].bookCount = collection[c].bookCount - 1
         /\ collection' \in CollectionTypes
         /\ UserCollections' = UserCollections
         /\ \A d \in Book \ {b} : book'[d] = book[d]
         /\ ~book'[b].exists /\ book' \in [Book -> [exists : BOOLEAN, favoriteCount : Nat]]
<1>1. StageOK(r) /\ LocksOK(r) /\ BookOK(r) BY DEF IInv, TxOK
<1>2. req[r].op = "deleteBook" /\ req[r].at = "count" /\ b = req[r].book /\ listed = req[r].listed
  BY DEF Removes, At
<1>3. b \in Book /\ listed \subseteq Collection BY <1>1, <1>2, Shapes DEF StageOK, Transactions
<1>4. WholeBook(b) \subseteq req[r].locks /\ ItemRows(ItemsOf(b)) \subseteq req[r].locks /\ book[b].exists
  BY <1>1, <1>2 DEF LocksOK, BookOK, At
<1>5. \A c \in Collection \ raced : Live(c) => (c \in listed <=> \E i \in ItemsOf(b) : i.collection = c)
  BY <1>1, <1>2, <1>4 DEF BookOK
<1>6. items' = items \ ItemsOf(b) BY DEF Removes
<1>7. /\ \A d : ItemsIn(d)' = ItemsIn(d) \ ItemsOf(b)
      /\ \A d : d # b => ItemsOf(d)' = ItemsOf(d)
      /\ ItemsOf(b)' = {}
  BY <1>6 DEF ItemsIn, ItemsOf
<1>8. collection \in CollectionTypes BY DEF IInv, Typed, TypeOK, CollectionTypes
<1>9. collection' = [c \in Collection |->
        IF c \in listed /\ Live(c) THEN [collection[c] EXCEPT !.bookCount = @ - 1] ELSE collection[c]]
  BY DEF Removes
<1>10. /\ \A c \in Collection : /\ collection'[c].state = collection[c].state
                                /\ c \notin listed => collection'[c] = collection[c]
                                /\ c \in listed /\ Live(c) => collection'[c].bookCount = collection[c].bookCount - 1
       /\ collection' \in CollectionTypes
  BY <1>8, <1>9 DEF CollectionTypes
<1>11. \A c \in Collection : Live(c)' = Live(c) BY <1>10 DEF Live
<1>12. UserCollections' = UserCollections BY <1>11 DEF UserCollections
<1>13. /\ \A d \in Book \ {b} : book'[d] = book[d]
       /\ ~book'[b].exists /\ book' \in [Book -> [exists : BOOLEAN, favoriteCount : Nat]]
  <2>1. book \in [Book -> [exists : BOOLEAN, favoriteCount : Nat]] BY DEF IInv, Typed, TypeOK
  <2>2. book' = [book EXCEPT ![b] = [exists |-> FALSE, favoriteCount |-> 0]] BY DEF Removes
  <2>3. QED BY <1>3, <2>1, <2>2
<1>14. QED BY <1>3, <1>4, <1>5, <1>7, <1>10, <1>11, <1>12, <1>13

\* It takes nothing from the others.
LEMMA RemovedOthers ==
  ASSUME IInv, NEW r \in Request, NEW b, NEW listed, Removes(r, b, listed),
         NEW q \in Request, q # r, req'[q] = req[q],
         StageOK(q)', WantsOK(q)', LocksOK(q)', ReorderOK(q)'
  PROVE  TxOK(q)'
<1>1. TxOK(q) BY DEF IInv
<1>2. PICK t : t = req[q] /\ t = req'[q] OBVIOUS
<1>3. /\ Blockers(r) = {} /\ \A c \in listed : CollectionRow(c) \in req[r].locks \cup req[r].wants
      /\ lastItem' = lastItem /\ raced' = raced /\ items' = items \ ItemsOf(b)
  BY DEF Removes
<1>4. \A c \in listed : CollectionRow(c) \notin req[q].locks BY <1>3, Owner
<1>5. BookKey(b, q) \notin req[q].locks /\ BookRow(b) \notin req[q].locks
  <2>1. BookKey(b, q) \in WholeBook(b) /\ BookRow(b) \in WholeBook(b) BY DEF WholeBook
  <2>2. QED BY <2>1, Holder, RemovedTables
<1>6. \A i \in ItemsOf(b) : ItemRow(i.id) \notin req[q].locks
  <2>1. \A i \in ItemsOf(b) : ItemRow(i.id) \in ItemRows(ItemsOf(b)) BY DEF ItemRows, ItemRow
  <2>2. ItemRows(ItemsOf(b)) \subseteq req[r].locks BY RemovedTables
  <2>3. QED BY <2>1, <2>2, Holder
<1>7. HasCollection(q) => t.collection \notin listed /\ t.collection \in Collection
  BY <1>1, <1>2, <1>4 DEF TxOK, LocksOK, StageOK, HasCollection
<1>8. HasCollection(q) => /\ ItemsIn(t.collection)' \subseteq ItemsIn(t.collection)
                          /\ collection'[t.collection] = collection[t.collection]
  BY <1>7, RemovedTables
<1>9. BookKey(t.book, q) \in req[q].locks => book'[t.book].exists = book[t.book].exists
  <2>1. BookKey(t.book, q) \in req[q].locks => t.book \in Book
    <3>1. req[q].locks \subseteq Row BY Shapes DEF Transactions
    <3>2. \A d : BookKey(d, q) \in Row => d \in Book BY RowsDistinct, ItemRowsApart DEF Row
    <3>3. QED BY <3>1, <3>2
  <2>2. BookKey(t.book, q) \in req[q].locks => t.book # b BY <1>5
  <2>3. QED BY <2>1, <2>2, RemovedTables
<1>10. InsertOK(q)' /\ MovesOK(q)' /\ CollectionOK(q)' BY <1>2, <1>8, <1>9, CollectionKept
<1>11. DeleteOK(q)'
  <2>1. DeleteOK(q) /\ LocksOK(q) /\ StageOK(q) BY <1>1 DEF TxOK
  <2>2. WithId(t.item)' \subseteq WithId(t.item) BY <1>3 DEF WithId
  <2>3. ItemRow(t.item) \in req[q].locks => WithId(t.item)' = WithId(t.item) BY <1>3, <1>6 DEF WithId
  <2>4. At(q, "remove", "count") \/ At(q, "remove", "favorite") \/ req[q].at = "less" => WithId(t.item)' # {}
    BY <1>2, <2>1, <2>3 DEF LocksOK, DeleteOK, StageOK, Stages, At
  <2>5. QED BY <1>2, <1>3, <2>1, <2>2, <2>4 DEF DeleteOK, At
<1>12. BookOK(q)'
  <2>1. SUFFICES ASSUME req[q].op = "deleteBook" PROVE BookOK(q)' BY DEF BookOK
  <2>2. BookOK(q) /\ StageOK(q) /\ LocksOK(q) /\ t.book \in Book /\ t.listed \in SUBSET Collection
    BY <1>1, <1>2, <2>1, Shapes DEF TxOK, StageOK, Transactions
  <2>3. \A x \in t.listed : collection'[x].state # "none" BY <1>2, <2>1, <2>2, RemovedTables DEF BookOK
  <2>4. \A x \in Collection : Live(x)' = Live(x) BY RemovedTables
  <2>5. CASE t.book = b
    <3>1. BookRow(b) \in WholeBook(b) BY DEF WholeBook
    <3>2. req[q].at = "book" BY <1>2, <1>5, <2>1, <2>2, <2>5, <3>1 DEF StageOK, Stages, LocksOK, At
    <3>3. ~book'[t.book].exists BY <2>5, RemovedTables
    <3>4. QED BY <1>2, <2>3, <3>2, <3>3 DEF BookOK
  <2>6. CASE t.book # b
    <3>1. ItemsOf(t.book)' = ItemsOf(t.book) /\ book'[t.book] = book[t.book] BY <2>2, <2>6, RemovedTables
    <3>2. QED BY <1>2, <1>3, <2>1, <2>2, <2>3, <2>4, <3>1 DEF BookOK
  <2>7. QED BY <2>5, <2>6
<1>13. CreateOK(q)' BY <1>1, RemovedTables DEF TxOK, CreateOK, At
<1>14. QED BY <1>10, <1>11, <1>12, <1>13 DEF TxOK

\* Each listed collection has lost one item, and no other has.
LEMMA RemovedCounts ==
  ASSUME IInv, NEW r \in Request, NEW b, NEW listed, Removes(r, b, listed)
  PROVE  RowsOK' /\ RowsStay /\ CountsOK'
<1>1. lastItem' = lastItem /\ raced' = raced /\ items' = items \ ItemsOf(b) BY DEF Removes
<1>2. \A d : ItemsIn(d)' = ItemsIn(d) \ ItemsOf(b) BY RemovedTables
<1>3. \A c \in Collection : Live(c)' = Live(c) BY RemovedTables
<1>4. RowsOK'
  <2>1. IsFiniteSet(items)'
    <3>1. items' \in SUBSET items BY <1>1
    <3>2. QED BY <3>1, FS_Subset DEF IInv, RowsOK
  <2>2. IsFiniteSet(UserCollections)' BY RemovedTables DEF IInv, RowsOK
  <2>3. \A i \in items' : i \in items /\ i.book # b /\ i.book \in Book /\ i.collection \in Collection
    BY <1>1, Shapes DEF ItemsOf
  <2>4. \A d \in Book \ {b} : book'[d] = book[d] BY RemovedTables
  <2>5. \A i \in items' : i.id <= lastItem' /\ Live(i.collection)' /\ book'[i.book].exists
    BY <1>1, <1>3, <2>3, <2>4 DEF IInv, RowsOK
  <2>6. \A d \in Favorites : Live(d)' BY <1>3, CollectionsAssumption DEF IInv, RowsOK
  <2>7. QED BY <2>1, <2>2, <2>3, <2>5, <2>6 DEF IInv, RowsOK
<1>5. RowsStay BY <1>1, Shapes DEF RowsStay
<1>6. \A c \in Collection : /\ IsFiniteSet(ItemsIn(c)') /\ Cardinality(ItemsIn(c)') \in Nat
                            /\ Cardinality(ItemsIn(c)') <= Cardinality(ItemsIn(c))
  <2>1. SUFFICES ASSUME NEW c \in Collection
                 PROVE  /\ IsFiniteSet(ItemsIn(c)') /\ Cardinality(ItemsIn(c)') \in Nat
                        /\ Cardinality(ItemsIn(c)') <= Cardinality(ItemsIn(c))
    OBVIOUS
  <2>2. ItemsIn(c)' \in SUBSET ItemsIn(c) /\ IsFiniteSet(ItemsIn(c)) BY <1>2, FiniteParts
  <2>3. QED BY <2>2, FS_Subset, FS_CardinalityType
<1>7. BookCountExact'
  <2>1. SUFFICES ASSUME NEW c \in Collection, c \notin raced, Live(c)
        PROVE  collection'[c].bookCount = Cardinality(ItemsIn(c)')
    BY <1>1, <1>3 DEF BookCountExact
  <2>2. collection[c].bookCount = Cardinality(ItemsIn(c)) BY <2>1 DEF IInv, CountsOK, BookCountExact
  <2>3. c \in listed <=> \E i \in ItemsOf(b) : i.collection = c BY <2>1, RemovedTables
  <2>4. CASE c \in listed
    <3>1. PICK i \in ItemsOf(b) : i.collection = c BY <2>3, <2>4
    <3>2. i \in ItemsIn(c) /\ \A j \in ItemsIn(c) : j \in ItemsOf(b) => j = i
      BY <3>1 DEF ItemsIn, ItemsOf, IInv, CountsOK, ItemsDistinct
    <3>3. ItemsIn(c)' = ItemsIn(c) \ {i} BY <1>2, <3>1, <3>2
    <3>4. IsFiniteSet(ItemsIn(c)) BY FiniteParts
    <3>5. Cardinality(ItemsIn(c)') = Cardinality(ItemsIn(c)) - 1 BY <3>2, <3>3, <3>4, FS_RemoveElement
    <3>6. collection'[c].bookCount = collection[c].bookCount - 1 BY <2>1, <2>4, RemovedTables
    <3>7. QED BY <2>2, <3>5, <3>6
  <2>5. CASE c \notin listed
    <3>1. ItemsIn(c)' = ItemsIn(c) BY <1>2, <2>3, <2>5 DEF ItemsIn
    <3>2. collection'[c] = collection[c] BY <2>5, RemovedTables
    <3>3. QED BY <2>2, <3>1, <3>2
  <2>6. QED BY <2>4, <2>5
<1>8. FavoritesExact'
  <2>1. SUFFICES ASSUME NEW d \in Book, book'[d].exists
        PROVE  book'[d].favoriteCount = Cardinality({i \in ItemsOf(d)' : i.collection \in Favorites})
    BY DEF FavoritesExact
  <2>2. d # b /\ ItemsOf(d)' = ItemsOf(d) /\ book'[d] = book[d] BY <2>1, RemovedTables
  <2>3. QED BY <2>1, <2>2 DEF IInv, CountsOK, FavoritesExact
<1>9. BookLimitKept'
  <2>1. SUFFICES ASSUME NEW c \in Collection, c \notin Favorites, c \notin raced
        PROVE  Cardinality(ItemsIn(c)') <= BookLimit[c]
    BY <1>1 DEF BookLimitKept
  <2>2. Cardinality(ItemsIn(c)) <= BookLimit[c] BY <2>1 DEF IInv, CountsOK, BookLimitKept
  <2>3. Cardinality(ItemsIn(c)) \in Nat /\ BookLimit[c] \in Nat BY FiniteParts, CollectionsAssumption
  <2>4. QED BY <1>6, <2>2, <2>3
<1>10. UserLimitKept' BY RemovedTables DEF IInv, CountsOK, UserLimitKept
<1>11. ItemsDistinct' BY <1>1 DEF IInv, CountsOK, ItemsDistinct
<1>12. QED BY <1>4, <1>5, <1>7, <1>8, <1>9, <1>10, <1>11 DEF CountsOK

\* deleteById counts the collections down.
LEMMA CountDownStep ==
  ASSUME IInv, NEW r \in Request, CountDown(r)
  PROVE  IInv'
<1> DEFINE done == {c \in req[r].listed : CollectionRow(c) \in req[r].locks \cup req[r].wants}
           left == req[r].listed \ done
<1>1. At(r, "deleteBook", "count") /\ Blockers(r) = {} BY DEF CountDown, Runs
<1>2. req[r].listed \in SUBSET Collection BY Shapes DEF Transactions
<1>3. CASE left # {}
  <2>1. LockNext(r, left) /\ UNCHANGED tables BY <1>3 DEF CountDown
  <2>2. left \in SUBSET Collection BY <1>2
  <2> HIDE DEF left
  <2>3. PICK wants \in SUBSET Row : GoTo(r, "count", wants) BY <2>1, <2>2, NextLocked
  <2>4. QED BY <1>1, <2>1, <2>3, CountDownGoes
<1>4. CASE left = {}
  <2>1. PICK b, listed : b = req[r].book /\ listed = req[r].listed OBVIOUS
  <2>2. \A c \in listed : CollectionRow(c) \in req[r].locks \cup req[r].wants BY <1>4, <2>1
  <2>3. /\ book' = [book EXCEPT ![b] = [exists |-> FALSE, favoriteCount |-> 0]]
        /\ items' = items \ ItemsOf(b)
        /\ collection' = [c \in Collection |->
             IF c \in listed /\ Live(c) THEN [collection[c] EXCEPT !.bookCount = @ - 1] ELSE collection[c]]
        /\ End(r) /\ UNCHANGED <<lastItem, raced>>
    BY <1>4, <2>1 DEF CountDown
  <2>4. Removes(r, b, listed) BY <1>1, <2>1, <2>2, <2>3 DEF Removes
  <2>5. End(r) /\ lastItem' = lastItem /\ raced' = raced BY <2>3
  <2>6. req' = [req EXCEPT ![r] = Idle] /\ Idle \in Transactions /\ Idle.op = "none"
    BY <2>5, IdleTyped DEF End, Idle
  <2>7. SlotsOK' BY <2>5, <2>6, SlotsKeep
  <2>8. Typed'
    <3>1. items' \subseteq Item /\ raced' \subseteq Collection /\ lastItem' \in 0..MaxItems
      BY <2>3, Shapes DEF IInv, Typed, TypeOK
    <3>2. /\ book' \in [Book -> [exists : BOOLEAN, favoriteCount : Nat]]
          /\ collection' \in [Collection -> [state : {"none", "live", "gone"}, bookCount : Int]]
      BY <2>4, RemovedTables DEF CollectionTypes
    <3>3. QED BY <2>5, <3>1, <3>2, TypedAtEnd
  <2>9. RowsOK' /\ RowsStay /\ CountsOK' BY <2>4, RemovedCounts
  <2>10. ASSUME NEW q \in Request \ {r} PROVE TxOK(q)'
    <3>1. req'[q] = req[q] BY <2>6, Shapes
    <3>2. lastItem' \in 0..MaxItems BY <2>5, Shapes
    <3>3. StageOK(q)' /\ WantsOK(q)' /\ LocksOK(q)' /\ ReorderOK(q)' BY <2>9, <3>1, <3>2, OthersGoOn
    <3>4. QED BY <2>4, <3>1, <3>3, RemovedOthers
  <2>11. QED BY <2>5, <2>7, <2>8, <2>9, <2>10, Ended
<1>5. QED BY <1>3, <1>4

-----------------------------------------------------------------------------
(***************************************************************************)
(* The invariant                                                           *)
(***************************************************************************)
\* It holds at first.
LEMMA InitIInv == Init => IInv
<1> SUFFICES ASSUME Init PROVE IInv OBVIOUS
<1>1. /\ book = [b \in Book |-> [exists |-> TRUE, favoriteCount |-> 0]]
      /\ collection = [c \in Collection |->
           [state |-> IF c \in Favorites \cup System THEN "live" ELSE "none", bookCount |-> 0]]
      /\ items = {} /\ lastItem = 0 /\ req = [r \in Request |-> Idle] /\ raced = {}
  BY DEF Init
<1>2. /\ Idle \in Transactions /\ Idle.op = "none" /\ Idle.at = "idle" /\ Idle.locks = {} /\ Idle.wants = {}
  BY IdleTyped DEF Idle
<1>3. IsFiniteSet({}) /\ Cardinality({}) = 0 BY FS_EmptySet
<1>4. /\ MaxItems \in Nat /\ UserLimit \in Nat /\ BookLimit \in [Collection -> Nat] /\ Favorites \subseteq Collection
  BY CollectionsAssumption
<1>5. Typed
  <2>1. req \in [Request -> Transactions] BY <1>1, <1>2
  <2>2. \A r \in Request : /\ req[r].collection \in Collection \cup {None}
                           /\ req[r].book \in Book \cup {None} /\ req[r].item \in 0..MaxItems
    BY <2>1 DEF Transactions
  <2>3. TypeOK BY <1>1, <1>4, <2>2 DEF TypeOK
  <2>4. QED BY <2>1, <2>3 DEF Typed
<1>6. UserCollections = {} BY <1>1 DEF UserCollections, Live
<1>7. RowsOK BY <1>1, <1>3, <1>4, <1>6 DEF RowsOK, Live
<1>8. CountsOK
  <2>1. \A c : ItemsIn(c) = {} BY <1>1 DEF ItemsIn
  <2>2. \A b : {i \in ItemsOf(b) : i.collection \in Favorites} = {} BY <1>1 DEF ItemsOf
  <2>3. BookCountExact BY <1>1, <1>3, <2>1 DEF BookCountExact
  <2>4. FavoritesExact BY <1>1, <1>3, <2>2 DEF FavoritesExact
  <2>5. BookLimitKept BY <1>3, <1>4, <2>1 DEF BookLimitKept
  <2>6. UserLimitKept BY <1>3, <1>4, <1>6 DEF UserLimitKept
  <2>7. ItemsDistinct BY <1>1 DEF ItemsDistinct
  <2>8. QED BY <2>3, <2>4, <2>5, <2>6, <2>7 DEF CountsOK
<1>9. SlotsOK
  <2>1. Inserting = {} BY <1>1, <1>2 DEF Inserting
  <2>2. QED BY <1>1, <1>3, <1>4, <2>1 DEF SlotsOK
<1>10. LocksExclusive BY <1>1, <1>2 DEF LocksExclusive
<1>11. ItemLocksOK BY <1>1, <1>2 DEF ItemLocksOK, CollectionFirst
<1>12. \A r \in Request : TxOK(r)
  BY <1>1, <1>2
  DEF TxOK, StageOK, Stages, WantsOK, LocksOK, InsertOK, DeleteOK, ReorderOK, MovesOK, CollectionOK,
      BookOK, CreateOK, At, HasCollection
<1>13. QED BY <1>5, <1>7, <1>8, <1>9, <1>10, <1>11, <1>12 DEF IInv

\* A transaction begins.
LEMMA StartStep ==
  ASSUME IInv, NEW r \in Request, Start(r)
  PROVE  IInv'
<1> USE DEF Start
<1>1. CASE \E c \in Collection, b \in Book : AddBook(r, c, b) \/ ToggleFavorite(r, c, b)
  BY <1>1, AddBookStep, ToggleFavoriteStep
<1>2. CASE \E c \in Collection, i \in items : RemoveBook(r, c, i) BY <1>2, RemoveBookStep
<1>3. CASE \E c \in Collection : \E ids \in SUBSET {i.id : i \in ItemsIn(c)} :
             \E order \in SetToSeqs(ids) : Reorder(r, c, order)
  BY <1>3, ReorderStep
<1>4. CASE CreateCollection(r) BY <1>4, CreateCollectionStep
<1>5. CASE \E c \in Collection : DeleteCollection(r, c) BY <1>5, DeleteCollectionStep
<1>6. CASE \E b \in Book : DeleteBook(r, b) BY <1>6, DeleteBookStep
<1>7. QED BY <1>1, <1>2, <1>3, <1>4, <1>5, <1>6

\* A statement runs.
LEMMA StatementStep ==
  ASSUME IInv, NEW r \in Request, Statement(r)
  PROVE  IInv'
<1>1. CASE LockForAdd(r) BY <1>1, LockForAddStep
<1>2. CASE InsertItem(r) BY <1>2, InsertItemStep
<1>3. CASE FavoriteAdded(r) BY <1>3, FavoriteAddedStep
<1>4. CASE DeleteItem(r) BY <1>4, DeleteItemStep
<1>5. CASE CountRemoved(r) BY <1>5, CountRemovedStep
<1>6. CASE FavoriteRemoved(r) BY <1>6, FavoriteRemovedStep
<1>7. CASE LockForToggle(r) BY <1>7, LockForToggleStep
<1>8. CASE ToggleOff(r) BY <1>8, ToggleOffStep
<1>9. CASE ToggleOn(r) BY <1>9, ToggleOnStep
<1>10. CASE ToggledOff(r) BY <1>10, ToggledOffStep
<1>11. CASE ToggledOn(r) BY <1>11, ToggledOnStep
<1>12. CASE LockForReorder(r) BY <1>12, LockForReorderStep
<1>13. CASE WriteOrder(r) BY <1>13, WriteOrderStep
<1>14. CASE CountCollections(r) BY <1>14, CountCollectionsStep
<1>15. CASE \E c \in Collection : InsertCollection(r, c) BY <1>15, InsertCollectionStep
<1>16. CASE LockForDelete(r) BY <1>16, LockForDeleteStep
<1>17. CASE CollectionDeleted(r) BY <1>17, CollectionDeletedStep
<1>18. CASE LockBook(r) BY <1>18, LockBookStep
<1>19. CASE Cascade(r) BY <1>19, CascadeStep
<1>20. CASE CountDown(r) BY <1>20, CountDownStep
<1>21. QED
  BY <1>1, <1>2, <1>3, <1>4, <1>5, <1>6, <1>7, <1>8, <1>9, <1>10, <1>11, <1>12, <1>13, <1>14, <1>15,
     <1>16, <1>17, <1>18, <1>19, <1>20 DEF Statement

\* Every step keeps it.
LEMMA NextIInv == IInv /\ [Next]_vars => IInv'
<1> SUFFICES ASSUME IInv, [Next]_vars PROVE IInv' OBVIOUS
<1>1. CASE UNCHANGED vars
  <2>1. UNCHANGED tables /\ req' = req /\ lastItem' = lastItem BY <1>1 DEF vars, tables
  <2>2. RowsOK' /\ CountsOK' BY <2>1, TablesKeep
  <2>3. Typed' /\ SlotsOK' BY <1>1 DEF vars, IInv, Typed, TypeOK, SlotsOK, Inserting
  <2>4. LocksExclusive' BY <2>1 DEF IInv, LocksExclusive
  <2>5. ItemLocksOK' BY <1>1 DEF vars, IInv, ItemLocksOK, CollectionFirst, Touches
  <2>6. \A q \in Request : TxOK(q)'
    <3>1. ASSUME NEW q \in Request PROVE TxOK(q)'
      <4>1. req'[q] = req[q] /\ TxOK(q) BY <2>1 DEF IInv
      <4>2. QED BY <2>1, <4>1, OthersKeep
    <3>2. QED BY <3>1
  <2>7. QED BY <2>2, <2>3, <2>4, <2>5, <2>6 DEF IInv
<1>2. ASSUME NEW r \in Request, Start(r) PROVE IInv' BY <1>2, StartStep
<1>3. ASSUME NEW r \in Request, Statement(r) PROVE IInv' BY <1>3, StatementStep
<1>4. ASSUME NEW r \in Request, Abort(r) PROVE IInv' BY <1>4, RollbackStep DEF Abort
<1>5. QED BY <1>1, <1>2, <1>3, <1>4 DEF Next

\* It always holds: what every other theorem rests on.
THEOREM Inductive == Spec => []IInv
BY InitIInv, NextIInv, PTL DEF Spec

\* A request that holds a row and waits for one, and locks its collection first, has it.
LEMMA WaitsInside ==
  ASSUME IInv, NEW r \in Request, req[r].op \notin {"remove", "deleteBook"},
         req[r].locks # {}, req[r].wants # {}
  PROVE  /\ CollectionFirst(r)
         /\ req[r].wants \subseteq {BookRow(req[r].book), BookKey(req[r].book, r)} \cup AllItemRows
         /\ req[r].locks \subseteq {CollectionRow(req[r].collection), BookKey(req[r].book, r), UserCollectionsLock}
                                   \cup AllItemRows
<1>1. StageOK(r) /\ WantsOK(r) /\ LocksOK(r) BY DEF IInv, TxOK
<1>2. req[r].op # "none" /\ ~At(r, "create", "count") /\ ~At(r, "create", "insert") /\ req[r].at # "lock"
  BY <1>1 DEF StageOK, Stages, WantsOK, LocksOK, At
<1>3. <<req[r].op, req[r].at>> \in
        {<<"add", "insert">>, <<"add", "favorite">>, <<"toggle", "off">>, <<"toggle", "on">>,
         <<"toggle", "less">>, <<"toggle", "more">>, <<"reorder", "write">>, <<"deleteCollection", "items">>}
  BY <1>1, <1>2 DEF StageOK, Stages, At
<1>4. CollectionFirst(r) BY <1>3 DEF CollectionFirst
<1>5. ItemRow(req[r].item) \in AllItemRows BY Shapes, ItemRowsApart DEF Transactions
<1>6. req[r].wants \subseteq {BookRow(req[r].book), BookKey(req[r].book, r)} \cup AllItemRows
  BY <1>1, <1>3, <1>5 DEF WantsOK, At
<1>7. QED BY <1>1, <1>4, <1>6 DEF LocksOK

\* In a circle of waiting requests, two that lock the collection first would wait for one item.
LEMMA DeadlockNeeds == IInv => DeadlockNeedsItemFirst
<1> SUFFICES ASSUME IInv, NEW set \in SUBSET Request, Deadlocked(set),
                    \A q \in set : req[q].op \notin {"remove", "deleteBook"}
             PROVE  FALSE
  BY DEF DeadlockNeedsItemFirst
<1>1. \A r \in set : \E q \in set : q # r /\ req[q].locks \cap req[r].wants # {} BY DEF Deadlocked, Blockers
<1>2. PICK r \in set : TRUE BY DEF Deadlocked
<1>3. PICK q \in set : q # r /\ req[q].locks \cap req[r].wants # {} BY <1>1
<1>4. PICK p \in set : p # q /\ req[p].locks \cap req[q].wants # {} BY <1>1
<1>5. req[p].wants # {} BY <1>1
<1>6. PICK y : y \in req[p].locks /\ y \in req[q].wants BY <1>4
<1>7. req[q].locks # {} /\ req[q].wants # {} /\ req[p].locks # {} BY <1>3, <1>4
<1>8. /\ CollectionFirst(q) /\ CollectionFirst(p)
      /\ y \in {BookRow(req[q].book), BookKey(req[q].book, q)} \cup AllItemRows
      /\ y \in {CollectionRow(req[p].collection), BookKey(req[p].book, p), UserCollectionsLock} \cup AllItemRows
  BY <1>5, <1>6, <1>7, WaitsInside
<1>9. y \in AllItemRows BY <1>4, <1>8, RowsDistinct, ItemRowsApart
<1>10. PICK id \in Nat : y = ItemRow(id) BY <1>9 DEF AllItemRows
<1>11. Touches(p, id) /\ Touches(q, id) BY <1>6, <1>10 DEF Touches
<1>12. QED BY <1>4, <1>8, <1>11 DEF IInv, ItemLocksOK

-----------------------------------------------------------------------------
(***************************************************************************)
(* Theorems                                                                *)
(***************************************************************************)

\* Rows and transactions keep their shape.
THEOREM CollectionsTyped == Spec => []TypeOK
BY Inductive, PTL DEF IInv, Typed

\* However requests interleave, wait, abort or break a deadlock, bookCount of a live
\* collection is the number of its items, unless an item came or went while the deletion
\* of its book ran (collections.service.ts, books.service.ts:1188).
THEOREM BookCountsExact == Spec => []BookCountExact
BY Inductive, PTL DEF IInv, CountsOK

\* favoriteCount of a book is the number of favourites collections that hold it.
THEOREM FavoriteCountsExact == Spec => []FavoritesExact
BY Inductive, PTL DEF IInv, CountsOK

\* Concurrent additions do not take a collection past its limit (addBook).
THEOREM BookLimitHolds == Spec => []BookLimitKept
BY Inductive, PTL DEF IInv, CountsOK

\* Concurrent creations do not take a user past the limit (createUserCollection).
THEOREM UserLimitHolds == Spec => []UserLimitKept
BY Inductive, PTL DEF IInv, CountsOK

\* A collection lists a book once and a position once, also while it is reordered.
THEOREM ItemsStayDistinct == Spec => []ItemsDistinct
BY Inductive, PTL DEF IInv, CountsOK

\* Every deadlock has a removeBook or a deletion of a book in it.
THEOREM DeadlocksNeedItemFirst == Spec => []DeadlockNeedsItemFirst
BY Inductive, DeadlockNeeds, PTL
=============================================================================
