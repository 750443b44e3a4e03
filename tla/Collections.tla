------------------------------ MODULE Collections ------------------------------
(***************************************************************************)
(* Collections of books (collections.service.ts) and the parts of          *)
(* books.service.ts that change them: toggling a favourite and deleting a  *)
(* book.  Every request runs one PostgreSQL transaction under READ         *)
(* COMMITTED, one statement a step: what it writes is seen by others when  *)
(* it commits, the rows it wrote are locked until then, and a statement    *)
(* that needs a locked row waits.                                          *)
(***************************************************************************)
EXTENDS Naturals, Integers, FiniteSets, FiniteSetsExt, SequencesExt

CONSTANTS Book,
          Collection,
          Favorites,   \* the collections of type FAVORITES
          System,      \* those of type SYSTEM; the others are one user's own
          Request,     \* HTTP requests that run at the same time
          None,
          BookLimit,   \* limits.booksPerCollection, by the type of the collection
          UserLimit,   \* limits.userCollections
          MaxItems     \* model bound: items ever inserted

ASSUME CollectionsAssumption ==
  /\ Favorites \subseteq Collection /\ System \subseteq Collection \ Favorites
  /\ BookLimit \in [Collection -> Nat]
  /\ {UserLimit, MaxItems} \subseteq Nat
  /\ None \notin Book \cup Collection
  /\ IsFiniteSet(Request)

VARIABLES
  book,       \* Book rows: whether they exist, favoriteCount
  collection, \* Collection rows: state and bookCount
  items,      \* CollectionItem rows
  lastItem,   \* the sequence of CollectionItem.id
  req,        \* the transaction of each request
  raced       \* history: an item came or went while the deletion of its book ran

vars == <<book, collection, items, lastItem, req, raced>>
tables == <<book, collection, items, lastItem, raced>>

ItemId == 1..MaxItems
Item == [id : ItemId, collection : Collection, book : Book, position : Nat \ {0}]

\* Row locks.  An insert that refers to a book shares a lock on its key, which only
\* the deletion of the book conflicts with: one <<"key", b, r>> for each sharer r.
CollectionRow(c) == <<"collection", c>>
BookRow(b) == <<"book", b>>
BookKey(b, r) == <<"key", b, r>>
WholeBook(b) == {BookRow(b)} \cup {BookKey(b, r) : r \in Request}
ItemRows(set) == {<<"item", i.id>> : i \in set}
UserCollectionsLock == <<"advisory", "collections">>

Idle == [op |-> "none", at |-> "idle", collection |-> None, book |-> None, item |-> 0,
         position |-> 0, listed |-> {}, order |-> <<>>, moves |-> {}, wants |-> {}, locks |-> {}]

\* The user has the favourites and none of the other collections; nothing has items.
Init == /\ book = [b \in Book |-> [exists |-> TRUE, favoriteCount |-> 0]]
        /\ collection = [c \in Collection |->
             [state |-> IF c \in Favorites \cup System THEN "live" ELSE "none", bookCount |-> 0]]
        /\ items = {}
        /\ lastItem = 0
        /\ req = [r \in Request |-> Idle]
        /\ raced = {}

-----------------------------------------------------------------------------
(***************************************************************************)
(* Rows, locks and transactions                                            *)
(***************************************************************************)
Live(c) == collection[c].state = "live"
ItemsIn(c) == {i \in items : i.collection = c}
ItemsOf(b) == {i \in items : i.book = b}
WithId(id) == {i \in items : i.id = id}
MaxPosition(c) == Max({0} \cup {i.position : i \in ItemsIn(c)})
\* Model bounds: rows for every request that may insert one.
SomeItemLeft == lastItem + Cardinality({q \in Request : req[q].op \in {"add", "toggle"}}) < MaxItems
SomeCollectionLeft == Cardinality({q \in Request : req[q].op = "create"})
                      < Cardinality({c \in Collection : collection[c].state = "none"})
UserCollections == {c \in Collection \ (Favorites \cup System) : Live(c)}

\* The requests that hold a row the next statement of r needs.
Blockers(r) == {q \in Request \ {r} : req[q].locks \cap req[r].wants # {}}

At(r, op, at) == req[r].op = op /\ req[r].at = at
\* The next statement of r runs: it gets the rows it needs.
Runs(r, op, at) == At(r, op, at) /\ Blockers(r) = {}
Transaction(op, first, wants) == [Idle EXCEPT !.op = op, !.at = first, !.wants = wants]
Begin(r, transaction) ==
  /\ req[r].op = "none"
  /\ req' = [req EXCEPT ![r] = transaction]
  /\ UNCHANGED tables
GoTo(r, at, wants) ==
  req' = [req EXCEPT ![r].at = at, ![r].locks = @ \cup req[r].wants, ![r].wants = wants]
\* COMMIT, and the end of a transaction that changed nothing.
End(r) == req' = [req EXCEPT ![r] = Idle]
Rollback(r) == End(r) /\ UNCHANGED tables

\* A deletion of b has listed the collections of b and does not hold its items yet.
DeletionUnderWay(b) == \E q \in Request : /\ req[q].op = "deleteBook" /\ req[q].book = b
                                          /\ req[q].at \in {"book", "cascade"}
NoteRace(c, b) == raced' = IF DeletionUnderWay(b) THEN raced \cup {c} ELSE raced

\* The writes of a request on its collection, at COMMIT.
Insert(r) ==
  LET c == req[r].collection
      new == [id |-> lastItem + 1, collection |-> c, book |-> req[r].book,
              position |-> req[r].position]
  IN /\ items' = items \cup {new}
     /\ lastItem' = lastItem + 1
     /\ collection' = [collection EXCEPT ![c].bookCount = @ + 1]
     /\ NoteRace(c, req[r].book)
Delete(r) ==
  LET c == req[r].collection IN
  /\ items' = items \ WithId(req[r].item)
  /\ collection' = [collection EXCEPT ![c].bookCount = @ - 1]
  /\ NoteRace(c, req[r].book)
  /\ UNCHANGED lastItem

-----------------------------------------------------------------------------
(***************************************************************************)
(* addBook                                                                 *)
(***************************************************************************)
\* Mutant: no unique index on (collectionId, position).
ConflictingBook(r, c, b, position) == {i \in ItemsIn(c) : i.book = b}

\* The items the unique constraints compare a new item of r with.
Conflicting(r, c, b, position) == {i \in ItemsIn(c) : i.book = b \/ i.position = position}

\* SELECT .. FOR UPDATE: the subquery for the position reads the snapshot of the
\* statement, also when the statement then waits for the row.
AddBook(r, c, b) ==
  /\ Live(c) /\ SomeItemLeft
  /\ Begin(r, [Transaction("add", "lock", {CollectionRow(c)}) EXCEPT
                 !.collection = c, !.book = b, !.position = MaxPosition(c) + 1])

\* Mutant: the limit is compared with > .
LockForAddOffByOne(r) ==
  LET c == req[r].collection IN
  /\ Runs(r, "add", "lock")
  /\ IF Live(c) /\ ~(collection[c].bookCount > BookLimit[c])
     THEN /\ GoTo(r, "insert", {BookKey(req[r].book, r)}
                   \cup ItemRows(Conflicting(r, c, req[r].book, req[r].position)))
          /\ UNCHANGED tables
     ELSE Rollback(r)

\* The row is locked: bookCount is exact, and the limit is checked against it.
LockForAdd(r) ==
  LET c == req[r].collection IN
  /\ Runs(r, "add", "lock")
  /\ IF Live(c) /\ collection[c].bookCount < BookLimit[c]
     THEN /\ GoTo(r, "insert", {BookKey(req[r].book, r)}
                   \cup ItemRows(Conflicting(r, c, req[r].book, req[r].position)))
          /\ UNCHANGED tables
     ELSE Rollback(r)

\* Mutant: favourites are added like other items.
InsertItemUncounted(r) ==
  LET c == req[r].collection  b == req[r].book IN
  /\ Runs(r, "add", "insert")
  /\ IF book[b].exists /\ Conflicting(r, c, b, req[r].position) = {}
     THEN Insert(r) /\ End(r) /\ UNCHANGED book
     ELSE Rollback(r)

\* INSERT checks the foreign key and the unique constraints; the count is updated with it.
InsertItem(r) ==
  LET c == req[r].collection  b == req[r].book IN
  /\ Runs(r, "add", "insert")
  /\ \/ /\ ~book[b].exists \/ Conflicting(r, c, b, req[r].position) # {}
        /\ Rollback(r)
     \/ /\ book[b].exists /\ Conflicting(r, c, b, req[r].position) = {}
        /\ IF c \in Favorites
           THEN GoTo(r, "favorite", {BookRow(b)}) /\ UNCHANGED tables
           ELSE Insert(r) /\ End(r) /\ UNCHANGED book

\* adjustFavoriteCount(+1).
FavoriteAdded(r) ==
  /\ Runs(r, "add", "favorite")
  /\ book' = [book EXCEPT ![req[r].book].favoriteCount = @ + 1]
  /\ Insert(r) /\ End(r)

(***************************************************************************)
(* removeBook                                                              *)
(***************************************************************************)
\* findManageable reads without a lock; i is any item the client has seen.
RemoveBook(r, c, i) ==
  /\ Live(c) /\ i \in ItemsIn(c)
  /\ Begin(r, [Transaction("remove", "delete", ItemRows({i})) EXCEPT
                 !.collection = c, !.book = i.book, !.item = i.id])

\* Mutant: deleteMany, which does not tell when the item is gone.
DeleteItemIfAny(r) ==
  /\ Runs(r, "remove", "delete")
  /\ GoTo(r, "count", {CollectionRow(req[r].collection)}) /\ UNCHANGED tables

DeleteItem(r) ==
  /\ Runs(r, "remove", "delete")
  /\ IF WithId(req[r].item) = {}
     THEN Rollback(r)
     ELSE GoTo(r, "count", {CollectionRow(req[r].collection)}) /\ UNCHANGED tables

CountRemoved(r) ==
  /\ Runs(r, "remove", "count")
  /\ IF req[r].collection \in Favorites
     THEN GoTo(r, "favorite", {BookRow(req[r].book)}) /\ UNCHANGED tables
     ELSE Delete(r) /\ End(r) /\ UNCHANGED book

\* adjustFavoriteCount(-1) stops at zero, and does nothing when the book is gone.
FavoriteRemoved(r) ==
  /\ Runs(r, "remove", "favorite")
  /\ book' = [book EXCEPT ![req[r].book].favoriteCount = IF @ > 0 THEN @ - 1 ELSE 0]
  /\ Delete(r) /\ End(r)

(***************************************************************************)
(* toggleFavorite                                                          *)
(***************************************************************************)
\* Mutant: the book is locked first, to read its count.
ToggleFavoriteBookFirst(r, c, b) ==
  /\ c \in Favorites /\ book[b].exists /\ SomeItemLeft
  /\ \A q \in Request : BookRow(b) \notin req[q].locks
  /\ Begin(r, [Transaction("toggle", "lock", {CollectionRow(c)}) EXCEPT
                 !.collection = c, !.book = b, !.locks = {BookRow(b)}])

ToggleFavorite(r, c, b) ==
  /\ c \in Favorites /\ book[b].exists /\ SomeItemLeft
  /\ Begin(r, [Transaction("toggle", "lock", {CollectionRow(c)}) EXCEPT !.collection = c, !.book = b])

\* The rest of the transaction runs under the lock of the collection: the item is looked
\* up, and the position is read, after the lock.  No limit is checked.
LockForToggle(r) ==
  LET c == req[r].collection  b == req[r].book  found == {i \in ItemsIn(c) : i.book = b} IN
  /\ Runs(r, "toggle", "lock")
  /\ req' = [req EXCEPT ![r].locks = req[r].wants,
               ![r].at = IF found # {} THEN "off" ELSE "on",
               ![r].wants = IF found # {} THEN ItemRows(found) ELSE {BookKey(b, r)},
               ![r].item = IF found = {} THEN 0 ELSE (CHOOSE i \in found : TRUE).id,
               ![r].position = MaxPosition(c) + 1]
  /\ UNCHANGED tables

ToggleOff(r) ==
  /\ Runs(r, "toggle", "off")
  /\ IF WithId(req[r].item) = {}
     THEN Rollback(r)
     ELSE GoTo(r, "less", {BookRow(req[r].book)}) /\ UNCHANGED tables
ToggleOn(r) ==
  /\ Runs(r, "toggle", "on")
  /\ IF book[req[r].book].exists
     THEN GoTo(r, "more", {BookRow(req[r].book)}) /\ UNCHANGED tables
     ELSE Rollback(r)

\* book.update, which fails when the book is gone.
ToggledOff(r) ==
  LET b == req[r].book IN
  /\ Runs(r, "toggle", "less")
  /\ IF book[b].exists
     THEN /\ book' = [book EXCEPT ![b].favoriteCount = @ - 1]
          /\ Delete(r) /\ End(r)
     ELSE Rollback(r)
ToggledOn(r) ==
  /\ Runs(r, "toggle", "more")
  /\ book' = [book EXCEPT ![req[r].book].favoriteCount = @ + 1]
  /\ Insert(r) /\ End(r)

(***************************************************************************)
(* reorder                                                                 *)
(***************************************************************************)
\* order: some items of the collection as the client has seen it.
Reorder(r, c, order) ==
  /\ Live(c) /\ c \notin Favorites
  /\ Begin(r, [Transaction("reorder", "lock", {CollectionRow(c)}) EXCEPT !.collection = c, !.order = order])

Ordered(r) == {i \in ItemsIn(req[r].collection) : i.id \in ToSet(req[r].order)}
\* ORDER BY position: the n-th of a set of items.
ByPosition(set, n) == CHOOSE i \in set : Cardinality({j \in set : j.position <= i.position}) = n
InOrder(r) == \A n \in DOMAIN req[r].order : ByPosition(Ordered(r), n).id = req[r].order[n]

\* positions: the items that were named get, in the new order, the positions they occupy.
LockForReorder(r) ==
  /\ Runs(r, "reorder", "lock")
  /\ IF Live(req[r].collection) /\ Cardinality(Ordered(r)) = Len(req[r].order) /\ ~InOrder(r)
     THEN /\ req' = [req EXCEPT ![r].at = "write", ![r].locks = req[r].wants,
               ![r].wants = ItemRows(Ordered(r)),
               ![r].moves = {<<req[r].order[n], ByPosition(Ordered(r), n).position>> :
                               n \in DOMAIN req[r].order}]
          /\ UNCHANGED tables
     ELSE Rollback(r)

\* Both UPDATEs; an item that was deleted meanwhile is not found.
WriteOrder(r) ==
  LET moved == {p \in items \X req[r].moves : p[1].id = p[2][1]}
  IN /\ Runs(r, "reorder", "write")
     /\ items' = (items \ Ordered(r)) \cup {[p[1] EXCEPT !.position = p[2][2]] : p \in moved}
     /\ End(r) /\ UNCHANGED <<book, collection, lastItem, raced>>

(***************************************************************************)
(* createUserCollection and delete                                         *)
(***************************************************************************)
CreateCollection(r) ==
  SomeCollectionLeft /\ Begin(r, Transaction("create", "count", {UserCollectionsLock}))

\* Mutant: no advisory lock.
CountCollectionsUnlocked(r) ==
  /\ At(r, "create", "count")
  /\ IF Cardinality(UserCollections) < UserLimit
     THEN req' = [req EXCEPT ![r].at = "insert", ![r].wants = {}] /\ UNCHANGED tables
     ELSE Rollback(r)

\* Creations of one user are serialized before the collections are counted.
CountCollections(r) ==
  /\ Runs(r, "create", "count")
  /\ IF Cardinality(UserCollections) < UserLimit
     THEN GoTo(r, "insert", {}) /\ UNCHANGED tables
     ELSE Rollback(r)
InsertCollection(r, c) ==
  /\ Runs(r, "create", "insert")
  /\ collection[c].state = "none"
  /\ collection' = [collection EXCEPT ![c] = [state |-> "live", bookCount |-> 0]]
  /\ End(r) /\ UNCHANGED <<book, items, lastItem, raced>>

\* Favourites are locked.  One DELETE, which cascades to the items.
DeleteCollection(r, c) ==
  /\ Live(c) /\ c \notin Favorites
  /\ Begin(r, [Transaction("deleteCollection", "lock", {CollectionRow(c)}) EXCEPT !.collection = c])
LockForDelete(r) ==
  /\ Runs(r, "deleteCollection", "lock")
  /\ IF Live(req[r].collection)
     THEN GoTo(r, "items", ItemRows(ItemsIn(req[r].collection))) /\ UNCHANGED tables
     ELSE Rollback(r)
CollectionDeleted(r) ==
  LET c == req[r].collection IN
  /\ Runs(r, "deleteCollection", "items")
  /\ collection' = [collection EXCEPT ![c] = [state |-> "gone", bookCount |-> 0]]
  /\ items' = items \ ItemsIn(c)
  /\ raced' = raced \ {c}
  /\ End(r) /\ UNCHANGED <<book, lastItem>>

(***************************************************************************)
(* BooksService.deleteById                                                 *)
(***************************************************************************)
\* groupBy lists the collections of the book, and locks nothing. Only a book
\* without chapters is deleted: for any other the statement fails (Abort).
DeleteBook(r, b) ==
  /\ book[b].exists
  /\ Begin(r, [Transaction("deleteBook", "book", WholeBook(b)) EXCEPT
                 !.book = b, !.listed = {i.collection : i \in ItemsOf(b)}])

\* DELETE of the book; then the cascade finds the items that are committed by now.
LockBook(r) ==
  LET b == req[r].book IN
  /\ Runs(r, "deleteBook", "book")
  /\ IF book[b].exists
     THEN GoTo(r, "cascade", ItemRows(ItemsOf(b))) /\ UNCHANGED tables
     ELSE Rollback(r)
LockNext(r, set) == \/ set = {} /\ GoTo(r, "count", {})
                    \/ \E c \in set : GoTo(r, "count", {CollectionRow(c)})
Cascade(r) ==
  /\ Runs(r, "deleteBook", "cascade")
  /\ LockNext(r, req[r].listed)
  /\ UNCHANGED tables

\* updateMany takes the rows of the listed collections one at a time, in any order.
CountDown(r) ==
  LET b == req[r].book
      done == {c \in req[r].listed : CollectionRow(c) \in req[r].locks \cup req[r].wants}
      left == req[r].listed \ done
  IN /\ Runs(r, "deleteBook", "count")
     /\ IF left # {}
        THEN LockNext(r, left) /\ UNCHANGED tables
        ELSE /\ book' = [book EXCEPT ![b] = [exists |-> FALSE, favoriteCount |-> 0]]
             /\ items' = items \ ItemsOf(b)
             /\ collection' = [c \in Collection |->
                  IF c \in req[r].listed /\ Live(c)
                  THEN [collection[c] EXCEPT !.bookCount = @ - 1] ELSE collection[c]]
             /\ End(r) /\ UNCHANGED <<lastItem, raced>>

-----------------------------------------------------------------------------
\* The connection is lost, a statement fails, the server stops, or PostgreSQL ends the
\* transaction to break a deadlock: nothing is written.
Abort(r) == req[r].op # "none" /\ Rollback(r)

\* A deadlock: each of some requests waits for a row that one of them holds.
Deadlocked(set) == set # {} /\ \A r \in set : Blockers(r) \cap set # {}

Start(r) ==
  \/ \E c \in Collection, b \in Book : AddBook(r, c, b) \/ ToggleFavorite(r, c, b)
  \/ \E c \in Collection, i \in items : RemoveBook(r, c, i)
  \/ \E c \in Collection : \E ids \in SUBSET {i.id : i \in ItemsIn(c)} :
       \E order \in SetToSeqs(ids) : Reorder(r, c, order)
  \/ CreateCollection(r)
  \/ \E c \in Collection : DeleteCollection(r, c)
  \/ \E b \in Book : DeleteBook(r, b)
Statement(r) ==
  \/ LockForAdd(r) \/ InsertItem(r) \/ FavoriteAdded(r)
  \/ DeleteItem(r) \/ CountRemoved(r) \/ FavoriteRemoved(r)
  \/ LockForToggle(r) \/ ToggleOff(r) \/ ToggleOn(r) \/ ToggledOff(r) \/ ToggledOn(r)
  \/ LockForReorder(r) \/ WriteOrder(r)
  \/ CountCollections(r) \/ \E c \in Collection : InsertCollection(r, c)
  \/ LockForDelete(r) \/ CollectionDeleted(r)
  \/ LockBook(r) \/ Cascade(r) \/ CountDown(r)

Next == \E r \in Request : Start(r) \/ Statement(r) \/ Abort(r)
Spec == Init /\ [][Next]_vars

-----------------------------------------------------------------------------
(***************************************************************************)
(* Properties                                                              *)
(***************************************************************************)
TypeOK ==
  /\ book \in [Book -> [exists : BOOLEAN, favoriteCount : Nat]]
  /\ collection \in [Collection -> [state : {"none", "live", "gone"}, bookCount : Int]]
  /\ items \subseteq Item /\ lastItem \in 0..MaxItems /\ raced \subseteq Collection
  /\ \A r \in Request : req[r].collection \in Collection \cup {None}
                        /\ req[r].book \in Book \cup {None} /\ req[r].item \in 0..MaxItems

\* Collection.bookCount, which pages show and limits are checked against without
\* counting, is the number of items of the collection, whatever requests interleave,
\* abort or deadlock: except that the deletion of a book counts down the collections it
\* listed before it locked the book, so that an item which came or went in between is
\* counted wrongly for ever (books.service.ts:1188).
BookCountExact == \A c \in Collection \ raced : Live(c) => collection[c].bookCount = Cardinality(ItemsIn(c))

\* Book.favoriteCount is the number of favourites collections that hold the book, though
\* three requests change it and none of them reads it under the same lock.
FavoritesExact ==
  \A b \in Book : book[b].exists =>
    book[b].favoriteCount = Cardinality({i \in ItemsOf(b) : i.collection \in Favorites})

\* addBook: concurrent additions do not take a collection past its limit.
BookLimitKept == \A c \in Collection \ (Favorites \cup raced) : Cardinality(ItemsIn(c)) <= BookLimit[c]

\* createUserCollection: "serialize creations per user so the limit cannot be exceeded".
UserLimitKept == Cardinality(UserCollections) <= UserLimit

\* A collection lists a book once and no position twice, reordered or not.
ItemsDistinct ==
  \A i, j \in items : i # j /\ i.collection = j.collection => i.book # j.book /\ i.position # j.position

\* Requests that lock the collection before the items and the book never wait for each
\* other in a circle: every deadlock has a removeBook or a book deletion in it, which
\* lock items first (collections.service.ts:412).
DeadlockNeedsItemFirst ==
  \A set \in SUBSET Request :
    Deadlocked(set) => \E q \in set : req[q].op \in {"remove", "deleteBook"}
=============================================================================
