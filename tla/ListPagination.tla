--------------------------- MODULE ListPagination ---------------------------
(***************************************************************************)
(* User.savedItems of a client that follows the cursors, page by page and  *)
(* statement by statement, while the list changes.                         *)
(*                                                                         *)
(* A page is put together in temporary tables of a pooled connection that  *)
(* the request holds from its first to its last statement: the saves with  *)
(* a highlight, the saves with one of the tags, and the rows of the page.  *)
(* The tables are those of the connection, not of the request: they are    *)
(* still there when the next request gets the connection.                  *)
(*                                                                         *)
(* The rows of the page are in a table of the MEMORY engine, which hands   *)
(* out deleted slots again, the last deleted one first, and which reads a  *)
(* table without ORDER BY slot by slot.                                    *)
(***************************************************************************)
EXTENDS ListFilter, Sequences, SequencesExt, FiniteSetsExt

CONSTANTS
    Ids,            \* item ids: numbers, for the queries order by them
    Clients,        \* clients of one user
    Connections,    \* the pool of the reader
    Walks,          \* how clients page: see Walk
    InitialLists,   \* the lists a run starts from
    RowLimit        \* the LIMIT on ties

(* What a client asks for, page after page: size elements from the front   *)
(* (first, after) or from the end (last, before) of a sorted, filtered list *)
Walk == [from: {"first", "last"}, size: Nat \ {0}, sortOrder: {"asc", "desc"},
         sortBy: {"CREATED_AT", "UPDATED_AT", "FAVORITED_AT", "ARCHIVED_AT"},
         filter: SavedItemsFilter]

ASSUME IdsAssumption == Ids \subseteq Nat /\ IsFiniteSet(Ids)
ASSUME WalksAssumption == Walks \subseteq Walk
ASSUME InitialListsAssumption == InitialLists \subseteq [Ids -> Row \cup {Null}]
ASSUME RowLimitAssumption == RowLimit \in Nat \ {0}

(* Null is none of the values that stand where it may stand *)
ASSUME NullAssumption ==
    /\ Null \notin Times /\ Null \notin Names
    /\ Null \notin Row /\ Null \notin [id: Ids, time: Optional(Times)]

VARIABLES
    list,       \* the rows of the user
    tables,     \* the temporary tables of each connection
    conn,       \* the connection a client's request holds
    pc,         \* the statement the request is at
    walk,       \* what the client asks for, page after page
    cursor,     \* the cursor it sends, Null for the first page
    ended,      \* how its walk ended
    visited,    \* history: the ids it got, in the order it got them
    steady,     \* history: the saves that were there from its start on, unchanged
    walkable    \* history: its walk has been Walkable all along

clientVars == <<conn, pc, walk, cursor, ended, visited, steady, walkable>>
vars == <<list, tables, clientVars>>

-----------------------------------------------------------------------------
(* Sorting *)

dbSortByMap == [CREATED_AT |-> "time_added", UPDATED_AT |-> "time_updated",
                FAVORITED_AT |-> "time_favorited", ARCHIVED_AT |-> "time_read"]

column(w) == dbSortByMap[w.sortBy]

opposite(w) == IF w.sortOrder = "desc" THEN "asc" ELSE "desc"

(* The order in which the rows are fetched *)
order(w) == IF w.from = "first" THEN w.sortOrder ELSE opposite(w)

(* ORDER BY the column, then item_id, which is always ascending *)
OrderedBy(direction, a, b) ==
    \/ a.time = b.time /\ a.id < b.id
    \/ direction = "asc" /\ a.time < b.time
    \/ direction = "desc" /\ a.time > b.time

OrderBy(rows, direction) ==
    CHOOSE seq \in [1..Cardinality(rows) -> rows] :
        \A i, j \in 1..Cardinality(rows) : i < j => OrderedBy(direction, seq[i], seq[j])

Limit(rows, n) == SubSeq(rows, 1, Min({n, Len(rows)}))

-----------------------------------------------------------------------------
(* The MEMORY engine *)

Free == Null

(* The deleted slots are always the first ones of the table *)
Deleted(slots) == Cardinality({i \in DOMAIN slots : slots[i] = Free})

(* INSERT: deleted slots are handed out again, the last deleted one first *)
Insert(slots, rows) ==
    LET free == Deleted(slots)
    IN [i \in 1..Len(slots) + Max({0, Len(rows) - free}) |->
            CASE i <= free       -> IF free - i + 1 <= Len(rows) THEN rows[free - i + 1] ELSE Free
              [] i > Len(slots)  -> rows[free + i - Len(slots)]
              [] OTHER           -> slots[i]]

(* DELETE WHERE seq <= n of a table that was filled by one INSERT *)
DeleteUpTo(slots, n) == [i \in DOMAIN slots |-> IF i <= n THEN Free ELSE slots[i]]

Scan(slots) == SubSeq(slots, Deleted(slots) + 1, Len(slots))

-----------------------------------------------------------------------------
(* The base query *)

NoTables == [list |-> Null, highlights |-> Null, tags |-> Null]

(* A row of the page: the item and the time it is sorted by *)
Entry(w, i) == [id |-> i, time |-> list[i][column(w)]]

(* The conditions of buildFilterQuery before those on tags *)
Filtered(c) ==
    LET filter == walk[c].filter IN
    {i \in Ids :
        /\ list[i] # Null
        /\ Where(filter, list[i])
        /\ filter.isHighlighted # Null => (i \in tables[conn[c]].highlights) = filter.isHighlighted
        /\ filter.contentType # Null => contentTypeFilter(filter.contentType, list[i].content)}

baseQuery(c) ==
    {Entry(walk[c], i) : i \in
        {j \in Filtered(c) : walk[c].filter.tagNames # {} => j \in tables[conn[c]].tags}}

Fetched(c, rows) == OrderBy(rows, order(walk[c]))

pageSize(c) == walk[c].size

-----------------------------------------------------------------------------
(* Cursors *)

Nullable == {"time_read", "time_favorited"}

(* Mutant of encodeCursor: milliseconds, as decodeCursor's caller makes them *)
encodeCursorMillis(w, e) == [id |-> e.id, time |-> 1000 * e.time]

(* _toGraphql and encodeCursor: favoritedAt and archivedAt of a zero date are null *)
encodeCursor(w, e) ==
    [id |-> e.id,
     time |-> IF column(w) \in Nullable /\ e.time = 0 THEN Null ELSE e.time]

(* Mutant of AtCursor: equality instead of IS NULL *)
AtCursorEqual(c, e) == e.time = cursor[c].time

(* The column equals the cursor's time; IS NULL is true of a zero date in  *)
(* a column that is NOT NULL.                                              *)
AtCursor(c, e) == e.time = IF cursor[c].time = Null THEN 0 ELSE cursor[c].time

(* A comparison with NULL is not true *)
BeyondCursor(c, e) ==
    /\ cursor[c].time # Null
    /\ IF order(walk[c]) = "desc" THEN e.time < cursor[c].time ELSE e.time > cursor[c].time

(* The cursor's row and the rows with the same time *)
Collisions(c) == Limit(Fetched(c, {e \in baseQuery(c) : AtCursor(c, e)}), RowLimit)

(* What is left of them when all rows up to the cursor's are deleted *)
AfterCursor(c, rows) == DeleteUpTo(rows, SelectInSeq(rows, LAMBDA e : e.id = cursor[c].id))

-----------------------------------------------------------------------------
(* The times that a walk goes by are all different, and it does not go up  *)
(* from a zero date.                                                       *)
Walkable(w, rows) ==
    LET ids     == {i \in Ids : rows[i] # Null}
        time(i) == rows[i][column(w)]
    IN /\ \A i, j \in ids : time(i) = time(j) => i = j
       /\ order(w) = "asc" => \A i \in ids : time(i) # 0

-----------------------------------------------------------------------------
(* The statements of a request *)

Init ==
    /\ list \in InitialLists
    /\ tables = [k \in Connections |-> NoTables]
    /\ conn = [c \in Clients |-> Null]
    /\ pc = [c \in Clients |-> "idle"]
    /\ walk \in [Clients -> Walks]
    /\ cursor = [c \in Clients |-> Null]
    /\ walkable = [c \in Clients |-> FALSE]
    /\ ended = [c \in Clients |-> "no"]
    /\ visited = [c \in Clients |-> <<>>]
    /\ steady = [c \in Clients |-> {}]

Goto(c, step) == pc' = [pc EXCEPT ![c] = step]

SetTable(c, table, content) == tables' = [tables EXCEPT ![conn[c]][table] = content]

(* A client starts to page, or starts again *)
Begin(c) ==
    /\ pc[c] = "idle"
    /\ cursor' = [cursor EXCEPT ![c] = Null]
    /\ ended' = [ended EXCEPT ![c] = "no"]
    /\ visited' = [visited EXCEPT ![c] = <<>>]
    /\ steady' = [steady EXCEPT ![c] = {i \in Ids : list[i] # Null}]
    /\ walkable' = [walkable EXCEPT ![c] = Walkable(walk[c], list)]
    /\ Goto(c, "acquire")
    /\ UNCHANGED <<list, tables, conn, walk>>

AcquireConnection(c) ==
    /\ pc[c] = "acquire"
    /\ \E k \in Connections \ {conn[d] : d \in Clients} : conn' = [conn EXCEPT ![c] = k]
    /\ Goto(c, "drop")
    /\ UNCHANGED <<list, tables, walk, cursor, ended, visited, steady, walkable>>

(* Mutant of dropTempTables: only the table of the page is dropped *)
dropTempTablesOne(c) ==
    /\ pc[c] = "drop"
    /\ SetTable(c, "list", Null)
    /\ Goto(c, "createList")
    /\ UNCHANGED <<list, conn, walk, cursor, ended, visited, steady, walkable>>

dropTempTables(c) ==
    /\ pc[c] = "drop"
    /\ tables' = [tables EXCEPT ![conn[c]] = NoTables]
    /\ Goto(c, "createList")
    /\ UNCHANGED <<list, conn, walk, cursor, ended, visited, steady, walkable>>

(* The query for the page comes last; totalCount is left out *)
PageStep(c) == IF cursor[c] = Null THEN "page" ELSE "collisions"

AfterHighlights(c) == IF walk[c].filter.tagNames # {} THEN "tags" ELSE PageStep(c)

AfterCreate(c) == IF walk[c].filter.isHighlighted # Null THEN "highlights" ELSE AfterHighlights(c)

listTempTableQuery(c) ==
    /\ pc[c] = "createList"
    /\ SetTable(c, "list", <<>>)
    /\ Goto(c, AfterCreate(c))
    /\ UNCHANGED <<list, conn, walk, cursor, ended, visited, steady, walkable>>

(* CREATE TEMPORARY TABLE and INSERT ... SELECT of the annotated items *)
isHighlightedFilter(c) ==
    /\ pc[c] = "highlights"
    /\ SetTable(c, "highlights", {i \in Ids : list[i] # Null /\ list[i].highlighted})
    /\ Goto(c, AfterHighlights(c))
    /\ UNCHANGED <<list, conn, walk, cursor, ended, visited, steady, walkable>>

(* CREATE TEMPORARY TABLE and INSERT ... SELECT of the base query so far *)
tagsTempTable(c) ==
    /\ pc[c] = "tags"
    /\ SetTable(c, "tags", {i \in Filtered(c) : tagNameFilter(walk[c].filter.tagNames, list[i])})
    /\ Goto(c, PageStep(c))
    /\ UNCHANGED <<list, conn, walk, cursor, ended, visited, steady, walkable>>

(* The request is over, its connection goes back to the pool *)
Release(c) == conn' = [conn EXCEPT ![c] = Null]

End(c, how) ==
    /\ ended' = [ended EXCEPT ![c] = how]
    /\ Goto(c, "idle")

(* Mutant of Nodes: the sentinel row is taken off the wrong end *)
NodesSentinelLast(w, page) == Limit(page, w.size)

(* A page from the client's point of view, who may go towards the front *)
Onward(w, nodes) == IF w.from = "first" THEN nodes ELSE Reverse(nodes)

(* The rows without the sentinel that tells whether there are more *)
Nodes(w, page) ==
    IF w.from = "last" /\ Len(page) > w.size THEN Tail(page) ELSE Limit(page, w.size)

(* The SELECT of the page, in the order of the list *)
Page(w, slots) ==
    Limit(IF w.from = "first" THEN Scan(slots) ELSE OrderBy(ToSet(Scan(slots)), w.sortOrder),
          w.size + 1)

(* What is made of it: the nodes, pageInfo and the cursors.  The client    *)
(* goes on as long as there are more elements where it is going.           *)
Deliver(c, page) ==
    \E nodes \in {Nodes(walk[c], page)} :
        /\ visited' = [visited EXCEPT ![c] = @ \o Onward(walk[c], [i \in DOMAIN nodes |-> nodes[i].id])]
        /\ cursor' = IF nodes = <<>> THEN cursor
                     ELSE [cursor EXCEPT ![c] = encodeCursor(walk[c], Last(Onward(walk[c], nodes)))]
        /\ IF Len(page) > walk[c].size THEN Goto(c, "acquire") /\ UNCHANGED ended
           ELSE End(c, "done")

(* The request ends with what is in the table *)
Answer(c, slots) ==
    /\ tables' = [tables EXCEPT ![conn[c]].list = slots]
    /\ Release(c)
    /\ \E page \in {Page(walk[c], slots)} : Deliver(c, page)
    /\ UNCHANGED <<list, walk, steady, walkable>>

(* The first page, from the front or from the end *)
pageFirstLast(c) ==
    /\ pc[c] = "page"
    /\ \E slots \in {Insert(<<>>, Limit(Fetched(c, baseQuery(c)), pageSize(c) + 1))} : Answer(c, slots)

CursorIn(c, rows) == \E i \in DOMAIN rows : rows[i].id = cursor[c].id

(* A page after or before a cursor: first the rows that have the same time. *)
(* Either they suffice,                                                    *)
CollisionsSuffice(c) ==
    /\ pc[c] = "collisions"
    /\ \E rows \in {Collisions(c)} :
        /\ CursorIn(c, rows)
        /\ Len(Scan(AfterCursor(c, rows))) > pageSize(c)
        /\ Answer(c, AfterCursor(c, rows))

(* or more rows are missing,                                               *)
CollisionsDoNotSuffice(c) ==
    /\ pc[c] = "collisions"
    /\ \E rows \in {Collisions(c)} :
        /\ CursorIn(c, rows)
        /\ Len(Scan(AfterCursor(c, rows))) <= pageSize(c)
        /\ SetTable(c, "list", AfterCursor(c, rows))
    /\ Goto(c, "rest")
    /\ UNCHANGED <<list, conn, walk, cursor, ended, visited, steady, walkable>>

(* or the cursor's row is not among them.                                  *)
CursorNotFound(c) ==
    /\ pc[c] = "collisions"
    /\ \E rows \in {Collisions(c)} :
        /\ ~CursorIn(c, rows)
        /\ SetTable(c, "list", rows)
    /\ Release(c)
    /\ End(c, "cursorNotFound")
    /\ UNCHANGED <<list, walk, cursor, visited, steady, walkable>>

(* As many rows beyond the cursor as are missing *)
RestOfPage(c) ==
    /\ pc[c] = "rest"
    /\ LET kept    == tables[conn[c]].list
           missing == pageSize(c) + 1 - Len(Scan(kept))
           rest    == Fetched(c, {e \in baseQuery(c) : BeyondCursor(c, e)})
       IN \E slots \in {Insert(kept, Limit(rest, missing))} : Answer(c, slots)

(* Mutant of Fail: the connection is released only after a success *)
FailKeepsConnection(c) ==
    /\ conn[c] # Null
    /\ End(c, "error")
    /\ UNCHANGED <<list, tables, conn, walk, cursor, visited, steady, walkable>>

(* A statement fails; the client gives up *)
Fail(c) ==
    /\ conn[c] # Null
    /\ Release(c)
    /\ End(c, "error")
    /\ UNCHANGED <<list, tables, walk, cursor, visited, steady, walkable>>

-----------------------------------------------------------------------------
(* Other requests change the list; each change sets time_updated, to a     *)
(* second that no other row has (Times bounds how many there are).         *)

Now == 1 + Max({0} \cup {list[i].time_updated : i \in {j \in Ids : list[j] # Null}})

Change(i, row) ==
    /\ Now \in Times
    /\ list' = [list EXCEPT ![i] = row]
    /\ steady' = [c \in Clients |-> steady[c] \ {i}]
    /\ walkable' = [c \in Clients |-> walkable[c] /\ Walkable(walk[c], list')]
    /\ UNCHANGED <<tables, conn, pc, walk, cursor, ended, visited>>

AddSave(i) ==
    /\ list[i] = Null
    /\ Change(i, [time_added |-> Now, time_updated |-> Now, time_read |-> 0, time_favorited |-> 0,
                  status |-> "UNREAD", favorite |-> FALSE, tags |-> {}, highlighted |-> FALSE,
                  content |-> Null])

Archive(i) ==
    /\ list[i] # Null
    /\ Change(i, [list[i] EXCEPT !.status = "ARCHIVED", !.time_read = Now, !.time_updated = Now])

Tag(i, name) ==
    /\ list[i] # Null
    /\ Change(i, [list[i] EXCEPT !.tags = @ \cup {name}, !.time_updated = Now])

Statement(c) ==
    \/ AcquireConnection(c) \/ dropTempTables(c) \/ listTempTableQuery(c)
    \/ isHighlightedFilter(c) \/ tagsTempTable(c)
    \/ pageFirstLast(c) \/ CollisionsSuffice(c) \/ CollisionsDoNotSuffice(c)
    \/ CursorNotFound(c) \/ RestOfPage(c)

Next ==
    \/ \E c \in Clients : Begin(c) \/ Statement(c) \/ Fail(c)
    \/ \E i \in Ids : AddSave(i) \/ Archive(i) \/ \E name \in Names : Tag(i, name)

Spec == Init /\ [][Next]_vars

(* A pool hands out its connections and a server answers its statements, or *)
(* refuses them; nobody counts on a failure.                               *)
Fairness == \A c \in Clients : WF_vars(Statement(c))

FairSpec == Spec /\ Fairness

-----------------------------------------------------------------------------
Steps == {"idle", "acquire", "drop", "createList", "highlights", "tags", "page",
          "collisions", "rest"}

TempRow == [id : Ids, time : Times]

TypeOK ==
    /\ list \in [Ids -> Row \cup {Null}]
    /\ \A k \in Connections :
        /\ tables[k].list = Null \/ \A i \in DOMAIN tables[k].list : tables[k].list[i] \in TempRow \cup {Free}
        /\ tables[k].highlights = Null \/ tables[k].highlights \subseteq Ids
        /\ tables[k].tags = Null \/ tables[k].tags \subseteq Ids
    /\ conn \in [Clients -> Connections \cup {Null}]
    /\ pc \in [Clients -> Steps]
    /\ walk \in [Clients -> Walks]
    /\ \A c \in Clients : cursor[c] # Null => cursor[c] \in [id : Ids, time : Times \cup {Null}]
    /\ walkable \in [Clients -> BOOLEAN]
    /\ ended \in [Clients -> {"no", "done", "cursorNotFound", "error"}]
    /\ \A c \in Clients : \A i \in DOMAIN visited[c] : visited[c][i] \in Ids
    /\ steady \in [Clients -> SUBSET Ids]

(* A request never meets a temporary table that an earlier request left on *)
(* its connection, however that one ended: CREATE would fail, and so would *)
(* every later page on that connection.                                    *)
NoTableLeft ==
    \A c \in Clients :
        /\ pc[c] = "createList" => tables[conn[c]].list = Null
        /\ pc[c] = "highlights" => tables[conn[c]].highlights = Null
        /\ pc[c] = "tags" => tables[conn[c]].tags = Null

(* The saves that a walk is about: those that the filter selects, as the   *)
(* schema has it                                                           *)
Expected(c) == {i \in steady[c] : Wanted(walk[c].filter, list[i])}

(* A walk from the front comes by i before j *)
Precedes(c, i, j) ==
    LET w == walk[c] IN OrderedBy(w.sortOrder, Entry(w, i), Entry(w, j))

(* Of two saves, the one that a walk should come by first *)
ComesFirst(c, i, j) == IF walk[c].from = "first" THEN Precedes(c, i, j) ELSE Precedes(c, j, i)

(* Of the saves that do not change, a client that follows the cursors gets *)
(* those the filter selects, each one once, in order, without a gap, and   *)
(* when there are no more elements it has got them all.                    *)
VisitsInOrder(c) ==
    /\ ToSet(visited[c]) \cap steady[c] \subseteq Expected(c)
    /\ \A p, q \in DOMAIN visited[c] :
          p < q /\ {visited[c][p], visited[c][q]} \subseteq steady[c]
              => ComesFirst(c, visited[c][p], visited[c][q])
    /\ \A i, j \in Expected(c) :
          j \in ToSet(visited[c]) /\ ComesFirst(c, i, j) => i \in ToSet(visited[c])
    /\ ended[c] = "done" => Expected(c) \subseteq ToSet(visited[c])

(* Every walk visits the list in order: "Returns the elements in the list  *)
(* that come after the specified cursor" and "Returns the last n elements  *)
(* from the list".                                                         *)
WalksVisitInOrder == \A c \in Clients : VisitsInOrder(c)

(* A walk visits the list in order if it goes by times that all differ,    *)
(* from either end, in both directions, with every page size and filter,   *)
(* while saves are added, archived and tagged.                             *)
WalksVisitInOrderIfWalkable ==
    \A c \in Clients : walkable[c] => VisitsInOrder(c)

(* "Cursor not found" is the answer only if the save of the cursor has     *)
(* changed since the walk began.                                           *)
CursorLostOnlyByChange ==
    \A c \in Clients : ended[c] = "cursorNotFound" => cursor[c].id \notin steady[c]

(* A client that follows the cursors comes to an end: no page waits        *)
(* forever for a connection that an earlier request has kept.              *)
WalksEnd == \A c \in Clients : pc[c] # "idle" ~> pc[c] = "idle"
=============================================================================
