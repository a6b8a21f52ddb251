----------------------- MODULE ListPagination_proofs -----------------------
(***************************************************************************)
(* For any number of clients, connections and saves, and any ways to page: *)
(* no request meets a temporary table of another, a walk whose times all   *)
(* differ visits the list in order, and a cursor is lost only with a       *)
(* change of its save.                                                     *)
(***************************************************************************)
EXTENDS ListOrder_proofs

(* Every connection has the three tables a request makes, there or not     *)
HasTables ==
    /\ DOMAIN tables = Connections
    /\ \A k \in Connections : DOMAIN tables[k] = {"list", "highlights", "tags"}

(* A request holds a connection from its first statement to its last,      *)
OneConnection ==
    /\ conn \in [Clients -> Connections \cup {Null}]
    /\ pc \in [Clients -> Steps]
    /\ \A c \in Clients : conn[c] = Null <=> pc[c] \in {"idle", "acquire"}

(* and holds it alone. *)
NotShared == \A c, d \in Clients : conn[c] = conn[d] /\ conn[c] # Null => c = d

(* What the connection of a request has none of, at each statement *)
Missing(step) ==
    CASE step = "createList" -> {"list", "highlights", "tags"}
      [] step = "highlights" -> {"highlights", "tags"}
      [] step = "tags"       -> {"tags"}
      [] OTHER               -> {}

NotMadeYet ==
    \A c \in Clients : \A table \in Missing(pc[c]) : tables[conn[c]][table] = Null

Inv == HasTables /\ OneConnection /\ NotShared /\ NotMadeYet

-----------------------------------------------------------------------------
(* A client that has taken no statement yet, or is done: it gives back its *)
(* connection, or has none.  The others are not concerned.                 *)
LEMMA Done ==
    ASSUME Inv, NEW c \in Clients,
           NEW step \in {"idle", "acquire"},
           pc' = [pc EXCEPT ![c] = step],
           conn' = [conn EXCEPT ![c] = Null],
           DOMAIN tables' = Connections,
           \A k \in Connections : DOMAIN tables'[k] = {"list", "highlights", "tags"},
           \A k \in Connections : k # conn[c] => tables'[k] = tables[k]
    PROVE  Inv'
<1>1. HasTables'
  BY DEF HasTables
<1>2. OneConnection'
  BY DEF Inv, OneConnection, Steps
<1>3. NotShared'
  BY DEF Inv, OneConnection, NotShared
<1>4. NotMadeYet'
  <2> SUFFICES ASSUME NEW d \in Clients, NEW table \in Missing(pc'[d])
               PROVE  tables'[conn'[d]][table] = Null
    BY DEF NotMadeYet
  <2>1. CASE d = c
    BY <2>1 DEF Inv, OneConnection, Missing
  <2>2. CASE d # c
    <3>1. pc'[d] = pc[d] /\ conn'[d] = conn[d]
      BY <2>2 DEF Inv, OneConnection
    <3>2. conn[d] \in Connections /\ conn[d] # conn[c]
      BY <2>2, <3>1 DEF Inv, OneConnection, NotShared, Missing
    <3>3. tables[conn[d]][table] = Null
      BY <3>1 DEF Inv, NotMadeYet
    <3> QED
      BY <3>1, <3>2, <3>3
  <2> QED
    BY <2>1, <2>2
<1> QED
  BY <1>1, <1>2, <1>3, <1>4 DEF Inv

(* A statement on the connection that a request holds: it suffices to look *)
(* at what that connection has.                                            *)
LEMMA Executed ==
    ASSUME Inv, NEW c \in Clients,
           pc[c] \notin {"idle", "acquire"},
           NEW step \in Steps \ {"idle", "acquire"},
           pc' = [pc EXCEPT ![c] = step],
           UNCHANGED conn,
           NEW held,
           DOMAIN held = {"list", "highlights", "tags"},
           tables' = [tables EXCEPT ![conn[c]] = held],
           \A table \in Missing(step) : held[table] = Null
    PROVE  Inv'
<1> DEFINE k == conn[c]
<1>1. k \in Connections
  BY DEF Inv, OneConnection
<1>2. HasTables'
  BY <1>1 DEF Inv, HasTables
<1>3. OneConnection'
  BY DEF Inv, OneConnection
<1>4. NotShared'
  BY DEF Inv, NotShared
<1>5. NotMadeYet'
  <2> SUFFICES ASSUME NEW d \in Clients, NEW table \in Missing(pc'[d])
               PROVE  tables'[conn[d]][table] = Null
    BY DEF NotMadeYet
  <2>1. CASE d = c
    <3>1. pc'[d] = step
      BY <2>1 DEF Inv, OneConnection
    <3>2. tables'[conn[d]] = held
      BY <1>1, <2>1 DEF Inv, HasTables
    <3> QED
      BY <3>1, <3>2
  <2>2. CASE d # c
    <3>1. pc'[d] = pc[d]
      BY <2>2 DEF Inv, OneConnection
    <3>2. conn[d] \in Connections /\ conn[d] # conn[c]
      BY <1>1, <2>2, <3>1 DEF Inv, OneConnection, NotShared, Missing
    <3>3. tables[conn[d]][table] = Null
      BY <3>1 DEF Inv, NotMadeYet
    <3> QED
      BY <3>2, <3>3 DEF Inv, HasTables
  <2> QED
    BY <2>1, <2>2
<1> QED
  BY <1>2, <1>3, <1>4, <1>5 DEF Inv

(* The request's connection has all the tables, as a function *)
LEMMA Held ==
    ASSUME Inv, NEW c \in Clients, pc[c] \notin {"idle", "acquire"}
    PROVE  /\ conn[c] \in Connections
           /\ conn[c] \in DOMAIN tables
           /\ DOMAIN tables[conn[c]] = {"list", "highlights", "tags"}
BY DEF Inv, OneConnection, HasTables

(* A request that ends with what is in the table of the page *)
LEMMA Answered ==
    ASSUME Inv, NEW c \in Clients, pc[c] \notin {"idle", "acquire"},
           NEW slots, Answer(c, slots)
    PROVE  Inv'
<1>1. tables' = [tables EXCEPT ![conn[c]].list = slots]
  BY DEF Answer
<1>2. DOMAIN tables' = Connections
  BY <1>1 DEF Inv, HasTables
<1>3. \A k \in Connections : DOMAIN tables'[k] = {"list", "highlights", "tags"}
  BY <1>1, Held DEF Inv, HasTables
<1>4. \A k \in Connections : k # conn[c] => tables'[k] = tables[k]
  BY <1>1 DEF Inv, HasTables
<1>5. conn' = [conn EXCEPT ![c] = Null]
  BY DEF Answer, Release
<1>6. \/ pc' = [pc EXCEPT ![c] = "acquire"]
      \/ pc' = [pc EXCEPT ![c] = "idle"]
  BY DEF Answer, Deliver, End, Goto
<1> QED
  BY <1>2, <1>3, <1>4, <1>5, <1>6, Done

-----------------------------------------------------------------------------
(* At first no connection is held.                                         *)
LEMMA Initially == Init => Inv
<1> SUFFICES ASSUME Init PROVE Inv
  OBVIOUS
<1>1. HasTables
  BY DEF Init, HasTables, NoTables
<1>2. OneConnection
  BY DEF Init, OneConnection, Steps
<1>3. NotShared
  BY DEF Init, NotShared
<1>4. NotMadeYet
  BY DEF Init, NotMadeYet, Missing
<1> QED
  BY <1>1, <1>2, <1>3, <1>4 DEF Inv

(* Requests begin without a connection and take one that nobody holds.     *)
LEMMA BeginKeepsInv ==
    ASSUME Inv, NEW c \in Clients, Begin(c)
    PROVE  Inv'
<1>1. pc' = [pc EXCEPT ![c] = "acquire"] /\ conn' = [conn EXCEPT ![c] = Null]
  BY DEF Begin, Goto, Inv, OneConnection
<1>2. tables' = tables
  BY DEF Begin
<1> QED
  BY <1>1, <1>2, Done DEF Inv, HasTables

(* What is on a connection that is taken does not matter yet.              *)
LEMMA AcquireKeepsInv ==
    ASSUME Inv, NEW c \in Clients, AcquireConnection(c)
    PROVE  Inv'
<1>1. PICK k \in Connections \ {conn[d] : d \in Clients} : conn' = [conn EXCEPT ![c] = k]
  BY DEF AcquireConnection
<1>2. pc' = [pc EXCEPT ![c] = "drop"] /\ UNCHANGED tables
  BY DEF AcquireConnection, Goto
<1>3. conn[c] = Null
  BY DEF AcquireConnection, Inv, OneConnection
<1>4. HasTables'
  BY <1>2 DEF Inv, HasTables
<1>5. OneConnection'
  BY <1>1, <1>2, <1>3 DEF Inv, OneConnection, Steps
<1>6. NotShared'
  BY <1>1 DEF Inv, OneConnection, NotShared
<1>7. NotMadeYet'
  BY <1>1, <1>2 DEF Inv, OneConnection, NotMadeYet, Missing
<1> QED
  BY <1>4, <1>5, <1>6, <1>7 DEF Inv

(* The temporary tables are dropped before any is made, and each is made   *)
(* once.                                                                   *)
LEMMA TablesKeepInv ==
    ASSUME Inv, NEW c \in Clients,
           \/ dropTempTables(c) \/ listTempTableQuery(c)
           \/ isHighlightedFilter(c) \/ tagsTempTable(c)
    PROVE  Inv'
<1>1. CASE dropTempTables(c)
  <2>1. pc[c] = "drop" /\ pc' = [pc EXCEPT ![c] = "createList"] /\ UNCHANGED conn
    BY <1>1 DEF dropTempTables, Goto
  <2>2. tables' = [tables EXCEPT ![conn[c]] = NoTables]
    BY <1>1 DEF dropTempTables
  <2>3. \A table \in {"list", "highlights", "tags"} : NoTables[table] = Null
    BY DEF NoTables
  <2> QED
    BY <2>1, <2>2, <2>3, Executed DEF NoTables, Missing, Steps
<1>2. CASE listTempTableQuery(c)
  <2> DEFINE held == [tables[conn[c]] EXCEPT !["list"] = <<>>]
  <2>1. pc[c] = "createList" /\ pc' = [pc EXCEPT ![c] = AfterCreate(c)] /\ UNCHANGED conn
    BY <1>2 DEF listTempTableQuery, Goto
  <2>2. tables' = [tables EXCEPT ![conn[c]] = held]
    BY <1>2 DEF listTempTableQuery, SetTable
  <2>3. AfterCreate(c) \in {"highlights", "tags", "page", "collisions"}
    BY DEF AfterCreate, AfterHighlights, PageStep
  <2>4. DOMAIN held = {"list", "highlights", "tags"}
    BY <2>1, Held
  <2>5. held.highlights = Null /\ held.tags = Null
    BY <2>1, Held DEF Inv, NotMadeYet, Missing
  <2>6. \A table \in Missing(AfterCreate(c)) : held[table] = Null
    BY <2>3, <2>5 DEF Missing
  <2> HIDE DEF held
  <2> QED
    BY <2>1, <2>2, <2>3, <2>4, <2>6, Executed DEF Steps
<1>3. CASE isHighlightedFilter(c)
  <2> DEFINE held == [tables[conn[c]] EXCEPT !["highlights"] = {i \in Ids : list[i] # Null /\ list[i].highlighted}]
  <2>1. pc[c] = "highlights" /\ pc' = [pc EXCEPT ![c] = AfterHighlights(c)] /\ UNCHANGED conn
    BY <1>3 DEF isHighlightedFilter, Goto
  <2>2. tables' = [tables EXCEPT ![conn[c]] = held]
    BY <1>3 DEF isHighlightedFilter, SetTable
  <2>3. AfterHighlights(c) \in {"tags", "page", "collisions"}
    BY DEF AfterHighlights, PageStep
  <2>4. DOMAIN held = {"list", "highlights", "tags"}
    BY <2>1, Held
  <2>5. held.tags = Null
    BY <2>1, Held DEF Inv, NotMadeYet, Missing
  <2>6. \A table \in Missing(AfterHighlights(c)) : held[table] = Null
    BY <2>3, <2>5 DEF Missing
  <2> HIDE DEF held
  <2> QED
    BY <2>1, <2>2, <2>3, <2>4, <2>6, Executed DEF Steps
<1>4. CASE tagsTempTable(c)
  <2> DEFINE held == [tables[conn[c]] EXCEPT !["tags"] =
                         {i \in Filtered(c) : tagNameFilter(walk[c].filter.tagNames, list[i])}]
  <2>1. pc[c] = "tags" /\ pc' = [pc EXCEPT ![c] = PageStep(c)] /\ UNCHANGED conn
    BY <1>4 DEF tagsTempTable, Goto
  <2>2. tables' = [tables EXCEPT ![conn[c]] = held]
    BY <1>4 DEF tagsTempTable, SetTable
  <2>3. PageStep(c) \in {"page", "collisions"}
    BY DEF PageStep
  <2>4. DOMAIN held = {"list", "highlights", "tags"}
    BY <2>1, Held
  <2>5. Missing(PageStep(c)) = {}
    BY <2>3 DEF Missing
  <2> HIDE DEF held
  <2> QED
    BY <2>1, <2>2, <2>3, <2>4, <2>5, Executed DEF Steps
<1> QED
  BY <1>1, <1>2, <1>3, <1>4

(* The page ends the request, or leaves rows for its last query.           *)
LEMMA PageKeepsInv ==
    ASSUME Inv, NEW c \in Clients,
           \/ pageFirstLast(c) \/ CollisionsSuffice(c) \/ CollisionsDoNotSuffice(c)
           \/ CursorNotFound(c) \/ RestOfPage(c)
    PROVE  Inv'
<1>1. CASE pageFirstLast(c)
  <2>1. pc[c] = "page" /\ \E slots : Answer(c, slots)
    BY <1>1 DEF pageFirstLast
  <2> QED
    BY <2>1, Answered
<1>2. CASE CollisionsSuffice(c)
  <2>1. pc[c] = "collisions" /\ \E slots : Answer(c, slots)
    BY <1>2 DEF CollisionsSuffice
  <2> QED
    BY <2>1, Answered
<1>3. CASE CollisionsDoNotSuffice(c)
  <2>1. pc[c] = "collisions" /\ pc' = [pc EXCEPT ![c] = "rest"] /\ UNCHANGED conn
    BY <1>3 DEF CollisionsDoNotSuffice, Goto
  <2>2. PICK rows : SetTable(c, "list", AfterCursor(c, rows))
    BY <1>3 DEF CollisionsDoNotSuffice
  <2> DEFINE held == [tables[conn[c]] EXCEPT !["list"] = AfterCursor(c, rows)]
  <2>3. tables' = [tables EXCEPT ![conn[c]] = held]
    BY <2>2 DEF SetTable
  <2>4. DOMAIN held = {"list", "highlights", "tags"}
    BY <2>1, Held
  <2>5. Missing("rest") = {}
    BY DEF Missing
  <2> HIDE DEF held
  <2> QED
    BY <2>1, <2>3, <2>4, <2>5, Executed DEF Steps
<1>4. CASE CursorNotFound(c)
  <2>1. pc[c] = "collisions" /\ pc' = [pc EXCEPT ![c] = "idle"]
    BY <1>4 DEF CursorNotFound, End, Goto
  <2>2. conn' = [conn EXCEPT ![c] = Null]
    BY <1>4 DEF CursorNotFound, Release
  <2>3. PICK rows : tables' = [tables EXCEPT ![conn[c]]["list"] = rows]
    BY <1>4 DEF CursorNotFound, SetTable
  <2>4. DOMAIN tables' = Connections
    BY <2>3 DEF Inv, HasTables
  <2>5. \A k \in Connections : DOMAIN tables'[k] = {"list", "highlights", "tags"}
    BY <2>1, <2>3, Held DEF Inv, HasTables
  <2>6. \A k \in Connections : k # conn[c] => tables'[k] = tables[k]
    BY <2>3 DEF Inv, HasTables
  <2> QED
    BY <2>1, <2>2, <2>4, <2>5, <2>6, Done
<1>5. CASE RestOfPage(c)
  <2>1. pc[c] = "rest" /\ \E slots : Answer(c, slots)
    BY <1>5 DEF RestOfPage
  <2> QED
    BY <2>1, Answered
<1> QED
  BY <1>1, <1>2, <1>3, <1>4, <1>5

(* A failure gives the connection back with whatever tables it has.        *)
LEMMA FailKeepsInv ==
    ASSUME Inv, NEW c \in Clients, Fail(c)
    PROVE  Inv'
<1>1. pc' = [pc EXCEPT ![c] = "idle"] /\ conn' = [conn EXCEPT ![c] = Null]
  BY DEF Fail, End, Goto, Release
<1>2. tables' = tables
  BY DEF Fail
<1> QED
  BY <1>1, <1>2, Done DEF Inv, HasTables

(* The invariant is inductive: one case per kind of step.                  *)
LEMMA StepKeepsInv ==
    ASSUME Inv, [Next]_vars
    PROVE  Inv'
<1>1. ASSUME NEW c \in Clients, Begin(c) PROVE Inv'
  BY <1>1, BeginKeepsInv
<1>2. ASSUME NEW c \in Clients, Statement(c) PROVE Inv'
  BY <1>2, AcquireKeepsInv, TablesKeepInv, PageKeepsInv DEF Statement
<1>3. ASSUME NEW c \in Clients, Fail(c) PROVE Inv'
  BY <1>3, FailKeepsInv
<1>4. ASSUME UNCHANGED <<tables, conn, pc>> PROVE Inv'
  BY <1>4 DEF Inv, HasTables, OneConnection, NotShared, NotMadeYet
<1>5. ASSUME NEW i \in Ids, \/ AddSave(i) \/ Archive(i) \/ \E name \in Names : Tag(i, name)
      PROVE  Inv'
  BY <1>4, <1>5 DEF AddSave, Archive, Tag, Change
<1>6. CASE UNCHANGED vars
  BY <1>4, <1>6 DEF vars, clientVars
<1> QED
  BY <1>1, <1>2, <1>3, <1>5, <1>6 DEF Next

-----------------------------------------------------------------------------
(* No request meets a temporary table that an earlier one has left on its  *)
(* connection, however that one ended, nor one that another makes: a       *)
(* connection is held by one request, which drops the tables first.        *)
THEOREM NoTableIsLeft == Spec => []NoTableLeft
<1>1. Init => Inv
  BY Initially
<1>2. Inv /\ [Next]_vars => Inv'
  BY StepKeepsInv
<1>3. Inv => NoTableLeft
  BY DEF Inv, NotMadeYet, NoTableLeft, Missing
<1> QED
  BY <1>1, <1>2, <1>3, PTL DEF Spec

(* A connection of the pool is held by one request at a time, from its     *)
(* first statement on, and by none that has ended.                         *)
THEOREM ConnectionsNotShared == Spec => [](OneConnection /\ NotShared)
<1>1. Init => Inv
  BY Initially
<1>2. Inv /\ [Next]_vars => Inv'
  BY StepKeepsInv
<1>3. Inv => OneConnection /\ NotShared
  BY DEF Inv
<1> QED
  BY <1>1, <1>2, <1>3, PTL DEF Spec

-----------------------------------------------------------------------------
(* What is true of the walks, too: an inductive invariant on top of Inv    *)
Outcomes == {"no", "done", "cursorNotFound", "error"}

CursorType == [id: Ids, time: Optional(Times)]

TableType == Optional(Seq(TempRow \cup {Free}))

Typed ==
    /\ list \in [Ids -> Optional(Row)]
    /\ \A k \in Connections :
          /\ tables[k].list \in TableType
          /\ tables[k].highlights \in Optional(SUBSET Ids)
          /\ tables[k].tags \in Optional(SUBSET Ids)
    /\ walk \in [Clients -> Walks]
    /\ cursor \in [Clients -> Optional(CursorType)]
    /\ walkable \in [Clients -> BOOLEAN]
    /\ ended \in [Clients -> Outcomes]
    /\ visited \in [Clients -> Seq(Ids)]
    /\ steady \in [Clients -> SUBSET Ids]

(* The filter selects a save of the list *)
Chosen(c, i) == Wanted(walk[c].filter, list[i])

(* A row that a page is made of is as its save is, if that does not change *)
TrueRow(c, e) == e.id \in steady[c] => e = Entry(walk[c], e.id) /\ Chosen(c, e.id)

(* What is kept in the table of the page for its last query                *)
Kept(c) == tables[conn[c]].list

(* What a request's temporary tables say of the saves that do not change   *)
TablesTrue(c) ==
    /\ pc[c] # "idle" => ended[c] = "no"
    /\ pc[c] = "page" => cursor[c] = Null
    /\ pc[c] \in {"collisions", "rest"} => cursor[c] # Null
    /\ pc[c] \in {"tags", "page", "collisions", "rest"} /\ walk[c].filter.isHighlighted # Null =>
          \A i \in steady[c] : i \in tables[conn[c]].highlights <=> list[i].highlighted
    /\ pc[c] \in {"page", "collisions", "rest"} /\ walk[c].filter.tagNames # {} =>
          \A i \in steady[c] : i \in tables[conn[c]].tags <=> Chosen(c, i)
    /\ pc[c] = "rest" =>
          /\ Kept(c) \in Seq(TempRow \cup {Free}) /\ FreeFirst(Kept(c))
          /\ Len(Scan(Kept(c))) <= pageSize(c)
          /\ \A e \in Used(Kept(c)) : TrueRow(c, e)
          /\ walkable[c] => Kept(c) \in Seq({Free}) /\ Len(Kept(c)) = 1

(* What is known of the cursor *)
CursorTrue(c) ==
    /\ \A i \in steady[c] : list[i] # Null
    /\ cursor[c] # Null /\ cursor[c].id \in steady[c] =>
          /\ Chosen(c, cursor[c].id)
          /\ cursor[c] = encodeCursor(walk[c], Entry(walk[c], cursor[c].id))

(* In the direction of a walk, u is a later time than t *)
After(direction, t, u) == IF direction = "desc" THEN u < t ELSE u > t

CursorTime(c) == IF cursor[c].time = Null THEN 0 ELSE cursor[c].time

(* The walk has come to the time of a save, or past it *)
Reached(c, i) ==
    /\ cursor[c] # Null
    /\ ~After(order(walk[c]), CursorTime(c), Entry(walk[c], i).time)

(* What a walk has visited are the saves up to the time of the cursor      *)
WalkTrue(c) ==
    /\ Walkable(walk[c], list)
    /\ cursor[c] # Null /\ cursor[c].time = Null => order(walk[c]) = "desc"
    /\ ToSet(visited[c]) \cap steady[c] \subseteq Expected(c)
    /\ \A i \in Expected(c) : i \in ToSet(visited[c]) <=> Reached(c, i)
    /\ \A p, q \in DOMAIN visited[c] :
          p < q /\ {visited[c][p], visited[c][q]} \subseteq steady[c]
              => ComesFirst(c, visited[c][p], visited[c][q])
    /\ ended[c] = "done" => Expected(c) \subseteq ToSet(visited[c])

WalkInv ==
    /\ Inv
    /\ Typed
    /\ \A c \in Clients : TablesTrue(c) /\ CursorTrue(c) /\ (walkable[c] => WalkTrue(c))

-----------------------------------------------------------------------------
(* Entries of the list *)
LEMMA EntryType ==
    ASSUME NEW w \in Walk, NEW i \in Ids, list[i] \in Row
    PROVE  Entry(w, i) \in TempRow /\ Entry(w, i).id = i
<1>1. column(w) \in {"time_added", "time_updated", "time_read", "time_favorited"}
  <2>1. w.sortBy \in {"CREATED_AT", "UPDATED_AT", "FAVORITED_AT", "ARCHIVED_AT"}
    BY DEF Walk
  <2> QED
    BY <2>1 DEF column, dbSortByMap
<1>2. list[i][column(w)] \in Times
  BY <1>1 DEF Row
<1> QED
  BY <1>2 DEF Entry, TempRow

(* The conditions and joins of the query select what the schema says.      *)
LEMMA FilterIsWanted ==
    ASSUME NEW filter \in SavedItemsFilter, NEW row \in Row
    PROVE  Wanted(filter, row) <=>
             /\ Where(filter, row)
             /\ filter.isHighlighted # Null => row.highlighted = filter.isHighlighted
             /\ filter.contentType # Null => contentTypeFilter(filter.contentType, row.content)
             /\ filter.tagNames # {} => tagNameFilter(filter.tagNames, row)
<1>1. ASSUME filter.contentType # Null
      PROVE  contentTypeFilter(filter.contentType, row.content)
                 <=> row.content # Null /\ HasContentType(filter.contentType, row.content)
  <2>1. filter.contentType \in ContentTypes
    BY <1>1 DEF SavedItemsFilter, Optional
  <2> DEFINE c == row.content
             type == filter.contentType
  <2> SUFFICES ASSUME c # Null
               PROVE  contentTypeFilter(type, c) <=> HasContentType(type, c)
    BY DEF contentTypeFilter
  <2>2. c \in Content
    BY DEF Row
  <2> HIDE DEF c, type
  <2>3. c.is_article \in 0..1 /\ c.video \in 0..2 /\ c.image \in 0..2
    BY <2>2 DEF Content
  <2>4. HasContentType(type, c) <=>
          \/ c.is_article = 1 /\ type \in {"ARTICLE", "IS_READABLE"}
          \/ c.video = 1 /\ type \in {"VIDEO", "HAS_VIDEO"}
          \/ c.video = 2 /\ type = "IS_VIDEO"
          \/ c.image = 2 /\ type = "IS_IMAGE"
          \/ c.is_article = 0 /\ c.video # 2 /\ c.image # 2 /\ type = "IS_EXTERNAL"
    BY <2>3 DEF HasContentType
  <2>5. CASE type \in {"VIDEO", "HAS_VIDEO"}
    BY <2>3, <2>4, <2>5 DEF contentTypeFilter
  <2>6. CASE type \in {"ARTICLE", "IS_READABLE"}
    BY <2>3, <2>4, <2>6 DEF contentTypeFilter
  <2>7. CASE type = "IS_IMAGE"
    BY <2>3, <2>4, <2>7 DEF contentTypeFilter
  <2>8. CASE type = "IS_VIDEO"
    BY <2>3, <2>4, <2>8 DEF contentTypeFilter
  <2>9. CASE type = "IS_EXTERNAL"
    BY <2>3, <2>4, <2>9 DEF contentTypeFilter
  <2> QED
    BY <2>1, <2>5, <2>6, <2>7, <2>8, <2>9 DEF ContentTypes, type
<1>2. tagNameFilter(filter.tagNames, row) <=> \E name \in filter.tagNames : HasTagName(name, row)
  <2>1. row.tags \subseteq Names /\ filter.tagNames \subseteq Names \cup {Untagged}
    BY DEF Row, SavedItemsFilter
  <2>2. Null \notin row.tags /\ Untagged \notin row.tags
    BY <2>1, NullAssumption, NamesAssumption
  <2>3. CASE row.tags = {}
    <3>1. tagNameFilter(filter.tagNames, row) <=>
             Null \in filter.tagNames \ {Untagged} \/ Untagged \in filter.tagNames
      BY <2>3 DEF tagNameFilter, TagColumn
    <3>2. Null \in filter.tagNames \ {Untagged} => FALSE
      BY <2>1, NullAssumption
    <3>3. (\E name \in filter.tagNames : HasTagName(name, row)) <=> Untagged \in filter.tagNames
      BY <2>3 DEF HasTagName
    <3> QED
      BY <3>1, <3>2, <3>3
  <2>4. CASE row.tags # {}
    <3>1. tagNameFilter(filter.tagNames, row) <=> \E tag \in row.tags : tag \in filter.tagNames
      BY <2>2, <2>4 DEF tagNameFilter, TagColumn
    <3>2. (\E name \in filter.tagNames : HasTagName(name, row)) <=> \E tag \in row.tags : tag \in filter.tagNames
      BY <2>2, <2>4 DEF HasTagName
    <3> QED
      BY <3>1, <3>2
  <2> QED
    BY <2>3, <2>4
<1>3. Where(filter, row) <=>
        /\ filter.updatedSince # Null => filter.updatedSince < row.time_updated
        /\ filter.isFavorite # Null => filter.isFavorite = row.favorite
        /\ filter.isArchived # Null => filter.isArchived = (row.status = "ARCHIVED")
        /\ filter.status # Null => filter.status = row.status
        /\ filter.statuses # Null => row.status \in filter.statuses
  <2>1. row.time_updated \in Nat /\ (filter.updatedSince # Null => filter.updatedSince \in Nat)
    BY TimesAssumption DEF Row, SavedItemsFilter, Optional
  <2> QED
    BY <2>1 DEF Where
<1> QED
  BY <1>1, <1>2, <1>3 DEF Wanted

-----------------------------------------------------------------------------
(* The types of what a request is about *)
LEMMA ClientTypes ==
    ASSUME Typed, NEW c \in Clients
    PROVE  /\ walk[c] \in Walk /\ walk[c].filter \in SavedItemsFilter
           /\ \A i \in Ids : list[i] # Null => list[i] \in Row
           /\ visited[c] \in Seq(Ids) /\ steady[c] \subseteq Ids
           /\ cursor[c] # Null => cursor[c].id \in Ids /\ cursor[c].time \in Optional(Times)
           /\ cursor[c] # Null => CursorTime(c) \in Times
<1>1. walk[c] \in Walk /\ walk[c].filter \in SavedItemsFilter
  BY WalksAssumption DEF Typed, Walk
<1>2. \A i \in Ids : list[i] # Null => list[i] \in Row
  BY DEF Typed, Optional
<1>3. visited[c] \in Seq(Ids) /\ steady[c] \subseteq Ids
  BY DEF Typed
<1>4. cursor[c] # Null => cursor[c].id \in Ids /\ cursor[c].time \in Optional(Times)
  BY DEF Typed, Optional, CursorType
<1>5. cursor[c] # Null => CursorTime(c) \in Times
  BY <1>4, TimesAssumption DEF CursorTime, Optional
<1> QED
  BY <1>1, <1>2, <1>3, <1>4, <1>5

(* For a save that does not change, the conditions before those on tags    *)
LEMMA FilteredMeans ==
    ASSUME Typed, NEW c \in Clients, TablesTrue(c), CursorTrue(c),
           pc[c] \in {"tags", "page", "collisions", "rest"},
           NEW i \in steady[c]
    PROVE  Chosen(c, i) <=>
             /\ i \in Filtered(c)
             /\ walk[c].filter.tagNames # {} => tagNameFilter(walk[c].filter.tagNames, list[i])
<1> DEFINE filter == walk[c].filter
<1>1. filter \in SavedItemsFilter /\ i \in Ids /\ list[i] # Null /\ list[i] \in Row
  BY ClientTypes DEF CursorTrue
<1>2. ASSUME filter.isHighlighted # Null
      PROVE  (i \in tables[conn[c]].highlights) = filter.isHighlighted
                 <=> list[i].highlighted = filter.isHighlighted
  <2>1. i \in tables[conn[c]].highlights <=> list[i].highlighted
    BY <1>2 DEF TablesTrue
  <2>2. list[i].highlighted \in BOOLEAN /\ filter.isHighlighted \in BOOLEAN
    BY <1>1, <1>2 DEF Row, SavedItemsFilter, Optional
  <2> QED
    BY <2>1, <2>2
<1>3. i \in Filtered(c) <=>
        /\ Where(filter, list[i])
        /\ filter.isHighlighted # Null => (i \in tables[conn[c]].highlights) = filter.isHighlighted
        /\ filter.contentType # Null => contentTypeFilter(filter.contentType, list[i].content)
  BY <1>1 DEF Filtered
<1> HIDE DEF filter
<1>4. Wanted(filter, list[i]) <=>
             /\ Where(filter, list[i])
             /\ filter.isHighlighted # Null => list[i].highlighted = filter.isHighlighted
             /\ filter.contentType # Null => contentTypeFilter(filter.contentType, list[i].content)
             /\ filter.tagNames # {} => tagNameFilter(filter.tagNames, list[i])
  BY <1>1, FilterIsWanted
<1> QED
  BY <1>2, <1>3, <1>4 DEF Chosen, filter

(* The rows of the base query are entries of the list; of the saves that   *)
(* do not change, those that the filter selects.                           *)
LEMMA QueryRows ==
    ASSUME Typed, NEW c \in Clients, TablesTrue(c), CursorTrue(c),
           pc[c] \in {"page", "collisions", "rest"}
    PROVE  /\ IsFiniteSet(baseQuery(c)) /\ baseQuery(c) \subseteq TempRow
           /\ \A e \in baseQuery(c) :
                 e.id \in Ids /\ list[e.id] # Null /\ list[e.id] \in Row /\ e = Entry(walk[c], e.id)
           /\ \A e \in baseQuery(c) : TrueRow(c, e)
           /\ \A i \in Expected(c) : Entry(walk[c], i) \in baseQuery(c)
<1> DEFINE J == {j \in Filtered(c) : walk[c].filter.tagNames # {} => j \in tables[conn[c]].tags}
           w == walk[c]
<1>1. w \in Walk /\ steady[c] \subseteq Ids /\ \A i \in Ids : list[i] # Null => list[i] \in Row
  BY ClientTypes
<1>2. baseQuery(c) = {Entry(w, i) : i \in J}
  BY DEF baseQuery
<1>3. \A i \in J : i \in Ids /\ list[i] # Null
  BY DEF Filtered
<1>4. \A i \in steady[c] : Chosen(c, i) => i \in J
  BY FilteredMeans DEF TablesTrue
<1>5. \A i \in steady[c] : i \in J => Chosen(c, i)
  <2> SUFFICES ASSUME NEW i \in steady[c], i \in J PROVE Chosen(c, i)
    OBVIOUS
  <2>1. CASE walk[c].filter.tagNames # {}
    BY <2>1 DEF TablesTrue
  <2>2. CASE walk[c].filter.tagNames = {}
    BY <2>2, FilteredMeans
  <2> QED
    BY <2>1, <2>2
<1> HIDE DEF J
<1>6. \A i \in J : list[i] \in Row /\ Entry(w, i) \in TempRow /\ Entry(w, i).id = i
  BY <1>1, <1>3, EntryType
<1>7. IsFiniteSet(baseQuery(c))
  <2> DEFINE f == [i \in J |-> Entry(w, i)]
  <2>1. IsFiniteSet(J)
    <3>1. J \in SUBSET Ids
      BY <1>3
    <3> QED
      BY <3>1, IdsAssumption, FS_Subset
  <2>2. f \in Surjection(J, baseQuery(c))
    BY <1>2 DEF Surjection
  <2> HIDE DEF f
  <2> QED
    BY <2>1, <2>2, FS_Surjection
<1>8. \A e \in baseQuery(c) :
         /\ e \in TempRow /\ e.id \in J /\ e.id \in Ids /\ list[e.id] # Null /\ list[e.id] \in Row
         /\ e = Entry(walk[c], e.id)
  BY <1>2, <1>3, <1>6
<1>9. \A e \in baseQuery(c) : TrueRow(c, e)
  BY <1>5, <1>8 DEF TrueRow
<1>10. \A i \in Expected(c) : Entry(walk[c], i) \in baseQuery(c)
  BY <1>2, <1>4 DEF Expected, Chosen
<1> QED
  BY <1>7, <1>8, <1>9, <1>10

(* The rows of a query in order                                            *)
LEMMA FetchedRows ==
    ASSUME Typed, NEW c \in Clients, TablesTrue(c), CursorTrue(c),
           pc[c] \in {"page", "collisions", "rest"},
           NEW Q, Q \subseteq baseQuery(c), NEW n \in Nat
    PROVE  /\ Limit(Fetched(c, Q), n) \in Seq(Q)
           /\ Limit(Fetched(c, Q), n) \in Seq(TempRow)
           /\ Len(Limit(Fetched(c, Q), n)) <= n
           /\ IsFiniteSet(Q) /\ Q \subseteq TempRow
<1>1. IsFiniteSet(Q) /\ Q \subseteq TempRow
  BY QueryRows, FS_Subset
<1>2. order(walk[c]) \in Directions
  BY ClientTypes, WalkTypes
<1>3. Fetched(c, Q) \in Seq(Q)
  BY <1>1, <1>2, OrderBySorts DEF Fetched, Sorts
<1>4. Limit(Fetched(c, Q), n) \in Seq(Q) /\ Len(Limit(Fetched(c, Q), n)) <= n
  BY <1>3, LimitIsPrefix
<1>5. Limit(Fetched(c, Q), n) \in Seq(TempRow)
  BY <1>1, <1>4, SeqMonotonic
<1> QED
  BY <1>1, <1>4, <1>5

-----------------------------------------------------------------------------
(* What a step of others leaves alone                                      *)
LEMMA TablesStay ==
    ASSUME NEW c \in Clients, TablesTrue(c),
           UNCHANGED list, pc'[c] = pc[c], conn'[c] = conn[c], walk'[c] = walk[c],
           cursor'[c] = cursor[c], steady'[c] = steady[c], walkable'[c] = walkable[c],
           ended'[c] = ended[c],
           pc[c] \in {"tags", "page", "collisions", "rest"} => tables'[conn[c]] = tables[conn[c]]
    PROVE  TablesTrue(c)'
<1>1. CASE pc[c] \notin {"tags", "page", "collisions", "rest"}
  BY <1>1 DEF TablesTrue
<1>2. CASE pc[c] \in {"tags", "page", "collisions", "rest"}
  <2>1. \A i : Chosen(c, i)' <=> Chosen(c, i)
    BY DEF Chosen
  <2>2. \A i : Entry(walk[c], i)' = Entry(walk[c], i)
    BY DEF Entry
  <2>3. \A e : TrueRow(c, e)' <=> TrueRow(c, e)
    BY <2>1, <2>2 DEF TrueRow, Entry
  <2>4. Kept(c)' = Kept(c) /\ pageSize(c)' = pageSize(c)
    BY <1>2 DEF Kept, pageSize
  <2> QED
    BY <1>2, <2>1, <2>3, <2>4 DEF TablesTrue
<1> QED
  BY <1>1, <1>2

(* neither the cursor of a client                                          *)
LEMMA CursorStays ==
    ASSUME NEW c \in Clients, CursorTrue(c),
           UNCHANGED list, walk'[c] = walk[c], cursor'[c] = cursor[c], steady'[c] = steady[c]
    PROVE  CursorTrue(c)'
<1>1. \A i : Chosen(c, i)' <=> Chosen(c, i)
  BY DEF Chosen
<1>2. \A i : Entry(walk[c], i)' = Entry(walk[c], i)
  BY DEF Entry
<1> QED
  BY <1>1, <1>2 DEF CursorTrue

(* nor what it has visited.                                                *)
LEMMA WalkStays ==
    ASSUME NEW c \in Clients, WalkTrue(c),
           UNCHANGED list, walk'[c] = walk[c], cursor'[c] = cursor[c], steady'[c] = steady[c],
           visited'[c] = visited[c],
           ended'[c] = ended[c] \/ ended'[c] # "done"
    PROVE  WalkTrue(c)'
<1>1. Expected(c)' = Expected(c)
  BY DEF Expected
<1>2. \A i : Entry(walk[c], i)' = Entry(walk[c], i)
  BY DEF Entry
<1>3. \A i : Reached(c, i)' <=> Reached(c, i)
  BY <1>2 DEF Reached, CursorTime
<1>4. \A i, j : ComesFirst(c, i, j)' <=> ComesFirst(c, i, j)
  BY <1>2 DEF ComesFirst, Precedes
<1>5. Walkable(walk[c], list)' <=> Walkable(walk[c], list)
  BY DEF Walkable
<1> QED
  BY <1>1, <1>3, <1>4, <1>5 DEF WalkTrue

-----------------------------------------------------------------------------
(* A step of one client leaves the requests of the others alone.           *)
LEMMA OneMoves ==
    ASSUME WalkInv, NEW c \in Clients, Inv', Typed',
           UNCHANGED list,
           \A d \in Clients : d # c =>
              /\ pc'[d] = pc[d] /\ conn'[d] = conn[d] /\ walk'[d] = walk[d] /\ cursor'[d] = cursor[d]
              /\ ended'[d] = ended[d] /\ visited'[d] = visited[d] /\ steady'[d] = steady[d]
              /\ walkable'[d] = walkable[d],
           \A k \in Connections : k # conn[c] => tables'[k] = tables[k],
           TablesTrue(c)', CursorTrue(c)', walkable'[c] => WalkTrue(c)'
    PROVE  WalkInv'
<1>1. ASSUME NEW d \in Clients, d # c
      PROVE  TablesTrue(d)' /\ CursorTrue(d)' /\ (walkable'[d] => WalkTrue(d)')
  <2>1. TablesTrue(d) /\ CursorTrue(d) /\ (walkable[d] => WalkTrue(d))
    BY DEF WalkInv
  <2>2. pc[d] \in {"tags", "page", "collisions", "rest"} => tables'[conn[d]] = tables[conn[d]]
    <3> SUFFICES ASSUME pc[d] \in {"tags", "page", "collisions", "rest"}
                 PROVE  tables'[conn[d]] = tables[conn[d]]
      OBVIOUS
    <3>1. conn[d] # Null /\ conn[d] \in Connections
      BY DEF WalkInv, Inv, OneConnection
    <3>2. conn[d] # conn[c]
      BY <1>1, <3>1 DEF WalkInv, Inv, NotShared
    <3> QED
      BY <3>1, <3>2
  <2>3. TablesTrue(d)'
    BY <1>1, <2>1, <2>2, TablesStay
  <2>4. CursorTrue(d)'
    BY <1>1, <2>1, CursorStays
  <2>5. walkable'[d] => WalkTrue(d)'
    BY <1>1, <2>1, WalkStays
  <2> QED
    BY <2>3, <2>4, <2>5
<1> QED
  BY <1>1 DEF WalkInv

(* A step that the client's cursor and what it has visited survive         *)
LEMMA StatementMoves ==
    ASSUME WalkInv, NEW c \in Clients, Inv', Typed',
           UNCHANGED <<list, walk, cursor, visited, steady, walkable>>,
           \A d \in Clients : d # c =>
              pc'[d] = pc[d] /\ conn'[d] = conn[d] /\ ended'[d] = ended[d],
           ended'[c] = ended[c] \/ ended'[c] = "error",
           \A k \in Connections : k # conn[c] => tables'[k] = tables[k],
           TablesTrue(c)'
    PROVE  WalkInv'
<1>1. CursorTrue(c) /\ (walkable[c] => WalkTrue(c))
  BY DEF WalkInv
<1>2. CursorTrue(c)'
  BY <1>1, CursorStays
<1>3. walkable'[c] => WalkTrue(c)'
  BY <1>1, WalkStays
<1> QED
  BY <1>2, <1>3, OneMoves

-----------------------------------------------------------------------------
(* A walk begins with no cursor and nothing visited.                       *)
LEMMA BeginKeepsWalks ==
    ASSUME WalkInv, NEW c \in Clients, Begin(c)
    PROVE  WalkInv'
<1>1. Inv' /\ Typed
  BY BeginKeepsInv DEF WalkInv
<1>2. /\ UNCHANGED <<list, tables, conn, walk>>
      /\ pc' = [pc EXCEPT ![c] = "acquire"]
      /\ cursor' = [cursor EXCEPT ![c] = Null]
      /\ ended' = [ended EXCEPT ![c] = "no"]
      /\ visited' = [visited EXCEPT ![c] = <<>>]
      /\ steady' = [steady EXCEPT ![c] = {i \in Ids : list[i] # Null}]
      /\ walkable' = [walkable EXCEPT ![c] = Walkable(walk[c], list)]
  BY DEF Begin, Goto
<1>3. Walkable(walk[c], list) \in BOOLEAN
  BY DEF Walkable
<1>4. Typed'
  BY <1>1, <1>2, <1>3 DEF Typed, Outcomes, Optional
<1>5. /\ cursor'[c] = Null /\ ended'[c] = "no" /\ visited'[c] = <<>> /\ pc'[c] = "acquire"
      /\ steady'[c] = {i \in Ids : list[i] # Null}
      /\ walkable'[c] = Walkable(walk[c], list)
  BY <1>1, <1>2 DEF Typed, Inv, OneConnection
<1>6. TablesTrue(c)' /\ CursorTrue(c)'
  BY <1>2, <1>5 DEF TablesTrue, CursorTrue
<1>7. ASSUME walkable'[c] PROVE WalkTrue(c)'
  <2>1. Walkable(walk[c], list)'
    BY <1>2, <1>5, <1>7 DEF Walkable
  <2>2. ToSet(visited'[c]) = {} /\ DOMAIN visited'[c] = {}
    BY <1>5 DEF ToSet
  <2>3. \A i : ~Reached(c, i)'
    BY <1>5 DEF Reached
  <2> QED
    BY <1>5, <2>1, <2>2, <2>3 DEF WalkTrue
<1>8. \A d \in Clients : d # c =>
              /\ pc'[d] = pc[d] /\ conn'[d] = conn[d] /\ walk'[d] = walk[d] /\ cursor'[d] = cursor[d]
              /\ ended'[d] = ended[d] /\ visited'[d] = visited[d] /\ steady'[d] = steady[d]
              /\ walkable'[d] = walkable[d]
  BY <1>1, <1>2 DEF Typed, Inv, OneConnection
<1> QED
  BY <1>1, <1>2, <1>4, <1>6, <1>7, <1>8, OneMoves

(* A connection is taken.                                                  *)
LEMMA AcquireKeepsWalks ==
    ASSUME WalkInv, NEW c \in Clients, AcquireConnection(c)
    PROVE  WalkInv'
<1>1. Inv' /\ Typed /\ Inv
  BY AcquireKeepsInv DEF WalkInv
<1>2. /\ UNCHANGED <<list, tables, walk, cursor, ended, visited, steady, walkable>>
      /\ pc' = [pc EXCEPT ![c] = "drop"]
      /\ \E k : conn' = [conn EXCEPT ![c] = k]
  BY DEF AcquireConnection, Goto
<1>3. Typed'
  BY <1>1, <1>2 DEF Typed
<1>4. pc'[c] = "drop" /\ \A d \in Clients : d # c => pc'[d] = pc[d] /\ conn'[d] = conn[d]
  BY <1>1, <1>2 DEF Inv, OneConnection
<1>5. TablesTrue(c)'
  <2>1. TablesTrue(c) /\ pc[c] = "acquire"
    BY DEF WalkInv, AcquireConnection
  <2> QED
    BY <1>2, <1>4, <2>1 DEF TablesTrue
<1> QED
  BY <1>1, <1>2, <1>3, <1>4, <1>5, StatementMoves

(* A failure ends a walk where it is.                                      *)
LEMMA FailKeepsWalks ==
    ASSUME WalkInv, NEW c \in Clients, Fail(c)
    PROVE  WalkInv'
<1>1. Inv' /\ Typed /\ Inv
  BY FailKeepsInv DEF WalkInv
<1>2. /\ UNCHANGED <<list, tables, walk, cursor, visited, steady, walkable>>
      /\ pc' = [pc EXCEPT ![c] = "idle"]
      /\ conn' = [conn EXCEPT ![c] = Null]
      /\ ended' = [ended EXCEPT ![c] = "error"]
  BY DEF Fail, End, Release, Goto
<1>3. Typed'
  BY <1>1, <1>2 DEF Typed, Outcomes
<1>4. /\ pc'[c] = "idle" /\ ended'[c] = "error"
      /\ \A d \in Clients : d # c => pc'[d] = pc[d] /\ conn'[d] = conn[d] /\ ended'[d] = ended[d]
  BY <1>1, <1>2 DEF Inv, OneConnection, Typed
<1>5. TablesTrue(c)'
  BY <1>4 DEF TablesTrue
<1> QED
  BY <1>1, <1>2, <1>3, <1>4, <1>5, StatementMoves

-----------------------------------------------------------------------------
(* A statement that makes a temporary table, or drops them *)
LEMMA DropKeepsWalks ==
    ASSUME WalkInv, NEW c \in Clients, dropTempTables(c)
    PROVE  WalkInv'
<1>1. Inv' /\ Typed /\ Inv
  BY TablesKeepInv DEF WalkInv
<1>2. /\ UNCHANGED <<list, conn, walk, cursor, ended, visited, steady, walkable>>
      /\ pc' = [pc EXCEPT ![c] = "createList"]
      /\ tables' = [tables EXCEPT ![conn[c]] = NoTables]
  BY DEF dropTempTables, Goto
<1>3. /\ pc'[c] = "createList" /\ \A d \in Clients : d # c => pc'[d] = pc[d]
      /\ \A k \in Connections : tables'[k] = IF k = conn[c] THEN NoTables ELSE tables[k]
  BY <1>1, <1>2 DEF Inv, OneConnection, HasTables
<1>4. Typed'
  BY <1>1, <1>2, <1>3 DEF Typed, NoTables, TableType, Optional
<1>5. TablesTrue(c)'
  <2>1. TablesTrue(c) /\ pc[c] = "drop"
    BY DEF WalkInv, dropTempTables
  <2> QED
    BY <1>2, <1>3, <2>1 DEF TablesTrue
<1> QED
  BY <1>1, <1>2, <1>3, <1>4, <1>5, StatementMoves

(* The request's connection after one of its tables has been set           *)
LEMMA TableSet ==
    ASSUME Inv, NEW c \in Clients, pc[c] \notin {"idle", "acquire"},
           NEW table \in {"list", "highlights", "tags"}, NEW content, SetTable(c, table, content)
    PROVE  /\ conn[c] \in Connections
           /\ \A k \in Connections : k # conn[c] => tables'[k] = tables[k]
           /\ tables'[conn[c]][table] = content
           /\ \A other \in {"list", "highlights", "tags"} \ {table} :
                 tables'[conn[c]][other] = tables[conn[c]][other]
<1>1. conn[c] \in Connections /\ conn[c] \in DOMAIN tables
      /\ DOMAIN tables[conn[c]] = {"list", "highlights", "tags"}
  BY Held
<1>2. tables' = [tables EXCEPT ![conn[c]][table] = content] /\ DOMAIN tables = Connections
  BY DEF SetTable, Inv, HasTables
<1> QED
  BY <1>1, <1>2

(* The table of the page is made, without rows.                            *)
LEMMA CreateListKeepsWalks ==
    ASSUME WalkInv, NEW c \in Clients, listTempTableQuery(c)
    PROVE  WalkInv'
<1>1. Inv' /\ Typed /\ Inv
  BY TablesKeepInv DEF WalkInv
<1>2. /\ UNCHANGED <<list, conn, walk, cursor, ended, visited, steady, walkable>>
      /\ pc[c] = "createList"
      /\ pc' = [pc EXCEPT ![c] = AfterCreate(c)]
      /\ SetTable(c, "list", <<>>)
  BY DEF listTempTableQuery, Goto
<1>3. pc'[c] = AfterCreate(c) /\ \A d \in Clients : d # c => pc'[d] = pc[d]
  BY <1>1, <1>2 DEF Inv, OneConnection
<1>4. /\ \A k \in Connections : k # conn[c] => tables'[k] = tables[k]
      /\ tables'[conn[c]]["list"] = <<>>
      /\ \A other \in {"highlights", "tags"} : tables'[conn[c]][other] = tables[conn[c]][other]
  BY <1>1, <1>2, TableSet
<1>5. Typed'
  <2>1. <<>> \in TableType
    BY DEF TableType, Optional
  <2> QED
    BY <1>1, <1>2, <1>4, <2>1 DEF Typed
<1>6. TablesTrue(c)'
  <2>1. TablesTrue(c)
    BY DEF WalkInv
  <2> QED
    BY <1>2, <1>3, <2>1 DEF TablesTrue, AfterCreate, AfterHighlights, PageStep
<1> QED
  BY <1>1, <1>2, <1>3, <1>4, <1>5, <1>6, StatementMoves

(* The saves with a highlight are those that have one, if unchanged since. *)
LEMMA HighlightsKeepWalks ==
    ASSUME WalkInv, NEW c \in Clients, isHighlightedFilter(c)
    PROVE  WalkInv'
<1>1. Inv' /\ Typed /\ Inv /\ CursorTrue(c)
  BY TablesKeepInv DEF WalkInv
<1> DEFINE found == {i \in Ids : list[i] # Null /\ list[i].highlighted}
<1>2. /\ UNCHANGED <<list, conn, walk, cursor, ended, visited, steady, walkable>>
      /\ pc[c] = "highlights"
      /\ pc' = [pc EXCEPT ![c] = AfterHighlights(c)]
      /\ SetTable(c, "highlights", found)
  BY DEF isHighlightedFilter, Goto
<1>3. pc'[c] = AfterHighlights(c) /\ \A d \in Clients : d # c => pc'[d] = pc[d]
  BY <1>1, <1>2 DEF Inv, OneConnection
<1>4. /\ \A k \in Connections : k # conn[c] => tables'[k] = tables[k]
      /\ tables'[conn[c]]["highlights"] = found
      /\ \A other \in {"list", "tags"} : tables'[conn[c]][other] = tables[conn[c]][other]
  BY <1>1, <1>2, TableSet
<1>5. Typed'
  BY <1>1, <1>2, <1>4 DEF Typed, TableType, Optional
<1>6. \A i \in steady[c] : i \in found <=> list[i].highlighted
  BY <1>1 DEF Typed, CursorTrue
<1> HIDE DEF found
<1>7. TablesTrue(c)'
  <2>1. TablesTrue(c)
    BY DEF WalkInv
  <2> QED
    BY <1>2, <1>3, <1>4, <1>6, <2>1 DEF TablesTrue, AfterHighlights, PageStep
<1> QED
  BY <1>1, <1>2, <1>3, <1>4, <1>5, <1>7, StatementMoves

(* Of the saves that do not change, the table with the tags has those that *)
(* the whole filter selects.                                               *)
LEMMA TagsKeepWalks ==
    ASSUME WalkInv, NEW c \in Clients, tagsTempTable(c)
    PROVE  WalkInv'
<1>1. Inv' /\ Typed /\ Inv /\ CursorTrue(c) /\ TablesTrue(c)
  BY TablesKeepInv DEF WalkInv
<1> DEFINE found == {i \in Filtered(c) : tagNameFilter(walk[c].filter.tagNames, list[i])}
<1>2. /\ UNCHANGED <<list, conn, walk, cursor, ended, visited, steady, walkable>>
      /\ pc[c] = "tags"
      /\ pc' = [pc EXCEPT ![c] = PageStep(c)]
      /\ SetTable(c, "tags", found)
  BY DEF tagsTempTable, Goto
<1>3. pc'[c] = PageStep(c) /\ \A d \in Clients : d # c => pc'[d] = pc[d]
  BY <1>1, <1>2 DEF Inv, OneConnection
<1>4. /\ \A k \in Connections : k # conn[c] => tables'[k] = tables[k]
      /\ tables'[conn[c]]["tags"] = found
      /\ \A other \in {"list", "highlights"} : tables'[conn[c]][other] = tables[conn[c]][other]
  BY <1>1, <1>2, TableSet
<1>5. found \subseteq Ids
  BY DEF Filtered
<1>6. \A i \in steady[c] : walk[c].filter.tagNames # {} => (i \in found <=> Chosen(c, i))
  BY <1>1, <1>2, FilteredMeans
<1> HIDE DEF found
<1>7. Typed'
  BY <1>1, <1>2, <1>4, <1>5 DEF Typed, TableType, Optional
<1>8. \A i : Chosen(c, i)' <=> Chosen(c, i)
  BY <1>2 DEF Chosen
<1>9. TablesTrue(c)'
  BY <1>1, <1>2, <1>3, <1>4, <1>6, <1>8 DEF TablesTrue, PageStep
<1> QED
  BY <1>1, <1>2, <1>3, <1>4, <1>7, <1>9, StatementMoves

-----------------------------------------------------------------------------
(* The entries that the client gets next, in the order it gets them        *)
NextNodes(c, slots) == Onward(walk[c], Nodes(walk[c], Page(walk[c], slots)))

(* What an answer makes of the table of the page                           *)
LEMMA Delivered ==
    ASSUME Typed, NEW c \in Clients, NEW slots \in Seq(TempRow \cup {Free}), FreeFirst(slots),
           Answer(c, slots)
    PROVE  LET page  == Page(walk[c], slots)
               nodes == NextNodes(c, slots)
           IN /\ nodes \in Seq(Used(slots)) /\ Used(slots) \subseteq TempRow
              /\ visited' = [visited EXCEPT ![c] = @ \o [k \in 1..Len(nodes) |-> nodes[k].id]]
              /\ cursor' = IF Len(nodes) = 0 THEN cursor
                           ELSE [cursor EXCEPT ![c] = encodeCursor(walk[c], nodes[Len(nodes)])]
              /\ \/ Len(page) > walk[c].size /\ pc' = [pc EXCEPT ![c] = "acquire"] /\ UNCHANGED ended
                 \/ /\ Len(page) <= walk[c].size /\ pc' = [pc EXCEPT ![c] = "idle"]
                    /\ ended' = [ended EXCEPT ![c] = "done"]
<1> DEFINE w == walk[c]
           page == Page(w, slots)
           rows == Nodes(w, page)
           nodes == Onward(w, rows)
           S == Used(slots)
<1>1. w \in Walk /\ w.size \in Nat
  BY ClientTypes, WalkTypes
<1>2. page \in Seq(S) /\ S \subseteq TempRow
  BY <1>1, PageIsOfTable, ScanReads
<1>3. /\ visited' = [visited EXCEPT ![c] = @ \o Onward(w, [i \in DOMAIN rows |-> rows[i].id])]
      /\ cursor' = IF rows = <<>> THEN cursor
                   ELSE [cursor EXCEPT ![c] = encodeCursor(w, Last(nodes))]
      /\ IF Len(page) > w.size THEN pc' = [pc EXCEPT ![c] = "acquire"] /\ UNCHANGED ended
         ELSE pc' = [pc EXCEPT ![c] = "idle"] /\ ended' = [ended EXCEPT ![c] = "done"]
  BY DEF Answer, Deliver, End, Goto
<1> HIDE DEF page, S
<1>4. rows \in Seq(S)
  BY <1>1, <1>2, NodesAreRows
<1> HIDE DEF rows
<1>5. /\ nodes \in Seq(S) /\ Len(nodes) = Len(rows)
      /\ \A i \in 1..Len(rows) : nodes[i] = IF w.from = "first" THEN rows[i] ELSE rows[Len(rows) - i + 1]
  BY <1>1, <1>4, OnwardTurns
<1> HIDE DEF nodes
<1>6. Onward(w, [i \in DOMAIN rows |-> rows[i].id]) = [k \in 1..Len(nodes) |-> nodes[k].id]
  <2> DEFINE I == {rows[i].id : i \in 1..Len(rows)}
             ids == [i \in DOMAIN rows |-> rows[i].id]
  <2>1. Len(rows) \in Nat /\ DOMAIN rows = 1..Len(rows)
    BY <1>4
  <2>2. ids \in Seq(I) /\ Len(ids) = Len(rows) /\ \A i \in 1..Len(rows) : ids[i] = rows[i].id
    BY <2>1
  <2> HIDE DEF ids, I
  <2>3. /\ Onward(w, ids) \in Seq(I) /\ Len(Onward(w, ids)) = Len(rows)
        /\ \A i \in 1..Len(rows) :
              Onward(w, ids)[i] = IF w.from = "first" THEN ids[i] ELSE ids[Len(rows) - i + 1]
    BY <1>1, <2>2, OnwardTurns
  <2>4. \A i \in 1..Len(rows) : Onward(w, ids)[i] = nodes[i].id
    <3> SUFFICES ASSUME NEW i \in 1..Len(rows) PROVE Onward(w, ids)[i] = nodes[i].id
      OBVIOUS
    <3>1. Len(rows) - i + 1 \in 1..Len(rows)
      BY <2>1
    <3> QED
      BY <1>5, <2>2, <2>3, <3>1
  <2>5. Onward(w, ids) = [k \in 1..Len(rows) |-> Onward(w, ids)[k]]
    BY <2>1, <2>3
  <2> QED
    BY <1>5, <2>4, <2>5 DEF ids
<1>7. rows = <<>> <=> Len(nodes) = 0
  BY <1>4, <1>5
<1>8. Last(nodes) = nodes[Len(nodes)]
  BY DEF Last
<1>9. Len(page) \in Nat
  BY <1>2
<1>10. \/ Len(page) > w.size /\ pc' = [pc EXCEPT ![c] = "acquire"] /\ UNCHANGED ended
       \/ /\ Len(page) <= w.size /\ pc' = [pc EXCEPT ![c] = "idle"]
          /\ ended' = [ended EXCEPT ![c] = "done"]
  BY <1>1, <1>3, <1>9
<1>11. visited' = [visited EXCEPT ![c] = @ \o [k \in 1..Len(nodes) |-> nodes[k].id]]
  BY <1>3, <1>6
<1>12. cursor' = IF Len(nodes) = 0 THEN cursor
                 ELSE [cursor EXCEPT ![c] = encodeCursor(w, nodes[Len(nodes)])]
  BY <1>3, <1>7, <1>8
<1>13. NextNodes(c, slots) = nodes
  BY DEF NextNodes, nodes, rows, page
<1> QED
  BY <1>2, <1>5, <1>10, <1>11, <1>12, <1>13 DEF page, S

-----------------------------------------------------------------------------
(* What a walk has not come to yet *)
Unvisited(c) == {e \in baseQuery(c) : cursor[c] = Null \/ BeyondCursor(c, e)}

(* Rows in order and rows at later times *)
LEMMA OrderAndTime ==
    ASSUME NEW d \in Directions, NEW a \in TempRow, NEW b \in TempRow
    PROVE  /\ OrderedBy(d, a, b) => ~After(d, b.time, a.time)
           /\ After(d, a.time, b.time) => OrderedBy(d, a, b)
           /\ a.time # b.time => After(d, a.time, b.time) \/ After(d, b.time, a.time)
<1>1. a.time \in Nat /\ b.time \in Nat
  BY TimesAssumption DEF TempRow
<1> QED
  BY <1>1 DEF Directions, OrderedBy, After

(* Of two saves at different times, a walk should come first by the one    *)
(* that its queries have first.                                            *)
LEMMA FirstInTime ==
    ASSUME Typed, NEW c \in Clients, NEW i \in Ids, NEW j \in Ids, list[i] # Null, list[j] # Null,
           Entry(walk[c], i).time # Entry(walk[c], j).time
    PROVE  ComesFirst(c, i, j) <=> After(order(walk[c]), Entry(walk[c], i).time, Entry(walk[c], j).time)
<1> DEFINE a == Entry(walk[c], i)
           b == Entry(walk[c], j)
           w == walk[c]
<1>1. w \in Walk /\ a \in TempRow /\ b \in TempRow
  BY ClientTypes, EntryType
<1>2. a.time \in Nat /\ b.time \in Nat
  BY <1>1, TimesAssumption DEF TempRow
<1>3. ComesFirst(c, i, j) <=> IF w.from = "first" THEN OrderedBy(w.sortOrder, a, b) ELSE OrderedBy(w.sortOrder, b, a)
  BY DEF ComesFirst, Precedes
<1> HIDE DEF a, b, w
<1>4. /\ w.sortOrder \in {"asc", "desc"} /\ order(w) \in {"asc", "desc"}
      /\ w.from = "first" => order(w) = w.sortOrder
      /\ w.from # "first" => order(w) # w.sortOrder
  BY <1>1, WalkTypes DEF Directions
<1>5. a.time # b.time
  BY DEF a, b
<1> QED
  BY <1>2, <1>3, <1>4, <1>5 DEF OrderedBy, After, a, b, w

(* No two rows of the list have a time, as long as a walk is walkable.     *)
LEMMA TimesDiffer ==
    ASSUME Typed, NEW c \in Clients, Walkable(walk[c], list),
           NEW i \in Ids, NEW j \in Ids, list[i] # Null, list[j] # Null,
           Entry(walk[c], i).time = Entry(walk[c], j).time
    PROVE  i = j
BY DEF Walkable, Entry

(* What the query for the rest of a page is about                          *)
LEMMA UnvisitedMeans ==
    ASSUME Typed, NEW c \in Clients, TablesTrue(c), CursorTrue(c), WalkTrue(c),
           pc[c] \in {"page", "collisions", "rest"}
    PROVE  /\ IsFiniteSet(Unvisited(c)) /\ Unvisited(c) \subseteq TempRow
           /\ \A a, b \in Unvisited(c) : a.time = b.time => a = b
           /\ \A e \in Unvisited(c) :
                 /\ e.id \in Ids /\ list[e.id] # Null /\ e = Entry(walk[c], e.id) /\ TrueRow(c, e)
                 /\ cursor[c] # Null => After(order(walk[c]), CursorTime(c), e.time)
           /\ \A i \in Expected(c) : Entry(walk[c], i) \in Unvisited(c) <=> ~Reached(c, i)
<1> DEFINE o == order(walk[c])
<1>1. /\ IsFiniteSet(baseQuery(c)) /\ baseQuery(c) \subseteq TempRow
      /\ \A e \in baseQuery(c) : e.id \in Ids /\ list[e.id] # Null /\ e = Entry(walk[c], e.id) /\ TrueRow(c, e)
      /\ \A i \in Expected(c) : Entry(walk[c], i) \in baseQuery(c)
  BY QueryRows
<1>2. Unvisited(c) \subseteq baseQuery(c)
  BY DEF Unvisited
<1>3. IsFiniteSet(Unvisited(c)) /\ Unvisited(c) \subseteq TempRow
  BY <1>1, <1>2, FS_Subset
<1>4. \A a, b \in Unvisited(c) : a.time = b.time => a = b
  <2> SUFFICES ASSUME NEW a \in Unvisited(c), NEW b \in Unvisited(c), a.time = b.time PROVE a = b
    OBVIOUS
  <2>1. /\ a.id \in Ids /\ list[a.id] # Null /\ a = Entry(walk[c], a.id)
        /\ b.id \in Ids /\ list[b.id] # Null /\ b = Entry(walk[c], b.id)
    BY <1>1, <1>2
  <2>2. a.id = b.id
    BY <2>1, TimesDiffer DEF WalkTrue
  <2> QED
    BY <2>1, <2>2
<1>5. ASSUME NEW e \in baseQuery(c), cursor[c] # Null
      PROVE  BeyondCursor(c, e) <=> After(o, CursorTime(c), e.time)
  <2>1. o \in {"asc", "desc"}
    BY ClientTypes, WalkTypes DEF Directions
  <2>2. e.time \in Nat
    BY <1>1, TimesAssumption DEF TempRow
  <2>3. CASE cursor[c].time = Null
    <3>1. o = "desc" /\ CursorTime(c) = 0
      BY <1>5, <2>3 DEF WalkTrue, CursorTime
    <3>2. ~BeyondCursor(c, e)
      BY <2>3 DEF BeyondCursor
    <3>3. ~After(o, CursorTime(c), e.time)
      BY <2>2, <3>1 DEF After
    <3> QED
      BY <3>2, <3>3
  <2>4. CASE cursor[c].time # Null
    BY <2>4 DEF BeyondCursor, After, CursorTime
  <2> QED
    BY <2>3, <2>4
<1>6. \A e \in Unvisited(c) : cursor[c] # Null => After(o, CursorTime(c), e.time)
  BY <1>2, <1>5 DEF Unvisited
<1>7. \A i \in Expected(c) : Entry(walk[c], i) \in Unvisited(c) <=> ~Reached(c, i)
  BY <1>1, <1>5 DEF Unvisited, Reached
<1> QED
  BY <1>1, <1>2, <1>3, <1>4, <1>6, <1>7

-----------------------------------------------------------------------------
(* The time of a cursor, and when there is none in it *)
LEMMA EncodedTime ==
    ASSUME NEW w \in Walk, NEW e \in TempRow
    PROVE  LET k == encodeCursor(w, e)
           IN /\ k.id = e.id /\ k \in CursorType /\ k # Null
              /\ (IF k.time = Null THEN 0 ELSE k.time) = e.time
              /\ k.time = Null => e.time = 0
<1>1. e.id \in Ids /\ e.time \in Times /\ e.time # Null
  BY NullAssumption DEF TempRow
<1>2. encodeCursor(w, e) \in CursorType
  BY <1>1 DEF encodeCursor, CursorType, Optional
<1>3. encodeCursor(w, e) # Null
  BY <1>2, NullAssumption DEF CursorType
<1> QED
  BY <1>1, <1>2, <1>3 DEF encodeCursor

(* What is in a sequence that goes on                                      *)
LEMMA Appended ==
    ASSUME NEW s \in Seq(Ids), NEW t \in Seq(Ids), NEW u, u = s \o t,
           NEW m \in Nat, m = Len(s), NEW n \in Nat, n = Len(t)
    PROVE  /\ u \in Seq(Ids) /\ DOMAIN u = 1..(m + n)
           /\ \A p \in 1..m : p \in 1..(m + n) /\ u[p] = s[p]
           /\ \A p \in (m + 1)..(m + n) : p - m \in 1..n /\ u[p] = t[p - m]
           /\ \A i : i \in ToSet(u) <=> i \in ToSet(s) \/ i \in ToSet(t)
<1>1. m \in Nat /\ n \in Nat /\ DOMAIN s = 1..m /\ DOMAIN t = 1..n
  OBVIOUS
<1>2. u \in Seq(Ids) /\ Len(u) = m + n
  OBVIOUS
<1>3. DOMAIN u = 1..(m + n)
  BY <1>2
<1>4. \A p \in 1..m : p \in 1..(m + n) /\ u[p] = s[p]
  OBVIOUS
<1>5. \A p \in (m + 1)..(m + n) : p - m \in 1..n /\ u[p] = t[p - m]
  OBVIOUS
<1>6. ASSUME NEW i, i \in ToSet(u) PROVE i \in ToSet(s) \/ i \in ToSet(t)
  <2>1. PICK p \in 1..(m + n) : u[p] = i
    BY <1>3, <1>6 DEF ToSet
  <2>2. p \in 1..m \/ p \in (m + 1)..(m + n)
    BY <1>1
  <2> QED
    BY <1>1, <1>4, <1>5, <2>1, <2>2 DEF ToSet
<1>7. ASSUME NEW i, i \in ToSet(s) PROVE i \in ToSet(u)
  <2>1. PICK p \in 1..m : s[p] = i
    BY <1>1, <1>7 DEF ToSet
  <2> QED
    BY <1>3, <1>4, <2>1 DEF ToSet
<1>8. ASSUME NEW i, i \in ToSet(t) PROVE i \in ToSet(u)
  <2>1. PICK k \in 1..n : t[k] = i
    BY <1>1, <1>8 DEF ToSet
  <2> DEFINE p == m + k
  <2>2. p \in (m + 1)..(m + n) /\ p - m = k /\ p \in 1..(m + n)
    BY <1>1
  <2> HIDE DEF p
  <2>3. u[p] = i
    BY <1>5, <2>1, <2>2
  <2> QED
    BY <1>3, <2>2, <2>3 DEF ToSet
<1> QED
  BY <1>2, <1>3, <1>4, <1>5, <1>6, <1>7, <1>8

(* A client that gets the first of the saves it has not visited yet goes   *)
(* on as it should.                                                        *)
LEMMA VisitsOn ==
    ASSUME Typed, NEW c \in Clients, TablesTrue(c), CursorTrue(c), WalkTrue(c),
           pc[c] \in {"page", "collisions", "rest"},
           NEW D, Leads(order(walk[c]), Unvisited(c), D),
           UNCHANGED list, walk'[c] = walk[c], steady'[c] = steady[c],
           visited'[c] = visited[c] \o [k \in 1..Len(D) |-> D[k].id],
           cursor'[c] = IF Len(D) = 0 THEN cursor[c] ELSE encodeCursor(walk[c], D[Len(D)]),
           ended'[c] = ended[c] \/ Sorts(order(walk[c]), Unvisited(c), D)
    PROVE  WalkTrue(c)'
<1> DEFINE w == walk[c]
           o == order(w)
           U == Unvisited(c)
           time(i) == Entry(w, i).time
           ids == [k \in 1..Len(D) |-> D[k].id]
           n == Len(D)
           m == Len(visited[c])
<1>1. w \in Walk /\ o \in Directions /\ o \in {"asc", "desc"}
  BY ClientTypes, WalkTypes DEF Directions
<1>2. D \in Seq(U) /\ n \in Nat
  BY DEF Leads
<1>3. /\ IsFiniteSet(U) /\ U \subseteq TempRow
      /\ \A a, b \in U : a.time = b.time => a = b
      /\ \A e \in U :
            /\ e.id \in Ids /\ list[e.id] # Null /\ e = Entry(w, e.id) /\ TrueRow(c, e)
            /\ cursor[c] # Null => After(o, CursorTime(c), e.time)
      /\ \A i \in Expected(c) : Entry(w, i) \in U <=> ~Reached(c, i)
  BY UnvisitedMeans
<1>4. \A k \in 1..n : D[k] \in U /\ D[k] \in TempRow /\ D[k].id \in Ids /\ D[k] = Entry(w, D[k].id)
  BY <1>2, <1>3
<1>5. /\ visited[c] \in Seq(Ids) /\ m \in Nat /\ steady[c] \subseteq Ids
      /\ cursor[c] # Null => CursorTime(c) \in Nat
  <2>1. /\ visited[c] \in Seq(Ids) /\ steady[c] \subseteq Ids
        /\ cursor[c] # Null => CursorTime(c) \in Times
    BY ClientTypes
  <2>2. m \in Nat
    BY <2>1
  <2> QED
    BY <2>1, <2>2, TimesAssumption
<1>6. \A i \in Expected(c) : /\ i \in steady[c] /\ i \in Ids /\ list[i] # Null
                             /\ Entry(w, i) \in TempRow /\ time(i) \in Nat /\ Entry(w, i).id = i
  BY <1>1, <1>5, ClientTypes, EntryType, TimesAssumption DEF Expected, CursorTrue, TempRow
<1> HIDE DEF n, m, U, time
<1>7. ids \in Seq(Ids) /\ Len(ids) = n /\ \A k \in 1..n : ids[k] = D[k].id
  BY <1>2, <1>4 DEF n
<1> HIDE DEF ids
<1> DEFINE v == visited'[c]
<1>8. /\ DOMAIN v = 1..(m + n)
      /\ \A p \in 1..m : p \in 1..(m + n) /\ v[p] = visited[c][p]
      /\ \A p \in (m + 1)..(m + n) : p - m \in 1..n /\ v[p] = D[p - m].id
      /\ \A i : i \in ToSet(v) <=> i \in ToSet(visited[c]) \/ i \in ToSet(ids)
  <2>1. v = visited[c] \o ids
    BY DEF ids
  <2> HIDE DEF v
  <2> DEFINE s == visited[c]
  <2>2. s \in Seq(Ids) /\ m = Len(s)
    BY <1>5 DEF m
  <2> HIDE DEF s
  <2>3. v = s \o ids
    BY <2>1 DEF s
  <2>4. /\ DOMAIN v = 1..(m + n)
        /\ \A p \in 1..m : p \in 1..(m + n) /\ v[p] = s[p]
        /\ \A p \in (m + 1)..(m + n) : p - m \in 1..n /\ v[p] = ids[p - m]
        /\ \A i : i \in ToSet(v) <=> i \in ToSet(s) \/ i \in ToSet(ids)
    <3>1. s \in Seq(Ids) /\ ids \in Seq(Ids) /\ m \in Nat /\ n \in Nat /\ m = Len(s) /\ n = Len(ids)
      BY <1>2, <1>5, <1>7, <2>2
    <3>2. DOMAIN v = 1..(m + n)
      BY ONLY <2>3, <3>1, Appended
    <3>3. \A p \in 1..m : p \in 1..(m + n) /\ v[p] = s[p]
      BY ONLY <2>3, <3>1, Appended
    <3>4. \A p \in (m + 1)..(m + n) : p - m \in 1..n /\ v[p] = ids[p - m]
      BY ONLY <2>3, <3>1, Appended
    <3>5. \A i : i \in ToSet(v) <=> i \in ToSet(s) \/ i \in ToSet(ids)
      BY ONLY <2>3, <3>1, Appended
    <3> QED
      BY <3>2, <3>3, <3>4, <3>5
  <2> QED
    BY <1>7, <2>4 DEF s
<1>9. \A i : i \in ToSet(v) <=> i \in ToSet(visited[c]) \/ \E k \in 1..n : D[k].id = i
  <2>1. DOMAIN ids = 1..n
    BY <1>2, <1>7
  <2>2. \A i : i \in ToSet(ids) <=> \E k \in 1..n : D[k].id = i
    BY <1>7, <2>1 DEF ToSet
  <2> QED
    BY <1>8, <2>2
<1> HIDE DEF v
<1>10. /\ Expected(c)' = Expected(c)
       /\ \A i : Entry(walk[c], i)' = Entry(walk[c], i)
       /\ order(walk[c])' = o
       /\ \A i, j : ComesFirst(c, i, j)' <=> ComesFirst(c, i, j)
       /\ Walkable(walk[c], list)' <=> Walkable(walk[c], list)
  BY DEF Expected, Entry, ComesFirst, Precedes, Walkable, order, opposite
<1>11. \A k \in 1..n : D[k].id \in steady[c] => D[k].id \in Expected(c)
  BY <1>3, <1>4 DEF TrueRow, Expected, Chosen
<1>12. ToSet(v) \cap steady[c] \subseteq Expected(c)
  BY <1>9, <1>11 DEF WalkTrue
<1>15. ASSUME ToSet(v) \cap steady[c] \subseteq Expected(c),
              cursor'[c] # Null /\ cursor'[c].time = Null => o = "desc",
              \A i \in Expected(c) : i \in ToSet(v) <=> Reached(c, i)',
              \A p, q \in DOMAIN v :
                 p < q /\ {v[p], v[q]} \subseteq steady[c] => ComesFirst(c, v[p], v[q]),
              ended'[c] = "done" => Expected(c) \subseteq ToSet(v)
       PROVE  WalkTrue(c)'
  <2>1. Walkable(walk[c], list)'
    BY <1>10 DEF WalkTrue
  <2>2. (cursor[c] # Null /\ cursor[c].time = Null => order(walk[c]) = "desc")'
    BY <1>10, <1>15
  <2>3. (ToSet(visited[c]) \cap steady[c] \subseteq Expected(c))'
    BY <1>10, <1>15 DEF v
  <2>4. (\A i \in Expected(c) : i \in ToSet(visited[c]) <=> Reached(c, i))'
    BY <1>10, <1>15 DEF v
  <2>5. (\A p, q \in DOMAIN visited[c] :
            p < q /\ {visited[c][p], visited[c][q]} \subseteq steady[c]
                => ComesFirst(c, visited[c][p], visited[c][q]))'
    BY <1>15 DEF v, ComesFirst, Precedes, Entry
  <2>6. (ended[c] = "done" => Expected(c) \subseteq ToSet(visited[c]))'
    BY <1>10, <1>15 DEF v
  <2> QED
    BY <2>1, <2>2, <2>3, <2>4, <2>5, <2>6 DEF WalkTrue
<1>13. CASE n = 0
  <2>1. cursor'[c] = cursor[c]
    BY <1>13 DEF n
  <2>2. \A i : Reached(c, i)' <=> Reached(c, i)
    BY <1>10, <2>1 DEF Reached, CursorTime
  <2>3. \A i : i \in ToSet(v) <=> i \in ToSet(visited[c])
    BY <1>9, <1>13
  <2>4. \A p, q \in DOMAIN v :
           p < q /\ {v[p], v[q]} \subseteq steady[c]
               => ComesFirst(c, v[p], v[q])
    <3>1. DOMAIN v = 1..m /\ DOMAIN visited[c] = 1..m
      BY <1>5, <1>8, <1>13 DEF m
    <3> QED
      BY <1>8, <3>1 DEF WalkTrue
  <2>5. ASSUME Sorts(o, U, D), NEW i \in Expected(c) PROVE i \in ToSet(v)
    <3>1. Entry(w, i) \notin U
      BY <1>13, <2>5 DEF Sorts, n
    <3> QED
      BY <1>3, <2>3, <3>1 DEF WalkTrue
  <2>6. ended'[c] = "done" => Expected(c) \subseteq ToSet(v)
    BY <2>3, <2>5 DEF WalkTrue, U
  <2>7. cursor'[c] # Null /\ cursor'[c].time = Null => o = "desc"
    BY <2>1 DEF WalkTrue
  <2>8. \A i \in Expected(c) : i \in ToSet(v) <=> Reached(c, i)'
    BY <2>2, <2>3 DEF WalkTrue
  <2> QED
    BY <1>12, <1>15, <2>4, <2>6, <2>7, <2>8
<1>14. CASE n # 0
  <2> DEFINE L == D[n]
  <2>1. n \in 1..n /\ L \in U /\ L \in TempRow /\ L.time \in Nat
    <3>1. n \in 1..n
      BY <1>2, <1>14
    <3>2. L \in U /\ L \in TempRow
      BY <1>4, <3>1
    <3> QED
      BY <3>1, <3>2, TimesAssumption DEF TempRow
  <2> HIDE DEF L
  <2>2. cursor'[c] = encodeCursor(w, L)
    BY <1>14 DEF n, L
  <2>3. cursor'[c] # Null /\ CursorTime(c)' = L.time /\ (cursor'[c].time = Null => L.time = 0)
    BY <1>1, <2>1, <2>2, EncodedTime DEF CursorTime
  <2>4. \A i : Reached(c, i)' <=> ~After(o, L.time, time(i))
    BY <1>10, <2>3 DEF Reached, time
  <2>5. cursor'[c].time = Null => o = "desc"
    <3> SUFFICES ASSUME L.time = 0, o = "asc" PROVE FALSE
      BY <1>1, <2>3
    <3>1. L.id \in Ids /\ list[L.id] # Null /\ L = Entry(w, L.id)
      BY <1>3, <2>1
    <3>2. L.time = list[L.id][column(w)]
      BY <3>1 DEF Entry
    <3> QED
      BY <3>1, <3>2 DEF WalkTrue, Walkable
  <2>6. \A i \in Expected(c) : (\E k \in 1..n : D[k].id = i) <=> (\E k \in 1..n : D[k] = Entry(w, i))
    BY <1>4, <1>6
  <2>7. ASSUME NEW i \in Expected(c), Reached(c, i)
        PROVE  ~After(o, L.time, time(i))
    <3>1. After(o, CursorTime(c), L.time) /\ ~After(o, CursorTime(c), time(i)) /\ CursorTime(c) \in Nat
      BY <1>3, <1>5, <2>1, <2>7 DEF Reached, time
    <3>2. time(i) \in Nat
      BY <1>6
    <3> QED
      BY <1>1, <2>1, <3>1, <3>2 DEF After
  <2>8. ASSUME NEW k \in 1..n PROVE ~After(o, L.time, D[k].time)
    <3>1. CASE k = n
      BY <2>1, <3>1 DEF After, L
    <3>2. CASE k # n
      <4>1. k < n
        BY <1>2, <3>2
      <4>2. OrderedBy(o, D[k], L)
        BY <2>1, <4>1 DEF Leads, L, n
      <4> QED
        BY <1>1, <1>4, <2>1, <4>2, OrderAndTime
    <3> QED
      BY <3>1, <3>2
  <2>9. ASSUME NEW i \in Expected(c), ~Reached(c, i), ~After(o, L.time, time(i))
        PROVE  \E k \in 1..n : D[k] = Entry(w, i)
    <3>1. Entry(w, i) \in U /\ Entry(w, i) \in TempRow
      BY <1>3, <1>6, <2>9
    <3>2. CASE time(i) = L.time
      <4>1. Entry(w, i) = L
        BY <1>3, <2>1, <3>1, <3>2 DEF time
      <4> QED
        BY <2>1, <4>1 DEF L
    <3>3. CASE time(i) # L.time
      <4>1. OrderedBy(o, Entry(w, i), L)
        BY <1>1, <2>1, <2>9, <3>1, <3>3, OrderAndTime DEF time
      <4>2. L = D[n] /\ n \in 1..Len(D)
        BY <2>1 DEF L, n
      <4> QED
        BY <3>1, <4>1, <4>2 DEF Leads, U, n
    <3> QED
      BY <3>2, <3>3
  <2>10. \A i \in Expected(c) : i \in ToSet(v) <=> Reached(c, i)'
    <3> SUFFICES ASSUME NEW i \in Expected(c)
                 PROVE  i \in ToSet(v) <=> ~After(o, L.time, time(i))
      BY <2>4
    <3>1. i \in ToSet(visited[c]) <=> Reached(c, i)
      BY DEF WalkTrue
    <3>2. ASSUME NEW k \in 1..n, D[k] = Entry(w, i) PROVE ~After(o, L.time, time(i))
      BY <2>8, <3>2 DEF time
    <3> QED
      BY <1>9, <2>6, <2>7, <2>9, <3>1, <3>2
  <2>11. ASSUME NEW p \in 1..(m + n), NEW q \in 1..(m + n), p < q,
                v[p] \in steady[c], v[q] \in steady[c]
         PROVE  ComesFirst(c, v[p], v[q])
    <3> DEFINE i == v[p]
               j == v[q]
    <3>1. i \in Expected(c) /\ j \in Expected(c)
      BY <1>8, <1>12, <2>11 DEF ToSet
    <3> HIDE DEF i, j
    <3>2. CASE q <= m
      <4>1. p \in 1..m /\ q \in 1..m /\ DOMAIN visited[c] = 1..m
        BY <1>5, <2>11, <3>2 DEF m
      <4>2. v[p] = visited[c][p] /\ v[q] = visited[c][q]
        BY <1>8, <4>1
      <4> QED
        BY <2>11, <4>1, <4>2 DEF WalkTrue
    <3>3. CASE q > m
      <4>1. q - m \in 1..n /\ j = D[q - m].id
        BY <1>2, <1>5, <1>8, <3>3 DEF j
      <4>2. D[q - m] = Entry(w, j) /\ Entry(w, j) \in U /\ Entry(w, j) \in TempRow
        BY <1>4, <4>1
      <4>3. ASSUME p <= m PROVE After(o, time(i), time(j))
        <5>1. i \in ToSet(visited[c])
          <6>1. p \in 1..m /\ DOMAIN visited[c] = 1..m
            BY <1>2, <1>5, <4>3 DEF m
          <6> QED
            BY <1>8, <6>1 DEF ToSet, i
        <5>2. Reached(c, i)
          BY <3>1, <5>1 DEF WalkTrue
        <5>3. ~After(o, CursorTime(c), time(i)) /\ After(o, CursorTime(c), time(j)) /\ CursorTime(c) \in Nat
          BY <1>3, <1>5, <4>2, <5>2 DEF Reached, time
        <5> QED
          BY <1>1, <1>6, <3>1, <5>3 DEF After
      <4>4. ASSUME p > m PROVE After(o, time(i), time(j))
        <5>1. p - m \in 1..n /\ i = D[p - m].id /\ p - m < q - m
          <6>1. p \in (m + 1)..(m + n) /\ p - m < q - m
            BY <1>2, <1>5, <2>11, <4>4
          <6> QED
            BY <1>8, <6>1 DEF i
        <5>2. D[p - m] = Entry(w, i) /\ Entry(w, i) \in U /\ Entry(w, i) \in TempRow
          BY <1>4, <5>1
        <5>3. OrderedBy(o, Entry(w, i), Entry(w, j))
          BY <4>1, <4>2, <5>1, <5>2 DEF Leads, n
        <5>4. Entry(w, i) # Entry(w, j)
          BY <1>1, <4>2, <5>2, <5>3, OrderedByIsStrict
        <5>5. time(i) # time(j)
          BY <1>3, <4>2, <5>2, <5>4 DEF time
        <5> QED
          BY <1>1, <4>2, <5>2, <5>3, <5>5, OrderAndTime DEF time
      <4>5. After(o, time(i), time(j))
        BY <1>2, <1>5, <4>3, <4>4
      <4>6. time(i) # time(j)
        BY <1>1, <1>6, <3>1, <4>5 DEF After
      <4> QED
        BY <1>6, <3>1, <4>5, <4>6, FirstInTime DEF time, i, j
    <3> QED
      BY <1>2, <1>5, <3>2, <3>3
  <2>15. \A p, q \in DOMAIN v : p < q /\ {v[p], v[q]} \subseteq steady[c] => ComesFirst(c, v[p], v[q])
    BY <1>8, <2>11
  <2>12. ASSUME Sorts(o, U, D), NEW i \in Expected(c) PROVE i \in ToSet(v)
    <3>1. CASE Reached(c, i)
      BY <1>9, <3>1 DEF WalkTrue
    <3>2. CASE ~Reached(c, i)
      <4>1. \E k \in 1..n : D[k] = Entry(w, i)
        BY <1>3, <2>12, <3>2 DEF Sorts, n
      <4> QED
        BY <1>9, <2>6, <4>1
    <3> QED
      BY <3>1, <3>2
  <2>13. ended'[c] = "done" => Expected(c) \subseteq ToSet(v)
    BY <1>9, <2>12 DEF WalkTrue, U
  <2> QED
    BY <1>12, <1>15, <2>5, <2>10, <2>15, <2>13
<1> QED
  BY <1>13, <1>14

-----------------------------------------------------------------------------
(* A page that is made of true rows, and for a walkable walk of the first  *)
(* of the saves that it has not visited yet, keeps the invariant.          *)
LEMMA AnswerKeepsWalks ==
    ASSUME WalkInv, NEW c \in Clients, pc[c] \in {"page", "collisions", "rest"},
           NEW slots \in Seq(TempRow \cup {Free}), FreeFirst(slots),
           \A e \in Used(slots) : TrueRow(c, e),
           walkable[c] => Scan(slots) = Limit(OrderBy(Unvisited(c), order(walk[c])), walk[c].size + 1),
           Answer(c, slots)
    PROVE  WalkInv'
<1> DEFINE w == walk[c]
           page == Page(w, slots)
           nodes == NextNodes(c, slots)
           n == Len(nodes)
           ids == [k \in 1..n |-> nodes[k].id]
<1>1. /\ Inv /\ Typed /\ TablesTrue(c) /\ CursorTrue(c) /\ (walkable[c] => WalkTrue(c))
      /\ Inv'
  BY Answered DEF WalkInv
<1>2. w \in Walk /\ steady[c] \subseteq Ids /\ visited[c] \in Seq(Ids)
  BY <1>1, ClientTypes
<1>3. /\ nodes \in Seq(Used(slots)) /\ Used(slots) \subseteq TempRow
      /\ visited' = [visited EXCEPT ![c] = @ \o ids]
      /\ cursor' = IF n = 0 THEN cursor
                   ELSE [cursor EXCEPT ![c] = encodeCursor(w, nodes[n])]
      /\ \/ Len(page) > w.size /\ pc' = [pc EXCEPT ![c] = "acquire"] /\ UNCHANGED ended
         \/ /\ Len(page) <= w.size /\ pc' = [pc EXCEPT ![c] = "idle"]
            /\ ended' = [ended EXCEPT ![c] = "done"]
  BY <1>1, Delivered
<1>4. /\ UNCHANGED <<list, walk, steady, walkable>>
      /\ tables' = [tables EXCEPT ![conn[c]].list = slots]
      /\ conn' = [conn EXCEPT ![c] = Null]
  BY DEF Answer, Release
<1> HIDE DEF page, nodes
<1>5. n \in Nat /\ \A k \in 1..n : nodes[k] \in TempRow /\ nodes[k].id \in Ids /\ TrueRow(c, nodes[k])
  <2>1. n \in Nat /\ \A k \in 1..n : nodes[k] \in Used(slots)
    BY <1>3
  <2> QED
    BY <1>3, <2>1 DEF TempRow
<1>6. ids \in Seq(Ids)
  BY <1>5
<1> HIDE DEF ids
<1>7. /\ visited'[c] = visited[c] \o ids
      /\ cursor'[c] = IF n = 0 THEN cursor[c] ELSE encodeCursor(w, nodes[n])
      /\ pc'[c] \in {"acquire", "idle"}
      /\ ended'[c] = ended[c] \/ (Len(page) <= w.size /\ ended'[c] = "done")
      /\ pc'[c] = "acquire" => ended'[c] = ended[c]
      /\ \A d \in Clients : d # c =>
            /\ pc'[d] = pc[d] /\ conn'[d] = conn[d] /\ walk'[d] = walk[d] /\ cursor'[d] = cursor[d]
            /\ ended'[d] = ended[d] /\ visited'[d] = visited[d] /\ steady'[d] = steady[d]
            /\ walkable'[d] = walkable[d]
  BY <1>1, <1>3, <1>4 DEF Inv, OneConnection, Typed
<1> HIDE DEF n
<1>8. ASSUME n # 0
      PROVE  /\ encodeCursor(w, nodes[n]) \in CursorType
             /\ encodeCursor(w, nodes[n]).id = nodes[n].id
             /\ nodes[n].id \in steady[c] => nodes[n] = Entry(w, nodes[n].id) /\ Chosen(c, nodes[n].id)
  <2>1. n \in 1..n
    BY <1>5, <1>8
  <2>2. nodes[n] \in TempRow /\ TrueRow(c, nodes[n])
    BY <1>5, <2>1
  <2> QED
    BY <1>2, <2>2, EncodedTime DEF TrueRow
<1>9. Typed'
  <2>1. visited' \in [Clients -> Seq(Ids)]
    <3>1. visited[c] \o ids \in Seq(Ids)
      BY <1>2, <1>6, ConcatProperties
    <3> QED
      BY <1>1, <1>3, <3>1 DEF Typed
  <2>2. cursor' \in [Clients -> Optional(CursorType)]
    BY <1>1, <1>3, <1>8 DEF Typed, Optional
  <2>3. ended' \in [Clients -> Outcomes]
    BY <1>1, <1>3 DEF Typed, Outcomes
  <2>4. slots \in TableType
    BY DEF TableType, Optional
  <2>5. \A k \in Connections :
          /\ tables'[k].list \in TableType
          /\ tables'[k].highlights \in Optional(SUBSET Ids)
          /\ tables'[k].tags \in Optional(SUBSET Ids)
    BY <1>1, <1>4, <2>4 DEF Typed, Inv, HasTables
  <2> QED
    BY <1>1, <1>4, <2>1, <2>2, <2>3, <2>5 DEF Typed
<1>10. TablesTrue(c)'
  BY <1>1, <1>7 DEF TablesTrue
<1>11. \A k \in Connections : k # conn[c] => tables'[k] = tables[k]
  BY <1>1, <1>4 DEF Inv, HasTables
<1>12. CursorTrue(c)'
  <2>1. CASE n = 0
    BY <1>1, <1>4, <1>7, <2>1, CursorStays
  <2>2. CASE n # 0
    <3>1. \A i : Chosen(c, i)' <=> Chosen(c, i)
      BY <1>4 DEF Chosen
    <3>2. \A i : Entry(w, i)' = Entry(w, i)
      BY <1>4 DEF Entry
    <3>3. cursor'[c] = encodeCursor(w, nodes[n])
      BY <1>7, <2>2
    <3>4. (cursor[c] # Null /\ cursor[c].id \in steady[c] =>
              /\ Chosen(c, cursor[c].id)
              /\ cursor[c] = encodeCursor(walk[c], Entry(walk[c], cursor[c].id)))'
      BY <1>4, <1>8, <2>2, <3>3 DEF Chosen, Entry, encodeCursor, column
    <3>5. (\A i \in steady[c] : list[i] # Null)'
      BY <1>1, <1>4 DEF CursorTrue
    <3> QED
      BY <3>4, <3>5 DEF CursorTrue
  <2> QED
    BY <2>1, <2>2
<1>13. ASSUME walkable'[c] PROVE WalkTrue(c)'
  <2>1. walkable[c] /\ WalkTrue(c)
    BY <1>1, <1>4, <1>13
  <2> DEFINE U == Unvisited(c)
  <2>2. U \subseteq TempRow /\ IsFiniteSet(U) /\ \A a, b \in U : a.time = b.time => a = b
    BY <1>1, <2>1, UnvisitedMeans
  <2>3. Scan(slots) = Limit(OrderBy(U, order(w)), w.size + 1)
    BY <2>1
  <2> HIDE DEF U
  <2>4. /\ Leads(order(w), U, nodes)
        /\ Len(page) <= w.size => Sorts(order(w), U, nodes)
    BY <1>2, <2>2, <2>3, PageLeads DEF nodes, page, NextNodes
  <2>5. visited'[c] = visited[c] \o [k \in 1..Len(nodes) |-> nodes[k].id]
    BY <1>7 DEF ids, n
  <2>6. cursor'[c] = IF Len(nodes) = 0 THEN cursor[c] ELSE encodeCursor(walk[c], nodes[Len(nodes)])
    BY <1>7 DEF n
  <2>7. ended'[c] = ended[c] \/ Sorts(order(walk[c]), Unvisited(c), nodes)
    BY <1>7, <2>4 DEF U
  <2>8. Leads(order(walk[c]), Unvisited(c), nodes)
    BY <2>4 DEF U
  <2> QED
    BY <1>1, <1>4, <2>1, <2>5, <2>6, <2>7, <2>8, VisitsOn
<1> QED
  BY <1>1, <1>4, <1>7, <1>9, <1>10, <1>11, <1>12, <1>13, OneMoves

-----------------------------------------------------------------------------
(* A table without rows, with one deleted slot at most *)
LEMMA Rowless ==
    ASSUME NEW slots \in Seq({Free})
    PROVE  /\ slots \in Seq(TempRow \cup {Free}) /\ FreeFirst(slots) /\ Used(slots) = {}
           /\ Len(Scan(slots)) = 0
<1>1. slots \in Seq(TempRow \cup {Free}) /\ Len(slots) \in Nat /\ \A i \in 1..Len(slots) : slots[i] = Free
  OBVIOUS
<1>2. FreeFirst(slots)
  BY <1>1 DEF FreeFirst
<1>3. Used(slots) = {}
  BY <1>1 DEF Used, ToSet
<1>4. Scan(slots) \in Seq({})
  BY <1>1, <1>2, <1>3, ScanReads
<1>5. Len(Scan(slots)) = 0
  <2> DEFINE s == Scan(slots)
  <2>1. s \in Seq({})
    BY <1>4
  <2> HIDE DEF s
  <2> QED
    BY <2>1 DEF s
<1> QED
  BY <1>1, <1>2, <1>3, <1>5

(* Nothing has been visited before the first page.                         *)
LEMMA FirstPageKeepsWalks ==
    ASSUME WalkInv, NEW c \in Clients, pageFirstLast(c)
    PROVE  WalkInv'
<1> DEFINE w == walk[c]
           n == w.size + 1
           none == <<>>
           rows == Limit(Fetched(c, baseQuery(c)), n)
<1>1. Typed /\ TablesTrue(c) /\ CursorTrue(c)
  BY DEF WalkInv
<1>2. w \in Walk /\ w.size \in Nat
  BY <1>1, ClientTypes, WalkTypes
<1>3. pc[c] = "page" /\ Answer(c, Insert(none, rows))
  BY DEF pageFirstLast, pageSize
<1>4. none \in Seq({Free}) /\ Len(none) = 0
  OBVIOUS
<1>5. /\ IsFiniteSet(baseQuery(c)) /\ baseQuery(c) \subseteq TempRow
      /\ \A e \in baseQuery(c) : TrueRow(c, e)
  BY <1>1, <1>3, QueryRows
<1>6. rows \in Seq(baseQuery(c)) /\ rows \in Seq(TempRow)
  <2> DEFINE Q == baseQuery(c)
  <2>1. n \in Nat /\ Q \subseteq baseQuery(c)
    BY <1>2
  <2> HIDE DEF n, Q
  <2>2. pc[c] \in {"page", "collisions", "rest"}
    BY <1>3
  <2>3. Limit(Fetched(c, Q), n) \in Seq(Q) /\ Limit(Fetched(c, Q), n) \in Seq(TempRow)
    BY <1>1, <2>1, <2>2, FetchedRows
  <2> QED
    BY <2>3 DEF Q
<1>7. rows = Limit(OrderBy(Unvisited(c), order(w)), n)
  <2>1. cursor[c] = Null
    BY <1>1, <1>3 DEF TablesTrue
  <2> QED
    BY <2>1 DEF Unvisited, Fetched
<1> DEFINE slots == Insert(none, rows)
<1> HIDE DEF none, rows
<1>8. none \in Seq(TempRow \cup {Free}) /\ FreeFirst(none) /\ Used(none) = {}
  BY <1>4, Rowless
<1>9. slots \in Seq(TempRow \cup {Free}) /\ FreeFirst(slots) /\ Used(slots) \subseteq ToSet(rows)
  BY <1>6, <1>8, InsertAdds
<1>10. \A e \in Used(slots) : TrueRow(c, e)
  <2>1. ToSet(rows) \subseteq baseQuery(c)
    BY <1>6 DEF ToSet
  <2> QED
    BY <1>5, <1>9, <2>1
<1>11. Scan(slots) = rows
  <2>1. Len(none) <= 1 /\ none \in Seq({Free}) /\ rows \in Seq(TempRow)
    BY <1>4, <1>6
  <2> QED
    BY <2>1, InsertKeepsOrder
<1> HIDE DEF slots
<1>12. Answer(c, slots)
  BY <1>3 DEF slots
<1> QED
  BY <1>3, <1>7, <1>9, <1>10, <1>11, <1>12, AnswerKeepsWalks

-----------------------------------------------------------------------------
(* The saves with a time that a walk goes by, and that the LIMIT on the    *)
(* rows with the time of the cursor never cuts any of them off             *)
Ties(c, t) == {i \in Ids : list[i] # Null /\ Entry(walk[c], i).time = t}

TiesFit == \A c \in Clients : \A t \in Times : Cardinality(Ties(c, t)) <= RowLimit

(* The rows with the time of the cursor                                    *)
LEMMA CollisionRows ==
    ASSUME WalkInv, NEW c \in Clients, pc[c] = "collisions"
    PROVE  LET rows == Collisions(c)
           IN /\ rows \in Seq(TempRow) /\ cursor[c] # Null
              /\ \A e \in ToSet(rows) : TrueRow(c, e)
              /\ walkable[c] => Len(rows) <= 1
              /\ TiesFit => CursorIn(c, rows) \/ cursor[c].id \notin steady[c]
<1> DEFINE w == walk[c]
           Q == {e \in baseQuery(c) : AtCursor(c, e)}
           sorted == Fetched(c, Q)
           rows == Collisions(c)
<1>1. Typed /\ TablesTrue(c) /\ CursorTrue(c) /\ cursor[c] # Null
  BY DEF WalkInv, TablesTrue
<1>2. w \in Walk /\ order(w) \in Directions
  BY <1>1, ClientTypes, WalkTypes
<1>3. /\ IsFiniteSet(Q) /\ Q \subseteq TempRow
      /\ \A e \in Q : /\ e.id \in Ids /\ list[e.id] # Null /\ e = Entry(w, e.id) /\ TrueRow(c, e)
                      /\ e.time = CursorTime(c)
  <2>1. /\ IsFiniteSet(baseQuery(c)) /\ baseQuery(c) \subseteq TempRow
        /\ \A e \in baseQuery(c) : e.id \in Ids /\ list[e.id] # Null /\ e = Entry(w, e.id) /\ TrueRow(c, e)
    BY <1>1, QueryRows
  <2>2. IsFiniteSet(Q)
    BY <2>1, FS_Subset
  <2> QED
    BY <2>1, <2>2 DEF AtCursor, CursorTime
<1> DEFINE Card == Cardinality(Q)
<1>4. Sorts(order(w), Q, sorted) /\ Len(sorted) = Card
  BY <1>2, <1>3, OrderBySorts DEF Fetched
<1>5. rows = Limit(sorted, RowLimit)
  BY DEF Collisions
<1>6. Card \in Nat /\ RowLimit \in Nat
  BY <1>3, FS_CardinalityType, RowLimitAssumption
<1> HIDE DEF Q, Card, sorted, rows
<1>7. sorted \in Seq(Q) /\ \A i, j \in 1..Len(sorted) : i < j => OrderedBy(order(w), sorted[i], sorted[j])
  BY <1>4 DEF Sorts
<1>8. /\ rows \in Seq(Q)
      /\ Len(rows) = IF RowLimit <= Len(sorted) THEN RowLimit ELSE Len(sorted)
      /\ \A i \in 1..Len(rows) : i \in 1..Len(sorted) /\ rows[i] = sorted[i]
  BY <1>5, <1>6, <1>7, LimitIsPrefix
<1>9. rows \in Seq(TempRow) /\ Len(rows) \in Nat /\ ToSet(rows) \subseteq Q
  <2>1. rows \in Seq(TempRow)
    BY <1>3, <1>8, SeqMonotonic
  <2> QED
    BY <1>8, <2>1 DEF ToSet
<1>10. ASSUME walkable[c] PROVE Len(rows) <= 1
  <2> SUFFICES ASSUME Len(rows) > 1 PROVE FALSE
    BY <1>9
  <2>1. 1 \in 1..Len(rows) /\ 2 \in 1..Len(rows)
    BY <1>9
  <2> DEFINE a == rows[1]
             b == rows[2]
  <2>2. a \in Q /\ b \in Q
    BY <1>8, <2>1
  <2>3. OrderedBy(order(w), a, b)
    BY <1>7, <1>8, <2>1
  <2> HIDE DEF a, b
  <2>4. a.id = b.id
    <3>1. Walkable(w, list)
      BY <1>10 DEF WalkInv, WalkTrue
    <3>2. Entry(w, a.id).time = Entry(w, b.id).time
      BY <1>3, <2>2
    <3> QED
      BY <1>1, <1>3, <2>2, <3>1, <3>2, TimesDiffer
  <2>5. a = b
    BY <1>3, <2>2, <2>4
  <2> QED
    BY <1>2, <1>3, <2>2, <2>3, <2>5, OrderedByIsStrict
<1>11. ASSUME TiesFit, cursor[c].id \in steady[c] PROVE CursorIn(c, rows)
  <2> DEFINE e == Entry(w, cursor[c].id)
  <2>1. Chosen(c, cursor[c].id) /\ cursor[c] = encodeCursor(w, e) /\ cursor[c].id \in Ids
        /\ list[cursor[c].id] \in Row
    BY <1>1, <1>11, ClientTypes DEF CursorTrue
  <2>2. e \in TempRow /\ e.id = cursor[c].id
    BY <1>2, <2>1, EntryType
  <2>3. e \in baseQuery(c)
    <3>1. cursor[c].id \in Expected(c)
      BY <1>11, <2>1 DEF Expected, Chosen
    <3> QED
      BY <1>1, <3>1, QueryRows
  <2> HIDE DEF e
  <2>4. CursorTime(c) = e.time
    BY <1>2, <2>1, <2>2, EncodedTime DEF CursorTime
  <2>5. e \in Q
    BY <2>3, <2>4 DEF Q, AtCursor, CursorTime
  <2>6. Card <= RowLimit
    <3> DEFINE f == [q \in Q |-> q.id]
               T == Ties(c, CursorTime(c))
    <3>1. f \in [Q -> T]
      BY <1>3 DEF Ties
    <3>2. ASSUME NEW p \in Q, NEW q \in Q, f[p] = f[q] PROVE p = q
      BY <1>3, <3>2
    <3>3. f \in Injection(Q, T)
      BY <3>1, <3>2 DEF Injection, IsInjective
    <3>4. CursorTime(c) \in Times
      BY <1>1, ClientTypes
    <3>5. Cardinality(T) <= RowLimit
      BY <1>11, <3>4 DEF TiesFit
    <3>6. IsFiniteSet(T)
      <4>1. T \subseteq Ids
        BY DEF Ties
      <4> QED
        BY <4>1, IdsAssumption, FS_Subset
    <3> HIDE DEF f, T
    <3>7. Card <= Cardinality(T) /\ Cardinality(T) \in Nat
      BY <3>3, <3>6, FS_Injection, FS_CardinalityType DEF Card
    <3> QED
      BY <1>6, <3>5, <3>7
  <2>7. Len(rows) = Len(sorted)
    BY <1>4, <1>6, <1>8, <2>6
  <2>8. PICK i \in 1..Len(sorted) : sorted[i] = e
    BY <1>4, <2>5 DEF Sorts
  <2>9. i \in DOMAIN rows /\ rows[i].id = cursor[c].id
    BY <1>8, <1>9, <2>2, <2>7, <2>8
  <2> QED
    BY <2>9 DEF CursorIn
<1>12. \A e \in ToSet(rows) : TrueRow(c, e)
  BY <1>3, <1>9
<1> QED
  BY <1>1, <1>9, <1>10, <1>11, <1>12 DEF rows

(* What is left when the rows up to the cursor's are deleted               *)
LEMMA AfterCursorCuts ==
    ASSUME NEW c \in Clients, NEW rows \in Seq(TempRow), CursorIn(c, rows)
    PROVE  LET slots == AfterCursor(c, rows)
           IN /\ slots \in Seq(TempRow \cup {Free}) /\ Len(slots) = Len(rows) /\ FreeFirst(slots)
              /\ Used(slots) \subseteq ToSet(rows)
              /\ Len(rows) <= 1 => slots \in Seq({Free}) /\ Len(slots) = 1
<1> DEFINE I == {i \in 1..Len(rows) : rows[i].id = cursor[c].id}
           n == Min(I)
<1>1. Len(rows) \in Nat /\ DOMAIN rows = 1..Len(rows)
  OBVIOUS
<1>2. I # {} /\ I \subseteq Nat /\ Len(rows) >= 1
  BY <1>1 DEF CursorIn
<1>3. AfterCursor(c, rows) = DeleteUpTo(rows, n)
  BY <1>2 DEF AfterCursor, SelectInSeq
<1>4. n \in I
  <2>1. \E x \in I : \A y \in I : x <= y
    BY <1>2, Least
  <2> HIDE DEF I
  <2> QED
    BY <2>1 DEF Min
<1>5. n \in 1..Len(rows)
  BY <1>4
<1> DEFINE slots == AfterCursor(c, rows)
<1> HIDE DEF I, n
<1>6. /\ slots \in Seq(TempRow \cup {Free}) /\ Len(slots) = Len(rows) /\ FreeFirst(slots)
      /\ Used(slots) \subseteq ToSet(rows)
      /\ \A i \in 1..Len(rows) : slots[i] = Free <=> i <= n
  BY <1>1, <1>3, <1>5, DeleteCuts
<1> HIDE DEF slots
<1>7. ASSUME Len(rows) <= 1 PROVE slots \in Seq({Free}) /\ Len(slots) = 1
  <2> DEFINE l == Len(slots)
  <2>1. l = 1 /\ l \in Nat
    BY <1>1, <1>2, <1>6, <1>7
  <2>2. l \in Nat /\ \A i \in 1..l : slots[i] = Free
    BY <1>1, <1>2, <1>5, <1>6, <1>7
  <2>3. slots = [i \in 1..l |-> slots[i]]
    BY <1>6
  <2> DEFINE F == {Free}
  <2> HIDE DEF l
  <2>4. slots \in [1..l -> F]
    BY <2>2, <2>3
  <2> HIDE DEF F
  <2>5. slots \in Seq(F)
    BY <2>2, <2>4
  <2> QED
    BY <2>1, <2>5 DEF l, F
<1> QED
  BY <1>6, <1>7 DEF slots

-----------------------------------------------------------------------------
(* If times differ, the rows with the time of the cursor never suffice.    *)
LEMMA CollisionsSufficeKeepsWalks ==
    ASSUME WalkInv, NEW c \in Clients, CollisionsSuffice(c)
    PROVE  WalkInv'
<1> DEFINE rows == Collisions(c)
           slots == AfterCursor(c, rows)
<1>1. /\ pc[c] = "collisions" /\ CursorIn(c, rows) /\ Answer(c, slots)
      /\ Len(Scan(slots)) > pageSize(c)
  BY DEF CollisionsSuffice
<1>2. /\ rows \in Seq(TempRow) /\ \A e \in ToSet(rows) : TrueRow(c, e)
      /\ walkable[c] => Len(rows) <= 1
  BY <1>1, CollisionRows
<1> HIDE DEF rows
<1>3. /\ slots \in Seq(TempRow \cup {Free}) /\ FreeFirst(slots) /\ Used(slots) \subseteq ToSet(rows)
      /\ Len(rows) <= 1 => slots \in Seq({Free})
  BY <1>1, <1>2, AfterCursorCuts
<1> HIDE DEF slots
<1>4. ~walkable[c]
  <2> SUFFICES ASSUME walkable[c] PROVE FALSE
    OBVIOUS
  <2>1. Len(Scan(slots)) = 0
    BY <1>2, <1>3, Rowless
  <2>2. pageSize(c) \in Nat
    BY ClientTypes, WalkTypes DEF WalkInv, pageSize
  <2> QED
    BY <1>1, <2>1, <2>2
<1>5. \A e \in Used(slots) : TrueRow(c, e)
  BY <1>2, <1>3
<1> QED
  BY <1>1, <1>3, <1>4, <1>5, AnswerKeepsWalks

(* What is kept for the last query are rows with the time of the cursor.   *)
LEMMA KeepRowsKeepsWalks ==
    ASSUME WalkInv, NEW c \in Clients, CollisionsDoNotSuffice(c)
    PROVE  WalkInv'
<1> DEFINE rows == Collisions(c)
           slots == AfterCursor(c, rows)
<1>1. /\ pc[c] = "collisions" /\ CursorIn(c, rows) /\ SetTable(c, "list", slots)
      /\ Len(Scan(slots)) <= pageSize(c)
      /\ pc' = [pc EXCEPT ![c] = "rest"]
      /\ UNCHANGED <<list, conn, walk, cursor, ended, visited, steady, walkable>>
  BY DEF CollisionsDoNotSuffice, Goto
<1>2. Inv /\ Inv' /\ Typed /\ TablesTrue(c)
  BY PageKeepsInv DEF WalkInv
<1>3. /\ rows \in Seq(TempRow) /\ \A e \in ToSet(rows) : TrueRow(c, e)
      /\ walkable[c] => Len(rows) <= 1
  BY <1>1, CollisionRows
<1> HIDE DEF rows
<1>4. /\ slots \in Seq(TempRow \cup {Free}) /\ FreeFirst(slots) /\ Used(slots) \subseteq ToSet(rows)
      /\ Len(rows) <= 1 => slots \in Seq({Free}) /\ Len(slots) = 1
  BY <1>1, <1>3, AfterCursorCuts
<1> HIDE DEF slots
<1>5. pc'[c] = "rest" /\ \A d \in Clients : d # c => pc'[d] = pc[d]
  BY <1>1, <1>2 DEF Inv, OneConnection
<1>6. /\ \A k \in Connections : k # conn[c] => tables'[k] = tables[k]
      /\ tables'[conn[c]]["list"] = slots
      /\ \A other \in {"highlights", "tags"} : tables'[conn[c]][other] = tables[conn[c]][other]
  BY <1>1, <1>2, TableSet
<1>7. Typed'
  <2>1. slots \in TableType
    BY <1>4 DEF TableType, Optional
  <2> QED
    BY <1>1, <1>2, <1>6, <2>1 DEF Typed
<1>8. TablesTrue(c)'
  <2>1. \A i : Chosen(c, i)' <=> Chosen(c, i)
    BY <1>1 DEF Chosen
  <2>2. \A e : TrueRow(c, e)' <=> TrueRow(c, e)
    BY <1>1, <2>1 DEF TrueRow, Entry, column
  <2>3. Kept(c)' = slots /\ pageSize(c)' = pageSize(c)
    BY <1>1, <1>6 DEF Kept, pageSize
  <2>4. \A e \in Used(slots) : TrueRow(c, e)
    BY <1>3, <1>4
  <2>5. (pc[c] = "rest" =>
          /\ Kept(c) \in Seq(TempRow \cup {Free}) /\ FreeFirst(Kept(c))
          /\ Len(Scan(Kept(c))) <= pageSize(c)
          /\ \A e \in Used(Kept(c)) : TrueRow(c, e)
          /\ walkable[c] => Kept(c) \in Seq({Free}) /\ Len(Kept(c)) = 1)'
    BY <1>1, <1>3, <1>4, <2>2, <2>3, <2>4
  <2> QED
    BY <1>1, <1>2, <1>5, <1>6, <2>1, <2>5 DEF TablesTrue
<1> QED
  BY <1>1, <1>2, <1>5, <1>6, <1>7, <1>8, StatementMoves

(* A walk ends because its cursor is lost.                                 *)
LEMMA CursorNotFoundKeepsWalks ==
    ASSUME WalkInv, NEW c \in Clients, CursorNotFound(c)
    PROVE  WalkInv'
<1> DEFINE rows == Collisions(c)
<1>1. /\ pc[c] = "collisions" /\ ~CursorIn(c, rows) /\ SetTable(c, "list", rows)
      /\ pc' = [pc EXCEPT ![c] = "idle"]
      /\ conn' = [conn EXCEPT ![c] = Null]
      /\ ended' = [ended EXCEPT ![c] = "cursorNotFound"]
      /\ UNCHANGED <<list, walk, cursor, visited, steady, walkable>>
  BY DEF CursorNotFound, End, Goto, Release
<1>2. Inv /\ Inv' /\ Typed /\ CursorTrue(c) /\ (walkable[c] => WalkTrue(c))
  BY PageKeepsInv DEF WalkInv
<1>3. rows \in Seq(TempRow)
  BY <1>1, CollisionRows
<1> HIDE DEF rows
<1>4. /\ pc'[c] = "idle" /\ ended'[c] = "cursorNotFound"
      /\ \A d \in Clients : d # c => pc'[d] = pc[d] /\ conn'[d] = conn[d] /\ ended'[d] = ended[d]
  BY <1>1, <1>2 DEF Inv, OneConnection, Typed
<1>5. /\ \A k \in Connections : k # conn[c] => tables'[k] = tables[k]
      /\ tables'[conn[c]]["list"] = rows
      /\ \A other \in {"highlights", "tags"} : tables'[conn[c]][other] = tables[conn[c]][other]
  BY <1>1, <1>2, TableSet
<1>6. Typed'
  <2>1. rows \in TableType
    BY <1>3, SeqMonotonic DEF TableType, Optional
  <2> QED
    BY <1>1, <1>2, <1>5, <2>1 DEF Typed, Outcomes
<1>7. TablesTrue(c)'
  BY <1>4 DEF TablesTrue
<1>8. CursorTrue(c)'
  BY <1>1, <1>2, CursorStays
<1>9. walkable'[c] => WalkTrue(c)'
  BY <1>1, <1>2, <1>4, WalkStays
<1> QED
  BY <1>1, <1>2, <1>4, <1>5, <1>6, <1>7, <1>8, <1>9, OneMoves

(* The rest of a page is beyond the cursor.                                *)
LEMMA RestKeepsWalks ==
    ASSUME WalkInv, NEW c \in Clients, RestOfPage(c)
    PROVE  WalkInv'
<1> DEFINE kept == Kept(c)
           missing == pageSize(c) + 1 - Len(Scan(kept))
           R == {e \in baseQuery(c) : BeyondCursor(c, e)}
           rows == Limit(Fetched(c, R), missing)
           slots == Insert(kept, rows)
<1>1. pc[c] = "rest" /\ Answer(c, slots)
  BY DEF RestOfPage, Kept
<1>2. Typed /\ TablesTrue(c) /\ CursorTrue(c)
  BY DEF WalkInv
<1>3. /\ kept \in Seq(TempRow \cup {Free}) /\ FreeFirst(kept)
      /\ Len(Scan(kept)) <= pageSize(c)
      /\ \A e \in Used(kept) : TrueRow(c, e)
      /\ walkable[c] => kept \in Seq({Free}) /\ Len(kept) = 1
      /\ cursor[c] # Null
  BY <1>1, <1>2 DEF TablesTrue
<1>4. pageSize(c) \in Nat /\ pageSize(c) = walk[c].size
  BY <1>2, ClientTypes, WalkTypes DEF pageSize
<1> HIDE DEF kept
<1>5. Len(Scan(kept)) \in Nat
  <2> DEFINE s == Scan(kept)
  <2>1. s \in Seq(Used(kept))
    BY <1>3, ScanReads
  <2> HIDE DEF s
  <2>2. Len(s) \in Nat
    BY <2>1
  <2> QED
    BY <2>2 DEF s
<1>6. missing \in Nat
  BY <1>3, <1>4, <1>5
<1>7. walkable[c] => missing = walk[c].size + 1
  BY <1>3, <1>4, Rowless
<1> HIDE DEF missing
<1>8. R \subseteq baseQuery(c) /\ \A e \in R : TrueRow(c, e)
  BY <1>1, <1>2, QueryRows
<1>9. walkable[c] => rows = Limit(OrderBy(Unvisited(c), order(walk[c])), walk[c].size + 1)
  <2>1. R = Unvisited(c)
    BY <1>3 DEF Unvisited
  <2> QED
    BY <1>7, <2>1 DEF Fetched
<1> HIDE DEF R
<1>10. rows \in Seq(R) /\ rows \in Seq(TempRow)
  <2>1. pc[c] \in {"page", "collisions", "rest"}
    BY <1>1
  <2> QED
    BY <1>2, <1>6, <1>8, <2>1, FetchedRows
<1> HIDE DEF rows
<1>11. slots \in Seq(TempRow \cup {Free}) /\ FreeFirst(slots)
       /\ Used(slots) \subseteq Used(kept) \cup ToSet(rows)
  BY <1>3, <1>10, InsertAdds
<1>12. \A e \in Used(slots) : TrueRow(c, e)
  <2>1. ToSet(rows) \subseteq R
    BY <1>10 DEF ToSet
  <2> QED
    BY <1>3, <1>8, <1>11, <2>1
<1>13. ASSUME walkable[c] PROVE Scan(slots) = rows
  <2>1. kept \in Seq({Free})
    BY <1>3, <1>13
  <2>2. Len(kept) = 1
    BY <1>3, <1>13
  <2>3. Len(kept) <= 1
    BY <2>2
  <2> QED
    BY <1>10, <2>1, <2>3, InsertKeepsOrder
<1> HIDE DEF slots
<1>14. walkable[c] => Scan(slots) = Limit(OrderBy(Unvisited(c), order(walk[c])), walk[c].size + 1)
  BY <1>9, <1>13
<1> QED
  BY <1>1, <1>11, <1>12, <1>14, AnswerKeepsWalks

-----------------------------------------------------------------------------
(* A change of one save: what walks know of the others stays true.         *)
LEMMA ChangeKeepsWalks ==
    ASSUME WalkInv, NEW i \in Ids, NEW row \in Row, Change(i, row)
    PROVE  WalkInv'
<1>1. Inv /\ Typed
  BY DEF WalkInv
<1>2. /\ list' = [list EXCEPT ![i] = row]
      /\ steady' = [c \in Clients |-> steady[c] \ {i}]
      /\ walkable' = [c \in Clients |-> walkable[c] /\ Walkable(walk[c], list')]
      /\ UNCHANGED <<tables, conn, pc, walk, cursor, ended, visited>>
  BY DEF Change
<1>3. Inv'
  BY <1>1, <1>2 DEF Inv, HasTables, OneConnection, NotShared, NotMadeYet
<1>4. Typed'
  <2>1. list' \in [Ids -> Optional(Row)]
    BY <1>1, <1>2 DEF Typed, Optional
  <2>2. steady' \in [Clients -> SUBSET Ids] /\ walkable' \in [Clients -> BOOLEAN]
    BY <1>1, <1>2 DEF Typed
  <2> QED
    BY <1>1, <1>2, <2>1, <2>2 DEF Typed
<1>5. ASSUME NEW c \in Clients
      PROVE  TablesTrue(c)' /\ CursorTrue(c)' /\ (walkable'[c] => WalkTrue(c)')
  <2> DEFINE w == walk[c]
  <2>1. TablesTrue(c) /\ CursorTrue(c) /\ (walkable[c] => WalkTrue(c))
    BY DEF WalkInv
  <2>2. /\ steady'[c] = steady[c] \ {i} /\ steady[c] \subseteq Ids
        /\ walkable'[c] => walkable[c] /\ Walkable(w, list')
    BY <1>1, <1>2, ClientTypes
  <2>3. \A j \in steady'[c] : j \in steady[c] /\ j # i /\ list'[j] = list[j]
    BY <1>1, <1>2, <2>2 DEF Typed
  <2>4. \A j \in steady'[c] : Entry(w, j)' = Entry(w, j) /\ (Chosen(c, j)' <=> Chosen(c, j))
    BY <1>2, <2>3 DEF Entry, Chosen
  <2>5. \A e : TrueRow(c, e) => TrueRow(c, e)'
    BY <1>2, <2>3 DEF TrueRow, Entry, Chosen
  <2>6. TablesTrue(c)'
    <3>1. Kept(c)' = Kept(c) /\ pageSize(c)' = pageSize(c)
      BY <1>2 DEF Kept, pageSize
    <3>2. pc[c] \in {"tags", "page", "collisions", "rest"} /\ walk[c].filter.isHighlighted # Null =>
             \A j \in steady'[c] : j \in tables[conn[c]].highlights <=> list'[j].highlighted
      BY <2>1, <2>3 DEF TablesTrue
    <3>3. pc[c] \in {"page", "collisions", "rest"} /\ walk[c].filter.tagNames # {} =>
             \A j \in steady'[c] : j \in tables[conn[c]].tags <=> Chosen(c, j)'
      BY <2>1, <2>3, <2>4 DEF TablesTrue
    <3>4. pc[c] = "rest" => \A e \in Used(Kept(c)) : TrueRow(c, e)'
      BY <2>1, <2>5 DEF TablesTrue
    <3> QED
      BY <1>2, <2>1, <2>2, <3>1, <3>2, <3>3, <3>4 DEF TablesTrue
  <2>7. CursorTrue(c)'
    <3>1. (\A j \in steady[c] : list[j] # Null)'
      BY <2>1, <2>3 DEF CursorTrue
    <3>2. (cursor[c] # Null /\ cursor[c].id \in steady[c] =>
              /\ Chosen(c, cursor[c].id)
              /\ cursor[c] = encodeCursor(walk[c], Entry(walk[c], cursor[c].id)))'
      BY <1>2, <2>1, <2>3 DEF CursorTrue, Chosen, Entry
    <3> QED
      BY <3>1, <3>2 DEF CursorTrue
  <2>8. ASSUME walkable'[c] PROVE WalkTrue(c)'
    <3>1. WalkTrue(c)
      BY <2>1, <2>2, <2>8
    <3>2. \A j : j \in Expected(c)' <=> j \in Expected(c) /\ j # i
      BY <1>2, <2>2, <2>3 DEF Expected
    <3>3. \A j \in Expected(c)' : j \in steady'[c] /\ (Reached(c, j)' <=> Reached(c, j))
      BY <1>2, <2>3 DEF Expected, Reached, CursorTime, Entry, order, opposite
    <3>4. \A j, k \in steady'[c] : ComesFirst(c, j, k)' <=> ComesFirst(c, j, k)
      BY <1>2, <2>3 DEF ComesFirst, Precedes, Entry
    <3>5. Walkable(walk[c], list)'
      BY <1>2, <2>2, <2>8 DEF Walkable
    <3>6. (cursor[c] # Null /\ cursor[c].time = Null => order(walk[c]) = "desc")'
      BY <1>2, <3>1 DEF WalkTrue
    <3>7. (ToSet(visited[c]) \cap steady[c] \subseteq Expected(c))'
      BY <1>2, <2>3, <3>1, <3>2 DEF WalkTrue
    <3>8. (\A j \in Expected(c) : j \in ToSet(visited[c]) <=> Reached(c, j))'
      BY <1>2, <3>1, <3>2, <3>3 DEF WalkTrue
    <3>9. (\A p, q \in DOMAIN visited[c] :
              p < q /\ {visited[c][p], visited[c][q]} \subseteq steady[c]
                  => ComesFirst(c, visited[c][p], visited[c][q]))'
      BY <1>2, <2>3, <3>1, <3>4 DEF WalkTrue, ComesFirst, Precedes, Entry
    <3>10. (ended[c] = "done" => Expected(c) \subseteq ToSet(visited[c]))'
      BY <1>2, <3>1, <3>2 DEF WalkTrue
    <3> QED
      BY <3>5, <3>6, <3>7, <3>8, <3>9, <3>10 DEF WalkTrue
  <2> QED
    BY <2>6, <2>7, <2>8
<1> QED
  BY <1>3, <1>4, <1>5 DEF WalkInv

(* What other requests do is such a change.                                *)
LEMMA OthersKeepWalks ==
    ASSUME WalkInv, NEW i \in Ids, \/ AddSave(i) \/ Archive(i) \/ \E name \in Names : Tag(i, name)
    PROVE  WalkInv'
<1>1. list[i] # Null => list[i] \in Row
  BY DEF WalkInv, Typed, Optional
<1>2. CASE AddSave(i)
  <2> DEFINE row == [time_added |-> Now, time_updated |-> Now, time_read |-> 0, time_favorited |-> 0,
                     status |-> "UNREAD", favorite |-> FALSE, tags |-> {}, highlighted |-> FALSE,
                     content |-> Null]
  <2>1. Change(i, row) /\ Now \in Times
    BY <1>2 DEF AddSave, Change
  <2>2. row \in Row
    BY <2>1, TimesAssumption DEF Row, Statuses
  <2> QED
    BY <2>1, <2>2, ChangeKeepsWalks
<1>3. CASE Archive(i)
  <2> DEFINE row == [list[i] EXCEPT !.status = "ARCHIVED", !.time_read = Now, !.time_updated = Now]
  <2>1. Change(i, row) /\ Now \in Times /\ list[i] \in Row
    BY <1>1, <1>3 DEF Archive, Change
  <2>2. row \in Row
    BY <2>1 DEF Row, Statuses
  <2> QED
    BY <2>1, <2>2, ChangeKeepsWalks
<1>4. ASSUME NEW name \in Names, Tag(i, name) PROVE WalkInv'
  <2> DEFINE row == [list[i] EXCEPT !.tags = @ \cup {name}, !.time_updated = Now]
  <2>1. Change(i, row) /\ Now \in Times /\ list[i] \in Row
    BY <1>1, <1>4 DEF Tag, Change
  <2>2. row \in Row
    BY <2>1 DEF Row
  <2> QED
    BY <2>1, <2>2, ChangeKeepsWalks
<1> QED
  BY <1>2, <1>3, <1>4

-----------------------------------------------------------------------------
(* At first there is no walk.                                              *)
LEMMA InitiallyNoWalk == Init => WalkInv
<1> SUFFICES ASSUME Init PROVE WalkInv
  OBVIOUS
<1>1. Typed
  BY InitialListsAssumption, NullAssumption DEF Init, Typed, NoTables, TableType, Optional, Outcomes
<1>2. ASSUME NEW c \in Clients
      PROVE  TablesTrue(c) /\ CursorTrue(c) /\ ~walkable[c]
  BY DEF Init, TablesTrue, CursorTrue
<1> QED
  BY <1>1, <1>2, Initially DEF WalkInv

(* Nothing happens.                                                        *)
LEMMA StutterKeepsWalks ==
    ASSUME WalkInv, UNCHANGED vars
    PROVE  WalkInv'
<1>1. UNCHANGED <<list, tables, conn, pc, walk, cursor, ended, visited, steady, walkable>>
  BY DEF vars, clientVars
<1>2. Inv' /\ Typed'
  BY <1>1 DEF WalkInv, Inv, HasTables, OneConnection, NotShared, NotMadeYet, Typed
<1>3. ASSUME NEW c \in Clients PROVE TablesTrue(c)' /\ CursorTrue(c)' /\ (walkable'[c] => WalkTrue(c)')
  BY <1>1, TablesStay, CursorStays, WalkStays DEF WalkInv
<1> QED
  BY <1>2, <1>3 DEF WalkInv

(* The invariant is inductive: one case per kind of step.                  *)
LEMMA StepKeepsWalks ==
    ASSUME WalkInv, [Next]_vars
    PROVE  WalkInv'
<1>1. ASSUME NEW c \in Clients, Statement(c) PROVE WalkInv'
  BY <1>1, AcquireKeepsWalks, DropKeepsWalks, CreateListKeepsWalks, HighlightsKeepWalks,
     TagsKeepWalks, FirstPageKeepsWalks, CollisionsSufficeKeepsWalks, KeepRowsKeepsWalks,
     CursorNotFoundKeepsWalks, RestKeepsWalks DEF Statement
<1> QED
  BY <1>1, BeginKeepsWalks, FailKeepsWalks, OthersKeepWalks, StutterKeepsWalks DEF Next

(* The invariant holds in every state of the system.                       *)
LEMMA SpecKeepsWalks == Spec => []WalkInv
BY InitiallyNoWalk, StepKeepsWalks, PTL DEF Spec

-----------------------------------------------------------------------------
(* Every variable has its type, whatever the list, the walks and the       *)
(* number of clients and connections.                                      *)
THEOREM TypeCorrect == Spec => []TypeOK
<1>1. WalkInv => TypeOK
  <2> SUFFICES ASSUME WalkInv PROVE TypeOK
    OBVIOUS
  <2>1. Typed /\ OneConnection
    BY DEF WalkInv, Inv
  <2>2. ASSUME NEW k \in Connections, tables[k].list # Null, NEW i \in DOMAIN tables[k].list
        PROVE  tables[k].list[i] \in TempRow \cup {Free}
    <3>1. tables[k].list \in Seq(TempRow \cup {Free})
      BY <2>1, <2>2 DEF Typed, TableType, Optional
    <3> QED
      BY <2>2, <3>1
  <2>3. \A k \in Connections :
           /\ tables[k].highlights = Null \/ tables[k].highlights \subseteq Ids
           /\ tables[k].tags = Null \/ tables[k].tags \subseteq Ids
    BY <2>1 DEF Typed, Optional
  <2>4. \A c \in Clients : \A i \in DOMAIN visited[c] : visited[c][i] \in Ids
    BY <2>1 DEF Typed
  <2>5. \A c \in Clients : cursor[c] # Null => cursor[c] \in [id : Ids, time : Times \cup {Null}]
    BY <2>1 DEF Typed, CursorType, Optional
  <2> QED
    BY <2>1, <2>2, <2>3, <2>4, <2>5 DEF TypeOK, Typed, OneConnection, Optional, Outcomes
<1> QED
  BY <1>1, SpecKeepsWalks, PTL

(* A walk that goes by times that all differ visits the saves that do not  *)
(* change in order, each one once, without a gap, and at its end it has    *)
(* visited them all: from either end, in both directions, with every page  *)
(* size and filter, whatever other requests add, archive and tag.          *)
THEOREM WalksInOrder == Spec => []WalksVisitInOrderIfWalkable
<1>1. WalkInv => WalksVisitInOrderIfWalkable
  <2> SUFFICES ASSUME WalkInv, NEW c \in Clients, walkable[c] PROVE VisitsInOrder(c)
    BY DEF WalksVisitInOrderIfWalkable
  <2>1. Typed /\ CursorTrue(c) /\ WalkTrue(c)
    BY DEF WalkInv
  <2>2. ASSUME NEW i \in Expected(c), NEW j \in Expected(c), j \in ToSet(visited[c]), ComesFirst(c, i, j)
        PROVE  i \in ToSet(visited[c])
    <3> DEFINE o == order(walk[c])
               t(k) == Entry(walk[c], k).time
    <3>1. /\ i \in Ids /\ j \in Ids /\ list[i] # Null /\ list[j] # Null
          /\ list[i] \in Row /\ list[j] \in Row /\ walk[c] \in Walk /\ o \in {"asc", "desc"}
      BY <2>1, ClientTypes, WalkTypes DEF Expected, CursorTrue, Directions
    <3>2. cursor[c] # Null /\ ~After(o, CursorTime(c), t(j)) /\ CursorTime(c) \in Nat
      BY <2>1, <2>2, ClientTypes, TimesAssumption DEF WalkTrue, Reached
    <3>3. t(i) \in Nat /\ t(j) \in Nat
      BY <3>1, EntryType, TimesAssumption DEF TempRow
    <3>4. ~After(o, CursorTime(c), t(i))
      <4>1. CASE t(i) = t(j)
        BY <3>2, <4>1
      <4>2. CASE t(i) # t(j)
        <5>1. After(o, t(i), t(j))
          BY <2>1, <2>2, <3>1, <4>2, FirstInTime
        <5> QED
          BY <3>1, <3>2, <3>3, <5>1 DEF After
      <4> QED
        BY <4>1, <4>2
    <3> QED
      BY <2>1, <3>2, <3>4 DEF WalkTrue, Reached
  <2> QED
    BY <2>1, <2>2 DEF WalkTrue, VisitsInOrder
<1> QED
  BY <1>1, SpecKeepsWalks, PTL

(* What becomes of a walk that has ended in "Cursor not found"             *)
LEMMA LostStays ==
    ASSUME WalkInv, TiesFit, CursorLostOnlyByChange, [Next]_vars
    PROVE  CursorLostOnlyByChange'
<1> SUFFICES ASSUME NEW c \in Clients, ended'[c] = "cursorNotFound" PROVE cursor'[c].id \notin steady'[c]
  BY DEF CursorLostOnlyByChange
<1>1. Typed
  BY DEF WalkInv
<1>2. ASSUME ended'[c] = ended[c], cursor'[c] = cursor[c], steady'[c] \subseteq steady[c]
      PROVE  cursor'[c].id \notin steady'[c]
  BY <1>2 DEF CursorLostOnlyByChange
<1>3. ASSUME NEW d \in Clients, Begin(d) PROVE cursor'[c].id \notin steady'[c]
  <2>1. d # c
    BY <1>1, <1>3 DEF Begin, Typed
  <2> QED
    BY <1>1, <1>2, <1>3, <2>1 DEF Begin, Typed
<1>4. ASSUME NEW d \in Clients, Fail(d) PROVE cursor'[c].id \notin steady'[c]
  BY <1>1, <1>2, <1>4 DEF Fail, End, Typed
<1>5. ASSUME NEW d \in Clients, CursorNotFound(d) PROVE cursor'[c].id \notin steady'[c]
  <2>1. UNCHANGED <<cursor, steady>> /\ ended' = [ended EXCEPT ![d] = "cursorNotFound"]
    BY <1>5 DEF CursorNotFound, End
  <2>2. CASE d = c
    BY <1>5, <2>1, <2>2, CollisionRows DEF CursorNotFound
  <2>3. CASE d # c
    BY <1>1, <1>2, <2>1, <2>3 DEF Typed
  <2> QED
    BY <2>2, <2>3
<1>6. ASSUME NEW d \in Clients, pc[d] # "idle", NEW slots, Answer(d, slots)
      PROVE  cursor'[c].id \notin steady'[c]
  <2>1. /\ \/ cursor' = cursor
           \/ \E k : cursor' = [cursor EXCEPT ![d] = k]
        /\ ended' = ended \/ ended' = [ended EXCEPT ![d] = "done"]
        /\ steady' = steady
    BY <1>6 DEF Answer, Deliver, End
  <2>2. d # c
    BY <1>1, <1>6, <2>1 DEF Typed, WalkInv, TablesTrue
  <2> QED
    BY <1>1, <1>2, <2>1, <2>2 DEF Typed
<1>7. ASSUME NEW d \in Clients, pageFirstLast(d) \/ CollisionsSuffice(d) \/ RestOfPage(d)
      PROVE  cursor'[c].id \notin steady'[c]
  <2>1. pc[d] # "idle" /\ \E slots : Answer(d, slots)
    BY <1>7 DEF pageFirstLast, CollisionsSuffice, RestOfPage
  <2> QED
    BY <1>6, <2>1
<1>8. ASSUME NEW d \in Clients,
             \/ AcquireConnection(d) \/ dropTempTables(d) \/ listTempTableQuery(d)
             \/ isHighlightedFilter(d) \/ tagsTempTable(d) \/ CollisionsDoNotSuffice(d)
      PROVE  cursor'[c].id \notin steady'[c]
  BY <1>2, <1>8 DEF AcquireConnection, dropTempTables, listTempTableQuery, isHighlightedFilter,
                    tagsTempTable, CollisionsDoNotSuffice
<1>9. ASSUME NEW i \in Ids, AddSave(i) \/ Archive(i) \/ \E name \in Names : Tag(i, name)
      PROVE  cursor'[c].id \notin steady'[c]
  <2>1. UNCHANGED <<cursor, ended>> /\ steady' = [d \in Clients |-> steady[d] \ {i}]
    BY <1>9 DEF AddSave, Archive, Tag, Change
  <2> QED
    BY <1>2, <2>1
<1>10. CASE UNCHANGED vars
  BY <1>2, <1>10 DEF vars, clientVars
<1> QED
  BY <1>3, <1>4, <1>5, <1>7, <1>8, <1>9, <1>10 DEF Next, Statement

(* A client is told "Cursor not found" only if the save of its cursor has  *)
(* changed since its walk began, as long as there are never more saves     *)
(* with one time than the LIMIT on the rows with the time of the cursor.   *)
THEOREM CursorNotLost == Spec /\ []TiesFit => []CursorLostOnlyByChange
<1>1. Init => CursorLostOnlyByChange
  BY DEF Init, CursorLostOnlyByChange
<1> QED
  BY <1>1, LostStays, SpecKeepsWalks, PTL DEF Spec
=============================================================================
