-------------------------- MODULE SavedItems_proofs --------------------------
(***************************************************************************)
(* What holds of SavedItems for every set of saves, every number of        *)
(* overlapping requests and every set of mutations; at the end, what needs *)
(* mutations that do not overlap, and says so as an assumption.            *)
(***************************************************************************)
EXTENDS SavedItems, TLAPS

-----------------------------------------------------------------------------
(* The rows the transactions write *)

(* Every UPDATE gives a row of the table a row of the table. *)
LEMMA WritesTyped ==
    ASSUME NEW row \in Row, NEW ts \in Times
    PROVE  /\ \A b \in BOOLEAN : WithFavorite(row, b, ts) \in Row
           /\ \A b \in BOOLEAN : WithArchived(row, b, ts) \in Row
           /\ WithDeleted(row) \in Row
           /\ \A t : WithUndeleted(row, t) \in Row
           /\ \A op \in Batch : BatchRow(op, row, ts) \in Row
<1>1. ts \in Dates /\ ZeroDate \in Dates
  BY DEF Dates
<1>2. /\ \A b \in BOOLEAN : WithFavorite(row, b, ts) \in Row
      /\ \A b \in BOOLEAN : WithArchived(row, b, ts) \in Row
      /\ WithDeleted(row) \in Row
      /\ \A t : WithUndeleted(row, t) \in Row
  BY <1>1 DEF WithFavorite, WithArchived, WithDeleted, WithUndeleted, Row, Statuses
<1>3. /\ archiveListRow(row, ts) \in Row
      /\ unArchiveListRow(row, ts) \in Row
      /\ favoriteListRow(row, ts) \in Row
      /\ unFavoriteListRow(row, ts) \in Row
  BY <1>1 DEF archiveListRow, unArchiveListRow, favoriteListRow, unFavoriteListRow, Row, Statuses
<1>4. ASSUME NEW op \in Batch PROVE BatchRow(op, row, ts) \in Row
  BY <1>3 DEF BatchRow, Batch
<1> QED BY <1>2, <1>4

(* The row an upsert leaves is a row too. *)
LEMMA UpsertTyped ==
    ASSUME NEW ts \in Times, NEW b \in BOOLEAN
    PROVE  UpsertedRow(b, ts) \in Row
BY DEF UpsertedRow, Row, Statuses, Dates

(* The invariant of favorite and time_favorited, for one row. *)
FavoriteTime(row) == row.favorite <=> row.time_favorited # ZeroDate

(* Every writer of the table keeps favorite and time_favorited in step. *)
LEMMA WritesKeepFavoriteTime ==
    ASSUME NEW row \in Row, NEW ts \in Times, FavoriteTime(row)
    PROVE  /\ \A b \in BOOLEAN : FavoriteTime(WithFavorite(row, b, ts))
           /\ \A b \in BOOLEAN : FavoriteTime(WithArchived(row, b, ts))
           /\ FavoriteTime(WithDeleted(row))
           /\ \A t : FavoriteTime(WithUndeleted(row, t))
           /\ \A op \in Batch : FavoriteTime(BatchRow(op, row, ts))
<1>1. ts # ZeroDate
  BY TimesAssumption DEF ZeroDate
<1>2. /\ \A b \in BOOLEAN : FavoriteTime(WithFavorite(row, b, ts))
      /\ \A b \in BOOLEAN : FavoriteTime(WithArchived(row, b, ts))
      /\ FavoriteTime(WithDeleted(row))
      /\ \A t : FavoriteTime(WithUndeleted(row, t))
  BY <1>1 DEF WithFavorite, WithArchived, WithDeleted, WithUndeleted, Row, FavoriteTime
<1>3. /\ FavoriteTime(archiveListRow(row, ts))
      /\ FavoriteTime(unArchiveListRow(row, ts))
      /\ FavoriteTime(favoriteListRow(row, ts))
      /\ FavoriteTime(unFavoriteListRow(row, ts))
  BY <1>1 DEF archiveListRow, unArchiveListRow, favoriteListRow, unFavoriteListRow, Row, FavoriteTime
<1>4. ASSUME NEW op \in Batch PROVE FavoriteTime(BatchRow(op, row, ts))
  BY <1>3 DEF BatchRow, Batch
<1> QED BY <1>2, <1>4

(* The upsert writes both columns from the same flag. *)
LEMMA UpsertKeepsFavoriteTime ==
    ASSUME NEW ts \in Times, NEW b \in BOOLEAN
    PROVE  FavoriteTime(UpsertedRow(b, ts))
BY TimesAssumption DEF UpsertedRow, FavoriteTime, ZeroDate

(* What the type invariant says of the arguments of a running request. *)
LEMMA InputTyped ==
    ASSUME TypeOK, NEW r \in Requests, pc[r] # "idle"
    PROVE  /\ input[r] \in Input
           /\ input[r].op \in Ops
           /\ input[r].saves \subseteq Saves
           /\ input[r].saves # {}
           /\ input[r].ts \in Times
           /\ input[r].isFavorite \in BOOLEAN
           /\ input[r].op \notin Batch => \E s \in Saves : input[r].saves = {s}
BY DEF TypeOK, Input

-----------------------------------------------------------------------------
(* What a commit may do to the table: every row that it changes or inserts *)
(* is a row, and one whose favorite columns agree if they did before.      *)
LEMMA CommitWrites ==
    ASSUME TypeOK, NEW r \in Requests, Commit(r)
    PROVE  /\ list' \in [Saves -> Row \cup {NoRow}]
           /\ \A s \in Saves :
                \/ list'[s] = list[s]
                \/ /\ list'[s] \in Row
                   /\ (list[s] # NoRow => FavoriteTime(list[s])) => FavoriteTime(list'[s])
<1>1. /\ pc[r] = "write"
      /\ input[r].saves \subseteq Saves
      /\ input[r].ts \in Times
      /\ input[r].isFavorite \in BOOLEAN
  BY InputTyped DEF Commit, CommitUpsert, CommitFavorite, CommitArchive, CommitDelete,
     CommitUndelete, CommitBatch, BatchMissesId, Committed, At
<1>2. /\ list \in [Saves -> Row \cup {NoRow}]
      /\ \A s \in Saves : list[s] # NoRow => list[s] \in Row
  BY DEF TypeOK
<1>3. CASE CommitUpsert(r)
  <2>1. FavoriteToWrite(r) \in BOOLEAN
    BY <1>1 DEF FavoriteToWrite, TypeOK, Row
  <2>2. /\ UpsertedRow(FavoriteToWrite(r), input[r].ts) \in Row
        /\ FavoriteTime(UpsertedRow(FavoriteToWrite(r), input[r].ts))
    BY <1>1, <2>1, UpsertTyped, UpsertKeepsFavoriteTime
  <2> QED BY <1>2, <1>3, <2>2 DEF CommitUpsert
<1>4. CASE CommitFavorite(r)
  <2> PICK op \in {"favorite", "unfavorite"} :
        list' = Updated(input[r].saves,
                        LAMBDA row : WithFavorite(row, op = "favorite", input[r].ts))
    BY <1>4 DEF CommitFavorite
  <2>1. \A row \in Row :
            /\ WithFavorite(row, op = "favorite", input[r].ts) \in Row
            /\ FavoriteTime(row) => FavoriteTime(WithFavorite(row, op = "favorite", input[r].ts))
    BY <1>1, WritesTyped, WritesKeepFavoriteTime
  <2> QED BY <1>2, <2>1 DEF Updated
<1>5. CASE CommitArchive(r)
  <2> PICK op \in {"archive", "unarchive"} :
        list' = Updated(input[r].saves,
                        LAMBDA row : WithArchived(row, op = "archive", input[r].ts))
    BY <1>5 DEF CommitArchive
  <2>1. \A row \in Row :
            /\ WithArchived(row, op = "archive", input[r].ts) \in Row
            /\ FavoriteTime(row) => FavoriteTime(WithArchived(row, op = "archive", input[r].ts))
    BY <1>1, WritesTyped, WritesKeepFavoriteTime
  <2> QED BY <1>2, <2>1 DEF Updated
<1>6. CASE CommitDelete(r)
  <2>1. \A row \in Row : /\ WithDeleted(row) \in Row
                         /\ FavoriteTime(row) => FavoriteTime(WithDeleted(row))
    BY <1>1, WritesTyped, WritesKeepFavoriteTime
  <2> QED BY <1>2, <1>6, <2>1 DEF CommitDelete, Updated
<1>7. CASE CommitUndelete(r)
  <2> DEFINE New(row) == WithUndeleted(row, seen[r].time_read)
  <2>1. \A row \in Row : New(row) \in Row /\ (FavoriteTime(row) => FavoriteTime(New(row)))
    BY <1>1, WritesTyped, WritesKeepFavoriteTime
  <2> QED BY <1>2, <1>7, <2>1 DEF CommitUndelete, Updated
<1>8. CASE CommitBatch(r)
  <2> DEFINE New(row) == BatchRow(input[r].op, row, input[r].ts)
  <2>1. \A row \in Row : New(row) \in Row /\ (FavoriteTime(row) => FavoriteTime(New(row)))
    BY <1>1, <1>8, WritesTyped, WritesKeepFavoriteTime DEF CommitBatch
  <2> QED BY <1>2, <1>8, <2>1 DEF CommitBatch, Updated
<1>9. CASE BatchMissesId(r)
  BY <1>2, <1>9 DEF BatchMissesId, UnchangedRows
<1> QED BY <1>3, <1>4, <1>5, <1>6, <1>7, <1>8, <1>9 DEF Commit

(* Only a commit writes the table. *)
LEMMA OtherStepsKeepRows ==
    ASSUME NEW r \in Requests,
           Start(r) \/ Lookup(r) \/ PreRead(r) \/ DatabaseFails(r) \/ ReadBack(r) \/ Respond(r)
    PROVE  UNCHANGED list
BY DEF Start, Lookup, ParserFinds, ParserHasNoItem, ParserFails, PreRead, PreReadUpsert,
       PreReadUndelete, DatabaseFails, ReadBack, ReadBackFinds, ReadBackMisses, Respond,
       UnchangedRows

(* The writers of the other tables change what hangs on a save, no more. *)
LEMMA OthersWriteElsewhere ==
    ASSUME TypeOK, NEW s \in Saves, OthersAttach(s)
    PROVE  /\ UNCHANGED <<list, statusAtDelete, pc, input, tries, seen, answer, events, before, touched>>
           /\ attached' \subseteq Saves
BY DEF OthersAttach, requestVars, TypeOK

-----------------------------------------------------------------------------
(* Type correctness *)

(* Init establishes the type invariant. *)
LEMMA InitTyped == Init => TypeOK
<1> SUFFICES ASSUME Init PROVE TypeOK
  OBVIOUS
<1>1. ParserRetries \in 0..ParserRetries
  BY RetriesAssumption
<1> QED BY <1>1 DEF Init, TypeOK, Steps, Statuses

(* The steps that leave the table alone. *)
LEMMA OtherStepsTyped ==
    ASSUME TypeOK, TriesLeft, NEW r \in Requests,
           \/ Start(r)
           \/ Lookup(r)
           \/ PreRead(r)
           \/ DatabaseFails(r)
           \/ ReadBack(r)
           \/ Respond(r)
    PROVE  TypeOK'
<1> USE DEF TypeOK, Steps, At, Goto, Answer, UnchangedRows
<1>1. CASE Start(r)
  <2> PICK i \in Input :
        /\ input' = [input EXCEPT ![r] = i]
        /\ pc' = [pc EXCEPT ![r] = IF i.byUrl THEN "lookup" ELSE AfterLookup(i.op)]
    BY <1>1 DEF Start
  <2> QED BY <1>1 DEF Start, AfterLookup
<1>2. CASE ParserFinds(r)
  BY <1>2 DEF ParserFinds, AfterLookup
<1>3. CASE ParserHasNoItem(r)
  BY <1>3 DEF ParserHasNoItem
<1>4. CASE ParserFails(r)
  BY <1>4, RetriesAssumption DEF ParserFails, TriesLeft
<1>5. CASE PreReadUpsert(r)
  <2>1. input[r].saves \subseteq Saves
    BY <1>5, InputTyped DEF PreReadUpsert
  <2> QED BY <1>5, <2>1 DEF PreReadUpsert
<1>6. CASE PreReadUndelete(r)
  <2>1. input[r].saves \subseteq Saves
    BY <1>6, InputTyped DEF PreReadUndelete
  <2> QED BY <1>6, <2>1 DEF PreReadUndelete
<1>7. CASE DatabaseFails(r)
  BY <1>7 DEF DatabaseFails
<1>8. CASE ReadBackFinds(r)
  <2>1. EventsOf(r) \subseteq EventTypes
    BY DEF EventsOf, UpsertEvents, EventTypes
  <2> QED BY <1>8, <2>1 DEF ReadBackFinds
<1>9. CASE ReadBackMisses(r)
  BY <1>9 DEF ReadBackMisses
<1>10. CASE Respond(r)
  <2>1. ParserRetries \in 0..ParserRetries
    BY RetriesAssumption
  <2> QED BY <1>10, <2>1 DEF Respond
<1> QED
  BY <1>1, <1>2, <1>3, <1>4, <1>5, <1>6, <1>7, <1>8, <1>9, <1>10
  DEF Lookup, PreRead, ReadBack

(* The steps that write the table. *)
LEMMA CommitsTyped ==
    ASSUME TypeOK, NEW r \in Requests, Commit(r)
    PROVE  TypeOK'
<1> USE DEF TypeOK, Steps, At, Goto, Answer
<1>1. list' \in [Saves -> Row \cup {NoRow}]
  BY CommitWrites
<1>2. ASSUME statusAtDelete' \in [Saves -> Statuses], attached' \subseteq Saves, Touches(r),
             NEW op \in ById \cup {"upsert"}, Committed(r, op)
      PROVE  TypeOK'
  <2>1. input[r].saves \subseteq Saves
    BY <1>2, InputTyped DEF Committed
  <2> QED BY <1>1, <1>2, <2>1 DEF Committed, Touches
<1>3. CASE CommitUpsert(r) \/ CommitFavorite(r) \/ CommitArchive(r) \/ CommitUndelete(r)
  BY <1>2, <1>3 DEF CommitUpsert, CommitFavorite, CommitArchive, CommitUndelete, ById
<1>4. CASE CommitDelete(r)
  <2>1. \A row \in Row : row.status \in Statuses
    BY DEF Row
  <2> QED BY <1>2, <1>4, <2>1 DEF CommitDelete, ById
<1>5. CASE CommitBatch(r)
  BY <1>1, <1>5 DEF CommitBatch, Touches
<1>6. CASE BatchMissesId(r)
  BY <1>6 DEF BatchMissesId, UnchangedRows
<1> QED BY <1>3, <1>4, <1>5, <1>6 DEF Commit

(* tries is positive until the lookup is over. *)
LEMMA StepsKeepTries ==
    ASSUME TypeOK, TriesLeft, NEW r \in Requests, Start(r) \/ Continue(r)
    PROVE  TriesLeft'
<1> USE DEF TypeOK, TriesLeft, At, Goto, Answer, UnchangedRows
<1>1. CASE Start(r)
  BY <1>1 DEF Start
<1>2. CASE Lookup(r)
  <2>1. CASE ParserFinds(r)
    BY <2>1 DEF ParserFinds, AfterLookup
  <2>2. CASE ParserHasNoItem(r)
    BY <2>2 DEF ParserHasNoItem
  <2>3. CASE ParserFails(r)
    BY <2>3, RetriesAssumption DEF ParserFails
  <2> QED BY <1>2, <2>1, <2>2, <2>3 DEF Lookup
<1>3. CASE PreRead(r) \/ DatabaseFails(r) \/ ReadBack(r)
  BY <1>3 DEF PreRead, PreReadUpsert, PreReadUndelete, DatabaseFails,
              ReadBack, ReadBackFinds, ReadBackMisses
<1>4. CASE Commit(r)
  BY <1>4 DEF Commit, Committed, CommitUpsert, CommitFavorite, CommitArchive, CommitDelete,
              CommitUndelete, CommitBatch, BatchMissesId
<1>5. CASE Respond(r)
  BY <1>5, RetriesAssumption DEF Respond
<1> QED BY <1>1, <1>2, <1>3, <1>4, <1>5 DEF Continue

(* Every reachable state is typed, for all values of the constants. *)
THEOREM TypeCorrect == Spec => [](TypeOK /\ TriesLeft)
<1>1. Init => TypeOK /\ TriesLeft
  BY InitTyped, RetriesAssumption DEF Init, TriesLeft
<1>2. TypeOK /\ TriesLeft /\ [Next]_vars => (TypeOK /\ TriesLeft)'
  <2> SUFFICES ASSUME TypeOK, TriesLeft, [Next]_vars PROVE (TypeOK /\ TriesLeft)'
    OBVIOUS
  <2>1. CASE UNCHANGED vars
    BY <2>1 DEF vars, TypeOK, TriesLeft
  <2>2. ASSUME NEW r \in Requests, Start(r) \/ Continue(r)
        PROVE  (TypeOK /\ TriesLeft)'
    BY <2>2, StepsKeepTries, OtherStepsTyped, CommitsTyped DEF Continue
  <2>3. ASSUME NEW s \in Saves, OthersAttach(s)
        PROVE  (TypeOK /\ TriesLeft)'
    BY <2>3, OthersWriteElsewhere DEF TypeOK, TriesLeft
  <2> QED BY <2>1, <2>2, <2>3 DEF Next
<1> QED BY <1>1, <1>2, PTL DEF Spec

-----------------------------------------------------------------------------
(* favorite and time_favorited *)

(* favorite and time_favorited agree in every reachable row, whatever the  *)
(* number of requests and however they interleave.                         *)
THEOREM FavoriteTimeAlwaysConsistent == Spec => []FavoriteTimeConsistent
<1>1. Init => FavoriteTimeConsistent
  BY DEF Init, FavoriteTimeConsistent
<1>2. TypeOK /\ FavoriteTimeConsistent /\ [Next]_vars => FavoriteTimeConsistent'
  <2> SUFFICES ASSUME TypeOK, FavoriteTimeConsistent, [Next]_vars
               PROVE  FavoriteTimeConsistent'
    OBVIOUS
  <2>1. CASE UNCHANGED list
    BY <2>1 DEF FavoriteTimeConsistent
  <2>2. ASSUME NEW r \in Requests, Commit(r)
        PROVE  FavoriteTimeConsistent'
    BY <2>2, CommitWrites DEF FavoriteTimeConsistent, FavoriteTime
  <2> QED BY <2>1, <2>2, OtherStepsKeepRows, OthersWriteElsewhere DEF Next, Continue, vars
<1> QED BY <1>1, <1>2, TypeCorrect, PTL DEF Spec

-----------------------------------------------------------------------------
(* Rows are never removed, and what follows for the answers and events *)

(* No step removes a row: deleteSavedItem is a soft delete. *)
LEMMA RowsStay ==
    ASSUME TypeOK, NEW r \in Requests, Start(r) \/ Continue(r)
    PROVE  \A s \in Saves : list[s] # NoRow => list'[s] # NoRow
<1>1. CASE UNCHANGED list
  BY <1>1
<1>2. CASE Commit(r)
  BY <1>2, CommitWrites, NoRowAssumption
<1> QED BY <1>1, <1>2, OtherStepsKeepRows DEF Continue

(* The request-level part of IInv. *)
RInv ==
    /\ InOrder /\ SeenStands /\ BeforeStands /\ InsertSawNone
    /\ NotFoundKeepsList /\ EveryInsertAnnounced

(* A step of one request leaves the other requests as they are. *)
LEMMA OthersUntouched ==
    ASSUME TypeOK, NEW r \in Requests, Start(r) \/ Continue(r), NEW q \in Requests, q # r
    PROVE  /\ pc'[q] = pc[q] /\ input'[q] = input[q] /\ seen'[q] = seen[q]
           /\ answer'[q] = answer[q] /\ events'[q] = events[q] /\ before'[q] = before[q]
           /\ touched'[q] = touched[q]
<1> USE DEF TypeOK, Goto, Answer, Touches
<1>1. CASE Start(r) \/ Lookup(r) \/ PreRead(r)
  BY <1>1 DEF Start, Lookup, ParserFinds, ParserHasNoItem, ParserFails, PreRead, PreReadUpsert,
              PreReadUndelete
<1>2. CASE Commit(r)
  BY <1>2 DEF Commit, Committed, CommitUpsert, CommitFavorite, CommitArchive, CommitDelete,
              CommitUndelete, CommitBatch, BatchMissesId
<1>3. CASE DatabaseFails(r) \/ ReadBack(r) \/ Respond(r)
  BY <1>3 DEF DatabaseFails, ReadBack, ReadBackFinds, ReadBackMisses, Respond
<1> QED BY <1>1, <1>2, <1>3 DEF Continue

(* The conjuncts of RInv for one request. *)
RInvOf(q) ==
    /\ pc[q] # "answered" => answer[q] = "none"
    /\ pc[q] \in {"idle", "lookup", "preread"} => seen[q] = NoRow
    /\ pc[q] \in {"idle", "lookup", "preread", "write"} => before[q] = NoRow /\ touched[q] = {}
    /\ pc[q] = "readback" => input[q].op \notin Batch
    /\ pc[q] \in {"write", "readback"} /\ seen[q] # NoRow
          => \A s \in input[q].saves : list[s] # NoRow
    /\ pc[q] = "readback" =>
          /\ before[q] # NoRow \/ "list" \in touched[q] => \A s \in input[q].saves : list[s] # NoRow
          /\ "attached" \in touched[q] => input[q].op = "delete"
    /\ pc[q] = "readback" /\ input[q].op = "upsert" /\ before[q] = NoRow => seen[q] = NoRow
    /\ answer[q] = "notFound" =>
          /\ before[q] = NoRow
          /\ touched[q] \subseteq (IF input[q].op = "delete" THEN {"attached"} ELSE {})
    /\ answer[q] = "ok" /\ input[q].op = "upsert" /\ before[q] = NoRow => "ADD_ITEM" \in events[q]

(* RInv is the conjunction of RInvOf over the requests. *)
LEMMA RInvByRequest ==
    /\ RInv <=> \A q \in Requests : RInvOf(q)
    /\ RInv' <=> \A q \in Requests : RInvOf(q)'
BY DEF RInv, RInvOf, InOrder, SeenStands, BeforeStands, InsertSawNone,
       NotFoundKeepsList, EveryInsertAnnounced

(* The request that moves. *)
LEMMA MovingRequest ==
    ASSUME TypeOK, NEW r \in Requests, RInvOf(r), Start(r) \/ Continue(r)
    PROVE  RInvOf(r)'
<1> USE DEF TypeOK, RInvOf, At, Goto, Answer, UnchangedRows
<1>1. CASE Start(r)
  BY <1>1 DEF Start, AfterLookup
<1>2. CASE Lookup(r)
  BY <1>2 DEF Lookup, ParserFinds, ParserHasNoItem, ParserFails, AfterLookup
<1>3. CASE PreRead(r)
  <2>1. input[r].op \notin Batch /\ \E s \in Saves : input[r].saves = {s}
    BY <1>3, InputTyped DEF PreRead, PreReadUpsert, PreReadUndelete, Batch
  <2>2. CASE PreReadUpsert(r)
    BY <2>1, <2>2 DEF PreReadUpsert
  <2>3. CASE PreReadUndelete(r)
    BY <2>1, <2>3 DEF PreReadUndelete
  <2> QED BY <1>3, <2>2, <2>3 DEF PreRead
<1>4. CASE CommitBatch(r) \/ BatchMissesId(r)
  BY <1>4 DEF CommitBatch, BatchMissesId, Batch
<1>5. ASSUME NEW op \in ById \cup {"upsert"}, Committed(r, op), Touches(r),
             \A s \in Saves : s \notin input[r].saves => list'[s] = list[s],
             attached' # attached => op = "delete"
      PROVE  RInvOf(r)'
  <2>1. pc[r] = "write" /\ op \notin Batch /\ input[r].op = op
    BY <1>5 DEF Committed, Batch, ById
  <2>2. PICK s \in Saves : input[r].saves = {s}
    BY <2>1, InputTyped
  <2>3. /\ pc'[r] = "readback" /\ input'[r] = input[r] /\ seen'[r] = seen[r]
        /\ answer'[r] = answer[r] /\ before'[r] = list[s]
    BY <1>5, <2>2 DEF Committed
  <2>4. list[s] # NoRow => list'[s] # NoRow
    BY RowsStay
  <2>5. list' # list => list'[s] # NoRow
    <3>1. Commit(r)
      BY <1>5, <2>1, <2>3 DEF Continue, Start, Lookup, ParserFinds, ParserHasNoItem, ParserFails,
         PreRead, PreReadUpsert, PreReadUndelete, DatabaseFails, ReadBack, ReadBackFinds,
         ReadBackMisses, Respond
    <3>2. list' \in [Saves -> Row \cup {NoRow}]
      BY <3>1, CommitWrites
    <3>3. list'[s] = list[s] => list' = list
      BY <1>5, <2>2, <3>2
    <3> QED BY <3>1, <3>3, CommitWrites, NoRowAssumption
  <2>6. /\ "list" \in touched'[r] <=> list' # list
        /\ "attached" \in touched'[r] <=> attached' # attached
    BY <1>5 DEF Touches
  <2> QED BY <1>5, <2>1, <2>2, <2>3, <2>4, <2>5, <2>6
<1>6. CASE Commit(r)
  <2>1. CASE CommitUpsert(r)
    BY <1>5, <2>1 DEF CommitUpsert
  <2>2. CASE CommitFavorite(r) \/ CommitArchive(r) \/ CommitUndelete(r)
    BY <1>5, <2>2 DEF CommitFavorite, CommitArchive, CommitUndelete, Updated, ById
  <2>3. CASE CommitDelete(r)
    BY <1>5, <2>3 DEF CommitDelete, Updated, ById
  <2> QED BY <1>4, <1>6, <2>1, <2>2, <2>3 DEF Commit
<1>7. CASE DatabaseFails(r)
  BY <1>7 DEF DatabaseFails
<1>8. CASE ReadBackFinds(r)
  <2>1. input[r].op = "upsert" /\ seen[r] = NoRow => "ADD_ITEM" \in EventsOf(r)
    BY DEF EventsOf, UpsertEvents, EventTypes
  <2> QED BY <1>8, <2>1 DEF ReadBackFinds
<1>9. CASE ReadBackMisses(r)
  <2>1. input[r].saves # {}
    BY <1>9, InputTyped DEF ReadBackMisses
  <2>2. "list" \notin touched[r] /\ before[r] = NoRow
    BY <1>9, <2>1 DEF ReadBackMisses
  <2>3. touched[r] \subseteq (IF input[r].op = "delete" THEN {"attached"} ELSE {})
    BY <1>9, <2>2 DEF ReadBackMisses
  <2> QED BY <1>9, <2>2, <2>3 DEF ReadBackMisses
<1>10. CASE Respond(r)
  BY <1>10 DEF Respond
<1> QED BY <1>1, <1>2, <1>3, <1>6, <1>7, <1>8, <1>9, <1>10 DEF Continue, ReadBack

(* The other requests lose nothing, since the rows they rely on stay. *)
LEMMA WaitingRequest ==
    ASSUME TypeOK, NEW r \in Requests, Start(r) \/ Continue(r),
           NEW q \in Requests, q # r, RInvOf(q)
    PROVE  RInvOf(q)'
<1>1. pc[q] # "idle" => input[q].saves \subseteq Saves
  BY InputTyped
<1> QED BY <1>1, OthersUntouched, RowsStay DEF RInvOf

(* The inductive invariant of the model, the one TLC checks. *)
THEOREM Inductive == Spec => []IInv
<1>1. Init => RInv
  BY DEF Init, RInv, InOrder, SeenStands, BeforeStands, InsertSawNone,
         NotFoundKeepsList, EveryInsertAnnounced
<1>2. TypeOK /\ RInv /\ [Next]_vars => RInv'
  <2> SUFFICES ASSUME TypeOK, \A q \in Requests : RInvOf(q), [Next]_vars
               PROVE  \A q \in Requests : RInvOf(q)'
    BY RInvByRequest
  <2>1. CASE UNCHANGED vars
    BY <2>1 DEF vars, RInvOf
  <2>2. ASSUME NEW r \in Requests, Start(r) \/ Continue(r), NEW q \in Requests
        PROVE  RInvOf(q)'
    BY <2>2, MovingRequest, WaitingRequest
  <2>3. ASSUME NEW s \in Saves, OthersAttach(s), NEW q \in Requests
        PROVE  RInvOf(q)'
    BY <2>3, OthersWriteElsewhere DEF RInvOf
  <2> QED BY <2>1, <2>2, <2>3 DEF Next
<1>3. TypeOK /\ TriesLeft /\ FavoriteTimeConsistent /\ RInv => IInv
  BY DEF IInv, RInv
<1> QED BY <1>1, <1>2, <1>3, TypeCorrect, FavoriteTimeAlwaysConsistent, PTL DEF Spec

(* A mutation answered "not found" found no row of the save and changed    *)
(* none, for any number of requests and saves; only a delete may have      *)
(* removed what hangs on the save.                                         *)
THEOREM NotFoundLeavesList == Spec => []NotFoundKeepsList
<1>1. IInv => NotFoundKeepsList
  BY DEF IInv
<1> QED BY <1>1, Inductive, PTL

(* The upsert that inserts a save emits ADD_ITEM when it answers with it,  *)
(* whatever the other requests do between its read and its insert.         *)
THEOREM InsertsAreAnnounced == Spec => []EveryInsertAnnounced
<1>1. IInv => EveryInsertAnnounced
  BY DEF IInv
<1> QED BY <1>1, Inductive, PTL

-----------------------------------------------------------------------------
(* A user whose mutations do not overlap *)

OneAtATime == \A q, r \in Requests : q = r

(* What a request has seen is what its transaction finds, and the commit   *)
(* decides about the answer and the events                                 *)
InStep(r) ==
    /\ pc[r] = "write" /\ input[r].op \in {"upsert", "undelete"}
          => \A s \in input[r].saves : list[s] = seen[r]
    /\ pc[r] = "readback" /\ input[r].op = "upsert" => before[r] = seen[r]
    /\ pc[r] = "readback" /\ input[r].op \in ById /\ before[r] = NoRow
          => \A s \in input[r].saves : list[s] = NoRow
    /\ answer[r] = "ok" /\ input[r].op \in ById => before[r] # NoRow
    /\ answer[r] = "ok" /\ input[r].op = "upsert"
          => before[r] = seen[r] /\ events[r] = UpsertEvents(r)

(* The request that moves stays in step with the table. *)
LEMMA MovesInStep ==
    ASSUME IInv, NEW r \in Requests, InStep(r), Start(r) \/ Continue(r)
    PROVE  InStep(r)'
<1> USE DEF InStep, At, Goto, Answer, UnchangedRows
<1>0. /\ TypeOK /\ (pc[r] # "answered" => answer[r] = "none")
      /\ pc[r] \in {"idle", "lookup", "preread"} => seen[r] = NoRow
  BY DEF IInv, InOrder
<1> USE DEF TypeOK
<1>1. CASE Start(r)
  <2> PICK i \in Input :
        /\ input' = [input EXCEPT ![r] = i]
        /\ pc' = [pc EXCEPT ![r] = IF i.byUrl THEN "lookup" ELSE AfterLookup(i.op)]
    BY <1>1 DEF Start
  <2>1. pc'[r] \in {"lookup", "preread", "write"} /\ (pc'[r] = "write" => i.op \notin {"upsert", "undelete"})
    BY <1>0 DEF AfterLookup
  <2>2. answer'[r] = "none" /\ input'[r] = i
    BY <1>0, <1>1 DEF Start
  <2> QED BY <2>1, <2>2
<1>2. CASE Lookup(r)
  <2>1. pc[r] = "lookup"
    BY <1>2 DEF Lookup, ParserFinds, ParserHasNoItem, ParserFails
  <2>2. /\ input' = input /\ pc'[r] \in {"lookup", "preread", "write", "answered"}
        /\ pc'[r] = "write" => input[r].op \notin {"upsert", "undelete"}
        /\ answer'[r] # "ok"
    BY <1>0, <1>2, <2>1 DEF Lookup, ParserFinds, ParserHasNoItem, ParserFails, AfterLookup
  <2> QED BY <2>2
<1>3. CASE PreRead(r)
  <2>1. input[r].op \notin Batch /\ \E s \in Saves : input[r].saves = {s}
    BY <1>0, <1>3, InputTyped DEF PreRead, PreReadUpsert, PreReadUndelete, Batch
  <2>2. CASE PreReadUpsert(r)
    BY <1>0, <2>1, <2>2 DEF PreReadUpsert
  <2>3. CASE PreReadUndelete(r)
    BY <1>0, <2>1, <2>3 DEF PreReadUndelete
  <2> QED BY <1>3, <2>2, <2>3 DEF PreRead
<1>4. CASE CommitBatch(r) \/ BatchMissesId(r)
  <2>1. /\ input[r].op \in Batch /\ input' = input /\ pc'[r] = "answered"
    BY <1>0, <1>4 DEF CommitBatch, BatchMissesId
  <2> QED BY <2>1 DEF Batch, ById
<1>5. ASSUME NEW op \in ById \cup {"upsert"}, Committed(r, op),
             op \in ById => \A s \in Saves : list[s] = NoRow => list'[s] = NoRow
      PROVE  InStep(r)'
  <2>1. pc[r] = "write" /\ op \notin Batch /\ input[r].op = op
    BY <1>5 DEF Committed, Batch, ById
  <2>2. PICK s \in Saves : input[r].saves = {s}
    BY <1>0, <2>1, InputTyped
  <2>3. /\ pc'[r] = "readback" /\ input'[r] = input[r] /\ seen'[r] = seen[r]
        /\ answer'[r] = "none" /\ before'[r] = list[s]
    BY <1>0, <1>5, <2>1, <2>2 DEF Committed
  <2>4. op = "upsert" => list[s] = seen[r]
    BY <2>1, <2>2
  <2> QED BY <1>5, <2>1, <2>2, <2>3, <2>4
<1>6. CASE CommitUpsert(r)
  BY <1>5, <1>6 DEF CommitUpsert, ById
<1>7. CASE CommitFavorite(r) \/ CommitArchive(r) \/ CommitDelete(r) \/ CommitUndelete(r)
  <2>1. \A s \in Saves : list[s] = NoRow => list'[s] = NoRow
    BY <1>7 DEF CommitFavorite, CommitArchive, CommitDelete, CommitUndelete, Updated
  <2> QED BY <1>5, <1>7, <2>1 DEF CommitFavorite, CommitArchive, CommitDelete, CommitUndelete, ById
<1>8. CASE DatabaseFails(r)
  BY <1>0, <1>8 DEF DatabaseFails
<1>9. CASE ReadBackFinds(r)
  <2>1. /\ pc[r] = "readback" /\ pc'[r] = "answered" /\ answer'[r] = "ok"
        /\ events'[r] = EventsOf(r) /\ UNCHANGED <<list, input, seen, before>>
        /\ \E s \in input[r].saves : list[s] # NoRow
    BY <1>0, <1>9 DEF ReadBackFinds
  <2>2. input[r].op = "upsert" => EventsOf(r) = UpsertEvents(r) /\ UpsertEvents(r)' = UpsertEvents(r)
    BY <2>1 DEF EventsOf, UpsertEvents
  <2> QED BY <2>1, <2>2
<1>10. CASE ReadBackMisses(r)
  BY <1>0, <1>10 DEF ReadBackMisses
<1>11. CASE Respond(r)
  BY <1>0, <1>11 DEF Respond
<1> QED BY <1>1, <1>2, <1>3, <1>4, <1>6, <1>7, <1>8, <1>9, <1>10, <1>11 DEF Continue, Commit, ReadBack

(* The invariant of ArchivedHasTimeRead, for one row. *)
ArchivedTime(row) == row.status = "ARCHIVED" => row.time_read # ZeroDate

(* Every writer keeps it, an undelete if it has seen the row it writes. *)
LEMMA WritesKeepArchivedTime ==
    ASSUME NEW row \in Row, NEW ts \in Times, ArchivedTime(row)
    PROVE  /\ \A b \in BOOLEAN : ArchivedTime(WithFavorite(row, b, ts))
           /\ \A b \in BOOLEAN : ArchivedTime(WithArchived(row, b, ts))
           /\ ArchivedTime(WithDeleted(row))
           /\ ArchivedTime(WithUndeleted(row, row.time_read))
           /\ \A op \in Batch : ArchivedTime(BatchRow(op, row, ts))
<1>1. ts # ZeroDate
  BY TimesAssumption DEF ZeroDate
<1>2. /\ \A b \in BOOLEAN : ArchivedTime(WithFavorite(row, b, ts))
      /\ \A b \in BOOLEAN : ArchivedTime(WithArchived(row, b, ts))
      /\ ArchivedTime(WithDeleted(row))
      /\ ArchivedTime(WithUndeleted(row, row.time_read))
  BY <1>1 DEF WithFavorite, WithArchived, WithDeleted, WithUndeleted, Row, ArchivedTime
<1>3. /\ ArchivedTime(archiveListRow(row, ts))
      /\ ArchivedTime(unArchiveListRow(row, ts))
      /\ ArchivedTime(favoriteListRow(row, ts))
      /\ ArchivedTime(unFavoriteListRow(row, ts))
  BY <1>1 DEF archiveListRow, unArchiveListRow, favoriteListRow, unFavoriteListRow, Row, ArchivedTime
<1>4. ASSUME NEW op \in Batch PROVE ArchivedTime(BatchRow(op, row, ts))
  BY <1>3 DEF BatchRow, Batch
<1> QED BY <1>2, <1>4

(* A commit that is in step keeps the times of archived rows. *)
LEMMA CommitKeepsArchivedTime ==
    ASSUME TypeOK, ArchivedHasTimeRead, NEW r \in Requests, InStep(r), Commit(r)
    PROVE  ArchivedHasTimeRead'
<1>1. /\ pc[r] = "write" /\ input[r].ts \in Times
  BY InputTyped DEF Commit, CommitUpsert, CommitFavorite, CommitArchive, CommitDelete,
     CommitUndelete, CommitBatch, BatchMissesId, Committed, At
<1>2. \A s \in Saves : list[s] # NoRow => list[s] \in Row /\ ArchivedTime(list[s])
  BY DEF TypeOK, ArchivedHasTimeRead, ArchivedTime
<1> SUFFICES \A s \in Saves : list'[s] # NoRow => ArchivedTime(list'[s])
  BY DEF ArchivedHasTimeRead, ArchivedTime
<1>3. CASE CommitUpsert(r)
  <2>1. ArchivedTime(UpsertedRow(FavoriteToWrite(r), input[r].ts))
    BY DEF UpsertedRow, ArchivedTime
  <2> QED BY <1>2, <1>3, <2>1 DEF CommitUpsert
<1>4. CASE CommitFavorite(r)
  <2> PICK op \in {"favorite", "unfavorite"} :
        list' = Updated(input[r].saves,
                        LAMBDA row : WithFavorite(row, op = "favorite", input[r].ts))
    BY <1>4 DEF CommitFavorite
  <2>1. \A row \in Row : ArchivedTime(row) => ArchivedTime(WithFavorite(row, op = "favorite", input[r].ts))
    BY <1>1, WritesKeepArchivedTime
  <2> QED BY <1>2, <2>1 DEF Updated
<1>5. CASE CommitArchive(r)
  <2> PICK op \in {"archive", "unarchive"} :
        list' = Updated(input[r].saves,
                        LAMBDA row : WithArchived(row, op = "archive", input[r].ts))
    BY <1>5 DEF CommitArchive
  <2>1. \A row \in Row : ArchivedTime(row) => ArchivedTime(WithArchived(row, op = "archive", input[r].ts))
    BY <1>1, WritesKeepArchivedTime
  <2> QED BY <1>2, <2>1 DEF Updated
<1>6. CASE CommitDelete(r)
  <2>1. \A row \in Row : ArchivedTime(row) => ArchivedTime(WithDeleted(row))
    BY <1>1, WritesKeepArchivedTime
  <2> QED BY <1>2, <1>6, <2>1 DEF CommitDelete, Updated
<1>7. CASE CommitUndelete(r)
  <2>1. \A s \in Saves : list'[s] = IF s \in input[r].saves /\ list[s] # NoRow
                                    THEN WithUndeleted(list[s], seen[r].time_read) ELSE list[s]
    BY <1>7 DEF CommitUndelete, Updated
  <2>2. \A s \in input[r].saves : list[s] = seen[r]
    BY <1>1, <1>7 DEF CommitUndelete, Committed, InStep
  <2>3. \A row \in Row : ArchivedTime(row) => ArchivedTime(WithUndeleted(row, row.time_read))
    BY <1>1, WritesKeepArchivedTime
  <2> QED BY <1>2, <2>1, <2>2, <2>3
<1>8. CASE CommitBatch(r)
  <2> DEFINE New(row) == BatchRow(input[r].op, row, input[r].ts)
  <2>1. \A row \in Row : ArchivedTime(row) => ArchivedTime(New(row))
    BY <1>1, <1>8, WritesKeepArchivedTime DEF CommitBatch
  <2> QED BY <1>2, <1>8, <2>1 DEF CommitBatch, Updated
<1>9. CASE BatchMissesId(r)
  BY <1>2, <1>9 DEF BatchMissesId, UnchangedRows
<1> QED BY <1>3, <1>4, <1>5, <1>6, <1>7, <1>8, <1>9 DEF Commit

(* What holds of the table and of every request when they do not overlap. *)
SequentialInv == ArchivedHasTimeRead /\ \A r \in Requests : InStep(r)

(* With one request only the moving request's step has to be looked at. *)
LEMMA SequentialInductive ==
    ASSUME OneAtATime
    PROVE  Spec => []SequentialInv
<1>1. Init => SequentialInv
  BY DEF Init, SequentialInv, ArchivedHasTimeRead, InStep
<1>2. IInv /\ SequentialInv /\ [Next]_vars => SequentialInv'
  <2> SUFFICES ASSUME IInv, SequentialInv, [Next]_vars PROVE SequentialInv'
    OBVIOUS
  <2>1. CASE UNCHANGED vars
    BY <2>1 DEF vars, SequentialInv, ArchivedHasTimeRead, InStep, UpsertEvents
  <2>2. ASSUME NEW r \in Requests, Start(r) \/ Continue(r) PROVE SequentialInv'
    <3>1. InStep(r)'
      BY <2>2, MovesInStep DEF SequentialInv
    <3>2. \A q \in Requests : InStep(q)'
      BY <3>1 DEF OneAtATime
    <3>3. ArchivedHasTimeRead'
      <4>1. CASE UNCHANGED list
        BY <4>1 DEF SequentialInv, ArchivedHasTimeRead
      <4>2. CASE Commit(r)
        BY <4>2, CommitKeepsArchivedTime DEF SequentialInv, IInv
      <4> QED BY <2>2, <4>1, <4>2, OtherStepsKeepRows DEF Continue
    <3> QED BY <3>2, <3>3 DEF SequentialInv
  <2>3. ASSUME NEW s \in Saves, OthersAttach(s) PROVE SequentialInv'
    BY <2>3, OthersWriteElsewhere DEF IInv, SequentialInv, ArchivedHasTimeRead, InStep, UpsertEvents
  <2> QED BY <2>1, <2>2, <2>3 DEF Next
<1> QED BY <1>1, <1>2, Inductive, PTL DEF Spec

(* One mutation at a time, an archived save has its time: the undelete     *)
(* decides from a row that nobody has changed (savedItemsService.ts).      *)
THEOREM ArchivedSavesHaveTime ==
    ASSUME OneAtATime
    PROVE  Spec => []ArchivedHasTimeRead
<1>1. SequentialInv => ArchivedHasTimeRead
  BY DEF SequentialInv
<1> QED BY <1>1, SequentialInductive, PTL

(* One mutation at a time, an answer with the save means it was updated.   *)
THEOREM SuccessIsApplied ==
    ASSUME OneAtATime
    PROVE  Spec => []SuccessMeansApplied
<1>1. SequentialInv => SuccessMeansApplied
  BY DEF SequentialInv, InStep, SuccessMeansApplied
<1> QED BY <1>1, SequentialInductive, PTL

(* One mutation at a time, the events of an upsert say what it changed.    *)
THEOREM UpsertEventsTrue ==
    ASSUME OneAtATime
    PROVE  Spec => []UpsertEventsDescribeChange
<1>1. SequentialInv => UpsertEventsDescribeChange
  BY DEF SequentialInv, InStep, UpsertEventsDescribeChange, UpsertEvents, EventTypes
<1> QED BY <1>1, SequentialInductive, PTL

(* A commit of a request is one of its actions. *)
LEMMA CommitsBy ==
    ASSUME TypeOK, [Next]_vars, NEW r \in Requests, NEW op, NEW s, Commits(r, op, s)
    PROVE  /\ op = "upsert" => CommitUpsert(r)
           /\ op = "undelete" => CommitUndelete(r)
<1>1. pc[r] = "write" /\ pc'[r] = "readback" /\ input[r].op = op
  BY DEF Commits
<1>2. Start(r) \/ Continue(r)
  BY <1>1, OthersUntouched, OthersWriteElsewhere DEF Next, vars
<1>3. Commit(r)
  <2>1. ~Start(r) /\ ~Lookup(r) /\ ~PreRead(r) /\ ~ReadBack(r) /\ ~Respond(r)
    BY <1>1 DEF Start, Lookup, ParserFinds, ParserHasNoItem, ParserFails, PreRead, PreReadUpsert,
       PreReadUndelete, ReadBack, ReadBackFinds, ReadBackMisses, Respond, At
  <2>2. ~DatabaseFails(r)
    BY <1>1 DEF DatabaseFails, Answer, Goto, TypeOK
  <2> QED BY <1>2, <2>1, <2>2 DEF Continue
<1> QED BY <1>1, <1>3 DEF Commit, CommitUpsert, CommitFavorite, CommitArchive, CommitDelete,
           CommitUndelete, CommitBatch, BatchMissesId, Committed, Batch, ById

(* One mutation at a time, an upsert leaves a favorite a favorite.         *)
THEOREM FavoritesSurviveUpserts ==
    ASSUME OneAtATime
    PROVE  Spec => UpsertKeepsFavorite
<1>1. IInv /\ SequentialInv /\ [Next]_vars =>
        \A r \in Requests, s \in Saves :
            Commits(r, "upsert", s) /\ list[s] # NoRow /\ list[s].favorite => list'[s].favorite
  <2> SUFFICES ASSUME IInv, SequentialInv, [Next]_vars, NEW r \in Requests, NEW s \in Saves,
                      Commits(r, "upsert", s), list[s] # NoRow, list[s].favorite
               PROVE  list'[s].favorite
    OBVIOUS
  <2>1. CommitUpsert(r)
    BY CommitsBy DEF IInv
  <2>2. s \in input[r].saves /\ list[s] = seen[r]
    BY DEF SequentialInv, InStep, Commits
  <2>3. FavoriteToWrite(r)
    BY <2>2 DEF FavoriteToWrite
  <2> QED BY <2>1, <2>2, <2>3 DEF CommitUpsert, UpsertedRow
<1> QED BY <1>1, Inductive, SequentialInductive, PTL DEF Spec, UpsertKeepsFavorite

(* One mutation at a time, an undelete restores ARCHIVED for exactly the   *)
(* rows with a time_read.                                                  *)
THEOREM UndeletesFollowTimeRead ==
    ASSUME OneAtATime
    PROVE  Spec => UndeleteFollowsTimeRead
<1>1. IInv /\ SequentialInv /\ [Next]_vars =>
        \A r \in Requests, s \in Saves :
            Commits(r, "undelete", s) /\ list[s] # NoRow
                => (list'[s].status = "ARCHIVED" <=> list'[s].time_read # ZeroDate)
  <2> SUFFICES ASSUME IInv, SequentialInv, [Next]_vars, NEW r \in Requests, NEW s \in Saves,
                      Commits(r, "undelete", s), list[s] # NoRow
               PROVE  list'[s].status = "ARCHIVED" <=> list'[s].time_read # ZeroDate
    OBVIOUS
  <2>1. CommitUndelete(r)
    BY CommitsBy DEF IInv
  <2>2. s \in input[r].saves /\ list[s] = seen[r] /\ list[s] \in Row
    BY DEF SequentialInv, InStep, Commits, IInv, TypeOK
  <2>3. list'[s] = WithUndeleted(list[s], list[s].time_read)
    BY <2>1, <2>2 DEF CommitUndelete, Updated
  <2> QED BY <2>2, <2>3 DEF WithUndeleted, Row
<1> QED BY <1>1, Inductive, SequentialInductive, PTL DEF Spec, UndeleteFollowsTimeRead

(* Without the batches, time_read tells what an undelete has to restore *)
NoBatches == Ops \cap Batch = {}

StatusOf(row) == IF row.time_read = ZeroDate THEN "UNREAD" ELSE "ARCHIVED"

TimeReadTells ==
    \A s \in Saves : list[s] # NoRow =>
        StatusOf(list[s]) = IF list[s].status = "DELETED" THEN statusAtDelete[s] ELSE list[s].status

(* A commit of the SavedItem model keeps status and time_read together. *)
LEMMA CommitKeepsStatus ==
    ASSUME NoBatches, TypeOK, TimeReadTells, NEW r \in Requests, InStep(r), Commit(r)
    PROVE  TimeReadTells'
<1>1. /\ pc[r] = "write" /\ input[r].ts \in Times /\ input[r].op \notin Batch
      /\ input[r].ts # ZeroDate
  <2>1. pc[r] = "write"
    BY DEF Commit, CommitUpsert, CommitFavorite, CommitArchive, CommitDelete,
       CommitUndelete, CommitBatch, BatchMissesId, Committed, At
  <2>2. input[r].ts \in Times /\ input[r].op \in Ops
    BY <2>1, InputTyped
  <2> QED BY <2>1, <2>2, TimesAssumption DEF NoBatches, ZeroDate
<1>2. \A s \in Saves : list[s] # NoRow => list[s] \in Row
  BY DEF TypeOK
<1>3. \A s \in Saves : list[s] # NoRow =>
        StatusOf(list[s]) = IF list[s].status = "DELETED" THEN statusAtDelete[s] ELSE list[s].status
  BY DEF TimeReadTells
<1> SUFFICES ASSUME NEW s \in Saves, list'[s] # NoRow
             PROVE  StatusOf(list'[s]) = IF list'[s].status = "DELETED"
                                         THEN statusAtDelete'[s] ELSE list'[s].status
  BY DEF TimeReadTells, StatusOf
<1> USE DEF StatusOf
<1>4. CASE list'[s] = list[s] /\ statusAtDelete' = statusAtDelete
  BY <1>3, <1>4
<1>5. CASE CommitUpsert(r)
  <2>1. /\ statusAtDelete' = statusAtDelete
        /\ list'[s] = list[s] \/ list'[s] = UpsertedRow(FavoriteToWrite(r), input[r].ts)
    BY <1>5 DEF CommitUpsert
  <2> QED BY <1>4, <2>1 DEF UpsertedRow
<1>6. CASE CommitFavorite(r)
  <2>1. PICK op \in {"favorite", "unfavorite"} :
          /\ statusAtDelete' = statusAtDelete
          /\ list' = Updated(input[r].saves,
                             LAMBDA row : WithFavorite(row, op = "favorite", input[r].ts))
    BY <1>6 DEF CommitFavorite
  <2>2. list'[s] = list[s] \/ list'[s] = WithFavorite(list[s], op = "favorite", input[r].ts)
    BY <2>1 DEF Updated
  <2>3. list[s] \in Row
    BY <1>2, <2>1 DEF Updated
  <2>4. list'[s].status = list[s].status /\ list'[s].time_read = list[s].time_read
    BY <2>2, <2>3 DEF WithFavorite, Row
  <2> QED BY <1>3, <2>1, <2>3, <2>4, NoRowAssumption
<1>7. CASE CommitArchive(r)
  <2>1. PICK op \in {"archive", "unarchive"} :
          /\ statusAtDelete' = statusAtDelete
          /\ list' = Updated(input[r].saves,
                             LAMBDA row : WithArchived(row, op = "archive", input[r].ts))
    BY <1>7 DEF CommitArchive
  <2>2. list'[s] = list[s] \/ list'[s] = WithArchived(list[s], op = "archive", input[r].ts)
    BY <2>1 DEF Updated
  <2>3. list[s] \in Row
    BY <1>2, <2>1 DEF Updated
  <2> QED BY <1>1, <1>4, <2>1, <2>2, <2>3 DEF WithArchived, Row
<1>8. CASE CommitDelete(r)
  <2>1. /\ list'[s] = IF s \in input[r].saves /\ list[s] # NoRow THEN WithDeleted(list[s]) ELSE list[s]
        /\ statusAtDelete'[s] =
              IF s \in input[r].saves /\ list[s] # NoRow /\ list[s].status # "DELETED"
              THEN list[s].status ELSE statusAtDelete[s]
    BY <1>8 DEF CommitDelete, Updated
  <2>2. list[s] \in Row
    BY <1>2, <2>1
  <2>3. CASE s \in input[r].saves
    <3>1. /\ list'[s].status = "DELETED" /\ list'[s].time_read = list[s].time_read
      BY <2>1, <2>2, <2>3, NoRowAssumption DEF WithDeleted, Row
    <3> QED BY <1>3, <2>1, <2>2, <2>3, <3>1, NoRowAssumption
  <2>4. CASE s \notin input[r].saves
    BY <1>3, <2>1, <2>4
  <2> QED BY <2>3, <2>4
<1>9. CASE CommitUndelete(r)
  <2>1. /\ list'[s] = IF s \in input[r].saves /\ list[s] # NoRow
                      THEN WithUndeleted(list[s], seen[r].time_read) ELSE list[s]
        /\ statusAtDelete' = statusAtDelete
    BY <1>9 DEF CommitUndelete, Updated
  <2>2. \A x \in input[r].saves : list[x] = seen[r]
    BY <1>1, <1>9 DEF CommitUndelete, Committed, InStep
  <2>3. list[s] \in Row
    BY <1>2, <2>1
  <2> QED BY <1>4, <2>1, <2>2, <2>3 DEF WithUndeleted, Row
<1>10. CASE CommitBatch(r) \/ BatchMissesId(r)
  BY <1>1, <1>10 DEF CommitBatch, BatchMissesId
<1> QED BY <1>5, <1>6, <1>7, <1>8, <1>9, <1>10 DEF Commit

(* Only a delete notes the status that a save is deleted with. *)
LEMMA OtherStepsKeepStatus ==
    ASSUME NEW r \in Requests,
           Start(r) \/ Lookup(r) \/ PreRead(r) \/ DatabaseFails(r) \/ ReadBack(r) \/ Respond(r)
    PROVE  UNCHANGED statusAtDelete
BY DEF Start, Lookup, ParserFinds, ParserHasNoItem, ParserFails, PreRead, PreReadUpsert,
       PreReadUndelete, DatabaseFails, ReadBack, ReadBackFinds, ReadBackMisses, Respond,
       UnchangedRows

(* The mutations of the SavedItem model alone, one at a time, restore the  *)
(* status that a save was deleted with: only the un-archive of the         *)
(* batches, which sets time_read, takes it away.                           *)
THEOREM UndeletesRestoreStatus ==
    ASSUME OneAtATime, NoBatches
    PROVE  Spec => UndeleteRestoresStatus
<1>1. Init => TimeReadTells
  BY DEF Init, TimeReadTells
<1>2. IInv /\ SequentialInv /\ TimeReadTells /\ [Next]_vars => TimeReadTells'
  <2> SUFFICES ASSUME IInv, SequentialInv, TimeReadTells, [Next]_vars PROVE TimeReadTells'
    OBVIOUS
  <2>1. CASE UNCHANGED <<list, statusAtDelete>>
    BY <2>1 DEF TimeReadTells
  <2>2. ASSUME NEW r \in Requests, Commit(r) PROVE TimeReadTells'
    BY <2>2, CommitKeepsStatus DEF SequentialInv, IInv
  <2>3. ASSUME NEW s \in Saves, OthersAttach(s) PROVE UNCHANGED <<list, statusAtDelete>>
    BY <2>3, OthersWriteElsewhere DEF IInv
  <2> QED BY <2>1, <2>2, <2>3, OtherStepsKeepRows, OtherStepsKeepStatus DEF Next, Continue, vars
<1>3. IInv /\ SequentialInv /\ TimeReadTells /\ [Next]_vars =>
        \A r \in Requests, s \in Saves :
            Commits(r, "undelete", s) /\ list[s] # NoRow /\ list[s].status = "DELETED"
                => list'[s].status = statusAtDelete[s]
  <2> SUFFICES ASSUME IInv, SequentialInv, TimeReadTells, [Next]_vars, NEW r \in Requests, NEW s \in Saves,
                      Commits(r, "undelete", s), list[s] # NoRow, list[s].status = "DELETED"
               PROVE  list'[s].status = statusAtDelete[s]
    OBVIOUS
  <2>1. CommitUndelete(r)
    BY CommitsBy DEF IInv
  <2>2. s \in input[r].saves /\ list[s] = seen[r] /\ list[s] \in Row
    BY DEF SequentialInv, InStep, Commits, IInv, TypeOK
  <2>3. list'[s] = WithUndeleted(list[s], list[s].time_read)
    BY <2>1, <2>2 DEF CommitUndelete, Updated
  <2>4. StatusOf(list[s]) = statusAtDelete[s]
    BY DEF TimeReadTells
  <2> QED BY <2>2, <2>3, <2>4 DEF WithUndeleted, Row, StatusOf
<1> QED BY <1>1, <1>2, <1>3, Inductive, SequentialInductive, PTL DEF Spec, UndeleteRestoresStatus
=============================================================================
