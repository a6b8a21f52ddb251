----------------------------- MODULE SavedItems -----------------------------
(***************************************************************************)
(* The mutations of one user's list, request by request.                   *)
(*                                                                         *)
(* A request is a resolver running on the Node event loop of some API      *)
(* server.  It is a sequence of awaited calls: an optional Parser lookup   *)
(* (models/SavedItem.ts fetchIdFromUrl, resolvers/mutation.ts), an         *)
(* optional read of the row outside of any transaction, one database       *)
(* transaction, a read of the row after the commit, and the events the     *)
(* resolver hands to the event emitter.  Between two of these steps any    *)
(* other request of the same user may take steps, on this server or        *)
(* another one.                                                            *)
(*                                                                         *)
(* A transaction is one step here: its UPDATE holds the row's lock until   *)
(* the commit (module MirroredWrites has the statements one by one).  A    *)
(* row keeps the four columns that the mutations decide about; titles,     *)
(* urls, api ids, time_added and time_updated are left out.  Of the tables *)
(* that hang on a save (item_tags, item_attribution, items_scroll) the     *)
(* model keeps whether they have rows for it: a delete removes them, the   *)
(* tag mutations and other services add them, list row or not.             *)
(***************************************************************************)
EXTENDS Naturals, FiniteSets

CONSTANTS
    Saves,          \* item ids (and the urls the Parser resolves to them)
    Requests,       \* the mutations of this user that can be in flight
    Ops,            \* the mutations the clients use
    Times,          \* timestamps, the client's or the server's; none is zero
    ParserRetries,  \* config.parserRetries
    NoRow,          \* the answer of .first() when no row matches
    NoInput         \* a slot of Requests that runs no mutation

ById == {"favorite", "unfavorite", "archive", "unarchive", "delete", "undelete"}
Batch == {"saveArchive", "saveUnArchive", "saveFavorite", "saveUnFavorite"}
AllOps == ById \cup Batch \cup {"upsert"}

ZeroDate == 0       \* '0000-00-00 00:00:00', UNIX_TIMESTAMP 0
Dates == Times \cup {ZeroDate}

Statuses == {"UNREAD", "ARCHIVED", "DELETED"}

Row == [status: Statuses, favorite: BOOLEAN, time_read: Dates, time_favorited: Dates]

EventTypes == {"ADD_ITEM", "DELETE_ITEM", "FAVORITE_ITEM", "UNFAVORITE_ITEM",
               "ARCHIVE_ITEM", "UNARCHIVE_ITEM"}

(* The arguments of a mutation: a batch names several ids, every other     *)
(* mutation one; the *ByUrl variants and the upsert start at the Parser;   *)
(* only the upsert has an isFavorite argument.                             *)
Input ==
    {i \in [op: Ops, saves: SUBSET Saves, byUrl: BOOLEAN, isFavorite: BOOLEAN, ts: Times] :
        /\ i.saves # {}
        /\ i.op \notin Batch => \E s \in Saves : i.saves = {s}
        /\ i.op \in Batch => ~i.byUrl
        /\ i.op = "upsert" => i.byUrl
        /\ i.isFavorite => i.op = "upsert"}

ASSUME TimesAssumption == Times \subseteq Nat \ {0}
ASSUME OpsAssumption == Ops \subseteq AllOps
ASSUME RetriesAssumption == ParserRetries \in Nat \ {0}
ASSUME NoRowAssumption == NoRow \notin Row
ASSUME NoInputAssumption == NoInput \notin Input

VARIABLES
    list,           \* the committed rows of the user in the list table
    attached,       \* the saves with rows in item_tags, item_attribution, items_scroll
    pc,             \* where each request is
    input,          \* its arguments
    tries,          \* Parser calls it has left
    seen,           \* the row it read before its transaction
    answer,         \* what it answers to the client
    events,         \* the events it called emitItemEvent for
    before,         \* history: the row its committed transaction found
    touched,        \* history: the tables its committed transaction changed
    statusAtDelete  \* history: the status a save had when it was deleted

requestVars == <<pc, input, tries, seen, answer, events, before, touched>>
vars == <<list, attached, pc, input, tries, seen, answer, events, before, touched, statusAtDelete>>

Steps == {"idle", "lookup", "preread", "write", "readback", "answered"}

TypeOK ==
    /\ list \in [Saves -> Row \cup {NoRow}]
    /\ pc \in [Requests -> Steps]
    /\ input \in [Requests -> Input \cup {NoInput}]
    /\ tries \in [Requests -> 0..ParserRetries]
    /\ seen \in [Requests -> Row \cup {NoRow}]
    /\ answer \in [Requests -> {"none", "ok", "notFound", "error"}]
    /\ events \in [Requests -> SUBSET EventTypes]
    /\ attached \subseteq Saves
    /\ before \in [Requests -> Row \cup {NoRow}]
    /\ touched \in [Requests -> SUBSET {"list", "attached"}]
    /\ statusAtDelete \in [Saves -> Statuses]
    /\ \A r \in Requests : pc[r] # "idle" => input[r] \in Input

Init ==
    /\ list = [s \in Saves |-> NoRow]
    /\ attached = {}
    /\ pc = [r \in Requests |-> "idle"]
    /\ input = [r \in Requests |-> NoInput]
    /\ tries = [r \in Requests |-> ParserRetries]
    /\ seen = [r \in Requests |-> NoRow]
    /\ answer = [r \in Requests |-> "none"]
    /\ events = [r \in Requests |-> {}]
    /\ before = [r \in Requests |-> NoRow]
    /\ touched = [r \in Requests |-> {}]
    /\ statusAtDelete = [s \in Saves |-> "UNREAD"]

-----------------------------------------------------------------------------
(* What each transaction writes to the row it is given *)

WithFavorite(row, favorite, ts) ==
    [row EXCEPT !.favorite = favorite,
                !.time_favorited = IF favorite THEN ts ELSE ZeroDate]

(* Mutant of WithArchived: un-archiving keeps time_read, as the batch does *)
WithArchivedKeepsTimeRead(row, archived, ts) ==
    [row EXCEPT !.status = IF archived THEN "ARCHIVED" ELSE "UNREAD",
                !.time_read = IF archived THEN ts ELSE @]

WithArchived(row, archived, ts) ==
    [row EXCEPT !.status = IF archived THEN "ARCHIVED" ELSE "UNREAD",
                !.time_read = IF archived THEN ts ELSE ZeroDate]

WithDeleted(row) == [row EXCEPT !.status = "DELETED"]

(* Mutant of WithUndeleted: everything comes back unread *)
WithUndeletedUnread(row, seenTimeRead) == [row EXCEPT !.status = "UNREAD"]

(* updateSavedItemUnDelete decides from the time_read it read earlier *)
WithUndeleted(row, seenTimeRead) ==
    [row EXCEPT !.status = IF seenTimeRead = ZeroDate THEN "UNREAD" ELSE "ARCHIVED"]

(* INSERT ... ON DUPLICATE KEY UPDATE of every column *)
UpsertedRow(favorite, ts) ==
    [status |-> "UNREAD", favorite |-> favorite, time_read |-> ZeroDate,
     time_favorited |-> IF favorite THEN ts ELSE ZeroDate]

(* Mutants of the batches: archive without time_read, un-favorite without  *)
(* time_favorited                                                          *)
archiveListRowNoTime(row, ts) == [row EXCEPT !.status = "ARCHIVED"]
unFavoriteListRowNoTime(row, ts) == [row EXCEPT !.favorite = FALSE]

(* The batches skip a row that has the value already; time_read is set     *)
(* by the un-archive too, and the null time_favorited becomes the zero     *)
(* date of the NOT NULL column (sql_mode is NO_ENGINE_SUBSTITUTION).       *)
archiveListRow(row, ts) ==
    IF row.status = "ARCHIVED" THEN row
    ELSE [row EXCEPT !.status = "ARCHIVED", !.time_read = ts]

unArchiveListRow(row, ts) ==
    IF row.status = "UNREAD" THEN row
    ELSE [row EXCEPT !.status = "UNREAD", !.time_read = ts]

favoriteListRow(row, ts) ==
    IF row.favorite THEN row
    ELSE [row EXCEPT !.favorite = TRUE, !.time_favorited = ts]

unFavoriteListRow(row, ts) ==
    IF ~row.favorite THEN row
    ELSE [row EXCEPT !.favorite = FALSE, !.time_favorited = ZeroDate]

BatchRow(op, row, ts) ==
    CASE op = "saveArchive"    -> archiveListRow(row, ts)
      [] op = "saveUnArchive"  -> unArchiveListRow(row, ts)
      [] op = "saveFavorite"   -> favoriteListRow(row, ts)
      [] op = "saveUnFavorite" -> unFavoriteListRow(row, ts)

(* An UPDATE changes the rows that are there *)
Updated(saves, New(_)) ==
    [s \in Saves |-> IF s \in saves /\ list[s] # NoRow THEN New(list[s]) ELSE list[s]]

-----------------------------------------------------------------------------
(* The steps of a request *)

At(r, step) == pc[r] = step
Goto(r, step) == pc' = [pc EXCEPT ![r] = step]
Answer(r, a) == Goto(r, "answered") /\ answer' = [answer EXCEPT ![r] = a]
UnchangedRows == UNCHANGED <<list, attached, statusAtDelete>>

AfterLookup(op) == IF op \in {"upsert", "undelete"} THEN "preread" ELSE "write"

(* A mutation arrives *)
Start(r) ==
    /\ At(r, "idle")
    /\ \E i \in Input :
        /\ input' = [input EXCEPT ![r] = i]
        /\ Goto(r, IF i.byUrl THEN "lookup" ELSE AfterLookup(i.op))
    /\ UnchangedRows /\ UNCHANGED <<tries, seen, answer, events, before, touched>>

(* The Parser resolves the url to an item id *)
ParserFinds(r) ==
    /\ At(r, "lookup")
    /\ Goto(r, AfterLookup(input[r].op))
    /\ UnchangedRows /\ UNCHANGED <<input, tries, seen, answer, events, before, touched>>

(* getItemIdFromUrl answers null, createIfNone is false *)
ParserHasNoItem(r) ==
    /\ At(r, "lookup")
    /\ input[r].op # "upsert"
    /\ Answer(r, "notFound")
    /\ UnchangedRows /\ UNCHANGED <<input, tries, seen, events, before, touched>>

(* Mutants of ParserFails: one call too many; a retry that does not pass   *)
(* on the tries left and starts over                                       *)
ParserFailsOffByOne(r) ==
    /\ At(r, "lookup")
    /\ tries' = [tries EXCEPT ![r] = @ - 1]
    /\ IF tries[r] >= 0 THEN UNCHANGED <<pc, answer>> ELSE Answer(r, "error")
    /\ UnchangedRows /\ UNCHANGED <<input, seen, events, before, touched>>

ParserFailsStartsOver(r) ==
    /\ At(r, "lookup")
    /\ tries' = [tries EXCEPT ![r] = IF @ > 1 THEN @ - 1 ELSE ParserRetries]
    /\ UNCHANGED <<pc, answer>>
    /\ UnchangedRows /\ UNCHANGED <<input, seen, events, before, touched>>

(* sendRequest: a failed call costs a try; after the last one it throws *)
ParserFails(r) ==
    /\ At(r, "lookup")
    /\ tries' = [tries EXCEPT ![r] = @ - 1]
    /\ IF tries[r] > 1 THEN UNCHANGED <<pc, answer>> ELSE Answer(r, "error")
    /\ UnchangedRows /\ UNCHANGED <<input, seen, events, before, touched>>

(* upsertSavedItem reads the row it may replace, before its transaction *)
PreReadUpsert(r) ==
    /\ At(r, "preread")
    /\ input[r].op = "upsert"
    /\ \E s \in input[r].saves : seen' = [seen EXCEPT ![r] = list[s]]
    /\ Goto(r, "write")
    /\ UnchangedRows /\ UNCHANGED <<input, tries, answer, events, before, touched>>

(* updateSavedItemUnDelete reads time_read, before its transaction *)
PreReadUndelete(r) ==
    /\ At(r, "preread")
    /\ input[r].op = "undelete"
    /\ \E s \in input[r].saves :
        IF list[s] = NoRow
        THEN Answer(r, "notFound") /\ UNCHANGED seen
        ELSE Goto(r, "write") /\ seen' = [seen EXCEPT ![r] = list[s]] /\ UNCHANGED answer
    /\ UnchangedRows /\ UNCHANGED <<input, tries, events, before, touched>>

(* Every single-save mutation commits and goes on to read the row back *)
Committed(r, op) ==
    /\ At(r, "write")
    /\ input[r].op = op
    /\ Goto(r, "readback")
    /\ \E s \in input[r].saves : before' = [before EXCEPT ![r] = list[s]]
    /\ UNCHANGED <<input, tries, seen, answer, events>>

(* History of a transaction that commits: what it changed *)
Touches(r) ==
    touched' = [touched EXCEPT ![r] =
        {table \in {"list", "attached"} :
            IF table = "list" THEN list' # list ELSE attached' # attached}]

(* Mutant of FavoriteToWrite: the flag of the input alone *)
FavoriteToWriteInput(r) == input[r].isFavorite

(* Don't unfavorite an existing favorited item *)
FavoriteToWrite(r) ==
    \/ input[r].isFavorite
    \/ seen[r] # NoRow /\ seen[r].favorite

CommitUpsert(r) ==
    /\ Committed(r, "upsert")
    /\ list' = [s \in Saves |-> IF s \in input[r].saves
                                THEN UpsertedRow(FavoriteToWrite(r), input[r].ts)
                                ELSE list[s]]
    /\ UNCHANGED <<attached, statusAtDelete>>
    /\ Touches(r)

CommitFavorite(r) ==
    /\ \E op \in {"favorite", "unfavorite"} :
        /\ Committed(r, op)
        /\ list' = Updated(input[r].saves,
                           LAMBDA row : WithFavorite(row, op = "favorite", input[r].ts))
    /\ UNCHANGED <<attached, statusAtDelete>>
    /\ Touches(r)

CommitArchive(r) ==
    /\ \E op \in {"archive", "unarchive"} :
        /\ Committed(r, op)
        /\ list' = Updated(input[r].saves,
                           LAMBDA row : WithArchived(row, op = "archive", input[r].ts))
    /\ UNCHANGED <<attached, statusAtDelete>>
    /\ Touches(r)

(* Mutant of CommitDelete: a hard delete *)
CommitHardDelete(r) ==
    /\ Committed(r, "delete")
    /\ list' = [s \in Saves |-> IF s \in input[r].saves THEN NoRow ELSE list[s]]
    /\ UNCHANGED <<attached, statusAtDelete>>
    /\ Touches(r)

(* deleteSavedItem removes what hangs on the save, and then the row's      *)
(* status is set, if there is a row                                        *)
CommitDelete(r) ==
    /\ Committed(r, "delete")
    /\ attached' = attached \ input[r].saves
    /\ list' = Updated(input[r].saves, WithDeleted)
    /\ statusAtDelete' =
        [s \in Saves |->
            IF s \in input[r].saves /\ list[s] # NoRow /\ list[s].status # "DELETED"
            THEN list[s].status ELSE statusAtDelete[s]]
    /\ Touches(r)

CommitUndelete(r) ==
    /\ Committed(r, "undelete")
    /\ list' = Updated(input[r].saves, LAMBDA row : WithUndeleted(row, seen[r].time_read))
    /\ UNCHANGED <<attached, statusAtDelete>>
    /\ Touches(r)

(* writeToDatabase: every id must be there, or the batch is rolled back    *)
(* and the missing ids are answered; the rows come from the transaction.   *)
CommitBatch(r) ==
    /\ At(r, "write")
    /\ input[r].op \in Batch
    /\ \A s \in input[r].saves : list[s] # NoRow
    /\ list' = Updated(input[r].saves, LAMBDA row : BatchRow(input[r].op, row, input[r].ts))
    /\ Answer(r, "ok")
    /\ UNCHANGED <<attached, input, tries, seen, events, before, statusAtDelete>>
    /\ Touches(r)

BatchMissesId(r) ==
    /\ At(r, "write")
    /\ input[r].op \in Batch
    /\ \E s \in input[r].saves : list[s] = NoRow
    /\ Answer(r, "notFound")
    /\ UnchangedRows /\ UNCHANGED <<input, tries, seen, events, before, touched>>

(* A statement fails: an error outside of the transaction, or a rollback *)
DatabaseFails(r) ==
    /\ pc[r] \in {"preread", "write", "readback"}
    /\ Answer(r, "error")
    /\ UnchangedRows /\ UNCHANGED <<input, tries, seen, events, before, touched>>

(* Mutant of UpsertEvents: FAVORITE_ITEM for every isFavorite upsert *)
UpsertEventsFavoriteAlways(r) ==
    {e \in EventTypes :
        \/ e = "UNARCHIVE_ITEM" /\ seen[r] # NoRow /\ seen[r].status = "ARCHIVED"
        \/ e = "ADD_ITEM" /\ seen[r] = NoRow
        \/ e = "FAVORITE_ITEM" /\ input[r].isFavorite}

UpsertEvents(r) ==
    {e \in EventTypes :
        \/ e = "UNARCHIVE_ITEM" /\ seen[r] # NoRow /\ seen[r].status = "ARCHIVED"
        \/ e = "ADD_ITEM" /\ seen[r] = NoRow
        \/ e = "FAVORITE_ITEM" /\ input[r].isFavorite /\ ~(seen[r] # NoRow /\ seen[r].favorite)}

EventsOf(r) ==
    CASE input[r].op = "upsert"     -> UpsertEvents(r)
      [] input[r].op = "favorite"   -> {"FAVORITE_ITEM"}
      [] input[r].op = "unfavorite" -> {"UNFAVORITE_ITEM"}
      [] input[r].op = "archive"    -> {"ARCHIVE_ITEM"}
      [] input[r].op = "unarchive"  -> {"UNARCHIVE_ITEM"}
      [] input[r].op = "delete"     -> {"DELETE_ITEM"}
      [] OTHER                      -> {}

(* Mutant of ReadBackFinds: the null check is dropped *)
ReadBackUnchecked(r) ==
    /\ At(r, "readback")
    /\ Answer(r, "ok")
    /\ events' = [events EXCEPT ![r] = EventsOf(r)]
    /\ UnchangedRows /\ UNCHANGED <<input, tries, seen, before, touched>>

(* getSavedItemById after the commit, then the events *)
ReadBackFinds(r) ==
    /\ At(r, "readback")
    /\ \E s \in input[r].saves : list[s] # NoRow
    /\ Answer(r, "ok")
    /\ events' = [events EXCEPT ![r] = EventsOf(r)]
    /\ UnchangedRows /\ UNCHANGED <<input, tries, seen, before, touched>>

(* Mutant of ReadBackMisses: a deleted row reads as missing *)
ReadBackHidesDeleted(r) ==
    /\ At(r, "readback")
    /\ \A s \in input[r].saves : list[s] # NoRow => list[s].status = "DELETED"
    /\ Answer(r, IF input[r].op = "upsert" THEN "error" ELSE "notFound")
    /\ UnchangedRows /\ UNCHANGED <<input, tries, seen, events, before, touched>>

ReadBackMisses(r) ==
    /\ At(r, "readback")
    /\ \A s \in input[r].saves : list[s] = NoRow
    /\ Answer(r, IF input[r].op = "upsert" THEN "error" ELSE "notFound")
    /\ UnchangedRows /\ UNCHANGED <<input, tries, seen, events, before, touched>>

(* The answer leaves; the slot is free for the user's next mutation *)
Respond(r) ==
    /\ At(r, "answered")
    /\ Goto(r, "idle")
    /\ input' = [input EXCEPT ![r] = NoInput]
    /\ tries' = [tries EXCEPT ![r] = ParserRetries]
    /\ seen' = [seen EXCEPT ![r] = NoRow]
    /\ answer' = [answer EXCEPT ![r] = "none"]
    /\ events' = [events EXCEPT ![r] = {}]
    /\ before' = [before EXCEPT ![r] = NoRow]
    /\ touched' = [touched EXCEPT ![r] = {}]
    /\ UnchangedRows

Lookup(r) == ParserFinds(r) \/ ParserHasNoItem(r) \/ ParserFails(r)
PreRead(r) == PreReadUpsert(r) \/ PreReadUndelete(r)
Commit(r) == CommitUpsert(r) \/ CommitFavorite(r) \/ CommitArchive(r)
             \/ CommitDelete(r) \/ CommitUndelete(r) \/ CommitBatch(r) \/ BatchMissesId(r)
ReadBack(r) == ReadBackFinds(r) \/ ReadBackMisses(r)

Continue(r) ==
    Lookup(r) \/ PreRead(r) \/ Commit(r) \/ DatabaseFails(r) \/ ReadBack(r) \/ Respond(r)

(* Tag mutations and other services attach rows to a save or remove them;  *)
(* createSavedItemTags does not ask whether the save is in the list.       *)
OthersAttach(s) ==
    /\ \/ attached' = attached \cup {s}
       \/ attached' = attached \ {s}
    /\ UNCHANGED <<list, statusAtDelete>> /\ UNCHANGED requestVars

Next ==
    \/ \E r \in Requests : Start(r) \/ Continue(r)
    \/ \E s \in Saves : OthersAttach(s)

Spec == Init /\ [][Next]_vars

(* Every awaited call of a started request settles, with a value or an     *)
(* error: an assumption about the Parser, MySQL and their client           *)
(* libraries; the event loop runs the callbacks.                           *)
Fairness == \A r \in Requests : WF_vars(Continue(r))

FairSpec == Spec /\ Fairness

-----------------------------------------------------------------------------
(* Properties that hold for any number of concurrent requests *)

(* favorite and time_favorited agree in every committed row, whichever of  *)
(* the upsert, the single-save and the batch mutations wrote them last:    *)
(* favoritedAt (transformListRow, buildQuery) and the FAVORITED_AT sort    *)
(* rely on both columns.                                                   *)
FavoriteTimeConsistent ==
    \A s \in Saves : list[s] # NoRow => (list[s].favorite <=> list[s].time_favorited # ZeroDate)

(* "SavedItem does not exist" is answered only when the mutation found no  *)
(* row of the save and changed none, although the UPDATE and the read-back *)
(* that decides the answer are two statements and others write in between. *)
(* It may follow a write all the same: a delete has removed the tags,      *)
(* attribution and scroll position of the save by then; no other mutation  *)
(* has written anything.                                                   *)
NotFoundKeepsList ==
    \A r \in Requests : answer[r] = "notFound" =>
        /\ before[r] = NoRow
        /\ touched[r] \subseteq (IF input[r].op = "delete" THEN {"attached"} ELSE {})

(* The upsert that inserts a row announces it: it decides about ADD_ITEM   *)
(* from a read made before its transaction, and is not fooled by a row     *)
(* that was there then and is gone at the insert.                          *)
EveryInsertAnnounced ==
    \A r \in Requests :
        /\ answer[r] = "ok"
        /\ input[r].op = "upsert"
        /\ before[r] = NoRow
        => "ADD_ITEM" \in events[r]

(* Every started mutation is answered: the Parser retries are bounded and  *)
(* every failure of a step ends the request.                               *)
EveryRequestAnswered ==
    \A r \in Requests : pc[r] # "idle" ~> pc[r] = "answered"

-----------------------------------------------------------------------------
(* Why the invariants above hold: rows are never removed, so a row that a  *)
(* request has seen before its transaction, or updated in it, is there at  *)
(* its later steps.                                                        *)

(* A request whose lookup is not over has a Parser call left. *)
TriesLeft == \A r \in Requests : pc[r] \in {"idle", "lookup"} => tries[r] > 0

(* A request has an answer at its last step only, has seen a row only      *)
(* after its pre-read and has found or changed one only after its commit.  *)
InOrder ==
    \A r \in Requests :
        /\ pc[r] # "answered" => answer[r] = "none"
        /\ pc[r] \in {"idle", "lookup", "preread"} => seen[r] = NoRow
        /\ pc[r] \in {"idle", "lookup", "preread", "write"} => before[r] = NoRow /\ touched[r] = {}
        /\ pc[r] = "readback" => input[r].op \notin Batch

(* The row of the pre-read is still there at the commit and the read-back. *)
SeenStands ==
    \A r \in Requests :
        pc[r] \in {"write", "readback"} /\ seen[r] # NoRow
            => \A s \in input[r].saves : list[s] # NoRow

(* The row that was found or written is still there at the read-back, and  *)
(* what hangs on the save was changed by a delete only.                    *)
BeforeStands ==
    \A r \in Requests :
        pc[r] = "readback" =>
            /\ before[r] # NoRow \/ "list" \in touched[r]
                  => \A s \in input[r].saves : list[s] # NoRow
            /\ "attached" \in touched[r] => input[r].op = "delete"

(* An upsert that inserted its row had not seen one. *)
InsertSawNone ==
    \A r \in Requests :
        pc[r] = "readback" /\ input[r].op = "upsert" /\ before[r] = NoRow
            => seen[r] = NoRow

IInv ==
    /\ TypeOK /\ TriesLeft
    /\ FavoriteTimeConsistent
    /\ InOrder /\ SeenStands /\ BeforeStands /\ InsertSawNone
    /\ NotFoundKeepsList /\ EveryInsertAnnounced

-----------------------------------------------------------------------------
(* Properties that hold when the user's mutations do not overlap *)

(* An archived row has the time it was archived at: archivedAt and the     *)
(* ARCHIVED_AT sort read time_read of an ARCHIVED row.                     *)
ArchivedHasTimeRead ==
    \A s \in Saves : list[s] # NoRow /\ list[s].status = "ARCHIVED"
                        => list[s].time_read # ZeroDate

(* A mutation of an existing save that answers with the save has updated   *)
(* it ("The updated SavedItem if it exists, or null if it doesn't").       *)
SuccessMeansApplied ==
    \A r \in Requests :
        answer[r] = "ok" /\ input[r].op \in ById => before[r] # NoRow

(* The events of an upsert say what its transaction changed: ADD_ITEM for  *)
(* a new row, UNARCHIVE_ITEM for one taken out of the archive,             *)
(* FAVORITE_ITEM for one that became a favorite.                           *)
UpsertEventsDescribeChange ==
    \A r \in Requests :
        answer[r] = "ok" /\ input[r].op = "upsert" =>
            LET was == before[r] IN
            /\ "ADD_ITEM" \in events[r] <=> was = NoRow
            /\ "UNARCHIVE_ITEM" \in events[r] <=> was # NoRow /\ was.status = "ARCHIVED"
            /\ "FAVORITE_ITEM" \in events[r]
                  <=> input[r].isFavorite /\ ~(was # NoRow /\ was.favorite)

(* The transaction of request r, a mutation of kind op, commits on save s *)
Commits(r, op, s) ==
    /\ pc[r] = "write" /\ pc'[r] = "readback"
    /\ input[r].op = op /\ s \in input[r].saves

(* An upsert without isFavorite leaves a favorite a favorite ("Don't       *)
(* unfavorite an existing favorited item").                                *)
UpsertKeepsFavorite ==
    [][\A r \in Requests, s \in Saves :
        Commits(r, "upsert", s) /\ list[s] # NoRow /\ list[s].favorite
            => list'[s].favorite]_vars

(* An undelete restores ARCHIVED exactly for a row with a nonzero          *)
(* time_read ("Restores 'archive' and 'unread' status depending on whether *)
(* there is a nonzero 'time_read' value").                                 *)
UndeleteFollowsTimeRead ==
    [][\A r \in Requests, s \in Saves :
        Commits(r, "undelete", s) /\ list[s] # NoRow
            => (list'[s].status = "ARCHIVED" <=> list'[s].time_read # ZeroDate)]_vars

(* An undelete gives a deleted row the status it was deleted with; holds   *)
(* for the mutations of the SavedItem model alone.                         *)
UndeleteRestoresStatus ==
    [][\A r \in Requests, s \in Saves :
        Commits(r, "undelete", s) /\ list[s] # NoRow /\ list[s].status = "DELETED"
            => list'[s].status = statusAtDelete[s]]_vars
=============================================================================
