# Verification of list-api

list-api is the GraphQL service behind a Pocket user's list: it saves urls,
archives, favorites, deletes and tags them, and pages through them. It keeps no
state of its own between requests; everything is in MySQL (InnoDB), and what makes
it hard is that the mutations of one user run on several servers at once, each as a
sequence of awaited statements of which only some are in one transaction.

This directory holds TLA+ models of the service, the TLC runs that check them,
and proofs checked by TLAPS. Paths below are relative to the repository.

    tlc -workers 2 -config SavedItems_concurrent.cfg MCSavedItems.tla
    tlapm SavedItems_proofs.tla

## The system

| Component | Source | State | Operations | Hard behaviour |
|---|---|---|---|---|
| Saved item mutations | `src/resolvers/mutation.ts`, `src/models/SavedItem.ts`, `src/models/pocketSave.ts`, `src/dataService/savedItemsService.ts`, `src/dataService/pocketSavesService.ts` | `list` | upsert; favorite, archive, delete, undelete by id or url; four batches | reads outside of the transaction, overlapping mutations, failures between steps |
| Shadow table | `syncShadowTable` in `savedItemsService.ts` | `list_schema_update` | copy of a row on each write, behind a feature flag | copies of overlapping writers |
| Parser caller | `src/externalCaller/parserCaller.ts` | none (external service) | url to item id | retries, null answers |
| Tags | `src/models/tag.ts`, `src/dataService/tagDataService.ts`, `src/dataService/usersMetaService.ts` | `item_tags`, `users_meta`, `list.time_updated` | create, delete, rename, replace, clear, batch update | multi-table transactions, statements that are not awaited, lists and checks read before the transaction, names that are sanitized |
| List pagination | `src/dataService/listPaginationService.ts`, `src/resolvers/user.ts`, `src/resolvers/tag.ts` | temporary tables of a pooled connection | page after/before a cursor, sorted and filtered | ties, zero dates, both ends of the list, connection reuse, a list that changes |
| Event delivery | `src/server/context.ts`, `src/businessEvents/` | in-process emitter, one Snowplow tracker; Kinesis, SQS, EventBridge, Snowplow | emit, transform, send | payload read after the answer, order, loss, the shared tracker |
| Data loaders | `src/dataLoader/` | per-request caches | batch and prime by id and url | pending keys, missing rows, order, stale entries |
| Context and routing | `src/server/context.ts`, `src/server/apollo.ts`, `src/database/client.ts` | two connection pools | reader or writer per request | decided from the text of the operation; a replica that lags |
| Queries and entity resolvers | `src/resolvers/`, `src/models/item.ts` | none | reads | none |
| Server, tracing, flags, AWS clients, infrastructure | `src/server/`, `src/featureFlags/`, `src/aws/`, `.aws/` | none modelled | wiring and I/O | none |

What must be true of each:

* **Saved items**: a row is consistent whichever mutation wrote it last (favorite
  with its date, archived with its date); the answer and the events of a mutation
  say what it did; nothing that another mutation did is lost; every mutation ends.
* **Write transactions**: all or nothing over the list, its shadow and the tables
  that hang off a save; the shadow row is never older than the list row. The shadow
  inserts of a batch that is the victim of a deadlock are the exception.
* **Tags**: a mutation makes of the associations what the schema says, and marks
  and announces the saves it changes; a refused one changes nothing; stored names
  are sanitized; one `users_meta` entry.
* **Pagination**: following the cursors visits every row that the filter selects
  once, in order; no request meets the tables of another.
* **Events**: each reaches every listener or is lost as a whole; its payload is
  consistent; the last one tells of the current state.
* **Loaders and routing**: every key is answered with its own row, or none; what a
  request finds by id it finds by url; a request reads what it wrote.

How they interact: a resolver calls the models, which call the data services on the
connection of the request's context; the tag mutations mark saves through
`updateListItemMany`; a mutation that has committed reads the save back and calls
`emitItemEvent`, which reads the tags without being awaited and hands the payload
to the listeners; the fields selected below a mutation load through the loaders.

## Modules

| Module | What it is |
|---|---|
| `SavedItems` | the mutations of saves, one action per awaited step of a request |
| `AtomicWrites` | what a write transaction promises: one step, or none |
| `MirroredWrites` | the same transactions statement by statement, on row locks; implements `AtomicWrites` |
| `TagMutations` | the nine tag mutations as requests: checks, reads, transaction, answer, events |
| `TagTransaction` | the tag transactions statement by statement on their connection, some of them not awaited |
| `ListFilter` | the filters: the conditions of the query, and what the schema says they select |
| `ListPagination` | a client that follows the cursors, statement by statement (extends `ListFilter`) |
| `ItemEvents` | the emitter, its listeners, microtasks, the tracker |
| `RequestContext` | connection, loaders and events of GraphQL requests (extends `ItemEvents`) |
| `MC...` | constants of these modules for TLC |
| `SavedItems_proofs`, `MirroredWrites_proofs`, `TagMutations_proofs`, `TagTransaction_proofs`, `ListPagination_proofs`, `RequestContext_proofs` | theorems and proofs about the module they are named for |
| `ListOrder_proofs` | lemmas about the sorting, the limits and the page table of `ListPagination` |

The models meet where one takes a part of another as a step: the transaction of
`SavedItems` is the atomic step that `MirroredWrites` implements, the transaction of
`TagMutations` is one step as long as its main thread hears of every failure, which
is what `TagTransaction` shows, and the steps before the read-back in
`RequestContext` are those of the other two.

### SavedItems

A request is `idle`, then goes through the steps its resolver awaits:

| Step | Code | Actions |
|---|---|---|
| `lookup` | `fetchIdFromUrl`, `getOrCreateItem`, both through `sendRequest` | `ParserFinds`, `ParserHasNoItem`, `ParserFails` |
| `preread` | `getSavedItemById` in `upsertSavedItem`, `getSavedItemTimeRead` in `updateSavedItemUnDelete` | `PreReadUpsert`, `PreReadUndelete` |
| `write` | the transaction | `CommitUpsert`, `CommitFavorite`, `CommitArchive`, `CommitDelete`, `CommitUndelete`, `CommitBatch`, `BatchMissesId` |
| `readback` | `getSavedItemById` after the commit, the null check and the events | `ReadBackFinds`, `ReadBackMisses` |
| any database step | the promise rejects | `DatabaseFails` |
| `answered` | the response | `Respond` |

A row keeps `status`, `favorite`, `time_read` and `time_favorited`, the columns
the mutations decide about. `attached` has the saves with rows in the tables that a
delete empties (`item_tags`, `item_attribution`, `items_scroll`). Such rows do not
need one in `list`: only two of the tag mutations check that the save exists, and
the other tables are written elsewhere (`OthersAttach`). So a delete of a save without a
row commits those DELETEs and then answers that there is no such save, which is why
`NotFoundKeepsList` speaks of the list and excepts what hangs on a save.
`before`, `touched` (what a request's transaction has changed) and `statusAtDelete`
are history variables: no action reads them. Timestamps are members of `Times` (any value but the zero date).
HIDDEN, the fourth status of the enum, is written by nothing in this service.

### MirroredWrites and AtomicWrites

Every write transaction is: deletes of attached rows (for a delete), UPDATE or
upsert of the rows one by one, SELECT of them on the transaction, a copy of what
was selected into `list_schema_update` if the flag was on when the service object
was made, COMMIT. A failure anywhere, or the `NotFoundError` of a batch that
misses an id, rolls back. InnoDB is modelled by what the code relies on: a
transaction sees committed rows and its own changes, and a row that a statement
scanned stays locked to the end, whether or not the statement changed it
(REPEATABLE READ). A failed statement or a lock wait timeout leads to the client's
`RollBack`, and so does a deadlock where each statement is awaited before the next.

A batch sends its shadow inserts at once (`Promise.all` in `writeToDatabase`). When
one of them is the victim of a deadlock (`Deadlock`), the server rolls back by itself
and gives up the locks, and the inserts queued behind it (`strays`) run in
autocommit (`StrayInsert`, `StrayFails`) before the client's ROLLBACK, which has
nothing left to undo. Shadow rows of a batch that never happened stay behind, against
"Batches should be atomic" (`pocketSavesService.ts:282`). The list and the attached
tables keep their atomicity; what is lost of the shadow is stated, not assumed
away: `AtomicWrites` has the abort and its stray writes as steps of its own
(`Abort`, `Stray`), and `ShadowMirrorsList` is about the rows whose last list writer
mirrored them and that no stray insert has written since (`freshFor`).

The content of a row is opaque here (`Values`); the order in which a delete
empties the three attached tables is left open.

`AtomicWrites` has no statements: a transaction is opened with its arguments and
then happens, or does not, or is a mirrored batch that the server aborts.
`WritesAreAtomic` is `AtomicWrites!Spec` under the mapping that takes every open
statement position to "open" and the victim of a deadlock to "aborted".

### TagMutations

`tags` is the table `item_tags`: pairs of a save and a name. A tag exists only as
its associations; its id encodes its name. A name is what the code tells apart: a
word (the first 25 characters), whether it has capitals, whether it has quotes and
how often they have been escaped, so that `sanitizeTagName` is modelled by what it
does, including that escaping an escaped name changes it.

| Step | Code | Actions |
|---|---|---|
| `lookup` | `ParserCaller.getItemIdFromUrl` of the mutation by url | `Lookup` |
| `read`, `list` | what is read before the transaction: the items of a tag, the tag itself, the existence of saves | `ReadAffected`, `ReadOldTag`, `ReadAssociations`, `ReadExists`, `ReadCleared`, `ReadMissing` |
| `write` | the transaction | `WriteCreate`, `WriteUntag`, `WriteDeleteTag`, `WriteRename`, `WriteReplace`, `WriteClear`, `WriteBatch` |
| `fetch` | the saves or the tag that are read back, the null checks and the events | `FetchSaves`, `FetchUntag`, `FetchTag`, `FetchClear`, `FetchBatch` |
| any of them | a statement or the call fails | `Fail` |

`upsertSavedItem` and `deleteSavedItem` are the mutations of saves that matter here:
a row is inserted; a save is deleted with its tags, while its row, if there is one,
stays. Names are compared exactly; the column has a case-insensitive collation
(`schema.sql`), which makes no difference to names without capitals, as
`StoredNamesSanitized` says the stored ones are, but can for accents. `marked`,
`changed` and `overtaken` are history variables: the saves whose `time_updated` the
last step wrote, the saves whose tags a request changed and has not announced, and
the requests between whose list and transaction another mutation came.

What the properties except, because the code does so: the batch update does not
mark the saves it only removes tags from, and emits no event (a TODO in the code);
`deleteTag` and `updateTag` emit none; a rename or a deletion that was overtaken may
leave a save unmarked; and three kinds of inputs (`Unusual`) make of the tags
something else than the schema says: a rename to the name the tag has once it is
sanitized, a save that is to have no tags in `replaceSavedItemTags`, and the id of a
tag with a quote in `updateSavedItemTags`, which is escaped again.

### TagTransaction

Every tag mutation is one transaction that changes `item_tags`, marks items in
`list` (and, with the flag, in the shadow table) and replaces the user's entry in
`users_meta`. `updateListItemMany` does not await its batches, so the transaction
has threads of its own that send statements on the same connection. The module
keeps that connection: `queue` holds the statements issued and not answered, in
order, `script` what the main thread has left to do.

| Action | Code |
|---|---|
| `Begin` | `db.transaction(...)` and the first statements of its callback |
| `ExecuteMain`, `FailMain` | a statement the callback awaits succeeds, or rejects it |
| `ExecuteBackground`, `FailBackground` | a statement of a batch of `updateListItemMany` succeeds, or rejects a promise that nobody holds |
| `Commit`, `Rollback` | Knex's last statement |
| `Deadlock` | InnoDB rolls the transaction back; the connection goes on in autocommit |
| `ConnectionLost` | everything queued is rejected; the COMMIT may have happened |
| `Close` | the connection returns to the pool |

It relies on mysql2 sending the commands of a connection one at a time and in
order, on Knex refusing statements on a completed transaction, and on the Sentry
handler that keeps an unhandled rejection from ending the process. Of the locks
only those on the user's `users_meta` entries are modelled, where all tag
mutations of a user meet. Which tags and items a statement touches is left out:
`durable` and `pending` say which of the transaction's writes happened.

### ListFilter and ListPagination

A request takes a connection, drops the temporary tables that may be on it, creates
those it needs (the page; the highlighted saves; the saves with one of the tags),
fills them, and selects the page. Without a cursor that is one query
(`pageFirstLast`); with one it is the rows with the time of the cursor, cut after
the cursor's (`CollisionsSuffice`, `CursorNotFound`), and, if they are not enough,
the rows beyond (`CollisionsDoNotSuffice`, `RestOfPage`). `Fail` is a statement that
fails anywhere; `AddSave`, `Archive` and `Tag` change the list between any two
statements. The client goes on with the cursor it was given until there is no more.

What is modelled by what it does: `ORDER BY` the column and then `item_id`, always
ascending (`OrderBy`: the sequence of the rows that is in this order), and the reversal of pages from the end; the page table of the MEMORY
engine, which hands out the slots of deleted rows again, the last one first, and is
read without `ORDER BY`; the cursor of a zero date, which is null, is found with
`IS NULL` (true of a zero date in a `NOT NULL` column) and compares to nothing.
`ListFilter` has the conditions and joins of `buildFilterQuery` next to what
`SavedItemsFilter` says in the schema (`Wanted`), so that the order and the content
of the pages are compared with the schema and not with the query. `totalCount` and
the filter `tagIds`, which `buildFilterQuery` does not look at, are left out.

`WalksVisitInOrderIfWalkable` holds as long as the times of the sort column all
differ and the walk does not go up from a zero date; the run `ListPagination_ties`
shows what happens otherwise when paging backwards. Paging forwards loses ties when
the slots of deleted rows are handed out again.

### ItemEvents and RequestContext

`ItemEvents` is the emitter of one server process. `emitItemEvent` calls the
listeners in the order in which `startServer` registers them; each runs to its
first await, and what follows it is a microtask: node runs all of them before the
next callback (`BetweenCallbacks` guards every other action). `IsSent` is what the
transformers answer null for. Before its first await the Snowplow handler gives the
one tracker of the process the information of the request; the microtask tracks.

`RequestContext` adds what a request carries: the connection that `contextConnection`
chooses by the first word of the text, the loaders, and events under way. The fields
of a mutation are resolved one after the other: each writes a save (`Mutate`), reads
it back, announces it (`ReadBack`), and loads what is selected below it (`Load`,
`Fetch`). Rows are versions: every committed mutation of a save, its tags included,
makes the next one, and the replica follows (`Replicate`). `Load` is one tick: a
loader sends one query for the keys it was asked for in it; `Primed` is what the
loaders of saves tell each other, which never replaces a key that is there or
pending; a batch that fails is forgotten. Priming works in one direction only. A
save that is loaded by id is primed by its url. A save that is loaded by url is primed
by `item.id`, which is a number (`item_id AS id`, `savedItemsService.ts:111`; the
conversion at `tag.ts:214`), while loads by id ask for the GraphQL ID, a string
(`resolvers/index.ts:106`): the Map behind the cache never matches the two. The
comment "Each loader fills the cache of the other" (`savedItemsDataLoader.ts:52-57`)
is false in this direction; its test (`context.spec.ts:189`) mocks a row with a
string id. No resolver loads by url and then by id today. `FoundByIdIsFoundByUrl`
says what does hold, and excepts that order. The payload of an event is `asked`, `read`,
`emitted`, or `lost` with its tags; the event bus takes events in any order.

`emitItemEvent` returns at once for a save that is null; here the read-back has
checked that before (`ReadBackFails`), so that branch is left out.

One event per field is modelled: the upsert of a favorite emits two, and the second
is under way beside the first like an event of another request. A loader that has a
save keeps it, so a later field of the same mutation may see an older version of a
save it has changed; `ReadsOwnWrites` says what does hold, from the first time on
that a save is asked for. `excused` is a history variable: the saves that were
written while an event of them was under way (such events overtake each other), or
by a mutation whose read-back failed.

## Runs

| Run | Instance | What it shows |
|---|---|---|
| `SavedItems_sequential` | 1 request slot, 2 saves, all mutations, 1 timestamp, 2 Parser calls (`ParserRetries`), fairness | when a user's mutations do not overlap, answers, events and rows agree with what each mutation found; every mutation is answered |
| `SavedItems_concurrent` | 2 slots, 1 save, 6 mutations, others that attach data | what holds under any overlap |
| `MirroredWrites` | 2 transactions of all kinds, 2 saves, 2 contents, 1 attached table | mirroring, and atomicity of batches and of deletes while others attach data and deadlocks abort mirrored batches |
| `TagTransaction` | 2 transactions, 5 kinds, 1 batch, all failures, fairness | as long as the main thread hears of each failure, all or nothing; one `users_meta` entry; nothing sent after the COMMIT; no mutation waits forever |
| `TagMutations` | 2 saves, 2 words, `r1` with any kind of mutation, `r2` with one that adds, removes, renames or deletes, fairness | what is stored, marked, announced, refused and answered when mutations overlap |
| `ListPagination` | 1 client, 1 connection, 3 saves, 9 lists, 28 ways to page, fairness | walks in order from both ends, in both directions, with every kind of filter, while the list changes and statements fail |
| `RequestContext` | 2 requests of one or two steps, 2 saves, 8 workloads, fairness | read your writes, what is found by id is found by url, payloads, the tracker, the last event, each event settles |

The bounds:

* `SavedItems`: the races are between one request's two reads or writes and one
  other request, on one row, so two slots and one save meet all of them; a slot is
  reused without limit, so the histories have any length. Six mutations take all
  the ways through a request; the other five differ from one of these in the row
  they write, which the sequential run and the proofs cover. Two saves matter to
  batches only (some ids there, some missing), and one slot suffices for that.
  One timestamp other than the zero date suffices, for the properties ask
  only whether a date is set; the proofs cover any number.
* `MirroredWrites`: one attached table tells a delete that is half done, on that
  table or on `list`, from one that is complete; the proofs cover any number.
* `TagTransaction`: a transaction meets another one only at `users_meta`, so two
  suffice. Of kinds that differ only in the names of their statements one is run;
  batches of one transaction advance in step, so that one shows what more would.
* `TagMutations`: what comes between the steps of a mutation matters only through
  the tables, so that the other request has the four kinds that add or remove rows
  of either; slots are reused. Two saves tell a batch that is partly refused, two
  words a tag from another; `work`, `WORK` and `mom's` are the names that sanitizing
  tells apart. `BatchMax` is 3, so that one of the batches is refused for its size.
  The proofs cover any inputs.
* `ListPagination`: with three saves a walk of pages of one or two has a first, a
  middle and a last page. Times run to 4, and the newest second of a list is
  2 or 3 at first, so that the list changes once or twice in a run. One client and one connection: what a request leaves behind is
  met by the next one. Clients share nothing else than the list.
* `RequestContext`: every workload puts one hazard between two requests (two fields
  of one save; a loader asked by url after by id, or by both at once, while the other
  request writes; a save that is not there at first; a mutation below a comment). The proofs cover any
  number of requests, steps, saves and workloads.

Deadlock is checked but for `RequestContext`, whose requests are sent once and end.

Five runs expect a violation; each one is a place where the code does not do what
its comment or doc says, and PROJECT.json quotes both:

| Run | Property | Shows |
|---|---|---|
| `SavedItems_upsert_race` | `UpsertKeepsFavorite` | a favorite set between the upsert's read and its write is lost |
| `SavedItems_undelete_after_batch` | `UndeleteRestoresStatus` | the batch un-archive sets `time_read`, so the save is later undeleted as archived |
| `TagTransaction_unawaited_error` | `OkMeansAll` | the update of a batch fails unnoticed, the mutation commits and succeeds |
| `TagMutations_rename` | `WritesAsPromised` | a tag renamed to the name it has once it is sanitized loses all its saves |
| `ListPagination_ties` | `WalksVisitInOrder` | paging backwards skips one of two saves with the same time |

Each property passes where its cause is taken away: `UpsertKeepsFavorite` in
`SavedItems_sequential`; `UndeleteRestoresStatus` when `archive` and `unarchive` of
the other API take the place of the batch; `OkMeansAllIfHeard` in `TagTransaction`;
`UsualWritesAsPromised` in `TagMutations`; `WalksVisitInOrderIfWalkable` in
`ListPagination`. Three more disagreements were met and have no run of their own:
an archive or un-archive between the two halves of an undelete leaves a status
against `time_read` (`UndeleteFollowsTimeRead` with two slots); a mutation of a save
that does not exist yet succeeds without effect when the save is inserted before its
read-back (`SuccessMeansApplied` with two slots); and when an un-awaited batch is the
victim of a deadlock, the statements queued behind it run in autocommit.

### Fairness

Weak fairness only, and always of the code's own steps:

* `SavedItems`: `Continue(r)` for each request. Every step of a started request
  awaits an HTTP call or a database call, and the event loop runs the continuation.
  That each call settles, with an answer or an error, is an assumption about the
  Parser, MySQL, the network and their client libraries: this code sets a timeout
  only for getting a connection (`database/client.ts`). Nothing is assumed about
  which answer comes: the Parser may fail forever, the database at every step.
* `TagTransaction`: `Answer(t)`. The server answers the statement at the head of a
  connection, or refuses it when its wait for a lock times out; neither a deadlock
  nor the loss of the connection is counted on.
* `TagMutations`: `Step(r)`; `ListPagination`: `Statement(c)`. The database answers;
  failures are possible and never counted on.
* `RequestContext`: the next microtask, each request's and each event's next
  callback. That every query and every call to an AWS client is answered, with
  success or an error, is again an assumption about the environment.

Nothing is assumed of clients, who need not send anything, nor of the replica, which
may stay behind forever.

## Proofs

Each theorem is about every value of the constants that the ASSUMEs of its module
allow, and follows from an inductive invariant, which the runs of `SavedItems` and
`MirroredWrites` check as well (`IInv`).

`SavedItems_proofs` (any number of saves, requests, timestamps, retries, any subset
of the mutations; assumptions: timestamps are positive, there is at least one Parser
call, the two markers are not rows or inputs):

* `TypeCorrect`: `TypeOK`, with `TriesLeft` (a lookup that goes on has a call
  left), without which the retry counter could become negative.
* `FavoriteTimeAlwaysConsistent`: inductive with `TypeOK`; the case split is on
  the writes, not on the actions: `WritesKeepFavoriteTime` says that each of the
  row functions keeps the two columns in agreement.
* `Inductive`, `NotFoundLeavesList`, `InsertsAreAnnounced`: the answer to a
  mutation comes from reads that are not in its transaction, so what makes it right
  is that rows are never removed. `SeenStands` and `BeforeStands` say so for the
  row a request read and the row its transaction found; `InsertSawNone` follows
  for an upsert that inserted, and `InOrder` relates these variables to the step
  the request is at. The proof treats the requests other than the one that moves
  once (`WaitingRequest`) and the one that moves by its step (`MovingRequest`).
* `ArchivedSavesHaveTime`, `SuccessIsApplied`, `UpsertEventsTrue`,
  `FavoritesSurviveUpserts`, `UndeletesFollowTimeRead` are about a user whose
  mutations do not overlap (`OneAtATime`: there is one request slot, which is used
  again and again). What a request has read is then still in the table when it
  writes (`InStep`). Without the hypothesis all five are false in the code and TLC
  finds it: it is the hypothesis of the run `SavedItems_sequential`.
* `UndeletesRestoreStatus` has a second hypothesis, that the batches are not among
  the mutations (`NoBatches`): then `time_read` tells archived saves from others
  (`TimeReadTells`). So the batch is the only reason for what the run
  `SavedItems_undelete_after_batch` shows.

`MirroredWrites_proofs` (any number of rows, transactions, contents, tables):

* `ShadowAlwaysMirrors`, `Inductive`: the invariant says what a transaction
  holds at each statement: the locks of its ids from the end of the write on, the
  rows it selected still those it would see, the copies complete at the commit if
  the flag is on. The victim of a deadlock holds nothing any more; of it the
  invariant says which copies may still come, of which rows, and with which content
  (`StraysOfBatch`). A stray copy takes its save out of `freshFor`, and the next
  mirrored write puts it back.
* `TransactionsAreAtomic`: from it, the commit is an atomic commit, the rollback
  an atomic rollback, a deadlock an abort, a stray copy that is written or fails
  a stray write, and every other statement a stutter.

`TagMutations_proofs` (any saves, words, inputs, limit and number of requests;
assumption: the inputs are well formed, and `BatchMax` is a number):

* The invariant has for each request what its checks have made sure of and what of
  it still stands when the transaction comes (`Checked`), what it still has to
  announce (`Unannounced`), and that a list that was not overtaken is complete
  (`ListStands`). It is needed because no check is in a transaction; the checks
  stand because rows of `list` are never removed (`OthersStand`).
* What the seven transactions have in common is `Effect`: the new table is well
  formed, differs from the old one on `Affected` saves only, and these are marked.
  One lemma per transaction shows it; everything else uses only the effect.
* `NamesSanitized`, `RefusalsChangeNothing`, `ChangesAnnounced` are invariants;
  `ChangesMarked`, `ChecksHold` and `WritesKeepPromises` are about steps.

`TagTransaction_proofs` (any number of transactions and batches, any kinds and
failures; assumptions: there is at least one batch, the marker is no arguments):

* The invariant of a transaction (`Well`) says what its script and the queue of its
  connection are in each phase (`Running`, `Committing`, `RollingBack`), and that of
  locks (`Locks`) who has locked the user's `users_meta` entries, where all of them meet.
* `BackgroundStaysAhead`: the threads of `updateListItemMany` are not awaited and yet
  never send anything after the COMMIT. The reason is a count: what a thread still has
  to send (`FollowUps`) is at most what the main thread has left in its script, and
  both advance by one answer at a time on one connection. It holds only because
  `logTagMutation`, two statements that are awaited, comes after the update of the list.
* `OkMeansAllHeard`, `ErrorsAreAtomic`: of every write of the mutation's program it is
  known whether it has happened, or where it still is: in the queue, in the script,
  or to be sent by a thread (`Accounted`, `StillToCome`), as long as no failure went
  unheard. At the COMMIT nothing is left to come, so everything has happened.
* `OneMetaEntry`: from `MetaInOrder`: the first statement of `logTagMutation` takes
  the lock, the second runs under it, and the COMMIT comes after both.

`RequestContext_proofs` (any number of requests with any workloads; assumptions:
the steps of a workload are steps, the markers are not versions):

* `OwnWritesRead`: `Floors` relates what a loader has to the version of the
  request's connection. A row that arrives is as new as the connection, which has
  whatever the request wrote (`UsesWriter`); a primed row is as new as the floor of
  the key by url, which was set when the save was asked for by id.
* `PayloadsConsistent`: an event is announced on the writer's connection only, whose
  versions grow between the read-back and the query of the tags (`PayloadsInOrder`).
* `TrackerNotMixedUp`: all microtasks there are belong to the request whose
  information the tracker has (`OwnTracker`): an event is emitted only when there
  are none.
* `LoadsConsistent`: `Consistent` says of the two keys of a save that the one by url
  is known only if it was asked for or the other was found, and that a key by id
  that waits is one of the current step. So when a row arrives by its id, the key by
  url was asked for by now (`UrlFirst`, the exception), or is free to be primed.
* `LastEventCurrent`: `Told` says which of the events of a save is the last one that
  was queued (`EventsInOrder`, `Queued`), and that for every save that is not
  excused the bus or an event on its way has the current version, unless a mutation
  is about to announce it (`ToldInOrder`). What was `excused` makes the difference:
  events of one save that are under way together overtake each other.

`ListPagination_proofs` (any number of clients, connections and saves, any ways to
page, any lists; assumptions: item ids are numbers and finitely many, times are
numbers with the zero date among them, the limit on ties is positive, the marker of
a missing value is no value):

* `ConnectionsNotShared`: a connection is held by one request, from its first
  statement to its last (`OneConnection`, `NotShared`). The run has one client and
  one connection; this is what makes others not matter to the tables.
* `NoTableIsLeft`: from it, what the drop has removed and the request has not made
  since (`Missing`) is on its connection at no statement (`NotMadeYet`), whatever
  the request before left there when it failed.
* `WalksInOrder`: the walk is compared with the saves that did not change since it
  began (`steady`). For these, the temporary tables of a request have the rows the
  schema wants and no other (`TablesTrue`), the cursor is what the client was given
  last (`CursorTrue`), and the saves the client has are those up to the time of the
  cursor, in order (`WalkTrue`, with `Reached`). The page that comes next begins
  with the first save beyond (`Unvisited`, `VisitsOn`), whether its rows are found
  with the cursor's time, beyond it, or both. It is here that the times must differ:
  only then is "beyond the cursor" the same as "of a later time".
* `CursorNotLost` has a hypothesis: at no time have more saves the same time than
  the LIMIT on ties (`TiesFit`), which is 5000 in the code
  (`listPaginationService.ts:343`); a list with more can lose the cursor's row
  behind that limit. In the run it is met by the number of saves.
* `TypeCorrect`: `TypeOK`; a page is never more than was asked for.

`ListOrder_proofs` has what these need of the operators, for every input: `OrderBy`
gives all rows, each once, in the order asked for (`OrderBySorts`); a `LIMIT` keeps
the first of them (`LimitLeads`); the page table is read completely (`ScanReads`)
and, if it had no row and at most one deleted slot, in the order in which it was
filled (`InsertKeepsOrder`), which is why ties break the order; and a page, cut at
one end or the other, begins with the rows that come next (`PageLeads`). Induction
over data is out of the prover's reach; the existence of a sorted sequence is proved
from a counterexample of the least size (`Least`) instead.

Two things the proofs found in the model, both repaired: two arms of a CASE that
overlapped, once among the follow-ups of a background thread and once among the
orders, so that TLC took the first and the meaning left it open.

Only model-checked: liveness (`EveryRequestAnswered`, `EveryMutationAnswered`,
`EveryTagRequestAnswered`, `WalksEnd`, `EveryEventSettles`), which is out of the
prover's reach. Every other property of a passing run is stated by a theorem; those
of `SavedItems_sequential` and `CursorLostOnlyByChange` with the hypotheses above.

## Plan

Every component that keeps state is modelled, and every safety property of a passing
run is proved. Left to prove: that `TagTransaction`, as long as its main thread hears
of each failure, implements the one-step transaction that `TagMutations` takes, as a
refinement of `AtomicWrites`' kind and not only through its two invariants.

PROJECT.json says of each hazard without a property why it has none.

## Not modelled

* Queries and entity resolvers: stateless reads and renaming of fields; the reads
  that mutations depend on are part of the mutations.
* `tagsById` and `tagsByName` of the loaders: no resolver uses them.
* Titles, urls and api ids of rows, the bodies of messages, the wording of errors.
* Apollo, Express, Sentry and X-Ray set-up; the feature flag service (the flag a
  transaction sees is an input); the AWS clients; the Terraform definitions and CI:
  wiring and I/O without state that a property is about.
