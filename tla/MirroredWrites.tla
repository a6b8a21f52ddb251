--------------------------- MODULE MirroredWrites ---------------------------
(***************************************************************************)
(* The write transactions of savedItemsService.ts and pocketSavesService,  *)
(* statement by statement, on InnoDB with REPEATABLE READ.                 *)
(*                                                                         *)
(* Every one of them has the same shape: (for a delete) remove what hangs  *)
(* off the save; UPDATE or INSERT ... ON DUPLICATE KEY UPDATE the rows;    *)
(* SELECT them back on the transaction; upsert what was selected into the  *)
(* shadow table list_schema_update when the mirrorWrites flag was on as    *)
(* the service was constructed; COMMIT.  Transactions interleave between   *)
(* statements and, in an UPDATE of several rows, between rows.             *)
(*                                                                         *)
(* A transaction sees the committed rows and its own changes; a row that   *)
(* a statement scans is locked until the transaction ends.                 *)
(*                                                                         *)
(* The statements of a transaction are awaited one by one, except for the  *)
(* copies of a batch: writeToDatabase sends them all at once (Promise.all).*)
(* When one of them is the victim of a deadlock, InnoDB rolls the          *)
(* transaction back by itself, and those queued behind it on the           *)
(* connection run before the client's ROLLBACK, each committed on its own. *)
(***************************************************************************)
CONSTANTS
    Saves,      \* item ids of one user
    Trxs,       \* connections of the pool with a transaction of this user
    Values,     \* contents of a list row, DeletedRow among them
    Tables,     \* item_tags, item_attribution, items_scroll
    Kinds,      \* the kinds of transactions the clients cause
    DeletedRow, \* the content of a soft-deleted row
    NoRow,      \* no row with this id
    NoArgs,     \* a slot of Trxs without a transaction
    Nobody      \* holds a row lock that is free

VARIABLES
    list, shadow, attached,     \* the committed tables
    args,       \* what each transaction is to do
    pc,         \* its next statement
    lock,       \* which transaction has locked a list row
    changed,    \* the list rows it has written
    removed,    \* the tables it has deleted its save's rows from
    read,       \* the rows its SELECT returned
    mirrored,   \* the shadow rows it has written
    strays,     \* its queued copies that outlive it, by save
    freshFor    \* history: the saves whose last writer mirrored them, and
                \* whose shadow row no stray copy has written since

(* The statements of a transaction are one step of AtomicWrites *)
Phase == [t \in Trxs |-> CASE pc[t] = "idle" -> "none"
                           [] pc[t] \in {"committed", "rolledBack"} -> pc[t]
                           [] pc[t] = "victim" -> "aborted"
                           [] OTHER -> "open"]

A == INSTANCE AtomicWrites WITH phase <- Phase

ASSUME KindsAssumption == Kinds \subseteq A!AllKinds
ASSUME DeletedRowAssumption == DeletedRow \in Values
ASSUME NoRowAssumption == NoRow \notin Values
ASSUME NoArgsAssumption == NoArgs \notin A!Args
ASSUME NobodyAssumption == Nobody \notin Trxs

tables == <<list, shadow, attached, freshFor>>
work == <<lock, changed, removed, read, mirrored, strays>>
vars == <<list, shadow, attached, args, pc, lock, changed, removed, read, mirrored, strays, freshFor>>

OpenSteps == {"detach", "write", "select", "mirror", "commit"}

TypeOK ==
    /\ list \in [Saves -> Values \cup {NoRow}]
    /\ shadow \in [Saves -> Values \cup {NoRow}]
    /\ attached \in [Saves -> SUBSET Tables]
    /\ args \in [Trxs -> A!Args \cup {NoArgs}]
    /\ pc \in [Trxs -> OpenSteps \cup {"idle", "victim", "committed", "rolledBack"}]
    /\ lock \in [Saves -> Trxs \cup {Nobody}]
    /\ changed \in [Trxs -> SUBSET Saves]
    /\ removed \in [Trxs -> SUBSET Tables]
    /\ read \in [Trxs -> [Saves -> Values \cup {NoRow}]]
    /\ mirrored \in [Trxs -> SUBSET Saves]
    /\ strays \in [Trxs -> SUBSET Saves]
    /\ freshFor \in SUBSET Saves
    /\ \A t \in Trxs : pc[t] # "idle" => args[t] \in A!Args

NoRows == [s \in Saves |-> NoRow]

Init ==
    /\ list = NoRows
    /\ shadow = NoRows
    /\ attached = [s \in Saves |-> {}]
    /\ args = [t \in Trxs |-> NoArgs]
    /\ pc = [t \in Trxs |-> "idle"]
    /\ lock = [s \in Saves |-> Nobody]
    /\ changed = [t \in Trxs |-> {}]
    /\ removed = [t \in Trxs |-> {}]
    /\ read = [t \in Trxs |-> NoRows]
    /\ mirrored = [t \in Trxs |-> {}]
    /\ strays = [t \in Trxs |-> {}]
    /\ freshFor = Saves

Goto(t, step) == pc' = [pc EXCEPT ![t] = step]
Held(t) == {s \in Saves : lock[s] = t}

(* The row as transaction t sees it *)
View(t, s) == IF s \in changed[t] THEN args[t].value ELSE list[s]

Begin(t) ==
    /\ pc[t] = "idle"
    /\ \E a \in A!Args :
        /\ args' = [args EXCEPT ![t] = a]
        /\ Goto(t, IF a.kind = "delete" THEN "detach" ELSE "write")
    /\ UNCHANGED <<tables, work>>

(* deleteSavedItem: DELETE FROM item_tags, item_attribution, items_scroll *)
Detach(t) ==
    /\ pc[t] = "detach"
    /\ \E table \in Tables \ removed[t] :
        removed' = [removed EXCEPT ![t] = @ \cup {table}]
    /\ UNCHANGED <<tables, args, pc, lock, changed, read, mirrored, strays>>

(* Mutant of Detached: the row is written while a DELETE is still to come *)
DetachedEarly(t) ==
    /\ pc[t] = "detach"
    /\ Goto(t, "write")
    /\ UNCHANGED <<tables, args, work>>

Detached(t) ==
    /\ pc[t] = "detach"
    /\ removed[t] = Tables
    /\ Goto(t, "write")
    /\ UNCHANGED <<tables, args, work>>

(* The UPDATE (or the upsert) reaches one more row: it waits for the row's *)
(* lock and writes it, unless there is no row to update or a batch finds   *)
(* the value there already (checkField != value).                          *)
Writes(a, row) ==
    \/ a.kind = "upsert"
    \/ row # NoRow /\ (a.kind = "batch" => row # a.value)

WriteRow(t, s) ==
    /\ pc[t] = "write"
    /\ s \in args[t].ids \ Held(t)
    /\ lock[s] = Nobody
    /\ lock' = [lock EXCEPT ![s] = t]
    /\ changed' = IF Writes(args[t], list[s])
                  THEN [changed EXCEPT ![t] = @ \cup {s}]
                  ELSE changed
    /\ UNCHANGED <<tables, args, pc, removed, read, mirrored, strays>>

Written(t) ==
    /\ pc[t] = "write"
    /\ args[t].ids \subseteq Held(t)
    /\ Goto(t, "select")
    /\ UNCHANGED <<tables, args, work>>

(* Mutants of Select: the SELECT of a batch without the check that every   *)
(* id was found; the SELECT on another connection than the transaction's   *)
SelectUnchecked(t) ==
    /\ pc[t] = "select"
    /\ read' = [read EXCEPT ![t] =
                    [s \in Saves |-> IF s \in args[t].ids THEN View(t, s) ELSE NoRow]]
    /\ Goto(t, IF args[t].mirror THEN "mirror" ELSE "commit")
    /\ UNCHANGED <<tables, args, lock, changed, removed, mirrored, strays>>

SelectOutside(t) ==
    /\ pc[t] = "select"
    /\ args[t].kind = "batch" => \A s \in args[t].ids : View(t, s) # NoRow
    /\ read' = [read EXCEPT ![t] =
                    [s \in Saves |-> IF s \in args[t].ids THEN list[s] ELSE NoRow]]
    /\ Goto(t, IF args[t].mirror THEN "mirror" ELSE "commit")
    /\ UNCHANGED <<tables, args, lock, changed, removed, mirrored, strays>>

(* SELECT on the transaction: getSavedItemByIdRaw, writeToDatabase.  A     *)
(* batch that misses an id throws NotFoundError, which rolls back.         *)
Select(t) ==
    /\ pc[t] = "select"
    /\ args[t].kind = "batch" => \A s \in args[t].ids : View(t, s) # NoRow
    /\ read' = [read EXCEPT ![t] =
                    [s \in Saves |-> IF s \in args[t].ids THEN View(t, s) ELSE NoRow]]
    /\ Goto(t, IF args[t].mirror THEN "mirror" ELSE "commit")
    /\ UNCHANGED <<tables, args, lock, changed, removed, mirrored, strays>>

(* syncShadowTable for one of the selected rows *)
MirrorRow(t, s) ==
    /\ pc[t] = "mirror"
    /\ read[t][s] # NoRow
    /\ s \notin mirrored[t]
    /\ mirrored' = [mirrored EXCEPT ![t] = @ \cup {s}]
    /\ UNCHANGED <<tables, args, pc, lock, changed, removed, read, strays>>

Mirrored(t) ==
    /\ pc[t] = "mirror"
    /\ \A s \in Saves : read[t][s] # NoRow => s \in mirrored[t]
    /\ Goto(t, "commit")
    /\ UNCHANGED <<tables, args, work>>

(* The transaction ends in the server: its locks are free, its work gone *)
Release(t) ==
    /\ lock' = [s \in Saves |-> IF lock[s] = t THEN Nobody ELSE lock[s]]
    /\ changed' = [changed EXCEPT ![t] = {}]
    /\ removed' = [removed EXCEPT ![t] = {}]
    /\ mirrored' = [mirrored EXCEPT ![t] = {}]

Forget(t) == read' = [read EXCEPT ![t] = NoRows]

Commit(t) ==
    /\ pc[t] = "commit"
    /\ list' = [s \in Saves |-> View(t, s)]
    /\ shadow' = [s \in Saves |-> IF s \in mirrored[t] THEN read[t][s] ELSE shadow[s]]
    /\ attached' = [s \in Saves |-> IF s \in args[t].ids THEN attached[s] \ removed[t]
                                    ELSE attached[s]]
    /\ freshFor' = (freshFor \ changed[t]) \cup mirrored[t]
    /\ Release(t) /\ Forget(t)
    /\ Goto(t, "committed")
    /\ UNCHANGED <<args, strays>>

(* The copy of row s, one of those a batch has sent, is the victim of a    *)
(* deadlock: the server rolls back, the copies behind it stay queued.      *)
Deadlock(t, s) ==
    /\ pc[t] = "mirror"
    /\ args[t].kind = "batch"
    /\ read[t][s] # NoRow
    /\ s \notin mirrored[t]
    /\ strays' = [strays EXCEPT ![t] = {x \in Saves : read[t][x] # NoRow} \ (mirrored[t] \cup {s})]
    /\ Release(t)
    /\ Goto(t, "victim")
    /\ UNCHANGED <<tables, args, read>>

(* A queued copy runs in autocommit; it waits for a transaction that has   *)
(* written the shadow row                                                  *)
StrayInsert(t, s) ==
    /\ s \in strays[t]
    /\ \A u \in Trxs : s \notin mirrored[u]
    /\ strays' = [strays EXCEPT ![t] = @ \ {s}]
    /\ shadow' = [shadow EXCEPT ![s] = read[t][s]]
    /\ freshFor' = freshFor \ {s}
    /\ UNCHANGED <<list, attached, args, pc, lock, changed, removed, read, mirrored>>

StrayFails(t, s) ==
    /\ s \in strays[t]
    /\ strays' = [strays EXCEPT ![t] = @ \ {s}]
    /\ UNCHANGED <<tables, args, pc, lock, changed, removed, read, mirrored>>

(* The client's ROLLBACK, after a statement failed (an error, a lock wait  *)
(* timeout, a deadlock) or the batch threw NotFoundError; the connection   *)
(* runs it after everything that was sent before.                          *)
RollBack(t) ==
    /\ pc[t] \in OpenSteps \cup {"victim"}
    /\ strays[t] = {}
    /\ Release(t) /\ Forget(t)
    /\ Goto(t, "rolledBack")
    /\ UNCHANGED <<tables, args, strays>>

Close(t) ==
    /\ pc[t] \in {"committed", "rolledBack"}
    /\ Goto(t, "idle")
    /\ args' = [args EXCEPT ![t] = NoArgs]
    /\ UNCHANGED <<tables, work>>

(* A tag mutation, or another service, inserts a row for the save; it      *)
(* waits for a transaction that has deleted that range.                    *)
Attach(s, table) ==
    /\ \A t \in Trxs : ~(table \in removed[t] /\ s \in args[t].ids)
    /\ attached' = [attached EXCEPT ![s] = @ \cup {table}]
    /\ UNCHANGED <<list, shadow, freshFor, args, pc, work>>

Step(t) ==
    \/ Begin(t) \/ Detach(t) \/ Detached(t)
    \/ \E s \in Saves : WriteRow(t, s) \/ MirrorRow(t, s)
    \/ \E s \in Saves : Deadlock(t, s) \/ StrayInsert(t, s) \/ StrayFails(t, s)
    \/ Written(t) \/ Select(t) \/ Mirrored(t) \/ Commit(t) \/ RollBack(t) \/ Close(t)

Next ==
    \/ \E t \in Trxs : Step(t)
    \/ \E s \in Saves, table \in Tables : Attach(s, table)

Spec == Init /\ [][Next]_vars

-----------------------------------------------------------------------------
(* Why a transaction can trust what it has read: the rows it works on stay *)
(* locked from its UPDATE to its end, and only the holder writes a row.    *)

(* Locks are taken by the write and kept to the end, on the ids alone; the *)
(* rows written are those the statement matched.                           *)
RowsLocked(t) ==
    /\ pc[t] \notin OpenSteps \ {"detach"} => Held(t) = {}
    /\ pc[t] # "idle" => Held(t) \subseteq args[t].ids
    /\ pc[t] \in {"select", "mirror", "commit"} => args[t].ids \subseteq Held(t)
    /\ changed[t] = {s \in Held(t) : Writes(args[t], list[s])}

(* What was selected is still what the transaction would see. *)
ReadStands(t) ==
    /\ pc[t] \in {"mirror", "commit"} =>
        /\ args[t].kind = "batch" => \A s \in args[t].ids : list[s] # NoRow
        /\ \A s \in Saves : read[t][s] = IF s \in args[t].ids THEN View(t, s) ELSE NoRow
    /\ pc[t] \notin {"mirror", "commit"} => mirrored[t] = {}

(* The copy is of selected rows, and complete at the commit if the flag is *)
(* on; a delete has emptied all tables before it writes the row.           *)
CopiedAndDetached(t) ==
    /\ \A s \in mirrored[t] : read[t][s] # NoRow
    /\ pc[t] = "mirror" => args[t].mirror
    /\ pc[t] = "commit" => mirrored[t] = {s \in Saves : args[t].mirror /\ read[t][s] # NoRow}
    /\ pc[t] = "detach" => args[t].kind = "delete"
    /\ pc[t] \in OpenSteps \ {"detach"} =>
        removed[t] = IF args[t].kind = "delete" THEN Tables ELSE {}
    /\ pc[t] \notin OpenSteps => removed[t] = {}

(* Only a mirrored batch leaves copies behind: of ids that had a row, not  *)
(* of all of its ids, each with the value the batch was to write.          *)
StraysOfBatch(t) ==
    /\ strays[t] # {} => pc[t] = "victim"
    /\ pc[t] = "victim" => args[t].kind = "batch" /\ args[t].mirror /\ strays[t] # args[t].ids
    /\ strays[t] \subseteq {s \in Saves : read[t][s] # NoRow}
    /\ \A s \in strays[t] : s \in args[t].ids /\ read[t][s] = args[t].value

TrxInv(t) == RowsLocked(t) /\ ReadStands(t) /\ CopiedAndDetached(t) /\ StraysOfBatch(t)

(* The shadow table is a copy of the list table, row by row, for every row *)
(* whose last writer had the mirrorWrites flag: a transaction of another   *)
(* request cannot slip between the UPDATE, the SELECT and the copy.  The   *)
(* one thing that takes a shadow row from its list row is a stray copy of  *)
(* a deadlocked batch, until the next mirrored write of that row.          *)
ShadowMirrorsList == \A s \in freshFor : shadow[s] = list[s]

IInv == TypeOK /\ (\A t \in Trxs : TrxInv(t)) /\ ShadowMirrorsList

(* Each transaction takes effect on the three kinds of tables at once: a   *)
(* batch on all its ids or none, a delete on the save and everything       *)
(* attached to it, a failed transaction on nothing, but for the shadow     *)
(* rows of a mirrored batch that was the victim of a deadlock in its       *)
(* copies.                                                                 *)
WritesAreAtomic == A!Spec
=============================================================================
