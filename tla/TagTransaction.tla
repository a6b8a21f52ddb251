--------------------------- MODULE TagTransaction ---------------------------
(***************************************************************************)
(* The transactions of tagDataService.ts, statement by statement, on the   *)
(* connection each of them runs on.                                        *)
(*                                                                         *)
(* A transaction is run by several threads of control.  The main one       *)
(* awaits its statements, one by one, or in the case of the deletes that   *)
(* Promise.all collects, together.  updateListItemMany starts one more per *)
(* batch of item ids and does not wait for them: the async callbacks it    *)
(* passes to flatMap return promises that nobody looks at.  They send      *)
(* their statements (UPDATE, and with the mirrorWrites flag SELECT and the *)
(* upsert of the shadow rows) between those of the main thread.            *)
(*                                                                         *)
(* mysql2 sends the statements of a connection one after the other, in the *)
(* order in which they were issued; a reply makes the thread that waits    *)
(* for it issue its next statement before the next reply is looked at.     *)
(* Knex refuses a statement on a transaction whose COMMIT or ROLLBACK has  *)
(* been issued.                                                            *)
(***************************************************************************)
EXTENDS Naturals, Sequences

CONSTANTS
    Trxs,       \* tag mutations of one user that can be in flight
    Kinds,      \* the kinds of transactions the clients cause
    MaxBatches, \* batches of maxTransactionSize ids, at most
    Failures,   \* what can go wrong, see AllFailures
    NoArgs      \* a slot of Trxs that runs no mutation

(* insert   insertTags                                                     *)
(* delete   deleteSavedItemAssociations                                    *)
(* rename   updateTagByUser                                                *)
(* drop     deleteTagObject                                                *)
(* replace  replaceSavedItemTags                                           *)
(* edit     updateSavedItemTags, and batchUpdateTags that adds tags        *)
(* clear    updateSavedItemRemoveTags                                      *)
(* remove   batchUpdateTags that adds none                                 *)
(* log      those of the above whose list of inputs is empty               *)
Forking == {"insert", "delete", "rename", "drop", "replace", "edit"}
AllKinds == Forking \cup {"clear", "remove", "log"}

(* awaited, unawaited:  the statement fails and leaves no trace (a lock    *)
(*                      wait timeout, an error of its data)                *)
(* deadlock:            the statement is the victim of a deadlock; InnoDB  *)
(*                      rolls the whole transaction back, and what comes   *)
(*                      after it on the connection commits by itself       *)
(* connection:          the connection is lost                             *)
AllFailures == {"awaited", "unawaited", "deadlock", "connection"}

(* Only a rename can find no item to touch *)
Args == {a \in [kind: Kinds, mirror: BOOLEAN, batches: 0..MaxBatches] :
            \/ a.kind = "rename"
            \/ a.kind \in Forking <=> a.batches > 0}

ASSUME KindsAssumption == Kinds \subseteq AllKinds
ASSUME BatchesAssumption == MaxBatches \in Nat \ {0}
ASSUME FailuresAssumption == Failures \subseteq AllFailures
ASSUME NoArgsAssumption == NoArgs \notin Args

VARIABLES
    args,       \* what each transaction is to do
    phase,      \* "idle", "running", "committing", "rollingBack" or "done"
    script,     \* the statements the main thread has not issued
    queue,      \* the statements issued on the connection and not answered
    mode,       \* "trx", or "autocommit" when the server has rolled back
    pending,    \* the writes of the transaction so far
    durable,    \* its writes that are committed
    answer,     \* what the mutation answers
    metaRows,   \* users_meta: who wrote the committed entries for tags
    gone,       \* the entries the transaction has deleted
    hold,       \* its lock on the entries: "none", "gap" or "rows"
    late,       \* history: who issued a statement after its COMMIT
    unheard     \* history: who had a rejection that nobody awaits

meta == <<metaRows, gone, hold>>
vars == <<args, phase, script, queue, mode, pending, durable, answer,
          metaRows, gone, hold, late, unheard>>

Main(stmt) == [thread |-> 0, stmt |-> stmt]
Background(i, stmt) == [thread |-> i, stmt |-> stmt]

(* chunk makes the batches; in the mutant it makes one too many *)
BatchesOffByOne(a) == 1..a.batches + 1
Batches(a) == 1..a.batches

(* The item update of updateListItemOne and of updateListItemMany *)
UpdateList(mirror) == IF mirror THEN <<"update", "select", "sync">> ELSE <<"update">>

(* Mutant of LogTagMutation: the old entry is not deleted *)
LogTagMutationInsertOnly == <<"insertMeta">>

LogTagMutation == <<"deleteMeta", "insertMeta">>

(* What the main thread does: "fork" is updateListItemMany, "deleteEach"   *)
(* the deletes of a Promise.all                                            *)
Program(a) ==
    (CASE a.kind = "insert"  -> <<"insertTags", "fork">>
       [] a.kind = "delete"  -> <<"deleteEach", "fork">>
       [] a.kind = "rename"  -> <<"renameTags", "fork", "deleteTags">>
       [] a.kind = "drop"    -> <<"deleteTags", "fork">>
       [] a.kind = "replace" -> <<"deleteEach", "insertTags", "fork">>
       [] a.kind = "edit"    -> <<"deleteTags", "insertTags", "fork">>
       [] a.kind = "clear"   -> <<"deleteTags">> \o UpdateList(a.mirror)
       [] a.kind = "remove"  -> <<"deleteTags">>
       [] a.kind = "log"     -> <<>>)
    \o LogTagMutation \o <<"commit">>

(* The statements it issues at once *)
Together(stmt) ==
    IF stmt = "deleteEach" THEN <<Main("deleteTags"), Main("deleteOtherTags")>>
    ELSE <<Main(stmt)>>

Elements(seq) == {seq[i] : i \in DOMAIN seq}

Written(e) == IF e.stmt = "select" THEN {} ELSE {e}

(* Every write of a transaction *)
AllWrites(a) ==
    LET main == UNION {Elements(Together(stmt)) :
                          stmt \in Elements(Program(a)) \ {"fork", "commit"}}
        background == IF a.kind \in Forking
                      THEN {Background(i, stmt) : i \in 1..a.batches,
                                                  stmt \in Elements(UpdateList(a.mirror))}
                      ELSE {}
    IN UNION {Written(e) : e \in main \cup background}

Init ==
    /\ args = [t \in Trxs |-> NoArgs]
    /\ phase = [t \in Trxs |-> "idle"]
    /\ script = [t \in Trxs |-> <<>>]
    /\ queue = [t \in Trxs |-> <<>>]
    /\ mode = [t \in Trxs |-> "trx"]
    /\ pending = [t \in Trxs |-> {}]
    /\ durable = [t \in Trxs |-> {}]
    /\ answer = [t \in Trxs |-> "none"]
    /\ metaRows = {}
    /\ gone = [t \in Trxs |-> {}]
    /\ hold = [t \in Trxs |-> "none"]
    /\ late = {}
    /\ unheard = {}

-----------------------------------------------------------------------------
(* The server *)

(* Two transactions may both have found no entry and locked the gap where  *)
(* it would be; nobody inserts into a gap that another one has locked.     *)
Unblocked(t, stmt) ==
    \A u \in Trxs \ {t} :
        /\ stmt = "deleteMeta" => hold[u] # "rows"
        /\ stmt = "insertMeta" => hold[u] = "none"

(* Mutant of InTransaction: .transacting(trx) is forgotten on a delete *)
InTransactionForgotten(t, e) == mode[t] = "trx" /\ e.stmt # "deleteTags"
InTransaction(t, e) == mode[t] = "trx"

(* The statement takes effect, in the transaction or by itself *)
TakesEffect(t, e) ==
    IF InTransaction(t, e)
    THEN /\ pending' = [pending EXCEPT ![t] = @ \cup Written(e)]
         /\ gone' = IF e.stmt = "deleteMeta" THEN [gone EXCEPT ![t] = metaRows] ELSE gone
         /\ hold' = CASE e.stmt = "insertMeta" -> [hold EXCEPT ![t] = "rows"]
                      [] e.stmt = "deleteMeta" ->
                            [hold EXCEPT ![t] = IF metaRows = {} THEN "gap" ELSE "rows"]
                      [] OTHER -> hold
         /\ UNCHANGED <<durable, metaRows>>
    ELSE /\ durable' = [durable EXCEPT ![t] = @ \cup Written(e)]
         /\ metaRows' = CASE e.stmt = "deleteMeta" -> {}
                          [] e.stmt = "insertMeta" -> metaRows \cup {t}
                          [] OTHER                 -> metaRows
         /\ UNCHANGED <<pending, gone, hold>>

(* The transaction is over at the server, its locks are released *)
Over(t) ==
    /\ pending' = [pending EXCEPT ![t] = {}]
    /\ gone' = [gone EXCEPT ![t] = {}]
    /\ hold' = [hold EXCEPT ![t] = "none"]

Committed(t) ==
    /\ durable' = [durable EXCEPT ![t] = @ \cup pending[t]]
    /\ metaRows' = (metaRows \ gone[t])
                   \cup {u \in {t} : Main("insertMeta") \in pending[t]}

RolledBack(t) == UNCHANGED <<durable, metaRows>>

-----------------------------------------------------------------------------
(* The client *)

Issued(t, entries) == queue' = [queue EXCEPT ![t] = Tail(@) \o entries]

(* The main thread goes on when it waits for no other statement: it issues *)
(* its next ones, after the first ones of the threads it starts on its way *)
MainGoesOn(t) ==
    LET forks == Head(script[t]) = "fork"
        rest  == IF forks THEN Tail(script[t]) ELSE script[t]
        first == [i \in Batches(args[t]) |-> Background(i, "update")]
    IN IF \E e \in Elements(Tail(queue[t])) : e.thread = 0
       THEN Issued(t, <<>>) /\ UNCHANGED <<script, phase>>
       ELSE /\ Issued(t, (IF forks THEN first ELSE <<>>) \o Together(Head(rest)))
            /\ script' = [script EXCEPT ![t] = Tail(rest)]
            /\ phase' = IF Head(rest) = "commit"
                        THEN [phase EXCEPT ![t] = "committing"] ELSE phase

(* A rejected statement of the main thread rejects the transaction's       *)
(* callback; what is queued behind it is still sent.                       *)
MainRejected(t) ==
    /\ Issued(t, IF phase[t] = "running" THEN <<Main("rollback")>> ELSE <<>>)
    /\ script' = [script EXCEPT ![t] = <<>>]
    /\ phase' = [phase EXCEPT ![t] = "rollingBack"]

(* A background thread goes on, unless the transaction is completed *)
BackgroundGoesOn(t, e) ==
    LET next == CASE args[t].mirror /\ e.stmt = "update" -> <<Background(e.thread, "select")>>
                  [] args[t].mirror /\ e.stmt = "select" -> <<Background(e.thread, "sync")>>
                  [] OTHER                               -> <<>>
    IN /\ Issued(t, IF phase[t] = "running" THEN next ELSE <<>>)
       /\ late' = IF phase[t] = "committing" /\ next # <<>> THEN late \cup {t} ELSE late

Begin(t) ==
    /\ phase[t] = "idle"
    /\ \E a \in Args :
        /\ args' = [args EXCEPT ![t] = a]
        /\ queue' = [queue EXCEPT ![t] = Together(Head(Program(a)))]
        /\ script' = [script EXCEPT ![t] = Tail(Program(a))]
    /\ phase' = [phase EXCEPT ![t] = "running"]
    /\ UNCHANGED <<mode, pending, durable, answer, meta, late, unheard>>

Ends == {"commit", "rollback"}
AtMain(t) == queue[t] # <<>> /\ Head(queue[t]).thread = 0 /\ Head(queue[t]).stmt \notin Ends
AtBackground(t) == queue[t] # <<>> /\ Head(queue[t]).thread > 0
At(t, stmt) == queue[t] # <<>> /\ Head(queue[t]) = Main(stmt)

ExecuteMain(t) ==
    /\ AtMain(t)
    /\ Unblocked(t, Head(queue[t]).stmt)
    /\ TakesEffect(t, Head(queue[t]))
    /\ MainGoesOn(t)
    /\ UNCHANGED <<args, mode, answer, late, unheard>>

ExecuteBackground(t) ==
    /\ AtBackground(t)
    /\ TakesEffect(t, Head(queue[t]))
    /\ BackgroundGoesOn(t, Head(queue[t]))
    /\ UNCHANGED <<args, phase, script, mode, answer, unheard>>

Finished(t, a) ==
    /\ phase' = [phase EXCEPT ![t] = "done"]
    /\ answer' = [answer EXCEPT ![t] = a]

Commit(t) ==
    /\ At(t, "commit")
    /\ Committed(t) /\ Over(t)
    /\ Issued(t, <<>>)
    /\ Finished(t, "ok")
    /\ UNCHANGED <<args, script, mode, late, unheard>>

Rollback(t) ==
    /\ At(t, "rollback")
    /\ RolledBack(t) /\ Over(t)
    /\ Issued(t, <<>>)
    /\ Finished(t, "error")
    /\ UNCHANGED <<args, script, mode, late, unheard>>

(* Mutants of FailMain: the error is caught and logged; it is lost, and    *)
(* the transaction is left open                                            *)
FailMainGoesOn(t) ==
    /\ "awaited" \in Failures
    /\ AtMain(t)
    /\ MainGoesOn(t)
    /\ UNCHANGED <<args, mode, pending, durable, answer, meta, late, unheard>>

FailMainLeavesOpen(t) ==
    /\ "awaited" \in Failures
    /\ AtMain(t)
    /\ Issued(t, <<>>)
    /\ UNCHANGED <<args, phase, script, mode, pending, durable, answer, meta, late, unheard>>

FailMain(t) ==
    /\ "awaited" \in Failures
    /\ AtMain(t)
    /\ MainRejected(t)
    /\ UNCHANGED <<args, mode, pending, durable, answer, meta, late, unheard>>

(* The rejection of a background thread is nobody's: Sentry logs it *)
FailBackground(t) ==
    /\ "unawaited" \in Failures
    /\ AtBackground(t)
    /\ Issued(t, <<>>)
    /\ unheard' = unheard \cup {t}
    /\ UNCHANGED <<args, phase, script, mode, pending, durable, answer, meta, late>>

(* A plain SELECT takes no lock and is nobody's victim *)
Deadlock(t) ==
    /\ "deadlock" \in Failures
    /\ mode[t] = "trx"
    /\ (AtMain(t) \/ AtBackground(t))
    /\ Head(queue[t]).stmt # "select"
    /\ mode' = [mode EXCEPT ![t] = "autocommit"]
    /\ RolledBack(t) /\ Over(t)
    /\ IF AtMain(t) THEN MainRejected(t)
       ELSE Issued(t, <<>>) /\ UNCHANGED <<script, phase>>
    /\ UNCHANGED <<args, answer, late, unheard>>

(* The server rolls back when a connection is gone; the COMMIT may have    *)
(* been executed before that.                                              *)
ConnectionLost(t) ==
    /\ "connection" \in Failures
    /\ phase[t] \in {"running", "committing", "rollingBack"}
    /\ (RolledBack(t) \/ (At(t, "commit") /\ Committed(t)))
    /\ Over(t)
    /\ queue' = [queue EXCEPT ![t] = <<>>]
    /\ script' = [script EXCEPT ![t] = <<>>]
    /\ Finished(t, "error")
    /\ UNCHANGED <<args, mode, late, unheard>>

(* The connection returns to the pool *)
Close(t) ==
    /\ phase[t] = "done"
    /\ phase' = [phase EXCEPT ![t] = "idle"]
    /\ args' = [args EXCEPT ![t] = NoArgs]
    /\ mode' = [mode EXCEPT ![t] = "trx"]
    /\ durable' = [durable EXCEPT ![t] = {}]
    /\ answer' = [answer EXCEPT ![t] = "none"]
    /\ unheard' = unheard \ {t}
    /\ UNCHANGED <<script, queue, pending, meta, late>>

(* The server answers the statement at the head of the connection *)
Answer(t) ==
    \/ ExecuteMain(t) \/ ExecuteBackground(t) \/ Commit(t) \/ Rollback(t)
    \/ FailMain(t) \/ FailBackground(t)

Next == \E t \in Trxs :
    Begin(t) \/ Answer(t) \/ Deadlock(t) \/ ConnectionLost(t) \/ Close(t)

Spec == Init /\ [][Next]_vars

(* The server answers every statement; one that waits for a lock times     *)
(* out.  Nobody counts on a deadlock or on the loss of the connection.     *)
Fairness == \A t \in Trxs : WF_vars(Answer(t))

FairSpec == Spec /\ Fairness

-----------------------------------------------------------------------------
Stmts == {"insertTags", "deleteTags", "deleteOtherTags", "renameTags", "update", "select", "sync",
          "deleteMeta", "insertMeta", "commit", "rollback"}
Entries == [thread: 0..MaxBatches, stmt: Stmts]

TypeOK ==
    /\ args \in [Trxs -> Args \cup {NoArgs}]
    /\ phase \in [Trxs -> {"idle", "running", "committing", "rollingBack", "done"}]
    /\ script \in [Trxs -> Seq(Stmts \cup {"fork", "deleteEach"})]
    /\ queue \in [Trxs -> Seq(Entries)]
    /\ mode \in [Trxs -> {"trx", "autocommit"}]
    /\ pending \in [Trxs -> SUBSET Entries]
    /\ durable \in [Trxs -> SUBSET Entries]
    /\ answer \in [Trxs -> {"none", "ok", "error"}]
    /\ metaRows \subseteq Trxs
    /\ gone \in [Trxs -> SUBSET Trxs]
    /\ hold \in [Trxs -> {"none", "gap", "rows"}]
    /\ late \subseteq Trxs
    /\ unheard \subseteq Trxs

(* A mutation that answers without an error has written everything: the    *)
(* tags, the items it touched, their shadow rows and the users_meta entry  *)
(* ("All updates are performed in the same transaction").                  *)
OkMeansAll == \A t \in Trxs : answer[t] = "ok" => durable[t] = AllWrites(args[t])

(* Nothing has gone wrong behind the back of the main thread: no un-awaited *)
(* statement failed, and the server has not rolled back by itself.         *)
Heard(t) == t \notin unheard /\ mode[t] = "trx"

(* As long as the main thread hears of every failure, an ok answer means   *)
(* that all is written.                                                    *)
OkMeansAllIfHeard == \A t \in Trxs : Heard(t) /\ answer[t] = "ok" => durable[t] = AllWrites(args[t])

(* In that case a mutation that fails has written nothing, or, if the      *)
(* answer to its COMMIT was lost, everything.                              *)
ErrorMeansNoneOrAll ==
    \A t \in Trxs : Heard(t) /\ answer[t] = "error" => durable[t] \in {{}, AllWrites(args[t])}

(* A transaction that commits leaves its own entry for the last tag        *)
(* mutation as the only one, whatever other transactions did to users_meta *)
(* since it deleted the old ones ("There should only be one entry for the  *)
(* unique combination of user_id:property").                               *)
CommitLeavesOneMetaEntry ==
    [][\A t \in Trxs : mode[t] = "trx" /\ answer[t] = "none" /\ answer'[t] = "ok"
                           => metaRows' = {t}]_vars

(* The background threads have issued their last statement before the main *)
(* thread issues the COMMIT, although nothing makes it wait for them: they *)
(* start first, and the two statements of logTagMutation give them time    *)
(* for two more of their own.                                              *)
NoLateStatement == late = {}

(* Every tag mutation is answered. *)
EveryMutationAnswered == \A t \in Trxs : phase[t] = "running" ~> phase[t] = "done"
=============================================================================
