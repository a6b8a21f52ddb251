---------------------------- MODULE AtomicWrites ----------------------------
(***************************************************************************)
(* What the write transactions of the list keep: a transaction takes       *)
(* effect on the list table and on the tables that hang off a save in one  *)
(* step, or not at all, and on the shadow copy too, with one exception: a  *)
(* mirrored batch that the server aborts may leave shadow rows behind.     *)
(***************************************************************************)
CONSTANTS
    Saves,      \* item ids of one user
    Trxs,       \* transactions that can be open at the same time
    Values,     \* contents of a row, DeletedRow among them
    Tables,     \* item_tags, item_attribution, items_scroll
    Kinds,      \* the kinds of transactions the clients cause
    DeletedRow, \* the content of a soft-deleted row
    NoRow,      \* no row with this id
    NoArgs      \* a slot of Trxs without a transaction

AllKinds == {"update", "upsert", "delete", "batch"}

(* update:  one row gets a new content, if it is there                     *)
(* upsert:  one row is inserted or replaced                                *)
(* delete:  one row is soft-deleted, what hangs off it is removed          *)
(* batch:   all rows of a set of ids get the content, or none does         *)
Args ==
    {a \in [kind: Kinds, ids: SUBSET Saves, value: Values, mirror: BOOLEAN] :
        /\ a.ids # {}
        /\ a.kind # "batch" => \E s \in Saves : a.ids = {s}
        /\ a.kind = "delete" <=> a.value = DeletedRow}

VARIABLES
    list,       \* rows of the list table
    shadow,     \* rows of list_schema_update
    attached,   \* for each save, the tables with rows for it
    args,       \* what each transaction is to do
    phase,      \* "none", "open", "aborted", "committed" or "rolledBack"
    strays      \* shadow rows that an aborted batch may still write

vars == <<list, shadow, attached, args, phase, strays>>
tables == <<list, shadow, attached>>

TypeOK ==
    /\ list \in [Saves -> Values \cup {NoRow}]
    /\ shadow \in [Saves -> Values \cup {NoRow}]
    /\ attached \in [Saves -> SUBSET Tables]
    /\ args \in [Trxs -> Args \cup {NoArgs}]
    /\ phase \in [Trxs -> {"none", "open", "aborted", "committed", "rolledBack"}]
    /\ strays \in [Trxs -> SUBSET Saves]

Init ==
    /\ list = [s \in Saves |-> NoRow]
    /\ shadow = [s \in Saves |-> NoRow]
    /\ attached = [s \in Saves |-> {}]
    /\ args = [t \in Trxs |-> NoArgs]
    /\ phase = [t \in Trxs |-> "none"]
    /\ strays = [t \in Trxs |-> {}]

(* The row of save s after a transaction with arguments a *)
RowAfter(a, s) ==
    IF s \in a.ids /\ (a.kind = "upsert" \/ list[s] # NoRow) THEN a.value ELSE list[s]

Begin(t) ==
    /\ phase[t] = "none"
    /\ \E a \in Args : args' = [args EXCEPT ![t] = a]
    /\ phase' = [phase EXCEPT ![t] = "open"]
    /\ UNCHANGED <<tables, strays>>

(* The transaction happens: with the mirrorWrites flag the shadow rows of  *)
(* its ids become equal to the list rows.                                  *)
Commit(t) ==
    LET a == args[t] IN
    /\ phase[t] = "open"
    /\ a.kind = "batch" => \A s \in a.ids : list[s] # NoRow
    /\ list' = [s \in Saves |-> RowAfter(a, s)]
    /\ shadow' = [s \in Saves |->
                    IF a.mirror /\ s \in a.ids /\ RowAfter(a, s) # NoRow
                    THEN RowAfter(a, s) ELSE shadow[s]]
    /\ attached' = [s \in Saves |->
                    IF a.kind = "delete" /\ s \in a.ids THEN {} ELSE attached[s]]
    /\ phase' = [phase EXCEPT ![t] = "committed"]
    /\ UNCHANGED <<args, strays>>

(* The server aborts a mirrored batch: the copies of some of its rows, not *)
(* of all, are on their way and have no transaction to be part of.         *)
Abort(t) ==
    LET a == args[t] IN
    /\ phase[t] = "open"
    /\ a.kind = "batch" /\ a.mirror
    /\ \A s \in a.ids : list[s] # NoRow
    /\ \E left \in SUBSET a.ids : left # a.ids /\ strays' = [strays EXCEPT ![t] = left]
    /\ phase' = [phase EXCEPT ![t] = "aborted"]
    /\ UNCHANGED <<tables, args>>

(* One of them arrives, and is written or fails *)
Stray(t, s) ==
    /\ s \in strays[t]
    /\ strays' = [strays EXCEPT ![t] = @ \ {s}]
    /\ shadow' \in {shadow, [shadow EXCEPT ![s] = args[t].value]}
    /\ UNCHANGED <<list, attached, args, phase>>

RollBack(t) ==
    /\ phase[t] \in {"open", "aborted"}
    /\ strays[t] = {}
    /\ phase' = [phase EXCEPT ![t] = "rolledBack"]
    /\ UNCHANGED <<tables, args, strays>>

Close(t) ==
    /\ phase[t] \in {"committed", "rolledBack"}
    /\ phase' = [phase EXCEPT ![t] = "none"]
    /\ args' = [args EXCEPT ![t] = NoArgs]
    /\ UNCHANGED <<tables, strays>>

(* Another service, or a tag mutation, attaches data to a save *)
Attach(s, table) ==
    /\ attached' = [attached EXCEPT ![s] = @ \cup {table}]
    /\ UNCHANGED <<list, shadow, args, phase, strays>>

Next ==
    \/ \E t \in Trxs : Begin(t) \/ Commit(t) \/ Abort(t) \/ RollBack(t) \/ Close(t)
    \/ \E t \in Trxs, s \in Saves : Stray(t, s)
    \/ \E s \in Saves, table \in Tables : Attach(s, table)

Spec == Init /\ [][Next]_vars
=============================================================================
