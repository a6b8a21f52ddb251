------------------------ MODULE MirroredWrites_proofs ------------------------
(***************************************************************************)
(* For every set of saves and any number of transactions: the shadow table *)
(* mirrors the list table, but for the stray copies of deadlocked batches, *)
(* and the statement-by-statement transactions implement the atomic ones.  *)
(***************************************************************************)
EXTENDS MirroredWrites, TLAPS

-----------------------------------------------------------------------------
(* Type correctness *)

(* What the type invariant says of the arguments of an open transaction. *)
LEMMA ArgsTyped ==
    ASSUME TypeOK, NEW t \in Trxs, pc[t] # "idle"
    PROVE  /\ args[t].ids \subseteq Saves
           /\ args[t].value \in Values
           /\ args[t].mirror \in BOOLEAN
BY DEF TypeOK, A!Args

(* What a transaction sees is a row or none. *)
LEMMA ViewTyped ==
    ASSUME TypeOK, NEW t \in Trxs, pc[t] # "idle", NEW s \in Saves
    PROVE  View(t, s) \in Values \cup {NoRow}
BY ArgsTyped DEF View, TypeOK

(* Init establishes the type invariant. *)
LEMMA InitTyped == Init => TypeOK
BY DEF Init, TypeOK, NoRows

(* Every step keeps it. *)
LEMMA StepTyped ==
    ASSUME TypeOK, NEW t \in Trxs, Step(t)
    PROVE  TypeOK'
<1> USE DEF TypeOK, Goto, tables, work, OpenSteps
<1>1. CASE Begin(t)
  <2> PICK a \in A!Args : /\ args' = [args EXCEPT ![t] = a]
                          /\ Goto(t, IF a.kind = "delete" THEN "detach" ELSE "write")
    BY <1>1 DEF Begin
  <2> QED BY <1>1 DEF Begin
<1>2. CASE Detach(t)
  <2> PICK table \in Tables : removed' = [removed EXCEPT ![t] = @ \cup {table}]
    BY <1>2 DEF Detach
  <2>1. removed' \in [Trxs -> SUBSET Tables]
    OBVIOUS
  <2> QED BY <1>2, <2>1 DEF Detach
<1>3. ASSUME NEW s \in Saves, WriteRow(t, s)
      PROVE  TypeOK'
  BY <1>3 DEF WriteRow
<1>4. ASSUME NEW s \in Saves, MirrorRow(t, s)
      PROVE  TypeOK'
  BY <1>4 DEF MirrorRow
<1>5. CASE Detached(t) \/ Written(t) \/ Mirrored(t)
  BY <1>5 DEF Detached, Written, Mirrored
<1>6. CASE Select(t)
  <2>1. \A s \in Saves : View(t, s) \in Values \cup {NoRow}
    BY <1>6, ViewTyped DEF Select
  <2> QED BY <1>6, <2>1 DEF Select
<1>7. CASE Commit(t)
  <2>1. \A s \in Saves : View(t, s) \in Values \cup {NoRow}
    BY <1>7, ViewTyped DEF Commit
  <2> QED BY <1>7, <2>1 DEF Commit, Release, Forget, NoRows
<1>8. CASE RollBack(t)
  BY <1>8 DEF RollBack, Release, Forget, NoRows
<1>10. ASSUME NEW s \in Saves, Deadlock(t, s)
       PROVE  TypeOK'
  BY <1>10 DEF Deadlock, Release
<1>11. ASSUME NEW s \in Saves, StrayInsert(t, s)
       PROVE  TypeOK'
  BY <1>11 DEF StrayInsert
<1>12. ASSUME NEW s \in Saves, StrayFails(t, s)
       PROVE  TypeOK'
  BY <1>12 DEF StrayFails
<1>9. CASE Close(t)
  BY <1>9 DEF Close
<1> QED
  BY <1>1, <1>2, <1>3, <1>4, <1>5, <1>6, <1>7, <1>8, <1>9, <1>10, <1>11, <1>12 DEF Step

(* Data attached from outside is typed too. *)
LEMMA AttachTyped ==
    ASSUME TypeOK, NEW s \in Saves, NEW table \in Tables, Attach(s, table)
    PROVE  TypeOK'
BY DEF TypeOK, Attach, work

(* Every reachable state is typed, for all values of the constants. *)
THEOREM TypeCorrect == Spec => []TypeOK
<1>1. TypeOK /\ [Next]_vars => TypeOK'
  <2> SUFFICES ASSUME TypeOK, [Next]_vars PROVE TypeOK'
    OBVIOUS
  <2>1. CASE UNCHANGED vars
    BY <2>1 DEF vars, TypeOK
  <2> QED BY <2>1, StepTyped, AttachTyped DEF Next
<1> QED BY InitTyped, <1>1, PTL DEF Spec

-----------------------------------------------------------------------------
(* The invariant of a transaction *)

(* A step of one transaction leaves what the others rely on: their own     *)
(* state, their locks, and the rows that they hold.                        *)
LEMMA OthersUntouched ==
    ASSUME TypeOK, NEW t \in Trxs, TrxInv(t), Step(t), NEW u \in Trxs, u # t
    PROVE  /\ args'[u] = args[u] /\ pc'[u] = pc[u] /\ changed'[u] = changed[u]
           /\ removed'[u] = removed[u] /\ read'[u] = read[u] /\ mirrored'[u] = mirrored[u]
           /\ strays'[u] = strays[u]
           /\ \A s \in Saves : lock'[s] = u <=> lock[s] = u
           /\ \A s \in Saves : lock[s] = u => list'[s] = list[s]
<1> USE DEF TypeOK, Goto, tables, work
<1>1. CASE Begin(t) \/ Close(t)
  BY <1>1 DEF Begin, Close
<1>2. CASE Detach(t) \/ Detached(t) \/ Written(t) \/ Select(t) \/ Mirrored(t)
  BY <1>2 DEF Detach, Detached, Written, Select, Mirrored
<1>3. ASSUME NEW s \in Saves,
             \/ WriteRow(t, s) \/ MirrorRow(t, s)
             \/ Deadlock(t, s) \/ StrayInsert(t, s) \/ StrayFails(t, s)
      PROVE  /\ args'[u] = args[u] /\ pc'[u] = pc[u] /\ changed'[u] = changed[u]
             /\ removed'[u] = removed[u] /\ read'[u] = read[u] /\ mirrored'[u] = mirrored[u]
             /\ strays'[u] = strays[u]
             /\ \A x \in Saves : lock'[x] = u <=> lock[x] = u
             /\ \A x \in Saves : lock[x] = u => list'[x] = list[x]
  BY <1>3, NobodyAssumption DEF WriteRow, MirrorRow, Deadlock, StrayInsert, StrayFails, Release
<1>4. CASE RollBack(t)
  BY <1>4, NobodyAssumption DEF RollBack, Release, Forget
<1>5. CASE Commit(t)
  <2>1. \A s \in Saves : lock[s] = u => s \notin changed[t]
    BY DEF TrxInv, RowsLocked, Held
  <2>2. \A s \in Saves : lock[s] = u => list'[s] = list[s]
    BY <1>5, <2>1 DEF Commit, View
  <2> QED BY <1>5, <2>2, NobodyAssumption DEF Commit, Release, Forget
<1> QED BY <1>1, <1>2, <1>3, <1>4, <1>5 DEF Step

(* So the invariant of the others stays. *)
LEMMA WaitingTrx ==
    ASSUME TypeOK, NEW t \in Trxs, TrxInv(t), Step(t), NEW u \in Trxs, u # t, TrxInv(u)
    PROVE  TrxInv(u)'
<1>1. Held(u)' = Held(u)
  BY OthersUntouched DEF Held
<1>2. \A s \in Held(u) : list'[s] = list[s]
  BY OthersUntouched DEF Held
<1>3. RowsLocked(u)'
  BY <1>1, <1>2, OthersUntouched DEF TrxInv, RowsLocked, Writes
<1>4. pc[u] \in {"mirror", "commit"} => args[u].ids \subseteq Held(u)
  BY DEF TrxInv, RowsLocked
<1>5. ReadStands(u)'
  BY <1>2, <1>4, OthersUntouched DEF TrxInv, ReadStands, View
<1>6. CopiedAndDetached(u)'
  BY OthersUntouched DEF TrxInv, CopiedAndDetached
<1>7. StraysOfBatch(u)'
  BY OthersUntouched DEF TrxInv, StraysOfBatch
<1> QED BY <1>3, <1>5, <1>6, <1>7 DEF TrxInv

(* The transaction that moves. *)
LEMMA MovingTrx ==
    ASSUME TypeOK, NEW t \in Trxs, TrxInv(t), Step(t)
    PROVE  TrxInv(t)'
<1> USE DEF TypeOK, TrxInv, Goto, tables, work, OpenSteps
<1>1. CASE Begin(t)
  <2>1. PICK a \in A!Args : /\ args' = [args EXCEPT ![t] = a]
                            /\ Goto(t, IF a.kind = "delete" THEN "detach" ELSE "write")
    BY <1>1 DEF Begin
  <2>2. Held(t) = {} /\ Held(t)' = {} /\ removed[t] = {} /\ mirrored[t] = {} /\ changed[t] = {}
    BY <1>1 DEF Begin, RowsLocked, ReadStands, CopiedAndDetached, StraysOfBatch, Held
  <2> QED BY <1>1, <2>1, <2>2 DEF Begin, RowsLocked, ReadStands, CopiedAndDetached, StraysOfBatch
<1>2. CASE Detach(t)
  <2>1. Held(t)' = Held(t) /\ pc'[t] = "detach" /\ pc[t] = "detach"
    BY <1>2 DEF Detach, Held
  <2> QED BY <1>2, <2>1 DEF Detach, RowsLocked, ReadStands, CopiedAndDetached, StraysOfBatch, Writes
<1>3. CASE Detached(t)
  <2>1. Held(t)' = Held(t)
    BY <1>3 DEF Detached, Held
  <2> QED BY <1>3, <2>1 DEF Detached, RowsLocked, ReadStands, CopiedAndDetached, StraysOfBatch, Writes
<1>4. ASSUME NEW s \in Saves, WriteRow(t, s)
      PROVE  TrxInv(t)'
  <2>1. Held(t)' = Held(t) \cup {s}
    BY <1>4, NobodyAssumption DEF WriteRow, Held
  <2>2. changed'[t] = changed[t] \cup {x \in {s} : Writes(args[t], list[x])}
    BY <1>4 DEF WriteRow
  <2>3. pc[t] = "write" /\ UNCHANGED <<pc, list, args, removed, mirrored, read, strays>>
    BY <1>4 DEF WriteRow
  <2>4. RowsLocked(t)'
    BY <1>4, <2>1, <2>2, <2>3 DEF RowsLocked, Writes, WriteRow
  <2> QED BY <2>3, <2>4 DEF ReadStands, CopiedAndDetached, StraysOfBatch
<1>5. ASSUME NEW s \in Saves, MirrorRow(t, s)
      PROVE  TrxInv(t)'
  <2>1. Held(t)' = Held(t)
    BY <1>5 DEF MirrorRow, Held
  <2> QED BY <1>5, <2>1 DEF MirrorRow, RowsLocked, ReadStands, CopiedAndDetached, StraysOfBatch, Writes, View
<1>6. CASE Written(t)
  <2>1. Held(t)' = Held(t)
    BY <1>6 DEF Written, Held
  <2> QED BY <1>6, <2>1 DEF Written, RowsLocked, ReadStands, CopiedAndDetached, StraysOfBatch, Writes
<1>7. CASE Select(t)
  <2>1. Held(t)' = Held(t)
    BY <1>7 DEF Select, Held
  <2>2. args[t].kind = "batch" => \A s \in args[t].ids : list[s] # NoRow
    BY <1>7 DEF Select, View, RowsLocked, Writes
  <2> QED BY <1>7, <2>1, <2>2 DEF Select, RowsLocked, ReadStands, CopiedAndDetached, StraysOfBatch, Writes, View
<1>8. CASE Mirrored(t)
  <2>1. Held(t)' = Held(t)
    BY <1>8 DEF Mirrored, Held
  <2> QED BY <1>8, <2>1 DEF Mirrored, RowsLocked, ReadStands, CopiedAndDetached, StraysOfBatch, Writes, View
<1>9. CASE Commit(t) \/ RollBack(t)
  <2>1. Held(t)' = {}
    BY <1>9, NobodyAssumption DEF Commit, RollBack, Release, Held
  <2>2. strays[t] = {}
    BY <1>9 DEF Commit, RollBack, StraysOfBatch
  <2> QED
    BY <1>9, <2>1, <2>2
    DEF Commit, RollBack, Release, Forget, RowsLocked, ReadStands, CopiedAndDetached, StraysOfBatch
<1>11. ASSUME NEW s \in Saves, Deadlock(t, s)
       PROVE  TrxInv(t)'
  <2>1. /\ Held(t)' = {} /\ changed'[t] = {} /\ removed'[t] = {} /\ mirrored'[t] = {}
        /\ pc'[t] = "victim" /\ UNCHANGED <<list, args, read>>
        /\ pc[t] = "mirror" /\ args[t].kind = "batch" /\ args[t].mirror
        /\ strays'[t] = {x \in Saves : read[t][x] # NoRow} \ (mirrored[t] \cup {s})
    BY <1>11, NobodyAssumption DEF Deadlock, Release, Held, CopiedAndDetached
  <2>2. /\ args[t].ids = Held(t) /\ args[t].ids \subseteq Saves
        /\ \A x \in args[t].ids : list[x] # NoRow /\ read[t][x] = View(t, x)
        /\ \A x \in Saves : read[t][x] # NoRow => x \in args[t].ids
    BY <2>1, ArgsTyped DEF RowsLocked, ReadStands
  <2>3. \A x \in args[t].ids : read[t][x] = args[t].value
    BY <2>1, <2>2 DEF View, RowsLocked, Writes
  <2>4. s \in args[t].ids
    BY <1>11, <2>2 DEF Deadlock
  <2> QED BY <2>1, <2>2, <2>3, <2>4 DEF RowsLocked, ReadStands, CopiedAndDetached, StraysOfBatch, Writes
<1>12. ASSUME NEW s \in Saves, StrayInsert(t, s) \/ StrayFails(t, s)
       PROVE  TrxInv(t)'
  <2>1. /\ UNCHANGED <<list, args, pc, lock, changed, removed, read, mirrored>>
        /\ strays'[t] = strays[t] \ {s} /\ strays[t] # {}
    BY <1>12 DEF StrayInsert, StrayFails
  <2>2. Held(t)' = Held(t)
    BY <2>1 DEF Held
  <2>3. pc[t] = "victim" /\ strays'[t] # args[t].ids
    BY <1>12, <2>1 DEF StraysOfBatch, StrayInsert, StrayFails
  <2> QED
    BY <2>1, <2>2, <2>3
    DEF RowsLocked, ReadStands, CopiedAndDetached, StraysOfBatch, View, Writes
<1>10. CASE Close(t)
  <2>1. Held(t)' = Held(t)
    BY <1>10 DEF Close, Held
  <2> QED BY <1>10, <2>1 DEF Close, RowsLocked, ReadStands, CopiedAndDetached, StraysOfBatch
<1> QED BY <1>1, <1>2, <1>3, <1>4, <1>5, <1>6, <1>7, <1>8, <1>9, <1>10, <1>11,
           <1>12 DEF Step

(* The transactions' invariant holds in every reachable state. *)
LEMMA TrxInvariant == Spec => [](\A t \in Trxs : TrxInv(t))
<1>1. Init => \A t \in Trxs : TrxInv(t)
  BY NobodyAssumption DEF Init, TrxInv, RowsLocked, ReadStands, CopiedAndDetached, StraysOfBatch, Held, OpenSteps
<1>2. TypeOK /\ (\A t \in Trxs : TrxInv(t)) /\ [Next]_vars => (\A t \in Trxs : TrxInv(t))'
  <2> SUFFICES ASSUME TypeOK, \A t \in Trxs : TrxInv(t), [Next]_vars, NEW u \in Trxs
               PROVE  TrxInv(u)'
    OBVIOUS
  <2>1. CASE UNCHANGED vars
    BY <2>1 DEF vars, TrxInv, RowsLocked, ReadStands, CopiedAndDetached, StraysOfBatch, Held, View, Writes
  <2>2. ASSUME NEW t \in Trxs, Step(t) PROVE TrxInv(u)'
    BY <2>2, MovingTrx, WaitingTrx
  <2>3. ASSUME NEW s \in Saves, NEW table \in Tables, Attach(s, table) PROVE TrxInv(u)'
    BY <2>3 DEF Attach, work, TrxInv, RowsLocked, ReadStands, CopiedAndDetached, StraysOfBatch, Held, View, Writes
  <2> QED BY <2>1, <2>2, <2>3 DEF Next
<1> QED BY <1>1, <1>2, TypeCorrect, PTL DEF Spec

-----------------------------------------------------------------------------
(* The shadow table *)

(* Only a commit writes the tables, and a stray copy its shadow row. *)
LEMMA OnlyCommitsWrite ==
    ASSUME NEW t \in Trxs, Step(t), ~Commit(t)
    PROVE  UNCHANGED tables \/ \E s \in Saves : StrayInsert(t, s)
BY DEF Step, Begin, Detach, Detached, WriteRow, Written, Select, MirrorRow, Mirrored,
       Deadlock, StrayFails, RollBack, Close, tables

(* For every number of saves and of transactions in flight, a row whose    *)
(* last writer had the mirrorWrites flag is the same in both tables, or a  *)
(* stray copy of a deadlocked batch has written the shadow row since.      *)
THEOREM ShadowAlwaysMirrors == Spec => []ShadowMirrorsList
<1>1. Init => ShadowMirrorsList
  BY DEF Init, ShadowMirrorsList, NoRows
<1>2. TypeOK /\ (\A t \in Trxs : TrxInv(t)) /\ ShadowMirrorsList /\ [Next]_vars
        => ShadowMirrorsList'
  <2> SUFFICES ASSUME TypeOK, \A t \in Trxs : TrxInv(t), ShadowMirrorsList, [Next]_vars
               PROVE  ShadowMirrorsList'
    OBVIOUS
  <2>1. CASE UNCHANGED <<list, shadow, freshFor>>
    BY <2>1 DEF ShadowMirrorsList
  <2>2. ASSUME NEW t \in Trxs, Commit(t) PROVE ShadowMirrorsList'
    <3>1. \A s \in Saves : s \in mirrored[t] => read[t][s] = View(t, s)
      BY <2>2 DEF Commit, TrxInv, ReadStands, CopiedAndDetached
    <3>2. \A s \in freshFor' : s \in Saves
      BY <2>2, StepTyped DEF Step, TypeOK
    <3>3. \A s \in freshFor' : s \in mirrored[t] \/ (s \in freshFor /\ s \notin changed[t])
      BY <2>2 DEF Commit
    <3> QED BY <2>2, <3>1, <3>2, <3>3 DEF Commit, View, ShadowMirrorsList
  <2>3. ASSUME NEW t \in Trxs, NEW s \in Saves, StrayInsert(t, s) PROVE ShadowMirrorsList'
    BY <2>3 DEF StrayInsert, ShadowMirrorsList, TypeOK
  <2> QED BY <2>1, <2>2, <2>3, OnlyCommitsWrite DEF Next, Attach, vars, tables
<1> QED BY <1>1, <1>2, TypeCorrect, TrxInvariant, PTL DEF Spec

(* The inductive invariant of the model, the one TLC checks. *)
THEOREM Inductive == Spec => []IInv
<1>1. TypeOK /\ (\A t \in Trxs : TrxInv(t)) /\ ShadowMirrorsList => IInv
  BY DEF IInv
<1> QED BY <1>1, TypeCorrect, TrxInvariant, ShadowAlwaysMirrors, PTL

-----------------------------------------------------------------------------
(* The statements implement the atomic transaction *)

(* A commit is the atomic commit: it writes the rows its statement         *)
(* matched, copies them if the flag is on, and a delete empties all of the *)
(* tables.                                                                 *)
LEMMA CommitIsAtomic ==
    ASSUME TypeOK, NEW t \in Trxs, TrxInv(t), Commit(t)
    PROVE  A!Commit(t)
<1> USE DEF TypeOK, TrxInv
<1>1. /\ pc[t] = "commit" /\ args[t] \in A!Args
      /\ args[t].ids \subseteq Saves /\ Held(t) = args[t].ids
  BY ArgsTyped DEF Commit, RowsLocked
<1>2. \A s \in Saves : View(t, s) = A!RowAfter(args[t], s)
  BY <1>1 DEF View, A!RowAfter, RowsLocked, Writes, ReadStands
<1>3. list' = [s \in Saves |-> A!RowAfter(args[t], s)]
  BY <1>2 DEF Commit
<1>4. /\ mirrored[t] = {s \in Saves : args[t].mirror /\ read[t][s] # NoRow}
      /\ \A s \in Saves : read[t][s] = IF s \in args[t].ids THEN A!RowAfter(args[t], s) ELSE NoRow
  BY <1>1, <1>2 DEF CopiedAndDetached, ReadStands
<1>5. \A s \in Saves :
        /\ s \in mirrored[t]
            <=> args[t].mirror /\ s \in args[t].ids /\ A!RowAfter(args[t], s) # NoRow
        /\ s \in mirrored[t] => read[t][s] = A!RowAfter(args[t], s)
  BY <1>4
<1>6. shadow' = [s \in Saves |->
                    IF args[t].mirror /\ s \in args[t].ids /\ A!RowAfter(args[t], s) # NoRow
                    THEN A!RowAfter(args[t], s) ELSE shadow[s]]
  BY <1>5 DEF Commit
<1>7. \A s \in Saves : attached[s] \subseteq Tables
  OBVIOUS
<1>8. attached' = [s \in Saves |->
                    IF args[t].kind = "delete" /\ s \in args[t].ids THEN {} ELSE attached[s]]
  BY <1>1, <1>7 DEF Commit, CopiedAndDetached, OpenSteps
<1>9. Phase[t] = "open" /\ Phase' = [Phase EXCEPT ![t] = "committed"]
  BY <1>1 DEF Phase, Commit, Goto
<1>10. args[t].kind = "batch" => \A s \in args[t].ids : list[s] # NoRow
  BY <1>1 DEF ReadStands
<1>11. UNCHANGED <<args, strays>>
  BY DEF Commit
<1> QED BY <1>3, <1>6, <1>8, <1>9, <1>10, <1>11 DEF A!Commit

(* Every other step is invisible, or a step of its own. *)
LEMMA OtherStepsMap ==
    ASSUME TypeOK, NEW t \in Trxs, TrxInv(t), Step(t), ~Commit(t)
    PROVE  [A!Next]_(A!vars)
<1> USE DEF TypeOK, Goto, tables, work, OpenSteps, Phase, A!tables
<1>1. CASE Begin(t)
  <2>1. PICK a \in A!Args : /\ args' = [args EXCEPT ![t] = a]
                            /\ Goto(t, IF a.kind = "delete" THEN "detach" ELSE "write")
    BY <1>1 DEF Begin
  <2>2. Phase[t] = "none" /\ Phase' = [Phase EXCEPT ![t] = "open"]
    BY <1>1, <2>1 DEF Begin
  <2>3. A!Begin(t)
    BY <1>1, <2>1, <2>2 DEF Begin, A!Begin
  <2> QED BY <2>3 DEF A!Next
<1>2. CASE Detach(t) \/ Detached(t) \/ Written(t) \/ Select(t) \/ Mirrored(t)
  <2>1. Phase' = Phase
    BY <1>2 DEF Detach, Detached, Written, Select, Mirrored
  <2> QED BY <1>2, <2>1 DEF Detach, Detached, Written, Select, Mirrored, A!vars
<1>3. CASE \E s \in Saves : WriteRow(t, s) \/ MirrorRow(t, s)
  <2>1. Phase' = Phase
    BY <1>3 DEF WriteRow, MirrorRow
  <2> QED BY <1>3, <2>1 DEF WriteRow, MirrorRow, A!vars
<1>4. CASE RollBack(t)
  <2>1. Phase[t] \in {"open", "aborted"} /\ Phase' = [Phase EXCEPT ![t] = "rolledBack"]
    BY <1>4 DEF RollBack
  <2>2. A!RollBack(t)
    BY <1>4, <2>1 DEF RollBack, A!RollBack
  <2> QED BY <2>2 DEF A!Next
<1>5. CASE Close(t)
  <2>1. Phase[t] \in {"committed", "rolledBack"} /\ Phase' = [Phase EXCEPT ![t] = "none"]
    BY <1>5 DEF Close
  <2>2. A!Close(t)
    BY <1>5, <2>1 DEF Close, A!Close
  <2> QED BY <2>2 DEF A!Next
<1>6. ASSUME NEW s \in Saves, Deadlock(t, s)
      PROVE  [A!Next]_(A!vars)
  <2> DEFINE left == {x \in Saves : read[t][x] # NoRow} \ (mirrored[t] \cup {s})
  <2>1. /\ pc[t] = "mirror" /\ args[t].kind = "batch" /\ args[t].mirror
        /\ args[t].ids \subseteq Saves
    BY <1>6, ArgsTyped DEF Deadlock, TrxInv, CopiedAndDetached
  <2>2. /\ \A x \in args[t].ids : list[x] # NoRow
        /\ \A x \in Saves : read[t][x] # NoRow => x \in args[t].ids
    BY <2>1 DEF TrxInv, ReadStands
  <2>3. left \in SUBSET args[t].ids /\ left # args[t].ids
    BY <1>6, <2>2 DEF Deadlock
  <2>4. Phase[t] = "open" /\ Phase' = [Phase EXCEPT ![t] = "aborted"]
    BY <1>6 DEF Deadlock
  <2>5. strays' = [strays EXCEPT ![t] = left] /\ UNCHANGED <<list, shadow, attached, args>>
    BY <1>6 DEF Deadlock
  <2> HIDE DEF left
  <2>6. A!Abort(t)
    BY <2>1, <2>2, <2>3, <2>4, <2>5 DEF A!Abort
  <2> QED BY <2>6 DEF A!Next
<1>7. ASSUME NEW s \in Saves, StrayInsert(t, s) \/ StrayFails(t, s)
      PROVE  [A!Next]_(A!vars)
  <2>1. Phase' = Phase
    BY <1>7 DEF StrayInsert, StrayFails
  <2>2. s \in strays[t] => read[t][s] = args[t].value
    BY DEF TrxInv, StraysOfBatch
  <2>3. A!Stray(t, s)
    BY <1>7, <2>1, <2>2 DEF StrayInsert, StrayFails, A!Stray
  <2> QED BY <2>3 DEF A!Next
<1> QED BY <1>1, <1>2, <1>3, <1>4, <1>5, <1>6, <1>7 DEF Step

(* The transactions of savedItemsService and pocketSavesService take       *)
(* effect atomically on the list and the attached tables, for every number *)
(* of them in flight, and on the shadow table as AtomicWrites says.        *)
THEOREM TransactionsAreAtomic == Spec => WritesAreAtomic
<1>1. Init => A!Init
  BY DEF Init, A!Init, NoRows, Phase
<1>2. TypeOK /\ (\A t \in Trxs : TrxInv(t)) /\ [Next]_vars => [A!Next]_(A!vars)
  <2> SUFFICES ASSUME TypeOK, \A t \in Trxs : TrxInv(t), [Next]_vars
               PROVE  [A!Next]_(A!vars)
    OBVIOUS
  <2>1. CASE UNCHANGED vars
    BY <2>1 DEF vars, A!vars, Phase
  <2>2. ASSUME NEW t \in Trxs, Step(t) PROVE [A!Next]_(A!vars)
    BY <2>2, CommitIsAtomic, OtherStepsMap DEF A!Next
  <2>3. ASSUME NEW s \in Saves, NEW table \in Tables, Attach(s, table)
        PROVE  [A!Next]_(A!vars)
    <3>1. A!Attach(s, table)
      BY <2>3 DEF Attach, work, A!Attach, Phase
    <3> QED BY <3>1 DEF A!Next
  <2> QED BY <2>1, <2>2, <2>3 DEF Next
<1> QED BY <1>1, <1>2, TypeCorrect, TrxInvariant, PTL DEF Spec, A!Spec, WritesAreAtomic
=============================================================================
