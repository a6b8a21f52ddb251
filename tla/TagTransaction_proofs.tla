----------------------- MODULE TagTransaction_proofs -----------------------
(***************************************************************************)
(* The tag transactions keep their promises, for any number of them, of    *)
(* batches, and any kinds of mutations and failures.                       *)
(*                                                                         *)
(* The invariant has two parts.  Well(t) relates the program of a          *)
(* transaction, the statements on its connection and its writes; it is     *)
(* about one transaction.  Locks is about the entries of users_meta, where *)
(* all of them meet.                                                       *)
(***************************************************************************)
EXTENDS TagTransaction, SequenceTheorems, TLAPS

(* What a script is made of *)
ScriptStmts == (Stmts \ Ends) \cup {"fork", "deleteEach", "commit"}

(* A script ends with the two statements of logTagMutation and the COMMIT, *)
(* and forks at most once, at least three statements before its end.       *)
IsScript(s) ==
    /\ s \in Seq(ScriptStmts)
    /\ s # <<>>
    /\ \A i \in 1..Len(s) :
        /\ s[i] = "commit" <=> i = Len(s)
        /\ s[i] = "insertMeta" <=> i = Len(s) - 1
        /\ s[i] = "deleteMeta" <=> i = Len(s) - 2
        /\ s[i] = "fork" => /\ i + 3 <= Len(s)
                            /\ \A j \in i + 1..Len(s) : s[j] # "fork"

(* The statements that a background thread still sends after this one *)
FollowUps(mirror, e) ==
    CASE mirror /\ e.thread > 0 /\ e.stmt = "update" -> 2
      [] mirror /\ e.thread > 0 /\ e.stmt = "select" -> 1
      [] OTHER                                       -> 0

MainEntries(a) ==
    UNION {Elements(Together(stmt)) : stmt \in Elements(Program(a)) \ {"fork", "commit"}}

BackgroundEntries(a) ==
    IF a.kind \in Forking
    THEN {Background(i, stmt) : i \in 1..a.batches, stmt \in Elements(UpdateList(a.mirror))}
    ELSE {}

Issuable(a) == MainEntries(a) \cup BackgroundEntries(a)

(* The deletes of a Promise.all are the only statements of the main thread *)
(* that may be on the connection together.                                 *)
Deletes == {"deleteTags", "deleteOtherTags"}

(* The main thread waits for a statement.  A background thread is ahead:   *)
(* what it still has to send, the main thread cannot overtake with its     *)
(* COMMIT, for each of its statements is answered before the main thread   *)
(* has sent as many.                                                       *)
Running(a, s, q) ==
    /\ IsScript(s)
    /\ Elements(s) \subseteq Elements(Program(a))
    /\ q \in Seq(Entries)
    /\ Elements(q) \subseteq Issuable(a)
    /\ \E i \in 1..Len(q) : q[i].thread = 0
    /\ \A i \in 1..Len(q) : q[i].thread > 0 => "fork" \notin Elements(s)
    /\ \A i \in 1..Len(q) : q[i].thread = 0 =>
        /\ q[i].stmt = "deleteMeta" <=> Len(s) = 2
        /\ q[i].stmt = "insertMeta" <=> Len(s) = 1
        /\ \A j \in 1..Len(q) \ {i} : q[j].thread = 0 => q[i].stmt \in Deletes
        /\ \A j \in 1..Len(q) : q[j].thread > 0 =>
            FollowUps(a.mirror, q[j]) <= IF j < i THEN Len(s) ELSE Len(s) - 1

(* The COMMIT is the last statement of the connection, the background      *)
(* threads have sent theirs.                                               *)
Committing(a, s, q) ==
    /\ s = <<>>
    /\ q \in Seq(Entries)
    /\ q # <<>>
    /\ q[Len(q)] = Main("commit")
    /\ \A i \in 1..Len(q) - 1 :
        /\ q[i] \in Issuable(a)
        /\ q[i].thread > 0
        /\ FollowUps(a.mirror, q[i]) = 0

(* The ROLLBACK is the last statement of the connection *)
RollingBack(a, s, q) ==
    /\ s = <<>>
    /\ q \in Seq(Entries)
    /\ q # <<>>
    /\ q[Len(q)] = Main("rollback")
    /\ \A i \in 1..Len(q) - 1 :
        /\ q[i] \in Issuable(a)
        /\ q[i].thread = 0 => q[i].stmt \in Deletes

(* The write w will be issued, or is, and is not answered *)
StillToCome(w, s, q) ==
    \/ w \in Elements(q)
    \/ \E stmt \in Elements(s) : w \in Elements(Together(stmt))
    \/ w.thread > 0 /\ "fork" \in Elements(s)
    \/ w.stmt = "sync" /\ \E e \in Elements(q) : /\ e.thread > 0 /\ e.thread = w.thread
                                                  /\ e.stmt \in {"update", "select"}

(* Nothing is written that is not to be written, and, if nothing went      *)
(* wrong, everything that is to be written is or will be.                  *)
Accounted(t) ==
    /\ pending[t] \subseteq AllWrites(args[t])
    /\ Heard(t) => \A w \in AllWrites(args[t]) \ pending[t] : StillToCome(w, script[t], queue[t])

(* The lock on the entries of users_meta is taken by the first statement   *)
(* of logTagMutation; the second has been executed before the COMMIT.      *)
MetaInOrder(t) ==
    /\ phase[t] = "running" /\ Len(script[t]) > 1 => hold[t] = "none"
    /\ phase[t] \in {"running", "committing"} /\ Len(script[t]) <= 1 => hold[t] # "none"
    /\ phase[t] = "committing" => Main("insertMeta") \in pending[t]

Settled(t) ==
    /\ script[t] = <<>> /\ queue[t] = <<>>
    /\ pending[t] = {} /\ gone[t] = {} /\ hold[t] = "none"

Promised(t) ==
    /\ answer[t] # "none"
    /\ Heard(t) => durable[t] \in {{}, AllWrites(args[t])}
    /\ Heard(t) /\ answer[t] = "ok" => durable[t] = AllWrites(args[t])

(* One transaction *)
Well(t) ==
    /\ phase[t] \in {"idle", "running", "committing", "rollingBack", "done"}
    /\ args[t] = NoArgs <=> phase[t] = "idle"
    /\ phase[t] # "idle" => args[t] \in Args
    /\ phase[t] = "running" => Running(args[t], script[t], queue[t])
    /\ phase[t] = "committing" => Committing(args[t], script[t], queue[t])
    /\ phase[t] = "rollingBack" => RollingBack(args[t], script[t], queue[t])
    /\ phase[t] \in {"running", "committing"} => Accounted(t)
    /\ mode[t] = "trx" => MetaInOrder(t)
    /\ phase[t] \in {"idle", "done"} => Settled(t)
    /\ phase[t] = "done" => Promised(t)
    /\ phase[t] # "done" => answer[t] = "none" /\ (mode[t] = "trx" => durable[t] = {})
    /\ phase[t] = "idle" => Heard(t) /\ durable[t] = {}
    /\ mode[t] = "autocommit" => pending[t] = {} /\ hold[t] = "none"
    /\ Main("insertMeta") \in pending[t] => hold[t] = "rows"
    /\ hold[t] = "none" => gone[t] = {}
    /\ t \notin late

(* The entries of users_meta: who has locked them sees them as they are,   *)
(* and a lock on entries excludes every other.                             *)
Locks ==
    \A t \in Trxs :
        /\ hold[t] # "none" => gone[t] = metaRows
        /\ hold[t] = "gap" => metaRows = {}
        /\ hold[t] = "rows" => \A u \in Trxs \ {t} : hold[u] = "none"

Inv == TypeOK /\ (\A t \in Trxs : Well(t)) /\ Locks

-----------------------------------------------------------------------------
(* Sequences: what they are made of, and what becomes of a queue whose     *)
(* first entry is taken off while others are appended.                     *)

(* The elements of a sequence are what it has at its positions.            *)
LEMMA ElementsAt ==
    ASSUME NEW S, NEW s \in Seq(S)
    PROVE  /\ Elements(s) = {s[i] : i \in 1..Len(s)}
           /\ \A x : x \in Elements(s) <=> \E i \in 1..Len(s) : x = s[i]
           /\ Elements(s) \subseteq S
           /\ Len(s) \in Nat
BY DEF Elements

(* The first element of a sequence and the others.                         *)
LEMMA ElementsHeadTail ==
    ASSUME NEW S, NEW s \in Seq(S), s # <<>>
    PROVE  /\ Elements(s) = {Head(s)} \cup Elements(Tail(s))
           /\ Tail(s) \in Seq(S)
           /\ Len(Tail(s)) = Len(s) - 1
           /\ Len(s) \in Nat \ {0}
           /\ Head(s) = s[1]
           /\ Head(s) \in S
           /\ \A i \in 1..Len(s) - 1 : Tail(s)[i] = s[i + 1]
<1>1. /\ Tail(s) \in Seq(S) /\ Len(Tail(s)) = Len(s) - 1 /\ Len(s) \in Nat \ {0}
      /\ Head(s) = s[1] /\ Head(s) \in S
      /\ \A i \in 1..Len(s) - 1 : Tail(s)[i] = s[i + 1]
  OBVIOUS
<1>2. \A x : x \in Elements(s) <=> \E i \in 1..Len(s) : x = s[i]
  BY DEF Elements
<1>3. \A x : x \in Elements(Tail(s)) <=> \E i \in 1..Len(s) - 1 : x = s[i + 1]
  <2> DEFINE r == Tail(s)
  <2>1. r \in Seq(S) /\ Len(r) = Len(s) - 1 /\ \A i \in 1..Len(s) - 1 : r[i] = s[i + 1]
    BY <1>1
  <2> HIDE DEF r
  <2>2. \A x : x \in Elements(r) <=> \E i \in 1..Len(s) - 1 : x = s[i + 1]
    BY <2>1 DEF Elements
  <2> QED
    BY <2>2 DEF r
<1>4. ASSUME NEW x \in Elements(s) PROVE x = Head(s) \/ x \in Elements(Tail(s))
  <2>1. PICK i \in 1..Len(s) : x = s[i]
    BY <1>2
  <2>2. CASE i = 1
    BY <1>1, <2>1, <2>2
  <2>3. CASE i # 1
    <3>1. i - 1 \in 1..Len(s) - 1 /\ x = s[(i - 1) + 1]
      BY <1>1, <2>1, <2>3
    <3> QED
      BY <1>3, <3>1
  <2> QED
    BY <2>2, <2>3
<1>5. ASSUME NEW x, x = Head(s) \/ x \in Elements(Tail(s)) PROVE x \in Elements(s)
  <2>1. CASE x = Head(s)
    BY <1>1, <1>2, <2>1
  <2>2. CASE x \in Elements(Tail(s))
    <3>1. PICK i \in 1..Len(s) - 1 : x = s[i + 1]
      BY <1>3, <2>2
    <3>2. i + 1 \in 1..Len(s)
      BY <1>1, <3>1
    <3> QED
      BY <1>2, <3>1, <3>2
  <2> QED
    BY <1>5, <2>1, <2>2
<1> QED
  BY <1>1, <1>4, <1>5

(* A queue without its first entry, and with new ones at its end.          *)
LEMMA Moved ==
    ASSUME NEW S, NEW q \in Seq(S), q # <<>>, NEW n \in Seq(S)
    PROVE  /\ Tail(q) \o n \in Seq(S)
           /\ Len(Tail(q) \o n) = Len(q) - 1 + Len(n)
           /\ Len(q) \in Nat \ {0} /\ Len(n) \in Nat
           /\ \A i \in 1..Len(q) - 1 : (Tail(q) \o n)[i] = q[i + 1]
           /\ \A i \in 1..Len(n) : (Tail(q) \o n)[Len(q) - 1 + i] = n[i]
           /\ \A i \in 1..Len(Tail(q) \o n) : \/ i <= Len(q) - 1 /\ (Tail(q) \o n)[i] = q[i + 1]
                                              \/ i >= Len(q) /\ (Tail(q) \o n)[i] = n[i - (Len(q) - 1)]
           /\ Elements(Tail(q) \o n) = Elements(Tail(q)) \cup Elements(n)
           /\ Elements(q) = {Head(q)} \cup Elements(Tail(q))
           /\ Head(q) = q[1]
<1> DEFINE r == Tail(q) \o n
<1>1. /\ r \in Seq(S)
      /\ Len(r) = Len(q) - 1 + Len(n)
      /\ Len(q) \in Nat \ {0} /\ Len(n) \in Nat
      /\ \A i \in 1..Len(q) - 1 : r[i] = q[i + 1]
      /\ \A i \in 1..Len(n) : r[Len(q) - 1 + i] = n[i]
  OBVIOUS
<1>2. \A i \in 1..Len(r) : \/ i <= Len(q) - 1 /\ r[i] = q[i + 1]
                           \/ i >= Len(q) /\ r[i] = n[i - (Len(q) - 1)]
  OBVIOUS
<1> HIDE DEF r
<1>3. /\ Tail(q) \in Seq(S)
      /\ Len(Tail(q)) = Len(q) - 1
      /\ \A i \in 1..Len(q) - 1 : Tail(q)[i] = q[i + 1]
  BY ElementsHeadTail
<1>4. \A x : x \in Elements(r) <=> \E i \in 1..Len(r) : x = r[i]
  <2>1. \A s \in Seq(S) : \A x : x \in Elements(s) <=> \E i \in 1..Len(s) : x = s[i]
    BY DEF Elements
  <2> QED
    BY <1>1, <2>1
<1>5. \A x : x \in Elements(Tail(q)) <=> \E i \in 1..Len(q) - 1 : x = q[i + 1]
  <2>1. Elements(Tail(q)) = {Tail(q)[i] : i \in 1..Len(q) - 1}
    BY <1>3, ElementsAt
  <2>2. \A x : x \in Elements(Tail(q)) <=> \E i \in 1..Len(q) - 1 : x = Tail(q)[i]
    BY <2>1
  <2> QED
    BY <1>3, <2>2
<1>6. \A x : x \in Elements(n) <=> \E i \in 1..Len(n) : x = n[i]
  BY DEF Elements
<1>7. ASSUME NEW x \in Elements(r) PROVE x \in Elements(Tail(q)) \cup Elements(n)
  <2>1. PICK i \in 1..Len(r) : x = r[i]
    BY <1>4
  <2>2. CASE i <= Len(q) - 1
    <3>1. i \in 1..Len(q) - 1
      BY <1>1, <2>1, <2>2
    <3> QED
      BY <1>1, <1>5, <2>1, <3>1
  <2>3. CASE i > Len(q) - 1
    <3>1. i - (Len(q) - 1) \in 1..Len(n) /\ r[i] = n[i - (Len(q) - 1)]
      BY <1>1, <1>2, <2>1, <2>3
    <3> QED
      BY <1>6, <2>1, <3>1
  <2> QED
    BY <1>1, <2>1, <2>2, <2>3
<1>8. ASSUME NEW x \in Elements(Tail(q)) PROVE x \in Elements(r)
  <2>1. PICK i \in 1..Len(q) - 1 : x = q[i + 1]
    BY <1>5
  <2>2. i \in 1..Len(r)
    BY <1>1, <2>1
  <2> QED
    BY <1>1, <1>4, <2>1, <2>2
<1>9. ASSUME NEW x \in Elements(n) PROVE x \in Elements(r)
  <2>1. PICK i \in 1..Len(n) : x = n[i]
    BY <1>6
  <2>2. Len(q) - 1 + i \in 1..Len(r)
    BY <1>1, <2>1
  <2> QED
    BY <1>1, <1>4, <2>1, <2>2
<1>10. /\ r \in Seq(S)
       /\ Len(r) = Len(q) - 1 + Len(n)
       /\ Len(q) \in Nat \ {0} /\ Len(n) \in Nat
       /\ \A i \in 1..Len(q) - 1 : r[i] = q[i + 1]
       /\ \A i \in 1..Len(n) : r[Len(q) - 1 + i] = n[i]
       /\ \A i \in 1..Len(r) : \/ i <= Len(q) - 1 /\ r[i] = q[i + 1]
                               \/ i >= Len(q) /\ r[i] = n[i - (Len(q) - 1)]
       /\ Elements(r) = Elements(Tail(q)) \cup Elements(n)
       /\ Elements(q) = {Head(q)} \cup Elements(Tail(q))
       /\ Head(q) = q[1]
  BY <1>1, <1>2, <1>7, <1>8, <1>9, ElementsHeadTail
<1> QED
  BY <1>10 DEF r

(* Nothing is appended.                                                    *)
LEMMA MovedUp ==
    ASSUME NEW S, NEW q \in Seq(S), q # <<>>
    PROVE  Tail(q) \o <<>> = Tail(q)
<1>1. Tail(q) \in Seq(S)
  BY ElementsHeadTail
<1> QED
  BY <1>1, ConcatEmptySeq

-----------------------------------------------------------------------------
(* Programs *)

BodyStmts == {"insertTags", "deleteEach", "renameTags", "deleteTags", "fork",
              "update", "select", "sync"}

(* A program is a body, then logTagMutation and the COMMIT; the body forks *)
(* at most once, and not first.                                            *)
LEMMA Bodies ==
    ASSUME NEW a \in Args
    PROVE  \E body \in Seq(BodyStmts) :
               /\ Program(a) = body \o LogTagMutation \o <<"commit">>
               /\ Len(body) > 0 => body[1] # "fork"
               /\ \A i, j \in 1..Len(body) : body[i] = "fork" /\ body[j] = "fork" => i = j
               /\ (\E i \in 1..Len(body) : body[i] = "fork") <=> a.kind \in Forking
<1> DEFINE Fits(body) ==
        /\ body \in Seq(BodyStmts)
        /\ Len(body) > 0 => body[1] # "fork"
        /\ \A i, j \in 1..Len(body) : body[i] = "fork" /\ body[j] = "fork" => i = j
        /\ (\E i \in 1..Len(body) : body[i] = "fork") <=> a.kind \in Forking
<1>1. a.kind \in AllKinds /\ a.mirror \in BOOLEAN
  BY KindsAssumption DEF Args
<1>2. CASE a.kind = "insert"
  <2>1. Fits(<<"insertTags", "fork">>)
    BY <1>2 DEF BodyStmts, Forking
  <2> QED
    BY <1>2, <2>1 DEF Program
<1>3. CASE a.kind = "delete"
  <2>1. Fits(<<"deleteEach", "fork">>)
    BY <1>3 DEF BodyStmts, Forking
  <2> QED
    BY <1>3, <2>1 DEF Program
<1>4. CASE a.kind = "rename"
  <2>1. Fits(<<"renameTags", "fork", "deleteTags">>)
    BY <1>4 DEF BodyStmts, Forking
  <2> QED
    BY <1>4, <2>1 DEF Program
<1>5. CASE a.kind = "drop"
  <2>1. Fits(<<"deleteTags", "fork">>)
    BY <1>5 DEF BodyStmts, Forking
  <2> QED
    BY <1>5, <2>1 DEF Program
<1>6. CASE a.kind = "replace"
  <2>1. Fits(<<"deleteEach", "insertTags", "fork">>)
    BY <1>6 DEF BodyStmts, Forking
  <2> QED
    BY <1>6, <2>1 DEF Program
<1>7. CASE a.kind = "edit"
  <2>1. Fits(<<"deleteTags", "insertTags", "fork">>)
    BY <1>7 DEF BodyStmts, Forking
  <2> QED
    BY <1>7, <2>1 DEF Program
<1>8. CASE a.kind = "clear"
  <2> DEFINE body == <<"deleteTags">> \o UpdateList(a.mirror)
  <2>1. UpdateList(a.mirror) \in Seq(BodyStmts \ {"fork"})
    <3>1. <<"update">> \in Seq(BodyStmts \ {"fork"})
      BY DEF BodyStmts
    <3>2. <<"update", "select", "sync">> \in Seq(BodyStmts \ {"fork"})
      BY DEF BodyStmts
    <3> QED
      BY <3>1, <3>2 DEF UpdateList
  <2>2. body \in Seq(BodyStmts \ {"fork"})
    BY <2>1 DEF BodyStmts
  <2>3. \A i \in 1..Len(body) : body[i] # "fork"
    BY <2>2
  <2>4. body \in Seq(BodyStmts)
    BY <2>2
  <2>5. Len(body) > 0 => body[1] # "fork"
    BY <2>2, <2>3
  <2>6. a.kind \notin Forking
    BY <1>8 DEF Forking
  <2>7. Program(a) = body \o LogTagMutation \o <<"commit">>
    BY <1>8 DEF Program
  <2> HIDE DEF body
  <2> QED
    BY <2>3, <2>4, <2>5, <2>6, <2>7
<1>9. CASE a.kind = "remove"
  <2>1. Fits(<<"deleteTags">>)
    BY <1>9 DEF BodyStmts, Forking
  <2> QED
    BY <1>9, <2>1 DEF Program
<1>10. CASE a.kind = "log"
  <2>1. Fits(<<>>)
    BY <1>10 DEF BodyStmts, Forking
  <2> QED
    BY <1>10, <2>1 DEF Program
<1> QED
  BY <1>1, <1>2, <1>3, <1>4, <1>5, <1>6, <1>7, <1>8, <1>9, <1>10 DEF AllKinds, Forking

(* Every program is a script that does not begin with the fork.            *)
LEMMA Programs ==
    ASSUME NEW a \in Args
    PROVE  /\ IsScript(Program(a))
           /\ Len(Program(a)) >= 3
           /\ Program(a)[1] \notin {"fork", "commit", "insertMeta"}
           /\ "fork" \in Elements(Program(a)) <=> a.kind \in Forking
<1> DEFINE p == Program(a)
<1>1. PICK body \in Seq(BodyStmts) :
         /\ p = body \o LogTagMutation \o <<"commit">>
         /\ Len(body) > 0 => body[1] # "fork"
         /\ \A i, j \in 1..Len(body) : body[i] = "fork" /\ body[j] = "fork" => i = j
         /\ (\E i \in 1..Len(body) : body[i] = "fork") <=> a.kind \in Forking
  BY Bodies
<1>2. body \in Seq(ScriptStmts)
  BY DEF BodyStmts, ScriptStmts, Stmts, Ends
<1>3. /\ p \in Seq(ScriptStmts) /\ Len(p) = Len(body) + 3
      /\ (\A i \in 1..Len(body) : p[i] = body[i])
      /\ p[Len(body) + 1] = "deleteMeta" /\ p[Len(body) + 2] = "insertMeta"
      /\ p[Len(body) + 3] = "commit"
  BY <1>1, <1>2 DEF LogTagMutation, ScriptStmts, Stmts, Ends
<1>4. Len(body) \in Nat /\ \A i \in 1..Len(body) : body[i] \in BodyStmts
  OBVIOUS
<1> HIDE DEF p
<1>5. \A i \in 1..Len(p) : \/ i \in 1..Len(body)
                           \/ i = Len(body) + 1 \/ i = Len(body) + 2 \/ i = Len(body) + 3
  BY <1>3, <1>4
<1>6. ASSUME NEW i \in 1..Len(p)
      PROVE  /\ p[i] = "commit" <=> i = Len(p)
             /\ p[i] = "insertMeta" <=> i = Len(p) - 1
             /\ p[i] = "deleteMeta" <=> i = Len(p) - 2
             /\ p[i] = "fork" => i \in 1..Len(body) /\ body[i] = "fork"
  BY <1>3, <1>4, <1>5 DEF BodyStmts
<1>7. ASSUME NEW i \in 1..Len(p), p[i] = "fork"
      PROVE  i + 3 <= Len(p) /\ \A j \in i + 1..Len(p) : p[j] # "fork"
  <2>1. i + 3 <= Len(p)
    BY <1>3, <1>4, <1>6, <1>7
  <2>2. ASSUME NEW j \in i + 1..Len(p), p[j] = "fork" PROVE FALSE
    <3>1. j \in 1..Len(p)
      BY <1>3, <1>4
    <3> QED
      BY <1>1, <1>6, <1>7, <2>2, <3>1
  <2> QED
    BY <2>1, <2>2
<1>8. IsScript(p)
  <2>1. p # <<>>
    BY <1>3, <1>4
  <2> QED
    BY <1>3, <1>6, <1>7, <2>1 DEF IsScript
<1>9. p[1] \notin {"fork", "commit", "insertMeta"}
  BY <1>1, <1>3, <1>4, <1>6
<1>10. "fork" \in Elements(p) <=> a.kind \in Forking
  <2>1. "fork" \in Elements(p) <=> \E i \in 1..Len(p) : p[i] = "fork"
    BY <1>3, ElementsAt
  <2>2. (\E i \in 1..Len(p) : p[i] = "fork") <=> \E i \in 1..Len(body) : body[i] = "fork"
    BY <1>3, <1>4, <1>6
  <2> QED
    BY <1>1, <2>1, <2>2
<1> QED
  BY <1>3, <1>4, <1>8, <1>9, <1>10 DEF p

(* Two sequences one after the other.                                      *)
LEMMA Joined ==
    ASSUME NEW S, NEW b \in Seq(S), NEW n \in Seq(S)
    PROVE  /\ b \o n \in Seq(S)
           /\ Len(b \o n) = Len(b) + Len(n)
           /\ Len(b) \in Nat /\ Len(n) \in Nat
           /\ \A i \in 1..Len(b) : (b \o n)[i] = b[i]
           /\ \A i \in 1..Len(n) : (b \o n)[Len(b) + i] = n[i]
           /\ \A i \in 1..Len(b \o n) : \/ i \in 1..Len(b) /\ (b \o n)[i] = b[i]
                                        \/ i - Len(b) \in 1..Len(n) /\ (b \o n)[i] = n[i - Len(b)]
           /\ Elements(b \o n) = Elements(b) \cup Elements(n)
<1> DEFINE r == b \o n
<1>1. /\ r \in Seq(S)
      /\ Len(r) = Len(b) + Len(n)
      /\ Len(b) \in Nat /\ Len(n) \in Nat
      /\ \A i \in 1..Len(b) : r[i] = b[i]
      /\ \A i \in 1..Len(n) : r[Len(b) + i] = n[i]
  OBVIOUS
<1>2. \A i \in 1..Len(r) : \/ i \in 1..Len(b) /\ r[i] = b[i]
                           \/ i - Len(b) \in 1..Len(n) /\ r[i] = n[i - Len(b)]
  OBVIOUS
<1> HIDE DEF r
<1>3. \A s \in Seq(S) : \A x : x \in Elements(s) <=> \E i \in 1..Len(s) : x = s[i]
  BY DEF Elements
<1>4. ASSUME NEW x \in Elements(r) PROVE x \in Elements(b) \cup Elements(n)
  <2>1. PICK i \in 1..Len(r) : x = r[i]
    BY <1>1, <1>3
  <2>2. CASE i \in 1..Len(b) /\ r[i] = b[i]
    BY <1>3, <2>1, <2>2
  <2>3. CASE i - Len(b) \in 1..Len(n) /\ r[i] = n[i - Len(b)]
    BY <1>3, <2>1, <2>3
  <2> QED
    BY <1>2, <2>2, <2>3
<1>5. ASSUME NEW x \in Elements(b) PROVE x \in Elements(r)
  <2>1. PICK i \in 1..Len(b) : x = b[i]
    BY <1>3
  <2>2. i \in 1..Len(r) /\ x = r[i]
    BY <1>1, <2>1
  <2> QED
    BY <1>1, <1>3, <2>2
<1>6. ASSUME NEW x \in Elements(n) PROVE x \in Elements(r)
  <2>1. PICK i \in 1..Len(n) : x = n[i]
    BY <1>3
  <2>2. Len(b) + i \in 1..Len(r) /\ x = r[Len(b) + i]
    BY <1>1, <2>1
  <2> QED
    BY <1>1, <1>3, <2>2
<1>10. /\ r \in Seq(S)
       /\ Len(r) = Len(b) + Len(n)
       /\ Len(b) \in Nat /\ Len(n) \in Nat
       /\ \A i \in 1..Len(b) : r[i] = b[i]
       /\ \A i \in 1..Len(n) : r[Len(b) + i] = n[i]
       /\ \A i \in 1..Len(r) : \/ i \in 1..Len(b) /\ r[i] = b[i]
                               \/ i - Len(b) \in 1..Len(n) /\ r[i] = n[i - Len(b)]
       /\ Elements(r) = Elements(b) \cup Elements(n)
  BY <1>1, <1>2, <1>4, <1>5, <1>6
<1> QED
  BY <1>10 DEF r

(* Where the statements are that a script ends with.                       *)
LEMMA ScriptAt ==
    ASSUME NEW s, IsScript(s), NEW i \in 1..Len(s)
    PROVE  /\ s[i] = "commit" <=> i = Len(s)
           /\ s[i] = "insertMeta" <=> i = Len(s) - 1
           /\ s[i] = "deleteMeta" <=> i = Len(s) - 2
           /\ s[i] = "fork" => /\ i + 3 <= Len(s)
                               /\ \A j \in i + 1..Len(s) : s[j] # "fork"
BY DEF IsScript

(* The rest of a script is a script.                                       *)
LEMMA ScriptTail ==
    ASSUME NEW s, IsScript(s), s[1] # "commit"
    PROVE  /\ IsScript(Tail(s))
           /\ Len(Tail(s)) = Len(s) - 1
           /\ Len(s) \in Nat /\ Len(s) >= 2
           /\ Head(s) = s[1]
           /\ s[1] \in ScriptStmts
           /\ Elements(s) = {s[1]} \cup Elements(Tail(s))
           /\ Tail(s)[1] = s[2]
<1> DEFINE r == Tail(s)
<1>1. s \in Seq(ScriptStmts) /\ s # <<>>
  BY DEF IsScript
<1>2. /\ Elements(s) = {Head(s)} \cup Elements(r)
      /\ r \in Seq(ScriptStmts)
      /\ Len(r) = Len(s) - 1
      /\ Len(s) \in Nat \ {0}
      /\ Head(s) = s[1]
      /\ s[1] \in ScriptStmts
      /\ \A i \in 1..Len(s) - 1 : r[i] = s[i + 1]
  BY <1>1, ElementsHeadTail
<1>3. Len(s) # 1
  <2>1. 1 \in 1..Len(s)
    BY <1>2
  <2>2. s[1] = "commit" <=> 1 = Len(s)
    BY <2>1, ScriptAt
  <2> QED
    BY <2>2
<1> HIDE DEF r
<1>4. r # <<>>
  BY <1>2, <1>3
<1>5. ASSUME NEW i \in 1..Len(r)
      PROVE  /\ r[i] = "commit" <=> i = Len(r)
             /\ r[i] = "insertMeta" <=> i = Len(r) - 1
             /\ r[i] = "deleteMeta" <=> i = Len(r) - 2
             /\ r[i] = "fork" => i + 3 <= Len(r)
  <2>1. i + 1 \in 1..Len(s) /\ r[i] = s[i + 1]
    BY <1>2
  <2> QED
    BY <1>2, <2>1, ScriptAt
<1>6. ASSUME NEW i \in 1..Len(r), r[i] = "fork", NEW j \in i + 1..Len(r)
      PROVE  r[j] # "fork"
  <2>1. i + 1 \in 1..Len(s) /\ r[i] = s[i + 1] /\ j + 1 \in (i + 1) + 1..Len(s)
    BY <1>2
  <2>2. r[j] = s[j + 1]
    BY <1>2
  <2> QED
    BY <1>6, <2>1, <2>2, ScriptAt
<1>7. IsScript(r)
  BY <1>2, <1>4, <1>5, <1>6 DEF IsScript
<1> QED
  BY <1>2, <1>3, <1>7 DEF r

(* What the main thread sends at once.                                     *)
LEMMA Sent ==
    ASSUME NEW x \in ScriptStmts \ {"fork"}
    PROVE  /\ Together(x) \in Seq(Entries)
           /\ Len(Together(x)) \in {1, 2}
           /\ \A i \in 1..Len(Together(x)) : Together(x)[i].thread = 0
           /\ x # "deleteEach" => /\ Together(x) = <<Main(x)>>
                                  /\ Len(Together(x)) = 1
                                  /\ Together(x)[1].stmt = x
           /\ x = "deleteEach" =>
                \A i \in 1..Len(Together(x)) : Together(x)[i].stmt \in Deletes
<1>1. 0 \in 0..MaxBatches
  BY BatchesAssumption
<1>2. CASE x = "deleteEach"
  <2>1. Together(x) = <<Main("deleteTags"), Main("deleteOtherTags")>>
    BY <1>2 DEF Together
  <2>2. Main("deleteTags") \in Entries /\ Main("deleteOtherTags") \in Entries
    BY <1>1 DEF Main, Entries, Stmts
  <2>3. Main("deleteTags").stmt \in Deletes /\ Main("deleteOtherTags").stmt \in Deletes
    BY DEF Main, Deletes
  <2>4. Main("deleteTags").thread = 0 /\ Main("deleteOtherTags").thread = 0
    BY DEF Main
  <2>5. /\ Together(x) \in Seq(Entries) /\ Len(Together(x)) = 2
        /\ Together(x)[1] = Main("deleteTags") /\ Together(x)[2] = Main("deleteOtherTags")
    BY <2>1, <2>2
  <2>6. \A i \in 1..Len(Together(x)) : i = 1 \/ i = 2
    BY <2>5
  <2> QED
    BY <1>2, <2>3, <2>4, <2>5, <2>6
<1>3. CASE x # "deleteEach"
  <2>1. Together(x) = <<Main(x)>>
    BY <1>3 DEF Together
  <2>2. Main(x) \in Entries
    BY <1>1, <1>3 DEF Main, Entries, ScriptStmts, Stmts
  <2>3. Main(x).stmt = x /\ Main(x).thread = 0
    BY DEF Main
  <2> QED
    BY <1>3, <2>1, <2>2, <2>3
<1> QED
  BY <1>2, <1>3

(* Statements of the program are issuable, and are not the COMMIT.         *)
LEMMA SentIssuable ==
    ASSUME NEW a \in Args,
           NEW x \in Elements(Program(a)) \ {"fork", "commit"}
    PROVE  Elements(Together(x)) \subseteq Issuable(a)
BY DEF Issuable, MainEntries

(* An entry that may be issued is one of the connection's; it is no COMMIT *)
(* and no ROLLBACK.                                                        *)
LEMMA IssuableIs ==
    ASSUME NEW a \in Args, NEW e \in Issuable(a)
    PROVE  e \in Entries /\ e.stmt \notin Ends /\ e.thread \in Nat
<1>1. CASE e \in MainEntries(a)
  <2>1. PICK x \in Elements(Program(a)) \ {"fork", "commit"} : e \in Elements(Together(x))
    BY <1>1 DEF MainEntries
  <2>2. Program(a) \in Seq(ScriptStmts)
    BY Programs DEF IsScript
  <2>3. x \in ScriptStmts \ {"fork"}
    BY <2>1, <2>2, ElementsAt
  <2>4. PICK i \in 1..Len(Together(x)) : e = Together(x)[i]
    BY <2>1, <2>3, Sent, ElementsAt
  <2>5. e \in Entries /\ e.thread = 0
    BY <2>3, <2>4, Sent
  <2>6. e.stmt = x \/ e.stmt \in Deletes
    BY <2>3, <2>4, Sent
  <2> QED
    BY <2>1, <2>3, <2>5, <2>6 DEF Deletes, Ends, ScriptStmts
<1>2. CASE e \in BackgroundEntries(a)
  <2>1. PICK i \in 1..a.batches, x \in Elements(UpdateList(a.mirror)) : e = Background(i, x)
    BY <1>2 DEF BackgroundEntries
  <2>2. a.batches \in 0..MaxBatches
    BY DEF Args
  <2>3. x \in {"update", "select", "sync"}
    BY <2>1 DEF UpdateList, Elements
  <2>4. i \in 0..MaxBatches
    BY <2>1, <2>2, BatchesAssumption
  <2> QED
    BY <2>1, <2>3, <2>4, BatchesAssumption DEF Background, Entries, Stmts, Ends
<1> QED
  BY <1>1, <1>2 DEF Issuable

(* The main thread goes on with the head of a script, after the statements *)
(* of background threads that are on the connection.                       *)
LEMMA Resumes ==
    ASSUME NEW a \in Args,
           NEW s, IsScript(s), s[1] \notin {"fork", "commit"},
           Elements(s) \subseteq Elements(Program(a)),
           NEW b \in Seq(Entries), Elements(b) \subseteq Issuable(a),
           \A i \in 1..Len(b) : /\ b[i].thread > 0
                                /\ "fork" \notin Elements(Tail(s))
                                /\ FollowUps(a.mirror, b[i]) <= Len(s) - 1
    PROVE  Running(a, Tail(s), b \o Together(Head(s)))
<1> DEFINE x == s[1]
           n == Together(x)
           r == b \o n
           rest == Tail(s)
<1>1. /\ IsScript(rest) /\ Len(rest) = Len(s) - 1 /\ Len(s) \in Nat /\ Len(s) >= 2
      /\ Head(s) = x /\ x \in ScriptStmts \ {"fork"}
      /\ Elements(s) = {x} \cup Elements(rest)
  BY ScriptTail
<1>2. /\ n \in Seq(Entries) /\ Len(n) \in {1, 2}
      /\ \A i \in 1..Len(n) : n[i].thread = 0
      /\ x # "deleteEach" => Len(n) = 1 /\ n[1].stmt = x
      /\ x = "deleteEach" => \A i \in 1..Len(n) : n[i].stmt \in Deletes
  BY <1>1, Sent
<1>3. Elements(n) \subseteq Issuable(a)
  BY <1>1, SentIssuable
<1>4. /\ x = "insertMeta" <=> 1 = Len(s) - 1
      /\ x = "deleteMeta" <=> 1 = Len(s) - 2
  <2>1. 1 \in 1..Len(s)
    BY <1>1
  <2> QED
    BY <2>1, ScriptAt
<1>10. r = b \o n
  OBVIOUS
<1> HIDE DEF x, n, rest, r
<1>5. /\ r \in Seq(Entries)
      /\ Len(r) = Len(b) + Len(n)
      /\ Len(b) \in Nat /\ Len(n) \in Nat
      /\ \A i \in 1..Len(b) : r[i] = b[i]
      /\ \A i \in 1..Len(n) : r[Len(b) + i] = n[i]
      /\ \A i \in 1..Len(r) : \/ i \in 1..Len(b) /\ r[i] = b[i]
                              \/ i - Len(b) \in 1..Len(n) /\ r[i] = n[i - Len(b)]
      /\ Elements(r) = Elements(b) \cup Elements(n)
  <2>1. n \in Seq(Entries)
    BY <1>2
  <2> QED
    BY <2>1, <1>10, Joined
<1>6. \E i \in 1..Len(r) : r[i].thread = 0
  <2>1. Len(b) + 1 \in 1..Len(r) /\ r[Len(b) + 1] = n[1] /\ 1 \in 1..Len(n)
    BY <1>2, <1>5
  <2> QED
    BY <1>2, <2>1
<1>7. \A i \in 1..Len(r) : r[i].thread > 0 => "fork" \notin Elements(rest)
  BY <1>2, <1>5 DEF rest
<1>8. ASSUME NEW i \in 1..Len(r), r[i].thread = 0
      PROVE  /\ r[i].stmt = "deleteMeta" <=> Len(rest) = 2
             /\ r[i].stmt = "insertMeta" <=> Len(rest) = 1
             /\ \A j \in 1..Len(r) \ {i} : r[j].thread = 0 => r[i].stmt \in Deletes
             /\ \A j \in 1..Len(r) : r[j].thread > 0 =>
                    FollowUps(a.mirror, r[j]) <= IF j < i THEN Len(rest) ELSE Len(rest) - 1
  <2>1. i - Len(b) \in 1..Len(n) /\ r[i] = n[i - Len(b)]
    BY <1>5, <1>8
  <2>4. ASSUME NEW j \in 1..Len(r) \ {i}, r[j].thread = 0 PROVE r[i].stmt \in Deletes
    <3>1. j - Len(b) \in 1..Len(n)
      BY <1>5, <2>4
    <3>2. Len(n) # 1
      BY <1>5, <2>1, <2>4, <3>1
    <3> QED
      BY <1>2, <2>1, <3>2
  <2>5. ASSUME NEW j \in 1..Len(r), r[j].thread > 0
        PROVE  FollowUps(a.mirror, r[j]) <= IF j < i THEN Len(rest) ELSE Len(rest) - 1
    <3>1. j \in 1..Len(b) /\ r[j] = b[j]
      BY <1>2, <1>5, <2>5
    <3>2. j < i
      BY <1>5, <2>1, <3>1
    <3> QED
      BY <1>1, <3>1, <3>2
  <2>6. /\ r[i].stmt = "deleteMeta" <=> Len(rest) = 2
        /\ r[i].stmt = "insertMeta" <=> Len(rest) = 1
    <3>1. CASE x = "deleteEach"
      <4>1. r[i].stmt \in {"deleteTags", "deleteOtherTags"}
        BY <1>2, <2>1, <3>1 DEF Deletes
      <4> QED
        BY <1>1, <1>4, <3>1, <4>1
    <3>2. CASE x # "deleteEach"
      <4>1. r[i].stmt = x
        <5>1. i - Len(b) = 1
          <6>1. Len(n) = 1
            BY <1>2, <3>2
          <6>2. i \in Nat
            BY <1>5
          <6> QED
            BY <1>5, <2>1, <6>1, <6>2
        <5> QED
          BY <1>2, <2>1, <3>2, <5>1
      <4> QED
        BY <1>1, <1>4, <4>1
    <3> QED
      BY <3>1, <3>2
  <2> QED
    BY <2>4, <2>5, <2>6
<1>9. Running(a, rest, r)
  BY <1>1, <1>3, <1>5, <1>6, <1>7, <1>8 DEF Running
<1> QED
  BY <1>1, <1>9 DEF r, n, rest, x

(* The entry at the head of a connection, and those behind it.             *)
LEMMA QueueParts ==
    ASSUME NEW q \in Seq(Entries), q # <<>>
    PROVE  /\ Head(q) = q[1] /\ q[1] \in Entries
           /\ Len(q) \in Nat \ {0}
           /\ Tail(q) \in Seq(Entries)
           /\ Elements(q) = {q[1]} \cup Elements(Tail(q))
           /\ \A e : e \in Elements(Tail(q)) <=> \E i \in 2..Len(q) : e = q[i]
<1>1. /\ Head(q) = q[1] /\ q[1] \in Entries
      /\ Len(q) \in Nat \ {0}
      /\ Tail(q) \in Seq(Entries) /\ Len(Tail(q)) = Len(q) - 1
      /\ Elements(q) = {q[1]} \cup Elements(Tail(q))
      /\ \A i \in 1..Len(q) - 1 : Tail(q)[i] = q[i + 1]
  BY ElementsHeadTail
<1>2. Elements(Tail(q)) = {Tail(q)[i] : i \in 1..Len(q) - 1}
  BY <1>1, ElementsAt
<1>3. \A e : e \in Elements(Tail(q)) <=> \E i \in 1..Len(q) - 1 : e = q[i + 1]
  BY <1>1, <1>2
<1>4. ASSUME NEW e, NEW i \in 2..Len(q), e = q[i] PROVE \E j \in 1..Len(q) - 1 : e = q[j + 1]
  <2>1. i - 1 \in 1..Len(q) - 1 /\ e = q[(i - 1) + 1]
    BY <1>1, <1>4
  <2> QED
    BY <2>1
<1>5. ASSUME NEW e, NEW i \in 1..Len(q) - 1, e = q[i + 1] PROVE \E j \in 2..Len(q) : e = q[j]
  <2>1. i + 1 \in 2..Len(q)
    BY <1>1
  <2> QED
    BY <1>5, <2>1
<1> QED
  BY <1>1, <1>3, <1>4, <1>5

(* An entry is one of the main thread or of a background thread.           *)
LEMMA MainOrBackground ==
    ASSUME NEW e \in Entries
    PROVE  e.thread \in Nat /\ (e.thread = 0 \/ e.thread > 0)
BY BatchesAssumption DEF Entries

(* The main thread keeps waiting: a background thread has moved, or one of *)
(* the deletes of a Promise.all is answered.                               *)
LEMMA KeepsRunning ==
    ASSUME NEW a \in Args, NEW s, NEW q, Running(a, s, q),
           \E e \in Elements(Tail(q)) : e.thread = 0,
           NEW n \in Seq(Entries),
           \A i \in 1..Len(n) : /\ n[i] \in Issuable(a)
                                /\ n[i].thread > 0
                                /\ Head(q).thread > 0
                                /\ FollowUps(a.mirror, n[i]) <= FollowUps(a.mirror, Head(q)) - 1
    PROVE  Running(a, s, Tail(q) \o n)
<1> DEFINE r == Tail(q) \o n
<1>1. q \in Seq(Entries) /\ q # <<>>
  <2>1. q # <<>>
    <3> SUFFICES ASSUME q = <<>> PROVE FALSE
      OBVIOUS
    <3>1. PICK i \in 1..Len(q) : q[i].thread = 0
      BY DEF Running
    <3> QED
      BY <3>1
  <2> QED
    BY <2>1 DEF Running
<1>2. /\ r \in Seq(Entries)
      /\ Len(r) = Len(q) - 1 + Len(n)
      /\ Len(q) \in Nat \ {0} /\ Len(n) \in Nat
      /\ \A i \in 1..Len(q) - 1 : r[i] = q[i + 1]
      /\ \A i \in 1..Len(r) : \/ i <= Len(q) - 1 /\ r[i] = q[i + 1]
                              \/ i >= Len(q) /\ r[i] = n[i - (Len(q) - 1)]
      /\ Elements(r) = Elements(Tail(q)) \cup Elements(n)
      /\ Elements(q) = {Head(q)} \cup Elements(Tail(q))
      /\ Head(q) = q[1]
  BY <1>1, Moved
<1>3. Len(s) \in Nat
  BY DEF Running, IsScript
<1> HIDE DEF r
<1>4. Elements(r) \subseteq Issuable(a)
  <2>1. Elements(n) \subseteq Issuable(a)
    BY DEF Elements
  <2> QED
    BY <1>2, <2>1 DEF Running
<1>5. \A i \in 1..Len(r) : i >= Len(q) => /\ i - (Len(q) - 1) \in 1..Len(n)
                                          /\ r[i] = n[i - (Len(q) - 1)]
  BY <1>2
<1>6. \A i \in 1..Len(r) : i < Len(q) => i + 1 \in 1..Len(q) /\ r[i] = q[i + 1]
  BY <1>2
<1>7. \E i \in 1..Len(r) : r[i].thread = 0
  <2>1. PICK i \in 2..Len(q) : q[i].thread = 0
    BY <1>1, QueueParts
  <2>2. i - 1 \in 1..Len(r) /\ r[i - 1] = q[(i - 1) + 1]
    BY <1>2
  <2> QED
    BY <2>1, <2>2
<1>8. ASSUME NEW i \in 1..Len(r), r[i].thread > 0 PROVE "fork" \notin Elements(s)
  <2>1. CASE i < Len(q)
    BY <1>6, <1>8, <2>1 DEF Running
  <2>2. CASE i >= Len(q)
    <3>1. Head(q).thread > 0 /\ 1 \in 1..Len(q) /\ Head(q) = q[1]
      BY <1>2, <1>5, <2>2
    <3> QED
      BY <3>1 DEF Running
  <2> QED
    BY <1>2, <2>1, <2>2
<1>9. ASSUME NEW i \in 1..Len(r), r[i].thread = 0
      PROVE  /\ r[i].stmt = "deleteMeta" <=> Len(s) = 2
             /\ r[i].stmt = "insertMeta" <=> Len(s) = 1
             /\ \A j \in 1..Len(r) \ {i} : r[j].thread = 0 => r[i].stmt \in Deletes
             /\ \A j \in 1..Len(r) : r[j].thread > 0 =>
                    FollowUps(a.mirror, r[j]) <= IF j < i THEN Len(s) ELSE Len(s) - 1
  <2>1. i < Len(q)
    <3> SUFFICES ASSUME i >= Len(q) PROVE FALSE
      BY <1>2
    <3>1. i - (Len(q) - 1) \in 1..Len(n) /\ r[i] = n[i - (Len(q) - 1)]
      BY <1>5
    <3> QED
      BY <1>9, <3>1
  <2>2. i + 1 \in 1..Len(q) /\ r[i] = q[i + 1] /\ q[i + 1].thread = 0
    BY <1>6, <1>9, <2>1
  <2>3. /\ r[i].stmt = "deleteMeta" <=> Len(s) = 2
        /\ r[i].stmt = "insertMeta" <=> Len(s) = 1
    BY <2>2 DEF Running
  <2>4. ASSUME NEW j \in 1..Len(r) \ {i}, r[j].thread = 0 PROVE r[i].stmt \in Deletes
    <3>1. j < Len(q)
      BY <1>2, <1>5, <2>4
    <3>2. j + 1 \in 1..Len(q) \ {i + 1} /\ q[j + 1].thread = 0
      BY <1>2, <1>6, <2>1, <2>4, <3>1
    <3> QED
      BY <2>2, <3>2 DEF Running
  <2>5. ASSUME NEW j \in 1..Len(r), r[j].thread > 0
        PROVE  FollowUps(a.mirror, r[j]) <= IF j < i THEN Len(s) ELSE Len(s) - 1
    <3>1. CASE j < Len(q)
      <4>1. j + 1 \in 1..Len(q) /\ r[j] = q[j + 1]
        BY <1>6, <3>1
      <4>2. FollowUps(a.mirror, q[j + 1]) <= IF j + 1 < i + 1 THEN Len(s) ELSE Len(s) - 1
        BY <2>2, <2>5, <4>1 DEF Running
      <4> QED
        BY <4>1, <4>2
    <3>2. CASE j >= Len(q)
      <4>1. /\ Head(q).thread > 0 /\ 1 \in 1..Len(q) /\ Head(q) = q[1]
            /\ FollowUps(a.mirror, r[j]) <= FollowUps(a.mirror, Head(q)) - 1
        BY <1>2, <1>5, <3>2
      <4>2. FollowUps(a.mirror, q[1]) <= IF 1 < i + 1 THEN Len(s) ELSE Len(s) - 1
        BY <2>2, <4>1 DEF Running
      <4>3. FollowUps(a.mirror, q[1]) \in Nat /\ FollowUps(a.mirror, r[j]) \in Nat
        BY DEF FollowUps
      <4> QED
        BY <1>3, <2>1, <3>2, <4>1, <4>2, <4>3
    <3> QED
      BY <1>2, <3>1, <3>2
  <2> QED
    BY <2>3, <2>4, <2>5
<1>10. Running(a, s, r)
  BY <1>2, <1>4, <1>7, <1>8, <1>9 DEF Running
<1> QED
  BY <1>10 DEF r

(* The main thread goes on to a statement other than the COMMIT.           *)
LEMMA MainSends ==
    ASSUME NEW a \in Args, NEW s, NEW q, Running(a, s, q),
           ~ \E e \in Elements(Tail(q)) : e.thread = 0,
           Head(q).thread = 0,
           s[1] \notin {"fork", "commit"}
    PROVE  Running(a, Tail(s), Tail(q) \o Together(Head(s)))
<1>1. q \in Seq(Entries) /\ q # <<>>
  <2>1. \E i \in 1..Len(q) : TRUE
    BY DEF Running
  <2> QED
    BY <2>1 DEF Running
<1>2. IsScript(s) /\ Elements(s) \subseteq Elements(Program(a))
  BY DEF Running
<1>3. /\ Tail(q) \in Seq(Entries) /\ Elements(Tail(q)) \subseteq Issuable(a)
      /\ Len(Tail(q)) = Len(q) - 1 /\ Len(q) \in Nat \ {0} /\ Head(q) = q[1]
      /\ \A i \in 1..Len(q) - 1 : Tail(q)[i] = q[i + 1]
  BY <1>1, ElementsHeadTail DEF Running
<1>4. ASSUME NEW i \in 1..Len(Tail(q))
      PROVE  /\ Tail(q)[i].thread > 0
             /\ "fork" \notin Elements(Tail(s))
             /\ FollowUps(a.mirror, Tail(q)[i]) <= Len(s) - 1
  <2>1. i + 1 \in 2..Len(q) /\ Tail(q)[i] = q[i + 1]
    BY <1>3
  <2>2. q[i + 1] \in Entries /\ q[i + 1] \in Elements(Tail(q))
    BY <1>1, <2>1, QueueParts, ElementsAt
  <2>3. q[i + 1].thread > 0
    BY <2>2, MainOrBackground
  <2>4. 1 \in 1..Len(q) /\ i + 1 \in 1..Len(q) /\ q[1].thread = 0 /\ ~(i + 1 < 1)
    BY <1>3, <2>1
  <2>5. FollowUps(a.mirror, q[i + 1]) <= Len(s) - 1
    BY <2>3, <2>4 DEF Running
  <2>6. "fork" \notin Elements(s)
    BY <2>3, <2>4 DEF Running
  <2>7. Elements(Tail(s)) \subseteq Elements(s)
    BY <1>2, ScriptTail
  <2> QED
    BY <2>1, <2>3, <2>5, <2>6, <2>7
<1> QED
  BY <1>2, <1>3, <1>4, Resumes

(* The first statements of the background threads.                         *)
LEMMA FirstStatements ==
    ASSUME NEW a \in Args
    PROVE  /\ [i \in Batches(a) |-> Background(i, "update")] \in Seq(Entries)
           /\ Len([i \in Batches(a) |-> Background(i, "update")]) = a.batches
           /\ \A i \in 1..a.batches :
                [j \in Batches(a) |-> Background(j, "update")][i] = Background(i, "update")
<1> DEFINE first == [i \in Batches(a) |-> Background(i, "update")]
<1>1. a.batches \in 0..MaxBatches /\ a.batches \in Nat /\ MaxBatches \in Nat
  BY BatchesAssumption DEF Args
<1>2. \A i \in 1..a.batches : Background(i, "update") \in Entries
  BY <1>1 DEF Background, Entries, Stmts
<1> QED
  BY <1>1, <1>2 DEF Batches

(* The main thread starts the background threads, and goes on.             *)
LEMMA MainForks ==
    ASSUME NEW a \in Args, NEW s, NEW q, Running(a, s, q),
           ~ \E e \in Elements(Tail(q)) : e.thread = 0,
           s[1] = "fork",
           NEW first \in Seq(Entries), Len(first) = a.batches,
           \A i \in 1..a.batches : first[i] = Background(i, "update")
    PROVE  /\ Tail(q) = <<>>
           /\ Head(Tail(s)) # "commit"
           /\ Tail(q) \o (first \o Together(Head(Tail(s)))) = first \o Together(Head(Tail(s)))
           /\ Running(a, Tail(Tail(s)), Tail(q) \o (first \o Together(Head(Tail(s)))))
<1>1. q \in Seq(Entries) /\ q # <<>>
  <2>1. \E i \in 1..Len(q) : TRUE
    BY DEF Running
  <2> QED
    BY <2>1 DEF Running
<1>2. IsScript(s) /\ Elements(s) \subseteq Elements(Program(a)) /\ s[1] # "commit"
  BY DEF Running
<1> DEFINE rest == Tail(s)
<1>3. /\ IsScript(rest) /\ Len(rest) = Len(s) - 1 /\ Len(s) \in Nat /\ Len(s) >= 2
      /\ Elements(s) = {s[1]} \cup Elements(rest) /\ rest[1] = s[2]
  BY <1>2, ScriptTail
<1>4. Len(s) >= 4 /\ \A j \in 2..Len(s) : s[j] # "fork"
  <2>1. 1 \in 1..Len(s)
    BY <1>3
  <2> QED
    BY <1>2, <1>3, <2>1, ScriptAt
<1>5. s[2] \notin {"fork", "commit"}
  <2>1. 2 \in 1..Len(s)
    BY <1>3
  <2> QED
    BY <1>2, <1>3, <1>4, <2>1, ScriptAt
<1>6. Tail(q) = <<>>
  <2> SUFFICES ASSUME Tail(q) # <<>> PROVE FALSE
    OBVIOUS
  <2>1. Tail(q) \in Seq(Entries) /\ Head(Tail(q)) \in Elements(Tail(q))
    BY <1>1, ElementsHeadTail
  <2>2. PICK i \in 2..Len(q) : Head(Tail(q)) = q[i]
    BY <1>1, <2>1, QueueParts
  <2>3. i \in 1..Len(q) /\ q[i] \in Entries
    BY <1>1, <2>2
  <2>4. q[i].thread > 0
    BY <2>1, <2>2, <2>3, MainOrBackground
  <2> QED
    BY <1>3, <2>3, <2>4 DEF Running
<1>7. a.batches \in 0..MaxBatches /\ a.batches \in Nat /\ MaxBatches \in Nat
  BY BatchesAssumption DEF Args
<1>8. a.kind \in Forking
  BY <1>2, <1>3, Programs
<1>9. /\ \A i \in 1..a.batches : Background(i, "update") \in Entries
      /\ \A i \in 1..a.batches : Background(i, "update") \in Issuable(a)
  <2>1. "update" \in Elements(UpdateList(a.mirror))
    <3>1. "update" \in Elements(<<"update">>) /\ "update" \in Elements(<<"update", "select", "sync">>)
      BY DEF Elements
    <3> QED
      BY <3>1 DEF UpdateList
  <2>2. \A i \in 1..a.batches : Background(i, "update") \in Issuable(a)
    BY <1>8, <2>1 DEF Issuable, BackgroundEntries
  <2> QED
    BY <2>2, IssuableIs
<1>10. /\ first \in Seq(Entries) /\ Len(first) = a.batches
       /\ \A i \in 1..a.batches : first[i] = Background(i, "update")
  OBVIOUS
<1>11. Elements(first) \subseteq Issuable(a)
  BY <1>9, <1>10, ElementsAt
<1>12. ASSUME NEW i \in 1..Len(first)
       PROVE  /\ first[i].thread > 0
              /\ "fork" \notin Elements(Tail(rest))
              /\ FollowUps(a.mirror, first[i]) <= Len(rest) - 1
  <2>1. first[i] = Background(i, "update") /\ i > 0
    BY <1>10
  <2>2. FollowUps(a.mirror, first[i]) \in {0, 2}
    BY <2>1 DEF FollowUps, Background
  <2>3. "fork" \notin Elements(rest)
    <3>1. \A x \in Elements(rest) : \E j \in 1..Len(rest) : x = rest[j]
      <4>1. rest \in Seq(ScriptStmts)
        BY <1>3 DEF IsScript
      <4> HIDE DEF rest
      <4> QED
        BY <4>1, ElementsAt
    <3>2. \A j \in 1..Len(rest) : j + 1 \in 2..Len(s) /\ rest[j] = s[j + 1]
      <4>1. s \in Seq(ScriptStmts) /\ s # <<>>
        BY <1>2 DEF IsScript
      <4> QED
        BY <1>3, <4>1, ElementsHeadTail
    <3> QED
      BY <1>4, <3>1, <3>2
  <2>4. Elements(Tail(rest)) \subseteq Elements(rest)
    BY <1>3, <1>5, ScriptTail
  <2> QED
    BY <1>3, <1>4, <2>1, <2>2, <2>3, <2>4 DEF Background
<1>13. Running(a, Tail(rest), first \o Together(Head(rest)))
  BY <1>2, <1>3, <1>5, <1>10, <1>11, <1>12, Resumes
<1>14. Head(rest) = s[2]
  BY <1>3, <1>5, ScriptTail
<1>15. Tail(q) \o (first \o Together(Head(rest))) = first \o Together(Head(rest))
  <2>1. first \o Together(Head(rest)) \in Seq(Entries)
    BY <1>13 DEF Running
  <2> QED
    BY <1>6, <2>1, ConcatEmptySeq
<1> QED
  BY <1>5, <1>6, <1>10, <1>13, <1>14, <1>15

(* A program begins.                                                       *)
LEMMA ProgramBegins ==
    ASSUME NEW a \in Args
    PROVE  Running(a, Tail(Program(a)), Together(Head(Program(a))))
<1> DEFINE p == Program(a)
<1>1. IsScript(p) /\ p[1] \notin {"fork", "commit"}
  BY Programs
<1>2. <<>> \in Seq(Entries) /\ Elements(<<>>) = {} /\ Len(<<>>) = 0
  BY DEF Elements
<1>3. Running(a, Tail(p), <<>> \o Together(Head(p)))
  <2> DEFINE b == <<>>
  <2>1. /\ b \in Seq(Entries) /\ Elements(b) \subseteq Issuable(a)
        /\ \A i \in 1..Len(b) : FALSE
    BY <1>2
  <2>2. Elements(p) \subseteq Elements(Program(a))
    OBVIOUS
  <2> HIDE DEF b, p
  <2>3. Running(a, Tail(p), b \o Together(Head(p)))
    BY <1>1, <2>1, <2>2, Resumes
  <2> QED
    BY <2>3 DEF b
<1>4. Together(Head(p)) \in Seq(Entries)
  BY <1>1, ScriptTail, Sent
<1>5. <<>> \o Together(Head(p)) = Together(Head(p))
  BY <1>4, ConcatEmptySeq
<1> QED
  BY <1>3, <1>5

(* A statement of the main thread at the head of the connection tells how  *)
(* far the script is.                                                      *)
LEMMA MainAtHead ==
    ASSUME NEW a \in Args, NEW s, NEW q, Running(a, s, q), Head(q).thread = 0
    PROVE  /\ IsScript(s) /\ Len(s) \in Nat \ {0}
           /\ Head(q).stmt = "deleteMeta" <=> Len(s) = 2
           /\ Head(q).stmt = "insertMeta" <=> Len(s) = 1
           /\ (\E x \in Elements(Tail(q)) : x.thread = 0) => Head(q).stmt \in Deletes
<1>1. q \in Seq(Entries) /\ q # <<>> /\ IsScript(s)
  <2>1. q \in Seq(Entries) /\ \E i \in 1..Len(q) : TRUE
    BY DEF Running
  <2> QED
    BY <2>1 DEF Running
<1>2. /\ Head(q) = q[1] /\ Len(q) \in Nat \ {0}
      /\ \A x : x \in Elements(Tail(q)) <=> \E i \in 2..Len(q) : x = q[i]
  BY <1>1, QueueParts
<1>3. 1 \in 1..Len(q)
  BY <1>2
<1>4. /\ q[1].stmt = "deleteMeta" <=> Len(s) = 2
      /\ q[1].stmt = "insertMeta" <=> Len(s) = 1
      /\ \A j \in 1..Len(q) \ {1} : q[j].thread = 0 => q[1].stmt \in Deletes
  BY <1>2, <1>3 DEF Running
<1>5. ASSUME NEW x \in Elements(Tail(q)), x.thread = 0 PROVE q[1].stmt \in Deletes
  <2>1. PICK i \in 2..Len(q) : x = q[i]
    BY <1>2
  <2>2. i \in 1..Len(q) \ {1}
    BY <1>2
  <2> QED
    BY <1>4, <1>5, <2>1, <2>2
<1>6. Len(s) \in Nat \ {0}
  <2>1. s \in Seq(ScriptStmts) /\ s # <<>>
    BY <1>1 DEF IsScript
  <2> QED
    BY <2>1
<1> QED
  BY <1>1, <1>2, <1>4, <1>5, <1>6

(* When a background thread is answered, the main thread waits behind it.  *)
LEMMA MainBehind ==
    ASSUME NEW a \in Args, NEW s, NEW q, Running(a, s, q), Head(q).thread > 0
    PROVE  \E x \in Elements(Tail(q)) : x.thread = 0
<1>1. PICK i \in 1..Len(q) : q[i].thread = 0
  BY DEF Running
<1>2. q \in Seq(Entries) /\ q # <<>>
  BY <1>1 DEF Running
<1>3. /\ Head(q) = q[1] /\ Len(q) \in Nat \ {0}
      /\ \A x : x \in Elements(Tail(q)) <=> \E j \in 2..Len(q) : x = q[j]
  BY <1>2, QueueParts
<1>4. i # 1
  BY <1>1, <1>3
<1>5. i \in 2..Len(q)
  BY <1>3, <1>4
<1> QED
  BY <1>1, <1>3, <1>5

(* The main thread sends the COMMIT: no background thread has anything     *)
(* left to send.                                                           *)
LEMMA MainCommits ==
    ASSUME NEW a \in Args, NEW s, NEW q, Running(a, s, q),
           ~ \E e \in Elements(Tail(q)) : e.thread = 0,
           Head(q).thread = 0,
           s[1] = "commit"
    PROVE  /\ Head(s) = "commit" /\ Tail(s) = <<>>
           /\ Together("commit") = <<Main("commit")>>
           /\ Committing(a, Tail(s), Tail(q) \o Together(Head(s)))
<1>1. q \in Seq(Entries) /\ q # <<>>
  <2>1. \E i \in 1..Len(q) : TRUE
    BY DEF Running
  <2> QED
    BY <2>1 DEF Running
<1>2. s \in Seq(ScriptStmts) /\ Len(s) = 1 /\ Head(s) = "commit" /\ Tail(s) = <<>>
  <2>1. s \in Seq(ScriptStmts) /\ s # <<>> /\ IsScript(s)
    BY DEF Running, IsScript
  <2>2. /\ Len(s) \in Nat \ {0} /\ Head(s) = s[1]
        /\ Tail(s) \in Seq(ScriptStmts) /\ Len(Tail(s)) = Len(s) - 1
    BY <2>1, ElementsHeadTail
  <2>3. 1 = Len(s)
    BY <2>1, <2>2, ScriptAt
  <2>4. Tail(s) = <<>>
    <3>1. Tail(s) \in Seq(ScriptStmts) /\ Len(Tail(s)) = 0
      BY <2>2, <2>3
    <3> QED
      BY <3>1, EmptySeq
  <2> QED
    BY <2>1, <2>2, <2>3, <2>4
<1>3. Main("commit") \in Entries
  BY BatchesAssumption DEF Main, Entries, Stmts
<1>4. Together("commit") = <<Main("commit")>>
  BY DEF Together
<1> DEFINE n == <<Main("commit")>>
           r == Tail(q) \o n
<1>5. n \in Seq(Entries) /\ Len(n) = 1 /\ n[1] = Main("commit")
  BY <1>3
<1> HIDE DEF n
<1>6. /\ r \in Seq(Entries)
      /\ Len(r) = Len(q) - 1 + Len(n)
      /\ Len(q) \in Nat \ {0}
      /\ \A i \in 1..Len(q) - 1 : r[i] = q[i + 1]
      /\ \A i \in 1..Len(n) : r[Len(q) - 1 + i] = n[i]
  <2>1. n \in Seq(Entries)
    BY <1>5
  <2> QED
    BY <1>1, <2>1, Moved
<1> HIDE DEF r
<1>7. r # <<>> /\ Len(r) = Len(q) /\ r[Len(r)] = Main("commit")
  <2>1. Len(r) = Len(q) - 1 + 1 /\ 1 \in 1..Len(n)
    BY <1>5, <1>6
  <2> QED
    BY <1>5, <1>6, <2>1
<1>8. ASSUME NEW i \in 1..Len(r) - 1
      PROVE  r[i] \in Issuable(a) /\ r[i].thread > 0 /\ FollowUps(a.mirror, r[i]) = 0
  <2>1. i + 1 \in 2..Len(q) /\ i + 1 \in 1..Len(q) /\ r[i] = q[i + 1]
    BY <1>6, <1>7
  <2>2. q[i + 1] \in Elements(Tail(q)) /\ q[i + 1] \in Elements(q) /\ q[i + 1] \in Entries
    BY <1>1, <2>1, QueueParts, ElementsAt
  <2>3. q[i + 1].thread > 0
    BY <2>2, MainOrBackground
  <2>4. 1 \in 1..Len(q) /\ q[1].thread = 0 /\ ~(i + 1 < 1)
    BY <1>1, <1>6, <2>1, QueueParts
  <2>5. FollowUps(a.mirror, q[i + 1]) <= Len(s) - 1
    BY <2>1, <2>3, <2>4 DEF Running
  <2>6. FollowUps(a.mirror, q[i + 1]) \in Nat
    BY DEF FollowUps
  <2>7. q[i + 1] \in Issuable(a)
    BY <2>2 DEF Running
  <2> QED
    BY <1>2, <2>1, <2>3, <2>5, <2>6, <2>7
<1>9. Committing(a, <<>>, r)
  BY <1>6, <1>7, <1>8 DEF Committing
<1> QED
  BY <1>2, <1>4, <1>9 DEF r, n

(* The main thread is rejected.                                            *)
LEMMA MainIsRejected ==
    ASSUME NEW a \in Args, NEW s, NEW q, Running(a, s, q), Head(q).thread = 0
    PROVE  RollingBack(a, <<>>, Tail(q) \o <<Main("rollback")>>)
<1>1. q \in Seq(Entries) /\ q # <<>>
  <2>1. \E i \in 1..Len(q) : TRUE
    BY DEF Running
  <2> QED
    BY <2>1 DEF Running
<1>2. Main("rollback") \in Entries
  BY BatchesAssumption DEF Main, Entries, Stmts
<1> DEFINE n == <<Main("rollback")>>
           r == Tail(q) \o n
<1>3. n \in Seq(Entries) /\ Len(n) = 1 /\ n[1] = Main("rollback")
  BY <1>2
<1> HIDE DEF n
<1>4. /\ r \in Seq(Entries)
      /\ Len(r) = Len(q) - 1 + Len(n)
      /\ Len(q) \in Nat \ {0}
      /\ \A i \in 1..Len(q) - 1 : r[i] = q[i + 1]
      /\ \A i \in 1..Len(n) : r[Len(q) - 1 + i] = n[i]
      /\ Head(q) = q[1]
  BY <1>1, <1>3, Moved
<1> HIDE DEF r
<1>5. r # <<>> /\ Len(r) = Len(q) /\ r[Len(r)] = Main("rollback")
  <2>1. Len(r) = Len(q) - 1 + 1 /\ 1 \in 1..Len(n)
    BY <1>3, <1>4
  <2> QED
    BY <1>3, <1>4, <2>1
<1>6. ASSUME NEW i \in 1..Len(r) - 1
      PROVE  r[i] \in Issuable(a) /\ (r[i].thread = 0 => r[i].stmt \in Deletes)
  <2>1. i + 1 \in 1..Len(q) /\ r[i] = q[i + 1] /\ 1 \in 1..Len(q) \ {i + 1} /\ q[1].thread = 0
    BY <1>4, <1>5
  <2>2. q[i + 1] \in Elements(q)
    BY <1>1, <2>1, ElementsAt
  <2> QED
    BY <2>1, <2>2 DEF Running
<1>7. RollingBack(a, <<>>, r)
  BY <1>4, <1>5, <1>6 DEF RollingBack
<1> QED
  BY <1>7 DEF r, n

(* A statement before the ROLLBACK is answered, whoever waits for it.      *)
LEMMA KeepsRollingBack ==
    ASSUME NEW a \in Args, NEW s, NEW q, RollingBack(a, s, q), Head(q).stmt # "rollback"
    PROVE  /\ RollingBack(a, s, Tail(q) \o <<>>)
           /\ \E e \in Elements(Tail(q)) : e.thread = 0
           /\ q # <<>>
           /\ Head(q) \in Issuable(a)
           /\ Head(q).thread = 0 => Head(q).stmt \in Deletes
<1> DEFINE r == Tail(q)
<1>1. q \in Seq(Entries) /\ q # <<>>
  BY DEF RollingBack
<1>2. /\ r \in Seq(Entries) /\ Len(r) = Len(q) - 1
      /\ Len(q) \in Nat \ {0} /\ Head(q) = q[1]
      /\ \A i \in 1..Len(q) - 1 : r[i] = q[i + 1]
  BY <1>1, ElementsHeadTail
<1>3. r = Tail(q) \o <<>>
  BY <1>1, MovedUp
<1> HIDE DEF r
<1>4. Len(q) # 1
  BY <1>2 DEF RollingBack, Main
<1>5. Len(r) \in 1..Len(q) - 1 /\ r # <<>> /\ r[Len(r)] = Main("rollback")
  <2>1. Len(r) \in 1..Len(q) - 1 /\ Len(r) + 1 = Len(q)
    BY <1>2, <1>4
  <2> QED
    BY <1>2, <2>1 DEF RollingBack
<1>6. ASSUME NEW i \in 1..Len(r) - 1
      PROVE  r[i] \in Issuable(a) /\ (r[i].thread = 0 => r[i].stmt \in Deletes)
  <2>1. i + 1 \in 1..Len(q) - 1 /\ r[i] = q[i + 1]
    BY <1>2
  <2> QED
    BY <2>1 DEF RollingBack
<1>7. RollingBack(a, s, r)
  BY <1>2, <1>5, <1>6 DEF RollingBack
<1>8. Main("rollback") \in Elements(r)
  BY <1>2, <1>5, ElementsAt
<1>9. 1 \in 1..Len(q) - 1
  BY <1>2, <1>4
<1>10. Head(q) \in Issuable(a) /\ (Head(q).thread = 0 => Head(q).stmt \in Deletes)
  BY <1>2, <1>9 DEF RollingBack
<1> QED
  BY <1>1, <1>3, <1>7, <1>8, <1>10 DEF r, Main

(* A statement before the COMMIT is answered: it is one of a background    *)
(* thread, which has no other to send.                                     *)
LEMMA KeepsCommitting ==
    ASSUME NEW a \in Args, NEW s, NEW q, Committing(a, s, q), Head(q).stmt # "commit"
    PROVE  /\ Committing(a, s, Tail(q) \o <<>>)
           /\ q # <<>>
           /\ Head(q) \in Issuable(a)
           /\ Head(q).thread > 0
           /\ FollowUps(a.mirror, Head(q)) = 0
<1> DEFINE r == Tail(q)
<1>1. q \in Seq(Entries) /\ q # <<>>
  BY DEF Committing
<1>2. /\ r \in Seq(Entries) /\ Len(r) = Len(q) - 1
      /\ Len(q) \in Nat \ {0} /\ Head(q) = q[1]
      /\ \A i \in 1..Len(q) - 1 : r[i] = q[i + 1]
  BY <1>1, ElementsHeadTail
<1>3. r = Tail(q) \o <<>>
  BY <1>1, MovedUp
<1> HIDE DEF r
<1>4. Len(q) # 1
  BY <1>2 DEF Committing, Main
<1>5. Len(r) \in 1..Len(q) - 1 /\ r # <<>> /\ r[Len(r)] = Main("commit")
  <2>1. Len(r) \in 1..Len(q) - 1 /\ Len(r) + 1 = Len(q)
    BY <1>2, <1>4
  <2> QED
    BY <1>2, <2>1 DEF Committing
<1>6. ASSUME NEW i \in 1..Len(r) - 1
      PROVE  r[i] \in Issuable(a) /\ r[i].thread > 0 /\ FollowUps(a.mirror, r[i]) = 0
  <2>1. i + 1 \in 1..Len(q) - 1 /\ r[i] = q[i + 1]
    BY <1>2
  <2> QED
    BY <2>1 DEF Committing
<1>7. Committing(a, s, r)
  BY <1>2, <1>5, <1>6 DEF Committing
<1>8. 1 \in 1..Len(q) - 1
  BY <1>2, <1>4
<1>9. Head(q) \in Issuable(a) /\ Head(q).thread > 0 /\ FollowUps(a.mirror, Head(q)) = 0
  BY <1>2, <1>8 DEF Committing
<1> QED
  BY <1>1, <1>3, <1>7, <1>9 DEF r

(* The COMMIT is alone on the connection when it is answered.              *)
LEMMA CommitAlone ==
    ASSUME NEW a \in Args, NEW s, NEW q, Committing(a, s, q), Head(q) = Main("commit")
    PROVE  q # <<>> /\ Tail(q) \o <<>> = <<>> /\ Elements(q) = {Main("commit")}
<1>1. q \in Seq(Entries) /\ q # <<>>
  BY DEF Committing
<1>2. /\ Tail(q) \in Seq(Entries) /\ Len(Tail(q)) = Len(q) - 1
      /\ Len(q) \in Nat \ {0} /\ Head(q) = q[1]
      /\ Elements(q) = {Head(q)} \cup Elements(Tail(q))
  BY <1>1, ElementsHeadTail
<1>3. Len(q) = 1
  <2> SUFFICES ASSUME Len(q) # 1 PROVE FALSE
    OBVIOUS
  <2>1. 1 \in 1..Len(q) - 1
    BY <1>2
  <2> QED
    BY <1>2, <2>1 DEF Committing, Main
<1>4. Tail(q) = <<>>
  <2>1. Tail(q) \in Seq(Entries) /\ Len(Tail(q)) = 0
    BY <1>2, <1>3
  <2> QED
    BY <2>1, EmptySeq
<1>5. Elements(Tail(q)) = {}
  BY <1>4 DEF Elements
<1> QED
  BY <1>1, <1>2, <1>4, <1>5, MovedUp

(* So is the ROLLBACK.                                                     *)
LEMMA RollbackAlone ==
    ASSUME NEW a \in Args, NEW s, NEW q, RollingBack(a, s, q), Head(q) = Main("rollback")
    PROVE  q # <<>> /\ Tail(q) \o <<>> = <<>>
<1>1. q \in Seq(Entries) /\ q # <<>>
  BY DEF RollingBack
<1>2. /\ Tail(q) \in Seq(Entries) /\ Len(Tail(q)) = Len(q) - 1
      /\ Len(q) \in Nat \ {0} /\ Head(q) = q[1]
  BY <1>1, ElementsHeadTail
<1>3. Len(q) = 1
  <2> SUFFICES ASSUME Len(q) # 1 PROVE FALSE
    OBVIOUS
  <2>1. 1 \in 1..Len(q) - 1
    BY <1>2
  <2>2. Main("rollback") \in Issuable(a)
    BY <1>2, <2>1 DEF RollingBack
  <2>3. Main("rollback").stmt \notin Ends
    BY <2>2, IssuableIs
  <2> QED
    BY <2>3 DEF Main, Ends
<1>4. Tail(q) = <<>>
  <2>1. Tail(q) \in Seq(Entries) /\ Len(Tail(q)) = 0
    BY <1>2, <1>3
  <2> QED
    BY <2>1, EmptySeq
<1> QED
  BY <1>1, <1>4, MovedUp

-----------------------------------------------------------------------------
(* Writes: none is lost from one place to the next.                        *)

(* The writes of a transaction are what it issues, without its reads.      *)
LEMMA AllWritesAre ==
    ASSUME NEW a \in Args
    PROVE  /\ \A e \in Issuable(a) : Written(e) \subseteq AllWrites(a)
           /\ \A w \in AllWrites(a) : w \in Issuable(a) /\ w.stmt # "select" /\ w \in Written(w)
<1>1. AllWrites(a) = UNION {Written(e) : e \in Issuable(a)}
  BY DEF AllWrites, Issuable, MainEntries, BackgroundEntries
<1>2. ASSUME NEW w \in AllWrites(a)
      PROVE  w \in Issuable(a) /\ w.stmt # "select" /\ w \in Written(w)
  <2>1. PICK e \in Issuable(a) : w \in Written(e)
    BY <1>1
  <2>2. w = e /\ e.stmt # "select"
    BY <2>1 DEF Written
  <2> QED
    BY <2>2 DEF Written
<1> QED
  BY <1>1, <1>2

(* What a background thread issues.                                        *)
LEMMA BackgroundIs ==
    ASSUME NEW a \in Args, NEW e \in Issuable(a), e.thread > 0
    PROVE  /\ a.kind \in Forking
           /\ e.thread \in 1..a.batches
           /\ e = Background(e.thread, e.stmt)
           /\ e.stmt = "update" \/ (e.stmt \in {"select", "sync"} /\ a.mirror)
           /\ a.mirror => \A x \in {"select", "sync"} : Background(e.thread, x) \in Issuable(a)
<1>1. e \notin MainEntries(a)
  <2> SUFFICES ASSUME e \in MainEntries(a) PROVE FALSE
    OBVIOUS
  <2>1. PICK x \in Elements(Program(a)) \ {"fork", "commit"} : e \in Elements(Together(x))
    BY DEF MainEntries
  <2>2. Program(a) \in Seq(ScriptStmts)
    BY Programs DEF IsScript
  <2>3. x \in ScriptStmts \ {"fork"}
    BY <2>1, <2>2, ElementsAt
  <2>4. PICK i \in 1..Len(Together(x)) : e = Together(x)[i]
    BY <2>1, <2>3, Sent, ElementsAt
  <2> QED
    BY <2>3, <2>4, Sent
<1>2. PICK i \in 1..a.batches, x \in Elements(UpdateList(a.mirror)) :
         e = Background(i, x) /\ a.kind \in Forking
  BY <1>1 DEF Issuable, BackgroundEntries
<1>3. /\ x = "update" \/ (a.mirror /\ x \in {"update", "select", "sync"})
      /\ a.mirror => Elements(UpdateList(a.mirror)) = {"update", "select", "sync"}
  <2>1. Elements(<<"update">>) = {"update"}
    BY DEF Elements
  <2>2. Elements(<<"update", "select", "sync">>) = {"update", "select", "sync"}
    BY DEF Elements
  <2> QED
    BY <1>2, <2>1, <2>2 DEF UpdateList
<1>4. ASSUME a.mirror, NEW y \in {"select", "sync"}
      PROVE  Background(i, y) \in Issuable(a)
  <2>1. y \in Elements(UpdateList(a.mirror))
    BY <1>3, <1>4
  <2>2. Background(i, y) \in BackgroundEntries(a)
    BY <1>2, <2>1 DEF BackgroundEntries
  <2> QED
    BY <2>2 DEF Issuable
<1>5. e.thread = i /\ e.stmt = x
  BY <1>2 DEF Background
<1> QED
  BY <1>2, <1>3, <1>4, <1>5

(* What of it are writes.                                                  *)
LEMMA BackgroundWrites ==
    ASSUME NEW a \in Args, NEW w \in AllWrites(a), w.thread > 0
    PROVE  /\ w.thread \in 1..a.batches
           /\ w = Background(w.thread, w.stmt)
           /\ w.stmt = "update" \/ (w.stmt = "sync" /\ a.mirror)
BY AllWritesAre, BackgroundIs

(* A statement that is not one of the main thread's is answered, or one    *)
(* that it does not go on from; what a background thread has to send after *)
(* it is appended.                                                         *)
LEMMA StillWaiting ==
    ASSUME NEW a \in Args, NEW s, NEW q \in Seq(Entries), q # <<>>,
           NEW w \in AllWrites(a), w \notin Written(Head(q)), StillToCome(w, s, q),
           NEW n \in Seq(Entries),
           a.mirror /\ Head(q).thread > 0 /\ Head(q).stmt = "update"
               => Background(Head(q).thread, "select") \in Elements(n),
           a.mirror /\ Head(q).thread > 0 /\ Head(q).stmt = "select"
               => Background(Head(q).thread, "sync") \in Elements(n)
    PROVE  StillToCome(w, s, Tail(q) \o n)
<1>1. /\ Elements(q) = {Head(q)} \cup Elements(Tail(q))
      /\ Elements(Tail(q) \o n) = Elements(Tail(q)) \cup Elements(n)
  BY Moved
<1>2. w # Head(q)
  BY AllWritesAre
<1>3. CASE w \in Elements(q)
  BY <1>1, <1>2, <1>3 DEF StillToCome
<1>4. CASE \/ \E stmt \in Elements(s) : w \in Elements(Together(stmt))
           \/ w.thread > 0 /\ "fork" \in Elements(s)
  BY <1>4 DEF StillToCome
<1>5. CASE w.stmt = "sync" /\ \E e \in Elements(q) : /\ e.thread > 0 /\ e.thread = w.thread
                                                      /\ e.stmt \in {"update", "select"}
  <2>1. PICK e \in Elements(q) : /\ e.thread > 0 /\ e.thread = w.thread
                                 /\ e.stmt \in {"update", "select"}
    BY <1>5
  <2>2. CASE e \in Elements(Tail(q))
    BY <1>1, <1>5, <2>1, <2>2 DEF StillToCome
  <2>3. CASE e = Head(q)
    <3>1. a.mirror /\ w = Background(e.thread, "sync")
      BY <1>5, <2>1, BackgroundWrites
    <3>2. CASE e.stmt = "select"
      BY <1>1, <2>1, <2>3, <3>1, <3>2 DEF StillToCome
    <3>3. CASE e.stmt = "update"
      <4>1. Background(e.thread, "select") \in Elements(n)
        BY <2>1, <2>3, <3>1, <3>3
      <4> QED
        BY <1>1, <1>5, <2>1, <4>1 DEF StillToCome, Background
    <3> QED
      BY <2>1, <3>2, <3>3
  <2> QED
    BY <1>1, <2>1, <2>2, <2>3
<1> QED
  BY <1>3, <1>4, <1>5 DEF StillToCome

(* The main thread goes on to a statement of its own.                      *)
LEMMA StillSending ==
    ASSUME NEW a \in Args, NEW s \in Seq(ScriptStmts), s # <<>>, s[1] # "fork",
           NEW q \in Seq(Entries), q # <<>>, Head(q).thread = 0,
           NEW w \in AllWrites(a), w \notin Written(Head(q)), StillToCome(w, s, q)
    PROVE  StillToCome(w, Tail(s), Tail(q) \o Together(Head(s)))
<1>1. /\ Elements(s) = {Head(s)} \cup Elements(Tail(s))
      /\ Head(s) = s[1] /\ Head(s) \in ScriptStmts \ {"fork"}
  BY ElementsHeadTail
<1>2. Together(Head(s)) \in Seq(Entries)
  BY <1>1, Sent
<1>3. /\ Elements(q) = {Head(q)} \cup Elements(Tail(q))
      /\ Elements(Tail(q) \o Together(Head(s))) = Elements(Tail(q)) \cup Elements(Together(Head(s)))
  BY <1>2, Moved
<1>4. w # Head(q)
  BY AllWritesAre
<1>5. CASE w \in Elements(q)
  BY <1>3, <1>4, <1>5 DEF StillToCome
<1>6. CASE \E stmt \in Elements(s) : w \in Elements(Together(stmt))
  BY <1>1, <1>3, <1>6 DEF StillToCome
<1>7. CASE w.thread > 0 /\ "fork" \in Elements(s)
  BY <1>1, <1>7 DEF StillToCome
<1>8. CASE w.stmt = "sync" /\ \E e \in Elements(q) : /\ e.thread > 0 /\ e.thread = w.thread
                                                      /\ e.stmt \in {"update", "select"}
  <2>1. PICK e \in Elements(q) : /\ e.thread > 0 /\ e.thread = w.thread
                                 /\ e.stmt \in {"update", "select"}
    BY <1>8
  <2>2. e \in Elements(Tail(q))
    BY <1>3, <2>1
  <2> QED
    BY <1>3, <1>8, <2>1, <2>2 DEF StillToCome
<1> QED
  BY <1>5, <1>6, <1>7, <1>8 DEF StillToCome

(* The main thread starts the background threads: their writes are sent,   *)
(* or follow what is sent.                                                 *)
LEMMA StillForking ==
    ASSUME NEW a \in Args, NEW s \in Seq(ScriptStmts), Len(s) > 1, s[1] = "fork", s[2] # "fork",
           NEW q \in Seq(Entries), q # <<>>, Head(q).thread = 0, Tail(q) = <<>>,
           NEW w \in AllWrites(a), w \notin Written(Head(q)), StillToCome(w, s, q),
           NEW first \in Seq(Entries), Len(first) = a.batches,
           \A i \in 1..a.batches : first[i] = Background(i, "update")
    PROVE  StillToCome(w, Tail(Tail(s)), first \o Together(Head(Tail(s))))
<1>1. /\ Elements(s) = {Head(s)} \cup Elements(Tail(s)) /\ Head(s) = "fork"
      /\ Tail(s) \in Seq(ScriptStmts) /\ Len(Tail(s)) = Len(s) - 1
      /\ Len(s) \in Nat /\ Tail(s)[1] = s[2]
  <2>1. s # <<>>
    OBVIOUS
  <2> QED
    BY <2>1, ElementsHeadTail
<1> DEFINE rest == Tail(s)
<1>2. rest \in Seq(ScriptStmts) /\ rest # <<>> /\ rest[1] # "fork"
  <2>1. Len(rest) > 0 /\ rest \in Seq(ScriptStmts) /\ rest[1] # "fork"
    BY <1>1
  <2> HIDE DEF rest
  <2> QED
    BY <2>1
<1> HIDE DEF rest
<1>3. /\ Elements(rest) = {Head(rest)} \cup Elements(Tail(rest))
      /\ Head(rest) \in ScriptStmts \ {"fork"}
  BY <1>2, ElementsHeadTail
<1>4. Together(Head(rest)) \in Seq(Entries)
  BY <1>3, Sent
<1>5. Elements(first \o Together(Head(rest))) = Elements(first) \cup Elements(Together(Head(rest)))
  BY <1>4, Joined
<1>6. Elements(q) = {Head(q)}
  <2>1. Elements(q) = {Head(q)} \cup Elements(Tail(q))
    BY ElementsHeadTail
  <2>2. Elements(<<>>) = {}
    BY DEF Elements
  <2> QED
    BY <2>1, <2>2
<1>7. w # Head(q) /\ w \in Entries
  BY AllWritesAre, IssuableIs
<1>8. CASE w \in Elements(q)
  BY <1>6, <1>7, <1>8
<1>9. CASE \E stmt \in Elements(s) : w \in Elements(Together(stmt))
  <2>1. PICK stmt \in Elements(s) : w \in Elements(Together(stmt))
    BY <1>9
  <2>2. stmt # "fork"
    <3> SUFFICES ASSUME stmt = "fork" PROVE FALSE
      OBVIOUS
    <3>1. Elements(Together("fork")) = {Main("fork")}
      BY DEF Together, Elements
    <3>2. w.stmt = "fork"
      BY <2>1, <3>1 DEF Main
    <3> QED
      BY <1>7, <3>2 DEF Entries, Stmts
  <2>3. stmt = Head(rest) \/ stmt \in Elements(Tail(rest))
    BY <1>1, <1>3, <2>1, <2>2 DEF rest
  <2>4. StillToCome(w, Tail(rest), first \o Together(Head(rest)))
    BY <1>5, <2>1, <2>3 DEF StillToCome
  <2> QED
    BY <2>4 DEF rest
<1>10. CASE w.thread > 0
  <2>1. /\ w.thread \in 1..a.batches /\ w = Background(w.thread, w.stmt)
        /\ w.stmt \in {"update", "sync"}
    BY <1>10, BackgroundWrites
  <2>2. Background(w.thread, "update") \in Elements(first)
    <3>1. w.thread \in 1..Len(first) /\ first[w.thread] = Background(w.thread, "update")
      BY <2>1
    <3> QED
      BY <3>1, ElementsAt
  <2>3. StillToCome(w, Tail(rest), first \o Together(Head(rest)))
    <3>1. CASE w.stmt = "update"
      BY <1>5, <2>1, <2>2, <3>1 DEF StillToCome
    <3>2. CASE w.stmt = "sync"
      <4> DEFINE e == Background(w.thread, "update")
      <4>1. e.thread = w.thread /\ e.stmt = "update"
        BY DEF Background
      <4>2. e \in Elements(first \o Together(Head(rest)))
        BY <1>5, <2>2
      <4> QED
        BY <1>10, <3>2, <4>1, <4>2 DEF StillToCome
    <3> QED
      BY <2>1, <3>1, <3>2
  <2> QED
    BY <2>3 DEF rest
<1> QED
  BY <1>8, <1>9, <1>10 DEF StillToCome

(* All writes of a program are to come when it begins.                     *)
LEMMA StillAll ==
    ASSUME NEW a \in Args, NEW w \in AllWrites(a)
    PROVE  StillToCome(w, Tail(Program(a)), Together(Head(Program(a))))
<1> DEFINE p == Program(a)
<1>1. IsScript(p) /\ p[1] \notin {"fork", "commit"}
  BY Programs
<1>2. Elements(p) = {p[1]} \cup Elements(Tail(p)) /\ Head(p) = p[1]
  BY <1>1, ScriptTail
<1>3. w \in Issuable(a)
  BY AllWritesAre
<1>4. CASE w \in MainEntries(a)
  <2>1. PICK x \in Elements(p) \ {"fork", "commit"} : w \in Elements(Together(x))
    BY <1>4 DEF MainEntries
  <2> QED
    BY <1>2, <2>1 DEF StillToCome
<1>5. CASE w \in BackgroundEntries(a)
  <2>1. a.kind \in Forking /\ w.thread > 0
    BY <1>5 DEF BackgroundEntries, Background
  <2>2. "fork" \in Elements(Tail(p))
    BY <1>1, <1>2, <2>1, Programs
  <2> QED
    BY <2>1, <2>2 DEF StillToCome
<1> QED
  BY <1>3, <1>4, <1>5 DEF Issuable

(* None is to come when the COMMIT is alone on the connection.             *)
LEMMA StillNone ==
    ASSUME NEW a \in Args, NEW w \in AllWrites(a), NEW q, Elements(q) = {Main("commit")}
    PROVE  ~ StillToCome(w, <<>>, q)
<1>1. w.stmt # "commit"
  BY AllWritesAre, IssuableIs DEF Ends
<1>2. Elements(<<>>) = {}
  BY DEF Elements
<1> QED
  BY <1>1, <1>2 DEF StillToCome, Main

-----------------------------------------------------------------------------
(* The server's side of a step                                             *)

(* What a statement that takes effect changes of its own transaction.      *)
LEMMA Effect ==
    ASSUME TypeOK, NEW t \in Trxs, NEW e, TakesEffect(t, e)
    PROVE  /\ mode[t] = "trx" =>
                /\ pending'[t] = pending[t] \cup Written(e)
                /\ durable'[t] = durable[t]
                /\ metaRows' = metaRows
                /\ e.stmt = "insertMeta" => hold'[t] = "rows" /\ gone'[t] = gone[t]
                /\ e.stmt = "deleteMeta" => /\ gone'[t] = metaRows
                                            /\ hold'[t] = IF metaRows = {} THEN "gap" ELSE "rows"
                /\ e.stmt \notin {"deleteMeta", "insertMeta"} => hold'[t] = hold[t] /\ gone'[t] = gone[t]
           /\ mode[t] = "autocommit" =>
                /\ pending'[t] = pending[t] /\ hold'[t] = hold[t] /\ gone'[t] = gone[t]
                /\ e.stmt = "deleteMeta" => metaRows' = {}
                /\ e.stmt = "insertMeta" => metaRows' = metaRows \cup {t}
                /\ e.stmt \notin {"deleteMeta", "insertMeta"} => metaRows' = metaRows
           /\ \A u \in Trxs \ {t} : /\ pending'[u] = pending[u] /\ durable'[u] = durable[u]
                                    /\ hold'[u] = hold[u] /\ gone'[u] = gone[u]
<1>1. CASE mode[t] = "trx"
  <2>1. /\ pending' = [pending EXCEPT ![t] = @ \cup Written(e)]
        /\ gone' = IF e.stmt = "deleteMeta" THEN [gone EXCEPT ![t] = metaRows] ELSE gone
        /\ durable' = durable /\ metaRows' = metaRows
    BY <1>1 DEF TakesEffect, InTransaction
  <2>2. hold' = CASE e.stmt = "insertMeta" -> [hold EXCEPT ![t] = "rows"]
                  [] e.stmt = "deleteMeta" ->
                        [hold EXCEPT ![t] = IF metaRows = {} THEN "gap" ELSE "rows"]
                  [] OTHER -> hold
    BY <1>1 DEF TakesEffect, InTransaction
  <2>3. /\ e.stmt = "insertMeta" => hold' = [hold EXCEPT ![t] = "rows"]
        /\ e.stmt = "deleteMeta" => hold' = [hold EXCEPT ![t] = IF metaRows = {} THEN "gap" ELSE "rows"]
        /\ e.stmt \notin {"deleteMeta", "insertMeta"} => hold' = hold
    BY <2>2
  <2> QED
    BY <1>1, <2>1, <2>3 DEF TypeOK
<1>2. CASE mode[t] # "trx"
  <2>1. /\ durable' = [durable EXCEPT ![t] = @ \cup Written(e)]
        /\ metaRows' = CASE e.stmt = "deleteMeta" -> {}
                          [] e.stmt = "insertMeta" -> metaRows \cup {t}
                          [] OTHER                 -> metaRows
        /\ pending' = pending /\ gone' = gone /\ hold' = hold
    BY <1>2 DEF TakesEffect, InTransaction
  <2> QED
    BY <1>2, <2>1 DEF TypeOK
<1> QED
  BY <1>1, <1>2

(* What is left when the transaction is over.                              *)
LEMMA OverLeaves ==
    ASSUME TypeOK, NEW t \in Trxs, Over(t)
    PROVE  /\ pending'[t] = {} /\ gone'[t] = {} /\ hold'[t] = "none"
           /\ \A u \in Trxs \ {t} : /\ pending'[u] = pending[u]
                                    /\ hold'[u] = hold[u] /\ gone'[u] = gone[u]
BY DEF TypeOK, Over

(* The connection after a step of its transaction.                         *)
LEMMA IssuedOn ==
    ASSUME TypeOK, NEW t \in Trxs, NEW n, Issued(t, n)
    PROVE  queue'[t] = Tail(queue[t]) \o n /\ \A u \in Trxs \ {t} : queue'[u] = queue[u]
BY DEF TypeOK, Issued

(* What a statement of the transaction may do to its lock: the lock is     *)
(* taken by the two statements of logTagMutation only.                     *)
LEMMA LockTaken ==
    ASSUME TypeOK, NEW t \in Trxs, Well(t), NEW e, TakesEffect(t, e),
           mode'[t] = mode[t],
           mode[t] = "trx" /\ e.stmt = "deleteMeta" => hold[t] = "none"
    PROVE  /\ mode'[t] = "autocommit" => pending'[t] = {} /\ hold'[t] = "none"
           /\ Main("insertMeta") \in pending'[t] => hold'[t] = "rows"
           /\ hold'[t] = "none" => gone'[t] = {}
<1>1. mode[t] \in {"trx", "autocommit"}
  BY DEF TypeOK
<1>2. /\ mode[t] = "autocommit" => pending[t] = {} /\ hold[t] = "none"
      /\ Main("insertMeta") \in pending[t] => hold[t] = "rows"
      /\ hold[t] = "none" => gone[t] = {}
  BY DEF Well
<1>3. CASE mode[t] = "autocommit"
  BY <1>2, <1>3, Effect
<1>4. CASE mode[t] = "trx"
  <2>1. ASSUME Main("insertMeta") \in Written(e) PROVE e.stmt = "insertMeta"
    BY <2>1 DEF Written, Main
  <2>2. pending'[t] = pending[t] \cup Written(e)
    BY <1>4, Effect
  <2>3. CASE e.stmt = "insertMeta"
    BY <1>4, <2>3, Effect
  <2>4. CASE e.stmt = "deleteMeta"
    BY <1>2, <1>4, <2>1, <2>2, <2>4, Effect
  <2>5. CASE e.stmt \notin {"deleteMeta", "insertMeta"}
    BY <1>2, <1>4, <2>1, <2>2, <2>5, Effect
  <2> QED
    BY <2>3, <2>4, <2>5
<1> QED
  BY <1>1, <1>3, <1>4

(* Other transactions do not notice.                                       *)
LEMMA OthersStayWell ==
    ASSUME NEW u, Well(u),
           args'[u] = args[u], phase'[u] = phase[u], script'[u] = script[u],
           queue'[u] = queue[u], mode'[u] = mode[u], pending'[u] = pending[u],
           durable'[u] = durable[u], answer'[u] = answer[u], gone'[u] = gone[u],
           hold'[u] = hold[u], u \in late' => u \in late, u \in unheard' <=> u \in unheard
    PROVE  Well(u)'
<1>1. Heard(u)' <=> Heard(u)
  BY DEF Heard
<1>2. Accounted(u) => Accounted(u)'
  BY <1>1 DEF Accounted
<1>3. MetaInOrder(u) => MetaInOrder(u)'
  BY DEF MetaInOrder
<1>4. Settled(u) => Settled(u)'
  BY DEF Settled
<1>5. Promised(u) => Promised(u)'
  BY <1>1 DEF Promised
<1> QED
  BY <1>1, <1>2, <1>3, <1>4, <1>5 DEF Well

(* Only the main thread ends a transaction.                                *)
LEMMA CommittingEnd ==
    ASSUME NEW a \in Args, NEW s, NEW q, Committing(a, s, q), Head(q).stmt = "commit"
    PROVE  Head(q) = Main("commit")
<1>1. /\ q \in Seq(Entries) /\ q # <<>>
  BY DEF Committing
<1>2. Head(q) = q[1] /\ Len(q) \in Nat \ {0}
  BY <1>1, ElementsHeadTail
<1>3. CASE Len(q) = 1
  BY <1>2, <1>3 DEF Committing
<1>4. CASE Len(q) > 1
  <2>1. 1 \in 1..Len(q) - 1
    BY <1>2, <1>4
  <2>2. q[1] \in Issuable(a)
    BY <2>1 DEF Committing
  <2> QED
    BY <1>2, <2>2, IssuableIs DEF Ends
<1>5. Len(q) = 1 \/ Len(q) > 1
  <2> DEFINE n == Len(q)
  <2>1. n \in Nat \ {0}
    BY <1>2
  <2> HIDE DEF n
  <2>2. n = 1 \/ n > 1
    BY <2>1
  <2> QED
    BY <2>2 DEF n
<1> QED
  BY <1>3, <1>4, <1>5

LEMMA RollingBackEnd ==
    ASSUME NEW a \in Args, NEW s, NEW q, RollingBack(a, s, q), Head(q).stmt = "rollback"
    PROVE  Head(q) = Main("rollback")
<1>1. /\ q \in Seq(Entries) /\ q # <<>>
  BY DEF RollingBack
<1>2. Head(q) = q[1] /\ Len(q) \in Nat \ {0}
  BY <1>1, ElementsHeadTail
<1>3. CASE Len(q) = 1
  BY <1>2, <1>3 DEF RollingBack
<1>4. CASE Len(q) > 1
  <2>1. 1 \in 1..Len(q) - 1
    BY <1>2, <1>4
  <2>2. q[1] \in Issuable(a)
    BY <2>1 DEF RollingBack
  <2> QED
    BY <1>2, <2>2, IssuableIs DEF Ends
<1>5. Len(q) = 1 \/ Len(q) > 1
  <2> DEFINE n == Len(q)
  <2>1. n \in Nat \ {0}
    BY <1>2
  <2> HIDE DEF n
  <2>2. n = 1 \/ n > 1
    BY <2>1
  <2> QED
    BY <2>2 DEF n
<1> QED
  BY <1>3, <1>4, <1>5

(* The phase tells which end is on the connection.                         *)
LEMMA PhaseAtEnd ==
    ASSUME TypeOK, NEW t \in Trxs, Well(t), queue[t] # <<>>, Head(queue[t]).stmt \in Ends
    PROVE  /\ phase[t] = IF Head(queue[t]).stmt = "commit" THEN "committing" ELSE "rollingBack"
           /\ args[t] \in Args
<1> DEFINE q == queue[t]
<1>1. q \in Seq(Entries) /\ q # <<>>
  BY DEF TypeOK
<1>2. phase[t] \in {"running", "committing", "rollingBack"} /\ args[t] \in Args
  BY DEF Well, Settled
<1>3. Elements(q) = {Head(q)} \cup Elements(Tail(q)) /\ Head(q) = q[1] /\ Len(q) \in Nat \ {0}
  BY <1>1, ElementsHeadTail
<1>4. phase[t] # "running"
  BY <1>2, <1>3, IssuableIs DEF Well, Running
<1>5. (\A i \in 1..Len(q) - 1 : q[i].stmt \notin Ends) => q[1] = q[Len(q)]
  <2> DEFINE n == Len(q)
  <2>1. n \in Nat \ {0}
    BY <1>3
  <2>2. q[1].stmt \in Ends
    BY <1>3
  <2> HIDE DEF n
  <2>3. n = 1 \/ 1 \in 1..n - 1
    BY <2>1
  <2> QED
    BY <2>2, <2>3 DEF n
<1>6. CASE phase[t] = "committing"
  <2>1. q[Len(q)] = Main("commit") /\ \A i \in 1..Len(q) - 1 : q[i] \in Issuable(args[t])
    BY <1>6 DEF Well, Committing
  <2>2. \A i \in 1..Len(q) - 1 : q[i].stmt \notin Ends
    BY <1>2, <2>1, IssuableIs
  <2> QED
    BY <1>2, <1>3, <1>5, <1>6, <2>1, <2>2 DEF Main
<1>7. CASE phase[t] = "rollingBack"
  <2>1. q[Len(q)] = Main("rollback") /\ \A i \in 1..Len(q) - 1 : q[i] \in Issuable(args[t])
    BY <1>7 DEF Well, RollingBack
  <2>2. \A i \in 1..Len(q) - 1 : q[i].stmt \notin Ends
    BY <1>2, <2>1, IssuableIs
  <2> QED
    BY <1>2, <1>3, <1>5, <1>7, <2>1, <2>2 DEF Main
<1> QED
  BY <1>2, <1>4, <1>6, <1>7

-----------------------------------------------------------------------------
(* The moving transaction stays well                                       *)

LEMMA BeginWell ==
    ASSUME TypeOK, NEW t \in Trxs, Well(t), Begin(t)
    PROVE  Well(t)'
<1>1. /\ phase[t] = "idle" /\ phase'[t] = "running" /\ answer'[t] = answer[t]
      /\ mode'[t] = mode[t] /\ pending'[t] = pending[t] /\ durable'[t] = durable[t]
      /\ hold'[t] = hold[t] /\ gone'[t] = gone[t] /\ late' = late /\ unheard' = unheard
  BY DEF Begin, meta, TypeOK
<1>2. PICK a \in Args : /\ args'[t] = a
                        /\ queue'[t] = Together(Head(Program(a)))
                        /\ script'[t] = Tail(Program(a))
  BY DEF Begin, TypeOK
<1>3. /\ Settled(t) /\ Heard(t) /\ answer[t] = "none" /\ durable[t] = {} /\ t \notin late
  BY <1>1 DEF Well
<1>4. Running(a, Tail(Program(a)), Together(Head(Program(a))))
  BY ProgramBegins
<1>5. Accounted(t)'
  BY <1>1, <1>2, <1>3, StillAll DEF Accounted, Settled
<1>6. MetaInOrder(t)'
  <2>1. IsScript(Program(a)) /\ Len(Program(a)) >= 3 /\ Program(a)[1] # "commit"
    BY Programs
  <2>2. Len(Tail(Program(a))) = Len(Program(a)) - 1 /\ Len(Program(a)) \in Nat
    BY <2>1, ScriptTail
  <2>3. Len(script'[t]) > 1
    BY <1>2, <2>1, <2>2
  <2> QED
    BY <1>1, <1>3, <2>3 DEF MetaInOrder, Settled
<1>7. mode'[t] = "trx" /\ a # NoArgs
  BY <1>1, <1>3, NoArgsAssumption DEF Heard
<1> QED
  BY <1>1, <1>2, <1>3, <1>4, <1>5, <1>6, <1>7 DEF Well, Settled

(* The statement that is answered may be issued, and what it writes is to  *)
(* be written.                                                             *)
LEMMA AtStatement ==
    ASSUME TypeOK, NEW t \in Trxs, Well(t), AtMain(t) \/ AtBackground(t)
    PROVE  /\ queue[t] \in Seq(Entries) /\ queue[t] # <<>>
           /\ phase[t] \in {"running", "committing", "rollingBack"}
           /\ args[t] \in Args
           /\ Head(queue[t]) \in Issuable(args[t])
           /\ Head(queue[t]).stmt \notin Ends
           /\ Head(queue[t]) \in Elements(queue[t])
           /\ Written(Head(queue[t])) \subseteq AllWrites(args[t])
           /\ phase[t] = "committing" => Head(queue[t]).thread > 0
           /\ Heard(t)' <=> (t \notin unheard' /\ mode'[t] = "trx")
<1>1. queue[t] \in Seq(Entries) /\ queue[t] # <<>>
  BY DEF TypeOK, AtMain, AtBackground
<1>2. phase[t] \in {"running", "committing", "rollingBack"}
  BY <1>1 DEF Well, Settled
<1>3. args[t] \in Args
  BY <1>2 DEF Well
<1>4. /\ Elements(queue[t]) = {Head(queue[t])} \cup Elements(Tail(queue[t]))
      /\ Head(queue[t]) \in Entries
  BY <1>1, ElementsHeadTail
<1>5. Head(queue[t]).stmt \notin Ends \/ AtBackground(t)
  BY DEF AtMain
<1>6. /\ Head(queue[t]) \in Issuable(args[t])
      /\ phase[t] = "committing" => Head(queue[t]).thread > 0
  <2>1. AtBackground(t) => Head(queue[t]) # Main("commit") /\ Head(queue[t]) # Main("rollback")
    BY DEF AtBackground, Main
  <2>2. CASE phase[t] = "running"
    BY <1>4, <2>2 DEF Well, Running
  <2>3. CASE phase[t] = "committing" /\ Head(queue[t]).stmt # "commit"
    BY <1>3, <2>3, KeepsCommitting DEF Well
  <2>4. CASE phase[t] = "rollingBack" /\ Head(queue[t]).stmt # "rollback"
    BY <1>3, <2>4, KeepsRollingBack DEF Well
  <2>5. ASSUME phase[t] = "committing", Head(queue[t]).stmt = "commit" PROVE FALSE
    <3>1. Head(queue[t]).thread > 0
      BY <1>5, <2>5 DEF Ends, AtBackground
    <3> QED
      BY <1>1, <1>3, <2>5, <3>1, CommittingEnd DEF Well, Main
  <2>6. ASSUME phase[t] = "rollingBack", Head(queue[t]).stmt = "rollback" PROVE FALSE
    <3>1. Head(queue[t]).thread > 0
      BY <1>5, <2>6 DEF Ends, AtBackground
    <3> QED
      BY <1>1, <1>3, <2>6, <3>1, RollingBackEnd DEF Well, Main
  <2> QED
    BY <1>2, <2>2, <2>3, <2>4, <2>5, <2>6
<1> QED
  BY <1>1, <1>2, <1>3, <1>4, <1>6, IssuableIs, AllWritesAre DEF Heard

(* The statement of the main thread, its next ones, and what is to come.   *)
LEMMA MainMoves ==
    ASSUME TypeOK, NEW t \in Trxs, Well(t), AtMain(t), MainGoesOn(t)
    PROVE  \/ /\ \E e \in Elements(Tail(queue[t])) : e.thread = 0
              /\ queue'[t] = Tail(queue[t]) \o <<>>
              /\ script'[t] = script[t] /\ phase'[t] = phase[t]
           \/ /\ phase[t] = "running"
              /\ ~ \E e \in Elements(Tail(queue[t])) : e.thread = 0
              /\ script[t][1] \notin {"fork", "commit"}
              /\ queue'[t] = Tail(queue[t]) \o Together(Head(script[t]))
              /\ script'[t] = Tail(script[t]) /\ phase'[t] = "running"
           \/ /\ phase[t] = "running"
              /\ ~ \E e \in Elements(Tail(queue[t])) : e.thread = 0
              /\ script[t][1] = "commit"
              /\ queue'[t] = Tail(queue[t]) \o Together(Head(script[t]))
              /\ script'[t] = Tail(script[t]) /\ phase'[t] = "committing"
           \/ /\ phase[t] = "running"
              /\ ~ \E e \in Elements(Tail(queue[t])) : e.thread = 0
              /\ script[t][1] = "fork"
              /\ queue'[t] = Tail(queue[t])
                    \o ([i \in Batches(args[t]) |-> Background(i, "update")]
                        \o Together(Head(Tail(script[t]))))
              /\ script'[t] = Tail(Tail(script[t])) /\ phase'[t] = "running"
<1> DEFINE a == args[t]
           s == script[t]
           q == queue[t]
           first == [i \in Batches(a) |-> Background(i, "update")]
<1>1. /\ q \in Seq(Entries) /\ q # <<>>
      /\ phase[t] \in {"running", "committing", "rollingBack"} /\ a \in Args
      /\ Head(q).stmt \notin Ends /\ Head(q).thread = 0
      /\ phase[t] = "committing" => Head(q).thread > 0
  BY AtStatement DEF AtMain
<1>2. phase[t] # "committing"
  BY <1>1
<1>3. CASE \E e \in Elements(Tail(q)) : e.thread = 0
  <2>1. Issued(t, <<>>) /\ UNCHANGED <<script, phase>>
    BY <1>3 DEF MainGoesOn
  <2>2. queue'[t] = Tail(q) \o <<>>
    BY <2>1, IssuedOn
  <2> QED
    BY <1>3, <2>1, <2>2
<1>4. CASE ~ \E e \in Elements(Tail(q)) : e.thread = 0
  <2>1. phase[t] = "running" /\ Running(a, s, q)
    BY <1>1, <1>2, <1>4, KeepsRollingBack DEF Well, Ends
  <2>2. /\ s[1] # "commit" => Head(s) = s[1]
        /\ s[1] = "commit" => Head(s) = "commit"
    BY <1>1, <1>4, <2>1, MainCommits, ScriptTail DEF Running
  <2>3. CASE s[1] # "fork"
    <3>1. Head(s) # "fork"
      BY <2>2, <2>3
    <3>2. /\ Issued(t, <<>> \o Together(Head(s)))
          /\ script' = [script EXCEPT ![t] = Tail(s)]
          /\ phase' = IF Head(s) = "commit" THEN [phase EXCEPT ![t] = "committing"] ELSE phase
      BY <1>4, <3>1 DEF MainGoesOn
    <3>3. <<>> \o Together(Head(s)) = Together(Head(s))
      <4>1. Head(s) \in ScriptStmts \ {"fork"}
        <5>1. CASE s[1] = "commit"
          BY <2>2, <5>1 DEF ScriptStmts
        <5>2. CASE s[1] # "commit"
          BY <2>1, <2>2, <2>3, <5>2, ScriptTail DEF Running
        <5> QED
          BY <5>1, <5>2
      <4>2. Together(Head(s)) \in Seq(Entries)
        BY <4>1, Sent
      <4> QED
        BY <4>2
    <3>4. /\ queue'[t] = Tail(q) \o Together(Head(s))
          /\ script'[t] = Tail(s)
          /\ phase'[t] = IF Head(s) = "commit" THEN "committing" ELSE "running"
      <4>1. Issued(t, Together(Head(s)))
        BY <3>2, <3>3
      <4>2. queue'[t] = Tail(q) \o Together(Head(s))
        BY <4>1, IssuedOn
      <4> QED
        BY <2>1, <3>2, <4>2 DEF TypeOK
    <3> QED
      BY <1>4, <2>1, <2>2, <2>3, <3>4
  <2>4. CASE s[1] = "fork"
    <3>1. Head(s) = "fork"
      BY <2>2, <2>4
    <3>2. /\ Issued(t, first \o Together(Head(Tail(s))))
          /\ script' = [script EXCEPT ![t] = Tail(Tail(s))]
          /\ phase' = IF Head(Tail(s)) = "commit" THEN [phase EXCEPT ![t] = "committing"] ELSE phase
      BY <1>4, <3>1 DEF MainGoesOn
    <3>3. Head(Tail(s)) # "commit"
      <4>1. /\ first \in Seq(Entries) /\ Len(first) = a.batches
            /\ \A i \in 1..a.batches : first[i] = Background(i, "update")
        BY <1>1, FirstStatements
      <4> HIDE DEF first
      <4> QED
        BY <1>1, <1>4, <2>1, <2>4, <4>1, MainForks
    <3>4. queue'[t] = Tail(q) \o (first \o Together(Head(Tail(s))))
      BY <3>2, IssuedOn
    <3>5. script'[t] = Tail(Tail(s)) /\ phase'[t] = "running"
      BY <2>1, <3>2, <3>3 DEF TypeOK
    <3> QED
      BY <1>4, <2>1, <2>4, <3>4, <3>5
  <2> QED
    BY <2>3, <2>4
<1> QED
  BY <1>3, <1>4

(* A write that is answered in the transaction is accounted for by what    *)
(* the connection and the script are afterwards.                           *)
LEMMA StaysAccounted ==
    ASSUME NEW t, NEW e, Accounted(t), args'[t] = args[t],
           Written(e) \subseteq AllWrites(args[t]),
           pending'[t] = pending[t] \/ pending'[t] = pending[t] \cup Written(e),
           Heard(t)' => /\ Heard(t) /\ pending'[t] = pending[t] \cup Written(e)
                        /\ \A w \in AllWrites(args[t]) : StillToCome(w, script[t], queue[t]) /\ w \notin Written(e)
                                => StillToCome(w, script'[t], queue'[t])
    PROVE  Accounted(t)'
BY DEF Accounted

LEMMA ExecuteMainWell ==
    ASSUME TypeOK, NEW t \in Trxs, Well(t), ExecuteMain(t)
    PROVE  Well(t)'
<1> DEFINE a == args[t]
           s == script[t]
           q == queue[t]
           e == Head(q)
           L == Len(s)
<1>1. /\ q \in Seq(Entries) /\ q # <<>>
      /\ phase[t] \in {"running", "rollingBack"} /\ a \in Args
      /\ e \in Issuable(a) /\ e.stmt \notin Ends /\ e.thread = 0
      /\ Written(e) \subseteq AllWrites(a)
      /\ Heard(t)' <=> Heard(t)
  <2>1. AtMain(t) /\ e.thread = 0 /\ unheard' = unheard /\ mode' = mode
    BY DEF ExecuteMain, AtMain
  <2> QED
    BY <2>1, AtStatement DEF Heard
<1>2. /\ args' = args /\ mode' = mode /\ answer' = answer /\ late' = late /\ unheard' = unheard
      /\ AtMain(t) /\ MainGoesOn(t) /\ TakesEffect(t, e)
      /\ mode[t] \in {"trx", "autocommit"}
  BY DEF ExecuteMain, TypeOK
<1>3. phase[t] = "running" => /\ Running(a, s, q) /\ IsScript(s) /\ L \in Nat \ {0}
                              /\ e.stmt = "deleteMeta" <=> L = 2
                              /\ e.stmt = "insertMeta" <=> L = 1
                              /\ (\E x \in Elements(Tail(q)) : x.thread = 0) => e.stmt \in Deletes
  BY <1>1, MainAtHead DEF Well
<1> HIDE DEF L
<1>4. phase[t] = "rollingBack" => e.stmt \in Deletes /\ RollingBack(a, s, q)
  BY <1>1, KeepsRollingBack DEF Well, Ends
<1>5. mode[t] = "trx" /\ e.stmt = "deleteMeta" => hold[t] = "none"
  <2>1. CASE phase[t] = "rollingBack"
    BY <1>4, <2>1 DEF Deletes
  <2>2. CASE phase[t] = "running"
    <3>1. e.stmt = "deleteMeta" => L > 1
      BY <1>3, <2>2
    <3> QED
      BY <2>2, <3>1 DEF L, Well, MetaInOrder
  <2> QED
    BY <1>1, <2>1, <2>2
<1>6. /\ mode'[t] = "autocommit" => pending'[t] = {} /\ hold'[t] = "none"
      /\ Main("insertMeta") \in pending'[t] => hold'[t] = "rows"
      /\ hold'[t] = "none" => gone'[t] = {}
  BY <1>2, <1>5, LockTaken
<1>7. mode[t] = "trx" => durable[t] = {} /\ durable'[t] = {}
  BY <1>1, <1>2, Effect DEF Well
<1>8. /\ args[t] # NoArgs /\ answer'[t] = "none" /\ t \notin late'
      /\ args'[t] = a
  BY <1>1, <1>2, NoArgsAssumption DEF Well
<1>9. /\ pending'[t] = pending[t] \/ pending'[t] = pending[t] \cup Written(e)
      /\ mode[t] = "trx" => pending'[t] = pending[t] \cup Written(e)
      /\ Heard(t) => mode[t] = "trx"
  BY <1>2, Effect DEF Heard
<1>10. mode[t] = "trx" => /\ e.stmt = "insertMeta" => hold'[t] = "rows" /\ Main("insertMeta") \in pending'[t]
                          /\ e.stmt = "deleteMeta" => hold'[t] # "none"
                          /\ e.stmt \notin {"deleteMeta", "insertMeta"} => hold'[t] = hold[t]
  <2>1. ASSUME e.stmt = "insertMeta" PROVE Main("insertMeta") \in Written(e)
    <3>1. e = Main("insertMeta")
      BY <1>1, <2>1, IssuableIs DEF Main, Entries
    <3> QED
      BY <2>1, <3>1 DEF Written
  <2> QED
    BY <2>1, <1>9, Effect, <1>2
<1>11. CASE /\ \E x \in Elements(Tail(q)) : x.thread = 0
            /\ queue'[t] = Tail(q) \o <<>> /\ script'[t] = s /\ phase'[t] = phase[t]
  <2> DEFINE n == <<>>
  <2>1. /\ n \in Seq(Entries) /\ queue'[t] = Tail(q) \o n
        /\ \A i \in 1..Len(n) : FALSE
    BY <1>11
  <2>4. ~ (e.thread > 0)
    BY <1>1
  <2> HIDE DEF n
  <2>2. CASE phase[t] = "running"
    <3>1. Running(a, s, queue'[t])
      <4>1. Running(a, s, Tail(q) \o n)
        BY <1>1, <1>3, <1>11, <2>1, <2>2, KeepsRunning
      <4> QED
        BY <2>1, <4>1
    <3>2. ASSUME NEW w \in AllWrites(a), StillToCome(w, s, q), w \notin Written(e)
          PROVE  StillToCome(w, s, queue'[t])
      <4>1. StillToCome(w, s, Tail(q) \o n)
        BY <1>1, <2>1, <2>4, <3>2, StillWaiting
      <4> QED
        BY <2>1, <4>1
    <3>3. Accounted(t)'
      BY <1>1, <1>8, <1>9, <1>11, <2>2, <3>2, StaysAccounted DEF Well
    <3>4. e.stmt \in Deletes
      BY <1>3, <1>11, <2>2
    <3>5. mode[t] = "trx" => MetaInOrder(t)'
      BY <1>3, <1>10, <1>11, <2>2, <3>4 DEF Well, MetaInOrder, Deletes
    <3> QED
      BY <1>2, <1>6, <1>7, <1>8, <1>11, <2>2, <3>1, <3>3, <3>5 DEF Well
  <2>3. CASE phase[t] = "rollingBack"
    <3>1. RollingBack(a, s, queue'[t])
      BY <1>1, <1>4, <1>11, <2>3, KeepsRollingBack DEF Ends
    <3>2. MetaInOrder(t)'
      BY <1>11, <2>3 DEF MetaInOrder
    <3> QED
      BY <1>2, <1>6, <1>7, <1>8, <1>11, <2>3, <3>1, <3>2, <1>1 DEF Well
  <2> QED
    BY <1>1, <2>2, <2>3
<1>12. CASE /\ phase[t] = "running"
            /\ ~ \E x \in Elements(Tail(q)) : x.thread = 0
            /\ s[1] \notin {"fork", "commit"}
            /\ queue'[t] = Tail(q) \o Together(Head(s))
            /\ script'[t] = Tail(s) /\ phase'[t] = "running"
  <2>1. Running(a, Tail(s), queue'[t])
    BY <1>1, <1>3, <1>12, MainSends
  <2>2. s \in Seq(ScriptStmts) /\ s # <<>>
    BY <1>3, <1>12 DEF IsScript
  <2>3. ASSUME NEW w \in AllWrites(a), StillToCome(w, s, q), w \notin Written(e)
        PROVE  StillToCome(w, Tail(s), queue'[t])
    BY <1>1, <1>12, <2>2, <2>3, StillSending
  <2>4. Accounted(t)'
    BY <1>1, <1>8, <1>9, <1>12, <2>3, StaysAccounted DEF Well
  <2> DEFINE M == Len(script'[t])
  <2>5. M = L - 1 /\ L \in Nat /\ L >= 2 /\ (L = 2 \/ L > 2)
    <3>1. M = L - 1 /\ L \in Nat /\ L >= 2
      BY <1>3, <1>12, ScriptTail DEF L
    <3> HIDE DEF M
    <3> QED
      BY <3>1
  <2> HIDE DEF M
  <2>6. mode[t] = "trx" => MetaInOrder(t)'
    <3>1. CASE L = 2
      <4>1. e.stmt = "deleteMeta" /\ ~(M > 1)
        BY <1>3, <1>12, <2>5, <3>1
      <4> QED
        BY <1>10, <1>12, <4>1 DEF M, MetaInOrder
    <3>2. CASE L > 2
      <4>1. e.stmt \notin {"deleteMeta", "insertMeta"} /\ M > 1
        BY <1>3, <1>12, <2>5, <3>2
      <4>2. mode[t] = "trx" => hold[t] = "none"
        BY <1>12, <2>5, <3>2 DEF L, Well, MetaInOrder
      <4> QED
        BY <1>10, <1>12, <4>1, <4>2 DEF M, MetaInOrder
    <3> QED
      BY <2>5, <3>1, <3>2
  <2> QED
    BY <1>2, <1>6, <1>7, <1>8, <1>12, <2>1, <2>4, <2>6 DEF Well
<1>13. CASE /\ phase[t] = "running"
            /\ ~ \E x \in Elements(Tail(q)) : x.thread = 0
            /\ s[1] = "commit"
            /\ queue'[t] = Tail(q) \o Together(Head(s))
            /\ script'[t] = Tail(s) /\ phase'[t] = "committing"
  <2>1. Committing(a, Tail(s), queue'[t]) /\ Tail(s) = <<>>
    BY <1>1, <1>3, <1>13, MainCommits
  <2>2. s \in Seq(ScriptStmts) /\ s # <<>>
    BY <1>3, <1>13 DEF IsScript
  <2>3. ASSUME NEW w \in AllWrites(a), StillToCome(w, s, q), w \notin Written(e)
        PROVE  StillToCome(w, Tail(s), queue'[t])
    BY <1>1, <1>13, <2>2, <2>3, StillSending
  <2>4. Accounted(t)'
    BY <1>1, <1>8, <1>9, <1>13, <2>3, StaysAccounted DEF Well
  <2>5. L = 1
    <3>1. 1 \in 1..L
      BY <1>3, <1>13
    <3> QED
      BY <1>3, <1>13, <3>1, ScriptAt DEF L
  <2>6. mode[t] = "trx" => MetaInOrder(t)'
    <3>1. mode[t] = "trx" => hold'[t] = "rows" /\ Main("insertMeta") \in pending'[t]
      BY <1>3, <1>10, <1>13, <2>5
    <3> QED
      BY <1>13, <3>1 DEF MetaInOrder
  <2> QED
    BY <1>2, <1>6, <1>7, <1>8, <1>13, <2>1, <2>4, <2>6 DEF Well
<1>14. CASE /\ phase[t] = "running"
            /\ ~ \E x \in Elements(Tail(q)) : x.thread = 0
            /\ s[1] = "fork"
            /\ queue'[t] = Tail(q) \o ([i \in Batches(a) |-> Background(i, "update")]
                                       \o Together(Head(Tail(s))))
            /\ script'[t] = Tail(Tail(s)) /\ phase'[t] = "running"
  <2> DEFINE first == [i \in Batches(a) |-> Background(i, "update")]
  <2>1. /\ Tail(q) = <<>>
        /\ first \in Seq(Entries) /\ Len(first) = a.batches
        /\ \A i \in 1..a.batches : first[i] = Background(i, "update")
        /\ queue'[t] = first \o Together(Head(Tail(s)))
        /\ Running(a, Tail(Tail(s)), queue'[t])
    <3>1. /\ first \in Seq(Entries) /\ Len(first) = a.batches
          /\ \A i \in 1..a.batches : first[i] = Background(i, "update")
      BY <1>1, FirstStatements
    <3>2. queue'[t] = Tail(q) \o (first \o Together(Head(Tail(s))))
      BY <1>14
    <3>3. Running(a, s, q) /\ s[1] = "fork"
      BY <1>3, <1>14
    <3>4. ~ \E x \in Elements(Tail(q)) : x.thread = 0
      BY <1>14
    <3> HIDE DEF first
    <3>5. /\ Tail(q) = <<>>
          /\ Tail(q) \o (first \o Together(Head(Tail(s)))) = first \o Together(Head(Tail(s)))
          /\ Running(a, Tail(Tail(s)), Tail(q) \o (first \o Together(Head(Tail(s)))))
      BY <1>1, <3>1, <3>3, <3>4, MainForks
    <3> QED
      BY <3>1, <3>2, <3>5
  <2> HIDE DEF first
  <2>2. s \in Seq(ScriptStmts) /\ L > 3 /\ s[2] # "fork" /\ s[1] # "commit"
    <3>1. 1 \in 1..L
      BY <1>3, <1>14
    <3>2. 1 + 3 <= L /\ \A j \in 1 + 1..L : s[j] # "fork"
      BY <1>3, <1>14, <3>1, ScriptAt DEF L
    <3>3. 2 \in 1 + 1..L
      BY <1>3, <1>14, <3>2
    <3> QED
      BY <1>3, <1>14, <3>2, <3>3 DEF IsScript
  <2>3. ASSUME NEW w \in AllWrites(a), StillToCome(w, s, q), w \notin Written(e)
        PROVE  StillToCome(w, Tail(Tail(s)), queue'[t])
    <3>1. L > 1
      BY <2>2, <1>3, <1>14
    <3> QED
      BY <1>1, <1>14, <2>1, <2>2, <2>3, <3>1, StillForking DEF L
  <2>4. Accounted(t)'
    BY <1>1, <1>8, <1>9, <1>14, <2>3, StaysAccounted DEF Well
  <2>5. Len(script'[t]) > 1
    <3>1. IsScript(Tail(s)) /\ Len(Tail(s)) = L - 1 /\ Tail(s)[1] = s[2] /\ L \in Nat
      BY <1>3, <1>14, <2>2, ScriptTail DEF L
    <3>2. Tail(s) \in Seq(ScriptStmts) /\ Tail(s) # <<>>
      BY <3>1 DEF IsScript
    <3> DEFINE M == Len(Tail(Tail(s)))
    <3>3. M = Len(Tail(s)) - 1
      BY <3>2, ElementsHeadTail
    <3>4. M = (L - 1) - 1
      BY <3>1, <3>3
    <3> HIDE DEF M
    <3>5. M > 1
      BY <2>2, <3>1, <3>4
    <3> QED
      BY <1>14, <3>5 DEF M
  <2>6. mode[t] = "trx" => MetaInOrder(t)'
    <3>1. phase[t] = "running" /\ phase'[t] = "running"
      BY <1>14
    <3>2. L \in Nat /\ L # 2 /\ L # 1 /\ L > 1
      BY <1>3, <2>2, <3>1
    <3>3. e.stmt \notin {"deleteMeta", "insertMeta"}
      BY <1>3, <3>1, <3>2
    <3>4. mode[t] = "trx" => hold[t] = "none"
      BY <3>1, <3>2 DEF L, Well, MetaInOrder
    <3> QED
      BY <1>10, <2>5, <3>1, <3>3, <3>4 DEF MetaInOrder
  <2> QED
    BY <1>2, <1>6, <1>7, <1>8, <1>14, <2>1, <2>4, <2>6 DEF Well
<1> QED
  BY <1>2, <1>11, <1>12, <1>13, <1>14, MainMoves

(* The background thread goes on as far as the phase lets it.              *)
LEMMA BackgroundMoves ==
    ASSUME TypeOK, NEW t \in Trxs, Well(t), AtBackground(t),
           BackgroundGoesOn(t, Head(queue[t]))
    PROVE  /\ phase[t] = "running" =>
                /\ \E e \in Elements(Tail(queue[t])) : e.thread = 0
                /\ \E n \in Seq(Entries) :
                    /\ queue'[t] = Tail(queue[t]) \o n
                    /\ \A i \in 1..Len(n) :
                        /\ n[i] \in Issuable(args[t]) /\ n[i].thread > 0
                        /\ FollowUps(args[t].mirror, n[i]) <= FollowUps(args[t].mirror, Head(queue[t])) - 1
                    /\ args[t].mirror /\ Head(queue[t]).stmt = "update"
                        => Background(Head(queue[t]).thread, "select") \in Elements(n)
                    /\ args[t].mirror /\ Head(queue[t]).stmt = "select"
                        => Background(Head(queue[t]).thread, "sync") \in Elements(n)
           /\ phase[t] # "running" => queue'[t] = Tail(queue[t]) \o <<>>
           /\ t \notin late'
           /\ \A u \in Trxs \ {t} : u \in late' => u \in late
           /\ \A u \in Trxs \ {t} : queue'[u] = queue[u]
<1> DEFINE a == args[t]
           q == queue[t]
           e == Head(q)
           next == CASE a.mirror /\ e.stmt = "update" -> <<Background(e.thread, "select")>>
                     [] a.mirror /\ e.stmt = "select" -> <<Background(e.thread, "sync")>>
                     [] OTHER                         -> <<>>
<1>1. /\ q \in Seq(Entries) /\ q # <<>> /\ a \in Args /\ e \in Issuable(a) /\ e.stmt \notin Ends
      /\ e.thread > 0 /\ t \notin late
      /\ phase[t] \in {"running", "committing", "rollingBack"}
  BY AtStatement DEF AtBackground, Well
<1>2. /\ Issued(t, IF phase[t] = "running" THEN next ELSE <<>>)
      /\ late' = IF phase[t] = "committing" /\ next # <<>> THEN late \cup {t} ELSE late
  BY DEF BackgroundGoesOn
<1>3. e.stmt = "update" \/ (e.stmt \in {"select", "sync"} /\ a.mirror)
  BY <1>1, BackgroundIs
<1>4. a.mirror \in BOOLEAN
  BY <1>1 DEF Args
<1>5. /\ ~ a.mirror => next = <<>>
      /\ a.mirror /\ e.stmt = "update" => next = <<Background(e.thread, "select")>>
      /\ a.mirror /\ e.stmt = "select" => next = <<Background(e.thread, "sync")>>
      /\ a.mirror /\ e.stmt = "sync" => next = <<>>
  <2> DEFINE select == <<Background(e.thread, "select")>>
             sync == <<Background(e.thread, "sync")>>
             r == e.stmt
             m == a.mirror
  <2>1. next = CASE m /\ r = "update" -> select [] m /\ r = "select" -> sync [] OTHER -> <<>>
    OBVIOUS
  <2>2. m \in BOOLEAN
    BY <1>4
  <2> HIDE DEF select, sync, next, r, m
  <2>3. /\ ~ m => next = <<>>
        /\ m /\ r = "update" => next = select
        /\ m /\ r = "select" => next = sync
        /\ m /\ r = "sync" => next = <<>>
    BY <2>1, <2>2
  <2> QED
    BY <2>3 DEF select, sync, r, m
<1> HIDE DEF next
<1>6. phase[t] = "committing" => next = <<>>
  <2>1. phase[t] = "committing" => FollowUps(a.mirror, e) = 0
    BY <1>1, KeepsCommitting DEF Well, Ends
  <2>2. FollowUps(a.mirror, e) = 0 => ~ a.mirror \/ e.stmt \notin {"update", "select"}
    BY <1>1 DEF FollowUps
  <2> QED
    BY <1>3, <1>4, <1>5, <2>1, <2>2
<1>7. late' = late
  BY <1>2, <1>6
<1>8. phase[t] # "running" => queue'[t] = Tail(q) \o <<>>
  BY <1>2, IssuedOn
<1>9. \A u \in Trxs \ {t} : queue'[u] = queue[u]
  BY <1>2, IssuedOn
<1>10. ASSUME phase[t] = "running"
       PROVE  \E x \in Elements(Tail(q)) : x.thread = 0
  <2>1. PICK i \in 1..Len(q) : q[i].thread = 0
    BY <1>10 DEF Well, Running
  <2>2. /\ Head(q) = q[1] /\ Len(q) \in Nat \ {0}
        /\ \A x : x \in Elements(Tail(q)) <=> \E j \in 2..Len(q) : x = q[j]
    BY <1>1, QueueParts
  <2>3. i # 1
    BY <1>1, <2>1, <2>2
  <2>4. i \in 2..Len(q)
    BY <2>2, <2>3
  <2> QED
    BY <2>1, <2>2, <2>4
<1>11. ASSUME phase[t] = "running"
       PROVE  \E n \in Seq(Entries) :
                    /\ queue'[t] = Tail(q) \o n
                    /\ \A i \in 1..Len(n) :
                        /\ n[i] \in Issuable(a) /\ n[i].thread > 0
                        /\ FollowUps(a.mirror, n[i]) <= FollowUps(a.mirror, e) - 1
                    /\ a.mirror /\ e.stmt = "update" => Background(e.thread, "select") \in Elements(n)
                    /\ a.mirror /\ e.stmt = "select" => Background(e.thread, "sync") \in Elements(n)
  <2>1. queue'[t] = Tail(q) \o next
    BY <1>2, <1>11, IssuedOn
  <2>2. ASSUME NEW x \in {"select", "sync"}, a.mirror, next = <<Background(e.thread, x)>>,
               FollowUps(a.mirror, Background(e.thread, x)) <= FollowUps(a.mirror, e) - 1
        PROVE  /\ next \in Seq(Entries)
               /\ Elements(next) = {Background(e.thread, x)}
               /\ \A i \in 1..Len(next) :
                    /\ next[i] \in Issuable(a) /\ next[i].thread > 0
                    /\ FollowUps(a.mirror, next[i]) <= FollowUps(a.mirror, e) - 1
    <3> DEFINE b == Background(e.thread, x)
    <3>1. b \in Issuable(a) /\ b \in Entries
      BY <1>1, <2>2, BackgroundIs, IssuableIs
    <3>2. b.thread > 0
      BY <1>1 DEF Background
    <3> HIDE DEF b
    <3>3. next = <<b>> /\ FollowUps(a.mirror, b) <= FollowUps(a.mirror, e) - 1
      BY <2>2 DEF b
    <3>4. next \in Seq(Entries) /\ Len(next) = 1 /\ next[1] = b
      BY <3>1, <3>3
    <3>5. Elements(next) = {b}
      BY <3>3 DEF Elements
    <3> QED
      BY <3>1, <3>2, <3>3, <3>4, <3>5 DEF b
  <2>3. CASE a.mirror /\ e.stmt = "update"
    <3>1. FollowUps(a.mirror, Background(e.thread, "select")) <= FollowUps(a.mirror, e) - 1
      BY <1>1, <2>3 DEF FollowUps, Background
    <3>2. next = <<Background(e.thread, "select")>>
      BY <1>5, <2>3
    <3>3. /\ next \in Seq(Entries)
          /\ Elements(next) = {Background(e.thread, "select")}
          /\ \A i \in 1..Len(next) :
               /\ next[i] \in Issuable(a) /\ next[i].thread > 0
               /\ FollowUps(a.mirror, next[i]) <= FollowUps(a.mirror, e) - 1
      BY <2>2, <2>3, <3>1, <3>2
    <3> QED
      BY <2>1, <2>3, <3>3
  <2>4. CASE a.mirror /\ e.stmt = "select"
    <3>1. FollowUps(a.mirror, Background(e.thread, "sync")) <= FollowUps(a.mirror, e) - 1
      BY <1>1, <2>4 DEF FollowUps, Background
    <3>2. next = <<Background(e.thread, "sync")>>
      BY <1>5, <2>4
    <3>3. /\ next \in Seq(Entries)
          /\ Elements(next) = {Background(e.thread, "sync")}
          /\ \A i \in 1..Len(next) :
               /\ next[i] \in Issuable(a) /\ next[i].thread > 0
               /\ FollowUps(a.mirror, next[i]) <= FollowUps(a.mirror, e) - 1
      BY <2>2, <2>4, <3>1, <3>2
    <3> QED
      BY <2>1, <2>4, <3>3
  <2>5. CASE ~ (a.mirror /\ e.stmt \in {"update", "select"})
    <3>1. next = <<>>
      BY <1>3, <1>4, <1>5, <2>5
    <3>2. next \in Seq(Entries) /\ \A i \in 1..Len(next) : FALSE
      BY <3>1
    <3> QED
      BY <2>1, <2>5, <3>2
  <2> QED
    BY <2>3, <2>4, <2>5
<1> QED
  BY <1>1, <1>7, <1>8, <1>9, <1>10, <1>11

LEMMA ExecuteBackgroundWell ==
    ASSUME TypeOK, NEW t \in Trxs, Well(t), ExecuteBackground(t)
    PROVE  Well(t)'
<1> DEFINE a == args[t]
           s == script[t]
           q == queue[t]
           e == Head(q)
<1>1. /\ q \in Seq(Entries) /\ q # <<>>
      /\ phase[t] \in {"running", "committing", "rollingBack"} /\ a \in Args
      /\ e \in Issuable(a) /\ e.stmt \notin Ends /\ e.thread > 0
      /\ Written(e) \subseteq AllWrites(a)
      /\ Heard(t)' <=> Heard(t)
  <2>1. AtBackground(t) /\ e.thread > 0 /\ unheard' = unheard /\ mode' = mode
    BY DEF ExecuteBackground, AtBackground
  <2> QED
    BY <2>1, AtStatement DEF Heard
<1>2. /\ args' = args /\ mode' = mode /\ answer' = answer /\ unheard' = unheard
      /\ phase' = phase /\ script' = script
      /\ AtBackground(t) /\ BackgroundGoesOn(t, e) /\ TakesEffect(t, e)
      /\ mode[t] \in {"trx", "autocommit"}
  BY DEF ExecuteBackground, TypeOK
<1>3. e.stmt \in {"update", "select", "sync"}
  BY <1>1, BackgroundIs
<1>4. /\ mode'[t] = "autocommit" => pending'[t] = {} /\ hold'[t] = "none"
      /\ Main("insertMeta") \in pending'[t] => hold'[t] = "rows"
      /\ hold'[t] = "none" => gone'[t] = {}
  BY <1>2, <1>3, LockTaken
<1>5. mode[t] = "trx" => durable[t] = {} /\ durable'[t] = {}
  BY <1>1, <1>2, Effect DEF Well
<1>6. /\ args[t] # NoArgs /\ answer'[t] = "none" /\ args'[t] = a
  BY <1>1, <1>2, NoArgsAssumption DEF Well
<1>7. t \notin late'
  BY <1>2, BackgroundMoves
<1>8. /\ pending'[t] = pending[t] \/ pending'[t] = pending[t] \cup Written(e)
      /\ mode[t] = "trx" => pending'[t] = pending[t] \cup Written(e) /\ hold'[t] = hold[t]
      /\ Heard(t) => mode[t] = "trx"
  BY <1>2, <1>3, Effect DEF Heard
<1>9. mode[t] = "trx" => MetaInOrder(t)'
  BY <1>1, <1>2, <1>8 DEF Well, MetaInOrder
<1>10. CASE phase[t] = "running"
  <2>1. PICK n \in Seq(Entries) :
             /\ queue'[t] = Tail(q) \o n
             /\ \A i \in 1..Len(n) :
                 /\ n[i] \in Issuable(a) /\ n[i].thread > 0
                 /\ FollowUps(a.mirror, n[i]) <= FollowUps(a.mirror, e) - 1
             /\ a.mirror /\ e.stmt = "update" => Background(e.thread, "select") \in Elements(n)
             /\ a.mirror /\ e.stmt = "select" => Background(e.thread, "sync") \in Elements(n)
    BY <1>2, <1>10, BackgroundMoves
  <2>2. Running(a, s, queue'[t])
    <3>1. Running(a, s, q) /\ \E x \in Elements(Tail(q)) : x.thread = 0
      BY <1>2, <1>10, BackgroundMoves DEF Well
    <3>2. Running(a, s, Tail(q) \o n)
      BY <1>1, <2>1, <3>1, KeepsRunning
    <3> QED
      BY <2>1, <3>2
  <2>3. ASSUME NEW w \in AllWrites(a), StillToCome(w, s, q), w \notin Written(e)
        PROVE  StillToCome(w, s, queue'[t])
    <3>1. StillToCome(w, s, Tail(q) \o n)
      BY <1>1, <2>1, <2>3, StillWaiting
    <3> QED
      BY <2>1, <3>1
  <2>4. Accounted(t)'
    BY <1>1, <1>2, <1>6, <1>8, <1>10, <2>3, StaysAccounted DEF Well
  <2> QED
    BY <1>2, <1>4, <1>5, <1>6, <1>7, <1>9, <1>10, <2>2, <2>4 DEF Well
<1>11. CASE phase[t] # "running"
  <2> DEFINE n == <<>>
  <2>1. queue'[t] = Tail(q) \o n
    BY <1>2, <1>11, BackgroundMoves
  <2>2. CASE phase[t] = "committing"
    <3>1. Committing(a, s, queue'[t]) /\ FollowUps(a.mirror, e) = 0
      <4>1. Committing(a, s, q) /\ e.stmt # "commit"
        BY <1>1, <2>2 DEF Well, Ends
      <4>2. Committing(a, s, Tail(q) \o <<>>) /\ FollowUps(a.mirror, e) = 0
        BY <1>1, <4>1, KeepsCommitting
      <4> QED
        BY <2>1, <4>2
    <3>2. n \in Seq(Entries)
      OBVIOUS
    <3> HIDE DEF n
    <3>3. ~ (a.mirror /\ e.stmt \in {"update", "select"})
      BY <1>1, <3>1 DEF FollowUps
    <3>4. ASSUME NEW w \in AllWrites(a), StillToCome(w, s, q), w \notin Written(e)
          PROVE  StillToCome(w, s, queue'[t])
      <4>1. StillToCome(w, s, Tail(q) \o n)
        BY <1>1, <3>2, <3>3, <3>4, StillWaiting
      <4> QED
        BY <2>1, <4>1
    <3>5. Accounted(t)'
      BY <1>1, <1>2, <1>6, <1>8, <2>2, <3>4, StaysAccounted DEF Well
    <3> QED
      BY <1>2, <1>4, <1>5, <1>6, <1>7, <1>9, <2>2, <3>1, <3>5 DEF Well
  <2>3. CASE phase[t] = "rollingBack"
    <3>1. RollingBack(a, s, queue'[t])
      BY <1>1, <2>1, <2>3, KeepsRollingBack DEF Well, Ends
    <3> QED
      BY <1>2, <1>4, <1>5, <1>6, <1>7, <1>9, <2>3, <3>1 DEF Well
  <2> QED
    BY <1>1, <1>11, <2>2, <2>3
<1> QED
  BY <1>10, <1>11

(* When the COMMIT comes, all is written if nobody has heard of a failure. *)
LEMMA CommitWell ==
    ASSUME TypeOK, NEW t \in Trxs, Well(t), Commit(t)
    PROVE  Well(t)'
<1> DEFINE a == args[t]
           s == script[t]
           q == queue[t]
<1>1. /\ args' = args /\ script' = script /\ mode' = mode /\ late' = late /\ unheard' = unheard
      /\ Issued(t, <<>>) /\ Over(t) /\ Committed(t) /\ At(t, "commit")
  BY DEF Commit
<1>2. phase'[t] = "done" /\ answer'[t] = "ok"
  BY DEF Commit, Finished, TypeOK
<1>3. /\ q # <<>> /\ Head(q) = Main("commit") /\ Head(q).stmt = "commit"
  BY <1>1 DEF At, Main
<1>4. phase[t] = "committing" /\ a \in Args
  BY <1>3, PhaseAtEnd DEF Ends
<1>5. Committing(a, s, q) /\ s = <<>>
  BY <1>4 DEF Well, Committing
<1>6. queue'[t] = <<>> /\ Elements(q) = {Main("commit")}
  <2>1. Tail(q) \o <<>> = <<>> /\ Elements(q) = {Main("commit")}
    BY <1>3, <1>4, <1>5, CommitAlone
  <2>2. queue'[t] = Tail(q) \o <<>>
    BY <1>1, IssuedOn
  <2> QED
    BY <2>1, <2>2
<1>7. pending'[t] = {} /\ gone'[t] = {} /\ hold'[t] = "none"
  BY <1>1, OverLeaves
<1>8. Settled(t)'
  BY <1>1, <1>5, <1>6, <1>7 DEF Settled
<1>9. durable'[t] = durable[t] \cup pending[t]
  BY <1>1 DEF Committed, TypeOK
<1>10. Heard(t) => durable'[t] = AllWrites(a)
  <2> SUFFICES ASSUME Heard(t) PROVE durable'[t] = AllWrites(a)
    OBVIOUS
  <2>1. Accounted(t) /\ durable[t] = {}
    BY <1>4 DEF Well, Heard
  <2>2. \A w \in AllWrites(a) : w \in pending[t]
    BY <1>4, <1>5, <1>6, <2>1, StillNone DEF Accounted
  <2> QED
    BY <1>9, <2>1, <2>2 DEF Accounted
<1>11. Promised(t)'
  BY <1>1, <1>2, <1>10 DEF Promised, Heard
<1>12. a # NoArgs /\ t \notin late
  BY <1>4, NoArgsAssumption DEF Well
<1> QED
  BY <1>1, <1>2, <1>4, <1>7, <1>8, <1>11, <1>12 DEF Well, MetaInOrder

LEMMA RollbackWell ==
    ASSUME TypeOK, NEW t \in Trxs, Well(t), Rollback(t)
    PROVE  Well(t)'
<1> DEFINE a == args[t]
           s == script[t]
           q == queue[t]
<1>1. /\ args' = args /\ script' = script /\ mode' = mode /\ late' = late /\ unheard' = unheard
      /\ Issued(t, <<>>) /\ Over(t) /\ durable' = durable /\ At(t, "rollback")
  BY DEF Rollback, RolledBack
<1>2. phase'[t] = "done" /\ answer'[t] = "error"
  BY DEF Rollback, Finished, TypeOK
<1>3. /\ q # <<>> /\ Head(q) = Main("rollback") /\ Head(q).stmt = "rollback"
  BY <1>1 DEF At, Main
<1>4. phase[t] = "rollingBack" /\ a \in Args
  BY <1>3, PhaseAtEnd DEF Ends
<1>5. RollingBack(a, s, q) /\ s = <<>>
  BY <1>4 DEF Well, RollingBack
<1>6. queue'[t] = <<>>
  <2>1. Tail(q) \o <<>> = <<>>
    BY <1>3, <1>4, <1>5, RollbackAlone
  <2>2. queue'[t] = Tail(q) \o <<>>
    BY <1>1, IssuedOn
  <2> QED
    BY <2>1, <2>2
<1>7. pending'[t] = {} /\ gone'[t] = {} /\ hold'[t] = "none"
  BY <1>1, OverLeaves
<1>8. Settled(t)'
  BY <1>1, <1>5, <1>6, <1>7 DEF Settled
<1>9. Heard(t) => durable'[t] = {}
  BY <1>1, <1>4 DEF Well, Heard
<1>10. Promised(t)'
  BY <1>1, <1>2, <1>9 DEF Promised, Heard
<1>11. a # NoArgs /\ t \notin late
  BY <1>4, NoArgsAssumption DEF Well
<1> QED
  BY <1>1, <1>2, <1>4, <1>7, <1>8, <1>10, <1>11 DEF Well, MetaInOrder

(* A rejection leads to the ROLLBACK.                                      *)
LEMMA Rejected ==
    ASSUME TypeOK, NEW t \in Trxs, Well(t), AtMain(t), MainRejected(t)
    PROVE  /\ phase'[t] = "rollingBack"
           /\ RollingBack(args[t], script'[t], queue'[t])
<1> DEFINE a == args[t]
           s == script[t]
           q == queue[t]
<1>1. /\ phase[t] \in {"running", "rollingBack"} /\ a \in Args
      /\ Head(q).stmt \notin Ends /\ Head(q).thread = 0
  BY AtStatement DEF AtMain
<1>2. phase'[t] = "rollingBack" /\ script'[t] = <<>>
  BY DEF MainRejected, TypeOK
<1>3. CASE phase[t] = "running"
  <2>1. Issued(t, <<Main("rollback")>>)
    BY <1>3 DEF MainRejected
  <2>2. queue'[t] = Tail(q) \o <<Main("rollback")>>
    BY <2>1, IssuedOn
  <2>3. Running(a, s, q)
    BY <1>3 DEF Well
  <2>4. RollingBack(a, <<>>, Tail(q) \o <<Main("rollback")>>)
    BY <1>1, <2>3, MainIsRejected
  <2> QED
    BY <1>2, <2>2, <2>4
<1>4. CASE phase[t] = "rollingBack"
  <2>1. Issued(t, <<>>)
    BY <1>4 DEF MainRejected
  <2>2. queue'[t] = Tail(q) \o <<>>
    BY <2>1, IssuedOn
  <2>3. RollingBack(a, s, q) /\ s = <<>>
    BY <1>4 DEF Well, RollingBack
  <2>4. RollingBack(a, s, Tail(q) \o <<>>)
    BY <1>1, <2>3, KeepsRollingBack DEF Ends
  <2> QED
    BY <1>2, <2>2, <2>3, <2>4
<1> QED
  BY <1>1, <1>3, <1>4

LEMMA FailMainWell ==
    ASSUME TypeOK, NEW t \in Trxs, Well(t), FailMain(t)
    PROVE  Well(t)'
<1>1. /\ AtMain(t) /\ MainRejected(t)
      /\ UNCHANGED <<args, mode, pending, durable, answer, meta, late, unheard>>
  BY DEF FailMain
<1>2. /\ phase'[t] = "rollingBack" /\ RollingBack(args[t], script'[t], queue'[t])
  BY <1>1, Rejected
<1>3. /\ phase[t] \in {"running", "committing", "rollingBack"} /\ args[t] \in Args
      /\ args[t] # NoArgs
  BY <1>1, AtStatement, NoArgsAssumption
<1>4. MetaInOrder(t)'
  BY <1>2 DEF MetaInOrder
<1> QED
  BY <1>1, <1>2, <1>3, <1>4 DEF Well, meta

(* The connection after an answer that a background thread stops at.       *)
LEMMA BackgroundStops ==
    ASSUME TypeOK, NEW t \in Trxs, Well(t), AtBackground(t), Issued(t, <<>>)
    PROVE  /\ phase[t] = "running" => Running(args[t], script[t], queue'[t])
           /\ phase[t] = "committing" => Committing(args[t], script[t], queue'[t])
           /\ phase[t] = "rollingBack" => RollingBack(args[t], script[t], queue'[t])
<1> DEFINE a == args[t]
           s == script[t]
           q == queue[t]
           n == <<>>
<1>1. /\ q \in Seq(Entries) /\ q # <<>> /\ a \in Args /\ Head(q).stmt \notin Ends
      /\ Head(q).thread > 0
  BY AtStatement DEF AtBackground
<1>2. queue'[t] = Tail(q) \o n
  BY IssuedOn
<1>3. ASSUME phase[t] = "running" PROVE Running(a, s, queue'[t])
  <2>1. Running(a, s, q)
    BY <1>3 DEF Well
  <2>2. \E x \in Elements(Tail(q)) : x.thread = 0
    BY <1>1, <2>1, MainBehind
  <2>3. n \in Seq(Entries) /\ \A i \in 1..Len(n) : FALSE
    OBVIOUS
  <2> HIDE DEF n
  <2>4. Running(a, s, Tail(q) \o n)
    BY <1>1, <2>1, <2>2, <2>3, KeepsRunning
  <2> QED
    BY <1>2, <2>4
<1>4. ASSUME phase[t] = "committing" PROVE Committing(a, s, queue'[t])
  <2>1. Committing(a, s, q) /\ Head(q).stmt # "commit"
    BY <1>1, <1>4 DEF Well, Ends
  <2>2. Committing(a, s, Tail(q) \o <<>>)
    BY <1>1, <2>1, KeepsCommitting
  <2> QED
    BY <1>2, <2>2
<1>5. ASSUME phase[t] = "rollingBack" PROVE RollingBack(a, s, queue'[t])
  <2>1. RollingBack(a, s, q) /\ Head(q).stmt # "rollback"
    BY <1>1, <1>5 DEF Well, Ends
  <2>2. RollingBack(a, s, Tail(q) \o <<>>)
    BY <1>1, <2>1, KeepsRollingBack
  <2> QED
    BY <1>2, <2>2
<1> QED
  BY <1>3, <1>4, <1>5

LEMMA FailBackgroundWell ==
    ASSUME TypeOK, NEW t \in Trxs, Well(t), FailBackground(t)
    PROVE  Well(t)'
<1>1. /\ AtBackground(t) /\ Issued(t, <<>>) /\ t \in unheard'
      /\ UNCHANGED <<args, phase, script, mode, pending, durable, answer, meta, late>>
  BY DEF FailBackground
<1>2. /\ phase[t] = "running" => Running(args[t], script[t], queue'[t])
      /\ phase[t] = "committing" => Committing(args[t], script[t], queue'[t])
      /\ phase[t] = "rollingBack" => RollingBack(args[t], script[t], queue'[t])
  BY <1>1, BackgroundStops
<1>3. phase[t] \in {"running", "committing", "rollingBack"}
  BY <1>1, AtStatement
<1>4. Accounted(t) => Accounted(t)'
  BY <1>1 DEF Accounted, Heard
<1>5. MetaInOrder(t) => MetaInOrder(t)'
  BY <1>1 DEF MetaInOrder, meta
<1> QED
  BY <1>1, <1>2, <1>3, <1>4, <1>5 DEF Well, meta

LEMMA DeadlockWell ==
    ASSUME TypeOK, NEW t \in Trxs, Well(t), Deadlock(t)
    PROVE  Well(t)'
<1>1. /\ AtMain(t) \/ AtBackground(t)
      /\ Over(t) /\ durable' = durable
      /\ UNCHANGED <<args, answer, late, unheard>>
  BY DEF Deadlock, RolledBack
<1>2. mode'[t] = "autocommit"
  BY DEF Deadlock, TypeOK
<1>3. pending'[t] = {} /\ gone'[t] = {} /\ hold'[t] = "none"
  BY <1>1, OverLeaves
<1>4. /\ phase[t] \in {"running", "committing", "rollingBack"} /\ args[t] \in Args
      /\ args[t] # NoArgs
  BY <1>1, AtStatement, NoArgsAssumption
<1>5. Accounted(t)'
  BY <1>2, <1>3 DEF Accounted, Heard
<1>6. Main("insertMeta") \notin pending'[t]
  BY <1>3
<1>7. CASE AtMain(t)
  <2>1. MainRejected(t)
    BY <1>7 DEF Deadlock
  <2>2. phase'[t] = "rollingBack" /\ RollingBack(args[t], script'[t], queue'[t])
    BY <1>7, <2>1, Rejected
  <2> QED
    BY <1>1, <1>2, <1>3, <1>4, <1>6, <2>2 DEF Well
<1>8. CASE ~ AtMain(t)
  <2>1. AtBackground(t) /\ Issued(t, <<>>) /\ UNCHANGED <<script, phase>>
    BY <1>1, <1>8 DEF Deadlock
  <2>2. /\ phase[t] = "running" => Running(args[t], script[t], queue'[t])
        /\ phase[t] = "committing" => Committing(args[t], script[t], queue'[t])
        /\ phase[t] = "rollingBack" => RollingBack(args[t], script[t], queue'[t])
    BY <2>1, BackgroundStops
  <2> QED
    BY <1>1, <1>2, <1>3, <1>4, <1>5, <1>6, <2>1, <2>2 DEF Well
<1> QED
  BY <1>7, <1>8

(* The loss of the connection ends the transaction with nothing or all of  *)
(* its writes.                                                             *)
LEMMA ConnectionLostWell ==
    ASSUME TypeOK, NEW t \in Trxs, Well(t), ConnectionLost(t)
    PROVE  Well(t)'
<1> DEFINE a == args[t]
<1>1. /\ phase[t] \in {"running", "committing", "rollingBack"}
      /\ durable' = durable \/ (At(t, "commit") /\ Committed(t))
      /\ Over(t) /\ UNCHANGED <<args, mode, late, unheard>>
  BY DEF ConnectionLost, RolledBack
<1>2. /\ phase'[t] = "done" /\ answer'[t] = "error"
      /\ queue'[t] = <<>> /\ script'[t] = <<>>
  BY DEF ConnectionLost, Finished, TypeOK
<1>3. pending'[t] = {} /\ gone'[t] = {} /\ hold'[t] = "none"
  BY <1>1, OverLeaves
<1>4. Settled(t)'
  BY <1>2, <1>3 DEF Settled
<1>5. Heard(t) => durable'[t] \in {{}, AllWrites(a)}
  <2> SUFFICES ASSUME Heard(t) PROVE durable'[t] \in {{}, AllWrites(a)}
    OBVIOUS
  <2>1. durable[t] = {}
    BY <1>1 DEF Well, Heard
  <2>2. CASE durable' = durable
    BY <2>1, <2>2
  <2>3. CASE At(t, "commit") /\ Committed(t)
    <3>1. queue[t] # <<>> /\ Head(queue[t]) = Main("commit") /\ Head(queue[t]).stmt = "commit"
      BY <2>3 DEF At, Main
    <3>2. phase[t] = "committing" /\ a \in Args
      BY <3>1, PhaseAtEnd DEF Ends
    <3>3. Committing(a, script[t], queue[t]) /\ script[t] = <<>> /\ Accounted(t)
      BY <3>2 DEF Well, Committing
    <3>4. Elements(queue[t]) = {Main("commit")}
      BY <3>1, <3>2, <3>3, CommitAlone
    <3>5. \A w \in AllWrites(a) : w \in pending[t]
      BY <3>2, <3>3, <3>4, StillNone DEF Accounted
    <3>6. durable'[t] = durable[t] \cup pending[t]
      BY <2>3 DEF Committed, TypeOK
    <3> QED
      BY <2>1, <3>3, <3>5, <3>6 DEF Accounted
  <2> QED
    BY <1>1, <2>2, <2>3
<1>6. Promised(t)'
  BY <1>1, <1>2, <1>5 DEF Promised, Heard
<1>7. a \in Args /\ a # NoArgs /\ t \notin late
  BY <1>1, NoArgsAssumption DEF Well
<1> QED
  BY <1>1, <1>2, <1>3, <1>4, <1>6, <1>7 DEF Well, MetaInOrder

LEMMA CloseWell ==
    ASSUME TypeOK, NEW t \in Trxs, Well(t), Close(t)
    PROVE  Well(t)'
<1>1. /\ phase[t] = "done" /\ UNCHANGED <<script, queue, pending, meta, late>>
      /\ t \notin unheard'
  BY DEF Close
<1>2. /\ phase'[t] = "idle" /\ args'[t] = NoArgs /\ mode'[t] = "trx"
      /\ durable'[t] = {} /\ answer'[t] = "none"
  BY DEF Close, TypeOK
<1>3. Settled(t)' /\ hold'[t] = "none" /\ gone'[t] = {} /\ pending'[t] = {} /\ t \notin late
  BY <1>1 DEF Well, Settled, meta
<1>4. MetaInOrder(t)'
  BY <1>2 DEF MetaInOrder
<1> QED
  BY <1>1, <1>2, <1>3, <1>4 DEF Well, Heard

-----------------------------------------------------------------------------
(* Types, and what the other transactions see                              *)

Moves(t) == Begin(t) \/ Answer(t) \/ Deadlock(t) \/ ConnectionLost(t) \/ Close(t)

LEMMA MovesWell ==
    ASSUME TypeOK, NEW t \in Trxs, Well(t), Moves(t)
    PROVE  Well(t)'
BY BeginWell, ExecuteMainWell, ExecuteBackgroundWell, CommitWell, RollbackWell, FailMainWell,
   FailBackgroundWell, DeadlockWell, ConnectionLostWell, CloseWell DEF Moves, Answer

(* A step of a transaction changes what belongs to it only.                *)
OnlyAt(t, f, g) == \E x : g = [f EXCEPT ![t] = x]

LEMMA Unchanged ==
    ASSUME NEW D, NEW S, NEW f \in [D -> S], NEW t \in D
    PROVE  OnlyAt(t, f, f)
<1>1. f = [f EXCEPT ![t] = f[t]]
  OBVIOUS
<1> QED
  BY <1>1 DEF OnlyAt

LEMMA Shapes ==
    ASSUME TypeOK, NEW t \in Trxs, Moves(t)
    PROVE  /\ OnlyAt(t, args, args') /\ OnlyAt(t, phase, phase') /\ OnlyAt(t, script, script')
           /\ OnlyAt(t, queue, queue') /\ OnlyAt(t, mode, mode') /\ OnlyAt(t, pending, pending')
           /\ OnlyAt(t, durable, durable') /\ OnlyAt(t, answer, answer')
           /\ OnlyAt(t, gone, gone') /\ OnlyAt(t, hold, hold')
           /\ late' \subseteq late \cup {t}
           /\ unheard' \subseteq unheard \cup {t} /\ unheard \subseteq unheard' \cup {t}
<1>1. /\ OnlyAt(t, args, args) /\ OnlyAt(t, phase, phase) /\ OnlyAt(t, script, script)
      /\ OnlyAt(t, queue, queue) /\ OnlyAt(t, mode, mode) /\ OnlyAt(t, pending, pending)
      /\ OnlyAt(t, durable, durable) /\ OnlyAt(t, answer, answer)
      /\ OnlyAt(t, gone, gone) /\ OnlyAt(t, hold, hold)
  BY Unchanged DEF TypeOK
<1>2. ASSUME NEW n, Issued(t, n) PROVE OnlyAt(t, queue, queue')
  BY <1>2 DEF Issued, OnlyAt
<1>3. ASSUME Over(t)
      PROVE  OnlyAt(t, pending, pending') /\ OnlyAt(t, gone, gone') /\ OnlyAt(t, hold, hold')
  BY <1>3 DEF Over, OnlyAt
<1>4. ASSUME RolledBack(t) \/ Committed(t) PROVE OnlyAt(t, durable, durable')
  BY <1>1, <1>4 DEF RolledBack, Committed, OnlyAt
<1>5. ASSUME NEW e, TakesEffect(t, e)
      PROVE  /\ OnlyAt(t, pending, pending') /\ OnlyAt(t, gone, gone') /\ OnlyAt(t, hold, hold')
             /\ OnlyAt(t, durable, durable')
  <2>1. CASE InTransaction(t, e)
    <3>1. /\ pending' = [pending EXCEPT ![t] = @ \cup Written(e)]
          /\ gone' = IF e.stmt = "deleteMeta" THEN [gone EXCEPT ![t] = metaRows] ELSE gone
          /\ durable' = durable
      BY <1>5, <2>1 DEF TakesEffect
    <3>2. /\ e.stmt = "insertMeta" => hold' = [hold EXCEPT ![t] = "rows"]
          /\ e.stmt = "deleteMeta" => hold' = [hold EXCEPT ![t] = IF metaRows = {} THEN "gap" ELSE "rows"]
          /\ e.stmt \notin {"deleteMeta", "insertMeta"} => hold' = hold
      BY <1>5, <2>1 DEF TakesEffect
    <3>3. OnlyAt(t, hold, hold')
      BY <1>1, <3>2 DEF OnlyAt
    <3> QED
      BY <1>1, <3>1, <3>3 DEF OnlyAt
  <2>2. CASE ~ InTransaction(t, e)
    <3>1. /\ durable' = [durable EXCEPT ![t] = @ \cup Written(e)]
          /\ pending' = pending /\ gone' = gone /\ hold' = hold
      BY <1>5, <2>2 DEF TakesEffect
    <3> QED
      BY <1>1, <3>1 DEF OnlyAt
  <2> QED
    BY <2>1, <2>2
<1>6. ASSUME MainGoesOn(t)
      PROVE  OnlyAt(t, queue, queue') /\ OnlyAt(t, script, script') /\ OnlyAt(t, phase, phase')
  <2> DEFINE rest == IF Head(script[t]) = "fork" THEN Tail(script[t]) ELSE script[t]
  <2>1. CASE \E e \in Elements(Tail(queue[t])) : e.thread = 0
    <3>1. Issued(t, <<>>) /\ script' = script /\ phase' = phase
      BY <1>6, <2>1 DEF MainGoesOn
    <3> QED
      BY <1>1, <1>2, <3>1
  <2>2. CASE ~ \E e \in Elements(Tail(queue[t])) : e.thread = 0
    <3>1. PICK n : Issued(t, n)
      BY <1>6, <2>2 DEF MainGoesOn
    <3>2. /\ script' = [script EXCEPT ![t] = Tail(rest)]
          /\ phase' = IF Head(rest) = "commit" THEN [phase EXCEPT ![t] = "committing"] ELSE phase
      BY <1>6, <2>2 DEF MainGoesOn
    <3> QED
      BY <1>1, <1>2, <3>1, <3>2 DEF OnlyAt
  <2> QED
    BY <2>1, <2>2
<1>7. ASSUME MainRejected(t)
      PROVE  OnlyAt(t, queue, queue') /\ OnlyAt(t, script, script') /\ OnlyAt(t, phase, phase')
  <2>1. PICK n : Issued(t, n)
    BY <1>7 DEF MainRejected
  <2>2. /\ script' = [script EXCEPT ![t] = <<>>]
        /\ phase' = [phase EXCEPT ![t] = "rollingBack"]
    BY <1>7 DEF MainRejected
  <2> QED
    BY <1>2, <2>1, <2>2 DEF OnlyAt
<1>8. ASSUME NEW a, Finished(t, a) PROVE OnlyAt(t, phase, phase') /\ OnlyAt(t, answer, answer')
  BY <1>8 DEF Finished, OnlyAt
<1>9. CASE Begin(t)
  <2>1. PICK a \in Args : /\ args' = [args EXCEPT ![t] = a]
                          /\ queue' = [queue EXCEPT ![t] = Together(Head(Program(a)))]
                          /\ script' = [script EXCEPT ![t] = Tail(Program(a))]
    BY <1>9 DEF Begin
  <2>2. /\ phase' = [phase EXCEPT ![t] = "running"]
        /\ UNCHANGED <<mode, pending, durable, answer, meta, late, unheard>>
    BY <1>9 DEF Begin
  <2>3. OnlyAt(t, args, args') /\ OnlyAt(t, queue, queue') /\ OnlyAt(t, script, script')
    BY <2>1 DEF OnlyAt
  <2>4. OnlyAt(t, phase, phase')
    BY <2>2 DEF OnlyAt
  <2> QED
    BY <1>1, <2>2, <2>3, <2>4 DEF meta
<1>10. CASE ExecuteMain(t)
  BY <1>1, <1>5, <1>6, <1>10 DEF ExecuteMain
<1>11. CASE ExecuteBackground(t)
  <2>1. /\ TakesEffect(t, Head(queue[t]))
        /\ BackgroundGoesOn(t, Head(queue[t]))
        /\ UNCHANGED <<args, phase, script, mode, answer, unheard>>
    BY <1>11 DEF ExecuteBackground
  <2>2. (\E n : Issued(t, n)) /\ late' \subseteq late \cup {t}
    BY <2>1 DEF BackgroundGoesOn
  <2> QED
    BY <1>1, <1>2, <1>5, <2>1, <2>2
<1>12. CASE Commit(t)
  BY <1>1, <1>2, <1>3, <1>4, <1>8, <1>12 DEF Commit
<1>13. CASE Rollback(t)
  BY <1>1, <1>2, <1>3, <1>4, <1>8, <1>13 DEF Rollback
<1>14. CASE FailMain(t)
  BY <1>1, <1>7, <1>14 DEF FailMain, meta
<1>15. CASE FailBackground(t)
  BY <1>1, <1>2, <1>15 DEF FailBackground, meta
<1>16. CASE Deadlock(t)
  <2>1. OnlyAt(t, mode, mode')
    BY <1>16 DEF Deadlock, OnlyAt
  <2> QED
    BY <1>1, <1>2, <1>3, <1>4, <1>7, <1>16, <2>1 DEF Deadlock
<1>17. CASE ConnectionLost(t)
  <2>1. OnlyAt(t, queue, queue') /\ OnlyAt(t, script, script')
    BY <1>17 DEF ConnectionLost, OnlyAt
  <2> QED
    BY <1>1, <1>3, <1>4, <1>8, <1>17, <2>1 DEF ConnectionLost
<1>18. CASE Close(t)
  <2>1. /\ OnlyAt(t, phase, phase') /\ OnlyAt(t, args, args') /\ OnlyAt(t, mode, mode')
        /\ OnlyAt(t, durable, durable') /\ OnlyAt(t, answer, answer')
    BY <1>18 DEF Close, OnlyAt
  <2> QED
    BY <1>1, <1>18, <2>1 DEF Close, meta
<1> QED
  BY <1>9, <1>10, <1>11, <1>12, <1>13, <1>14, <1>15, <1>16, <1>17, <1>18 DEF Moves, Answer

(* A function changed at one place.                                        *)
LEMMA SameElsewhere ==
    ASSUME NEW D, NEW f, DOMAIN f = D, NEW t \in D, NEW g, OnlyAt(t, f, g), NEW u \in D \ {t}
    PROVE  g[u] = f[u]
BY DEF OnlyAt

LEMMA ChangedAt ==
    ASSUME NEW D, NEW S, NEW f \in [D -> S], NEW t \in D, NEW g, OnlyAt(t, f, g), g[t] \in S
    PROVE  g \in [D -> S]
BY DEF OnlyAt

LEMMA OthersUnchanged ==
    ASSUME TypeOK, NEW t \in Trxs, Moves(t), NEW u \in Trxs \ {t}
    PROVE  /\ args'[u] = args[u] /\ phase'[u] = phase[u] /\ script'[u] = script[u]
           /\ queue'[u] = queue[u] /\ mode'[u] = mode[u] /\ pending'[u] = pending[u]
           /\ durable'[u] = durable[u] /\ answer'[u] = answer[u] /\ gone'[u] = gone[u]
           /\ hold'[u] = hold[u]
           /\ u \in late' => u \in late
           /\ u \in unheard' <=> u \in unheard
<1>1. /\ DOMAIN args = Trxs /\ DOMAIN phase = Trxs /\ DOMAIN script = Trxs
      /\ DOMAIN queue = Trxs /\ DOMAIN mode = Trxs /\ DOMAIN pending = Trxs
      /\ DOMAIN durable = Trxs /\ DOMAIN answer = Trxs /\ DOMAIN gone = Trxs
      /\ DOMAIN hold = Trxs
  BY DEF TypeOK
<1>2. /\ OnlyAt(t, args, args') /\ OnlyAt(t, phase, phase') /\ OnlyAt(t, script, script')
      /\ OnlyAt(t, queue, queue') /\ OnlyAt(t, mode, mode') /\ OnlyAt(t, pending, pending')
      /\ OnlyAt(t, durable, durable') /\ OnlyAt(t, answer, answer')
      /\ OnlyAt(t, gone, gone') /\ OnlyAt(t, hold, hold')
      /\ late' \subseteq late \cup {t}
      /\ unheard' \subseteq unheard \cup {t} /\ unheard \subseteq unheard' \cup {t}
  BY Shapes
<1>3. args'[u] = args[u] /\ phase'[u] = phase[u] /\ script'[u] = script[u]
  BY <1>1, <1>2, SameElsewhere
<1>4. queue'[u] = queue[u] /\ mode'[u] = mode[u] /\ pending'[u] = pending[u]
  BY <1>1, <1>2, SameElsewhere
<1>5. durable'[u] = durable[u] /\ answer'[u] = answer[u] /\ gone'[u] = gone[u]
      /\ hold'[u] = hold[u]
  BY <1>1, <1>2, SameElsewhere
<1> QED
  BY <1>2, <1>3, <1>4, <1>5

LEMMA TypesAt ==
    ASSUME TypeOK, NEW t \in Trxs, Well(t), Moves(t)
    PROVE  /\ mode'[t] \in {"trx", "autocommit"}
           /\ pending'[t] \in SUBSET Entries
           /\ durable'[t] \in SUBSET Entries
           /\ answer'[t] \in {"none", "ok", "error"}
           /\ metaRows' \subseteq Trxs
           /\ gone'[t] \in SUBSET Trxs
           /\ hold'[t] \in {"none", "gap", "rows"}
<1>1. /\ mode[t] \in {"trx", "autocommit"}
      /\ pending[t] \in SUBSET Entries
      /\ durable[t] \in SUBSET Entries
      /\ answer[t] \in {"none", "ok", "error"}
      /\ metaRows \subseteq Trxs
      /\ gone[t] \in SUBSET Trxs
      /\ hold[t] \in {"none", "gap", "rows"}
      /\ DOMAIN mode = Trxs /\ DOMAIN answer = Trxs /\ DOMAIN durable = Trxs
  BY DEF TypeOK
<1>2. ASSUME NEW e \in Entries, TakesEffect(t, e)
      PROVE  /\ pending'[t] \in SUBSET Entries /\ durable'[t] \in SUBSET Entries
             /\ metaRows' \subseteq Trxs /\ gone'[t] \in SUBSET Trxs
             /\ hold'[t] \in {"none", "gap", "rows"}
  <2>1. Written(e) \subseteq Entries
    BY DEF Written
  <2>2. CASE mode[t] = "trx"
    BY <1>1, <1>2, <2>1, <2>2, Effect
  <2>3. CASE mode[t] = "autocommit"
    <3>1. durable' = [durable EXCEPT ![t] = @ \cup Written(e)]
      BY <1>2, <2>3 DEF TakesEffect, InTransaction
    <3>2. durable'[t] \in SUBSET Entries
      BY <1>1, <2>1, <3>1
    <3> QED
      BY <1>1, <1>2, <2>3, <3>2, Effect
  <2> QED
    BY <1>1, <2>2, <2>3
<1>3. ASSUME Over(t)
      PROVE  pending'[t] = {} /\ gone'[t] = {} /\ hold'[t] = "none"
  BY <1>3, OverLeaves
<1>4. ASSUME RolledBack(t) \/ Committed(t)
      PROVE  durable'[t] \in SUBSET Entries /\ metaRows' \subseteq Trxs
  <2>1. CASE RolledBack(t)
    BY <1>1, <2>1 DEF RolledBack
  <2>2. CASE Committed(t)
    BY <1>1, <2>2 DEF Committed
  <2> QED
    BY <1>4, <2>1, <2>2
<1>5. ASSUME AtMain(t) \/ AtBackground(t) PROVE Head(queue[t]) \in Entries
  <2>1. queue[t] \in Seq(Entries) /\ queue[t] # <<>>
    BY <1>5, AtStatement
  <2> QED
    BY <2>1
<1>6. CASE ExecuteMain(t) \/ ExecuteBackground(t)
  <2>1. TakesEffect(t, Head(queue[t])) /\ mode' = mode /\ answer' = answer
    BY <1>6 DEF ExecuteMain, ExecuteBackground
  <2>2. AtMain(t) \/ AtBackground(t)
    BY <1>6 DEF ExecuteMain, ExecuteBackground
  <2> QED
    BY <1>1, <1>2, <1>5, <2>1, <2>2
<1>7. CASE Commit(t) \/ Rollback(t)
  <2>1. Over(t) /\ mode' = mode /\ (RolledBack(t) \/ Committed(t))
    BY <1>7 DEF Commit, Rollback
  <2>2. answer'[t] \in {"ok", "error"}
    BY <1>1, <1>7 DEF Commit, Rollback, Finished
  <2> QED
    BY <1>1, <1>3, <1>4, <2>1, <2>2
<1>8. CASE Begin(t) \/ FailMain(t) \/ FailBackground(t)
  BY <1>1, <1>8 DEF Begin, FailMain, FailBackground, meta
<1>9. CASE Deadlock(t)
  <2>1. Over(t) /\ RolledBack(t) /\ answer' = answer /\ mode' = [mode EXCEPT ![t] = "autocommit"]
    BY <1>9 DEF Deadlock
  <2> QED
    BY <1>1, <1>3, <1>4, <2>1
<1>10. CASE ConnectionLost(t)
  <2>1. Over(t) /\ (RolledBack(t) \/ Committed(t)) /\ mode' = mode
        /\ answer' = [answer EXCEPT ![t] = "error"]
    BY <1>10 DEF ConnectionLost, Finished
  <2> QED
    BY <1>1, <1>3, <1>4, <2>1
<1>11. CASE Close(t)
  BY <1>1, <1>11 DEF Close, meta
<1> QED
  BY <1>6, <1>7, <1>8, <1>9, <1>10, <1>11 DEF Moves, Answer

LEMMA TypeKept ==
    ASSUME TypeOK, NEW t \in Trxs, Well(t), Moves(t)
    PROVE  TypeOK'
<1>1. Well(t)'
  BY MovesWell
<1>2. /\ script'[t] \in Seq(Stmts \cup {"fork", "deleteEach"})
      /\ queue'[t] \in Seq(Entries)
  <2>1. <<>> \in Seq(Stmts \cup {"fork", "deleteEach"}) /\ <<>> \in Seq(Entries)
    OBVIOUS
  <2>2. ASSUME NEW s \in Seq(ScriptStmts) PROVE s \in Seq(Stmts \cup {"fork", "deleteEach"})
    <3>1. ScriptStmts \subseteq Stmts \cup {"fork", "deleteEach"}
      BY DEF ScriptStmts, Stmts, Ends
    <3> QED
      BY <3>1
  <2>3. CASE phase'[t] = "running"
    BY <1>1, <2>2, <2>3 DEF Well, Running, IsScript
  <2>4. CASE phase'[t] = "committing"
    BY <1>1, <2>1, <2>4 DEF Well, Committing
  <2>5. CASE phase'[t] = "rollingBack"
    BY <1>1, <2>1, <2>5 DEF Well, RollingBack
  <2>6. CASE phase'[t] \in {"idle", "done"}
    BY <1>1, <2>1, <2>6 DEF Well, Settled
  <2> QED
    BY <1>1, <2>3, <2>4, <2>5, <2>6 DEF Well
<1>3. /\ args'[t] \in Args \cup {NoArgs}
      /\ phase'[t] \in {"idle", "running", "committing", "rollingBack", "done"}
  BY <1>1 DEF Well
<1>4. args' \in [Trxs -> Args \cup {NoArgs}]
  <2>1. args \in [Trxs -> Args \cup {NoArgs}] /\ OnlyAt(t, args, args')
    BY Shapes DEF TypeOK
  <2> QED
    BY <1>3, <2>1, ChangedAt
<1>5. phase' \in [Trxs -> {"idle", "running", "committing", "rollingBack", "done"}]
  <2>1. /\ phase \in [Trxs -> {"idle", "running", "committing", "rollingBack", "done"}]
        /\ OnlyAt(t, phase, phase')
    BY Shapes DEF TypeOK
  <2> QED
    BY <1>3, <2>1, ChangedAt
<1>6. script' \in [Trxs -> Seq(Stmts \cup {"fork", "deleteEach"})]
  <2>1. /\ script \in [Trxs -> Seq(Stmts \cup {"fork", "deleteEach"})]
        /\ OnlyAt(t, script, script')
    BY Shapes DEF TypeOK
  <2> QED
    BY <1>2, <2>1, ChangedAt
<1>7. queue' \in [Trxs -> Seq(Entries)]
  <2>1. queue \in [Trxs -> Seq(Entries)] /\ OnlyAt(t, queue, queue')
    BY Shapes DEF TypeOK
  <2> QED
    BY <1>2, <2>1, ChangedAt
<1>8. mode' \in [Trxs -> {"trx", "autocommit"}]
  <2>1. mode \in [Trxs -> {"trx", "autocommit"}] /\ OnlyAt(t, mode, mode')
    BY Shapes DEF TypeOK
  <2> QED
    BY <2>1, TypesAt, ChangedAt
<1>9. pending' \in [Trxs -> SUBSET Entries] /\ durable' \in [Trxs -> SUBSET Entries]
  <2>1. /\ pending \in [Trxs -> SUBSET Entries] /\ OnlyAt(t, pending, pending')
        /\ durable \in [Trxs -> SUBSET Entries] /\ OnlyAt(t, durable, durable')
    BY Shapes DEF TypeOK
  <2> QED
    BY <2>1, TypesAt, ChangedAt
<1>10. answer' \in [Trxs -> {"none", "ok", "error"}]
  <2>1. answer \in [Trxs -> {"none", "ok", "error"}] /\ OnlyAt(t, answer, answer')
    BY Shapes DEF TypeOK
  <2> QED
    BY <2>1, TypesAt, ChangedAt
<1>11. gone' \in [Trxs -> SUBSET Trxs]
  <2>1. gone \in [Trxs -> SUBSET Trxs] /\ OnlyAt(t, gone, gone')
    BY Shapes DEF TypeOK
  <2> QED
    BY <2>1, TypesAt, ChangedAt
<1>12. hold' \in [Trxs -> {"none", "gap", "rows"}]
  <2>1. hold \in [Trxs -> {"none", "gap", "rows"}] /\ OnlyAt(t, hold, hold')
    BY Shapes DEF TypeOK
  <2> QED
    BY <2>1, TypesAt, ChangedAt
<1>13. metaRows' \subseteq Trxs /\ late' \subseteq Trxs /\ unheard' \subseteq Trxs
  BY Shapes, TypesAt DEF TypeOK
<1> QED
  BY <1>4, <1>5, <1>6, <1>7, <1>8, <1>9, <1>10, <1>11, <1>12, <1>13 DEF TypeOK

-----------------------------------------------------------------------------
(* The entries of users_meta                                               *)

(* A step that leaves the entries and the locks alone, or gives up its own. *)
LEMMA LocksKept ==
    ASSUME Locks, NEW t \in Trxs,
           metaRows' = metaRows,
           \A u \in Trxs \ {t} : hold'[u] = hold[u] /\ gone'[u] = gone[u],
           hold'[t] = "none" \/ (hold'[t] = hold[t] /\ gone'[t] = gone[t])
    PROVE  Locks'
<1> SUFFICES ASSUME NEW v \in Trxs
             PROVE  /\ hold'[v] # "none" => gone'[v] = metaRows'
                    /\ hold'[v] = "gap" => metaRows' = {}
                    /\ hold'[v] = "rows" => \A u \in Trxs \ {v} : hold'[u] = "none"
  BY DEF Locks
<1>1. hold'[v] # "none" => hold'[v] = hold[v] /\ gone'[v] = gone[v]
  OBVIOUS
<1>2. \A u \in Trxs : hold[u] = "none" => hold'[u] = "none"
  OBVIOUS
<1> QED
  BY <1>1, <1>2 DEF Locks

(* The statements of logTagMutation take the locks, or, after a deadlock,  *)
(* change the entries by themselves; the locks of others are in their way. *)
LEMMA ExecuteMainLocks ==
    ASSUME TypeOK, Locks, NEW t \in Trxs, Well(t), ExecuteMain(t)
    PROVE  Locks'
<1> DEFINE e == Head(queue[t])
<1>1. TakesEffect(t, e) /\ Unblocked(t, e.stmt)
  BY DEF ExecuteMain
<1>2. \A u \in Trxs \ {t} : hold'[u] = hold[u] /\ gone'[u] = gone[u]
  BY <1>1, Effect
<1>3. mode[t] \in {"trx", "autocommit"} /\ \A u \in Trxs : hold[u] \in {"none", "gap", "rows"}
  BY DEF TypeOK
<1>4. CASE e.stmt \notin {"deleteMeta", "insertMeta"}
  <2>1. metaRows' = metaRows /\ hold'[t] = hold[t] /\ gone'[t] = gone[t]
    BY <1>1, <1>3, <1>4, Effect
  <2> QED
    BY <1>2, <2>1, LocksKept
<1>5. CASE e.stmt = "deleteMeta" /\ mode[t] = "trx"
  <2>1. /\ metaRows' = metaRows /\ gone'[t] = metaRows
        /\ hold'[t] = IF metaRows = {} THEN "gap" ELSE "rows"
    BY <1>1, <1>5, Effect
  <2>2. \A u \in Trxs \ {t} : hold[u] # "rows"
    BY <1>1, <1>5 DEF Unblocked
  <2>3. \A u \in Trxs \ {t} : hold[u] # "none" => metaRows = {}
    BY <1>3, <2>2 DEF Locks
  <2>4. \A u \in Trxs \ {t} : hold[u] # "none" => gone[u] = metaRows
    BY DEF Locks
  <2> QED
    BY <1>2, <1>3, <2>1, <2>2, <2>3, <2>4 DEF Locks
<1>6. CASE e.stmt = "insertMeta" /\ mode[t] = "trx"
  <2>1. metaRows' = metaRows /\ gone'[t] = gone[t] /\ hold'[t] = "rows"
    BY <1>1, <1>6, Effect
  <2>2. \A u \in Trxs \ {t} : hold[u] = "none"
    BY <1>1, <1>6 DEF Unblocked
  <2>3. hold[t] # "none"
    <3>1. /\ phase[t] = "running" => Running(args[t], script[t], queue[t])
          /\ phase[t] \in {"running", "rollingBack"} /\ args[t] \in Args /\ e.thread = 0
      <4>1. AtMain(t) /\ e.thread = 0
        BY DEF ExecuteMain, AtMain
      <4>2. /\ phase[t] \in {"running", "committing", "rollingBack"} /\ args[t] \in Args
            /\ phase[t] = "committing" => e.thread > 0
        BY <4>1, AtStatement
      <4>3. phase[t] # "committing"
        BY <4>1, <4>2
      <4> QED
        BY <4>1, <4>2, <4>3 DEF Well
    <3>2. phase[t] = "running"
      <4>1. ASSUME phase[t] = "rollingBack" PROVE FALSE
        <5>1. RollingBack(args[t], script[t], queue[t]) /\ e.stmt # "rollback"
          BY <1>6, <4>1 DEF Well
        <5>2. e.stmt \in Deletes
          BY <3>1, <5>1, KeepsRollingBack
        <5> QED
          BY <1>6, <5>2 DEF Deletes
      <4> QED
        BY <3>1, <4>1
    <3>3. Len(script[t]) = 1
      BY <1>6, <3>1, <3>2, MainAtHead
    <3>4. MetaInOrder(t)
      BY <1>6 DEF Well
    <3> QED
      BY <3>2, <3>3, <3>4 DEF MetaInOrder
  <2>4. gone[t] = metaRows
    BY <2>3 DEF Locks
  <2> QED
    BY <1>2, <2>1, <2>2, <2>4 DEF Locks
<1>7. CASE e.stmt = "deleteMeta" /\ mode[t] = "autocommit"
  <2>1. metaRows' = {} /\ hold'[t] = hold[t] /\ gone'[t] = gone[t]
    BY <1>1, <1>7, Effect
  <2>2. \A u \in Trxs \ {t} : hold[u] # "rows"
    BY <1>1, <1>7 DEF Unblocked
  <2>3. hold[t] = "none"
    BY <1>7 DEF Well
  <2>4. \A u \in Trxs : hold[u] # "none" => metaRows = {} /\ gone[u] = metaRows
    BY <1>3, <2>2, <2>3 DEF Locks
  <2> QED
    BY <1>2, <1>3, <2>1, <2>2, <2>3, <2>4 DEF Locks
<1>8. CASE e.stmt = "insertMeta" /\ mode[t] = "autocommit"
  <2>1. hold'[t] = hold[t]
    BY <1>1, <1>8, Effect
  <2>2. \A u \in Trxs \ {t} : hold[u] = "none"
    BY <1>1, <1>8 DEF Unblocked
  <2>3. hold[t] = "none"
    BY <1>8 DEF Well
  <2> QED
    BY <1>2, <2>1, <2>2, <2>3 DEF Locks
<1> QED
  BY <1>3, <1>4, <1>5, <1>6, <1>7, <1>8

(* A COMMIT leaves the transaction's entry as the only one.                *)
LEMMA CommitLeavesOne ==
    ASSUME TypeOK, Locks, NEW t \in Trxs, Well(t), At(t, "commit"), Committed(t), mode[t] = "trx"
    PROVE  metaRows' = {t} /\ \A u \in Trxs \ {t} : hold[u] = "none"
<1>1. queue[t] # <<>> /\ Head(queue[t]).stmt = "commit"
  BY DEF At, Main
<1>2. phase[t] = "committing"
  BY <1>1, PhaseAtEnd DEF Ends
<1>3. Main("insertMeta") \in pending[t] /\ hold[t] = "rows"
  BY <1>2 DEF Well, MetaInOrder
<1>4. gone[t] = metaRows /\ \A u \in Trxs \ {t} : hold[u] = "none"
  BY <1>3 DEF Locks
<1>5. metaRows' = (metaRows \ gone[t]) \cup {u \in {t} : Main("insertMeta") \in pending[t]}
  BY DEF Committed
<1> QED
  BY <1>3, <1>4, <1>5

LEMMA CommittedLocks ==
    ASSUME TypeOK, Locks, NEW t \in Trxs, Well(t), At(t, "commit"), Committed(t), Over(t)
    PROVE  Locks'
<1>1. /\ hold'[t] = "none"
      /\ \A u \in Trxs \ {t} : hold'[u] = hold[u] /\ gone'[u] = gone[u]
  BY OverLeaves
<1>2. CASE mode[t] = "trx"
  <2>1. \A u \in Trxs \ {t} : hold[u] = "none"
    BY <1>2, CommitLeavesOne
  <2> QED
    BY <1>1, <2>1 DEF Locks
<1>3. CASE mode[t] = "autocommit"
  <2>1. pending[t] = {} /\ gone[t] = {}
    BY <1>3 DEF Well
  <2>2. metaRows' = metaRows
    BY <2>1 DEF Committed
  <2> QED
    BY <1>1, <2>2, LocksKept
<1> QED
  BY <1>2, <1>3 DEF TypeOK

LEMMA MovesLocks ==
    ASSUME TypeOK, Locks, NEW t \in Trxs, Well(t), Moves(t)
    PROVE  Locks'
<1>1. ASSUME metaRows' = metaRows, gone' = gone, hold' = hold PROVE Locks'
  BY <1>1, LocksKept
<1>2. ASSUME Over(t), RolledBack(t) PROVE Locks'
  <2>1. metaRows' = metaRows
    BY <1>2 DEF RolledBack
  <2>2. hold'[t] = "none" /\ \A u \in Trxs \ {t} : hold'[u] = hold[u] /\ gone'[u] = gone[u]
    BY <1>2, OverLeaves
  <2> QED
    BY <2>1, <2>2, LocksKept
<1>3. CASE Begin(t) \/ FailMain(t) \/ FailBackground(t) \/ Close(t)
  BY <1>1, <1>3 DEF Begin, FailMain, FailBackground, Close, meta
<1>4. CASE ExecuteMain(t)
  BY <1>4, ExecuteMainLocks
<1>5. CASE ExecuteBackground(t)
  <2>1. AtBackground(t) /\ TakesEffect(t, Head(queue[t]))
    BY <1>5 DEF ExecuteBackground
  <2>2. Head(queue[t]).thread > 0
    BY <2>1 DEF AtBackground
  <2>3. Head(queue[t]).stmt \in {"update", "select", "sync"}
    BY <2>1, <2>2, AtStatement, BackgroundIs
  <2>4. mode[t] \in {"trx", "autocommit"}
    BY DEF TypeOK
  <2>5. /\ metaRows' = metaRows /\ hold'[t] = hold[t] /\ gone'[t] = gone[t]
        /\ \A u \in Trxs \ {t} : hold'[u] = hold[u] /\ gone'[u] = gone[u]
    BY <2>1, <2>3, <2>4, Effect
  <2> QED
    BY <2>5, LocksKept
<1>6. CASE Commit(t)
  BY <1>6, CommittedLocks DEF Commit
<1>7. CASE Rollback(t)
  BY <1>2, <1>7 DEF Rollback
<1>8. CASE Deadlock(t)
  BY <1>2, <1>8 DEF Deadlock
<1>9. CASE ConnectionLost(t)
  BY <1>2, <1>9, CommittedLocks DEF ConnectionLost
<1> QED
  BY <1>3, <1>4, <1>5, <1>6, <1>7, <1>8, <1>9 DEF Moves, Answer

-----------------------------------------------------------------------------
(* The invariant                                                           *)

LEMMA Initially == Init => Inv
<1> SUFFICES ASSUME Init PROVE Inv
  OBVIOUS
<1>1. TypeOK
  BY DEF Init, TypeOK
<1>2. Locks
  BY DEF Init, Locks
<1>3. ASSUME NEW t \in Trxs PROVE Well(t)
  BY NoArgsAssumption DEF Init, Well, MetaInOrder, Settled, Heard
<1> QED
  BY <1>1, <1>2, <1>3 DEF Inv

LEMMA Inductive == Inv /\ [Next]_vars => Inv'
<1> SUFFICES ASSUME Inv, [Next]_vars PROVE Inv'
  OBVIOUS
<1>1. TypeOK /\ Locks /\ \A t \in Trxs : Well(t)
  BY DEF Inv
<1>2. ASSUME NEW t \in Trxs, Moves(t) PROVE Inv'
  <2>1. TypeOK'
    BY <1>1, <1>2, TypeKept
  <2>2. Locks'
    BY <1>1, <1>2, MovesLocks
  <2>3. Well(t)'
    BY <1>1, <1>2, MovesWell
  <2>4. ASSUME NEW u \in Trxs \ {t} PROVE Well(u)'
    BY <1>1, <1>2, OthersUnchanged, OthersStayWell
  <2>5. \A u \in Trxs : Well(u)'
    BY <2>3, <2>4
  <2> QED
    BY <2>1, <2>2, <2>5 DEF Inv
<1>3. CASE UNCHANGED vars
  <2>1. TypeOK' /\ Locks'
    BY <1>1, <1>3 DEF vars, meta, TypeOK, Locks
  <2>2. ASSUME NEW t \in Trxs PROVE Well(t)'
    BY <1>1, <1>3, OthersStayWell DEF vars, meta
  <2>3. \A t \in Trxs : Well(t)'
    BY <2>2
  <2> QED
    BY <2>1, <2>3 DEF Inv
<1> QED
  BY <1>2, <1>3 DEF Next, Moves

(* Every variable keeps its type: among others, no statement goes to a     *)
(* connection that its thread does not have.                               *)
THEOREM TypeCorrect == Spec => []TypeOK
<1>1. Inv => TypeOK
  BY DEF Inv
<1> QED
  BY <1>1, Initially, Inductive, PTL DEF Spec

(* A tag mutation that answers without an error has written the tags, the  *)
(* items it touched, their shadow rows and the users_meta entry, unless a  *)
(* statement that nobody awaits has failed or the server has rolled back   *)
(* by itself.                                                              *)
THEOREM OkMeansAllHeard == Spec => []OkMeansAllIfHeard
<1>1. Inv => OkMeansAllIfHeard
  <2> SUFFICES ASSUME Inv, NEW t \in Trxs, Heard(t), answer[t] = "ok"
               PROVE  durable[t] = AllWrites(args[t])
    BY DEF OkMeansAllIfHeard
  <2>1. Well(t)
    BY DEF Inv
  <2>2. phase[t] = "done"
    BY <2>1 DEF Well
  <2> QED
    BY <2>1, <2>2 DEF Well, Promised
<1> QED
  BY <1>1, Initially, Inductive, PTL DEF Spec

(* In the same case one that answers with an error has written nothing,    *)
(* or everything when the connection was lost during the COMMIT.           *)
THEOREM ErrorsAreAtomic == Spec => []ErrorMeansNoneOrAll
<1>1. Inv => ErrorMeansNoneOrAll
  <2> SUFFICES ASSUME Inv, NEW t \in Trxs, Heard(t), answer[t] = "error"
               PROVE  durable[t] \in {{}, AllWrites(args[t])}
    BY DEF ErrorMeansNoneOrAll
  <2>1. Well(t)
    BY DEF Inv
  <2>2. phase[t] = "done"
    BY <2>1 DEF Well
  <2> QED
    BY <2>1, <2>2 DEF Well, Promised
<1> QED
  BY <1>1, Initially, Inductive, PTL DEF Spec

(* No background thread of updateListItemMany has a statement left when    *)
(* the main thread sends the COMMIT, whatever the number of batches.       *)
THEOREM BackgroundStaysAhead == Spec => []NoLateStatement
<1>1. Inv => NoLateStatement
  BY DEF Inv, TypeOK, Well, NoLateStatement
<1> QED
  BY <1>1, Initially, Inductive, PTL DEF Spec

(* A COMMIT leaves the entry of its transaction as the only one of the     *)
(* user in users_meta, whatever the others did since it deleted the old    *)
(* ones: the locks of deleteMeta and insertMeta keep them out.             *)
THEOREM OneMetaEntry == Spec => CommitLeavesOneMetaEntry
<1> DEFINE Leaves == \A t \in Trxs : mode[t] = "trx" /\ answer[t] = "none" /\ answer'[t] = "ok"
                                        => metaRows' = {t}
<1>1. ASSUME Inv, [Next]_vars PROVE [Leaves]_vars
  <2>1. TypeOK /\ Locks /\ \A t \in Trxs : Well(t)
    BY <1>1 DEF Inv
  <2>2. ASSUME NEW m \in Trxs, Moves(m), NEW t \in Trxs,
               mode[t] = "trx", answer[t] = "none", answer'[t] = "ok"
        PROVE  metaRows' = {t}
    <3>1. t = m
      BY <2>1, <2>2, OthersUnchanged
    <3>2. ASSUME ~ Commit(m) PROVE FALSE
      <4>1. DOMAIN answer = Trxs
        BY <2>1 DEF TypeOK
      <4>2. answer' = answer \/ answer' = [answer EXCEPT ![m] = "error"] \/ answer' = [answer EXCEPT ![m] = "none"]
        BY <2>2, <3>2 DEF Moves, Answer, Begin, ExecuteMain, ExecuteBackground, Rollback, FailMain,
             FailBackground, Deadlock, ConnectionLost, Close, Finished
      <4> QED
        BY <2>2, <3>1, <4>1, <4>2
    <3> QED
      BY <2>1, <2>2, <3>1, <3>2, CommitLeavesOne DEF Commit
  <2> QED
    BY <1>1, <2>2 DEF Next, Moves
<1>2. Inv /\ [Next]_vars => [Leaves]_vars
  BY <1>1
<1> QED
  BY <1>2, Initially, Inductive, PTL DEF Spec, CommitLeavesOneMetaEntry
=============================================================================
