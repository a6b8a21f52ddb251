------------------------- MODULE TagMutations_proofs -------------------------
(***************************************************************************)
(* What holds of TagMutations for any saves, names, inputs and number of   *)
(* overlapping mutations.  The checks, reads and lists of a mutation are   *)
(* not in its transaction; the invariant says what of them still holds     *)
(* when the transaction comes.                                             *)
(***************************************************************************)
EXTENDS TagMutations, TLAPS

-----------------------------------------------------------------------------
(* The invariant *)

(* The saves of an input whose tags its mutation may change and announce *)
Touched(i) ==
    CASE i.op = "untag" -> DOMAIN i.removes
      [] i.op = "clear" -> DOMAIN i.adds
      [] i.op \notin {"untag", "clear"} -> SavesOf(Creates(i))

(* What the checks of a request have made sure of, until its transaction *)
Checked(r) ==
    /\ pc[r] \in {"read", "list", "write"} => ~Refused(input[r])
    /\ pc[r] \in {"list", "write"} /\ input[r].op = "rename" => input[r].name.word # Blank
    /\ pc[r] = "write" /\ input[r].op = "replaceOne" => DOMAIN input[r].adds \subseteq rows
    /\ pc[r] = "write" /\ input[r].op = "batch" =>
           SavesOf(Deletes(input[r]) \cup Creates(input[r])) \subseteq rows

(* The changes of a request that it still has to announce *)
Unannounced(r) ==
    /\ pc[r] # "done" => answer[r] = "none"
    /\ pc[r] \notin {"fetch", "done"} => changed[r] = {}
    /\ pc[r] = "fetch" /\ input[r].op \in Announcing =>
           changed[r] \subseteq Touched(input[r]) \cap rows
    /\ answer[r] \in {"notFound", "userError"} => changed[r] = {}
    /\ answer[r] = "ok" /\ input[r].op \in Announcing => changed[r] = {}

(* A list that was not overtaken names every save that has the tag *)
ListStands(r) ==
    r \in Listed /\ r \notin overtaken => SavesWith(tags, input[r].tag) \subseteq seen[r]

RequestInv(r) == Checked(r) /\ Unannounced(r) /\ ListStands(r)

IInv == TypeOK /\ StoredNamesSanitized /\ \A r \in Requests : RequestInv(r)

-----------------------------------------------------------------------------
(* Lemmas about tables and inputs *)

(* A set of associations, each a save with a name *)
IsTable(T) == \A p \in T : p[1] \in Saves /\ p[2] \in Names /\ p = <<p[1], p[2]>>

(* What is stored is a name in small letters, with its quotes escaped. *)
LEMMA Sanitized ==
    ASSUME NEW n \in Names
    PROVE  /\ sanitizeTagName(n) \in Names
           /\ ~sanitizeTagName(n).capital
           /\ sanitizeTagName(n).word = n.word
           /\ sanitizeTagName(n).quoted => sanitizeTagName(n).escapes > 0
<1>1. /\ sanitizeTagName(n).word = n.word
      /\ sanitizeTagName(n).quoted = n.quoted
  BY DEF sanitizeTagName, Names
<1>2. sanitizeTagName(n).capital = FALSE
  BY DEF sanitizeTagName, Names
<1>3. sanitizeTagName(n).escapes = IF n.quoted THEN n.escapes + 1 ELSE n.escapes
  BY DEF sanitizeTagName, Names
<1>4. n.escapes \in Nat
  BY DEF Names
<1>5. sanitizeTagName(n) \in Names
  <2>1. \A e \in Nat : [n EXCEPT !.capital = FALSE, !.escapes = e] \in Names
    BY DEF Names
  <2>2. (IF n.quoted THEN n.escapes + 1 ELSE n.escapes) \in Nat
    BY <1>4
  <2> QED BY <2>1, <2>2 DEF sanitizeTagName
<1> QED BY <1>1, <1>2, <1>3, <1>4, <1>5

(* The pairs of an input, one for each name of each save. *)
LEMMA PairsOf ==
    ASSUME NEW f, NEW p
    PROVE  p \in Pairs(f) <=> \E s \in DOMAIN f : \E n \in f[s] : p = <<s, n>>
BY DEF Pairs

(* What an input asks to remove and to add are associations. *)
LEMMA InputTables ==
    ASSUME NEW i, IsInput(i)
    PROVE  /\ IsTable(Pairs(i.adds)) /\ IsTable(Deletes(i)) /\ IsTable(Creates(i))
           /\ \A p \in Creates(i) : ~p[2].capital /\ (p[2].quoted => p[2].escapes > 0)
           /\ ~HasBlank(i) => \A p \in Creates(i) : p[2].word # Blank
<1>1. ASSUME NEW f, IsTagList(f) PROVE IsTable(Pairs(f))
  BY <1>1, PairsOf DEF IsTagList, IsTable
<1>2. IsTagList(i.adds) /\ IsTagList(i.removes)
  BY DEF IsInput
<1>3. IsTable(Pairs(i.adds)) /\ IsTable(Deletes(i))
  BY <1>1, <1>2 DEF Deletes
<1>4. ASSUME NEW p \in Creates(i)
      PROVE  \E q \in Pairs(i.adds) : p = <<q[1], sanitizeTagName(q[2])>> /\ q[1] \in Saves /\ q[2] \in Names
  BY <1>3 DEF Creates, IsTable
<1>5. IsTable(Creates(i)) /\ \A p \in Creates(i) : ~p[2].capital /\ (p[2].quoted => p[2].escapes > 0)
  BY <1>4, Sanitized DEF IsTable
<1>6. ASSUME ~HasBlank(i), NEW p \in Creates(i) PROVE p[2].word # Blank
  BY <1>4, <1>6, Sanitized DEF HasBlank
<1> QED BY <1>3, <1>5, <1>6

(* Every request has a well-formed input. *)
LEMMA InputTyped ==
    ASSUME TypeOK, NEW r \in Requests
    PROVE  IsInput(input[r])
<1>1. IsInput(NoInput)
  BY DEF IsInput, NoInput, NoLists, NoTag, IsTagList, Names, Ops
<1> QED BY <1>1, InputsAssumption DEF TypeOK

(* The operations on one save know which one. *)
LEMMA TheSaveIs ==
    ASSUME TypeOK, NEW r \in Requests, input[r].op \in {"createByUrl", "replaceOne", "clear"}
    PROVE  TheSave(r) \in Saves /\ DOMAIN input[r].adds = {TheSave(r)}
<1>1. \E s \in Saves : DOMAIN input[r].adds = {s}
  BY InputTyped DEF IsInput
<1> QED BY <1>1 DEF TheSave

(* The saves of the pairs of an input *)
LEMMA SavesOfPairs ==
    ASSUME NEW f
    PROVE  /\ SavesOf(Pairs(f)) \subseteq DOMAIN f
           /\ (\A s \in DOMAIN f : f[s] # {}) => SavesOf(Pairs(f)) = DOMAIN f
<1>1. \A p : p \in Pairs(f) <=> \E s \in DOMAIN f : \E n \in f[s] : p = <<s, n>>
  BY PairsOf
<1>2. SavesOf(Pairs(f)) \subseteq DOMAIN f
  BY <1>1 DEF SavesOf
<1>3. ASSUME NEW s \in DOMAIN f, f[s] # {} PROVE s \in SavesOf(Pairs(f))
  <2>1. PICK n \in f[s] : TRUE
    BY <1>3
  <2>2. <<s, n>> \in Pairs(f) /\ <<s, n>>[1] = s
    BY <1>1, <2>1
  <2> QED BY <2>2 DEF SavesOf
<1> QED BY <1>2, <1>3

(* Sanitizing changes the name of an association and never its save. *)
LEMMA SavesOfCreates ==
    ASSUME NEW i, IsInput(i)
    PROVE  SavesOf(Creates(i)) = SavesOf(Pairs(i.adds))
<1>1. \A p \in Pairs(i.adds) : p = <<p[1], p[2]>>
  BY InputTables DEF IsTable
<1>2. \A p \in Pairs(i.adds) : <<p[1], sanitizeTagName(p[2])>>[1] = p[1]
  OBVIOUS
<1>3. SavesOf(Creates(i)) \subseteq SavesOf(Pairs(i.adds))
  <2> SUFFICES ASSUME NEW q \in Creates(i) PROVE q[1] \in SavesOf(Pairs(i.adds))
    BY DEF SavesOf
  <2>1. PICK p \in Pairs(i.adds) : q = <<p[1], sanitizeTagName(p[2])>>
    BY DEF Creates
  <2> QED BY <2>1, <1>2 DEF SavesOf
<1>4. SavesOf(Pairs(i.adds)) \subseteq SavesOf(Creates(i))
  <2> SUFFICES ASSUME NEW p \in Pairs(i.adds) PROVE p[1] \in SavesOf(Creates(i))
    BY DEF SavesOf
  <2>1. <<p[1], sanitizeTagName(p[2])>> \in Creates(i)
    BY DEF Creates
  <2> QED BY <2>1, <1>2 DEF SavesOf
<1> QED BY <1>3, <1>4

(* Every UPDATE, DELETE and INSERT of a table of associations gives one. *)
LEMMA TablesTyped ==
    ASSUME NEW T, IsTable(T), NEW n, NEW S, NEW m \in Names
    PROVE  /\ IsTable(deleteTagsByName(T, n))
           /\ IsTable(deleteTagsByItemId(T, S))
           /\ IsTable(renameIgnore(T, n, m))
           /\ \A U : IsTable(U) => IsTable(T \cup U) /\ IsTable(T \ U)
<1>1. IsTable(deleteTagsByName(T, n)) /\ IsTable(deleteTagsByItemId(T, S))
  BY DEF IsTable, deleteTagsByName, deleteTagsByItemId
<1>2. IsTable(renameIgnore(T, n, m))
  <2> SUFFICES ASSUME NEW q \in renameIgnore(T, n, m)
               PROVE  q[1] \in Saves /\ q[2] \in Names /\ q = <<q[1], q[2]>>
    BY DEF IsTable
  <2>1. PICK p \in T : q = IF p[2] = n /\ <<p[1], m>> \notin T THEN <<p[1], m>> ELSE p
    BY DEF renameIgnore
  <2>2. p[1] \in Saves /\ p[2] \in Names /\ p = <<p[1], p[2]>>
    BY DEF IsTable
  <2> QED BY <2>1, <2>2
<1>3. \A U : IsTable(U) => IsTable(T \cup U) /\ IsTable(T \ U)
  BY DEF IsTable
<1> QED BY <1>1, <1>2, <1>3

-----------------------------------------------------------------------------
(* The invariant holds initially and in every step *)

(* The requests other than the one that moves keep what they have made     *)
(* sure of, since rows of list are never removed, and their lists, unless  *)
(* they are overtaken.                                                     *)
LEMMA OthersStand ==
    ASSUME NEW r \in Requests, RequestInv(r),
           pc'[r] = pc[r], input'[r] = input[r], seen'[r] = seen[r],
           answer'[r] = answer[r], changed'[r] = changed[r],
           rows \subseteq rows',
           \/ r \in Listed => r \in overtaken'
           \/ tags' \subseteq tags /\ (r \in overtaken => r \in overtaken')
    PROVE  RequestInv(r)'
<1>1. Checked(r)'
  BY DEF RequestInv, Checked
<1>2. Unannounced(r)'
  BY DEF RequestInv, Unannounced
<1>3. r \in Listed' <=> r \in Listed
  BY DEF Listed
<1>4. ASSUME tags' \subseteq tags PROVE SavesWith(tags', input[r].tag) \subseteq SavesWith(tags, input[r].tag)
  BY <1>4 DEF SavesWith, SavesOf
<1>5. ListStands(r)'
  BY <1>3, <1>4 DEF RequestInv, ListStands
<1> QED BY <1>1, <1>2, <1>5 DEF RequestInv

(* Nothing is stored, checked or listed at first. *)
LEMMA InitInv == Init => IInv
<1> SUFFICES ASSUME Init PROVE IInv
  OBVIOUS
<1>1. TypeOK
  BY DEF Init, TypeOK
<1>2. ASSUME NEW r \in Requests PROVE RequestInv(r)
  BY DEF Init, RequestInv, Checked, Unannounced, ListStands, Listed
<1> QED BY <1>1, <1>2 DEF Init, IInv, StoredNamesSanitized

(* A request that arrives goes on only if it is not refused. *)
LEMMA BeginInv ==
    ASSUME IInv, NEW r \in Requests, Begin(r)
    PROVE  IInv'
<1>1. PICK i \in Inputs[r] :
         /\ input' = [input EXCEPT ![r] = i]
         /\ \/ /\ i.op = "createByUrl"
               /\ pc' = [pc EXCEPT ![r] = "lookup"] /\ answer' = answer
            \/ /\ Refused(i)
               /\ pc' = [pc EXCEPT ![r] = "done"] /\ answer' = [answer EXCEPT ![r] = "userError"]
            \/ /\ ~Refused(i) /\ i.op # "createByUrl" /\ i.op \in Reads
               /\ pc' = [pc EXCEPT ![r] = "read"] /\ answer' = answer
            \/ /\ ~Refused(i) /\ i.op # "createByUrl" /\ i.op \notin Reads
               /\ pc' = [pc EXCEPT ![r] = "write"] /\ answer' = answer
  BY DEF Begin, GoesTo, Answers
<1>2. /\ pc[r] = "idle" /\ marked' = {}
      /\ UNCHANGED <<rows, tags, seen, changed, overtaken>>
  BY DEF Begin
<1>3. TypeOK /\ StoredNamesSanitized /\ \A o \in Requests : RequestInv(o)
  BY DEF IInv
<1>4. TypeOK'
  BY <1>1, <1>2, <1>3 DEF TypeOK
<1>5. ASSUME NEW o \in Requests, o # r PROVE RequestInv(o)'
  BY <1>1, <1>2, <1>3, <1>5, OthersStand DEF TypeOK
<1>6. RequestInv(r)'
  <2>1. input'[r] = i
    BY <1>1, <1>3 DEF TypeOK
  <2>2. changed'[r] = {} /\ answer[r] = "none"
    BY <1>2, <1>3 DEF RequestInv, Unannounced
  <2>3. Checked(r)'
    BY <1>1, <1>3, <2>1 DEF TypeOK, Checked, Reads
  <2>4. Unannounced(r)'
    BY <1>1, <1>3, <2>1, <2>2 DEF TypeOK, Unannounced
  <2>5. ListStands(r)'
    BY <1>1, <1>3, <2>1 DEF TypeOK, ListStands, Listed, Reads
  <2> QED BY <2>3, <2>4, <2>5 DEF RequestInv
<1> QED BY <1>2, <1>3, <1>4, <1>5, <1>6 DEF IInv, StoredNamesSanitized

(* A step before the transaction: what it makes sure of is left to show. *)
LEMMA ReadStands ==
    ASSUME IInv, NEW r \in Requests, OnlyReads, pc[r] \in {"lookup", "read", "list"},
           NEW place \in {"list", "write", "done"}, GoesTo(r, place),
           NEW a \in {"ok", "notFound", "userError"},
           answer' = IF place = "done" THEN [answer EXCEPT ![r] = a] ELSE answer,
           NEW S, seen' = seen \/ seen' = [seen EXCEPT ![r] = S],
           Checked(r)', ListStands(r)'
    PROVE  IInv'
<1>1. TypeOK /\ StoredNamesSanitized /\ \A o \in Requests : RequestInv(o)
  BY DEF IInv
<1>2. /\ pc' = [pc EXCEPT ![r] = place] /\ marked' = {}
      /\ UNCHANGED <<rows, tags, input, changed, overtaken>>
  BY DEF OnlyReads, GoesTo
<1>3. TypeOK'
  BY <1>1, <1>2 DEF TypeOK
<1>4. ASSUME NEW o \in Requests, o # r PROVE RequestInv(o)'
  BY <1>1, <1>2, <1>4, OthersStand DEF TypeOK
<1>5. changed[r] = {} /\ answer[r] = "none"
  BY <1>1 DEF RequestInv, Unannounced
<1>6. Unannounced(r)'
  BY <1>1, <1>2, <1>5 DEF TypeOK, Unannounced
<1> QED BY <1>1, <1>2, <1>3, <1>4, <1>6 DEF IInv, StoredNamesSanitized, RequestInv

(* The URL is looked up, and only then its tags are checked. *)
LEMMA LookupInv ==
    ASSUME IInv, NEW r \in Requests, Lookup(r)
    PROVE  IInv'
<1>1. TypeOK /\ pc[r] = "lookup" /\ input[r].op = "createByUrl" /\ OnlyReads /\ seen' = seen
  BY DEF IInv, Lookup, At
<1>2. input' = input /\ rows' = rows
  BY <1>1 DEF OnlyReads
<1>3. CASE \E a \in {"notFound", "userError"} : Answers(r, a)
  <2>1. PICK a \in {"notFound", "userError"} : Answers(r, a)
    BY <1>3
  <2>2. GoesTo(r, "done") /\ pc'[r] = "done" /\ answer' = [answer EXCEPT ![r] = a]
    BY <1>1, <2>1 DEF Answers, GoesTo, TypeOK
  <2>3. Checked(r)' /\ ListStands(r)'
    BY <2>2 DEF Checked, ListStands, Listed
  <2> QED BY <1>1, <2>2, <2>3, ReadStands
<1>4. CASE ~Refused(input[r]) /\ GoesTo(r, "write") /\ UNCHANGED answer
  <2>1. pc'[r] = "write"
    BY <1>1, <1>4 DEF GoesTo, TypeOK
  <2>2. Checked(r)' /\ ListStands(r)'
    BY <1>1, <1>2, <1>4, <2>1 DEF Checked, ListStands, Listed
  <2> QED BY <1>1, <1>4, <2>2, ReadStands
<1> QED BY <1>3, <1>4 DEF Lookup

(* The lists are read when nothing has overtaken them; the checks pass or  *)
(* answer the request.                                                     *)
LEMMA ReadInv ==
    ASSUME IInv, NEW r \in Requests,
           \/ ReadAffected(r) \/ ReadOldTag(r) \/ ReadAssociations(r)
           \/ ReadExists(r) \/ ReadCleared(r) \/ ReadMissing(r)
    PROVE  IInv'
<1>1. /\ TypeOK /\ pc[r] \in {"read", "list"} /\ OnlyReads /\ Checked(r)
      /\ input[r].op \in Reads
      /\ seen' = seen \/ \E S : seen' = [seen EXCEPT ![r] = S]
  BY DEF IInv, RequestInv, At, Reads, ReadAffected, ReadOldTag, ReadAssociations, ReadExists,
         ReadCleared, ReadMissing
<1>2. /\ input' = input /\ rows' = rows /\ tags' = tags
  BY <1>1 DEF OnlyReads
<1>3. CASE \E a \in {"ok", "notFound", "userError"} : Answers(r, a)
  <2>1. PICK a \in {"ok", "notFound", "userError"} : Answers(r, a)
    BY <1>3
  <2>2. GoesTo(r, "done") /\ pc'[r] = "done" /\ answer' = [answer EXCEPT ![r] = a]
    BY <1>1, <2>1 DEF Answers, GoesTo, TypeOK
  <2>3. Checked(r)' /\ ListStands(r)'
    BY <2>2 DEF Checked, ListStands, Listed
  <2> QED BY <1>1, <2>2, <2>3, ReadStands
<1>4. CASE GoesTo(r, "list") /\ UNCHANGED answer
  <2>1. pc'[r] = "list"
    BY <1>1, <1>4 DEF GoesTo, TypeOK
  <2>2. input[r].op = "rename" => input[r].name.word # Blank
    BY <1>1, <1>4, <2>1 DEF ReadAffected, ReadOldTag, ReadAssociations, ReadExists,
       ReadCleared, ReadMissing, At, GoesTo, Answers, TypeOK
  <2>3. Checked(r)' /\ ListStands(r)'
    BY <1>1, <1>2, <2>1, <2>2 DEF Checked, ListStands, Listed
  <2> QED BY <1>1, <1>4, <2>3, ReadStands
<1>5. CASE GoesTo(r, "write") /\ UNCHANGED answer
  <2>1. pc'[r] = "write"
    BY <1>1, <1>5 DEF GoesTo, TypeOK
  <2>2. /\ input[r].op = "rename" => ReadAssociations(r)
        /\ input[r].op = "deleteTag" => ReadAffected(r)
        /\ input[r].op = "replaceOne" => ReadExists(r)
        /\ input[r].op = "batch" => ReadMissing(r)
    BY <1>1, <2>1 DEF ReadAffected, ReadOldTag, ReadAssociations, ReadExists,
       ReadCleared, ReadMissing, At, GoesTo, Answers, TypeOK
  <2>3. input[r].op = "replaceOne" => DOMAIN input[r].adds \subseteq rows
    <3> SUFFICES ASSUME input[r].op = "replaceOne" PROVE DOMAIN input[r].adds \subseteq rows
      OBVIOUS
    <3>1. TheSave(r) \in rows
      BY <1>1, <2>1, <2>2 DEF ReadExists, Answers, GoesTo, TypeOK
    <3> QED BY <1>1, <3>1, TheSaveIs
  <2>4. input[r].op = "batch" => SavesOf(Deletes(input[r]) \cup Creates(input[r])) \subseteq rows
    BY <1>1, <2>1, <2>2 DEF ReadMissing, Missing, Answers, GoesTo, TypeOK
  <2>5. input[r].op = "rename" => pc[r] = "list"
    BY <2>2 DEF ReadAssociations, At
  <2>6. Checked(r)'
    BY <1>1, <1>2, <2>1, <2>3, <2>4, <2>5 DEF Checked
  <2>7. input[r].op \in {"deleteTag", "rename"} => seen'[r] = SavesWith(tags, input[r].tag)
    BY <1>1, <2>2 DEF ReadAssociations, ReadAffected, TypeOK
  <2>8. ListStands(r)'
    BY <1>2, <2>7 DEF ListStands, Listed, SavesWith, SavesOf
  <2> QED BY <1>1, <1>5, <2>6, <2>8, ReadStands
<1>6. \/ \E a \in {"ok", "notFound", "userError"} : Answers(r, a)
      \/ GoesTo(r, "list") /\ UNCHANGED answer
      \/ GoesTo(r, "write") /\ UNCHANGED answer
  BY DEF ReadAffected, ReadOldTag, ReadAssociations, ReadExists, ReadCleared, ReadMissing
<1> QED BY <1>3, <1>4, <1>5, <1>6

-----------------------------------------------------------------------------
(* The transactions *)

(* The saves whose tags a transaction may change *)
Affected(r) ==
    LET i == input[r]
    IN CASE i.op = "untag" -> SavesOf(Deletes(i))
         [] i.op = "batch" -> SavesOf(Deletes(i) \cup Creates(i))
         [] i.op \in {"deleteTag", "rename"} -> SavesWith(tags, i.tag)
         [] i.op \notin {"untag", "batch", "deleteTag", "rename"} -> Touched(i)

(* The associations in one of two tables that are not in the other *)
Difference(T, U) == (T \ U) \cup (U \ T)

Stored(T) ==
    IsTable(T) /\ \A p \in T : ~p[2].capital /\ p[2].word # Blank /\ (p[2].quoted => p[2].escapes > 0)

(* What all transactions have in common, with the items that one marks *)
Effect(r, itemIds) ==
    /\ Writes(r, tags', itemIds, IF input[r].op = "deleteTag" THEN "done" ELSE "fetch")
    /\ Stored(tags')
    /\ \A p \in Difference(tags, tags') : p[1] \in Affected(r)
    /\ input[r].op = "batch" => itemIds = SavesOf(Creates(input[r]))
    /\ input[r].op # "batch" /\ r \notin overtaken => Affected(r) \subseteq itemIds

(* updateSavedItemRemoveTags fails on a save that does not exist *)
ClearRefused(r) ==
    /\ Answers(r, "error") /\ marked' = {}
    /\ UNCHANGED <<rows, tags, input, seen, changed, overtaken>>

(* What is stored is stored as the invariant says. *)
LEMMA StoredTags ==
    ASSUME IInv
    PROVE  Stored(tags)
BY DEF IInv, TypeOK, IsTable, StoredNamesSanitized, Stored

(* A table of which rows are removed, and to which sanitized names are     *)
(* added, is as well formed as before.                                     *)
LEMMA StoredSubset ==
    ASSUME NEW T, Stored(T), NEW U, \A p \in U : p \in T
    PROVE  Stored(U)
BY DEF Stored, IsTable

(* Adding the creates of an input with no blank name keeps it well formed. *)
LEMMA StoredCreates ==
    ASSUME NEW T, Stored(T), NEW i, IsInput(i), ~HasBlank(i)
    PROVE  Stored(T \cup Creates(i))
BY InputTables DEF Stored, IsTable

(* The save of an association is one of the saves of its table. *)
LEMMA SavesOfMember ==
    ASSUME NEW T, NEW p \in T
    PROVE  p[1] \in SavesOf(T)
BY DEF SavesOf

(* The saves that are given tags are the saves of the new associations. *)
LEMMA CreateEffect ==
    ASSUME IInv, NEW r \in Requests, WriteCreate(r)
    PROVE  Effect(r, SavesOf(Creates(input[r])))
<1> DEFINE i == input[r]
<1>1. /\ pc[r] = "write" /\ i.op \in {"create", "createByUrl"}
      /\ Writes(r, tags \cup Creates(i), SavesOf(Creates(i)), "fetch")
  BY DEF WriteCreate
<1>2. tags' = tags \cup Creates(i) /\ Stored(tags) /\ IsInput(i)
  BY <1>1, StoredTags, InputTyped DEF Writes, IInv
<1>3. ~HasBlank(i)
  BY <1>1 DEF IInv, RequestInv, Checked, Refused, RefusedAdds
<1>4. Stored(tags')
  BY <1>2, <1>3, StoredCreates
<1>5. Affected(r) = SavesOf(Creates(i))
  BY <1>1 DEF Affected, Touched
<1>6. \A p \in Difference(tags, tags') : p[1] \in Affected(r)
  BY <1>2, <1>5, SavesOfMember DEF Difference
<1> QED BY <1>1, <1>2, <1>4, <1>5, <1>6 DEF Effect

(* The tags that are removed from saves are the tags of those saves. *)
LEMMA UntagEffect ==
    ASSUME IInv, NEW r \in Requests, WriteUntag(r)
    PROVE  Effect(r, SavesOf(Deletes(input[r])))
<1> DEFINE i == input[r]
<1>1. /\ pc[r] = "write" /\ i.op = "untag"
      /\ Writes(r, tags \ Deletes(i), SavesOf(Deletes(i)), "fetch")
  BY DEF WriteUntag, At
<1>2. tags' = tags \ Deletes(i) /\ Stored(tags)
  BY <1>1, StoredTags DEF Writes
<1>3. Stored(tags')
  BY <1>2, StoredSubset
<1>4. Affected(r) = SavesOf(Deletes(i))
  BY <1>1 DEF Affected
<1>5. \A p \in Difference(tags, tags') : p[1] \in Affected(r)
  BY <1>2, <1>4, SavesOfMember DEF Difference
<1> QED BY <1>1, <1>2, <1>3, <1>4, <1>5 DEF Effect

(* The saves with a tag, in terms of its associations *)
LEMMA SavesWithMember ==
    ASSUME NEW T, NEW p \in T
    PROVE  p[1] \in SavesWith(T, p[2])
BY DEF SavesWith, SavesOf

(* A list that stands has every save that had the tag. *)
LEMMA DeleteTagEffect ==
    ASSUME IInv, NEW r \in Requests, WriteDeleteTag(r)
    PROVE  Effect(r, seen[r])
<1> DEFINE i == input[r]
<1>1. /\ pc[r] = "write" /\ i.op = "deleteTag"
      /\ Writes(r, deleteTagsByName(tags, i.tag), seen[r], "done")
  BY DEF WriteDeleteTag, At
<1>2. tags' = {p \in tags : p[2] # i.tag} /\ Stored(tags)
  BY <1>1, StoredTags DEF Writes, deleteTagsByName
<1>3. Stored(tags')
  BY <1>2, StoredSubset
<1>4. Affected(r) = SavesWith(tags, i.tag)
  BY <1>1 DEF Affected
<1>5. \A p \in Difference(tags, tags') : p[1] \in Affected(r)
  BY <1>2, <1>4, SavesWithMember DEF Difference
<1>6. r \notin overtaken => Affected(r) \subseteq seen[r]
  BY <1>1, <1>4 DEF IInv, RequestInv, ListStands, Listed
<1>7. Writes(r, tags', seen[r], "done")
  BY <1>1, <1>2 DEF deleteTagsByName
<1> QED BY <1>1, <1>3, <1>5, <1>6, <1>7 DEF Effect

(* The associations after a rename: those of other tags, and the new ones *)
LEMMA RenamedTags ==
    ASSUME NEW T, IsTable(T), NEW old, NEW new, NEW q \in deleteTagsByName(renameIgnore(T, old, new), old)
    PROVE  \/ q \in T /\ q[2] # old
           \/ \E p \in T : p[2] = old /\ q = <<p[1], new>> /\ q[1] = p[1] /\ q[2] = new
<1>1. q \in renameIgnore(T, old, new) /\ q[2] # old
  BY DEF deleteTagsByName
<1>2. PICK p \in T : q = IF p[2] = old /\ <<p[1], new>> \notin T THEN <<p[1], new>> ELSE p
  BY <1>1 DEF renameIgnore
<1>3. CASE p[2] = old /\ <<p[1], new>> \notin T
  BY <1>2, <1>3
<1>4. CASE ~(p[2] = old /\ <<p[1], new>> \notin T)
  BY <1>1, <1>2, <1>4
<1> QED BY <1>3, <1>4

(* A tag is renamed on the saves that have it, and on no other. *)
LEMMA RenameEffect ==
    ASSUME IInv, NEW r \in Requests, WriteRename(r)
    PROVE  Effect(r, seen[r])
<1> DEFINE i   == input[r]
           new == sanitizeTagName(i.name)
           T   == deleteTagsByName(renameIgnore(tags, i.tag, new), i.tag)
<1>1. pc[r] = "write" /\ i.op = "rename" /\ Writes(r, T, seen[r], "fetch")
  BY DEF WriteRename, At
<1>2. tags' = T /\ Stored(tags) /\ IsTable(tags)
  BY <1>1, StoredTags DEF Writes, Stored
<1>3. i.name \in Names /\ i.name.word # Blank
  BY <1>1, InputTyped DEF IInv, RequestInv, Checked, IsInput
<1>4. /\ new \in Names /\ ~new.capital /\ new.word # Blank /\ (new.quoted => new.escapes > 0)
  BY <1>3, Sanitized
<1>5. ASSUME NEW q \in T
      PROVE  /\ q[1] \in Saves /\ q[2] \in Names /\ q = <<q[1], q[2]>>
             /\ ~q[2].capital /\ q[2].word # Blank /\ (q[2].quoted => q[2].escapes > 0)
  <2>1. CASE q \in tags
    BY <1>2, <2>1 DEF Stored, IsTable
  <2>2. CASE \E p \in tags : p[2] = i.tag /\ q = <<p[1], new>> /\ q[1] = p[1] /\ q[2] = new
    BY <1>2, <1>4, <2>2 DEF IsTable
  <2> QED BY <1>2, <1>5, <2>1, <2>2, RenamedTags
<1>6. Stored(tags')
  BY <1>2, <1>5 DEF Stored, IsTable
<1>7. Affected(r) = SavesWith(tags, i.tag)
  BY <1>1 DEF Affected
<1>8. ASSUME NEW q \in Difference(tags, tags') PROVE q[1] \in Affected(r)
  <2>1. CASE q \in tags /\ q \notin T
    <3>1. q[2] = i.tag
      <4> SUFFICES ASSUME q[2] # i.tag PROVE q \in T
        BY <2>1
      <4>1. q \in renameIgnore(tags, i.tag, new)
        BY <2>1 DEF renameIgnore
      <4> QED BY <4>1 DEF deleteTagsByName
    <3> QED BY <1>7, <2>1, <3>1, SavesWithMember
  <2>2. CASE q \in T /\ q \notin tags
    <3>1. PICK p \in tags : p[2] = i.tag /\ q[1] = p[1]
      BY <1>2, <2>2, RenamedTags
    <3> QED BY <1>7, <3>1, SavesWithMember
  <2> QED BY <1>2, <1>8, <2>1, <2>2 DEF Difference
<1>9. r \notin overtaken => Affected(r) \subseteq seen[r]
  BY <1>1, <1>7 DEF IInv, RequestInv, ListStands, Listed
<1> HIDE DEF T, new
<1> QED BY <1>1, <1>2, <1>6, <1>8, <1>9 DEF Effect

(* The saves that are given new tags lose their old ones. *)
LEMMA ReplaceEffect ==
    ASSUME IInv, NEW r \in Requests, WriteReplace(r)
    PROVE  Effect(r, SavesOf(Creates(input[r])))
<1> DEFINE i == input[r]
           X == SavesOf(Creates(i))
<1>1. /\ pc[r] = "write" /\ i.op \in {"replaceOne", "replace"}
      /\ Writes(r, deleteTagsByItemId(tags, X) \cup Creates(i), X, "fetch")
  BY DEF WriteReplace
<1>2. tags' = {p \in tags : p[1] \notin X} \cup Creates(i) /\ Stored(tags) /\ IsInput(i)
  BY <1>1, StoredTags, InputTyped DEF Writes, IInv, deleteTagsByItemId
<1>3. ~HasBlank(i)
  BY <1>1 DEF IInv, RequestInv, Checked, Refused, RefusedAdds
<1>4. Stored(tags')
  <2>1. Stored({p \in tags : p[1] \notin X})
    BY <1>2, StoredSubset
  <2> QED BY <1>2, <1>3, <2>1, StoredCreates
<1>5. Affected(r) = X
  BY <1>1 DEF Affected, Touched
<1>6. \A p \in Difference(tags, tags') : p[1] \in Affected(r)
  BY <1>2, <1>5, SavesOfMember DEF Difference
<1>7. Writes(r, tags', X, "fetch")
  BY <1>1, <1>2 DEF deleteTagsByItemId
<1> QED BY <1>1, <1>4, <1>5, <1>6, <1>7 DEF Effect

(* The one save that is cleared loses its tags, or the transaction fails. *)
LEMMA ClearEffect ==
    ASSUME IInv, NEW r \in Requests, WriteClear(r)
    PROVE  ClearRefused(r) \/ Effect(r, {TheSave(r)})
<1> DEFINE i == input[r]
<1>1. pc[r] = "write" /\ i.op = "clear"
  BY DEF WriteClear, At
<1>2. CASE Writes(r, deleteTagsByItemId(tags, {TheSave(r)}), {TheSave(r)}, "fetch")
  <2>1. tags' = {p \in tags : p[1] \notin {TheSave(r)}} /\ Stored(tags)
    BY <1>2, StoredTags DEF Writes, deleteTagsByItemId
  <2>2. Stored(tags')
    BY <2>1, StoredSubset
  <2>3. Affected(r) = {TheSave(r)}
    BY <1>1, TheSaveIs DEF Affected, Touched, IInv
  <2>4. \A p \in Difference(tags, tags') : p[1] \in Affected(r)
    BY <2>1, <2>3 DEF Difference
  <2>5. Writes(r, tags', {TheSave(r)}, "fetch")
    BY <1>2, <2>1 DEF deleteTagsByItemId
  <2> QED BY <1>1, <2>2, <2>3, <2>4, <2>5 DEF Effect
<1>3. CASE ClearRefused(r)
  BY <1>3
<1> QED BY <1>2, <1>3 DEF WriteClear, ClearRefused

(* A batch changes the saves of its creates and deletes and marks those of *)
(* its creates.                                                            *)
LEMMA BatchEffect ==
    ASSUME IInv, NEW r \in Requests, WriteBatch(r)
    PROVE  Effect(r, SavesOf(Creates(input[r])))
<1> DEFINE i == input[r]
<1>1. /\ pc[r] = "write" /\ i.op = "batch"
      /\ Writes(r, (tags \ Deletes(i)) \cup Creates(i), SavesOf(Creates(i)), "fetch")
  BY DEF WriteBatch, At
<1>2. tags' = (tags \ Deletes(i)) \cup Creates(i) /\ Stored(tags) /\ IsInput(i)
  BY <1>1, StoredTags, InputTyped DEF Writes, IInv
<1>3. ~HasBlank(i)
  BY <1>1 DEF IInv, RequestInv, Checked, Refused, RefusedBatch
<1>4. Stored(tags')
  <2>1. Stored(tags \ Deletes(i))
    BY <1>2, StoredSubset
  <2> QED BY <1>2, <1>3, <2>1, StoredCreates
<1>5. Affected(r) = SavesOf(Deletes(i) \cup Creates(i))
  BY <1>1 DEF Affected
<1>6. \A p \in Difference(tags, tags') : p[1] \in Affected(r)
  BY <1>2, <1>5, SavesOfMember DEF Difference
<1> QED BY <1>1, <1>2, <1>4, <1>5, <1>6 DEF Effect

(* Every transaction has such an effect, but for the one that fails. *)
LEMMA WriteEffect ==
    ASSUME IInv, NEW r \in Requests, Write(r)
    PROVE  pc[r] = "write" /\ (ClearRefused(r) \/ \E itemIds : Effect(r, itemIds))
<1>1. pc[r] = "write"
  BY DEF Write, WriteCreate, WriteUntag, WriteDeleteTag, WriteRename, WriteReplace, WriteClear,
         WriteBatch, At
<1> QED BY <1>1, CreateEffect, UntagEffect, DeleteTagEffect, RenameEffect, ReplaceEffect,
           ClearEffect, BatchEffect DEF Write

-----------------------------------------------------------------------------
(* The invariant in every step *)

(* A save whose tags differ in two tables has an association in one only. *)
LEMMA TagsDiffer ==
    ASSUME NEW T, NEW U, IsTable(T), IsTable(U), NEW s, TagsOf(T, s) # TagsOf(U, s)
    PROVE  \E p \in Difference(T, U) : p[1] = s
<1>1. ASSUME NEW V, IsTable(V), NEW n PROVE n \in TagsOf(V, s) <=> <<s, n>> \in V
  <2>1. ASSUME <<s, n>> \in V PROVE n \in {p[2] : p \in V}
    <3>1. <<s, n>>[2] = n
      OBVIOUS
    <3> QED BY <2>1, <3>1
  <2> QED BY <2>1 DEF TagsOf
<1>2. PICK n : ~(n \in TagsOf(T, s) <=> n \in TagsOf(U, s))
  <2>1. /\ TagsOf(T, s) = {n \in {p[2] : p \in T} : <<s, n>> \in T}
        /\ TagsOf(U, s) = {n \in {p[2] : p \in U} : <<s, n>> \in U}
    BY DEF TagsOf
  <2> QED BY <2>1
<1>3. <<s, n>> \in Difference(T, U) /\ <<s, n>>[1] = s
  BY <1>1, <1>2 DEF Difference
<1> QED BY <1>3

(* A transaction changes the tags of the affected saves only. *)
LEMMA ChangesAffected ==
    ASSUME IInv, NEW r \in Requests, NEW itemIds, Effect(r, itemIds)
    PROVE  \A s : TagsOf(tags', s) # TagsOf(tags, s) => s \in Affected(r)
<1>1. IsTable(tags) /\ IsTable(tags')
  BY StoredTags DEF Effect, Stored
<1>2. ASSUME NEW s, TagsOf(tags', s) # TagsOf(tags, s) PROVE s \in Affected(r)
  <2>1. PICK p \in Difference(tags, tags') : p[1] = s
    BY <1>1, <1>2, TagsDiffer
  <2> QED BY <2>1 DEF Effect
<1> QED BY <1>2

(* What an announcing mutation affects is what it may announce. *)
LEMMA AffectedTouched ==
    ASSUME NEW r \in Requests, input[r].op \in Announcing
    PROVE  Affected(r) \subseteq Touched(input[r])
<1>1. CASE input[r].op = "untag"
  BY <1>1, SavesOfPairs DEF Affected, Touched, Deletes
<1>2. CASE input[r].op # "untag"
  BY <1>2 DEF Affected, Announcing
<1> QED BY <1>1, <1>2

(* A transaction keeps the invariant: its changes are still to announce,   *)
(* and the lists of the others have been overtaken.                        *)
LEMMA EffectInv ==
    ASSUME IInv, NEW r \in Requests, pc[r] = "write", NEW itemIds, Effect(r, itemIds)
    PROVE  IInv'
<1> DEFINE place == IF input[r].op = "deleteTag" THEN "done" ELSE "fetch"
<1>1. TypeOK /\ StoredNamesSanitized /\ \A o \in Requests : RequestInv(o)
  BY DEF IInv
<1>2. /\ marked' = itemIds \cap rows
      /\ changed' = [changed EXCEPT ![r] = {s \in rows : TagsOf(tags', s) # TagsOf(tags, s)}]
      /\ overtaken' = (overtaken \cup Listed) \ {r}
      /\ UNCHANGED <<rows, input, seen>>
      /\ pc' = [pc EXCEPT ![r] = place]
      /\ answer' = IF place = "done" THEN [answer EXCEPT ![r] = "ok"] ELSE answer
  BY DEF Effect, Writes, Answers, GoesTo
<1>3. /\ \A p \in tags' : p[1] \in Saves /\ p[2] \in Names /\ p = <<p[1], p[2]>>
      /\ StoredNamesSanitized'
  BY DEF Effect, Stored, IsTable, StoredNamesSanitized
<1>4. TypeOK'
  BY <1>1, <1>2, <1>3 DEF TypeOK, Listed
<1>5. ASSUME NEW o \in Requests, o # r PROVE RequestInv(o)'
  <2>1. o \in Listed => o \in overtaken'
    BY <1>2, <1>5
  <2> QED BY <1>1, <1>2, <1>5, <2>1, OthersStand DEF TypeOK
<1>6. /\ pc'[r] = place /\ input'[r] = input[r]
      /\ changed'[r] = {s \in rows : TagsOf(tags', s) # TagsOf(tags, s)}
      /\ answer'[r] = IF place = "done" THEN "ok" ELSE "none"
  BY <1>1, <1>2 DEF TypeOK, RequestInv, Unannounced
<1>7. Checked(r)' /\ ListStands(r)'
  BY <1>6 DEF Checked, ListStands, Listed
<1>8. input[r].op \in Announcing => changed'[r] \subseteq Touched(input[r]) \cap rows
  BY <1>6, ChangesAffected, AffectedTouched
<1>9. place = "done" => input[r].op \notin Announcing
  BY DEF Announcing
<1>10. Unannounced(r)'
  BY <1>2, <1>6, <1>8, <1>9 DEF Unannounced
<1> QED BY <1>3, <1>4, <1>5, <1>7, <1>10 DEF IInv, RequestInv

(* A step that ends a request and changes no table keeps the invariant, if *)
(* what the request has not announced agrees with its answer.              *)
LEMMA EndInv ==
    ASSUME IInv, NEW r \in Requests, NEW a \in {"ok", "notFound", "error"}, Answers(r, a),
           UNCHANGED <<rows, tags, input, seen>>, marked' = {},
           overtaken' = overtaken \/ overtaken' = overtaken \ {r},
           NEW S \in SUBSET Saves, changed' = [changed EXCEPT ![r] = S],
           a = "notFound" \/ (a = "ok" /\ input[r].op \in Announcing) => S = {}
    PROVE  IInv'
<1>1. TypeOK /\ StoredNamesSanitized /\ \A o \in Requests : RequestInv(o)
  BY DEF IInv
<1>2. pc' = [pc EXCEPT ![r] = "done"] /\ answer' = [answer EXCEPT ![r] = a]
  BY DEF Answers, GoesTo
<1>3. TypeOK'
  BY <1>1, <1>2 DEF TypeOK
<1>4. ASSUME NEW o \in Requests, o # r PROVE RequestInv(o)'
  BY <1>1, <1>2, <1>4, OthersStand DEF TypeOK
<1>5. pc'[r] = "done" /\ answer'[r] = a /\ changed'[r] = S
  BY <1>1, <1>2 DEF TypeOK
<1>6. RequestInv(r)'
  BY <1>5 DEF RequestInv, Checked, Unannounced, ListStands, Listed
<1> QED BY <1>1, <1>3, <1>4, <1>6 DEF IInv, StoredNamesSanitized

(* The answers: the saves that are found are announced, and a mutation     *)
(* that does not find one has not changed it.                              *)
LEMMA FetchInv ==
    ASSUME IInv, NEW r \in Requests,
           FetchSaves(r) \/ FetchUntag(r) \/ FetchTag(r) \/ FetchClear(r) \/ FetchBatch(r)
    PROVE  IInv'
<1> DEFINE i == input[r]
<1>1. /\ TypeOK /\ pc[r] = "fetch" /\ IsInput(i)
      /\ i.op \in Announcing => changed[r] \subseteq Touched(i) \cap rows
  BY InputTyped DEF IInv, RequestInv, Unannounced, FetchSaves, FetchUntag, FetchTag, FetchClear,
     FetchBatch, At
<1>2. ASSUME NEW a \in {"ok", "notFound", "error"}, NEW found, Replies(r, a, found),
             a = "notFound" \/ (a = "ok" /\ i.op \in Announcing) => changed[r] \subseteq found
      PROVE  IInv'
  <2>1. /\ Answers(r, a) /\ marked' = {} /\ UNCHANGED <<rows, tags, input, seen, overtaken>>
        /\ changed' = [changed EXCEPT ![r] = changed[r] \ found]
    BY <1>2 DEF Replies
  <2>2. changed[r] \ found \in SUBSET Saves
    BY <1>1 DEF TypeOK
  <2>3. a = "notFound" \/ (a = "ok" /\ i.op \in Announcing) => changed[r] \ found = {}
    BY <1>2
  <2> QED BY <2>1, <2>2, <2>3, EndInv
<1>3. CASE FetchSaves(r)
  <2>1. /\ i.op \in {"create", "createByUrl", "replace", "replaceOne"}
        /\ Replies(r, "ok", SavesOf(Creates(i)) \cap rows)
    BY <1>3 DEF FetchSaves
  <2>2. i.op \in Announcing /\ Touched(i) = SavesOf(Creates(i))
    BY <2>1 DEF Announcing, Touched
  <2> QED BY <1>1, <1>2, <2>1, <2>2
<1>4. CASE FetchUntag(r)
  <2>1. /\ i.op = "untag"
        /\ Replies(r, IF DOMAIN i.removes \subseteq rows THEN "ok" ELSE "error", DOMAIN i.removes \cap rows)
    BY <1>4 DEF FetchUntag, At
  <2>2. i.op \in Announcing /\ Touched(i) = DOMAIN i.removes
    BY <2>1 DEF Announcing, Touched
  <2> QED BY <1>1, <1>2, <2>1, <2>2
<1>5. CASE FetchTag(r)
  <2>1. /\ i.op = "rename"
        /\ Replies(r, IF SavesWith(tags, sanitizeTagName(i.name)) = {} THEN "error" ELSE "ok", {})
    BY <1>5 DEF FetchTag, At
  <2>2. i.op \notin Announcing
    BY <2>1 DEF Announcing
  <2> QED BY <1>2, <2>1, <2>2
<1>6. CASE FetchClear(r)
  <2>1. i.op = "clear"
    BY <1>6 DEF FetchClear, At
  <2>2. i.op \in Announcing /\ Touched(i) = {TheSave(r)}
    BY <1>1, <2>1, TheSaveIs DEF Announcing, Touched
  <2>3. CASE TheSave(r) \in rows /\ Replies(r, "ok", {TheSave(r)})
    BY <1>1, <1>2, <2>2, <2>3
  <2>4. CASE TheSave(r) \notin rows /\ Replies(r, "notFound", {})
    BY <1>1, <1>2, <2>2, <2>4
  <2> QED BY <1>6, <2>3, <2>4 DEF FetchClear
<1>7. CASE FetchBatch(r)
  <2>1. i.op \notin Announcing /\ Replies(r, "ok", {})
    BY <1>7 DEF FetchBatch, At, Announcing
  <2> QED BY <1>2, <2>1
<1> QED BY <1>3, <1>4, <1>5, <1>6, <1>7

(* A request that is closed leaves nothing behind. *)
LEMMA CloseInv ==
    ASSUME IInv, NEW r \in Requests, Close(r)
    PROVE  IInv'
<1>1. TypeOK /\ StoredNamesSanitized /\ \A o \in Requests : RequestInv(o)
  BY DEF IInv
<1>2. /\ pc' = [pc EXCEPT ![r] = "idle"] /\ input' = [input EXCEPT ![r] = NoInput]
      /\ seen' = [seen EXCEPT ![r] = {}] /\ answer' = [answer EXCEPT ![r] = "none"]
      /\ changed' = [changed EXCEPT ![r] = {}] /\ marked' = {}
      /\ UNCHANGED <<rows, tags, overtaken>>
  BY DEF Close, GoesTo
<1>3. TypeOK'
  BY <1>1, <1>2 DEF TypeOK
<1>4. ASSUME NEW o \in Requests, o # r PROVE RequestInv(o)'
  BY <1>1, <1>2, <1>4, OthersStand DEF TypeOK
<1>5. pc'[r] = "idle" /\ answer'[r] = "none" /\ changed'[r] = {}
  BY <1>1, <1>2 DEF TypeOK
<1>6. RequestInv(r)'
  BY <1>5 DEF RequestInv, Checked, Unannounced, ListStands, Listed
<1> QED BY <1>1, <1>2, <1>3, <1>4, <1>6 DEF IInv, StoredNamesSanitized

(* Saves are added, never removed; the tags of one that is deleted go. *)
LEMMA SavesInv ==
    ASSUME IInv, NEW s \in Saves, upsertSavedItem(s) \/ deleteSavedItem(s)
    PROVE  IInv'
<1>1. TypeOK /\ StoredNamesSanitized /\ \A o \in Requests : RequestInv(o)
  BY DEF IInv
<1>2. /\ tags' \subseteq tags /\ rows \subseteq rows' /\ rows' \subseteq Saves /\ marked' \subseteq {s}
      /\ UNCHANGED <<pc, input, seen, answer, changed, overtaken>>
  BY <1>1 DEF upsertSavedItem, deleteSavedItem, deleteTagsByItemId, TypeOK
<1>3. TypeOK'
  BY <1>1, <1>2 DEF TypeOK
<1>4. ASSUME NEW o \in Requests PROVE RequestInv(o)'
  BY <1>1, <1>2, OthersStand
<1> QED BY <1>1, <1>2, <1>3, <1>4 DEF IInv, StoredNamesSanitized

(* Every step keeps the invariant. *)
LEMMA NextInv ==
    ASSUME IInv, [Next]_vars
    PROVE  IInv'
<1>1. ASSUME NEW r \in Requests, Begin(r) PROVE IInv'
  BY <1>1, BeginInv
<1>2. ASSUME NEW r \in Requests, Step(r) PROVE IInv'
  <2>1. CASE Lookup(r)
    BY <2>1, LookupInv
  <2>2. CASE \/ ReadAffected(r) \/ ReadOldTag(r) \/ ReadAssociations(r)
             \/ ReadExists(r) \/ ReadCleared(r) \/ ReadMissing(r)
    BY <2>2, ReadInv
  <2>3. CASE Write(r)
    <3>1. pc[r] = "write" /\ (ClearRefused(r) \/ \E itemIds : Effect(r, itemIds))
      BY <2>3, WriteEffect
    <3>2. CASE ClearRefused(r)
      <4>1. changed' = [changed EXCEPT ![r] = changed[r]] /\ changed[r] \in SUBSET Saves
        BY <3>2 DEF ClearRefused, IInv, TypeOK
      <4> QED BY <3>2, <4>1, EndInv DEF ClearRefused
    <3> QED BY <3>1, <3>2, EffectInv
  <2>4. CASE FetchSaves(r) \/ FetchUntag(r) \/ FetchTag(r) \/ FetchClear(r) \/ FetchBatch(r)
    BY <2>4, FetchInv
  <2> QED BY <1>2, <2>1, <2>2, <2>3, <2>4 DEF Step
<1>3. ASSUME NEW r \in Requests, Fail(r) PROVE IInv'
  BY <1>3, EndInv DEF Fail
<1>4. ASSUME NEW r \in Requests, Close(r) PROVE IInv'
  BY <1>4, CloseInv
<1>5. ASSUME NEW s \in Saves, upsertSavedItem(s) \/ deleteSavedItem(s) PROVE IInv'
  BY <1>5, SavesInv
<1>6. CASE UNCHANGED vars
  BY <1>6 DEF vars, IInv, TypeOK, StoredNamesSanitized, RequestInv, Checked, Unannounced, ListStands,
     Listed
<1> QED BY <1>1, <1>2, <1>3, <1>4, <1>5, <1>6 DEF Next

(* The invariant holds of every behaviour. *)
LEMMA Inductive == Spec => []IInv
BY InitInv, NextInv, PTL DEF Spec

-----------------------------------------------------------------------------
(* Theorems *)

(* TypeOK, with what the checks before the transactions have made sure of. *)
THEOREM TypeCorrect == Spec => []TypeOK
<1>1. IInv => TypeOK
  BY DEF IInv
<1> QED BY <1>1, Inductive, PTL

(* Every stored name went through sanitizeTagName (models/tag.ts), whatever *)
(* the names, their escapes and the ways in which they come.               *)
THEOREM NamesSanitized == Spec => []StoredNamesSanitized
<1>1. IInv => StoredNamesSanitized
  BY DEF IInv
<1> QED BY <1>1, Inductive, PTL

(* A mutation that answers NotFound or UserInputError has changed nothing, *)
(* although no check is in a transaction: rows are never removed.          *)
THEOREM RefusalsChangeNothing == Spec => []RefusalChangesNoSave
<1>1. IInv => RefusalChangesNoSave
  BY DEF IInv, RequestInv, Unannounced, RefusalChangesNoSave
<1> QED BY <1>1, Inductive, PTL

(* The saves that a mutation reads back and announces after its commit     *)
(* include every save whose tags it has changed.                           *)
THEOREM ChangesAnnounced == Spec => []ChangedSavesAnnounced
<1>1. IInv => ChangedSavesAnnounced
  BY DEF IInv, RequestInv, Unannounced, ChangedSavesAnnounced
<1> QED BY <1>1, Inductive, PTL

(* The step of a transaction is a write of its request, and has an effect. *)
LEMMA TransactionEffect ==
    ASSUME IInv, [Next]_vars, NEW r \in Requests, Transaction(r)
    PROVE  Write(r) /\ \E itemIds : Effect(r, itemIds)
<1>1. pc \in [Requests -> {"idle", "lookup", "read", "list", "write", "fetch", "done"}]
  BY DEF IInv, TypeOK
<1>2. pc[r] = "write" /\ pc'[r] # "write" /\ answer'[r] # "error"
  BY DEF Transaction
<1>3. answer \in [Requests -> {"none", "ok", "notFound", "userError", "error"}]
  BY DEF IInv, TypeOK
<1>4. ASSUME NEW o \in Requests, o # r PROVE ~(Begin(o) \/ Step(o) \/ Fail(o) \/ Close(o))
  <2>1. Begin(o) \/ Step(o) \/ Fail(o) \/ Close(o) => \E place : pc' = [pc EXCEPT ![o] = place]
    BY DEF Begin, Step, Fail, Close, Lookup, ReadAffected, ReadOldTag, ReadAssociations, ReadExists,
           ReadCleared, ReadMissing, Write, WriteCreate, WriteUntag, WriteDeleteTag, WriteRename,
           WriteReplace, WriteClear, WriteBatch, Writes, FetchSaves, FetchUntag, FetchTag,
           FetchClear, FetchBatch, Replies, Answers, GoesTo
  <2> QED BY <1>1, <1>2, <1>4, <2>1
<1>5. ~Fail(r)
  BY <1>2, <1>3 DEF Fail, Answers
<1>6. ~(Begin(r) \/ Close(r))
  BY <1>2 DEF Begin, Close
<1>7. Step(r) => Write(r)
  BY <1>2 DEF Step, Lookup, ReadAffected, ReadOldTag, ReadAssociations, ReadExists, ReadCleared,
              ReadMissing, FetchSaves, FetchUntag, FetchTag, FetchClear, FetchBatch, At
<1>8. ASSUME NEW s \in Saves PROVE ~(upsertSavedItem(s) \/ deleteSavedItem(s))
  BY <1>2 DEF upsertSavedItem, deleteSavedItem
<1>9. Write(r)
  BY <1>2, <1>4, <1>5, <1>6, <1>7, <1>8 DEF Next, vars
<1>10. ~ClearRefused(r)
  BY <1>2, <1>3 DEF ClearRefused, Answers
<1> QED BY <1>9, <1>10, WriteEffect

(* A mutation marks every save whose tags it changes (time_updated), since *)
(* a list that was not overtaken is complete; only a batch that removes    *)
(* tags does not.                                                          *)
THEOREM ChangesMarked == Spec => TagChangesMarkSaves
<1>1. ASSUME IInv, [Next]_vars, NEW r \in Requests, Transaction(r), r \notin overtaken,
             NEW s \in rows, TagsOf(tags, s) # TagsOf(tags', s)
      PROVE  \/ s \in marked'
             \/ input[r].op = "batch" /\ s \notin SavesOf(Creates(input[r]))
  <2>1. PICK itemIds : Effect(r, itemIds)
    BY <1>1, TransactionEffect
  <2>2. s \in Affected(r) /\ marked' = itemIds \cap rows
    BY <1>1, <2>1, ChangesAffected DEF Effect, Writes
  <2> QED BY <1>1, <2>1, <2>2 DEF Effect
<1>2. IInv /\ [Next]_vars =>
        [\A r \in Requests : Transaction(r) /\ r \notin overtaken =>
            \A s \in rows : TagsOf(tags, s) # TagsOf(tags', s) =>
                \/ s \in marked'
                \/ input[r].op = "batch" /\ s \notin SavesOf(Creates(input[r]))]_vars
  BY <1>1
<1> QED BY <1>2, Inductive, PTL DEF Spec, TagChangesMarkSaves

(* The mutations that check their saves tag none without a row.            *)
THEOREM ChecksHold == Spec => CheckedWritesTagRows
<1>1. ASSUME IInv, [Next]_vars, NEW r \in Requests, Transaction(r),
             input[r].op \in {"replaceOne", "batch"}, NEW p \in tags' \ tags
      PROVE  p[1] \in rows
  <2> DEFINE i == input[r]
  <2>1. Write(r) /\ pc[r] = "write" /\ IsInput(i)
    BY <1>1, TransactionEffect, InputTyped DEF Transaction, IInv
  <2>2. CASE i.op = "replaceOne"
    <3>1. tags' = deleteTagsByItemId(tags, SavesOf(Creates(i))) \cup Creates(i)
      BY <2>1, <2>2 DEF Write, WriteCreate, WriteUntag, WriteDeleteTag, WriteRename, WriteReplace,
         WriteClear, WriteBatch, Writes, At
    <3>2. p \in Creates(i)
      BY <1>1, <3>1 DEF deleteTagsByItemId
    <3>3. p[1] \in DOMAIN i.adds
      BY <2>1, <3>2, SavesOfMember, SavesOfCreates, SavesOfPairs
    <3> QED BY <1>1, <2>1, <2>2, <3>3 DEF IInv, RequestInv, Checked
  <2>3. CASE i.op = "batch"
    <3>1. tags' = (tags \ Deletes(i)) \cup Creates(i)
      BY <2>1, <2>3 DEF Write, WriteCreate, WriteUntag, WriteDeleteTag, WriteRename, WriteReplace,
         WriteClear, WriteBatch, Writes, At
    <3>2. p \in Deletes(i) \cup Creates(i)
      BY <1>1, <3>1
    <3> QED BY <1>1, <2>1, <2>3, <3>2, SavesOfMember DEF IInv, RequestInv, Checked
  <2> QED BY <1>1, <2>2, <2>3
<1>2. IInv /\ [Next]_vars =>
        [\A r \in Requests : Transaction(r) /\ input[r].op \in {"replaceOne", "batch"} =>
            \A p \in tags' \ tags : p[1] \in rows]_vars
  BY <1>1
<1> QED BY <1>2, Inductive, PTL DEF Spec, CheckedWritesTagRows

(* A rename to another name gives the saves of the tag the new one.        *)
LEMMA RenameAsPromised ==
    ASSUME NEW T, IsTable(T), NEW old, NEW new, new # old
    PROVE  deleteTagsByName(renameIgnore(T, old, new), old)
           = {p \in T : p[2] # old} \cup (SavesWith(T, old) \X {new})
<1> DEFINE A == deleteTagsByName(renameIgnore(T, old, new), old)
           B == {p \in T : p[2] # old} \cup (SavesWith(T, old) \X {new})
<1>1. ASSUME NEW q \in A PROVE q \in B
  <2>1. CASE q \in T /\ q[2] # old
    BY <2>1
  <2>2. CASE \E p \in T : p[2] = old /\ q = <<p[1], new>>
    BY <2>2, SavesWithMember
  <2> QED BY <1>1, <2>1, <2>2, RenamedTags
<1>2. ASSUME NEW q \in T, q[2] # old PROVE q \in A
  BY <1>2 DEF renameIgnore, deleteTagsByName
<1>3. ASSUME NEW s \in SavesWith(T, old) PROVE <<s, new>> \in A
  <2>1. PICK p \in T : p[2] = old /\ p[1] = s
    BY <1>3 DEF SavesWith, SavesOf
  <2>2. <<s, new>>[2] = new
    OBVIOUS
  <2>3. CASE <<s, new>> \in T
    BY <1>2, <2>2, <2>3
  <2>4. CASE <<s, new>> \notin T
    <3>1. <<s, new>> \in renameIgnore(T, old, new)
      BY <2>1, <2>4 DEF renameIgnore
    <3> QED BY <2>2, <3>1 DEF deleteTagsByName
  <2> QED BY <2>3, <2>4
<1>4. ASSUME NEW q \in B PROVE q \in A
  BY <1>2, <1>3, <1>4
<1> HIDE DEF A, B
<1>5. A = B
  BY <1>1, <1>4
<1> QED BY <1>5 DEF A, B

(* The saves of a replacement without empty lists are those it names.      *)
LEMMA ReplacedSaves ==
    ASSUME NEW i, IsInput(i), ~Refused(i), ~Unusual(i), i.op \in {"replaceOne", "replace"}
    PROVE  /\ SavesOf(Creates(i)) = DOMAIN i.adds
           /\ i.op = "replaceOne" => Creates(i) = Pairs(i.adds)
<1>1. \A s \in DOMAIN i.adds : i.adds[s] # {}
  <2>1. CASE i.op = "replace"
    BY <2>1 DEF Unusual
  <2>2. CASE i.op = "replaceOne"
    <3>1. Pairs(i.adds) # {} /\ \E s \in Saves : DOMAIN i.adds = {s}
      BY <2>2 DEF Refused, RefusedAdds, IsInput
    <3> QED BY <3>1 DEF Pairs
  <2> QED BY <2>1, <2>2
<1>2. SavesOf(Creates(i)) = DOMAIN i.adds
  BY <1>1, SavesOfCreates, SavesOfPairs
<1>3. ASSUME i.op = "replaceOne" PROVE Creates(i) = Pairs(i.adds)
  <2>1. \A p \in Pairs(i.adds) : p = <<p[1], sanitizeTagName(p[2])>>
    BY <1>3, InputTables DEF Unusual, IsTable
  <2> QED BY <2>1 DEF Creates
<1> QED BY <1>2, <1>3

(* But for three kinds of inputs a transaction makes of the tags what the  *)
(* schema promises, whatever they have become since its request began.     *)
THEOREM WritesKeepPromises == Spec => UsualWritesAsPromised
<1>1. ASSUME IInv, [Next]_vars, NEW r \in Requests, Transaction(r), ~Unusual(input[r])
      PROVE  tags' = Promised(input[r], tags)
  <2> DEFINE i == input[r]
  <2>1. /\ Write(r) /\ pc[r] = "write" /\ IsInput(i) /\ TypeOK /\ IsTable(tags)
        /\ ~Refused(i)
    BY <1>1, TransactionEffect, InputTyped, StoredTags DEF Transaction, IInv, RequestInv, Checked, Stored
  <2>2. CASE WriteCreate(r)
    BY <2>2 DEF WriteCreate, Writes, Promised
  <2>3. CASE WriteUntag(r)
    BY <2>3 DEF WriteUntag, At, Writes, Promised, Deletes
  <2>4. CASE WriteDeleteTag(r)
    BY <2>4 DEF WriteDeleteTag, At, Writes, Promised, deleteTagsByName
  <2>5. CASE WriteRename(r)
    <3> DEFINE new == sanitizeTagName(i.name)
    <3>1. i.op = "rename" /\ tags' = deleteTagsByName(renameIgnore(tags, i.tag, new), i.tag)
      BY <2>5 DEF WriteRename, At, Writes
    <3>2. new # i.tag
      BY <1>1, <3>1 DEF Unusual
    <3>3. tags' = {p \in tags : p[2] # i.tag} \cup (SavesWith(tags, i.tag) \X {new})
      BY <2>1, <3>1, <3>2, RenameAsPromised
    <3> QED BY <3>1, <3>3 DEF Promised
  <2>6. CASE WriteReplace(r)
    <3>1. /\ i.op \in {"replaceOne", "replace"}
          /\ tags' = {p \in tags : p[1] \notin SavesOf(Creates(i))} \cup Creates(i)
      BY <2>6 DEF WriteReplace, Writes, deleteTagsByItemId
    <3>2. SavesOf(Creates(i)) = DOMAIN i.adds /\ (i.op = "replaceOne" => Creates(i) = Pairs(i.adds))
      BY <1>1, <2>1, <3>1, ReplacedSaves
    <3> QED BY <3>1, <3>2 DEF Promised
  <2>7. CASE WriteClear(r)
    <3>1. i.op = "clear" /\ answer'[r] # "error"
      BY <1>1, <2>7 DEF WriteClear, At, Transaction
    <3>2. Writes(r, deleteTagsByItemId(tags, {TheSave(r)}), {TheSave(r)}, "fetch")
      BY <2>1, <2>7, <3>1 DEF WriteClear, Answers, TypeOK
    <3>3. tags' = {p \in tags : p[1] \notin {TheSave(r)}}
      BY <3>2 DEF Writes, deleteTagsByItemId
    <3>4. DOMAIN i.adds = {TheSave(r)} /\ Pairs(i.adds) = {}
      BY <2>1, <3>1, TheSaveIs DEF IsInput, Pairs
    <3> QED BY <3>1, <3>3, <3>4 DEF Promised
  <2>8. CASE WriteBatch(r)
    BY <2>8 DEF WriteBatch, At, Writes, Promised, Deletes
  <2> QED BY <2>1, <2>2, <2>3, <2>4, <2>5, <2>6, <2>7, <2>8 DEF Write
<1>2. IInv /\ [Next]_vars =>
        [\A r \in Requests : Transaction(r) /\ ~Unusual(input[r]) =>
            tags' = Promised(input[r], tags)]_vars
  BY <1>1
<1> QED BY <1>2, Inductive, PTL DEF Spec, UsualWritesAsPromised
=============================================================================
