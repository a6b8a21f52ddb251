---------------------------- MODULE TagMutations ----------------------------
(***************************************************************************)
(* The tag mutations of one user: models/tag.ts over tagDataService.ts and *)
(* the resolvers of mutation.ts, as requests whose awaited steps interleave *)
(* with each other and with saves that are added and deleted.              *)
(*                                                                         *)
(* A tag exists only as its associations with saves (table item_tags,      *)
(* which has no foreign key); its ID encodes its name.  The transaction of *)
(* a mutation is one step here: TagTransaction shows when that is so.      *)
(***************************************************************************)
EXTENDS Naturals, FiniteSets

CONSTANTS
    Requests,   \* mutations that can be in flight
    Saves,      \* item ids
    Words,      \* what tag names are made of
    Blank,      \* the name without a character that is not white space
    Inputs,     \* what the clients ask for, by request
    BatchMax    \* config.mutationInputLimits.batchUpdateTagNodesMax

(* A name in capitals, with quotes that have been escaped so many times;   *)
(* of long names the words are the first 25 characters.                    *)
Names == [word: Words \cup {Blank}, capital: BOOLEAN, quoted: BOOLEAN, escapes: Nat]

(* addslashes escapes the escaped quote, and its escapes, once more *)
sanitizeTagName(name) ==
    [name EXCEPT !.capital = FALSE, !.escapes = IF name.quoted THEN @ + 1 ELSE @]

Ops == {"create", "createByUrl", "untag", "deleteTag", "rename",
        "replaceOne", "clear", "replace", "batch"}

(* By save: the names of SavedItemTagsInput and of addTagNames, or what    *)
(* the tag ids of the other inputs decode to                               *)
IsTagList(f) == DOMAIN f \in SUBSET Saves /\ \A s \in DOMAIN f : f[s] \subseteq Names

(* tag and name are the arguments of deleteTag and of rename *)
IsInput(i) ==
    /\ DOMAIN i = {"op", "adds", "removes", "tag", "name"}
    /\ i.op \in Ops /\ IsTagList(i.adds) /\ IsTagList(i.removes)
    /\ i.tag \in Names /\ i.name \in Names
    /\ i.op \in {"createByUrl", "replaceOne", "clear"} =>
           \E s \in Saves : DOMAIN i.adds = {s}
    /\ i.op = "clear" => \A s \in DOMAIN i.adds : i.adds[s] = {}

ASSUME InputsAssumption == \A r \in Requests : \A i \in Inputs[r] : IsInput(i)
ASSUME BatchMaxAssumption == BatchMax \in Nat

VARIABLES
    rows,       \* the saves with a row in list, of whatever status
    tags,       \* item_tags: pairs of a save and a name
    pc,         \* where each request is
    input,      \* what it was asked for
    seen,       \* what it has read before its transaction
    answer,     \* "none", "ok", "notFound", "userError" or "error"
    marked,     \* history: the saves whose time_updated the last step wrote
    changed,    \* history: the saves whose tags its transaction has changed
                \* and that it has emitted no event for, unless it has failed
    overtaken   \* history: the requests with a list that others overtook

vars == <<rows, tags, pc, input, seen, answer, marked, changed, overtaken>>

NoTag == [word |-> Blank, capital |-> FALSE, quoted |-> FALSE, escapes |-> 0]
NoLists == [s \in {} |-> {}]
NoInput == [op |-> "deleteTag", adds |-> NoLists, removes |-> NoLists,
            tag |-> NoTag, name |-> NoTag]

Init ==
    /\ rows \in SUBSET Saves
    /\ tags = {}
    /\ pc = [r \in Requests |-> "idle"]
    /\ input = [r \in Requests |-> NoInput]
    /\ seen = [r \in Requests |-> {}]
    /\ answer = [r \in Requests |-> "none"]
    /\ marked = {}
    /\ changed = [r \in Requests |-> {}]
    /\ overtaken = {}

-----------------------------------------------------------------------------
(* The table *)

TagsOf(T, s) == {n \in {p[2] : p \in T} : <<s, n>> \in T}
SavesOf(T) == {p[1] : p \in T}
SavesWith(T, n) == SavesOf({p \in T : p[2] = n})

deleteTagsByItemId(T, S) == {p \in T : p[1] \notin S}

(* Mutant: the associations that UPDATE IGNORE has left are not deleted *)
deleteTagsByNameForgotten(T, n) == T
deleteTagsByName(T, n) == {p \in T : p[2] # n}

(* UPDATE IGNORE: a row stays as it is where the new one exists already *)
renameIgnore(T, old, new) ==
    {IF p[2] = old /\ <<p[1], new>> \notin T THEN <<p[1], new>> ELSE p : p \in T}

-----------------------------------------------------------------------------
(* The inputs *)

Pairs(f) == UNION {{s} \X f[s] : s \in DOMAIN f}
TheSave(r) == CHOOSE s \in Saves : DOMAIN input[r].adds = {s}

(* sanitizeTagSaveAssociation, and the sanitized half of                   *)
(* formatBatchUpdateInput; one mutant forgets to sanitize the latter, one  *)
(* swaps the columns                                                       *)
CreatesSwapped(i) == {<<sanitizeTagName(p[2]), p[1]>> : p \in Pairs(i.adds)}
CreatesRaw(i) == IF i.op = "batch" THEN Pairs(i.adds)
                 ELSE {<<p[1], sanitizeTagName(p[2])>> : p \in Pairs(i.adds)}
Creates(i) == {<<p[1], sanitizeTagName(p[2])>> : p \in Pairs(i.adds)}
Deletes(i) == Pairs(i.removes)

HasBlank(i) == \E p \in Pairs(i.adds) : p[2].word = Blank

(* UserInputError, before any statement *)
RefusedAdds(i) == HasBlank(i) \/ (Pairs(i.adds) = {} /\ i.op # "replace")
RefusedBatch(i) ==
    HasBlank(i) \/ Cardinality(Deletes(i)) + Cardinality(Creates(i)) > BatchMax

Refused(i) ==
    \/ i.op \in {"create", "createByUrl", "replaceOne", "replace"} /\ RefusedAdds(i)
    \/ i.op = "batch" /\ RefusedBatch(i)

-----------------------------------------------------------------------------
(* The steps of a request *)

GoesTo(r, place) == pc' = [pc EXCEPT ![r] = place]
Answers(r, a) == GoesTo(r, "done") /\ answer' = [answer EXCEPT ![r] = a]

Reads == {"deleteTag", "rename", "replaceOne", "clear", "batch"}

Begin(r) ==
    /\ pc[r] = "idle"
    /\ \E i \in Inputs[r] :
        /\ input' = [input EXCEPT ![r] = i]
        /\ CASE i.op = "createByUrl" -> GoesTo(r, "lookup") /\ UNCHANGED answer
             [] i.op # "createByUrl" /\ Refused(i) -> Answers(r, "userError")
             [] OTHER -> /\ GoesTo(r, IF i.op \in Reads THEN "read" ELSE "write")
                         /\ UNCHANGED answer
    /\ marked' = {}
    /\ UNCHANGED <<rows, tags, seen, changed, overtaken>>

At(r, op, place) == pc[r] = place /\ input[r].op = op

(* What a read leaves alone *)
OnlyReads == marked' = {} /\ UNCHANGED <<rows, tags, input, changed, overtaken>>

(* ParserCaller.getItemIdFromUrl: a URL it does not know has no item id *)
Lookup(r) ==
    /\ At(r, "createByUrl", "lookup")
    /\ \/ Answers(r, "notFound")
       \/ Refused(input[r]) /\ Answers(r, "userError")
       \/ ~Refused(input[r]) /\ GoesTo(r, "write") /\ UNCHANGED answer
    /\ UNCHANGED seen
    /\ OnlyReads

(* Mutant of ReadAffected: without affected items nothing more happens *)
ReadAffectedOrHangs(r) ==
    /\ At(r, "deleteTag", "read")
    /\ SavesWith(tags, input[r].tag) # {}
    /\ seen' = [seen EXCEPT ![r] = SavesWith(tags, input[r].tag)]
    /\ GoesTo(r, "write") /\ UNCHANGED answer
    /\ OnlyReads

(* deleteTagObject: nothing to do for a tag that has no item *)
ReadAffected(r) ==
    /\ At(r, "deleteTag", "read")
    /\ LET affectedItems == SavesWith(tags, input[r].tag)
       IN /\ seen' = [seen EXCEPT ![r] = affectedItems]
          /\ IF affectedItems = {} THEN Answers(r, "ok")
             ELSE GoesTo(r, "write") /\ UNCHANGED answer
    /\ OnlyReads

ReadOldTag(r) ==
    /\ At(r, "rename", "read")
    /\ IF SavesWith(tags, input[r].tag) = {} THEN Answers(r, "notFound")
       ELSE IF input[r].name.word = Blank THEN Answers(r, "userError")
       ELSE GoesTo(r, "list") /\ UNCHANGED answer
    /\ UNCHANGED seen
    /\ OnlyReads

(* Mutant of ReadAssociations: the items of the new name are read *)
ReadAssociationsOfNew(r) ==
    /\ At(r, "rename", "list")
    /\ seen' = [seen EXCEPT ![r] = SavesWith(tags, sanitizeTagName(input[r].name))]
    /\ GoesTo(r, "write") /\ UNCHANGED answer
    /\ OnlyReads

ReadAssociations(r) ==
    /\ At(r, "rename", "list")
    /\ seen' = [seen EXCEPT ![r] = SavesWith(tags, input[r].tag)]
    /\ GoesTo(r, "write") /\ UNCHANGED answer
    /\ OnlyReads

ReadExists(r) ==
    /\ At(r, "replaceOne", "read")
    /\ IF TheSave(r) \in rows THEN GoesTo(r, "write") /\ UNCHANGED answer
       ELSE Answers(r, "notFound")
    /\ UNCHANGED seen
    /\ OnlyReads

(* The names it reports as removed, which may not be those it removes *)
ReadCleared(r) ==
    /\ At(r, "clear", "read")
    /\ GoesTo(r, "write") /\ UNCHANGED <<answer, seen>>
    /\ OnlyReads

(* checkIdExists; the mutant checks the saves of the deletes only *)
MissingOfDeletes(i) == SavesOf(Deletes(i)) \ rows
Missing(i) == SavesOf(Deletes(i) \cup Creates(i)) \ rows

ReadMissing(r) ==
    /\ At(r, "batch", "read")
    /\ IF Missing(input[r]) # {} THEN Answers(r, "notFound")
       ELSE GoesTo(r, "write") /\ UNCHANGED answer
    /\ UNCHANGED seen
    /\ OnlyReads

-----------------------------------------------------------------------------
(* Its transaction: the new table, and the items whose time_updated it     *)
(* writes with updateListItemMany or updateListItemOne                     *)

Listed == {u \in Requests : pc[u] = "write" /\ input[u].op \in {"deleteTag", "rename"}}

Writes(r, T, itemIds, place) ==
    /\ tags' = T
    /\ marked' = itemIds \cap rows
    /\ changed' = [changed EXCEPT ![r] = {s \in rows : TagsOf(T, s) # TagsOf(tags, s)}]
    /\ overtaken' = (overtaken \cup Listed) \ {r}
    /\ IF place = "done" THEN Answers(r, "ok") ELSE GoesTo(r, place) /\ UNCHANGED answer
    /\ UNCHANGED <<rows, input, seen>>

WriteCreate(r) ==
    /\ pc[r] = "write" /\ input[r].op \in {"create", "createByUrl"}
    /\ LET creates == Creates(input[r])
       IN Writes(r, tags \cup creates, SavesOf(creates), "fetch")

WriteUntag(r) ==
    /\ At(r, "untag", "write")
    /\ LET deletes == Deletes(input[r])
       IN Writes(r, tags \ deletes, SavesOf(deletes), "fetch")

WriteDeleteTag(r) ==
    /\ At(r, "deleteTag", "write")
    /\ Writes(r, deleteTagsByName(tags, input[r].tag), seen[r], "done")

WriteRename(r) ==
    /\ At(r, "rename", "write")
    /\ LET old == input[r].tag
           renamed == renameIgnore(tags, old, sanitizeTagName(input[r].name))
       IN Writes(r, deleteTagsByName(renamed, old), seen[r], "fetch")

(* updateSavedItemTags, replaceSavedItemTags: the items are those of the   *)
(* creates, so one that is to have no tags is not among them               *)
WriteReplace(r) ==
    /\ pc[r] = "write" /\ input[r].op \in {"replaceOne", "replace"}
    /\ LET creates == Creates(input[r])
       IN Writes(r, deleteTagsByItemId(tags, SavesOf(creates)) \cup creates,
                 SavesOf(creates), "fetch")

(* Without a row, the mirrored update has nothing to copy to the shadow    *)
(* table: a TypeError, and the transaction rolls back.                     *)
WriteClear(r) ==
    /\ At(r, "clear", "write")
    /\ \E mirrorWrites \in BOOLEAN :
        IF mirrorWrites /\ TheSave(r) \notin rows
        THEN /\ Answers(r, "error")
             /\ marked' = {}
             /\ UNCHANGED <<rows, tags, input, seen, changed, overtaken>>
        ELSE Writes(r, deleteTagsByItemId(tags, {TheSave(r)}), {TheSave(r)}, "fetch")

(* Only the creates mark their items *)
WriteBatch(r) ==
    /\ At(r, "batch", "write")
    /\ LET creates == Creates(input[r])
       IN Writes(r, (tags \ Deletes(input[r])) \cup creates, SavesOf(creates), "fetch")

Write(r) ==
    \/ WriteCreate(r) \/ WriteUntag(r) \/ WriteDeleteTag(r) \/ WriteRename(r)
    \/ WriteReplace(r) \/ WriteClear(r) \/ WriteBatch(r)

-----------------------------------------------------------------------------
(* Its answer, read back, and its events *)

(* The resolver emits an event for each save that was found *)
Replies(r, a, found) ==
    /\ Answers(r, a)
    /\ changed' = [changed EXCEPT ![r] = @ \ found]
    /\ marked' = {}
    /\ UNCHANGED <<rows, tags, input, seen, overtaken>>

(* batchGetSavedItemsByGivenIds *)
FetchSaves(r) ==
    /\ pc[r] = "fetch" /\ input[r].op \in {"create", "createByUrl", "replace", "replaceOne"}
    /\ Replies(r, "ok", SavesOf(Creates(input[r])) \cap rows)

(* Mutant of FetchUntag: only saves that still have tags are looked up *)
FetchUntagTagged(r) ==
    /\ At(r, "untag", "fetch")
    /\ Replies(r, "ok", DOMAIN input[r].removes \cap rows \cap SavesOf(tags))

(* A save that is not found is undefined where the schema wants a save *)
FetchUntag(r) ==
    /\ At(r, "untag", "fetch")
    /\ LET asked == DOMAIN input[r].removes
       IN Replies(r, IF asked \subseteq rows THEN "ok" ELSE "error", asked \cap rows)

(* The renamed tag is undefined when no association has its name *)
FetchTag(r) ==
    /\ At(r, "rename", "fetch")
    /\ Replies(r, IF SavesWith(tags, sanitizeTagName(input[r].name)) = {}
                  THEN "error" ELSE "ok", {})

(* Mutant of FetchClear: no tags, no save *)
FetchClearTagged(r) ==
    /\ At(r, "clear", "fetch")
    /\ IF TagsOf(tags, TheSave(r)) = {} THEN Replies(r, "notFound", {})
       ELSE Replies(r, "ok", {TheSave(r)})

FetchClear(r) ==
    /\ At(r, "clear", "fetch")
    /\ IF TheSave(r) \in rows THEN Replies(r, "ok", {TheSave(r)})
       ELSE Replies(r, "notFound", {})

(* TODO in the code: the batch emits no event *)
FetchBatch(r) == At(r, "batch", "fetch") /\ Replies(r, "ok", {})

(* A statement fails; a transaction that does rolls back *)
Fail(r) ==
    /\ pc[r] \in {"lookup", "read", "list", "write", "fetch"}
    /\ Answers(r, "error")
    /\ changed' = [changed EXCEPT ![r] = {}]
    /\ marked' = {} /\ overtaken' = overtaken \ {r}
    /\ UNCHANGED <<rows, tags, input, seen>>

Close(r) ==
    /\ pc[r] = "done"
    /\ GoesTo(r, "idle")
    /\ input' = [input EXCEPT ![r] = NoInput]
    /\ seen' = [seen EXCEPT ![r] = {}]
    /\ answer' = [answer EXCEPT ![r] = "none"]
    /\ changed' = [changed EXCEPT ![r] = {}]
    /\ marked' = {}
    /\ UNCHANGED <<rows, tags, overtaken>>

(* Other mutations: a save is inserted, or deleted with its tags while its *)
(* row, if it has one, stays                                               *)
upsertSavedItem(s) ==
    /\ s \notin rows
    /\ rows' = rows \cup {s}
    /\ marked' = {s}
    /\ UNCHANGED <<tags, pc, input, seen, answer, changed, overtaken>>

deleteSavedItem(s) ==
    /\ tags' = deleteTagsByItemId(tags, {s})
    /\ marked' = {s} \cap rows
    /\ UNCHANGED <<rows, pc, input, seen, answer, changed, overtaken>>

Step(r) ==
    \/ Lookup(r) \/ ReadAffected(r) \/ ReadOldTag(r) \/ ReadAssociations(r)
    \/ ReadExists(r) \/ ReadCleared(r) \/ ReadMissing(r) \/ Write(r)
    \/ FetchSaves(r) \/ FetchUntag(r) \/ FetchTag(r) \/ FetchClear(r) \/ FetchBatch(r)

Next ==
    \/ \E r \in Requests : Begin(r) \/ Step(r) \/ Fail(r) \/ Close(r)
    \/ \E s \in Saves : upsertSavedItem(s) \/ deleteSavedItem(s)

Spec == Init /\ [][Next]_vars

(* The parser and the database answer *)
FairSpec == Spec /\ \A r \in Requests : WF_vars(Step(r))

-----------------------------------------------------------------------------
TypeOK ==
    /\ rows \subseteq Saves
    /\ \A p \in tags : p[1] \in Saves /\ p[2] \in Names /\ p = <<p[1], p[2]>>
    /\ pc \in [Requests -> {"idle", "lookup", "read", "list", "write", "fetch", "done"}]
    /\ DOMAIN input = Requests /\ DOMAIN seen = Requests
    /\ \A r \in Requests : input[r] \in Inputs[r] \cup {NoInput}
    /\ answer \in [Requests -> {"none", "ok", "notFound", "userError", "error"}]
    /\ marked \subseteq Saves
    /\ changed \in [Requests -> SUBSET Saves]
    /\ overtaken \subseteq Requests

(* Whatever way a name comes in (a new name, a renamed tag, a tag id that  *)
(* is decoded), what is stored has gone through sanitizeTagName: no        *)
(* capitals, and quotes escaped, or one label would be two tags.           *)
StoredNamesSanitized ==
    \A p \in tags : ~p[2].capital /\ p[2].word # Blank /\ (p[2].quoted => p[2].escapes > 0)

(* A mutation that answers NotFound or UserInputError has changed the tags *)
(* of no save of the user, although the checks are made before or after    *)
(* the transaction, never in it ("the entire operation will be rolled back *)
(* and NotFound payload returned").                                        *)
RefusalChangesNoSave ==
    \A r \in Requests : answer[r] \in {"notFound", "userError"} => changed[r] = {}

(* A mutation that announces its changes and answers without an error has  *)
(* emitted an event for every save whose tags it has changed.              *)
Announcing == {"create", "createByUrl", "untag", "replaceOne", "clear", "replace"}
ChangedSavesAnnounced ==
    \A r \in Requests :
        answer[r] = "ok" /\ input[r].op \in Announcing => changed[r] = {}

Transaction(r) == pc[r] = "write" /\ pc'[r] # "write" /\ answer'[r] # "error"

(* A mutation that changes the tags of a save marks the save as updated    *)
(* ("if any property on the entity is modified this timestamp is set"),    *)
(* unless another one came between its list of the saves and its           *)
(* transaction, and unless it is a batch that only removes tags from it.   *)
TagChangesMarkSaves ==
    [][\A r \in Requests : Transaction(r) /\ r \notin overtaken =>
          \A s \in rows : TagsOf(tags, s) # TagsOf(tags', s) =>
              \/ s \in marked'
              \/ input[r].op = "batch" /\ s \notin SavesOf(Creates(input[r]))]_vars

(* The mutations that check that the saves exist, although before their    *)
(* transactions, tag none that does not ("All SaveIds passed to this       *)
(* function must be valid").                                               *)
CheckedWritesTagRows ==
    [][\A r \in Requests : Transaction(r) /\ input[r].op \in {"replaceOne", "batch"} =>
          \A p \in tags' \ tags : p[1] \in rows]_vars

(* What the schema says of each mutation *)
Promised(i, T) ==
    LET new == sanitizeTagName(i.name)
    IN CASE i.op \in {"create", "createByUrl"} -> T \cup Creates(i)
         [] i.op = "untag"     -> T \ Pairs(i.removes)
         [] i.op = "deleteTag" -> {p \in T : p[2] # i.tag}
         [] i.op = "rename"    -> {p \in T : p[2] # i.tag}
                                  \cup (SavesWith(T, i.tag) \X {new})
         [] i.op \in {"replaceOne", "clear"} ->
                {p \in T : p[1] \notin DOMAIN i.adds} \cup Pairs(i.adds)
         [] i.op = "replace"   ->
                {p \in T : p[1] \notin DOMAIN i.adds} \cup Creates(i)
         [] i.op = "batch"     -> (T \ Pairs(i.removes)) \cup Creates(i)

(* A transaction makes of the tags what the schema promises of its         *)
(* mutation, whatever the other mutations have made of them meanwhile      *)
(* ("If a Tag with the updated name already exists in the database, will   *)
(* associate that Tag to all relevant SavedItems").                        *)
WritesAsPromised ==
    [][\A r \in Requests : Transaction(r) => tags' = Promised(input[r], tags)]_vars

(* Inputs the code treats otherwise: a tag renamed to the name it has, a   *)
(* save that is to have no tags, the id of a tag with a quote              *)
Unusual(i) ==
    \/ i.op = "rename" /\ sanitizeTagName(i.name) = i.tag
    \/ i.op = "replace" /\ \E s \in DOMAIN i.adds : i.adds[s] = {}
    \/ i.op = "replaceOne" /\ \E p \in Pairs(i.adds) : sanitizeTagName(p[2]) # p[2]

(* With the exception of three kinds of inputs, a transaction makes of the *)
(* tags what the schema promises.                                          *)
UsualWritesAsPromised ==
    [][\A r \in Requests : Transaction(r) /\ ~Unusual(input[r]) =>
          tags' = Promised(input[r], tags)]_vars

(* Every tag mutation is answered. *)
EveryTagRequestAnswered ==
    \A r \in Requests : pc[r] \in {"lookup", "read", "list", "write", "fetch"} ~> pc[r] = "done"
=============================================================================
