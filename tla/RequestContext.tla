--------------------------- MODULE RequestContext ---------------------------
(***************************************************************************)
(* What a GraphQL request carries through the server: its ContextManager,  *)
(* with the connection that is chosen for it, the loaders that it reads    *)
(* saves and tags with, and the events that it emits (module ItemEvents).  *)
(*                                                                         *)
(* A request is a sequence of steps.  The fields of a mutation are         *)
(* resolved one after the other: each writes a save, reads it back,        *)
(* announces it and then loads what is selected below it.  (The upsert of  *)
(* a favorite announces it twice; the second event is left out, for it is  *)
(* under way beside the first like that of another request.)  The steps of *)
(* a query only load; what one step loads is asked for in one tick.        *)
(*                                                                         *)
(* Rows are abstracted to versions: every committed mutation of a save,    *)
(* its tags included, makes the next version of it, and the replica that   *)
(* readClient connects to follows the writer.  Version 0 is no row.        *)
(***************************************************************************)
EXTENDS ItemEvents, FiniteSets

CONSTANTS
    Saves,      \* saves of one user
    Workloads,  \* what the clients send: an operation for each request
    Existing,   \* the saves that are there at first
    NoEvent,    \* a step of a query
    Absent,     \* not in the cache
    Pending     \* asked for, not answered

(* A save by its id, by its url, or its tags by its id *)
Loaders == {"savedItemsById", "savedItemsByUrl", "tagsByItemId"}
Keys == Loaders \X Saves

Step == [type: EventType \cup {NoEvent}, save: Saves, loads: SUBSET Keys]

(* The text of a request starts with the word mutation, or with a comment, *)
(* a fragment or a query; isPremium is a header                            *)
Operation == [text: {"mutation", "other"}, isPremium: BOOLEAN, steps: Seq(Step)]

ASSUME WorkloadsAssumption ==
    \A w \in Workloads, r \in Requests :
        /\ w[r] \in Operation
        /\ Len(w[r].steps) \in 1..MaxSteps
ASSUME ExistingAssumption == Existing \subseteq Saves
ASSUME CacheAssumption == /\ Absent \notin Nat /\ Pending \notin Nat /\ Absent # Pending
                          /\ NoEvent \notin EventType

VARIABLES
    writer, replica, \* the version of each save, at the writer and the replica
    op,         \* what each request does
    pc, at,     \* where it is, and in which of its steps
    cache,      \* what its loaders have
    wrote,      \* history: the version of its last write of each save
    floor,      \* history: what wrote was when a key, or one whose answer
                \* fills it, was first asked for
    stage,      \* where each event is between mutation and emitter
    savedAt,    \* the version of the save in its payload
    tagsAt,     \* the version of the tags in its payload
    last,       \* the version in the last event of each save on the event bus
    excused     \* history: the saves that were written while an event of them
                \* was under way, or by a mutation that announced nothing

requestVars == <<op, pc, at, cache, wrote, floor>>
payloadVars == <<stage, savedAt, tagsAt>>
historyVars == <<last, excused>>
vars == <<writer, replica, requestVars, payloadVars, historyVars, eventVars>>

StepOf(e) == op[RequestOf(e)].steps[e[2]]
Current(r) == op[r].steps[at[r]]
EventOf(r) == <<r, at[r]>>

(* The requests that have been answered, or not been sent *)
AtRest(r) == pc[r] \in {"idle", "done"}

TypeOK ==
    /\ TypeOKEvents
    /\ writer \in [Saves -> Nat] /\ replica \in [Saves -> Nat]
    /\ \A s \in Saves : replica[s] <= writer[s]
    /\ op \in Workloads
    /\ pc \in [Requests -> {"idle", "write", "readback", "load", "fetch", "done"}]
    /\ at \in [Requests -> 1..MaxSteps]
    /\ cache \in [Requests -> [Keys -> Nat \cup {Absent, Pending}]]
    /\ \A r \in Requests : AtRest(r) => \A k \in Keys : cache[r][k] # Pending
    /\ wrote \in [Requests -> [Saves -> Nat]]
    /\ floor \in [Requests -> [Keys -> Nat \cup {Absent}]]
    /\ stage \in [Events -> {"none", "asked", "read", "emitted", "lost"}]
    /\ savedAt \in [Events -> Nat] /\ tagsAt \in [Events -> Nat]
    /\ last \in [Saves -> Nat]
    /\ excused \subseteq Saves

Init ==
    /\ writer = [s \in Saves |-> IF s \in Existing THEN 1 ELSE 0]
    /\ replica = writer
    /\ op \in Workloads
    /\ pc = [r \in Requests |-> "idle"]
    /\ at = [r \in Requests |-> 1]
    /\ cache = [r \in Requests |-> [k \in Keys |-> Absent]]
    /\ wrote = [r \in Requests |-> [s \in Saves |-> 0]]
    /\ floor = [r \in Requests |-> [k \in Keys |-> Absent]]
    /\ stage = [e \in Events |-> "none"]
    /\ savedAt = [e \in Events |-> 0]
    /\ tagsAt = [e \in Events |-> 0]
    /\ last = writer
    /\ excused = {}
    /\ InitEvents

-----------------------------------------------------------------------------
(* The connection of a request is chosen by the first word of its text     *)
contextConnection(text) == IF text = "mutation" THEN writer ELSE replica

(* Mutant of dbClient: the client is not the one of the request *)
dbClientOfReader(r) == replica

dbClient(r) == contextConnection(op[r].text)

FirstPc(step) == IF step.type = NoEvent THEN "load" ELSE "write"

(* A request arrives *)
Begin(r) ==
    /\ BetweenCallbacks
    /\ pc[r] = "idle"
    /\ pc' = [pc EXCEPT ![r] = FirstPc(Current(r))]
    /\ UNCHANGED <<writer, replica, op, at, cache, wrote, floor, payloadVars, historyVars, eventVars>>

(* The step is resolved: the next one, or the answer *)
NextStep(r) ==
    IF at[r] < Len(op[r].steps)
    THEN /\ at' = [at EXCEPT ![r] = @ + 1]
         /\ pc' = [pc EXCEPT ![r] = FirstPc(op[r].steps[at[r] + 1])]
    ELSE /\ pc' = [pc EXCEPT ![r] = "done"]
         /\ UNCHANGED at

UnderWay(s) ==
    {e \in Events : /\ stage[e] # "none" /\ StepOf(e).save = s
                    /\ \/ stage[e] \in {"asked", "read"}
                       \/ status[e]["eventBus"] \in {"pending", "sent"}}

(* The mutation of a step commits.  The replica takes no writes, and only  *)
(* an upsert writes a save that is not there.                              *)
Mutate(r) ==
    LET s == Current(r).save
        announcing == {o \in Requests : pc[o] = "readback" /\ Current(o).save = s}
    IN /\ BetweenCallbacks
       /\ pc[r] = "write"
       /\ op[r].text = "mutation"
       /\ writer[s] > 0 \/ Current(r).type = "ADD_ITEM"
       /\ writer' = [writer EXCEPT ![s] = @ + 1]
       /\ wrote' = [wrote EXCEPT ![r][s] = writer[s] + 1]
       /\ excused' = IF UnderWay(s) = {} /\ announcing = {} THEN excused ELSE excused \cup {s}
       /\ pc' = [pc EXCEPT ![r] = "readback"]
       /\ UNCHANGED <<replica, op, at, cache, floor, payloadVars, last, eventVars>>

(* The mutation fails, and with it the request *)
MutationFails(r) ==
    /\ BetweenCallbacks
    /\ pc[r] = "write"
    /\ pc' = [pc EXCEPT ![r] = "done"]
    /\ UNCHANGED <<writer, replica, op, at, cache, wrote, floor, payloadVars, historyVars, eventVars>>

(* It has committed, and the read after it fails: nothing is announced *)
ReadBackFails(r) ==
    /\ BetweenCallbacks
    /\ pc[r] = "readback"
    /\ pc' = [pc EXCEPT ![r] = "done"]
    /\ excused' = excused \cup {Current(r).save}
    /\ UNCHANGED <<writer, replica, op, at, cache, wrote, floor, payloadVars, last, eventVars>>

(* ContextManager.emitItemEvent: asks for the tags; nobody waits for it    *)
Announce(r, version) ==
    /\ stage' = [stage EXCEPT ![EventOf(r)] = "asked"]
    /\ savedAt' = [savedAt EXCEPT ![EventOf(r)] = version]
    /\ UNCHANGED tagsAt

(* Mutant of ReadBack: the save is read with readClient                    *)
ReadBackOfReader(r) ==
    /\ BetweenCallbacks
    /\ pc[r] = "readback"
    /\ Announce(r, replica[Current(r).save])
    /\ pc' = [pc EXCEPT ![r] = "load"]
    /\ UNCHANGED <<writer, replica, op, at, cache, wrote, floor, historyVars, eventVars>>

(* The mutation reads the save that it answers with and announces it       *)
ReadBack(r) ==
    /\ BetweenCallbacks
    /\ pc[r] = "readback"
    /\ Announce(r, dbClient(r)[Current(r).save])
    /\ pc' = [pc EXCEPT ![r] = "load"]
    /\ UNCHANGED <<writer, replica, op, at, cache, wrote, floor, historyVars, eventVars>>

-----------------------------------------------------------------------------
(* The loaders *)

(* The loaders of tags do not keep what they load *)
ToFetch(r, loads) == {k \in loads : k[1] = "tagsByItemId" \/ cache[r][k] = Absent}

(* The keys whose answers fill key k: its own, and for a url the id        *)
FilledBy(k) == {k} \cup (IF k[1] = "savedItemsByUrl" THEN {<<"savedItemsById", k[2]>>} ELSE {})

(* What a step selects is asked for in one tick; what a loader has is      *)
(* there at once                                                           *)
Load(r) ==
    LET loads == Current(r).loads
    IN /\ BetweenCallbacks
       /\ pc[r] = "load"
       /\ cache' = [cache EXCEPT ![r] =
             [k \in Keys |-> IF k \in ToFetch(r, loads) THEN Pending ELSE @[k]]]
       /\ floor' = [floor EXCEPT ![r] =
             [k \in Keys |-> IF /\ FilledBy(k) \cap loads # {}
                                /\ k[1] = "tagsByItemId" \/ @[k] = Absent
                             THEN wrote[r][k[2]] ELSE @[k]]]
       /\ IF ToFetch(r, loads) = {} THEN NextStep(r)
          ELSE pc' = [pc EXCEPT ![r] = "fetch"] /\ UNCHANGED at
    /\ UNCHANGED <<writer, replica, op, wrote, payloadVars, historyVars, eventVars>>

Asked(r, loader) == {k \in Keys : k[1] = loader /\ cache[r][k] = Pending}

(* Mutant of Primed: the other loader learns nothing *)
PrimedNot(loader, found) == {}

(* A save found by its id is given to the loader by url as well.  The      *)
(* other way round nothing comes of it: byUrlLoader primes the id of the   *)
(* row, a number (item_id AS id), and loads by id ask for a GraphQL ID, a  *)
(* string, which the loader's cache never takes for that number.           *)
Primed(loader, found) ==
    IF loader = "savedItemsById" THEN {"savedItemsByUrl"} \X {k[2] : k \in found} ELSE {}

(* Each key gets the row that has it, or undefined (version 0)             *)
reorderResultByKey(keys, rows) == [k \in keys |-> rows[k[2]]]

Unanswered(r, loader) == {k \in Keys : cache[r][k] = Pending} \ Asked(r, loader)

(* Mutant of FetchDone: the step does not wait for its other loaders       *)
FetchDoneEarly(r, loader) == NextStep(r)

FetchDone(r, loader) == IF Unanswered(r, loader) = {} THEN NextStep(r) ELSE UNCHANGED <<pc, at>>

(* A loader sends one query for all the keys that it was asked for, and    *)
(* prime does not replace what the other loader has or waits for.  Between *)
(* the query and its answer only other keys of the request are answered.   *)
Fetch(r, loader) ==
    LET rows   == dbClient(r)
        answer == reorderResultByKey(Asked(r, loader), rows)
        primed == {k \in Primed(loader, {f \in DOMAIN answer : answer[f] > 0}) :
                      cache[r][k] = Absent}
    IN /\ BetweenCallbacks
       /\ pc[r] = "fetch"
       /\ Asked(r, loader) # {}
       /\ cache' = [cache EXCEPT ![r] =
             [k \in Keys |-> IF k \in DOMAIN answer THEN answer[k]
                             ELSE IF k \in primed THEN rows[k[2]] ELSE @[k]]]
       /\ FetchDone(r, loader)
       /\ UNCHANGED <<writer, replica, op, wrote, floor, payloadVars, historyVars, eventVars>>

(* The query fails: the loader forgets its keys, and the fields are null   *)
FetchFails(r, loader) ==
    /\ BetweenCallbacks
    /\ pc[r] = "fetch"
    /\ Asked(r, loader) # {}
    /\ cache' = [cache EXCEPT ![r] =
          [k \in Keys |-> IF k \in Asked(r, loader) THEN Absent ELSE @[k]]]
    /\ FetchDone(r, loader)
    /\ UNCHANGED <<writer, replica, op, wrote, floor, payloadVars, historyVars, eventVars>>

-----------------------------------------------------------------------------
(* The payloads *)

(* Mutant of TagsRead: the tags are read with readClient *)
TagsReadOfReader(e) ==
    /\ BetweenCallbacks
    /\ stage[e] = "asked"
    /\ tagsAt' = [tagsAt EXCEPT ![e] = replica[StepOf(e).save]]
    /\ stage' = [stage EXCEPT ![e] = "read"]
    /\ UNCHANGED <<writer, replica, requestVars, savedAt, historyVars, eventVars>>

(* The database answers the query of an event's tags *)
TagsRead(e) ==
    /\ BetweenCallbacks
    /\ stage[e] = "asked"
    /\ tagsAt' = [tagsAt EXCEPT ![e] = dbClient(RequestOf(e))[StepOf(e).save]]
    /\ stage' = [stage EXCEPT ![e] = "read"]
    /\ UNCHANGED <<writer, replica, requestVars, savedAt, historyVars, eventVars>>

(* The query fails; the error is captured and the event lost *)
TagsFail(e) ==
    /\ BetweenCallbacks
    /\ stage[e] = "asked"
    /\ stage' = [stage EXCEPT ![e] = "lost"]
    /\ UNCHANGED <<writer, replica, requestVars, savedAt, tagsAt, historyVars, eventVars>>

(* The payload is generated and handed to the listeners *)
Emit(e) ==
    /\ BetweenCallbacks
    /\ stage[e] = "read"
    /\ stage' = [stage EXCEPT ![e] = "emitted"]
    /\ emitItemEvent(e, [type |-> StepOf(e).type, isPremium |-> op[RequestOf(e)].isPremium])
    /\ UNCHANGED <<writer, replica, requestVars, savedAt, tagsAt, historyVars>>

ProcessNext ==
    /\ Process
    /\ UNCHANGED <<writer, replica, requestVars, payloadVars, historyVars>>

(* The event bus takes the event, or does not; events may arrive in        *)
(* another order than they were sent                                       *)
Deliver(e) ==
    /\ stage[e] = "emitted"
    /\ putEvents(e, "delivered")
    /\ last' = [last EXCEPT ![StepOf(e).save] = savedAt[e]]
    /\ UNCHANGED <<writer, replica, requestVars, payloadVars, excused>>

DeliveryFails(e) ==
    /\ putEvents(e, "failed")
    /\ UNCHANGED <<writer, replica, requestVars, payloadVars, historyVars>>

(* The replica catches up *)
Replicate(s) ==
    /\ BetweenCallbacks
    /\ replica[s] < writer[s]
    /\ replica' = [replica EXCEPT ![s] = @ + 1]
    /\ UNCHANGED <<writer, requestVars, payloadVars, historyVars, eventVars>>

(* A step of the server, or an answer of the database to it *)
RequestStep(r) ==
    \/ Mutate(r)
    \/ MutationFails(r)
    \/ ReadBack(r)
    \/ ReadBackFails(r)
    \/ Load(r)
    \/ \E loader \in Loaders : Fetch(r, loader) \/ FetchFails(r, loader)

EventStep(e) ==
    \/ TagsRead(e)
    \/ TagsFail(e)
    \/ Emit(e)
    \/ Deliver(e)
    \/ DeliveryFails(e)

Next ==
    \/ \E r \in Requests : Begin(r) \/ RequestStep(r)
    \/ \E e \in Events : EventStep(e)
    \/ ProcessNext
    \/ \E s \in Saves : Replicate(s)

Spec == Init /\ [][Next]_vars

(* The node event loop gets to every callback, and every query and every   *)
(* call is answered, with success or with an error: an assumption about    *)
(* MySQL, AWS and their client libraries, for this code sets no timeout    *)
(* but that of getting a connection (database/client.ts).  Nothing is      *)
(* assumed of the replica and of clients.                                  *)
Fairness ==
    /\ WF_vars(ProcessNext)
    /\ \A r \in Requests : WF_vars(RequestStep(r))
    /\ \A e \in Events : WF_vars(EventStep(e))

FairSpec == Spec /\ Fairness

-----------------------------------------------------------------------------
(* Properties *)

(* A request reads its own writes: what it loads of a save is no older     *)
(* than what it had written when it first loaded the save, tags than what  *)
(* it has written (server/apollo.ts contextConnection, dataLoader/).  The  *)
(* connection is chosen from the text alone, and a loader of another       *)
(* request, or a query to the replica, would answer with an older row.     *)
ReadsOwnWrites ==
    \A r \in Requests : \A k \in Keys :
        (floor[r][k] # Absent /\ cache[r][k] \in Nat) => cache[r][k] >= floor[r][k]

(* A save that a request finds by its id is there by its url too, the same *)
(* version without a second query, whatever other requests do in between   *)
(* (savedItemsDataLoader.ts).  That is so unless a step asked for it by    *)
(* url no later than a step that asks by id: in one tick both queries are  *)
(* sent, and what was found by url helps no load by id, so that one        *)
(* request can see two versions of a save, which the comment of the        *)
(* loaders ("Each loader fills the cache of the other") rules out.         *)
FoundByIdIsFoundByUrl ==
    \A r \in Requests, s \in Saves :
        LET byId  == <<"savedItemsById", s>>
            byUrl == <<"savedItemsByUrl", s>>
        IN cache[r][byId] \in Nat \ {0} =>
               \/ cache[r][byUrl] = cache[r][byId]
               \/ \E i, j \in 1..at[r] : /\ i <= j
                                         /\ byUrl \in op[r].steps[i].loads
                                         /\ byId \in op[r].steps[j].loads

(* The tags of a payload are no older than the save in it, although they   *)
(* are read by a query that nobody waits for (context.ts emitItemEvent)    *)
PayloadTagsNotOlder ==
    \A e \in Events : stage[e] \in {"read", "emitted"} => tagsAt[e] >= savedAt[e]

(* Every Snowplow event carries the information of the request that caused *)
(* it, although all requests set it in one tracker and read it back after  *)
(* an await (snowplowHandler.ts process)                                   *)
TrackedWithOwnRequest == \A e \in Events : tracked[e] \in {Nobody, RequestOf(e)}

(* When all is quiet, the last event on the bus tells of the current state *)
(* of a save, provided that every mutation of it was announced, no event   *)
(* of it was lost or failed, and it was never written while an event of it *)
(* was under way: events that are under way together overtake each other.  *)
LastEventIsCurrent ==
    \A s \in Saves :
        LET ofSave == {e \in Events : stage[e] # "none" /\ StepOf(e).save = s}
        IN (/\ UnderWay(s) = {}
            /\ \A r \in Requests : AtRest(r)
            /\ s \notin excused
            /\ \A e \in ofSave : status[e]["eventBus"] = "delivered")
           => last[s] = writer[s]

(* Every event whose tags are asked for is lost with its tags, or reaches  *)
(* every listener of its type; one that has nothing to send, or fails,     *)
(* keeps no other from sending (itemsEventEmitter.ts, eventHandlers.ts)    *)
EveryEventSettles ==
    \A e \in Events :
        stage[e] = "asked" ~> (stage[e] = "lost" \/ (stage[e] = "emitted" /\ Settled(e, StepOf(e).type)))
=============================================================================
