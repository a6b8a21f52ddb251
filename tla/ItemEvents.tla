----------------------------- MODULE ItemEvents -----------------------------
(***************************************************************************)
(* The item events of one server process: businessEvents/.                 *)
(*                                                                         *)
(* ItemsEventEmitter.emit calls its listeners one after the other and does *)
(* not wait for what they do.  A listener runs until its first await; what *)
(* follows an await of a value that is there already is a microtask, and   *)
(* node runs all microtasks before it turns to the next callback.  Every   *)
(* handler catches and logs the error of its client, which changes no      *)
(* state; the answer of the event bus is kept, for a property is about it. *)
(***************************************************************************)
EXTENDS Naturals, Sequences

CONSTANTS
    Requests,   \* the requests that emit events
    MaxSteps,   \* the most events that one request emits
    Nobody      \* no request

(* One event for each step of a request *)
Events == Requests \X (1..MaxSteps)
RequestOf(e) == e[1]

EventType == {"ADD_ITEM", "DELETE_ITEM", "FAVORITE_ITEM", "UNFAVORITE_ITEM",
              "ARCHIVE_ITEM", "UNARCHIVE_ITEM", "ADD_TAGS", "REPLACE_TAGS",
              "CLEAR_TAGS", "REMOVE_TAGS"}

(* What the listeners decide about *)
Payload == [type: EventType, isPremium: BOOLEAN]

(* Where events go, in the order in which startServer registers the        *)
(* handlers                                                                *)
Sinks == <<"unifiedEvents", "publisherQueue", "permLibItemMainQueue", "snowplow", "eventBus">>
SinkNames == {Sinks[i] : i \in DOMAIN Sinks}

SQSEvents == {"ADD_ITEM", "ARCHIVE_ITEM", "FAVORITE_ITEM", "DELETE_ITEM"}

ASSUME MaxStepsAssumption == MaxSteps \in Nat
ASSUME NobodyAssumption == Nobody \notin Requests

VARIABLES
    status,     \* of each event at each sink
    microtasks, \* what goes on before the next callback
    tracker,    \* the request whose information the tracker has been given
    tracked     \* for each event: the request that it was tracked with

eventVars == <<status, microtasks, tracker, tracked>>

Statuses == {"none", "pending", "skipped", "sent", "delivered", "failed"}

TypeOKEvents ==
    /\ status \in [Events -> [SinkNames -> Statuses]]
    /\ microtasks \in Seq([event: Events, sink: SinkNames, data: Payload])
    /\ tracker \in Requests \cup {Nobody}
    /\ tracked \in [Events -> Requests \cup {Nobody}]

InitEvents ==
    /\ status = [e \in Events |-> [k \in SinkNames |-> "none"]]
    /\ microtasks = <<>>
    /\ tracker = Nobody
    /\ tracked = [e \in Events |-> Nobody]

-----------------------------------------------------------------------------
(* Mutant of BetweenCallbacks: the context of a Snowplow event is fetched  *)
(* by a query, and other callbacks run before it is tracked                *)
BetweenCallbacksOfQuery == \A i \in DOMAIN microtasks : i = 1 => microtasks[i].sink = "snowplow"

BetweenCallbacks == microtasks = <<>>

(* The listeners that are called go on with the event when they have       *)
(* awaited its transformation                                              *)
CalledBy(e, data, called) ==
    /\ status' = [status EXCEPT ![e] =
          [k \in SinkNames |-> IF \E i \in DOMAIN called : called[i] = k THEN "pending" ELSE "none"]]
    /\ microtasks' = microtasks \o
          [i \in 1..Len(called) |-> [event |-> e, sink |-> called[i], data |-> data]]
    /\ UNCHANGED tracked

Listeners(type) ==
    IF type = "ADD_ITEM" THEN Sinks
    ELSE <<"unifiedEvents", "publisherQueue", "snowplow", "eventBus">>

(* Every event, of whichever request, gives the one tracker its information *)
addRequestInfoToTracker(e) == tracker' = RequestOf(e)

(* Mutant of emitItemEvent: the queue's transformer is no async function   *)
(* and throws on a user that is not premium; emit calls no more listeners  *)
emitItemEventThrows(e, data) ==
    IF data.isPremium
    THEN CalledBy(e, data, Listeners(data.type)) /\ addRequestInfoToTracker(e)
    ELSE CalledBy(e, data, <<"unifiedEvents", "publisherQueue">>) /\ UNCHANGED tracker

(* ItemsEventEmitter.emitItemEvent.  Before its first await,               *)
(* SnowplowHandler.process gives the tracker the request's information.    *)
emitItemEvent(e, data) ==
    /\ CalledBy(e, data, Listeners(data.type))
    /\ addRequestInfoToTracker(e)

(* What a transformer answers null for is not sent *)
IsSent(m) ==
    /\ m.sink = "publisherQueue" => m.data.type \in SQSEvents
    /\ m.sink = "permLibItemMainQueue" => m.data.isPremium

(* The tracker adds what it has been given, by whichever event *)
track(e) == [tracked EXCEPT ![e] = tracker]

(* The next microtask sends its event *)
Process ==
    /\ microtasks # <<>>
    /\ LET m == Head(microtasks)
       IN /\ status' = [status EXCEPT ![m.event][m.sink] = IF IsSent(m) THEN "sent" ELSE "skipped"]
          /\ tracked' = IF m.sink = "snowplow" THEN track(m.event) ELSE tracked
    /\ microtasks' = Tail(microtasks)
    /\ UNCHANGED tracker

(* EventBridgeBase.putEvents: the event bus has the event, or has failed   *)
(* and the event is only logged                                            *)
putEvents(e, outcome) ==
    /\ BetweenCallbacks
    /\ status[e]["eventBus"] = "sent"
    /\ status' = [status EXCEPT ![e]["eventBus"] = outcome]
    /\ UNCHANGED <<microtasks, tracker, tracked>>

(* Every listener of an event of this type has done with it *)
Settled(e, type) ==
    LET listeners == Listeners(type)
    IN \A i \in DOMAIN listeners :
          status[e][listeners[i]] \in IF listeners[i] = "eventBus" THEN {"delivered", "failed"}
                                      ELSE {"sent", "skipped"}
=============================================================================
