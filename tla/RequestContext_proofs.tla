------------------------ MODULE RequestContext_proofs ------------------------
(***************************************************************************)
(* What holds of RequestContext for any number of requests that send any   *)
(* operations.  The inductive invariant relates what a request has loaded  *)
(* to the version of its database client, and what the microtasks are      *)
(* about to track to the request that the tracker has been given.  Two     *)
(* more stand on it: what the loaders have of a save by its two keys, and  *)
(* what is on its way to the event bus with what it has been told last.    *)
(***************************************************************************)
EXTENDS RequestContext, SequenceTheorems, TLAPS

-----------------------------------------------------------------------------
(* The invariant *)

(* No request and no event is beyond the steps of its operation *)
WithinSteps ==
    /\ \A r \in Requests : at[r] <= Len(op[r].steps)
    /\ \A e \in Events : stage[e] # "none" => e[2] <= Len(op[RequestOf(e)].steps)

(* A request waits for its loaders, or they wait for nothing *)
WaitsForLoaders ==
    \A r \in Requests : pc[r] # "fetch" => \A k \in Keys : cache[r][k] # Pending

(* Only a request with the writer's connection announces anything, and a   *)
(* request's connection has what it has written                            *)
UsesWriter ==
    /\ \A r \in Requests : pc[r] = "readback" => op[r].text = "mutation"
    /\ \A e \in Events : stage[e] # "none" => op[RequestOf(e)].text = "mutation"
    /\ \A r \in Requests, s \in Saves : wrote[r][s] <= dbClient(r)[s]

(* The save in a payload is no newer than the writer while its tags are    *)
(* asked for, and no newer than the tags when they have been read          *)
PayloadsInOrder ==
    \A e \in Events :
        /\ stage[e] = "asked" => savedAt[e] <= writer[StepOf(e).save]
        /\ stage[e] \in {"read", "emitted"} => savedAt[e] <= tagsAt[e]

(* What a loader has is at least as new as its floor, and a floor at most  *)
(* as new as what was written; asking by id counts for the url             *)
Floors ==
    /\ \A r \in Requests, k \in Keys :
        /\ floor[r][k] = Absent => cache[r][k] = Absent
        /\ floor[r][k] # Absent => floor[r][k] <= wrote[r][k[2]]
        /\ (floor[r][k] # Absent /\ cache[r][k] \in Nat) => floor[r][k] <= cache[r][k]
    /\ \A r \in Requests, s \in Saves :
        floor[r][<<"savedItemsById", s>>] # Absent => floor[r][<<"savedItemsByUrl", s>>] # Absent

(* All microtasks are of the request whose information the tracker has *)
OwnTracker ==
    /\ \A i \in DOMAIN microtasks : RequestOf(microtasks[i].event) = tracker
    /\ TrackedWithOwnRequest

(* Only the steps that have an event write and announce *)
OfMutations ==
    /\ \A r \in Requests : pc[r] \in {"write", "readback"} => Current(r).type # NoEvent
    /\ \A e \in Events : stage[e] # "none" => StepOf(e).type # NoEvent

Typed == TypeOK /\ WithinSteps /\ WaitsForLoaders /\ OfMutations

-----------------------------------------------------------------------------
(* Lemmas about operations *)

(* Each step that a request can be in is a step of its operation. *)
LEMMA OperationTyped ==
    ASSUME op \in Workloads, NEW r \in Requests
    PROVE  /\ op[r] \in Operation
           /\ Len(op[r].steps) \in 1..MaxSteps
           /\ \A i \in 1..Len(op[r].steps) : op[r].steps[i] \in Step
<1>1. op[r] \in Operation /\ Len(op[r].steps) \in 1..MaxSteps
  BY WorkloadsAssumption
<1>2. op[r].steps \in Seq(Step)
  BY <1>1 DEF Operation
<1> QED BY <1>1, <1>2, ElementOfSeq

(* The current step of a request is a step, and its event is an event. *)
LEMMA CurrentTyped ==
    ASSUME Typed, NEW r \in Requests
    PROVE  /\ Current(r) \in Step
           /\ Current(r).save \in Saves
           /\ Current(r).loads \subseteq Keys
           /\ EventOf(r) \in Events
           /\ RequestOf(EventOf(r)) = r
           /\ StepOf(EventOf(r)) = Current(r)
<1>1. op \in Workloads /\ at[r] \in 1..MaxSteps /\ at[r] <= Len(op[r].steps)
  BY DEF Typed, TypeOK, WithinSteps
<1>2. Len(op[r].steps) \in Nat /\ at[r] \in Nat
  BY <1>1, OperationTyped, MaxStepsAssumption
<1>3. at[r] \in 1..Len(op[r].steps)
  BY <1>1, <1>2, MaxStepsAssumption
<1>4. Current(r) \in Step
  BY <1>1, <1>3, OperationTyped DEF Current
<1> QED BY <1>1, <1>4 DEF Step, Events, EventOf, RequestOf, StepOf, Current

(* The step of an event that is under way is a step. *)
LEMMA StepOfTyped ==
    ASSUME Typed, NEW e \in Events, stage[e] # "none"
    PROVE  StepOf(e) \in Step /\ StepOf(e).save \in Saves /\ RequestOf(e) \in Requests
<1>1. RequestOf(e) \in Requests /\ e[2] \in 1..MaxSteps
  BY DEF Events, RequestOf
<1>2. op \in Workloads /\ e[2] <= Len(op[RequestOf(e)].steps)
  BY DEF Typed, TypeOK, WithinSteps
<1>3. Len(op[RequestOf(e)].steps) \in Nat /\ e[2] \in Nat
  BY <1>1, <1>2, OperationTyped, MaxStepsAssumption
<1>4. e[2] \in 1..Len(op[RequestOf(e)].steps)
  BY <1>1, <1>2, <1>3, MaxStepsAssumption
<1>5. StepOf(e) \in Step
  BY <1>1, <1>2, <1>4, OperationTyped DEF StepOf
<1> QED BY <1>1, <1>5 DEF Step

(* The next step of a request is within its operation. *)
LEMMA NextStepTyped ==
    ASSUME Typed, NEW r \in Requests, NextStep(r)
    PROVE  /\ pc' \in [Requests -> {"idle", "write", "readback", "load", "fetch", "done"}]
           /\ at' \in [Requests -> 1..MaxSteps]
           /\ \A o \in Requests : at'[o] <= Len(op[o].steps)
           /\ pc'[r] \in {"load", "write", "done"}
           /\ \A o \in Requests \ {r} : pc'[o] = pc[o] /\ at'[o] = at[o]
           /\ pc'[r] = "write" => op[r].steps[at'[r]].type # NoEvent
<1>1. /\ op \in Workloads /\ at \in [Requests -> 1..MaxSteps]
      /\ pc \in [Requests -> {"idle", "write", "readback", "load", "fetch", "done"}]
      /\ \A o \in Requests : at[o] <= Len(op[o].steps)
  BY DEF Typed, TypeOK, WithinSteps
<1>2. Len(op[r].steps) \in 1..MaxSteps
  BY <1>1, OperationTyped
<1>3. /\ FirstPc(op[r].steps[at[r] + 1]) \in {"load", "write"}
      /\ FirstPc(op[r].steps[at[r] + 1]) = "write" => op[r].steps[at[r] + 1].type # NoEvent
  BY DEF FirstPc
<1>4. CASE at[r] < Len(op[r].steps)
  <2>1. at[r] + 1 \in 1..MaxSteps /\ at[r] + 1 <= Len(op[r].steps)
    BY <1>1, <1>2, <1>4, MaxStepsAssumption
  <2> QED BY <1>1, <1>3, <1>4, <2>1 DEF NextStep
<1>5. CASE ~(at[r] < Len(op[r].steps))
  BY <1>1, <1>5 DEF NextStep
<1> QED BY <1>4, <1>5

-----------------------------------------------------------------------------
(* Type correctness *)

(* The variables of an event's way to the sinks *)
LEMMA EmitTyped ==
    ASSUME TypeOKEvents, NEW e \in Events, NEW data \in Payload, emitItemEvent(e, data)
    PROVE  TypeOKEvents'
<1> DEFINE called == Listeners(data.type)
           added  == [i \in 1..Len(called) |-> [event |-> e, sink |-> called[i], data |-> data]]
<1>1. \A i \in 1..Len(called) : called[i] \in SinkNames
  BY DEF Listeners, Sinks, SinkNames
<1>2. Len(called) \in Nat
  BY DEF Listeners, Sinks
<1>3. added \in Seq([event: Events, sink: SinkNames, data: Payload])
  <2>1. \A i \in 1..Len(called) :
           [event |-> e, sink |-> called[i], data |-> data] \in [event: Events, sink: SinkNames, data: Payload]
    BY <1>1
  <2> HIDE DEF called
  <2> QED BY <2>1, <1>2, IsASeq
<1>4. microtasks' = microtasks \o added
  BY DEF emitItemEvent, addRequestInfoToTracker, CalledBy
<1>5. microtasks' \in Seq([event: Events, sink: SinkNames, data: Payload])
  <2> HIDE DEF added
  <2> QED BY <1>3, <1>4, ConcatProperties DEF TypeOKEvents
<1>6. status' \in [Events -> [SinkNames -> Statuses]]
  BY DEF TypeOKEvents, emitItemEvent, addRequestInfoToTracker, CalledBy, Statuses
<1>7. tracker' \in Requests \cup {Nobody}
  BY DEF emitItemEvent, addRequestInfoToTracker, Events, RequestOf
<1>8. tracked' \in [Events -> Requests \cup {Nobody}]
  BY DEF TypeOKEvents, emitItemEvent, addRequestInfoToTracker, CalledBy
<1> QED BY <1>5, <1>6, <1>7, <1>8 DEF TypeOKEvents

(* A microtask is of an event and a sink *)
LEMMA HeadTyped ==
    ASSUME TypeOKEvents, microtasks # <<>>
    PROVE  /\ Head(microtasks) \in [event: Events, sink: SinkNames, data: Payload]
           /\ Tail(microtasks) \in Seq([event: Events, sink: SinkNames, data: Payload])
BY HeadTailProperties DEF TypeOKEvents

(* A microtask that runs keeps the types of the delivery. *)
LEMMA ProcessTyped ==
    ASSUME TypeOKEvents, Process
    PROVE  TypeOKEvents'
<1> DEFINE m == Head(microtasks)
<1>1. m \in [event: Events, sink: SinkNames, data: Payload]
      /\ microtasks' \in Seq([event: Events, sink: SinkNames, data: Payload])
  BY HeadTyped DEF Process, track
<1>2. m.event \in Events /\ m.sink \in SinkNames
  BY <1>1
<1>3. status' \in [Events -> [SinkNames -> Statuses]]
  <2>1. status' = [status EXCEPT ![m.event][m.sink] = IF IsSent(m) THEN "sent" ELSE "skipped"]
    BY DEF Process, track
  <2> HIDE DEF m
  <2> QED BY <1>2, <2>1 DEF TypeOKEvents, Statuses
<1>4. tracked' \in [Events -> Requests \cup {Nobody}]
  <2>1. tracked' = IF m.sink = "snowplow" THEN [tracked EXCEPT ![m.event] = tracker] ELSE tracked
    BY DEF Process, track
  <2> HIDE DEF m
  <2> QED BY <1>2, <2>1 DEF TypeOKEvents
<1> QED BY <1>1, <1>3, <1>4 DEF TypeOKEvents, Process

(* The answer of the event bus keeps the types of the delivery. *)
LEMMA PutTyped ==
    ASSUME TypeOKEvents, NEW e \in Events, NEW outcome \in {"delivered", "failed"}, putEvents(e, outcome)
    PROVE  TypeOKEvents'
<1>1. "eventBus" \in SinkNames
  BY DEF SinkNames, Sinks
<1>2. status' \in [Events -> [SinkNames -> Statuses]]
  BY <1>1 DEF TypeOKEvents, putEvents, Statuses
<1> QED BY <1>2 DEF TypeOKEvents, putEvents

(* The initial states are typed. *)
LEMMA InitTyped == Init => Typed
<1> SUFFICES ASSUME Init PROVE Typed
  OBVIOUS
<1>1. op \in Workloads /\ \A r \in Requests : Len(op[r].steps) \in 1..MaxSteps
  BY OperationTyped DEF Init
<1>2. Requests = {} \/ 1 \in 1..MaxSteps
  BY <1>1, MaxStepsAssumption
<1>3. TypeOKEvents
  BY DEF Init, InitEvents, TypeOKEvents, Statuses
<1>4. TypeOK
  BY <1>1, <1>2, <1>3, CacheAssumption DEF Init, TypeOK, AtRest
<1>5. WithinSteps
  <2>1. ASSUME NEW r \in Requests PROVE at[r] <= Len(op[r].steps)
    <3>1. at[r] = 1
      BY DEF Init
    <3>2. Len(op[r].steps) \in 1..MaxSteps
      BY <1>1
    <3> QED BY <3>1, <3>2, MaxStepsAssumption
  <2>2. \A e \in Events : stage[e] = "none"
    BY DEF Init
  <2> QED BY <2>1, <2>2 DEF WithinSteps
<1>6. WaitsForLoaders
  BY CacheAssumption DEF Init, WaitsForLoaders
<1>7. OfMutations
  BY DEF Init, OfMutations
<1> QED BY <1>4, <1>5, <1>6, <1>7 DEF Typed

(* What the database client of a request answers *)
LEMMA ClientTyped ==
    ASSUME TypeOK, NEW r \in Requests
    PROVE  dbClient(r) \in [Saves -> Nat]
BY DEF TypeOK, dbClient, contextConnection

(* A request that arrives starts with its first step. *)
LEMMA BeginTyped ==
    ASSUME Typed, NEW r \in Requests, Begin(r)
    PROVE  Typed'
<1> USE DEF Typed
<1>1. /\ FirstPc(Current(r)) \in {"load", "write"}
      /\ FirstPc(Current(r)) = "write" => Current(r).type # NoEvent
  BY DEF FirstPc
<1>2. pc' \in [Requests -> {"idle", "write", "readback", "load", "fetch", "done"}]
  BY <1>1 DEF Begin, TypeOK
<1>3. UNCHANGED eventVars
  BY DEF Begin
<1>4. TypeOKEvents'
  BY <1>3 DEF TypeOK, TypeOKEvents, eventVars
<1>5. WaitsForLoaders'
  BY <1>1, <1>2 DEF Begin, WaitsForLoaders, TypeOK
<1>6. \A o \in Requests : AtRest(o)' => \A k \in Keys : cache'[o][k] # Pending
  BY <1>5 DEF WaitsForLoaders, AtRest
<1>7. TypeOK'
  BY <1>2, <1>4, <1>6 DEF Begin, TypeOK, payloadVars, historyVars
<1>8. WithinSteps'
  BY DEF Begin, WithinSteps, payloadVars
<1>9. OfMutations'
  BY <1>1 DEF Begin, OfMutations, Current, StepOf, TypeOK, payloadVars
<1> QED BY <1>5, <1>7, <1>8, <1>9

(* A committed mutation makes the next version of its save. *)
LEMMA MutateTyped ==
    ASSUME Typed, NEW r \in Requests, Mutate(r)
    PROVE  Typed'
<1> DEFINE s == Current(r).save
<1> USE DEF Typed
<1>1. s \in Saves
  BY CurrentTyped
<1>2. /\ pc' \in [Requests -> {"idle", "write", "readback", "load", "fetch", "done"}]
      /\ writer' \in [Saves -> Nat]
      /\ \A x \in Saves : writer'[x] >= writer[x]
      /\ wrote' \in [Requests -> [Saves -> Nat]]
      /\ excused' \subseteq Saves
  BY <1>1 DEF Mutate, TypeOK
<1>3. TypeOKEvents'
  BY DEF Mutate, TypeOK, TypeOKEvents, eventVars
<1>4. WaitsForLoaders'
  BY DEF Mutate, WaitsForLoaders, TypeOK
<1>5. \A o \in Requests : AtRest(o)' => \A k \in Keys : cache'[o][k] # Pending
  BY <1>4 DEF WaitsForLoaders, AtRest
<1>6. \A x \in Saves : replica'[x] <= writer'[x]
  BY <1>2 DEF Mutate, TypeOK
<1>7. TypeOK'
  BY <1>2, <1>3, <1>5, <1>6 DEF Mutate, TypeOK, payloadVars
<1>8. WithinSteps'
  BY DEF Mutate, WithinSteps, payloadVars
<1>9. OfMutations'
  BY DEF Mutate, OfMutations, Current, StepOf, TypeOK, payloadVars
<1> QED BY <1>4, <1>7, <1>8, <1>9

(* A mutation that fails ends its request and changes nothing else. *)
LEMMA MutationFailsTyped ==
    ASSUME Typed, NEW r \in Requests, MutationFails(r)
    PROVE  Typed'
<1> USE DEF Typed
<1>1. TypeOKEvents'
  BY DEF MutationFails, TypeOK, TypeOKEvents, eventVars
<1>2. WaitsForLoaders'
  BY DEF MutationFails, WaitsForLoaders, TypeOK
<1>3. \A o \in Requests : AtRest(o)' => \A k \in Keys : cache'[o][k] # Pending
  BY <1>2 DEF WaitsForLoaders, AtRest
<1>4. TypeOK'
  BY <1>1, <1>3 DEF MutationFails, TypeOK, payloadVars, historyVars
<1>5. WithinSteps'
  BY DEF MutationFails, WithinSteps, payloadVars
<1>6. OfMutations'
  BY DEF MutationFails, OfMutations, Current, StepOf, TypeOK, payloadVars
<1> QED BY <1>2, <1>4, <1>5, <1>6

(* A read-back that fails ends its request without an event. *)
LEMMA ReadBackFailsTyped ==
    ASSUME Typed, NEW r \in Requests, ReadBackFails(r)
    PROVE  Typed'
<1> USE DEF Typed
<1>0. Current(r).save \in Saves
  BY CurrentTyped
<1>1. TypeOKEvents'
  BY DEF ReadBackFails, TypeOK, TypeOKEvents, eventVars
<1>2. WaitsForLoaders'
  BY DEF ReadBackFails, WaitsForLoaders, TypeOK
<1>3. \A o \in Requests : AtRest(o)' => \A k \in Keys : cache'[o][k] # Pending
  BY <1>2 DEF WaitsForLoaders, AtRest
<1>4. TypeOK'
  BY <1>0, <1>1, <1>3 DEF ReadBackFails, TypeOK, payloadVars
<1>5. WithinSteps'
  BY DEF ReadBackFails, WithinSteps, payloadVars
<1>6. OfMutations'
  BY DEF ReadBackFails, OfMutations, Current, StepOf, TypeOK, payloadVars
<1> QED BY <1>2, <1>4, <1>5, <1>6

(* The read-back announces a step that has an event. *)
LEMMA ReadBackTyped ==
    ASSUME Typed, NEW r \in Requests, ReadBack(r)
    PROVE  Typed'
<1> USE DEF Typed
<1>0. /\ EventOf(r) \in Events /\ RequestOf(EventOf(r)) = r
      /\ dbClient(r)[Current(r).save] \in Nat
  BY CurrentTyped, ClientTyped
<1>1. TypeOKEvents'
  BY DEF ReadBack, TypeOK, TypeOKEvents, eventVars
<1>2. WaitsForLoaders'
  BY DEF ReadBack, WaitsForLoaders, TypeOK
<1>3. \A o \in Requests : AtRest(o)' => \A k \in Keys : cache'[o][k] # Pending
  BY <1>2 DEF WaitsForLoaders, AtRest
<1>4. /\ stage' \in [Events -> {"none", "asked", "read", "emitted", "lost"}]
      /\ savedAt' \in [Events -> Nat]
  BY <1>0 DEF ReadBack, Announce, TypeOK
<1>5. TypeOK'
  BY <1>1, <1>3, <1>4 DEF ReadBack, Announce, TypeOK, historyVars
<1>6. WithinSteps'
  <2>1. EventOf(r)[2] = at[r]
    BY DEF EventOf
  <2>2. \A e \in Events : stage'[e] # "none" => e = EventOf(r) \/ stage[e] # "none"
    BY <1>0 DEF ReadBack, Announce, TypeOK
  <2> QED BY <1>0, <2>1, <2>2 DEF ReadBack, WithinSteps
<1>7. OfMutations'
  <2>1. \A e \in Events : stage'[e] # "none" => e = EventOf(r) \/ stage[e] # "none"
    BY <1>0 DEF ReadBack, Announce, TypeOK
  <2>2. StepOf(EventOf(r)).type # NoEvent
    BY CurrentTyped DEF OfMutations, ReadBack
  <2>3. \A e \in Events : stage'[e] # "none" => StepOf(e)'.type # NoEvent
    BY <2>1, <2>2 DEF OfMutations, ReadBack, StepOf
  <2> QED BY <2>3 DEF ReadBack, OfMutations, Current, TypeOK
<1> QED BY <1>2, <1>5, <1>6, <1>7

(* A loader's step leaves everything but the request alone. *)
LEMMA LoadersTyped ==
    ASSUME Typed, NEW r \in Requests,
           cache' \in [Requests -> [Keys -> Nat \cup {Absent, Pending}]],
           floor' \in [Requests -> [Keys -> Nat \cup {Absent}]],
           \A o \in Requests \ {r} : cache'[o] = cache[o],
           \/ NextStep(r) /\ \A k \in Keys : cache'[r][k] # Pending
           \/ pc' = [pc EXCEPT ![r] = "fetch"] /\ UNCHANGED at,
           UNCHANGED <<writer, replica, op, wrote, payloadVars, historyVars, eventVars>>
    PROVE  Typed'
<1> USE DEF Typed
<1>1. /\ pc' \in [Requests -> {"idle", "write", "readback", "load", "fetch", "done"}]
      /\ at' \in [Requests -> 1..MaxSteps]
      /\ \A o \in Requests : at'[o] <= Len(op[o].steps)
      /\ \A o \in Requests \ {r} : pc'[o] = pc[o]
      /\ pc'[r] = "fetch" \/ \A k \in Keys : cache'[r][k] # Pending
  <2>1. CASE NextStep(r) /\ \A k \in Keys : cache'[r][k] # Pending
    BY <2>1, NextStepTyped
  <2>2. CASE pc' = [pc EXCEPT ![r] = "fetch"] /\ UNCHANGED at
    BY <2>2 DEF TypeOK, WithinSteps
  <2> QED BY <2>1, <2>2
<1>2. TypeOKEvents'
  BY DEF TypeOK, TypeOKEvents, eventVars
<1>3. WaitsForLoaders'
  BY <1>1 DEF WaitsForLoaders
<1>4. \A o \in Requests : AtRest(o)' => \A k \in Keys : cache'[o][k] # Pending
  BY <1>3 DEF WaitsForLoaders, AtRest
<1>5. TypeOK'
  BY <1>1, <1>2, <1>4 DEF TypeOK, payloadVars, historyVars
<1>6. WithinSteps'
  BY <1>1 DEF WithinSteps, payloadVars
<1>7. OfMutations'
  <2>1. /\ pc'[r] = "write" => op[r].steps[at'[r]].type # NoEvent
        /\ pc'[r] # "readback"
        /\ \A o \in Requests \ {r} : at'[o] = at[o]
    <3>1. CASE NextStep(r)
      BY <3>1, NextStepTyped
    <3>2. CASE pc' = [pc EXCEPT ![r] = "fetch"] /\ UNCHANGED at
      BY <3>2 DEF TypeOK
    <3> QED BY <3>1, <3>2
  <2> QED BY <1>1, <2>1 DEF OfMutations, Current, StepOf, payloadVars
<1> QED BY <1>3, <1>5, <1>6, <1>7

(* What a step asks for is pending, and its floors are versions. *)
LEMMA LoadTyped ==
    ASSUME Typed, NEW r \in Requests, Load(r)
    PROVE  Typed'
<1> DEFINE loads == Current(r).loads
<1>1. /\ cache' = [cache EXCEPT ![r] =
             [k \in Keys |-> IF k \in ToFetch(r, loads) THEN Pending ELSE cache[r][k]]]
      /\ floor' = [floor EXCEPT ![r] =
             [k \in Keys |-> IF /\ FilledBy(k) \cap loads # {}
                                /\ k[1] = "tagsByItemId" \/ floor[r][k] = Absent
                             THEN wrote[r][k[2]] ELSE floor[r][k]]]
      /\ pc[r] = "load"
      /\ IF ToFetch(r, loads) = {} THEN NextStep(r)
         ELSE pc' = [pc EXCEPT ![r] = "fetch"] /\ UNCHANGED at
      /\ UNCHANGED <<writer, replica, op, wrote, payloadVars, historyVars, eventVars>>
  BY DEF Load, Typed, TypeOK
<1>2. /\ cache \in [Requests -> [Keys -> Nat \cup {Absent, Pending}]]
      /\ floor \in [Requests -> [Keys -> Nat \cup {Absent}]]
      /\ wrote \in [Requests -> [Saves -> Nat]]
      /\ \A k \in Keys : cache[r][k] # Pending
  BY <1>1 DEF Typed, TypeOK, WaitsForLoaders
<1>3. \A k \in Keys : k[2] \in Saves
  BY DEF Keys
<1> HIDE DEF loads
<1>4. cache' \in [Requests -> [Keys -> Nat \cup {Absent, Pending}]]
  BY <1>1, <1>2
<1>5. floor' \in [Requests -> [Keys -> Nat \cup {Absent}]]
  BY <1>1, <1>2, <1>3
<1>6. \A o \in Requests \ {r} : cache'[o] = cache[o]
  BY <1>1, <1>2
<1>7. ToFetch(r, loads) = {} => \A k \in Keys : cache'[r][k] # Pending
  BY <1>1, <1>2
<1> QED BY <1>1, <1>4, <1>5, <1>6, <1>7, LoadersTyped

(* What a loader answers is of the keys. *)
LEMMA FetchDoneTyped ==
    ASSUME Typed, NEW r \in Requests, NEW loader \in Loaders,
           pc[r] = "fetch", FetchDone(r, loader),
           \A k \in Keys : cache'[r][k] = Pending => k \in Unanswered(r, loader)
    PROVE  \/ NextStep(r) /\ \A k \in Keys : cache'[r][k] # Pending
           \/ pc' = [pc EXCEPT ![r] = "fetch"] /\ UNCHANGED at
<1>1. CASE Unanswered(r, loader) = {}
  BY <1>1 DEF FetchDone
<1>2. CASE Unanswered(r, loader) # {}
  BY <1>2 DEF FetchDone, Typed, TypeOK
<1> QED BY <1>1, <1>2

(* A batch answers each key with the version of its save, and primes the   *)
(* keys of those that are found.                                           *)
LEMMA FetchAnswers ==
    ASSUME Typed, NEW r \in Requests, NEW loader \in Loaders, Fetch(r, loader)
    PROVE  LET rows   == dbClient(r)
               asked  == Asked(r, loader)
               primed == {k \in Primed(loader, {f \in asked : rows[f[2]] > 0}) : cache[r][k] = Absent}
           IN cache' = [cache EXCEPT ![r] =
                 [k \in Keys |-> IF k \in asked \cup primed THEN rows[k[2]] ELSE cache[r][k]]]
<1> DEFINE rows   == dbClient(r)
           asked  == Asked(r, loader)
           answer == reorderResultByKey(asked, rows)
           primed == {k \in Primed(loader, {f \in asked : rows[f[2]] > 0}) : cache[r][k] = Absent}
<1>1. DOMAIN answer = asked /\ \A k \in asked : answer[k] = rows[k[2]]
  BY DEF reorderResultByKey
<1>2. {f \in DOMAIN answer : answer[f] > 0} = {f \in asked : rows[f[2]] > 0}
  BY <1>1
<1>3. cache' = [cache EXCEPT ![r] =
         [k \in Keys |-> IF k \in DOMAIN answer THEN answer[k]
                         ELSE IF k \in primed THEN rows[k[2]] ELSE cache[r][k]]]
  BY <1>2 DEF Fetch, Typed, TypeOK
<1> HIDE DEF rows, asked, answer, primed
<1>4. [k \in Keys |-> IF k \in DOMAIN answer THEN answer[k]
                      ELSE IF k \in primed THEN rows[k[2]] ELSE cache[r][k]]
      = [k \in Keys |-> IF k \in asked \cup primed THEN rows[k[2]] ELSE cache[r][k]]
  BY <1>1
<1>5. cache' = [cache EXCEPT ![r] =
         [k \in Keys |-> IF k \in asked \cup primed THEN rows[k[2]] ELSE cache[r][k]]]
  BY <1>3, <1>4
<1> QED BY <1>5 DEF rows, asked, primed

(* The answer to a batch leaves versions in the caches. *)
LEMMA FetchTyped ==
    ASSUME Typed, NEW r \in Requests, NEW loader \in Loaders, Fetch(r, loader)
    PROVE  Typed'
<1> DEFINE rows   == dbClient(r)
           asked  == Asked(r, loader)
           primed == {k \in Primed(loader, {f \in asked : rows[f[2]] > 0}) : cache[r][k] = Absent}
<1>1. /\ cache' = [cache EXCEPT ![r] =
             [k \in Keys |-> IF k \in asked \cup primed THEN rows[k[2]] ELSE cache[r][k]]]
      /\ pc[r] = "fetch" /\ FetchDone(r, loader)
      /\ UNCHANGED <<writer, replica, op, wrote, floor, payloadVars, historyVars, eventVars>>
  BY FetchAnswers DEF Fetch
<1>2. /\ cache \in [Requests -> [Keys -> Nat \cup {Absent, Pending}]]
      /\ floor \in [Requests -> [Keys -> Nat \cup {Absent}]]
  BY DEF Typed, TypeOK
<1>3. rows \in [Saves -> Nat] /\ \A k \in Keys : k[2] \in Saves
  BY ClientTyped DEF Keys, Typed
<1>4. asked = Asked(r, loader)
  OBVIOUS
<1> HIDE DEF rows, asked, primed
<1>5. cache' \in [Requests -> [Keys -> Nat \cup {Absent, Pending}]]
  BY <1>1, <1>2, <1>3
<1>6. \A o \in Requests \ {r} : cache'[o] = cache[o]
  BY <1>1, <1>2
<1>7. \A k \in Keys : cache'[r][k] = Pending => k \in Unanswered(r, loader)
  BY <1>1, <1>2, <1>3, <1>4, CacheAssumption DEF Unanswered, Asked
<1>8. \/ NextStep(r) /\ \A k \in Keys : cache'[r][k] # Pending
      \/ pc' = [pc EXCEPT ![r] = "fetch"] /\ UNCHANGED at
  BY <1>1, <1>7, FetchDoneTyped
<1> QED BY <1>1, <1>2, <1>5, <1>6, <1>8, LoadersTyped

(* A batch that fails is forgotten, which leaves well-formed caches. *)
LEMMA FetchFailsTyped ==
    ASSUME Typed, NEW r \in Requests, NEW loader \in Loaders, FetchFails(r, loader)
    PROVE  Typed'
<1>1. /\ cache' = [cache EXCEPT ![r] =
             [k \in Keys |-> IF k \in Asked(r, loader) THEN Absent ELSE cache[r][k]]]
      /\ pc[r] = "fetch" /\ FetchDone(r, loader)
      /\ UNCHANGED <<writer, replica, op, wrote, floor, payloadVars, historyVars, eventVars>>
  BY DEF FetchFails, Typed, TypeOK
<1>2. /\ cache \in [Requests -> [Keys -> Nat \cup {Absent, Pending}]]
      /\ floor \in [Requests -> [Keys -> Nat \cup {Absent}]]
  BY DEF Typed, TypeOK
<1>5. cache' \in [Requests -> [Keys -> Nat \cup {Absent, Pending}]]
  BY <1>1, <1>2
<1>6. \A o \in Requests \ {r} : cache'[o] = cache[o]
  BY <1>1, <1>2
<1>7. \A k \in Keys : cache'[r][k] = Pending => k \in Unanswered(r, loader)
  BY <1>1, <1>2, CacheAssumption DEF Unanswered, Asked
<1>8. \/ NextStep(r) /\ \A k \in Keys : cache'[r][k] # Pending
      \/ pc' = [pc EXCEPT ![r] = "fetch"] /\ UNCHANGED at
  BY <1>1, <1>7, FetchDoneTyped
<1> QED BY <1>1, <1>2, <1>5, <1>6, <1>8, LoadersTyped

(* A step that leaves the requests alone and announces no event keeps the  *)
(* types, if it keeps those of what it changes.                            *)
LEMMA EventsTyped ==
    ASSUME Typed, TypeOKEvents',
           writer' = writer, replica' \in [Saves -> Nat], \A s \in Saves : replica'[s] <= writer[s],
           UNCHANGED <<requestVars, savedAt, excused>>,
           stage' \in [Events -> {"none", "asked", "read", "emitted", "lost"}],
           \A e \in Events : stage'[e] # "none" => stage[e] # "none",
           tagsAt' \in [Events -> Nat], last' \in [Saves -> Nat]
    PROVE  Typed'
<1> USE DEF Typed
<1>1. WaitsForLoaders'
  BY DEF WaitsForLoaders, requestVars
<1>2. \A o \in Requests : AtRest(o)' => \A k \in Keys : cache'[o][k] # Pending
  BY <1>1 DEF WaitsForLoaders, AtRest
<1>3. TypeOK'
  BY <1>2 DEF TypeOK, requestVars
<1>4. WithinSteps'
  BY DEF WithinSteps, requestVars
<1>5. OfMutations'
  BY DEF OfMutations, Current, StepOf, requestVars
<1> QED BY <1>1, <1>3, <1>4, <1>5

(* The steps of an event keep every type: one step per action. *)
LEMMA EventStepTyped ==
    ASSUME Typed, NEW e \in Events, EventStep(e)
    PROVE  Typed'
<1> USE DEF payloadVars, historyVars
<1>1. CASE TagsRead(e)
  <2>1. StepOf(e).save \in Saves /\ dbClient(RequestOf(e)) \in [Saves -> Nat]
    BY <1>1, StepOfTyped, ClientTyped DEF TagsRead, Typed
  <2>2. TypeOKEvents'
    BY <1>1 DEF TagsRead, Typed, TypeOK, TypeOKEvents, eventVars
  <2> QED BY <1>1, <2>1, <2>2, EventsTyped DEF TagsRead, Typed, TypeOK
<1>2. CASE TagsFail(e)
  <2>1. TypeOKEvents'
    BY <1>2 DEF TagsFail, Typed, TypeOK, TypeOKEvents, eventVars
  <2> QED BY <1>2, <2>1, EventsTyped DEF TagsFail, Typed, TypeOK
<1>3. CASE Emit(e)
  <2>1. StepOf(e).type \in EventType
    BY <1>3, StepOfTyped DEF Emit, Typed, OfMutations, Step
  <2>2. op[RequestOf(e)].isPremium \in BOOLEAN
    BY <1>3, StepOfTyped, OperationTyped DEF Emit, Typed, TypeOK, Operation
  <2>3. [type |-> StepOf(e).type, isPremium |-> op[RequestOf(e)].isPremium] \in Payload
    BY <2>1, <2>2 DEF Payload
  <2>4. TypeOKEvents'
    BY <1>3, <2>3, EmitTyped DEF Emit, Typed, TypeOK
  <2> QED BY <1>3, <2>4, EventsTyped DEF Emit, Typed, TypeOK
<1>4. CASE Deliver(e)
  <2>1. StepOf(e).save \in Saves
    BY <1>4, StepOfTyped DEF Deliver
  <2>2. TypeOKEvents'
    BY <1>4, PutTyped DEF Deliver, Typed, TypeOK
  <2> QED BY <1>4, <2>1, <2>2, EventsTyped DEF Deliver, Typed, TypeOK
<1>5. CASE DeliveryFails(e)
  <2>1. TypeOKEvents'
    BY <1>5, PutTyped DEF DeliveryFails, Typed, TypeOK
  <2> QED BY <1>5, <2>1, EventsTyped DEF DeliveryFails, Typed, TypeOK
<1> QED BY <1>1, <1>2, <1>3, <1>4, <1>5 DEF EventStep

(* Every step keeps the types. *)
LEMMA NextTyped ==
    ASSUME Typed, [Next]_vars
    PROVE  Typed'
<1>1. ASSUME NEW r \in Requests, Begin(r) PROVE Typed'
  BY <1>1, BeginTyped
<1>2. ASSUME NEW r \in Requests, RequestStep(r) PROVE Typed'
  BY <1>2, MutateTyped, MutationFailsTyped, ReadBackTyped, ReadBackFailsTyped, LoadTyped,
     FetchTyped, FetchFailsTyped DEF RequestStep
<1>3. ASSUME NEW e \in Events, EventStep(e) PROVE Typed'
  BY <1>3, EventStepTyped
<1>4. CASE ProcessNext
  <2>1. TypeOKEvents'
    BY <1>4, ProcessTyped DEF ProcessNext, Typed, TypeOK
  <2> QED BY <1>4, <2>1, EventsTyped DEF ProcessNext, Typed, TypeOK, payloadVars, historyVars
<1>5. ASSUME NEW s \in Saves, Replicate(s) PROVE Typed'
  <2>1. TypeOKEvents'
    BY <1>5 DEF Replicate, Typed, TypeOK, TypeOKEvents, eventVars
  <2>2. replica' \in [Saves -> Nat] /\ \A x \in Saves : replica'[x] <= writer[x]
    BY <1>5 DEF Replicate, Typed, TypeOK
  <2> QED BY <1>5, <2>1, <2>2, EventsTyped DEF Replicate, Typed, TypeOK, payloadVars, historyVars
<1>6. CASE UNCHANGED vars
  <2>1. TypeOKEvents'
    BY <1>6 DEF vars, Typed, TypeOK, TypeOKEvents, eventVars
  <2> QED BY <1>6, <2>1, EventsTyped DEF vars, Typed, TypeOK, payloadVars, historyVars
<1> QED BY <1>1, <1>2, <1>3, <1>4, <1>5, <1>6 DEF Next

(* Type correctness: among it that the replica is never ahead of the       *)
(* writer and that no answered request still waits for a loader.           *)
THEOREM TypeCorrect == Spec => []TypeOK
<1>1. Spec => []Typed
  BY InitTyped, NextTyped, PTL DEF Spec
<1>2. Typed => TypeOK
  BY DEF Typed
<1> QED BY <1>1, <1>2, PTL

-----------------------------------------------------------------------------
(* Payloads and the tracker *)

(* The writer's versions only grow, and so do the replica's. *)
LEMMA VersionsGrow ==
    ASSUME Typed, [Next]_vars
    PROVE  \A s \in Saves : writer'[s] >= writer[s] /\ replica'[s] >= replica[s]
<1> USE DEF Typed, TypeOK
<1>1. ASSUME NEW r \in Requests, Mutate(r)
      PROVE  \A s \in Saves : writer'[s] >= writer[s] /\ replica'[s] >= replica[s]
  BY <1>1, CurrentTyped DEF Mutate
<1>2. ASSUME NEW s \in Saves, Replicate(s)
      PROVE  \A x \in Saves : writer'[x] >= writer[x] /\ replica'[x] >= replica[x]
  BY <1>2 DEF Replicate
<1>3. CASE UNCHANGED <<writer, replica>>
  BY <1>3
<1> QED BY <1>1, <1>2, <1>3 DEF Next, vars, RequestStep, EventStep, Begin, MutationFails, ReadBack,
           ReadBackFails, Load, Fetch, FetchFails, TagsRead, TagsFail, Emit, ProcessNext, Deliver,
           DeliveryFails

(* No step changes what a request does. *)
LEMMA OperationsFixed ==
    ASSUME [Next]_vars
    PROVE  op' = op
BY DEF Next, vars, requestVars, RequestStep, EventStep, Begin, Mutate, MutationFails, ReadBack,
       ReadBackFails, Load, Fetch, FetchFails, TagsRead, TagsFail, Emit, ProcessNext, Deliver,
       DeliveryFails, Replicate

(* What a request's client answers is never older than before. *)
LEMMA ClientGrows ==
    ASSUME Typed, [Next]_vars, NEW r \in Requests, NEW s \in Saves
    PROVE  dbClient(r)'[s] >= dbClient(r)[s]
BY VersionsGrow, OperationsFixed DEF dbClient, contextConnection

(* Of what payloads depend on, a step changes nothing, or it is one of     *)
(* five.                                                                   *)
LEMMA PayloadSteps ==
    ASSUME [Next]_vars
    PROVE  \/ UNCHANGED payloadVars
           \/ \E r \in Requests : ReadBack(r)
           \/ \E e \in Events : TagsRead(e) \/ TagsFail(e) \/ Emit(e)
BY DEF Next, vars, RequestStep, EventStep, Begin, Mutate, MutationFails, ReadBackFails, Load, Fetch,
       FetchFails, ProcessNext, Deliver, DeliveryFails, Replicate

(* A request comes to read back by its write. *)
LEMMA ReadBackFollowsWrite ==
    ASSUME Typed, [Next]_vars, NEW r \in Requests, pc'[r] = "readback"
    PROVE  pc[r] = "readback" \/ Mutate(r)
<1> USE DEF Typed, TypeOK
<1>1. ASSUME NEW o \in Requests, NextStep(o), pc[o] # "readback" PROVE pc[r] = "readback"
  BY <1>1, NextStepTyped
<1>2. ASSUME NEW o \in Requests, Load(o) PROVE pc[r] = "readback"
  BY <1>1, <1>2 DEF Load
<1>3. ASSUME NEW o \in Requests, NEW loader \in Loaders, pc[o] = "fetch", FetchDone(o, loader)
      PROVE pc[r] = "readback"
  BY <1>1, <1>3 DEF FetchDone
<1>4. ASSUME NEW o \in Requests, Begin(o) PROVE pc[r] = "readback"
  BY <1>4 DEF Begin, FirstPc
<1>5. ASSUME NEW o \in Requests, Mutate(o) PROVE pc[r] = "readback" \/ Mutate(r)
  BY <1>5 DEF Mutate
<1>6. ASSUME NEW o \in Requests, MutationFails(o) \/ ReadBack(o) \/ ReadBackFails(o)
      PROVE  pc[r] = "readback"
  BY <1>6 DEF MutationFails, ReadBack, ReadBackFails
<1>7. ASSUME NEW o \in Requests, RequestStep(o) PROVE pc[r] = "readback" \/ Mutate(r)
  BY <1>2, <1>3, <1>5, <1>6, <1>7 DEF RequestStep, Fetch, FetchFails
<1> QED BY <1>4, <1>7 DEF Next, vars, requestVars, EventStep, TagsRead, TagsFail, Emit, ProcessNext,
           Deliver, DeliveryFails, Replicate

(* Each step keeps the writes and the announcements on the writer's        *)
(* connection.                                                             *)
LEMMA WriterKept ==
    ASSUME Typed, UsesWriter, [Next]_vars
    PROVE  UsesWriter'
<1> USE DEF Typed, TypeOK
<1>1. ASSUME NEW r \in Requests, pc'[r] = "readback" PROVE op'[r].text = "mutation"
  BY <1>1, ReadBackFollowsWrite, OperationsFixed DEF UsesWriter, Mutate
<1>2. ASSUME NEW e \in Events, stage'[e] # "none" PROVE op'[RequestOf(e)].text = "mutation"
  <2>1. CASE stage[e] # "none"
    BY <2>1, OperationsFixed DEF UsesWriter
  <2>2. ASSUME NEW r \in Requests, ReadBack(r), stage[e] = "none"
        PROVE  op'[RequestOf(e)].text = "mutation"
    <3>1. e = EventOf(r) /\ RequestOf(e) = r
      BY <1>2, <2>2, CurrentTyped DEF ReadBack, Announce
    <3> QED BY <2>2, <3>1, OperationsFixed DEF UsesWriter, ReadBack
  <2>3. ASSUME NEW f \in Events, TagsRead(f) \/ TagsFail(f) \/ Emit(f)
        PROVE  stage[e] # "none"
    BY <1>2, <2>3 DEF TagsRead, TagsFail, Emit
  <2>4. CASE UNCHANGED payloadVars
    BY <1>2, <2>1, <2>4 DEF payloadVars
  <2> QED BY <2>1, <2>2, <2>3, <2>4, PayloadSteps
<1>3. ASSUME NEW r \in Requests, NEW s \in Saves PROVE wrote'[r][s] <= dbClient(r)'[s]
  <2>0. /\ dbClient(r)[s] \in Nat /\ dbClient(r)'[s] \in Nat /\ wrote[r][s] \in Nat
        /\ wrote[r][s] <= dbClient(r)[s] /\ dbClient(r)'[s] >= dbClient(r)[s]
    <3>1. TypeOK'
      BY NextTyped
    <3>2. dbClient(r)' \in [Saves -> Nat]
      BY <3>1 DEF dbClient, contextConnection
    <3>3. dbClient(r) \in [Saves -> Nat]
      BY ClientTyped
    <3> QED BY <3>2, <3>3, ClientGrows DEF UsesWriter
  <2>1. CASE wrote'[r][s] = wrote[r][s]
    BY <2>0, <2>1
  <2>2. ASSUME NEW o \in Requests, Mutate(o), wrote'[r][s] # wrote[r][s]
        PROVE  wrote'[r][s] <= dbClient(r)'[s]
    <3>1. /\ Current(o).save \in Saves /\ wrote'[r][s] = writer[s] + 1 /\ o = r /\ s = Current(r).save
      BY <2>2, CurrentTyped DEF Mutate
    <3>2. writer'[s] = writer[s] + 1 /\ op'[r].text = "mutation"
      BY <2>2, <3>1 DEF Mutate
    <3> QED BY <3>1, <3>2 DEF dbClient, contextConnection
  <2>3. \/ UNCHANGED wrote
        \/ \E o \in Requests : Mutate(o)
    BY DEF Next, vars, requestVars, RequestStep, EventStep, Begin, MutationFails, ReadBack,
       ReadBackFails, Load, Fetch, FetchFails, TagsRead, TagsFail, Emit, ProcessNext, Deliver,
       DeliveryFails, Replicate
  <2> QED BY <2>1, <2>2, <2>3
<1> QED BY <1>1, <1>2, <1>3 DEF UsesWriter

(* Each step keeps the saves of payloads behind the writer and their tags. *)
LEMMA PayloadsKept ==
    ASSUME Typed, UsesWriter, PayloadsInOrder, [Next]_vars
    PROVE  PayloadsInOrder'
<1> USE DEF Typed, TypeOK
<1>0. op' = op /\ \A e \in Events : StepOf(e)' = StepOf(e)
  BY OperationsFixed DEF StepOf
<1>1. CASE UNCHANGED payloadVars
  <2>1. \A e \in Events : stage[e] = "asked" =>
           /\ writer[StepOf(e).save] \in Nat /\ writer'[StepOf(e).save] \in Nat
           /\ writer'[StepOf(e).save] >= writer[StepOf(e).save]
    BY VersionsGrow, StepOfTyped, NextTyped
  <2>2. \A e \in Events : savedAt[e] \in Nat
    OBVIOUS
  <2> QED BY <1>0, <1>1, <2>1, <2>2 DEF PayloadsInOrder, payloadVars
<1>2. ASSUME NEW r \in Requests, ReadBack(r) PROVE PayloadsInOrder'
  <2>1. /\ EventOf(r) \in Events /\ StepOf(EventOf(r)) = Current(r)
        /\ dbClient(r) = writer
    BY <1>2, CurrentTyped DEF ReadBack, UsesWriter, dbClient, contextConnection
  <2>2. /\ writer' = writer /\ tagsAt' = tagsAt
        /\ stage' = [stage EXCEPT ![EventOf(r)] = "asked"]
        /\ savedAt' = [savedAt EXCEPT ![EventOf(r)] = writer[Current(r).save]]
    BY <1>2, <2>1 DEF ReadBack, Announce
  <2>3. writer[Current(r).save] \in Nat
    BY CurrentTyped
  <2> QED BY <1>0, <2>1, <2>2, <2>3 DEF PayloadsInOrder
<1>3. ASSUME NEW e \in Events, TagsRead(e) PROVE PayloadsInOrder'
  <2>1. stage[e] = "asked" /\ dbClient(RequestOf(e)) = writer
    BY <1>3 DEF TagsRead, UsesWriter, dbClient, contextConnection
  <2>2. savedAt[e] <= writer[StepOf(e).save]
    BY <2>1 DEF PayloadsInOrder
  <2> QED BY <1>0, <1>3, <2>1, <2>2 DEF PayloadsInOrder, TagsRead
<1>4. ASSUME NEW e \in Events, TagsFail(e) PROVE PayloadsInOrder'
  BY <1>0, <1>4 DEF PayloadsInOrder, TagsFail
<1>5. ASSUME NEW e \in Events, Emit(e) PROVE PayloadsInOrder'
  BY <1>0, <1>5 DEF PayloadsInOrder, Emit
<1> QED BY <1>1, <1>2, <1>3, <1>4, <1>5, PayloadSteps

(* An emission finds no microtasks, and leaves those of its own event. *)
LEMMA EmitOwnTracker ==
    ASSUME Typed, OwnTracker, NEW e \in Events, Emit(e)
    PROVE  OwnTracker'
<1> DEFINE data   == [type |-> StepOf(e).type, isPremium |-> op[RequestOf(e)].isPremium]
           called == Listeners(data.type)
           added  == [i \in 1..Len(called) |-> [event |-> e, sink |-> called[i], data |-> data]]
<1>1. /\ microtasks = <<>> /\ microtasks' = microtasks \o added
      /\ tracker' = RequestOf(e) /\ tracked' = tracked
  BY DEF Emit, emitItemEvent, addRequestInfoToTracker, CalledBy, BetweenCallbacks
<1>2. Len(called) \in Nat
  BY DEF Listeners, Sinks
<1> HIDE DEF called
<1>3. Len(added) = Len(called) /\ \A i \in 1..Len(called) : added[i].event = e
  BY <1>2
<1>4. DOMAIN microtasks' = 1..Len(called) /\ \A i \in 1..Len(called) : microtasks'[i] = added[i]
  <2> HIDE DEF added
  <2> QED BY <1>1, <1>2, <1>3
<1>5. \A i \in DOMAIN microtasks' : RequestOf(microtasks'[i].event) = tracker'
  BY <1>1, <1>3, <1>4
<1> QED BY <1>1, <1>5 DEF OwnTracker, TrackedWithOwnRequest

(* A microtask tracks with what the tracker has: its own request. *)
LEMMA ProcessOwnTracker ==
    ASSUME Typed, OwnTracker, Process
    PROVE  OwnTracker'
<1>1. /\ microtasks # <<>> /\ microtasks \in Seq([event: Events, sink: SinkNames, data: Payload])
      /\ tracked \in [Events -> Requests \cup {Nobody}]
  BY DEF Process, track, Typed, TypeOK, TypeOKEvents
<1>2. /\ microtasks' = Tail(microtasks) /\ tracker' = tracker
      /\ \/ tracked' = tracked
         \/ tracked' = [tracked EXCEPT ![Head(microtasks).event] = tracker]
  BY DEF Process, track
<1>3. Head(microtasks) = microtasks[1] /\ 1 \in DOMAIN microtasks
  BY <1>1, HeadTailProperties, EmptySeq, LenProperties
<1>4. RequestOf(Head(microtasks).event) = tracker /\ Head(microtasks).event \in Events
  BY <1>1, <1>3, HeadTyped DEF OwnTracker, Typed, TypeOK
<1>5. \A i \in DOMAIN microtasks' : i + 1 \in DOMAIN microtasks /\ microtasks'[i] = microtasks[i + 1]
  BY <1>1, <1>2, HeadTailProperties, LenProperties
<1>6. \A i \in DOMAIN microtasks' : RequestOf(microtasks'[i].event) = tracker'
  BY <1>2, <1>5 DEF OwnTracker
<1>7. TrackedWithOwnRequest'
  BY <1>1, <1>2, <1>4 DEF OwnTracker, TrackedWithOwnRequest
<1> QED BY <1>6, <1>7 DEF OwnTracker

(* No other step touches the microtasks or the tracker. *)
LEMMA TrackerKept ==
    ASSUME Typed, OwnTracker, [Next]_vars
    PROVE  OwnTracker'
<1>1. CASE UNCHANGED <<microtasks, tracker, tracked>>
  BY <1>1 DEF OwnTracker, TrackedWithOwnRequest
<1>2. ASSUME NEW e \in Events, Emit(e) PROVE OwnTracker'
  BY <1>2, EmitOwnTracker
<1>3. CASE ProcessNext
  BY <1>3, ProcessOwnTracker DEF ProcessNext
<1> QED BY <1>1, <1>2, <1>3 DEF Next, vars, eventVars, RequestStep, EventStep, Begin, Mutate,
           MutationFails, ReadBack, ReadBackFails, Load, Fetch, FetchFails, TagsRead, TagsFail,
           Deliver, DeliveryFails, putEvents, Replicate

-----------------------------------------------------------------------------
(* The loaders *)

(* What a step asks for has no answer yet; what was cached keeps its floor. *)
LEMMA LoadFloors ==
    ASSUME Typed, UsesWriter, Floors, NEW r \in Requests, Load(r)
    PROVE  Floors'
<1> DEFINE loads == Current(r).loads
<1>1. /\ cache' = [cache EXCEPT ![r] =
             [k \in Keys |-> IF k \in ToFetch(r, loads) THEN Pending ELSE cache[r][k]]]
      /\ floor' = [floor EXCEPT ![r] =
             [k \in Keys |-> IF /\ FilledBy(k) \cap loads # {}
                                /\ k[1] = "tagsByItemId" \/ floor[r][k] = Absent
                             THEN wrote[r][k[2]] ELSE floor[r][k]]]
      /\ wrote' = wrote
  BY DEF Load, Typed, TypeOK
<1>2. /\ cache \in [Requests -> [Keys -> Nat \cup {Absent, Pending}]]
      /\ floor \in [Requests -> [Keys -> Nat \cup {Absent}]]
      /\ wrote \in [Requests -> [Saves -> Nat]]
  BY DEF Typed, TypeOK
<1>3. loads \subseteq Keys /\ \A k \in Keys : k[2] \in Saves
  BY CurrentTyped DEF Keys
<1>4. \A k \in Keys : k \in FilledBy(k)
  BY DEF FilledBy
<1>5. \A k \in Keys : k[1] = "tagsByItemId" => FilledBy(k) = {k}
  BY DEF FilledBy
<1>6. \A k \in ToFetch(r, loads) : k \in loads /\ (k[1] = "tagsByItemId" \/ cache[r][k] = Absent)
  BY DEF ToFetch
<1>7. \A k \in loads : k[1] = "tagsByItemId" => k \in ToFetch(r, loads)
  BY DEF ToFetch
<1>8. ASSUME NEW s \in Saves
      PROVE  /\ <<"savedItemsById", s>> \in Keys /\ <<"savedItemsByUrl", s>> \in Keys
             /\ FilledBy(<<"savedItemsById", s>>) \subseteq FilledBy(<<"savedItemsByUrl", s>>)
  BY DEF Keys, Loaders, FilledBy
<1> HIDE DEF loads
<1>9. ASSUME NEW o \in Requests \ {r}, NEW k \in Keys
      PROVE  cache'[o][k] = cache[o][k] /\ floor'[o][k] = floor[o][k]
  BY <1>1, <1>2
<1>10. ASSUME NEW k \in Keys
       PROVE  /\ floor'[r][k] = Absent => cache'[r][k] = Absent
              /\ floor'[r][k] # Absent => floor'[r][k] <= wrote'[r][k[2]]
              /\ (floor'[r][k] # Absent /\ cache'[r][k] \in Nat) => floor'[r][k] <= cache'[r][k]
  <2>1. cache'[r][k] = IF k \in ToFetch(r, loads) THEN Pending ELSE cache[r][k]
    BY <1>1, <1>2
  <2>2. floor'[r][k] = IF FilledBy(k) \cap loads # {} /\ (k[1] = "tagsByItemId" \/ floor[r][k] = Absent)
                       THEN wrote[r][k[2]] ELSE floor[r][k]
    BY <1>1, <1>2
  <2>3. wrote[r][k[2]] \in Nat /\ wrote'[r][k[2]] = wrote[r][k[2]]
    BY <1>1, <1>2, <1>3
  <2>4. CASE FilledBy(k) \cap loads # {} /\ (k[1] = "tagsByItemId" \/ floor[r][k] = Absent)
    <3>1. floor'[r][k] = wrote[r][k[2]]
      BY <2>2, <2>4
    <3>2. cache'[r][k] \notin Nat
      <4>1. CASE k[1] = "tagsByItemId"
        BY <1>5, <1>7, <2>1, <2>4, <4>1, CacheAssumption
      <4>2. CASE k[1] # "tagsByItemId"
        <5>1. cache[r][k] = Absent
          BY <2>4, <4>2 DEF Floors
        <5> QED BY <2>1, <5>1, CacheAssumption
      <4> QED BY <4>1, <4>2
    <3> QED BY <2>3, <3>1, <3>2, CacheAssumption
  <2>5. CASE ~(FilledBy(k) \cap loads # {} /\ (k[1] = "tagsByItemId" \/ floor[r][k] = Absent))
    <3>1. floor'[r][k] = floor[r][k]
      BY <2>2, <2>5
    <3>2. k \in ToFetch(r, loads) => floor[r][k] # Absent
      BY <1>4, <1>6, <2>5
    <3> QED BY <2>1, <2>3, <3>1, <3>2, CacheAssumption DEF Floors
  <2> QED BY <2>4, <2>5
<1>11. ASSUME NEW s \in Saves
       PROVE  floor'[r][<<"savedItemsById", s>>] # Absent => floor'[r][<<"savedItemsByUrl", s>>] # Absent
  <2> DEFINE a == <<"savedItemsById", s>>
             b == <<"savedItemsByUrl", s>>
  <2>1. /\ a \in Keys /\ b \in Keys /\ b[1] # "tagsByItemId" /\ b[2] \in Saves /\ a[1] # "tagsByItemId"
        /\ FilledBy(a) \subseteq FilledBy(b)
    BY <1>8
  <2>2. floor[r][a] # Absent => floor[r][b] # Absent
    BY DEF Floors
  <2> HIDE DEF a, b
  <2>3. /\ floor'[r][a] = IF FilledBy(a) \cap loads # {} /\ floor[r][a] = Absent
                          THEN wrote[r][a[2]] ELSE floor[r][a]
        /\ floor'[r][b] = IF FilledBy(b) \cap loads # {} /\ floor[r][b] = Absent
                          THEN wrote[r][b[2]] ELSE floor[r][b]
    BY <1>1, <1>2, <2>1
  <2>4. wrote[r][b[2]] # Absent
    BY <1>2, <2>1, CacheAssumption
  <2>5. FilledBy(a) \cap loads # {} => FilledBy(b) \cap loads # {}
    BY <2>1
  <2>6. floor'[r][a] # Absent => floor'[r][b] # Absent
    BY <2>2, <2>3, <2>4, <2>5
  <2> QED BY <2>6 DEF a, b
<1>12. \A o \in Requests : \A k \in Keys :
         /\ floor'[o][k] = Absent => cache'[o][k] = Absent
         /\ floor'[o][k] # Absent => floor'[o][k] <= wrote'[o][k[2]]
         /\ (floor'[o][k] # Absent /\ cache'[o][k] \in Nat) => floor'[o][k] <= cache'[o][k]
  BY <1>1, <1>9, <1>10 DEF Floors
<1>13. \A o \in Requests, s \in Saves :
         floor'[o][<<"savedItemsById", s>>] # Absent => floor'[o][<<"savedItemsByUrl", s>>] # Absent
  BY <1>8, <1>9, <1>11 DEF Floors
<1> QED BY <1>12, <1>13 DEF Floors

(* Answers and primed keys are as new as all that the request wrote. *)
LEMMA FetchFloors ==
    ASSUME Typed, UsesWriter, Floors, NEW r \in Requests, NEW loader \in Loaders, Fetch(r, loader)
    PROVE  Floors'
<1> DEFINE rows   == dbClient(r)
           asked  == Asked(r, loader)
           primed == {k \in Primed(loader, {f \in asked : rows[f[2]] > 0}) : cache[r][k] = Absent}
<1>1. /\ cache' = [cache EXCEPT ![r] =
             [k \in Keys |-> IF k \in asked \cup primed THEN rows[k[2]] ELSE cache[r][k]]]
      /\ floor' = floor /\ wrote' = wrote
  BY FetchAnswers DEF Fetch
<1>2. /\ cache \in [Requests -> [Keys -> Nat \cup {Absent, Pending}]]
      /\ floor \in [Requests -> [Keys -> Nat \cup {Absent}]]
      /\ wrote \in [Requests -> [Saves -> Nat]]
      /\ rows \in [Saves -> Nat]
  BY ClientTyped DEF Typed, TypeOK
<1>3. \A k \in Keys : k[2] \in Saves
  BY DEF Keys
<1>4. \A k \in asked : k \in Keys /\ k[1] = loader /\ cache[r][k] = Pending
  BY DEF Asked
<1>5. \A k \in asked : floor[r][k] # Absent
  BY <1>4, CacheAssumption DEF Floors
<1>6. ASSUME NEW k \in primed, k \in Keys PROVE floor[r][k] # Absent
  <2>1. k \in Primed(loader, {f \in asked : rows[f[2]] > 0})
    OBVIOUS
  <2>2. PICK f \in asked : k = <<"savedItemsByUrl", f[2]>> /\ loader = "savedItemsById"
    BY <2>1 DEF Primed
  <2>3. f = <<"savedItemsById", f[2]>> /\ f[2] \in Saves
    BY <1>3, <1>4, <2>2 DEF Keys
  <2> QED BY <1>5, <2>2, <2>3 DEF Floors
<1>7. \A s \in Saves : wrote[r][s] <= rows[s]
  BY DEF UsesWriter
<1> HIDE DEF rows, asked, primed
<1>8. ASSUME NEW o \in Requests, NEW k \in Keys
      PROVE  /\ floor'[o][k] = Absent => cache'[o][k] = Absent
             /\ floor'[o][k] # Absent => floor'[o][k] <= wrote'[o][k[2]]
             /\ (floor'[o][k] # Absent /\ cache'[o][k] \in Nat) => floor'[o][k] <= cache'[o][k]
  <2>1. CASE cache'[o][k] = cache[o][k]
    BY <1>1, <2>1 DEF Floors
  <2>2. CASE cache'[o][k] # cache[o][k]
    <3>1. o = r /\ k \in asked \cup primed /\ cache'[r][k] = rows[k[2]]
      BY <1>1, <1>2, <2>2
    <3>2. floor[r][k] # Absent /\ floor[r][k] \in Nat
      BY <1>2, <1>5, <1>6, <3>1
    <3>3. floor[r][k] <= wrote[r][k[2]] /\ wrote[r][k[2]] \in Nat /\ rows[k[2]] \in Nat
      BY <1>2, <1>3, <3>2 DEF Floors
    <3> QED BY <1>1, <1>3, <1>7, <3>1, <3>2, <3>3
  <2> QED BY <2>1, <2>2
<1>9. \A o \in Requests, s \in Saves :
         floor'[o][<<"savedItemsById", s>>] # Absent => floor'[o][<<"savedItemsByUrl", s>>] # Absent
  BY <1>1 DEF Floors
<1> QED BY <1>8, <1>9 DEF Floors

(* A key that is forgotten has no answer to be too old. *)
LEMMA FetchFailsFloors ==
    ASSUME Typed, Floors, NEW r \in Requests, NEW loader \in Loaders, FetchFails(r, loader)
    PROVE  Floors'
<1>1. /\ cache' = [cache EXCEPT ![r] =
             [k \in Keys |-> IF k \in Asked(r, loader) THEN Absent ELSE cache[r][k]]]
      /\ floor' = floor /\ wrote' = wrote
  BY DEF FetchFails, Typed, TypeOK
<1>2. cache \in [Requests -> [Keys -> Nat \cup {Absent, Pending}]]
  BY DEF Typed, TypeOK
<1>3. \A o \in Requests, k \in Keys : cache'[o][k] \in {Absent, cache[o][k]}
  BY <1>1, <1>2
<1> QED BY <1>1, <1>3, CacheAssumption DEF Floors

(* A write of a request only raises what its floors are bounded by. *)
LEMMA MutateFloors ==
    ASSUME Typed, Floors, NEW r \in Requests, Mutate(r), UsesWriter
    PROVE  Floors'
<1>1. cache' = cache /\ floor' = floor
  BY DEF Mutate
<1>2. \A o \in Requests, s \in Saves : wrote'[o][s] >= wrote[o][s] /\ wrote[o][s] \in Nat /\ wrote'[o][s] \in Nat
  <2>1. ASSUME NEW o \in Requests, NEW s \in Saves PROVE wrote[o][s] <= writer[s]
    <3>1. wrote[o][s] <= dbClient(o)[s] /\ replica[s] <= writer[s] /\ replica[s] \in Nat /\ writer[s] \in Nat
          /\ wrote[o][s] \in Nat
      BY DEF UsesWriter, Typed, TypeOK
    <3> QED BY <3>1 DEF dbClient, contextConnection
  <2> QED BY <2>1, CurrentTyped DEF Mutate, Typed, TypeOK
<1>3. \A k \in Keys : k[2] \in Saves
  BY DEF Keys
<1>4. floor \in [Requests -> [Keys -> Nat \cup {Absent}]]
  BY DEF Typed, TypeOK
<1>5. ASSUME NEW o \in Requests, NEW k \in Keys, floor[o][k] # Absent
      PROVE  floor[o][k] <= wrote'[o][k[2]]
  <2>1. floor[o][k] <= wrote[o][k[2]] /\ floor[o][k] \in Nat
    BY <1>4, <1>5 DEF Floors
  <2> QED BY <1>2, <1>3, <2>1
<1> QED BY <1>1, <1>5 DEF Floors

(* No other step touches a cache, a floor or what a request wrote. *)
LEMMA FloorsKept ==
    ASSUME Typed, UsesWriter, Floors, [Next]_vars
    PROVE  Floors'
<1>1. CASE UNCHANGED <<cache, floor, wrote>>
  BY <1>1 DEF Floors
<1>2. ASSUME NEW r \in Requests, Mutate(r) \/ Load(r) \/ \E loader \in Loaders : Fetch(r, loader) \/ FetchFails(r, loader)
      PROVE  Floors'
  BY <1>2, MutateFloors, LoadFloors, FetchFloors, FetchFailsFloors
<1> QED BY <1>1, <1>2 DEF Next, vars, requestVars, RequestStep, EventStep, Begin, MutationFails,
           ReadBack, ReadBackFails, TagsRead, TagsFail, Emit, ProcessNext, Deliver, DeliveryFails,
           Replicate

-----------------------------------------------------------------------------
(* The theorems *)

IInv == Typed /\ UsesWriter /\ PayloadsInOrder /\ Floors /\ OwnTracker

(* The invariant holds at first, and every step keeps it. *)
LEMMA Inductive == Spec => []IInv
<1>1. Init => IInv
  <2> SUFFICES ASSUME Init PROVE IInv
    OBVIOUS
  <2>1. Typed
    BY InitTyped
  <2>2. UsesWriter
    <3>1. \A r \in Requests, s \in Saves : wrote[r][s] = 0 /\ dbClient(r)[s] \in Nat
      BY <2>1, ClientTyped DEF Init, Typed
    <3>2. \A r \in Requests : pc[r] # "readback"
      BY DEF Init
    <3>3. \A e \in Events : stage[e] = "none"
      BY DEF Init
    <3> QED BY <3>1, <3>2, <3>3 DEF UsesWriter
  <2>3. PayloadsInOrder
    BY DEF Init, PayloadsInOrder
  <2>4. Floors
    BY DEF Init, Floors, Keys, Loaders
  <2>5. OwnTracker
    BY DEF Init, InitEvents, OwnTracker, TrackedWithOwnRequest
  <2> QED BY <2>1, <2>2, <2>3, <2>4, <2>5 DEF IInv
<1>2. IInv /\ [Next]_vars => IInv'
  BY NextTyped, WriterKept, PayloadsKept, FloorsKept, TrackerKept DEF IInv
<1> QED BY <1>1, <1>2, PTL DEF Spec

(* Requests read their own writes, for any operations and any lag of the   *)
(* replica (server/apollo.ts contextConnection, dataLoader/).              *)
THEOREM OwnWritesRead == Spec => []ReadsOwnWrites
<1>1. IInv => ReadsOwnWrites
  <2> SUFFICES ASSUME IInv, NEW r \in Requests, NEW k \in Keys,
                      floor[r][k] # Absent, cache[r][k] \in Nat
               PROVE  cache[r][k] >= floor[r][k]
    BY DEF ReadsOwnWrites
  <2>1. floor[r][k] <= cache[r][k]
    BY DEF IInv, Floors
  <2>2. floor[r][k] \in Nat
    BY DEF IInv, Typed, TypeOK
  <2> QED BY <2>1, <2>2
<1> QED BY <1>1, Inductive, PTL

(* The tags of a payload are never older than the save in it (context.ts   *)
(* emitItemEvent).                                                         *)
THEOREM PayloadsConsistent == Spec => []PayloadTagsNotOlder
<1>1. IInv => PayloadTagsNotOlder
  BY DEF IInv, Typed, TypeOK, PayloadsInOrder, PayloadTagsNotOlder
<1> QED BY <1>1, Inductive, PTL

(* The shared tracker never mixes up requests (snowplowHandler.ts).        *)
THEOREM TrackerNotMixedUp == Spec => []TrackedWithOwnRequest
<1>1. IInv => TrackedWithOwnRequest
  BY DEF IInv, OwnTracker
<1> QED BY <1>1, Inductive, PTL

-----------------------------------------------------------------------------
(* Loads of one save by both of its keys                                   *)

ById(s) == <<"savedItemsById", s>>
ByUrl(s) == <<"savedItemsByUrl", s>>

(* A step so far asks for a save by its url *)
AskedUrl(r, s) == \E i \in 1..at[r] : ByUrl(s) \in op[r].steps[i].loads

(* A step so far asks for it by its url no later than one asks by its id   *)
UrlFirst(r, s) == \E i, j \in 1..at[r] : /\ i <= j
                                         /\ ByUrl(s) \in op[r].steps[i].loads
                                         /\ ById(s) \in op[r].steps[j].loads

(* A key that waits is one of the current step; the loader by url knows of *)
(* a save only what it was asked for or was primed with; and it was primed *)
(* with all that was found by id, unless it had been asked before          *)
Consistent(r, s) ==
    /\ cache[r][ById(s)] = Pending => ById(s) \in Current(r).loads
    /\ cache[r][ByUrl(s)] # Absent => AskedUrl(r, s) \/ cache[r][ById(s)] \in Nat \ {0}
    /\ cache[r][ById(s)] \in Nat \ {0} => cache[r][ByUrl(s)] = cache[r][ById(s)] \/ UrlFirst(r, s)

LoadsAgree == \A r \in Requests, s \in Saves : Consistent(r, s)

(* Requests only go forward in their steps. *)
LEMMA StepsGo ==
    ASSUME Typed, [Next]_vars, NEW r \in Requests
    PROVE  at[r] \in Nat \ {0} /\ at'[r] \in Nat /\ at'[r] >= at[r]
<1>0. at \in [Requests -> 1..MaxSteps] /\ \A o \in Requests : at[o] \in Nat \ {0}
  <2>1. at \in [Requests -> 1..MaxSteps]
    BY DEF Typed, TypeOK
  <2> QED BY <2>1, MaxStepsAssumption
<1>1. ASSUME NEW o \in Requests, NextStep(o) PROVE at'[r] = at[r] \/ at'[r] = at[r] + 1
  BY <1>0, <1>1 DEF NextStep
<1>2. ASSUME NEW o \in Requests, RequestStep(o) PROVE at'[r] = at[r] \/ at'[r] = at[r] + 1
  BY <1>1, <1>2 DEF RequestStep, Mutate, MutationFails, ReadBack, ReadBackFails, Load, Fetch,
     FetchFails, FetchDone
<1>3. at'[r] = at[r] \/ at'[r] = at[r] + 1
  BY <1>2 DEF Next, vars, requestVars, EventStep, Begin, TagsRead, TagsFail, Emit, ProcessNext,
     Deliver, DeliveryFails, Replicate
<1> QED BY <1>0, <1>3

(* What was asked for stays so. *)
LEMMA AskedStays ==
    ASSUME Typed, [Next]_vars, NEW r \in Requests, NEW s \in Saves
    PROVE  /\ AskedUrl(r, s) => AskedUrl(r, s)'
           /\ UrlFirst(r, s) => UrlFirst(r, s)'
           /\ (AskedUrl(r, s) /\ ById(s) \in Current(r).loads) => UrlFirst(r, s)
<1>1. op' = op /\ at[r] \in Nat \ {0} /\ at'[r] \in Nat /\ at'[r] >= at[r]
  BY StepsGo, OperationsFixed
<1>2. at[r] \in 1..at[r] /\ \A i \in 1..at[r] : i \in 1..at'[r] /\ i <= at[r]
  BY <1>1
<1>3. AskedUrl(r, s) => AskedUrl(r, s)'
  BY <1>1, <1>2 DEF AskedUrl, ByUrl
<1>4. UrlFirst(r, s) => UrlFirst(r, s)'
  BY <1>1, <1>2 DEF UrlFirst, ById, ByUrl
<1>5. (AskedUrl(r, s) /\ ById(s) \in Current(r).loads) => UrlFirst(r, s)
  BY <1>2 DEF AskedUrl, UrlFirst, Current
<1> QED BY <1>3, <1>4, <1>5

(* The keys of a save *)
LEMMA KeysOfSave ==
    ASSUME NEW s \in Saves
    PROVE  /\ ById(s) \in Keys /\ ByUrl(s) \in Keys /\ ById(s) # ByUrl(s)
           /\ ById(s)[1] = "savedItemsById" /\ ById(s)[2] = s
           /\ ByUrl(s)[1] = "savedItemsByUrl" /\ ByUrl(s)[2] = s
BY DEF ById, ByUrl, Keys, Loaders

(* Only a load and its answer touch a cache and go on to the next step. *)
LEMMA CacheSteps ==
    ASSUME [Next]_vars
    PROVE  \/ UNCHANGED <<cache, at>>
           \/ \E r \in Requests : \/ Load(r)
                                  \/ \E loader \in Loaders : Fetch(r, loader) \/ FetchFails(r, loader)
BY DEF Next, vars, requestVars, RequestStep, EventStep, Begin, Mutate, MutationFails, ReadBack,
   ReadBackFails, TagsRead, TagsFail, Emit, ProcessNext, Deliver, DeliveryFails, Replicate

(* What a step asks for waits, unless a loader has it. *)
LEMMA LoadAgrees ==
    ASSUME Typed, LoadsAgree, [Next]_vars, NEW r \in Requests, Load(r), NEW s \in Saves
    PROVE  Consistent(r, s)'
<1> DEFINE loads == Current(r).loads
           a == ById(s)
           b == ByUrl(s)
<1>1. /\ cache' = [cache EXCEPT ![r] =
             [k \in Keys |-> IF k \in ToFetch(r, loads) THEN Pending ELSE cache[r][k]]]
      /\ cache \in [Requests -> [Keys -> Nat \cup {Absent, Pending}]]
      /\ \A k \in Keys : cache[r][k] # Pending
      /\ ToFetch(r, loads) # {} => UNCHANGED at
      /\ op' = op
  BY DEF Load, Typed, TypeOK, WaitsForLoaders
<1>2. /\ a \in Keys /\ b \in Keys /\ a[1] # "tagsByItemId" /\ b[1] # "tagsByItemId"
  BY KeysOfSave
<1>3. /\ cache[r][b] # Absent => AskedUrl(r, s) \/ cache[r][a] \in Nat \ {0}
      /\ cache[r][a] \in Nat \ {0} => cache[r][b] = cache[r][a] \/ UrlFirst(r, s)
  BY DEF LoadsAgree, Consistent
<1>4. (AskedUrl(r, s) => AskedUrl(r, s)') /\ (UrlFirst(r, s) => UrlFirst(r, s)')
  BY AskedStays
<1>5. b \in loads => AskedUrl(r, s)
  <2>1. at[r] \in 1..at[r]
    BY StepsGo
  <2> QED BY <2>1 DEF AskedUrl, Current
<1>6. ToFetch(r, loads) # {} => Current(r)' = Current(r)
  BY <1>1 DEF Current
<1> HIDE DEF loads, a, b
<1>7. /\ cache'[r][a] = IF a \in ToFetch(r, loads) THEN Pending ELSE cache[r][a]
      /\ cache'[r][b] = IF b \in ToFetch(r, loads) THEN Pending ELSE cache[r][b]
      /\ cache[r][a] # Pending /\ cache[r][b] # Pending
  BY <1>1, <1>2
<1>8. /\ a \in ToFetch(r, loads) => a \in loads /\ cache[r][a] = Absent
      /\ b \in ToFetch(r, loads) => b \in loads /\ cache[r][b] = Absent
  BY <1>2 DEF ToFetch
<1>9. cache'[r][a] = Pending => a \in Current(r)'.loads
  BY <1>6, <1>7, <1>8 DEF loads
<1>10. cache'[r][b] # Absent => AskedUrl(r, s)' \/ cache'[r][a] \in Nat \ {0}
  BY <1>3, <1>4, <1>5, <1>7, <1>8, CacheAssumption
<1>11. cache'[r][a] \in Nat \ {0} => cache'[r][b] = cache'[r][a] \/ UrlFirst(r, s)'
  BY <1>3, <1>4, <1>7, <1>8, CacheAssumption
<1> QED BY <1>9, <1>10, <1>11 DEF Consistent, a, b, ById, ByUrl

(* A save that is found by its id is primed by its url, which has not been *)
(* asked for.                                                              *)
LEMMA FetchAgrees ==
    ASSUME Typed, LoadsAgree, [Next]_vars, NEW r \in Requests, NEW loader \in Loaders,
           Fetch(r, loader), NEW s \in Saves
    PROVE  Consistent(r, s)'
<1> DEFINE rows   == dbClient(r)
           asked  == Asked(r, loader)
           primed == {k \in Primed(loader, {f \in asked : rows[f[2]] > 0}) : cache[r][k] = Absent}
           a == ById(s)
           b == ByUrl(s)
<1>1. /\ cache' = [cache EXCEPT ![r] =
             [k \in Keys |-> IF k \in asked \cup primed THEN rows[k[2]] ELSE cache[r][k]]]
      /\ cache \in [Requests -> [Keys -> Nat \cup {Absent, Pending}]]
      /\ rows \in [Saves -> Nat]
  BY FetchAnswers, ClientTyped DEF Typed, TypeOK
<1>2. /\ a \in Keys /\ b \in Keys /\ a[1] = "savedItemsById" /\ b[1] = "savedItemsByUrl"
      /\ a[2] = s /\ b[2] = s /\ a # b
  BY KeysOfSave
<1>3. /\ cache[r][a] = Pending => a \in Current(r).loads
      /\ cache[r][b] # Absent => AskedUrl(r, s) \/ cache[r][a] \in Nat \ {0}
      /\ cache[r][a] \in Nat \ {0} => cache[r][b] = cache[r][a] \/ UrlFirst(r, s)
  BY DEF LoadsAgree, Consistent
<1>4. /\ AskedUrl(r, s) => AskedUrl(r, s)'
      /\ UrlFirst(r, s) => UrlFirst(r, s)'
      /\ (AskedUrl(r, s) /\ a \in Current(r).loads) => UrlFirst(r, s)
  BY AskedStays
<1>5. \A k \in Keys : k \in asked <=> (k[1] = loader /\ cache[r][k] = Pending)
  BY DEF Asked
<1>6. a \notin primed
  BY <1>2 DEF Primed
<1>7. b \in primed => a \in asked /\ rows[s] > 0 /\ cache[r][b] = Absent
  <2>1. SUFFICES ASSUME b \in primed PROVE a \in asked /\ rows[s] > 0
    OBVIOUS
  <2>2. PICK f \in asked : rows[f[2]] > 0 /\ b = <<"savedItemsByUrl", f[2]>> /\ loader = "savedItemsById"
    BY <2>1 DEF Primed
  <2>3. f[2] = s
    BY <1>2, <2>2
  <2>4. f \in Keys /\ f[1] = "savedItemsById"
    BY <2>2 DEF Asked
  <2>5. f = a
    BY <2>3, <2>4 DEF Keys, ById
  <2> QED BY <2>2, <2>3, <2>5
<1>8. (a \in asked /\ rows[s] > 0 /\ cache[r][b] = Absent) => b \in primed
  <2>1. SUFFICES ASSUME a \in asked, rows[s] > 0, cache[r][b] = Absent PROVE b \in primed
    OBVIOUS
  <2>2. a \in {f \in asked : rows[f[2]] > 0} /\ loader = "savedItemsById"
    BY <1>2, <1>5, <2>1
  <2>3. b = <<"savedItemsByUrl", a[2]>>
    BY <1>2 DEF ByUrl
  <2> QED BY <2>1, <2>2, <2>3 DEF Primed
<1>9. Unanswered(r, loader) # {} => Current(r)' = Current(r)
  BY DEF Fetch, FetchDone, Current
<1>10. cache[r][a] = Pending /\ a \notin asked => Unanswered(r, loader) # {}
  BY <1>2 DEF Unanswered
<1> HIDE DEF rows, asked, primed, a, b
<1>11. /\ cache'[r][a] = IF a \in asked \cup primed THEN rows[s] ELSE cache[r][a]
       /\ cache'[r][b] = IF b \in asked \cup primed THEN rows[s] ELSE cache[r][b]
  BY <1>1, <1>2
<1>12. /\ cache[r][a] \in Nat \cup {Absent, Pending} /\ cache[r][b] \in Nat \cup {Absent, Pending}
       /\ rows[s] \in Nat
       /\ a \in asked => cache[r][a] = Pending /\ b \notin asked
       /\ b \in asked => cache[r][b] = Pending
  BY <1>1, <1>2, <1>5
<1>13. cache'[r][a] = Pending => a \in Current(r)'.loads
  BY <1>3, <1>6, <1>9, <1>10, <1>11, <1>12, CacheAssumption
<1>14. cache'[r][b] # Absent => AskedUrl(r, s)' \/ cache'[r][a] \in Nat \ {0}
  BY <1>3, <1>4, <1>6, <1>7, <1>11, <1>12, CacheAssumption
<1>15. cache'[r][a] \in Nat \ {0} => cache'[r][b] = cache'[r][a] \/ UrlFirst(r, s)'
  BY <1>3, <1>4, <1>6, <1>7, <1>8, <1>11, <1>12, CacheAssumption
<1> QED BY <1>13, <1>14, <1>15 DEF Consistent, a, b, ById, ByUrl

(* A key that is forgotten had not been found. *)
LEMMA FetchFailsAgrees ==
    ASSUME Typed, LoadsAgree, [Next]_vars, NEW r \in Requests, NEW loader \in Loaders,
           FetchFails(r, loader), NEW s \in Saves
    PROVE  Consistent(r, s)'
<1> DEFINE a == ById(s)
           b == ByUrl(s)
<1>1. /\ cache' = [cache EXCEPT ![r] =
             [k \in Keys |-> IF k \in Asked(r, loader) THEN Absent ELSE cache[r][k]]]
      /\ cache \in [Requests -> [Keys -> Nat \cup {Absent, Pending}]]
  BY DEF FetchFails, Typed, TypeOK
<1>2. a \in Keys /\ b \in Keys
  BY KeysOfSave
<1>3. \A k \in Keys : /\ \/ cache'[r][k] = cache[r][k]
                         \/ cache'[r][k] = Absent /\ cache[r][k] = Pending
                      /\ cache'[r][k] = Pending => k \in Unanswered(r, loader)
  BY <1>1, CacheAssumption DEF Asked, Unanswered
<1>4. /\ cache[r][a] = Pending => a \in Current(r).loads
      /\ cache[r][b] # Absent => AskedUrl(r, s) \/ cache[r][a] \in Nat \ {0}
      /\ cache[r][a] \in Nat \ {0} => cache[r][b] = cache[r][a] \/ UrlFirst(r, s)
  BY DEF LoadsAgree, Consistent
<1>5. (AskedUrl(r, s) => AskedUrl(r, s)') /\ (UrlFirst(r, s) => UrlFirst(r, s)')
  BY AskedStays
<1>6. Unanswered(r, loader) # {} => Current(r)' = Current(r)
  BY DEF FetchFails, FetchDone, Current
<1> HIDE DEF a, b
<1>7. cache'[r][a] = Pending => a \in Current(r)'.loads
  BY <1>2, <1>3, <1>4, <1>6, CacheAssumption
<1>8. cache'[r][b] # Absent => AskedUrl(r, s)' \/ cache'[r][a] \in Nat \ {0}
  BY <1>2, <1>3, <1>4, <1>5, CacheAssumption
<1>9. cache'[r][a] \in Nat \ {0} => cache'[r][b] = cache'[r][a] \/ UrlFirst(r, s)'
  BY <1>2, <1>3, <1>4, <1>5, CacheAssumption
<1> QED BY <1>7, <1>8, <1>9 DEF Consistent, a, b, ById, ByUrl

(* Every step keeps the two loaders of a request consistent. *)
LEMMA LoadsAgreeKept ==
    ASSUME Typed, LoadsAgree, [Next]_vars
    PROVE  LoadsAgree'
<1> SUFFICES ASSUME NEW r \in Requests, NEW s \in Saves PROVE Consistent(r, s)'
  BY DEF LoadsAgree
<1>1. CASE cache'[r] = cache[r] /\ at'[r] = at[r]
  <2>1. /\ cache[r][ById(s)] = Pending => ById(s) \in Current(r).loads
        /\ cache[r][ByUrl(s)] # Absent => AskedUrl(r, s) \/ cache[r][ById(s)] \in Nat \ {0}
        /\ cache[r][ById(s)] \in Nat \ {0} => cache[r][ByUrl(s)] = cache[r][ById(s)] \/ UrlFirst(r, s)
    BY DEF LoadsAgree, Consistent
  <2>2. (AskedUrl(r, s) => AskedUrl(r, s)') /\ (UrlFirst(r, s) => UrlFirst(r, s)')
    BY AskedStays
  <2>3. Current(r)' = Current(r)
    BY <1>1, OperationsFixed DEF Current
  <2> QED BY <1>1, <2>1, <2>2, <2>3 DEF Consistent, ById, ByUrl
<1>2. ASSUME NEW o \in Requests, o # r,
             Load(o) \/ \E loader \in Loaders : Fetch(o, loader) \/ FetchFails(o, loader)
      PROVE  cache'[r] = cache[r] /\ at'[r] = at[r]
  <2>1. NextStep(o) => at'[r] = at[r]
    BY <1>2 DEF NextStep, Typed, TypeOK
  <2> QED BY <1>2, <2>1 DEF Load, Fetch, FetchFails, FetchDone, Typed, TypeOK
<1>3. CASE Load(r)
  BY <1>3, LoadAgrees
<1>4. ASSUME NEW loader \in Loaders, Fetch(r, loader) \/ FetchFails(r, loader)
      PROVE  Consistent(r, s)'
  BY <1>4, FetchAgrees, FetchFailsAgrees
<1> QED BY <1>1, <1>2, <1>3, <1>4, CacheSteps

(* Whatever other requests do in between, and whatever fails, a save that  *)
(* a request finds by its id is there by its url, unless it asked by url   *)
(* no later than by id (savedItemsDataLoader.ts).                          *)
THEOREM LoadsConsistent == Spec => []FoundByIdIsFoundByUrl
<1>1. Init => LoadsAgree
  <2> SUFFICES ASSUME Init, NEW r \in Requests, NEW s \in Saves
               PROVE  cache[r][ById(s)] = Absent /\ cache[r][ByUrl(s)] = Absent
    BY CacheAssumption DEF LoadsAgree, Consistent
  <2> QED BY KeysOfSave DEF Init
<1>2. IInv /\ LoadsAgree /\ [Next]_vars => LoadsAgree'
  BY LoadsAgreeKept DEF IInv
<1>3. LoadsAgree => FoundByIdIsFoundByUrl
  BY DEF LoadsAgree, Consistent, FoundByIdIsFoundByUrl, UrlFirst, ById, ByUrl
<1> QED BY <1>1, <1>2, <1>3, Inductive, PTL DEF Spec

-----------------------------------------------------------------------------
(* The last event on the bus *)

Bus(e) == status[e]["eventBus"]

(* The steps that have announced nothing yet *)
Unannounced(e) ==
    LET r == RequestOf(e)
    IN at[r] < e[2] \/ (at[r] = e[2] /\ pc[r] \in {"idle", "write", "readback"})

(* Each step has its own event, which comes to the bus once: when it is    *)
(* emitted                                                                 *)
EventsInOrder ==
    \A e \in Events :
        /\ Unannounced(e) => stage[e] = "none"
        /\ stage[e] # "emitted" => Bus(e) = "none"

(* What waits for a microtask is pending there, and waits once *)
Queued ==
    /\ \A i \in DOMAIN microtasks :
          /\ stage[microtasks[i].event] = "emitted"
          /\ status[microtasks[i].event][microtasks[i].sink] = "pending"
    /\ \A i, j \in DOMAIN microtasks : microtasks[i].sink = microtasks[j].sink => i = j

OfSave(s) == {e \in Events : stage[e] # "none" /\ StepOf(e).save = s}
Announcing(s) == {r \in Requests : pc[r] = "readback" /\ Current(r).save = s}

(* Of a save that is written only when nothing of it is under way: at most *)
(* one change is on its way to the bus, as a request or as an event; the   *)
(* event has the version of the writer, and so has the last event on the   *)
(* bus when none is on its way                                             *)
ToldInOrder(s) ==
    /\ \A e, f \in UnderWay(s) : e = f
    /\ \A q, r \in Announcing(s) : q = r
    /\ Announcing(s) = {} \/ UnderWay(s) = {}
    /\ \A e \in UnderWay(s) : savedAt[e] = writer[s]
    /\ (Announcing(s) = {} /\ UnderWay(s) = {} /\ \A e \in OfSave(s) : Bus(e) = "delivered")
          => last[s] = writer[s]

Told == EventsInOrder /\ Queued /\ \A s \in Saves \ excused : ToldInOrder(s)

(* The event bus listens to events of every type, as one of the sinks. *)
LEMMA ListenersKnown ==
    ASSUME NEW type
    PROVE  /\ Len(Listeners(type)) \in Nat
           /\ DOMAIN Listeners(type) = 1..Len(Listeners(type))
           /\ \A i \in 1..Len(Listeners(type)) : Listeners(type)[i] \in SinkNames
           /\ \A i, j \in 1..Len(Listeners(type)) : Listeners(type)[i] = Listeners(type)[j] => i = j
           /\ \E i \in 1..Len(Listeners(type)) : Listeners(type)[i] = "eventBus"
<1>1. CASE type = "ADD_ITEM"
  BY <1>1 DEF Listeners, SinkNames, Sinks
<1>2. CASE type # "ADD_ITEM"
  <2>1. Listeners(type) = <<"unifiedEvents", "publisherQueue", "snowplow", "eventBus">>
    BY <1>2 DEF Listeners
  <2>2. \A i \in 1..4 : Listeners(type)[i] \in SinkNames
    BY <2>1 DEF SinkNames, Sinks
  <2> QED BY <2>1, <2>2
<1> QED BY <1>1, <1>2

(* The event bus is a sink. *)
LEMMA BusTyped ==
    ASSUME Typed
    PROVE  status \in [Events -> [SinkNames -> Statuses]] /\ "eventBus" \in SinkNames
<1>1. "eventBus" \in SinkNames
  BY DEF SinkNames, Sinks
<1> QED BY <1>1 DEF Typed, TypeOK, TypeOKEvents

(* An emission makes its event pending at the bus and touches no other. *)
LEMMA EmitQueues ==
    ASSUME Typed, NEW e \in Events, Emit(e)
    PROVE  /\ Bus(e)' = "pending"
           /\ \A f \in Events \ {e} : status'[f] = status[f]
           /\ stage' = [stage EXCEPT ![e] = "emitted"]
           /\ \A i \in DOMAIN microtasks' :
                 /\ microtasks'[i].event = e
                 /\ status'[e][microtasks'[i].sink] = "pending"
           /\ \A i, j \in DOMAIN microtasks' : microtasks'[i].sink = microtasks'[j].sink => i = j
<1> DEFINE data   == [type |-> StepOf(e).type, isPremium |-> op[RequestOf(e)].isPremium]
           called == Listeners(data.type)
           added  == [i \in 1..Len(called) |-> [event |-> e, sink |-> called[i], data |-> data]]
           n      == Len(called)
<1>1. /\ microtasks = <<>> /\ microtasks' = microtasks \o added
      /\ status' = [status EXCEPT ![e] =
            [k \in SinkNames |-> IF \E i \in DOMAIN called : called[i] = k THEN "pending" ELSE "none"]]
      /\ stage' = [stage EXCEPT ![e] = "emitted"]
  BY DEF Emit, emitItemEvent, CalledBy, BetweenCallbacks
<1>2. /\ n \in Nat /\ DOMAIN called = 1..n
      /\ \A i \in 1..n : called[i] \in SinkNames
      /\ \A i, j \in 1..n : called[i] = called[j] => i = j
      /\ \E i \in 1..n : called[i] = "eventBus"
  BY ListenersKnown
<1>3. status \in [Events -> [SinkNames -> Statuses]] /\ "eventBus" \in SinkNames
  BY BusTyped
<1>4. added = [i \in 1..n |-> [event |-> e, sink |-> called[i], data |-> data]]
  OBVIOUS
<1> HIDE DEF called, n, data
<1>5. DOMAIN added = 1..n /\ \A i \in 1..n : added[i].event = e /\ added[i].sink = called[i]
  BY <1>4
<1>6. Len(added) = n /\ added \in Seq({added[i] : i \in 1..n})
  BY <1>2, <1>4
<1> HIDE DEF added
<1>7. DOMAIN microtasks' = 1..n /\ \A i \in 1..n : microtasks'[i] = added[i]
  BY <1>1, <1>2, <1>6
<1>8. status'[e] = [k \in SinkNames |-> IF \E i \in DOMAIN called : called[i] = k THEN "pending" ELSE "none"]
  BY <1>1, <1>3
<1>9. \A i \in 1..n : status'[e][called[i]] = "pending"
  BY <1>2, <1>8
<1>10. Bus(e)' = "pending"
  BY <1>2, <1>9 DEF Bus
<1>11. \A f \in Events \ {e} : status'[f] = status[f]
  BY <1>1, <1>3
<1>12. \A i \in DOMAIN microtasks' :
          i \in 1..n /\ microtasks'[i].event = e /\ microtasks'[i].sink = called[i]
  BY <1>5, <1>7
<1>13. \A i \in DOMAIN microtasks' : status'[e][microtasks'[i].sink] = "pending"
  BY <1>9, <1>12
<1>14. \A i, j \in DOMAIN microtasks' : microtasks'[i].sink = microtasks'[j].sink => i = j
  BY <1>2, <1>12
<1> QED BY <1>1, <1>10, <1>11, <1>12, <1>13, <1>14

(* A microtask changes the status of its event at its sink only, from      *)
(* pending; at the bus every event is sent.                                *)
LEMMA ProcessSends ==
    ASSUME Typed, Queued, Process
    PROVE  \E e \in Events, k \in SinkNames :
              /\ stage[e] = "emitted" /\ status[e][k] = "pending"
              /\ \A f \in Events, l \in SinkNames : (f # e \/ l # k) => status'[f][l] = status[f][l]
              /\ k = "eventBus" => status'[e][k] = "sent"
              /\ \A i \in DOMAIN microtasks' :
                    /\ i \in Nat /\ i + 1 \in DOMAIN microtasks /\ microtasks'[i] = microtasks[i + 1]
                    /\ microtasks'[i].sink \in SinkNames \ {k} /\ microtasks'[i].event \in Events
<1> DEFINE m == Head(microtasks)
<1>1. /\ microtasks # <<>> /\ microtasks \in Seq([event: Events, sink: SinkNames, data: Payload])
      /\ microtasks' = Tail(microtasks)
      /\ status' = [status EXCEPT ![m.event][m.sink] = IF IsSent(m) THEN "sent" ELSE "skipped"]
      /\ status \in [Events -> [SinkNames -> Statuses]]
  BY DEF Process, track, Typed, TypeOK, TypeOKEvents
<1>2. m = microtasks[1] /\ 1 \in DOMAIN microtasks
  BY <1>1, HeadTailProperties, EmptySeq, LenProperties
<1>3. m.event \in Events /\ m.sink \in SinkNames
  BY <1>1, HeadTyped DEF Typed, TypeOK
<1>4. m.sink = "eventBus" => IsSent(m)
  BY DEF IsSent
<1>5. \A i \in DOMAIN microtasks' :
         i \in Nat \ {0} /\ i + 1 \in DOMAIN microtasks /\ microtasks'[i] = microtasks[i + 1]
  BY <1>1, HeadTailProperties, LenProperties
<1>6. \A i \in DOMAIN microtasks : microtasks[i].event \in Events /\ microtasks[i].sink \in SinkNames
  <2>1. microtasks \in Seq([event: Events, sink: SinkNames, data: Payload])
    BY <1>1
  <2>2. \A i \in DOMAIN microtasks : microtasks[i] \in [event: Events, sink: SinkNames, data: Payload]
    BY <2>1, ElementOfSeq, LenProperties
  <2> QED BY <2>2
<1> HIDE DEF m
<1>7. \A i \in DOMAIN microtasks' : microtasks'[i].sink # m.sink
  <2> SUFFICES ASSUME NEW i \in DOMAIN microtasks', microtasks'[i].sink = m.sink PROVE FALSE
    OBVIOUS
  <2>1. i + 1 = 1
    BY <1>2, <1>5 DEF Queued
  <2> QED BY <1>5, <2>1
<1>8. stage[m.event] = "emitted" /\ status[m.event][m.sink] = "pending"
  BY <1>2 DEF Queued
<1>9. \A f \in Events, l \in SinkNames : (f # m.event \/ l # m.sink) => status'[f][l] = status[f][l]
  BY <1>1, <1>3
<1>10. m.sink = "eventBus" => status'[m.event][m.sink] = "sent"
  BY <1>1, <1>3, <1>4
<1> QED BY <1>3, <1>5, <1>6, <1>7, <1>8, <1>9, <1>10

(* No step lets a request announce a step again. *)
LEMMA UnannouncedBefore ==
    ASSUME Typed, [Next]_vars, NEW e \in Events, Unannounced(e)'
    PROVE  Unannounced(e) /\ ~(\E r \in Requests : ReadBack(r) /\ e = EventOf(r))
<1> DEFINE q == RequestOf(e)
           S == {"idle", "write", "readback"}
<1>0. q \in Requests /\ e[2] \in Nat
  BY MaxStepsAssumption DEF Events, RequestOf
<1>1. at[q] \in Nat /\ at'[q] \in Nat /\ at'[q] >= at[q]
  BY <1>0, StepsGo
<1>2. at'[q] < e[2] \/ (at'[q] = e[2] /\ pc'[q] \in S)
  BY DEF Unannounced
<1>3. pc \in [Requests -> {"idle", "write", "readback", "load", "fetch", "done"}]
      /\ at \in [Requests -> 1..MaxSteps]
  BY DEF Typed, TypeOK
<1> HIDE DEF q
<1>4. ASSUME NEW o \in Requests, NextStep(o) PROVE (at'[q] = at[q] /\ pc'[q] \in S) => pc[q] \in S
  <2>1. CASE q # o
    BY <1>0, <1>3, <1>4, <2>1, NextStepTyped
  <2>2. CASE q = o
    BY <1>0, <1>1, <1>3, <1>4, <2>2 DEF NextStep
  <2> QED BY <2>1, <2>2
<1>5. ASSUME NEW o \in Requests, RequestStep(o) PROVE (at'[q] = at[q] /\ pc'[q] \in S) => pc[q] \in S
  <2>1. CASE Load(o)
    BY <1>0, <1>3, <1>4, <2>1 DEF Load
  <2>2. ASSUME NEW loader \in Loaders, FetchDone(o, loader)
        PROVE  (at'[q] = at[q] /\ pc'[q] \in S) => pc[q] \in S
    BY <1>4, <2>2 DEF FetchDone
  <2>3. CASE Mutate(o) \/ MutationFails(o) \/ ReadBack(o) \/ ReadBackFails(o)
    BY <1>0, <1>3, <2>3 DEF Mutate, MutationFails, ReadBack, ReadBackFails
  <2> QED BY <1>5, <2>1, <2>2, <2>3 DEF RequestStep, Fetch, FetchFails
<1>6. (at'[q] = at[q] /\ pc'[q] \in S) => pc[q] \in S
  <2>1. ASSUME NEW o \in Requests, Begin(o) PROVE (at'[q] = at[q] /\ pc'[q] \in S) => pc[q] \in S
    BY <1>0, <1>3, <2>1 DEF Begin
  <2>2. CASE pc' = pc
    BY <2>2
  <2> QED BY <1>5, <2>1, <2>2 DEF Next, vars, requestVars, EventStep, TagsRead, TagsFail, Emit,
             ProcessNext, Deliver, DeliveryFails, Replicate
<1>7. Unannounced(e)
  BY <1>0, <1>1, <1>2, <1>6 DEF Unannounced, q
<1>8. ASSUME NEW r \in Requests, ReadBack(r), e = EventOf(r) PROVE FALSE
  <2>1. q = r /\ e[2] = at[r] /\ at'[r] = at[r] /\ pc'[r] = "load"
    BY <1>3, <1>8 DEF ReadBack, EventOf, RequestOf, q
  <2> QED BY <1>0, <1>1, <1>2, <2>1
<1> QED BY <1>7, <1>8

(* An event gets a stage by the read-back of its step only. *)
LEMMA StageFrom ==
    ASSUME Typed, [Next]_vars, NEW e \in Events, stage'[e] # "none"
    PROVE  stage[e] # "none" \/ \E r \in Requests : ReadBack(r) /\ e = EventOf(r)
<1> USE DEF Typed, TypeOK
<1>1. ASSUME NEW r \in Requests, ReadBack(r), stage[e] = "none" PROVE e = EventOf(r)
  BY <1>1, CurrentTyped DEF ReadBack, Announce
<1>2. ASSUME NEW f \in Events, TagsRead(f) \/ TagsFail(f) \/ Emit(f) PROVE stage[e] # "none"
  BY <1>2 DEF TagsRead, TagsFail, Emit
<1> QED BY <1>1, <1>2, PayloadSteps DEF payloadVars

(* Of events and microtasks, a step changes nothing, or it is one of some. *)
LEMMA BusSteps ==
    ASSUME [Next]_vars
    PROVE  \/ UNCHANGED <<stage, status, microtasks>>
           \/ UNCHANGED <<status, microtasks>> /\ microtasks = <<>>
              /\ \/ \E r \in Requests : ReadBack(r)
                 \/ \E e \in Events : TagsRead(e) \/ TagsFail(e)
           \/ \E e \in Events : Emit(e)
           \/ Process /\ UNCHANGED stage
           \/ \E e \in Events, outcome \in {"delivered", "failed"} :
                 putEvents(e, outcome) /\ UNCHANGED stage
<1> USE DEF eventVars, payloadVars, BetweenCallbacks
<1>1. ASSUME NEW r \in Requests, RequestStep(r)
      PROVE  UNCHANGED <<stage, status, microtasks>> \/ (UNCHANGED <<status, microtasks>> /\ microtasks = <<>> /\ ReadBack(r))
  BY <1>1 DEF RequestStep, Mutate, MutationFails, ReadBack, ReadBackFails, Load, Fetch, FetchFails
<1>2. ASSUME NEW e \in Events, EventStep(e)
      PROVE  \/ UNCHANGED <<status, microtasks>> /\ microtasks = <<>> /\ (TagsRead(e) \/ TagsFail(e))
             \/ Emit(e)
             \/ \E outcome \in {"delivered", "failed"} : putEvents(e, outcome) /\ UNCHANGED stage
  BY <1>2 DEF EventStep, TagsRead, TagsFail, Deliver, DeliveryFails
<1>3. ASSUME NEW r \in Requests, Begin(r) PROVE UNCHANGED <<stage, status, microtasks>>
  BY <1>3 DEF Begin
<1>4. ASSUME NEW s \in Saves, Replicate(s) PROVE UNCHANGED <<stage, status, microtasks>>
  BY <1>4 DEF Replicate
<1>5. CASE ProcessNext
  BY <1>5 DEF ProcessNext
<1>6. CASE UNCHANGED vars
  BY <1>6 DEF vars
<1> QED BY <1>1, <1>2, <1>3, <1>4, <1>5, <1>6 DEF Next

(* Each step keeps what waits for a microtask pending. *)
LEMMA QueuedKept ==
    ASSUME Typed, Queued, [Next]_vars
    PROVE  Queued'
<1>1. CASE UNCHANGED <<stage, status, microtasks>>
  BY <1>1 DEF Queued
<1>2. CASE microtasks' = <<>>
  BY <1>2 DEF Queued
<1>3. ASSUME NEW e \in Events, Emit(e) PROVE Queued'
  <2>1. stage'[e] = "emitted"
    BY <1>3 DEF Emit, Typed, TypeOK
  <2> QED BY <1>3, <2>1, EmitQueues DEF Queued
<1>4. CASE Process /\ UNCHANGED stage
  <2>1. PICK e \in Events, k \in SinkNames :
              /\ \A f \in Events, l \in SinkNames : (f # e \/ l # k) => status'[f][l] = status[f][l]
              /\ \A i \in DOMAIN microtasks' :
                    /\ i \in Nat /\ i + 1 \in DOMAIN microtasks /\ microtasks'[i] = microtasks[i + 1]
                    /\ microtasks'[i].sink \in SinkNames \ {k} /\ microtasks'[i].event \in Events
    BY <1>4, ProcessSends
  <2>2. \A i \in DOMAIN microtasks' :
           /\ stage'[microtasks'[i].event] = "emitted"
           /\ status'[microtasks'[i].event][microtasks'[i].sink] = "pending"
    BY <1>4, <2>1 DEF Queued
  <2>3. ASSUME NEW i \in DOMAIN microtasks', NEW j \in DOMAIN microtasks',
               microtasks'[i].sink = microtasks'[j].sink
        PROVE  i = j
    <3>1. i + 1 = j + 1
      BY <2>1, <2>3 DEF Queued
    <3>2. i \in Nat /\ j \in Nat
      BY <2>1
    <3> QED BY <3>1, <3>2
  <2> QED BY <2>2, <2>3 DEF Queued
<1>5. ASSUME NEW e \in Events, NEW outcome \in {"delivered", "failed"}, putEvents(e, outcome)
      PROVE  microtasks' = <<>>
  BY <1>5 DEF putEvents, BetweenCallbacks
<1> QED BY <1>1, <1>2, <1>3, <1>4, <1>5, BusSteps

(* Each step keeps the events in order. *)
LEMMA EventsInOrderKept ==
    ASSUME Typed, EventsInOrder, Queued, [Next]_vars
    PROVE  EventsInOrder'
<1> SUFFICES ASSUME NEW e \in Events
             PROVE  /\ Unannounced(e)' => stage'[e] = "none"
                    /\ stage'[e] # "emitted" => Bus(e)' = "none"
  BY DEF EventsInOrder
<1>0. /\ stage \in [Events -> {"none", "asked", "read", "emitted", "lost"}]
      /\ status \in [Events -> [SinkNames -> Statuses]]
      /\ "eventBus" \in SinkNames
  BY BusTyped DEF Typed, TypeOK
<1>1. Unannounced(e)' => stage'[e] = "none"
  BY UnannouncedBefore, StageFrom DEF EventsInOrder
<1>2. ASSUME status' = status, stage[e] # "emitted" PROVE Bus(e)' = "none"
  BY <1>2 DEF EventsInOrder, Bus
<1>3. CASE UNCHANGED <<stage, status, microtasks>>
  BY <1>1, <1>3 DEF EventsInOrder, Bus
<1>4. ASSUME NEW r \in Requests, ReadBack(r), status' = status, stage'[e] # "emitted"
      PROVE  Bus(e)' = "none"
  <2>1. stage[e] # "emitted"
    <3>1. CASE e = EventOf(r)
      <4>1. Unannounced(e)
        BY <1>4, <3>1 DEF Unannounced, ReadBack, EventOf, RequestOf
      <4> QED BY <4>1 DEF EventsInOrder
    <3>2. CASE e # EventOf(r)
      BY <1>0, <1>4, <3>2 DEF ReadBack, Announce
    <3> QED BY <3>1, <3>2
  <2> QED BY <1>2, <1>4, <2>1
<1>5. ASSUME NEW f \in Events, TagsRead(f) \/ TagsFail(f), status' = status, stage'[e] # "emitted"
      PROVE  Bus(e)' = "none"
  <2>1. stage[e] # "emitted"
    BY <1>0, <1>5 DEF TagsRead, TagsFail
  <2> QED BY <1>2, <1>5, <2>1
<1>6. ASSUME NEW f \in Events, Emit(f), stage'[e] # "emitted"
      PROVE  Bus(e)' = "none"
  <2>1. e # f /\ stage[e] = stage'[e] /\ status'[e] = status[e]
    BY <1>0, <1>6, EmitQueues
  <2> QED BY <1>6, <2>1 DEF EventsInOrder, Bus
<1>7. ASSUME Process, UNCHANGED stage, stage'[e] # "emitted" PROVE Bus(e)' = "none"
  <2>1. PICK f \in Events, k \in SinkNames :
              /\ stage[f] = "emitted"
              /\ \A g \in Events, l \in SinkNames : (g # f \/ l # k) => status'[g][l] = status[g][l]
    BY <1>7, ProcessSends
  <2> QED BY <1>0, <1>7, <2>1 DEF EventsInOrder, Bus
<1>8. ASSUME NEW f \in Events, NEW outcome \in {"delivered", "failed"},
             putEvents(f, outcome), UNCHANGED stage, stage'[e] # "emitted"
      PROVE  Bus(e)' = "none"
  <2>1. Bus(f) = "sent"
    BY <1>8 DEF putEvents, Bus
  <2>2. e # f
    BY <1>8, <2>1 DEF EventsInOrder
  <2> QED BY <1>0, <1>8, <2>2 DEF EventsInOrder, putEvents, Bus
<1> QED BY <1>1, <1>3, <1>4, <1>5, <1>6, <1>7, <1>8, BusSteps

(* Asked for, or handed to the bus and not answered *)
OnItsWay(e) == stage[e] \in {"asked", "read"} \/ Bus(e) \in {"pending", "sent"}

(* What is told of a save depends on what is on its way to the bus, on its *)
(* versions and on what the bus has.                                       *)
LEMMA ToldFrame ==
    ASSUME NEW s \in Saves, ToldInOrder(s), op' = op,
           writer'[s] = writer[s], last'[s] = last[s],
           Announcing(s)' = Announcing(s),
           \A e \in Events : StepOf(e).save = s =>
              /\ stage'[e] = "none" <=> stage[e] = "none"
              /\ savedAt'[e] = savedAt[e]
              /\ stage[e] # "none" =>
                    /\ OnItsWay(e)' <=> OnItsWay(e)
                    /\ Bus(e)' = "delivered" => Bus(e) = "delivered"
    PROVE  ToldInOrder(s)'
<1>1. \A e \in Events : StepOf(e)' = StepOf(e)
  BY DEF StepOf
<1>2. OfSave(s)' = OfSave(s)
  BY <1>1 DEF OfSave
<1>3. UnderWay(s)' = UnderWay(s)
  <2>1. UnderWay(s) = {e \in OfSave(s) : OnItsWay(e)}
    BY DEF UnderWay, OfSave, OnItsWay, Bus
  <2>2. UnderWay(s)' = {e \in OfSave(s)' : OnItsWay(e)'}
    BY DEF UnderWay, OfSave, OnItsWay, Bus
  <2> QED BY <1>2, <2>1, <2>2 DEF OfSave
<1>4. \A e \in UnderWay(s) : savedAt'[e] = savedAt[e]
  BY DEF UnderWay
<1>5. (\A e \in OfSave(s) : Bus(e)' = "delivered") => \A e \in OfSave(s) : Bus(e) = "delivered"
  BY DEF OfSave
<1>6. /\ \A e, f \in UnderWay(s) : e = f
      /\ \A q, r \in Announcing(s) : q = r
      /\ Announcing(s) = {} \/ UnderWay(s) = {}
      /\ \A e \in UnderWay(s) : savedAt[e] = writer[s]
      /\ (Announcing(s) = {} /\ UnderWay(s) = {} /\ \A e \in OfSave(s) : Bus(e) = "delivered")
            => last[s] = writer[s]
  BY DEF ToldInOrder
<1> QED BY <1>2, <1>3, <1>4, <1>5, <1>6 DEF ToldInOrder

(* The one event that is under way settles; the bus has its version, or    *)
(* not the event.                                                          *)
LEMMA ToldSettled ==
    ASSUME NEW s \in Saves, ToldInOrder(s), op' = op,
           writer'[s] = writer[s], Announcing(s)' = Announcing(s),
           NEW e \in UnderWay(s), stage'[e] \notin {"none", "asked", "read"},
           Bus(e)' \notin {"pending", "sent"},
           Bus(e)' = "delivered" => last'[s] = savedAt[e],
           \A f \in Events \ {e} : stage'[f] = stage[f] /\ Bus(f)' = Bus(f)
    PROVE  ToldInOrder(s)'
<1>1. \A f \in Events : StepOf(f)' = StepOf(f)
  BY DEF StepOf
<1>2. e \in OfSave(s)'
  BY <1>1 DEF OfSave, UnderWay
<1>3. UnderWay(s)' = {}
  <2> SUFFICES ASSUME NEW f \in Events, stage'[f] # "none", StepOf(f)'.save = s,
                      stage'[f] \in {"asked", "read"} \/ Bus(f)' \in {"pending", "sent"}
               PROVE  FALSE
    BY DEF UnderWay, Bus
  <2>1. f # e
    OBVIOUS
  <2>2. f \in UnderWay(s)
    BY <1>1, <2>1 DEF UnderWay, Bus
  <2> QED BY <2>1, <2>2 DEF ToldInOrder
<1>4. Announcing(s) = {} /\ savedAt[e] = writer[s] /\ \A q, r \in Announcing(s) : q = r
  BY DEF ToldInOrder
<1> QED BY <1>2, <1>3, <1>4 DEF ToldInOrder

(* What a request does outside of its read-back announces nothing. *)
LEMMA AnnouncingKept ==
    ASSUME Typed, op' = op, NEW r \in Requests, pc[r] # "readback", pc'[r] # "readback",
           \A o \in Requests \ {r} : pc'[o] = pc[o] /\ at'[o] = at[o]
    PROVE  \A s \in Saves : Announcing(s)' = Announcing(s)
<1>1. \A o \in Requests : pc'[o] = "readback" \/ pc[o] = "readback" => pc'[o] = pc[o] /\ Current(o)' = Current(o)
  BY DEF Current
<1> QED BY <1>1 DEF Announcing

(* A commit is told of when nothing of its save is under way, or it        *)
(* excuses the save.                                                       *)
LEMMA MutateTold ==
    ASSUME Typed, NEW r \in Requests, Mutate(r), NEW s \in Saves \ excused', ToldInOrder(s)
    PROVE  ToldInOrder(s)'
<1>1. /\ op' = op /\ at' = at /\ stage' = stage /\ savedAt' = savedAt /\ last' = last
      /\ status' = status
      /\ pc[r] = "write" /\ pc' = [pc EXCEPT ![r] = "readback"]
      /\ writer' = [writer EXCEPT ![Current(r).save] = @ + 1]
      /\ excused' = IF UnderWay(Current(r).save) = {} /\ Announcing(Current(r).save) = {}
                    THEN excused ELSE excused \cup {Current(r).save}
  BY DEF Mutate, Announcing, payloadVars, eventVars
<1>2. /\ pc \in [Requests -> {"idle", "write", "readback", "load", "fetch", "done"}]
      /\ writer \in [Saves -> Nat] /\ Current(r).save \in Saves
  BY CurrentTyped DEF Typed, TypeOK
<1>3. \A o \in Requests : Current(o)' = Current(o)
  BY <1>1 DEF Current
<1>4. CASE Current(r).save = s
  <2>1. UnderWay(s) = {} /\ Announcing(s) = {}
    BY <1>1, <1>4
  <2>2. UnderWay(s)' = UnderWay(s)
    BY <1>1 DEF UnderWay, StepOf
  <2>3. Announcing(s)' = {r}
    <3>1. \A o \in Requests : o \in Announcing(s)' <=> o = r
      BY <1>1, <1>2, <1>3, <1>4, <2>1 DEF Announcing
    <3> QED BY <3>1 DEF Announcing
  <2> QED BY <2>1, <2>2, <2>3 DEF ToldInOrder
<1>5. CASE Current(r).save # s
  <2>1. writer'[s] = writer[s]
    BY <1>1, <1>2, <1>5
  <2>2. Announcing(s)' = Announcing(s)
    BY <1>1, <1>2, <1>3, <1>5 DEF Announcing
  <2> QED BY <1>1, <2>1, <2>2, ToldFrame DEF OnItsWay, Bus
<1> QED BY <1>4, <1>5

(* A request that reads its save back announces the writer's version. *)
LEMMA ReadBackTold ==
    ASSUME Typed, UsesWriter, EventsInOrder, NEW r \in Requests, ReadBack(r),
           NEW s \in Saves, ToldInOrder(s)
    PROVE  ToldInOrder(s)'
<1> DEFINE e == EventOf(r)
<1>1. /\ e \in Events /\ StepOf(e) = Current(r) /\ dbClient(r) = writer
      /\ RequestOf(e) = r /\ e[2] = at[r]
  BY CurrentTyped DEF ReadBack, UsesWriter, dbClient, contextConnection, EventOf
<1>2. /\ op' = op /\ at' = at /\ writer' = writer /\ last' = last /\ status' = status
      /\ pc[r] = "readback" /\ pc' = [pc EXCEPT ![r] = "load"]
      /\ stage' = [stage EXCEPT ![e] = "asked"]
      /\ savedAt' = [savedAt EXCEPT ![e] = writer[Current(r).save]]
  BY <1>1 DEF ReadBack, Announce, eventVars, historyVars
<1>3. /\ pc \in [Requests -> {"idle", "write", "readback", "load", "fetch", "done"}]
      /\ stage \in [Events -> {"none", "asked", "read", "emitted", "lost"}]
      /\ savedAt \in [Events -> Nat]
  BY DEF Typed, TypeOK
<1>4. \A f \in Events : StepOf(f)' = StepOf(f)
  BY <1>2 DEF StepOf
<1>5. \A o \in Requests : Current(o)' = Current(o)
  BY <1>2 DEF Current
<1>6. stage[e] = "none" /\ Bus(e) = "none"
  <2>1. Unannounced(e)
    BY <1>1, <1>2 DEF Unannounced
  <2> QED BY <1>1, <2>1 DEF EventsInOrder
<1> HIDE DEF e
<1>7. CASE Current(r).save = s
  <2>1. r \in Announcing(s)
    BY <1>2, <1>7 DEF Announcing
  <2>2. Announcing(s) = {r} /\ UnderWay(s) = {}
    BY <2>1 DEF ToldInOrder
  <2>3. Announcing(s)' = {}
    <3>1. \A o \in Requests : o \notin Announcing(s)'
      BY <1>2, <1>3, <1>5, <2>2 DEF Announcing
    <3> QED BY <3>1 DEF Announcing
  <2>4. UnderWay(s)' = {e}
    <3>1. \A f \in Events \ {e} : f \notin UnderWay(s)'
      BY <1>2, <1>3, <1>4, <2>2 DEF UnderWay
    <3>2. e \in UnderWay(s)'
      BY <1>1, <1>2, <1>3, <1>4, <1>7 DEF UnderWay
    <3> QED BY <3>1, <3>2 DEF UnderWay
  <2>5. savedAt'[e] = writer'[s]
    BY <1>1, <1>2, <1>3, <1>7
  <2> QED BY <2>3, <2>4, <2>5 DEF ToldInOrder
<1>8. CASE Current(r).save # s
  <2>1. Announcing(s)' = Announcing(s)
    BY <1>2, <1>3, <1>5, <1>8 DEF Announcing
  <2>2. \A f \in Events : StepOf(f).save = s => stage'[f] = stage[f] /\ savedAt'[f] = savedAt[f]
    BY <1>1, <1>2, <1>3, <1>8
  <2>3. \A f \in Events : Bus(f)' = Bus(f)
    BY <1>2 DEF Bus
  <2> QED BY <1>2, <2>1, <2>2, <2>3, ToldFrame DEF OnItsWay
<1> QED BY <1>7, <1>8

(* A read-back that fails excuses its save. *)
LEMMA ReadBackFailsTold ==
    ASSUME Typed, NEW r \in Requests, ReadBackFails(r), NEW s \in Saves \ excused', ToldInOrder(s)
    PROVE  ToldInOrder(s)'
<1>1. /\ op' = op /\ at' = at /\ writer' = writer /\ last' = last /\ status' = status
      /\ stage' = stage /\ savedAt' = savedAt
      /\ pc' = [pc EXCEPT ![r] = "done"] /\ excused' = excused \cup {Current(r).save}
  BY DEF ReadBackFails, payloadVars, eventVars
<1>2. Current(r).save # s /\ pc \in [Requests -> {"idle", "write", "readback", "load", "fetch", "done"}]
  BY <1>1 DEF Typed, TypeOK
<1>3. Announcing(s)' = Announcing(s)
  <2>1. \A o \in Requests : Current(o)' = Current(o)
    BY <1>1 DEF Current
  <2> QED BY <1>1, <1>2, <2>1 DEF Announcing
<1> QED BY <1>1, <1>3, ToldFrame DEF OnItsWay, Bus

(* The other steps of a request announce nothing. *)
LEMMA RequestTold ==
    ASSUME Typed, NEW r \in Requests,
           \/ Begin(r) \/ MutationFails(r) \/ Load(r)
           \/ \E loader \in Loaders : Fetch(r, loader) \/ FetchFails(r, loader),
           NEW s \in Saves, ToldInOrder(s)
    PROVE  ToldInOrder(s)'
<1>1. UNCHANGED <<op, writer, last, status, stage, savedAt>>
  BY DEF Begin, MutationFails, Load, Fetch, FetchFails, payloadVars, historyVars, eventVars
<1>2. /\ pc[r] # "readback" /\ pc'[r] # "readback"
      /\ \A o \in Requests \ {r} : pc'[o] = pc[o] /\ at'[o] = at[o]
  <2>1. /\ pc \in [Requests -> {"idle", "write", "readback", "load", "fetch", "done"}]
        /\ at \in [Requests -> 1..MaxSteps]
    BY DEF Typed, TypeOK
  <2>2. CASE Begin(r) \/ MutationFails(r)
    BY <2>1, <2>2 DEF Begin, MutationFails, FirstPc
  <2>3. CASE Load(r)
    BY <2>1, <2>3, NextStepTyped DEF Load
  <2>4. ASSUME NEW loader \in Loaders, pc[r] = "fetch", FetchDone(r, loader)
        PROVE  /\ pc[r] # "readback" /\ pc'[r] # "readback"
               /\ \A o \in Requests \ {r} : pc'[o] = pc[o] /\ at'[o] = at[o]
    BY <2>1, <2>4, NextStepTyped DEF FetchDone
  <2> QED BY <2>2, <2>3, <2>4 DEF Fetch, FetchFails
<1>3. Announcing(s)' = Announcing(s)
  BY <1>1, <1>2, AnnouncingKept
<1> QED BY <1>1, <1>3, ToldFrame DEF OnItsWay, Bus

(* The steps of an event: its payload waits, or it settles. *)
LEMMA EventTold ==
    ASSUME Typed, EventsInOrder, NEW e \in Events, EventStep(e), NEW s \in Saves, ToldInOrder(s)
    PROVE  ToldInOrder(s)'
<1>1. UNCHANGED <<op, pc, at, writer, savedAt>>
  BY DEF EventStep, TagsRead, TagsFail, Emit, Deliver, DeliveryFails, requestVars, payloadVars
<1>2. Announcing(s)' = Announcing(s)
  BY <1>1 DEF Announcing, Current
<1>3. /\ stage \in [Events -> {"none", "asked", "read", "emitted", "lost"}]
      /\ status \in [Events -> [SinkNames -> Statuses]] /\ "eventBus" \in SinkNames
      /\ last \in [Saves -> Nat]
  BY BusTyped DEF Typed, TypeOK
<1>4. stage[e] # "emitted" => Bus(e) = "none"
  BY DEF EventsInOrder
<1>5. CASE TagsRead(e)
  <2>1. /\ stage' = [stage EXCEPT ![e] = "read"] /\ stage[e] = "asked"
        /\ last' = last /\ status' = status
    BY <1>5 DEF TagsRead, historyVars, eventVars
  <2> QED BY <1>1, <1>2, <1>3, <2>1, ToldFrame DEF OnItsWay, Bus
<1>6. CASE Emit(e)
  <2>1. /\ stage[e] = "read" /\ stage' = [stage EXCEPT ![e] = "emitted"] /\ last' = last
        /\ Bus(e)' = "pending" /\ \A f \in Events \ {e} : status'[f] = status[f]
    BY <1>6, EmitQueues DEF Emit, historyVars
  <2>2. /\ stage'[e] = "emitted" /\ OnItsWay(e) /\ OnItsWay(e)' /\ Bus(e)' # "delivered"
        /\ \A f \in Events \ {e} : stage'[f] = stage[f] /\ Bus(f)' = Bus(f)
    BY <1>3, <2>1 DEF OnItsWay, Bus
  <2> QED BY <1>1, <1>2, <2>1, <2>2, ToldFrame DEF OnItsWay
<1>7. CASE Deliver(e) \/ DeliveryFails(e) \/ TagsFail(e)
  <2>1. /\ stage[e] # "none" /\ (stage[e] = "asked" \/ Bus(e) = "sent")
        /\ stage'[e] \in {"emitted", "lost"}
        /\ Bus(e)' \notin {"pending", "sent"}
        /\ Bus(e)' = "delivered" => last' = [last EXCEPT ![StepOf(e).save] = savedAt[e]]
        /\ \A f \in Events \ {e} : stage'[f] = stage[f] /\ Bus(f)' = Bus(f)
        /\ last' = [last EXCEPT ![StepOf(e).save] = savedAt[e]] \/ last' = last
    <3>1. CASE TagsFail(e)
      <4>1. status' = status /\ stage[e] = "asked" /\ stage' = [stage EXCEPT ![e] = "lost"] /\ last' = last
        BY <3>1 DEF TagsFail, eventVars, historyVars
      <4> QED BY <1>3, <1>4, <4>1 DEF Bus
    <3>2. ASSUME NEW outcome \in {"delivered", "failed"}, putEvents(e, outcome), stage' = stage,
                 IF outcome = "delivered" THEN last' = [last EXCEPT ![StepOf(e).save] = savedAt[e]]
                                          ELSE last' = last
          PROVE  /\ Bus(e) = "sent" /\ stage[e] = "emitted" /\ stage'[e] = "emitted"
                 /\ Bus(e)' = outcome /\ \A f \in Events \ {e} : stage'[f] = stage[f] /\ Bus(f)' = Bus(f)
      <4>1. Bus(e) = "sent" /\ Bus(e)' = outcome /\ \A f \in Events \ {e} : Bus(f)' = Bus(f)
        BY <1>3, <3>2 DEF putEvents, Bus
      <4>2. stage[e] = "emitted"
        BY <1>4, <4>1
      <4> QED BY <3>2, <4>1, <4>2
    <3> QED BY <1>7, <3>1, <3>2 DEF Deliver, DeliveryFails, payloadVars, historyVars
  <2>2. CASE StepOf(e).save = s
    <3>1. e \in UnderWay(s)
      BY <2>1, <2>2 DEF UnderWay, Bus
    <3>2. Bus(e)' = "delivered" => last'[s] = savedAt[e]
      BY <1>3, <2>1, <2>2
    <3> QED BY <1>1, <1>2, <2>1, <3>1, <3>2, ToldSettled
  <2>3. CASE StepOf(e).save # s
    <3>1. last'[s] = last[s]
      BY <1>3, <2>1, <2>3
    <3>2. \A f \in Events : StepOf(f).save = s => stage'[f] = stage[f] /\ Bus(f)' = Bus(f)
      BY <2>1, <2>3
    <3> QED BY <1>1, <1>2, <3>1, <3>2, ToldFrame DEF OnItsWay
  <2> QED BY <2>2, <2>3
<1> QED BY <1>5, <1>6, <1>7 DEF EventStep

(* A microtask does not take an event off its way to the bus. *)
LEMMA ProcessTold ==
    ASSUME Typed, Queued, ProcessNext, NEW s \in Saves, ToldInOrder(s)
    PROVE  ToldInOrder(s)'
<1>1. Process /\ UNCHANGED <<op, pc, at, writer, last, stage, savedAt>>
  BY DEF ProcessNext, requestVars, payloadVars, historyVars
<1>2. Announcing(s)' = Announcing(s)
  BY <1>1 DEF Announcing, Current
<1>3. PICK e \in Events, k \in SinkNames :
         /\ status[e][k] = "pending"
         /\ \A f \in Events, l \in SinkNames : (f # e \/ l # k) => status'[f][l] = status[f][l]
         /\ k = "eventBus" => status'[e][k] = "sent"
  BY <1>1, ProcessSends
<1>4. \A f \in Events :
         Bus(f)' = Bus(f) \/ (Bus(f) = "pending" /\ Bus(f)' = "sent")
  <2> SUFFICES ASSUME NEW f \in Events
               PROVE  Bus(f)' = Bus(f) \/ (Bus(f) = "pending" /\ Bus(f)' = "sent")
    OBVIOUS
  <2>1. "eventBus" \in SinkNames
    BY BusTyped
  <2>2. CASE f = e /\ k = "eventBus"
    BY <1>3, <2>2 DEF Bus
  <2>3. CASE f # e \/ k # "eventBus"
    BY <1>3, <2>1, <2>3 DEF Bus
  <2> QED BY <2>2, <2>3
<1> QED BY <1>1, <1>2, <1>4, ToldFrame DEF OnItsWay

(* A save is never taken out of the excused. *)
LEMMA ExcusedStay ==
    ASSUME [Next]_vars
    PROVE  excused \subseteq excused'
<1>1. ASSUME NEW r \in Requests, Mutate(r) \/ ReadBackFails(r) PROVE excused \subseteq excused'
  BY <1>1 DEF Mutate, ReadBackFails
<1>2. CASE excused' = excused
  BY <1>2
<1> QED BY <1>1, <1>2 DEF Next, vars, historyVars, RequestStep, EventStep, Begin, MutationFails,
           ReadBack, Load, Fetch, FetchFails, TagsRead, TagsFail, Emit, ProcessNext, Deliver,
           DeliveryFails, Replicate

(* Every step tells of the saves that are not excused in order. *)
LEMMA ToldKept ==
    ASSUME Typed, UsesWriter, Told, [Next]_vars
    PROVE  Told'
<1>1. EventsInOrder' /\ Queued'
  BY QueuedKept, EventsInOrderKept DEF Told
<1>2. ASSUME NEW s \in Saves \ excused' PROVE ToldInOrder(s)'
  <2>1. ToldInOrder(s) /\ EventsInOrder /\ Queued
    BY ExcusedStay DEF Told
  <2>2. ASSUME NEW r \in Requests, Begin(r) \/ RequestStep(r) PROVE ToldInOrder(s)'
    BY <2>1, <2>2, RequestTold, MutateTold, ReadBackTold, ReadBackFailsTold DEF RequestStep
  <2>3. ASSUME NEW e \in Events, EventStep(e) PROVE ToldInOrder(s)'
    BY <2>1, <2>3, EventTold
  <2>4. CASE ProcessNext
    BY <2>1, <2>4, ProcessTold
  <2>5. CASE UNCHANGED <<op, pc, at, writer, last, status, stage, savedAt>>
    <3>1. Announcing(s)' = Announcing(s)
      BY <2>5 DEF Announcing, Current
    <3> QED BY <2>1, <2>5, <3>1, ToldFrame DEF OnItsWay, Bus
  <2>6. ASSUME NEW x \in Saves, Replicate(x)
        PROVE  UNCHANGED <<op, pc, at, writer, last, status, stage, savedAt>>
    BY <2>6 DEF Replicate, requestVars, payloadVars, historyVars, eventVars
  <2>7. CASE UNCHANGED vars
    BY <2>5, <2>7 DEF vars, requestVars, payloadVars, historyVars, eventVars
  <2> QED BY <2>2, <2>3, <2>4, <2>5, <2>6, <2>7 DEF Next
<1> QED BY <1>1, <1>2 DEF Told

(* The last event of a save that the bus has got tells of its current      *)
(* state, unless an event of it was lost or it was written while one was   *)
(* under way (context.ts emitItemEvent, eventConsumer/eventBridge).        *)
THEOREM LastEventCurrent == Spec => []LastEventIsCurrent
<1>1. Init => Told
  <2> SUFFICES ASSUME Init PROVE Told
    OBVIOUS
  <2>1. EventsInOrder /\ \A e \in Events : stage[e] = "none"
    <3>1. "eventBus" \in SinkNames
      BY DEF SinkNames, Sinks
    <3> QED BY <3>1 DEF Init, InitEvents, EventsInOrder, Bus
  <2>2. Queued
    BY DEF Init, InitEvents, Queued
  <2>3. ASSUME NEW s \in Saves PROVE ToldInOrder(s)
    <3>1. UnderWay(s) = {} /\ Announcing(s) = {} /\ last = writer
      BY <2>1 DEF Init, UnderWay, Announcing
    <3> QED BY <3>1 DEF ToldInOrder
  <2> QED BY <2>1, <2>2, <2>3 DEF Told
<1>2. IInv /\ Told /\ [Next]_vars => Told'
  BY ToldKept DEF IInv
<1>3. Told => LastEventIsCurrent
  <2> SUFFICES ASSUME Told, NEW s \in Saves, UnderWay(s) = {}, \A r \in Requests : AtRest(r),
                      s \notin excused, \A e \in OfSave(s) : Bus(e) = "delivered"
               PROVE  last[s] = writer[s]
    BY DEF LastEventIsCurrent, OfSave, Bus
  <2>1. Announcing(s) = {}
    BY DEF Announcing, AtRest
  <2> QED BY <2>1 DEF Told, ToldInOrder
<1> QED BY <1>1, <1>2, <1>3, Inductive, PTL DEF Spec
=============================================================================
