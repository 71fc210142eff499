------------------------------ MODULE Requests ------------------------------
(***************************************************************************)
(* Payment requests: DaimoRequest.sol on the L2, and requestIndexer.ts,    *)
(* which replays its events into memory while declines, kept in Postgres   *)
(* only, arrive from the phones.  Handlers await between reading an entry  *)
(* and writing it, and the entries are shared objects, so both the map and *)
(* the objects it points to are modelled.  Loads that overlap or fail are  *)
(* the subject of IndexWatcher.  A definition introduced as a slip is a    *)
(* wrong form of the one after it and not part of the specification.       *)
(***************************************************************************)
EXTENDS Naturals, Sequences

CONSTANTS
    Ids,           \* request ids
    Addressed,     \* those addressed to a fulfiller, who may decline
    Calls,         \* bound: declineRequest calls under way at once
    MaxRestarts    \* bound: restarts of the API

ASSUME RequestsAssumption ==
    /\ Ids # {} /\ Addressed \subseteq Ids
    /\ MaxRestarts \in Nat

VARIABLES
    requests,      \* DaimoRequest.requests: the status of every id
    log,           \* its events, oldest first
    declined,      \* table declined_requests
    phase,         \* of the API: "boot" until requestIndexer.init has run, then "serving"
    bootTip,       \* how many events the index database had when the API started
    loaded,        \* how many of them have been loaded
    batch,         \* the load under way: its last event, its stage, the handlers awaiting
    entry,         \* RequestIndexer.requests: which object an id maps to
    state,         \* state[id][obj]: the status field of that object
    call,          \* call[c]: one declineRequest
    restarts       \* restarts so far

chainVars == <<requests, log>>
loadVars == <<phase, bootTip, loaded, batch, restarts>>
vars == <<chainVars, declined, loadVars, entry, state, call>>

Status == {"none", "pending", "fulfilled", "cancelled"}
Event == [name : {"RequestCreated", "RequestFulfilled", "RequestCancelled"}, id : Ids]

\* The object made by handleRequestCreated, and the copy of it made by declineRequest.
Object == {"original", "copy"}
State == {"none", "created", "fulfilled", "cancelled", "declined"}

\* A handler that awaits getEAccount with the object it has read from the map.
Handler == [id : Ids, obj : Object]
Call == [pc : {"idle", "checking", "inserting", "inserted"}, id : Ids, obj : Object]
NoBatch == [to |-> 0, stage |-> "none", waiting |-> {}]
NoCall == [pc |-> "idle", id |-> CHOOSE r \in Ids : TRUE, obj |-> "original"]

TypeOK ==
    /\ requests \in [Ids -> Status]
    /\ log \in Seq(Event)
    /\ declined \subseteq Addressed
    /\ phase \in {"boot", "serving"}
    /\ bootTip \in 0..Len(log) /\ loaded \in 0..Len(log)
    /\ batch \in [to : 0..Len(log), stage : {"none", "created", "fulfilled"},
                 waiting : SUBSET Handler]
    /\ entry \in [Ids -> Object \cup {"none"}]
    /\ state \in [Ids -> [Object -> State]]
    /\ call \in [Calls -> Call]
    /\ restarts \in 0..MaxRestarts

Empty == [id \in Ids |-> [o \in Object |-> "none"]]

Init ==
    /\ requests = [id \in Ids |-> "none"] /\ log = <<>> /\ declined = {}
    /\ phase = "boot" /\ bootTip = 0 /\ loaded = 0 /\ batch = NoBatch /\ restarts = 0
    /\ entry = [id \in Ids |-> "none"] /\ state = Empty
    /\ call = [c \in Calls |-> NoCall]

-----------------------------------------------------------------------------
(* DaimoRequest.  The token transfer of fulfillRequest succeeds or reverts the whole call. *)

Emit(e, id) == log' = Append(log, [name |-> e, id |-> id])

CreateRequest(id) ==
    /\ requests[id] = "none"
    /\ requests' = [requests EXCEPT ![id] = "pending"]
    /\ Emit("RequestCreated", id)
    /\ UNCHANGED <<declined, loadVars, entry, state, call>>

\* Slip: a cancelled request may still be fulfilled.
SettleAgain(id) == requests[id] \in {"pending", "cancelled"}

\* Both updateRequest and fulfillRequest want a pending request.
MaySettle(id) == requests[id] = "pending"

\* updateRequest to Fulfilled by the recipient, or fulfillRequest by anyone.
Fulfill(id) ==
    /\ MaySettle(id)
    /\ requests' = [requests EXCEPT ![id] = "fulfilled"]
    /\ Emit("RequestFulfilled", id)
    /\ UNCHANGED <<declined, loadVars, entry, state, call>>

\* updateRequest to Cancelled by the recipient.
Cancel(id) ==
    /\ MaySettle(id)
    /\ requests' = [requests EXCEPT ![id] = "cancelled"]
    /\ Emit("RequestCancelled", id)
    /\ UNCHANGED <<declined, loadVars, entry, state, call>>

-----------------------------------------------------------------------------
(* RequestIndexer.load: creations, then fulfilments, then cancellations of a range *)

RowsOf(e, from, to) == {id \in Ids : \E k \in from..to : log[k] = [name |-> e, id |-> id]}

LoadStart ==
    /\ batch.stage = "none"
    /\ \E to \in loaded + 1..Len(log) :
          batch' = [to |-> to, stage |-> "created",
                    waiting |-> [id : RowsOf("RequestCreated", loaded + 1, to),
                                 obj : {"original"}]]
    /\ UNCHANGED <<chainVars, declined, phase, bootTip, loaded, restarts, entry, state, call>>

\* The rest of handleRequestCreated, after getEAccount: the entry appears.
Created(h) ==
    /\ batch.stage = "created" /\ h \in batch.waiting
    /\ batch' = [batch EXCEPT !.waiting = @ \ {h}]
    /\ state' = [state EXCEPT ![h.id][h.obj] = "created"]
    /\ entry' = [entry EXCEPT ![h.id] = h.obj]
    /\ UNCHANGED <<chainVars, declined, phase, bootTip, loaded, restarts, call>>

\* Slip: fulfilments are handled while creations are still being awaited.
CreationsStillAwaited == TRUE

CreationsDone == batch.waiting = {}

\* handleRequestsFulfilled reads the entries of its rows, missing ones are dropped.
Fulfillments ==
    /\ batch.stage = "created" /\ CreationsDone
    /\ batch' = [batch EXCEPT
                   !.stage = "fulfilled",
                   !.waiting = {[id |-> id, obj |-> entry[id]] :
                                   id \in {r \in RowsOf("RequestFulfilled", loaded + 1, batch.to) :
                                               entry[r] # "none"}}]
    /\ UNCHANGED <<chainVars, declined, phase, bootTip, loaded, restarts, entry, state, call>>

\* After getEAccount it changes the object it has read and maps the id to it.
Fulfilled(h) ==
    /\ batch.stage = "fulfilled" /\ h \in batch.waiting
    /\ batch' = [batch EXCEPT !.waiting = @ \ {h}]
    /\ state' = [state EXCEPT ![h.id][h.obj] = "fulfilled"]
    /\ entry' = [entry EXCEPT ![h.id] = h.obj]
    /\ UNCHANGED <<chainVars, declined, phase, bootTip, loaded, restarts, call>>

\* handleRequestsCancelled awaits nothing, and ends the load.
Cancellations ==
    /\ batch.stage = "fulfilled" /\ batch.waiting = {}
    /\ LET rows == {r \in RowsOf("RequestCancelled", loaded + 1, batch.to) : entry[r] # "none"}
       IN  state' = [id \in Ids |-> [o \in Object |->
                       IF id \in rows /\ o = entry[id] THEN "cancelled" ELSE state[id][o]]]
    /\ loaded' = batch.to
    /\ batch' = NoBatch
    /\ UNCHANGED <<chainVars, declined, phase, bootTip, restarts, entry, call>>

-----------------------------------------------------------------------------
(* RequestIndexer.init and restarts *)

\* Slip: declines are read before the chain has been replayed.
ReplayStarted == TRUE

\* server.ts awaits watcher.init, which loads what the database has, before the other inits.
Replayed == loaded >= bootTip

\* The rows of declined_requests are put on top of what has been replayed.
InitDeclined ==
    /\ phase = "boot"
    /\ Replayed
    /\ phase' = "serving"
    /\ state' = [id \in Ids |-> [o \in Object |->
                   IF id \in declined /\ o = entry[id] THEN "declined" ELSE state[id][o]]]
    /\ UNCHANGED <<chainVars, declined, bootTip, loaded, batch, restarts, entry, call>>

Restart ==
    /\ restarts < MaxRestarts
    /\ restarts' = restarts + 1
    /\ phase' = "boot" /\ bootTip' = Len(log) /\ loaded' = 0 /\ batch' = NoBatch
    /\ entry' = [id \in Ids |-> "none"] /\ state' = Empty
    /\ call' = [c \in Calls |-> NoCall]
    /\ UNCHANGED <<chainVars, declined>>

-----------------------------------------------------------------------------
(* RequestIndexer.declineRequest.  A call for an unknown id, or by anybody but the expected *)
(* fulfiller, changes nothing.                                                              *)

\* Slip: a request addressed to nobody may be declined.
DeclinableByAnyone(id) == TRUE

\* The fulfiller named in the request's metadata, if any.
HasFulfiller(id) == id \in Addressed

\* It reads the entry and awaits the fulfiller's account.
Decline(c, id) ==
    /\ phase = "serving"
    /\ call[c].pc = "idle"
    /\ entry[id] # "none"
    /\ HasFulfiller(id)
    /\ call' = [call EXCEPT ![c] = [pc |-> "checking", id |-> id, obj |-> entry[id]]]
    /\ UNCHANGED <<chainVars, declined, loadVars, entry, state>>

\* Only a request that is neither settled nor declined.
Declinable(c) == state[call[c].id][call[c].obj] = "created"

DeclineChecked(c) ==
    /\ call[c].pc = "checking"
    /\ call' = [call EXCEPT ![c] = IF Declinable(c) THEN [@ EXCEPT !.pc = "inserting"]
                                                    ELSE NoCall]
    /\ UNCHANGED <<chainVars, declined, loadVars, entry, state>>

\* The row is new: request_id is the primary key.
Insert(c) == call[c].id \notin declined /\ declined' = declined \cup {call[c].id}

DeclineInserted(c) ==
    /\ call[c].pc = "inserting"
    /\ Insert(c)
    /\ call' = [call EXCEPT ![c].pc = "inserted"]
    /\ UNCHANGED <<chainVars, loadVars, entry, state>>

\* A second row for the id: the query rejects and the call with it.
DeclineRejected(c) ==
    /\ call[c].pc = "inserting"
    /\ call[c].id \in declined
    /\ call' = [call EXCEPT ![c] = NoCall]
    /\ UNCHANGED <<chainVars, declined, loadVars, entry, state>>

\* The id is mapped to a copy of the object read before both awaits.
DeclineDone(c) ==
    /\ call[c].pc = "inserted"
    /\ state' = [state EXCEPT ![call[c].id]["copy"] = "declined"]
    /\ entry' = [entry EXCEPT ![call[c].id] = "copy"]
    /\ call' = [call EXCEPT ![c] = NoCall]
    /\ UNCHANGED <<chainVars, declined, loadVars>>

-----------------------------------------------------------------------------
Load ==
    \/ LoadStart \/ Fulfillments \/ Cancellations
    \/ \E h \in batch.waiting : Created(h) \/ Fulfilled(h)

Next ==
    \/ \E id \in Ids : CreateRequest(id) \/ Fulfill(id) \/ Cancel(id)
    \/ Load \/ InitDeclined \/ Restart
    \/ \E c \in Calls : \/ \E id \in Ids : Decline(c, id)
                        \/ DeclineChecked(c) \/ DeclineInserted(c) \/ DeclineRejected(c)
                        \/ DeclineDone(c)

Spec == Init /\ [][Next]_vars

\* The watcher keeps loading, and getEAccount answers: it catches what ENS throws.
FairSpec == Spec /\ WF_vars(Load)

-----------------------------------------------------------------------------
(* Properties *)

\* What the API answers for an id.
Shown(id) == IF entry[id] = "none" THEN "none" ELSE state[id][entry[id]]

\* The API's word for a status of the contract.
StateOf == [none |-> "none", pending |-> "created",
            fulfilled |-> "fulfilled", cancelled |-> "cancelled"]

Idle == phase = "serving" /\ batch.stage = "none" /\ loaded = Len(log)

\* Between loads, a request that nobody declined is shown as it is on chain, although a
\* load handles its rows by kind and not in the order of the chain.
FollowsChain ==
    Idle => \A id \in Ids \ declined : Shown(id) = StateOf[requests[id]]

\* A decline that is shown survives a restart: it is in the database.
DeclinedIsStored == \A id \in Ids : Shown(id) = "declined" => id \in declined

\* A declined request is never open again, for all that is reordered, restarted or declined
\* twice.
DeclineRemembered ==
    \A id \in declined :
        phase = "serving" /\ (\A c \in Calls : call[c].pc = "inserted" => call[c].id # id)
            => Shown(id) \notin {"none", "created"}

\* The API learns in the end that a request is no longer open.
SettledIsShown ==
    \A id \in Ids : requests[id] \in {"fulfilled", "cancelled"}
                      ~> Shown(id) \notin {"none", "created"}

\* "skipping decline for id: status" (requestIndexer.ts:315): a decline leaves a request
\* that is already fulfilled or cancelled as it is.
DeclineSkipsSettled ==
    [][\A id \in Ids : Shown(id) \in {"fulfilled", "cancelled"}
                         => Shown(id)' # "declined"]_vars

=============================================================================
