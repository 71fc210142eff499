--------------------------- MODULE RequestsProofs ---------------------------
(***************************************************************************)
(* Proofs about Requests, for any set of ids, any number of concurrent     *)
(* declines and of restarts.                                               *)
(***************************************************************************)
EXTENDS Requests, SequenceTheorems, TLAPS

USE RequestsAssumption DEF RequestsAssumption

-----------------------------------------------------------------------------
(* Types, in parts that the steps change together *)

ChainTypes == requests \in [Ids -> Status] /\ log \in Seq(Event)

LoadTypes ==
    /\ phase \in {"boot", "serving"}
    /\ bootTip \in 0..Len(log) /\ loaded \in 0..Len(log)
    /\ batch \in [to : 0..Len(log), stage : {"none", "created", "fulfilled"},
                  waiting : SUBSET Handler]
    /\ restarts \in 0..MaxRestarts

EntryTypes ==
    /\ entry \in [Ids -> Object \cup {"none"}]
    /\ state \in [Ids -> [Object -> State]]

CallTypes ==
    /\ declined \subseteq Addressed
    /\ call \in [Calls -> Call]
    /\ \A c \in Calls : call[c].pc # "idle" => call[c].id \in Addressed

Types == ChainTypes /\ LoadTypes /\ EntryTypes /\ CallTypes

LEMMA TypesSuffice == Types => TypeOK
BY Zenon DEF Types, TypeOK, ChainTypes, LoadTypes, EntryTypes, CallTypes

LEMMA NoCallType == NoCall \in Call /\ NoCall.pc = "idle"
BY DEF NoCall, Call, Object

LEMMA EmptyType == Empty \in [Ids -> [Object -> State]]
BY DEF Empty, State

\* A handler or a decline sets the status of one object and maps the id to it.
LEMMA SetFacts ==
    ASSUME EntryTypes, NEW id \in Ids, NEW o \in Object, NEW v \in State,
           state' = [state EXCEPT ![id][o] = v], entry' = [entry EXCEPT ![id] = o]
    PROVE  /\ EntryTypes'
           /\ state'[id][o] = v /\ entry'[id] = o
           /\ \A p \in Object \ {o} : state'[id][p] = state[id][p]
           /\ \A i \in Ids \ {id} : state'[i] = state[i] /\ entry'[i] = entry[i]
<1>1. state' = [state EXCEPT ![id] = [state[id] EXCEPT ![o] = v]]
  OBVIOUS
<1>2. state[id] \in [Object -> State] /\ [state[id] EXCEPT ![o] = v] \in [Object -> State]
  BY DEF EntryTypes
<1> QED
  BY <1>1, <1>2 DEF EntryTypes

LEMMA HandlerType == LoadTypes => \A h \in batch.waiting : h.id \in Ids /\ h.obj \in Object
BY DEF LoadTypes, Handler

\* The chain only grows.
LEMMA EmitFacts ==
    ASSUME log \in Seq(Event), NEW id \in Ids,
           NEW e \in {"RequestCreated", "RequestFulfilled", "RequestCancelled"}, Emit(e, id)
    PROVE  /\ log' \in Seq(Event)
           /\ Len(log) \in Nat /\ Len(log') = Len(log) + 1
           /\ \A k \in 1..Len(log) : log'[k] = log[k]
           /\ log'[Len(log) + 1] = [name |-> e, id |-> id]
<1>1. [name |-> e, id |-> id] \in Event
  BY DEF Event
<1> QED
  BY <1>1 DEF Emit

LEMMA ChainTypesStep == ChainTypes /\ [Next]_vars => ChainTypes'
<1> SUFFICES ASSUME ChainTypes, [Next]_vars PROVE ChainTypes'
  OBVIOUS
<1> USE DEF ChainTypes
<1>1. ASSUME NEW id \in Ids, CreateRequest(id) \/ Fulfill(id) \/ Cancel(id)
      PROVE  ChainTypes'
  <2>1. \E e \in {"RequestCreated", "RequestFulfilled", "RequestCancelled"} : Emit(e, id)
    BY <1>1 DEF CreateRequest, Fulfill, Cancel
  <2>2. requests' \in [Ids -> Status]
    BY <1>1 DEF CreateRequest, Fulfill, Cancel, Status
  <2> QED
    BY <2>1, <2>2, EmitFacts
<1>2. CASE UNCHANGED chainVars
  BY <1>2 DEF chainVars
<1> QED
  BY <1>1, <1>2
  DEF Next, Load, vars, LoadStart, Created, Fulfillments, Fulfilled, Cancellations,
      InitDeclined, Restart, Decline, DeclineChecked, DeclineInserted, DeclineRejected,
      DeclineDone

LEMMA EntryTypesStep ==
    ASSUME EntryTypes, LoadTypes, CallTypes, [Next]_vars
    PROVE  EntryTypes'
<1> USE DEF EntryTypes
<1>1. ASSUME NEW h \in batch.waiting, Created(h) \/ Fulfilled(h) PROVE EntryTypes'
  <2>1. h.id \in Ids /\ h.obj \in Object
    BY HandlerType
  <2>2. PICK v \in State :
            state' = [state EXCEPT ![h.id][h.obj] = v] /\ entry' = [entry EXCEPT ![h.id] = h.obj]
    BY <1>1 DEF Created, Fulfilled, State
  <2> QED
    BY <2>1, <2>2, SetFacts
<1>2. CASE Cancellations \/ InitDeclined
  BY <1>2 DEF Cancellations, InitDeclined, State
<1>3. CASE Restart
  BY <1>3, EmptyType DEF Restart
<1>4. ASSUME NEW c \in Calls, DeclineDone(c) PROVE EntryTypes'
  <2>1. call[c].id \in Ids
    BY DEF CallTypes, Call
  <2>2. "copy" \in Object /\ "declined" \in State
    BY DEF Object, State
  <2> QED
    BY <1>4, <2>1, <2>2, SetFacts DEF DeclineDone
<1>5. CASE UNCHANGED <<entry, state>>
  BY <1>5
<1> QED
  BY <1>1, <1>2, <1>3, <1>4, <1>5
  DEF Next, Load, vars, CreateRequest, Fulfill, Cancel, LoadStart, Fulfillments, Decline,
      DeclineChecked, DeclineInserted, DeclineRejected

LEMMA CallTypesStep ==
    ASSUME EntryTypes, CallTypes, [Next]_vars
    PROVE  CallTypes'
<1> USE DEF CallTypes
<1>1. ASSUME NEW c \in Calls, NEW id \in Ids, Decline(c, id) PROVE CallTypes'
  <2>1. [pc |-> "checking", id |-> id, obj |-> entry[id]] \in Call
    BY <1>1 DEF Decline, EntryTypes, Call
  <2> QED
    BY <1>1, <2>1 DEF Decline, HasFulfiller
<1>2. ASSUME NEW c \in Calls, DeclineChecked(c) PROVE CallTypes'
  <2>1. /\ [call[c] EXCEPT !.pc = "inserting"] \in Call
        /\ [call[c] EXCEPT !.pc = "inserting"].id = call[c].id
    BY DEF Call
  <2> QED
    BY <1>2, <2>1, NoCallType, Zenon DEF DeclineChecked
<1>3. ASSUME NEW c \in Calls, DeclineInserted(c) PROVE CallTypes'
  <2>1. [call[c] EXCEPT !.pc = "inserted"] \in Call
    BY DEF Call
  <2>2. call' = [call EXCEPT ![c] = [call[c] EXCEPT !.pc = "inserted"]]
    BY <1>3 DEF DeclineInserted
  <2>3. call[c].id \in Addressed
    BY <1>3 DEF DeclineInserted
  <2>4. call'[c].id = call[c].id
    BY <2>2 DEF Call
  <2> QED
    BY <1>3, <2>1, <2>2, <2>3, <2>4 DEF DeclineInserted, Insert
<1>4. ASSUME NEW c \in Calls, DeclineRejected(c) \/ DeclineDone(c) PROVE CallTypes'
  BY <1>4, NoCallType DEF DeclineRejected, DeclineDone
<1>5. CASE Restart
  BY <1>5, NoCallType DEF Restart
<1>6. CASE UNCHANGED <<declined, call>>
  BY <1>6
<1> QED
  BY <1>1, <1>2, <1>3, <1>4, <1>5, <1>6
  DEF Next, Load, vars, CreateRequest, Fulfill, Cancel, LoadStart, Created, Fulfillments,
      Fulfilled, Cancellations, InitDeclined

LEMMA LoadTypesStep ==
    ASSUME ChainTypes, EntryTypes, LoadTypes, [Next]_vars
    PROVE  LoadTypes'
<1> USE DEF LoadTypes
<1>1. Len(log) \in Nat
  BY DEF ChainTypes
<1>2. ASSUME NEW id \in Ids, CreateRequest(id) \/ Fulfill(id) \/ Cancel(id)
      PROVE  LoadTypes'
  <2>1. \E e \in {"RequestCreated", "RequestFulfilled", "RequestCancelled"} : Emit(e, id)
    BY <1>2 DEF CreateRequest, Fulfill, Cancel
  <2>2. Len(log') = Len(log) + 1
    BY <2>1, EmitFacts DEF ChainTypes
  <2> QED
    BY <1>1, <1>2, <2>2 DEF CreateRequest, Fulfill, Cancel, loadVars
<1>3. CASE LoadStart
  <2>1. PICK to \in loaded + 1..Len(log) :
            batch' = [to |-> to, stage |-> "created",
                      waiting |-> [id : RowsOf("RequestCreated", loaded + 1, to),
                                   obj : {"original"}]]
    BY <1>3 DEF LoadStart
  <2>2. [id : RowsOf("RequestCreated", loaded + 1, to), obj : {"original"}] \in SUBSET Handler
    BY DEF RowsOf, Handler, Object
  <2> QED
    BY <1>1, <1>3, <2>1, <2>2 DEF LoadStart, chainVars
<1>4. ASSUME NEW h \in batch.waiting, Created(h) \/ Fulfilled(h) PROVE LoadTypes'
  BY <1>1, <1>4 DEF Created, Fulfilled, chainVars
<1>5. CASE Fulfillments
  <2>1. {[id |-> id, obj |-> entry[id]] :
            id \in {r \in RowsOf("RequestFulfilled", loaded + 1, batch.to) : entry[r] # "none"}}
        \in SUBSET Handler
    <3> SUFFICES ASSUME NEW id \in RowsOf("RequestFulfilled", loaded + 1, batch.to),
                        entry[id] # "none"
                 PROVE  [id |-> id, obj |-> entry[id]] \in Handler
      OBVIOUS
    <3> QED
      BY DEF RowsOf, Handler, EntryTypes
  <2> QED
    BY <1>1, <1>5, <2>1 DEF Fulfillments, chainVars
<1>6. CASE Cancellations \/ InitDeclined \/ Restart
  BY <1>1, <1>6 DEF Cancellations, InitDeclined, Restart, NoBatch, chainVars
<1>7. CASE UNCHANGED <<log, loadVars>>
  BY <1>7 DEF loadVars
<1> QED
  BY <1>2, <1>3, <1>4, <1>5, <1>6, <1>7
  DEF Next, Load, vars, chainVars, Decline, DeclineChecked, DeclineInserted,
      DeclineRejected, DeclineDone

LEMMA TypesInit == Init => Types
<1> SUFFICES ASSUME Init PROVE Types
  OBVIOUS
<1>1. log \in Seq(Event) /\ Len(log) = 0
  BY DEF Init
<1>2. ChainTypes
  BY <1>1 DEF Init, ChainTypes, Status
<1>3. LoadTypes
  BY <1>1 DEF Init, LoadTypes, NoBatch
<1>4. EntryTypes
  BY EmptyType DEF Init, EntryTypes
<1>5. CallTypes
  BY NoCallType DEF Init, CallTypes
<1> QED
  BY <1>2, <1>3, <1>4, <1>5 DEF Types

LEMMA TypesStep == Types /\ [Next]_vars => Types'
BY ChainTypesStep, LoadTypesStep, EntryTypesStep, CallTypesStep, Zenon DEF Types

\* Type correctness of the contract, the API's memory and the declines under way.
THEOREM RequestsTypeOK == Spec => []TypeOK
BY TypesInit, TypesStep, TypesSuffice, PTL DEF Spec

-----------------------------------------------------------------------------
(* The inductive invariant *)

\* The first n events have the one of this kind for this id.
Logged(e, id, n) == \E k \in 1..n : log[k] = [name |-> e, id |-> id]

CreatedBy(id, n) == Logged("RequestCreated", id, n)
FulfilledBy(id, n) == Logged("RequestFulfilled", id, n)
CancelledBy(id, n) == Logged("RequestCancelled", id, n)

\* The events tell the status of every request; each is created once, and before it settles.
ChainInv ==
    \A id \in Ids :
        /\ CreatedBy(id, Len(log)) <=> requests[id] # "none"
        /\ FulfilledBy(id, Len(log)) <=> requests[id] = "fulfilled"
        /\ CancelledBy(id, Len(log)) <=> requests[id] = "cancelled"
        /\ \A n \in 1..Len(log) :
              FulfilledBy(id, n) \/ CancelledBy(id, n) => CreatedBy(id, n)
        /\ \A j, k \in 1..Len(log) :
              /\ log[j] = [name |-> "RequestCreated", id |-> id]
              /\ log[k] = [name |-> "RequestCreated", id |-> id]
              => j = k

\* The creations that the load under way has taken up, and those it has not finished.
Reached == IF batch.stage = "none" THEN loaded ELSE batch.to
Awaited(id) == \E h \in batch.waiting : h.id = id
Known(id) == CreatedBy(id, Reached) /\ ~(batch.stage = "created" /\ Awaited(id))

\* The fulfilments that have been applied.
FulfillKnown(id) ==
    \/ FulfilledBy(id, loaded)
    \/ batch.stage = "fulfilled" /\ FulfilledBy(id, batch.to) /\ ~Awaited(id)

\* What awaits comes from the range of the load.
BatchInv ==
    /\ batch.stage # "none" => loaded < batch.to
    /\ batch.stage = "none" => batch.waiting = {}
    /\ batch.stage = "created" =>
          \A h \in batch.waiting :
              h.obj = "original" /\ CreatedBy(h.id, batch.to) /\ ~CreatedBy(h.id, loaded)
    /\ batch.stage = "fulfilled" =>
          \A h \in batch.waiting :
              /\ FulfilledBy(h.id, batch.to)
              /\ h.id \notin declined => h.obj = "original"

\* There is an entry for every creation applied, and if nobody declined it, it is the
\* original object with the status the events applied so far amount to.
EntryInv ==
    \A id \in Ids :
        /\ entry[id] # "none" <=> Known(id)
        /\ entry[id] # "none" /\ id \notin declined =>
              /\ entry[id] = "original"
              /\ state[id]["original"] = IF CancelledBy(id, loaded) THEN "cancelled"
                                         ELSE IF FulfillKnown(id) THEN "fulfilled"
                                         ELSE "created"

\* A decline under way is about a request of the index; from its insert on it is stored.
CallInv ==
    \A c \in Calls : call[c].pc # "idle" =>
        /\ phase = "serving" /\ entry[call[c].id] # "none"
        /\ call[c].pc = "inserted" => call[c].id \in declined

UnderWay(id) == \E c \in Calls : call[c].pc = "inserted" /\ call[c].id = id

\* A stored decline can be replayed, and once the API serves it is shown or about to be.
DeclineInv ==
    /\ \A id \in Ids, o \in Object : state[id][o] = "declined" => id \in declined
    /\ phase = "boot" => \A id \in declined : CreatedBy(id, bootTip)
    /\ phase = "serving" =>
          \A id \in declined :
              /\ entry[id] # "none"
              /\ UnderWay(id) \/ state[id][entry[id]] \notin {"none", "created"}

RequestsInv == ChainInv /\ BatchInv /\ EntryInv /\ CallInv /\ DeclineInv

LEMMA InvInit == Init => RequestsInv
<1> SUFFICES ASSUME Init PROVE RequestsInv
  OBVIOUS
<1>1. Len(log) = 0 /\ 1..0 = {}
  BY DEF Init
<1>2. \A e, id : ~Logged(e, id, 0)
  BY <1>1 DEF Logged
<1>3. ChainInv
  BY <1>1, <1>2 DEF Init, ChainInv, CreatedBy, FulfilledBy, CancelledBy
<1>4. BatchInv
  BY DEF Init, BatchInv, NoBatch
<1>5. EntryInv
  BY <1>2 DEF Init, EntryInv, Known, Reached, CreatedBy, NoBatch
<1>6. CallInv
  BY NoCallType DEF Init, CallInv
<1>7. DeclineInv
  BY DEF Init, DeclineInv, Empty
<1> QED
  BY <1>3, <1>4, <1>5, <1>6, <1>7 DEF RequestsInv

\* What the first n events have does not depend on later ones.
LEMMA LoggedKept ==
    ASSUME Len(log) \in Nat, \A k \in 1..Len(log) : log'[k] = log[k]
    PROVE  \A e, id : \A n \in 0..Len(log) : Logged(e, id, n)' <=> Logged(e, id, n)
<1> SUFFICES ASSUME NEW e, NEW id, NEW n \in 0..Len(log)
             PROVE  (\E k \in 1..n : log'[k] = [name |-> e, id |-> id])
                        <=> \E k \in 1..n : log[k] = [name |-> e, id |-> id]
  BY DEF Logged
<1>1. \A k \in 1..n : k \in 1..Len(log)
  OBVIOUS
<1> QED
  BY <1>1

LEMMA LoggedMore ==
    ASSUME NEW m \in Nat, NEW n \in Nat, m <= n
    PROVE  \A e, id : Logged(e, id, m) => Logged(e, id, n)
BY DEF Logged

\* An event of the first n is of the first m or in the range between.
LEMMA LoggedRange ==
    ASSUME NEW m \in Nat, NEW n \in Nat, m <= n
    PROVE  \A e, id : Logged(e, id, n) <=>
               Logged(e, id, m) \/ \E k \in m + 1..n : log[k] = [name |-> e, id |-> id]
<1> SUFFICES ASSUME NEW e, NEW id
             PROVE  (\E k \in 1..n : log[k] = [name |-> e, id |-> id]) <=>
                       \/ \E k \in 1..m : log[k] = [name |-> e, id |-> id]
                       \/ \E k \in m + 1..n : log[k] = [name |-> e, id |-> id]
  BY DEF Logged
<1>1. \A k : k \in 1..n <=> k \in 1..m \/ k \in m + 1..n
  OBVIOUS
<1> QED
  BY <1>1

\* Steps of the chain.
LEMMA ChainStep ==
    ASSUME Types, RequestsInv, NEW id \in Ids, CreateRequest(id) \/ Fulfill(id) \/ Cancel(id)
    PROVE  RequestsInv'
<1>1. PICK e \in {"RequestCreated", "RequestFulfilled", "RequestCancelled"},
           v \in {"pending", "fulfilled", "cancelled"} :
          /\ Emit(e, id)
          /\ requests' = [requests EXCEPT ![id] = v]
          /\ e = "RequestCreated" => v = "pending" /\ requests[id] = "none"
          /\ e = "RequestFulfilled" => v = "fulfilled" /\ requests[id] = "pending"
          /\ e = "RequestCancelled" => v = "cancelled" /\ requests[id] = "pending"
  BY DEF CreateRequest, Fulfill, Cancel, MaySettle
<1>len. PICK len \in Nat : len = Len(log)
  BY DEF Types, ChainTypes
<1>2. /\ len \in Nat /\ Len(log') = len + 1
      /\ \A k \in 1..len : log'[k] = log[k]
      /\ log'[len + 1] = [name |-> e, id |-> id]
  BY <1>1, <1>len, EmitFacts DEF Types, ChainTypes
<1>3. UNCHANGED <<declined, phase, bootTip, loaded, batch, restarts, entry, state, call>>
  BY DEF CreateRequest, Fulfill, Cancel, loadVars
<1>4. \A x, i : \A n \in 0..len : Logged(x, i, n)' <=> Logged(x, i, n)
  BY <1>2, <1>len, LoggedKept
<1>5. \A x, i : Logged(x, i, len + 1)' <=>
                   Logged(x, i, len) \/ (x = e /\ i = id)
  <2> SUFFICES ASSUME NEW x, NEW i
               PROVE  (\E k \in 1..len + 1 : log'[k] = [name |-> x, id |-> i]) <=>
                          \/ \E k \in 1..len : log[k] = [name |-> x, id |-> i]
                          \/ x = e /\ i = id
    BY <1>2 DEF Logged
  <2>1. \A k : k \in 1..len + 1 <=> k \in 1..len \/ k = len + 1
    BY <1>2
  <2>2. [name |-> e, id |-> id] = [name |-> x, id |-> i] <=> x = e /\ i = id
    OBVIOUS
  <2> QED
    BY <1>2, <2>1, <2>2
<1>6. \A i \in Ids : requests'[i] = IF i = id THEN v ELSE requests[i]
  BY <1>1 DEF Types, ChainTypes
<1>7. ChainInv'
  <2> SUFFICES ASSUME NEW i \in Ids
               PROVE  /\ CreatedBy(i, len + 1)' <=> requests'[i] # "none"
                      /\ FulfilledBy(i, len + 1)' <=> requests'[i] = "fulfilled"
                      /\ CancelledBy(i, len + 1)' <=> requests'[i] = "cancelled"
                      /\ \A n \in 1..len + 1 :
                            (FulfilledBy(i, n) \/ CancelledBy(i, n) => CreatedBy(i, n))'
                      /\ \A j, k \in 1..len + 1 :
                            /\ log'[j] = [name |-> "RequestCreated", id |-> i]
                            /\ log'[k] = [name |-> "RequestCreated", id |-> i]
                            => j = k
    BY <1>2 DEF ChainInv
  <2>1. /\ CreatedBy(i, len) <=> requests[i] # "none"
        /\ FulfilledBy(i, len) <=> requests[i] = "fulfilled"
        /\ CancelledBy(i, len) <=> requests[i] = "cancelled"
        /\ \A n \in 1..len : FulfilledBy(i, n) \/ CancelledBy(i, n) => CreatedBy(i, n)
        /\ \A j, k \in 1..len :
              /\ log[j] = [name |-> "RequestCreated", id |-> i]
              /\ log[k] = [name |-> "RequestCreated", id |-> i]
              => j = k
    BY <1>len DEF RequestsInv, ChainInv
  <2>2. /\ CreatedBy(i, len + 1)' <=> requests'[i] # "none"
        /\ FulfilledBy(i, len + 1)' <=> requests'[i] = "fulfilled"
        /\ CancelledBy(i, len + 1)' <=> requests'[i] = "cancelled"
    BY <1>1, <1>5, <1>6, <2>1 DEF CreatedBy, FulfilledBy, CancelledBy
  <2>3. ASSUME NEW n \in 1..len + 1
        PROVE  (FulfilledBy(i, n) \/ CancelledBy(i, n) => CreatedBy(i, n))'
    <3>1. CASE n = len + 1
      BY <2>2, <3>1
    <3>2. CASE n \in 1..len
      BY <1>2, <1>4, <2>1, <3>2 DEF CreatedBy, FulfilledBy, CancelledBy
    <3> QED
      BY <1>2, <3>1, <3>2
  <2>4. ASSUME NEW j \in 1..len + 1, NEW k \in 1..len + 1,
               log'[j] = [name |-> "RequestCreated", id |-> i],
               log'[k] = [name |-> "RequestCreated", id |-> i]
        PROVE  j = k
    <3>1. CASE j \in 1..len /\ k \in 1..len
      BY <1>2, <2>1, <2>4, <3>1
    <3>2. ASSUME e = "RequestCreated", i = id, NEW m \in 1..len,
                 log'[m] = [name |-> "RequestCreated", id |-> i]
          PROVE  FALSE
      <4>1. CreatedBy(i, len)
        BY <1>2, <3>2 DEF CreatedBy, Logged
      <4> QED
        BY <1>1, <2>1, <3>2, <4>1
    <3>3. j = len + 1 \/ k = len + 1 => e = "RequestCreated" /\ i = id
      BY <1>2, <2>4
    <3> QED
      BY <1>2, <2>4, <3>1, <3>2, <3>3
  <2> QED
    BY <2>2, <2>3, <2>4
<1>8. loaded \in 0..len /\ batch.to \in 0..len /\ bootTip \in 0..len
  BY <1>len DEF Types, LoadTypes
<1>9. BatchInv'
  BY <1>3, <1>4, <1>8 DEF RequestsInv, BatchInv, CreatedBy, FulfilledBy
<1>10. EntryInv'
  BY <1>3, <1>4, <1>8
  DEF RequestsInv, EntryInv, Known, Reached, Awaited, FulfillKnown, CreatedBy, FulfilledBy,
      CancelledBy
<1>11. CallInv' /\ DeclineInv'
  BY <1>3, <1>4, <1>8 DEF RequestsInv, CallInv, DeclineInv, CreatedBy, UnderWay
<1> QED
  BY <1>7, <1>9, <1>10, <1>11 DEF RequestsInv

LEMMA Heights ==
    ASSUME Types
    PROVE  /\ Len(log) \in Nat /\ loaded \in Nat /\ batch.to \in Nat /\ bootTip \in Nat
           /\ loaded <= Len(log) /\ batch.to <= Len(log) /\ bootTip <= Len(log)
           /\ batch.stage \in {"none", "created", "fulfilled"}
           /\ \A h \in batch.waiting : h.id \in Ids /\ h.obj \in Object
BY HandlerType DEF Types, ChainTypes, LoadTypes

\* What a range of events adds to those before it.
LEMMA RangeFacts ==
    ASSUME Types, RequestsInv, NEW to \in loaded..Len(log), NEW id \in Ids
    PROVE  /\ CreatedBy(id, to) <=>
                  CreatedBy(id, loaded) \/ id \in RowsOf("RequestCreated", loaded + 1, to)
           /\ FulfilledBy(id, to) <=>
                  FulfilledBy(id, loaded) \/ id \in RowsOf("RequestFulfilled", loaded + 1, to)
           /\ CancelledBy(id, to) <=>
                  CancelledBy(id, loaded) \/ id \in RowsOf("RequestCancelled", loaded + 1, to)
           /\ ~(CreatedBy(id, loaded) /\ id \in RowsOf("RequestCreated", loaded + 1, to))
<1>1. loaded \in Nat /\ to \in Nat /\ loaded <= to /\ to <= Len(log) /\ Len(log) \in Nat
  BY Heights
<1>2. \A e : Logged(e, id, to) <=> Logged(e, id, loaded) \/ id \in RowsOf(e, loaded + 1, to)
  BY <1>1, LoggedRange DEF RowsOf
<1>3. ASSUME CreatedBy(id, loaded), id \in RowsOf("RequestCreated", loaded + 1, to)
      PROVE  FALSE
  <2>1. PICK j \in 1..loaded : log[j] = [name |-> "RequestCreated", id |-> id]
    BY <1>3 DEF CreatedBy, Logged
  <2>2. PICK k \in loaded + 1..to : log[k] = [name |-> "RequestCreated", id |-> id]
    BY <1>3 DEF RowsOf
  <2>3. j \in 1..Len(log) /\ k \in 1..Len(log) /\ j # k
    BY <1>1
  <2> QED
    BY <2>1, <2>2, <2>3 DEF RequestsInv, ChainInv
<1> QED
  BY <1>2, <1>3 DEF CreatedBy, FulfilledBy, CancelledBy

\* A settled request was created, and is settled in one way.
LEMMA SettledFacts ==
    ASSUME Types, RequestsInv, NEW id \in Ids, NEW n \in 0..Len(log), NEW m \in 0..Len(log)
    PROVE  /\ FulfilledBy(id, n) \/ CancelledBy(id, n) => CreatedBy(id, n)
           /\ ~(FulfilledBy(id, n) /\ CancelledBy(id, m))
<1>1. Len(log) \in Nat
  BY Heights
<1>2. \A e : ~Logged(e, id, 0)
  BY DEF Logged
<1>3. n \in 1..Len(log) \/ n = 0
  BY <1>1
<1>4. FulfilledBy(id, n) => requests[id] = "fulfilled"
  <2>1. Logged("RequestFulfilled", id, n) => Logged("RequestFulfilled", id, Len(log))
    BY <1>1, LoggedMore
  <2> QED
    BY <2>1 DEF RequestsInv, ChainInv, FulfilledBy
<1>5. CancelledBy(id, m) => requests[id] = "cancelled"
  <2>1. Logged("RequestCancelled", id, m) => Logged("RequestCancelled", id, Len(log))
    BY <1>1, LoggedMore
  <2> QED
    BY <2>1 DEF RequestsInv, ChainInv, CancelledBy
<1> QED
  BY <1>2, <1>3, <1>4, <1>5
  DEF RequestsInv, ChainInv, CreatedBy, FulfilledBy, CancelledBy

LEMMA QuietStep ==
    ASSUME Types, RequestsInv,
           UNCHANGED <<requests, log, declined, phase, bootTip, loaded, batch, entry, state>>,
           CallInv',
           \A id \in Ids : UnderWay(id) => UnderWay(id)'
    PROVE  RequestsInv'
<1>1. \A e, id, n : Logged(e, id, n)' <=> Logged(e, id, n)
  BY DEF Logged
<1>2. ChainInv'
  BY <1>1 DEF RequestsInv, ChainInv, CreatedBy, FulfilledBy, CancelledBy
<1>3. BatchInv'
  BY <1>1 DEF RequestsInv, BatchInv, CreatedBy, FulfilledBy
<1>4. EntryInv'
  BY <1>1
  DEF RequestsInv, EntryInv, Known, Reached, Awaited, FulfillKnown, CreatedBy, FulfilledBy,
      CancelledBy
<1>5. DeclineInv'
  BY <1>1 DEF RequestsInv, DeclineInv, CreatedBy, Types, CallTypes
<1> QED
  BY <1>2, <1>3, <1>4, <1>5 DEF RequestsInv

LEMMA LoadStartStep ==
    ASSUME Types, RequestsInv, LoadStart
    PROVE  RequestsInv'
<1>1. PICK to \in loaded + 1..Len(log) :
          batch' = [to |-> to, stage |-> "created",
                    waiting |-> [id : RowsOf("RequestCreated", loaded + 1, to),
                                 obj : {"original"}]]
  BY DEF LoadStart
<1>2. /\ batch.stage = "none"
      /\ UNCHANGED <<requests, log, declined, phase, bootTip, loaded, entry, state, call>>
  BY DEF LoadStart, chainVars
<1>3. batch'.to = to /\ batch'.stage = "created" /\ to \in loaded..Len(log) /\ loaded < to
  BY <1>1, Heights
<1>4. \A e, id, n : Logged(e, id, n)' <=> Logged(e, id, n)
  BY <1>2 DEF Logged
<1>5. \A id \in Ids : Awaited(id)' <=> id \in RowsOf("RequestCreated", loaded + 1, to)
  <2> SUFFICES ASSUME NEW id \in Ids
               PROVE  (\E h \in batch'.waiting : h.id = id)
                          <=> id \in RowsOf("RequestCreated", loaded + 1, to)
    BY DEF Awaited
  <2>1. ASSUME id \in RowsOf("RequestCreated", loaded + 1, to)
        PROVE  [id |-> id, obj |-> "original"] \in batch'.waiting
    BY <1>1, <2>1
  <2>2. [id |-> id, obj |-> "original"].id = id
    OBVIOUS
  <2> QED
    BY <1>1, <2>1, <2>2
<1>6. ChainInv'
  BY <1>2, <1>4 DEF RequestsInv, ChainInv, CreatedBy, FulfilledBy, CancelledBy
<1>7. BatchInv'
  <2>1. ASSUME NEW h \in batch'.waiting
        PROVE  h.obj = "original" /\ CreatedBy(h.id, to) /\ ~CreatedBy(h.id, loaded)
    <3>1. h.obj = "original" /\ h.id \in RowsOf("RequestCreated", loaded + 1, to)
      BY <1>1
    <3>2. h.id \in Ids
      BY <3>1 DEF RowsOf
    <3> QED
      BY <1>3, <3>1, <3>2, RangeFacts
  <2> QED
    BY <1>2, <1>3, <1>4, <2>1 DEF BatchInv, CreatedBy
<1>8. EntryInv'
  <2> SUFFICES ASSUME NEW id \in Ids
               PROVE  (Known(id)' <=> Known(id)) /\ (FulfillKnown(id)' <=> FulfillKnown(id))
    BY <1>2, <1>4 DEF RequestsInv, EntryInv, CancelledBy
  <2>1. Known(id) <=> CreatedBy(id, loaded)
    BY <1>2 DEF Known, Reached
  <2>2. Known(id)' <=> CreatedBy(id, to) /\ ~(id \in RowsOf("RequestCreated", loaded + 1, to))
    BY <1>3, <1>4, <1>5 DEF Known, Reached, CreatedBy
  <2>3. FulfillKnown(id)' <=> FulfilledBy(id, loaded)
    BY <1>2, <1>3, <1>4 DEF FulfillKnown, FulfilledBy
  <2> QED
    BY <1>2, <1>3, <2>1, <2>2, <2>3, RangeFacts DEF FulfillKnown
<1>9. CallInv' /\ DeclineInv'
  BY <1>2, <1>4 DEF RequestsInv, CallInv, DeclineInv, CreatedBy, UnderWay
<1> QED
  BY <1>6, <1>7, <1>8, <1>9 DEF RequestsInv

\* The load takes one handler off its list.
LEMMA HandledFacts ==
    ASSUME Types, NEW h \in batch.waiting, batch' = [batch EXCEPT !.waiting = @ \ {h}]
    PROVE  /\ batch'.to = batch.to /\ batch'.stage = batch.stage
           /\ batch'.waiting = batch.waiting \ {h}
BY DEF Types, LoadTypes

LEMMA CreatedStep ==
    ASSUME Types, RequestsInv, NEW h \in batch.waiting, Created(h)
    PROVE  RequestsInv'
<1>1. /\ batch.stage = "created" /\ batch'.stage = "created" /\ batch'.to = batch.to
      /\ batch'.waiting = batch.waiting \ {h}
  BY HandledFacts DEF Created
<1>2. UNCHANGED <<requests, log, declined, phase, bootTip, loaded, call>>
  BY DEF Created, chainVars
<1>3. h.id \in Ids /\ h.obj = "original" /\ h.obj \in Object
  BY <1>1, Heights DEF RequestsInv, BatchInv
<1>4. /\ state'[h.id]["original"] = "created" /\ entry'[h.id] = "original"
      /\ \A p \in Object \ {"original"} : state'[h.id][p] = state[h.id][p]
      /\ \A i \in Ids \ {h.id} : state'[i] = state[i] /\ entry'[i] = entry[i]
  <2>1. /\ state' = [state EXCEPT ![h.id]["original"] = "created"]
        /\ entry' = [entry EXCEPT ![h.id] = "original"]
    BY <1>3 DEF Created
  <2>2. "original" \in Object /\ "created" \in State /\ EntryTypes
    BY <1>3 DEF State, Types
  <2> QED
    BY <1>3, <2>1, <2>2, SetFacts
<1>5. \A e, id, n : Logged(e, id, n)' <=> Logged(e, id, n)
  BY <1>2 DEF Logged
<1>6. \A g \in batch.waiting : g.id = h.id => g = h
  <2>1. \A g \in batch.waiting : g.obj = "original" /\ g \in Handler
    BY <1>1 DEF RequestsInv, BatchInv, Types, LoadTypes
  <2> QED
    BY <2>1 DEF Handler
<1>7. \A id \in Ids : Awaited(id)' <=> Awaited(id) /\ id # h.id
  BY <1>1, <1>6 DEF Awaited
<1>8. CreatedBy(h.id, batch.to) /\ ~CreatedBy(h.id, loaded) /\ Awaited(h.id)
  BY <1>1 DEF RequestsInv, BatchInv, Awaited
<1>9. entry[h.id] = "none"
  BY <1>1, <1>3, <1>8 DEF RequestsInv, EntryInv, Known
<1>10. ChainInv'
  BY <1>2, <1>5 DEF RequestsInv, ChainInv, CreatedBy, FulfilledBy, CancelledBy
<1>11. BatchInv'
  BY <1>1, <1>2, <1>5 DEF RequestsInv, BatchInv, CreatedBy, FulfilledBy
<1>12. \A id \in Ids : (Known(id)' <=> Known(id) \/ id = h.id)
  BY <1>1, <1>2, <1>3, <1>5, <1>7, <1>8 DEF Known, Reached, CreatedBy
<1>13. \A id \in Ids : FulfillKnown(id)' <=> FulfilledBy(id, loaded)
  BY <1>1, <1>2, <1>5 DEF FulfillKnown, FulfilledBy
<1>14. \A id \in Ids : FulfillKnown(id) <=> FulfilledBy(id, loaded)
  BY <1>1 DEF FulfillKnown
<1>15. ~FulfilledBy(h.id, loaded) /\ ~CancelledBy(h.id, loaded)
  BY <1>3, <1>8, SettledFacts, Heights
<1>16. EntryInv'
  <2> SUFFICES ASSUME NEW id \in Ids
               PROVE  /\ entry'[id] # "none" <=> Known(id)'
                      /\ entry'[id] # "none" /\ id \notin declined =>
                            /\ entry'[id] = "original"
                            /\ state'[id]["original"] =
                                  IF CancelledBy(id, loaded) THEN "cancelled"
                                  ELSE IF FulfilledBy(id, loaded) THEN "fulfilled"
                                  ELSE "created"
    BY <1>2, <1>5, <1>13 DEF EntryInv, CancelledBy
  <2>1. CASE id = h.id
    BY <1>4, <1>12, <1>15, <2>1
  <2>2. CASE id # h.id
    BY <1>4, <1>12, <1>14, <2>2 DEF RequestsInv, EntryInv
  <2> QED
    BY <2>1, <2>2
<1>17. CallInv'
  BY <1>2, <1>4 DEF RequestsInv, CallInv, Types, CallTypes, Call
<1>18. DeclineInv'
  <2>1. \A id \in Ids, o \in Object : state'[id][o] = "declined" => id \in declined
    BY <1>4 DEF RequestsInv, DeclineInv, Object
  <2>2. phase = "serving" => h.id \notin declined
    BY <1>9 DEF RequestsInv, DeclineInv
  <2>3. declined \subseteq Ids
    BY DEF Types, CallTypes
  <2> QED
    BY <1>2, <1>4, <1>5, <2>1, <2>2, <2>3
    DEF RequestsInv, DeclineInv, CreatedBy, UnderWay
<1> QED
  BY <1>10, <1>11, <1>16, <1>17, <1>18 DEF RequestsInv

LEMMA FulfillmentsStep ==
    ASSUME Types, RequestsInv, Fulfillments
    PROVE  RequestsInv'
<1> DEFINE rows == RowsOf("RequestFulfilled", loaded + 1, batch.to)
           taken == {[id |-> id, obj |-> entry[id]] : id \in {r \in rows : entry[r] # "none"}}
<1>1. /\ batch.stage = "created" /\ batch.waiting = {}
      /\ UNCHANGED <<requests, log, declined, phase, bootTip, loaded, entry, state, call>>
  BY DEF Fulfillments, CreationsDone, chainVars
<1>2. batch'.stage = "fulfilled" /\ batch'.to = batch.to /\ batch'.waiting = taken
  BY DEF Fulfillments, Types, LoadTypes
<1>3. rows \subseteq Ids
  BY DEF RowsOf
<1>4. \A h \in taken : h.id \in rows /\ entry[h.id] # "none" /\ h.obj = entry[h.id]
  OBVIOUS
<1>5. \A id \in rows : entry[id] # "none" => \E h \in taken : h.id = id
  <2> TAKE id \in rows
  <2> HAVE entry[id] # "none"
  <2>1. [id |-> id, obj |-> entry[id]] \in taken
    OBVIOUS
  <2> HIDE DEF taken
  <2> QED
    BY <2>1
<1>6. batch.to \in loaded..Len(log) /\ loaded < batch.to
  BY <1>1, Heights DEF RequestsInv, BatchInv
<1>7. \A id \in Ids : FulfilledBy(id, batch.to) <=> FulfilledBy(id, loaded) \/ id \in rows
  BY <1>6, RangeFacts
<1> HIDE DEF rows, taken
<1>8. \A e, id, n : Logged(e, id, n)' <=> Logged(e, id, n)
  BY <1>1 DEF Logged
<1>9. ChainInv'
  BY <1>1, <1>8 DEF RequestsInv, ChainInv, CreatedBy, FulfilledBy, CancelledBy
<1>10. BatchInv'
  <2>1. ASSUME NEW h \in taken
        PROVE  FulfilledBy(h.id, batch.to) /\ (h.id \notin declined => h.obj = "original")
    BY <1>3, <1>4, <1>7, <2>1 DEF RequestsInv, EntryInv
  <2> QED
    BY <1>1, <1>2, <1>6, <1>8, <2>1 DEF BatchInv, FulfilledBy
<1>11. EntryInv'
  <2> SUFFICES ASSUME NEW id \in Ids
               PROVE  /\ Known(id)' <=> Known(id)
                      /\ entry[id] # "none" => (FulfillKnown(id)' <=> FulfillKnown(id))
    BY <1>1, <1>8 DEF RequestsInv, EntryInv, CancelledBy
  <2>1. Known(id)' <=> Known(id)
    BY <1>1, <1>2, <1>8 DEF Known, Reached, CreatedBy, Awaited
  <2>2. FulfillKnown(id) <=> FulfilledBy(id, loaded)
    BY <1>1 DEF FulfillKnown
  <2>3. FulfillKnown(id)' <=>
            FulfilledBy(id, loaded) \/ (FulfilledBy(id, batch.to) /\ ~Awaited(id)')
    BY <1>1, <1>2, <1>8 DEF FulfillKnown, FulfilledBy
  <2>4. entry[id] # "none" /\ id \in rows => Awaited(id)'
    BY <1>2, <1>5 DEF Awaited
  <2> QED
    BY <1>7, <2>1, <2>2, <2>3, <2>4
<1>12. CallInv' /\ DeclineInv'
  BY <1>1, <1>8 DEF RequestsInv, CallInv, DeclineInv, CreatedBy, UnderWay
<1> QED
  BY <1>9, <1>10, <1>11, <1>12 DEF RequestsInv

LEMMA FulfilledStep ==
    ASSUME Types, RequestsInv, NEW h \in batch.waiting, Fulfilled(h)
    PROVE  RequestsInv'
<1>1. /\ batch.stage = "fulfilled" /\ batch'.stage = "fulfilled" /\ batch'.to = batch.to
      /\ batch'.waiting = batch.waiting \ {h}
  BY HandledFacts DEF Fulfilled
<1>2. UNCHANGED <<requests, log, declined, phase, bootTip, loaded, call>>
  BY DEF Fulfilled, chainVars
<1>3. h.id \in Ids /\ h.obj \in Object
  BY Heights
<1>4. /\ state'[h.id][h.obj] = "fulfilled" /\ entry'[h.id] = h.obj
      /\ \A p \in Object \ {h.obj} : state'[h.id][p] = state[h.id][p]
      /\ \A i \in Ids \ {h.id} : state'[i] = state[i] /\ entry'[i] = entry[i]
  BY <1>3, SetFacts DEF Fulfilled, Types, State
<1>5. \A e, id, n : Logged(e, id, n)' <=> Logged(e, id, n)
  BY <1>2 DEF Logged
<1>6. FulfilledBy(h.id, batch.to) /\ (h.id \notin declined => h.obj = "original")
  BY <1>1 DEF RequestsInv, BatchInv
<1>7. CreatedBy(h.id, batch.to) /\ ~CancelledBy(h.id, loaded)
  BY <1>3, <1>6, SettledFacts, Heights
<1>8. h.obj # "none"
  BY <1>3 DEF Object
<1>9. ChainInv'
  BY <1>2, <1>5 DEF RequestsInv, ChainInv, CreatedBy, FulfilledBy, CancelledBy
<1>10. BatchInv'
  BY <1>1, <1>2, <1>5 DEF RequestsInv, BatchInv, CreatedBy, FulfilledBy
<1>11. \A id \in Ids : Known(id) <=> CreatedBy(id, batch.to)
  BY <1>1 DEF Known, Reached
<1>12. \A id \in Ids : Known(id)' <=> CreatedBy(id, batch.to)
  BY <1>1, <1>5 DEF Known, Reached, CreatedBy
<1>13. ASSUME NEW id \in Ids, id # h.id PROVE FulfillKnown(id)' <=> FulfillKnown(id)
  <2>1. Awaited(id)' <=> Awaited(id)
    BY <1>1, <1>13 DEF Awaited
  <2> QED
    BY <1>1, <1>2, <1>5, <2>1 DEF FulfillKnown, FulfilledBy
<1>14. EntryInv'
  <2> SUFFICES ASSUME NEW id \in Ids
               PROVE  /\ entry'[id] # "none" <=> Known(id)'
                      /\ entry'[id] # "none" /\ id \notin declined =>
                            /\ entry'[id] = "original"
                            /\ state'[id]["original"] =
                                  IF CancelledBy(id, loaded) THEN "cancelled"
                                  ELSE IF FulfillKnown(id)' THEN "fulfilled"
                                  ELSE "created"
    BY <1>2, <1>5 DEF EntryInv, CancelledBy
  <2>1. CASE id = h.id /\ id \in declined
    BY <1>4, <1>7, <1>8, <1>12, <2>1
  <2>2. CASE id = h.id /\ id \notin declined
    <3>1. FulfillKnown(id)' \/ \E g \in batch'.waiting : g.id = id
      BY <1>1, <1>2, <1>5, <1>6, <2>2 DEF FulfillKnown, FulfilledBy, Awaited
    <3>2. \A g \in batch'.waiting : g.id # id
      <4> SUFFICES ASSUME NEW g \in batch'.waiting, g.id = id PROVE FALSE
        OBVIOUS
      <4>1. g \in batch.waiting /\ g # h
        BY <1>1
      <4>2. g.obj = "original" /\ h.obj = "original"
        BY <1>1, <1>6, <2>2, <4>1 DEF RequestsInv, BatchInv
      <4>3. g \in Handler /\ h \in Handler
        BY <4>1 DEF Types, LoadTypes
      <4> QED
        BY <2>2, <4>1, <4>2, <4>3 DEF Handler
    <3> QED
      BY <1>4, <1>6, <1>7, <1>12, <2>2, <3>1, <3>2
  <2>3. CASE id # h.id
    BY <1>4, <1>11, <1>12, <1>13, <2>3 DEF RequestsInv, EntryInv
  <2> QED
    BY <2>1, <2>2, <2>3
<1>15. CallInv'
  BY <1>2, <1>4, <1>8 DEF RequestsInv, CallInv, Types, CallTypes, Call
<1>16. DeclineInv'
  <2>1. \A id \in Ids, o \in Object : state'[id][o] = "declined" => id \in declined
    BY <1>4 DEF RequestsInv, DeclineInv
  <2>2. declined \subseteq Ids
    BY DEF Types, CallTypes
  <2>3. phase = "serving" =>
            \A id \in declined :
                /\ entry'[id] # "none"
                /\ UnderWay(id) \/ state'[id][entry'[id]] \notin {"none", "created"}
    <3> SUFFICES ASSUME phase = "serving", NEW id \in declined
                 PROVE  /\ entry'[id] # "none"
                        /\ UnderWay(id) \/ state'[id][entry'[id]] \notin {"none", "created"}
      OBVIOUS
    <3>1. CASE id = h.id
      BY <1>4, <1>8, <3>1
    <3>2. CASE id # h.id
      BY <1>4, <2>2, <3>2 DEF RequestsInv, DeclineInv
    <3> QED
      BY <3>1, <3>2
  <2> QED
    BY <1>2, <1>5, <2>1, <2>3 DEF RequestsInv, DeclineInv, CreatedBy, UnderWay
<1> QED
  BY <1>9, <1>10, <1>14, <1>15, <1>16 DEF RequestsInv

LEMMA CancellationsStep ==
    ASSUME Types, RequestsInv, Cancellations
    PROVE  RequestsInv'
<1> DEFINE rows == {r \in RowsOf("RequestCancelled", loaded + 1, batch.to) : entry[r] # "none"}
<1>1. /\ batch.stage = "fulfilled" /\ batch.waiting = {} /\ loaded' = batch.to
      /\ batch'.stage = "none" /\ batch'.waiting = {}
      /\ UNCHANGED <<requests, log, declined, phase, bootTip, entry, call>>
  BY DEF Cancellations, NoBatch, chainVars
<1>2. \A id \in Ids, o \in Object :
          state'[id][o] = IF id \in rows /\ o = entry[id] THEN "cancelled" ELSE state[id][o]
  BY DEF Cancellations
<1>3. batch.to \in loaded..Len(log) /\ loaded \in Nat /\ batch.to \in Nat
  BY <1>1, Heights DEF RequestsInv, BatchInv
<1>4. \A id \in Ids : entry[id] # "none" =>
          (CancelledBy(id, batch.to) <=> CancelledBy(id, loaded) \/ id \in rows)
  BY <1>3, RangeFacts
<1> HIDE DEF rows
<1>5. \A e, id, n : Logged(e, id, n)' <=> Logged(e, id, n)
  BY <1>1 DEF Logged
<1>6. ChainInv'
  BY <1>1, <1>5 DEF RequestsInv, ChainInv, CreatedBy, FulfilledBy, CancelledBy
<1>7. BatchInv'
  BY <1>1 DEF BatchInv
<1>8. EntryInv'
  <2> SUFFICES ASSUME NEW id \in Ids
               PROVE  /\ entry[id] # "none" <=> CreatedBy(id, batch.to)
                      /\ entry[id] # "none" /\ id \notin declined =>
                            /\ entry[id] = "original"
                            /\ state'[id]["original"] =
                                  IF CancelledBy(id, batch.to) THEN "cancelled"
                                  ELSE IF FulfilledBy(id, batch.to) THEN "fulfilled"
                                  ELSE "created"
    BY <1>1, <1>5
    DEF EntryInv, Known, Reached, FulfillKnown, CreatedBy, FulfilledBy, CancelledBy
  <2>1. Known(id) <=> CreatedBy(id, batch.to)
    BY <1>1 DEF Known, Reached
  <2>2. FulfilledBy(id, loaded) => FulfilledBy(id, batch.to)
    BY <1>3, RangeFacts
  <2>3. FulfillKnown(id) <=> FulfilledBy(id, batch.to)
    BY <1>1, <2>2 DEF FulfillKnown, Awaited
  <2>4. "original" \in Object
    BY DEF Object
  <2> QED
    BY <1>2, <1>4, <2>1, <2>3, <2>4 DEF RequestsInv, EntryInv
<1>9. CallInv'
  BY <1>1 DEF RequestsInv, CallInv
<1>10. DeclineInv'
  <2>1. \A id \in declined : id \in Ids /\ entry[id] \in Object \cup {"none"}
    BY DEF Types, CallTypes, EntryTypes
  <2> QED
    BY <1>1, <1>2, <1>5, <2>1 DEF RequestsInv, DeclineInv, CreatedBy, UnderWay
<1> QED
  BY <1>6, <1>7, <1>8, <1>9, <1>10 DEF RequestsInv

LEMMA InitDeclinedStep ==
    ASSUME Types, RequestsInv, InitDeclined
    PROVE  RequestsInv'
<1>1. /\ phase = "boot" /\ phase' = "serving" /\ loaded >= bootTip
      /\ UNCHANGED <<requests, log, declined, bootTip, loaded, batch, entry, call>>
  BY DEF InitDeclined, Replayed, chainVars
<1>2. \A id \in Ids, o \in Object :
          state'[id][o] = IF id \in declined /\ o = entry[id] THEN "declined" ELSE state[id][o]
  BY DEF InitDeclined
<1>3. \A e, id, n : Logged(e, id, n)' <=> Logged(e, id, n)
  BY <1>1 DEF Logged
<1>4. \A id \in declined : id \in Ids /\ entry[id] \in Object \cup {"none"}
  BY DEF Types, CallTypes, EntryTypes
<1>5. ChainInv' /\ BatchInv'
  BY <1>1, <1>3
  DEF RequestsInv, ChainInv, BatchInv, CreatedBy, FulfilledBy, CancelledBy
<1>6. EntryInv'
  BY <1>1, <1>2, <1>3
  DEF RequestsInv, EntryInv, Known, Reached, Awaited, FulfillKnown, CreatedBy, FulfilledBy,
      CancelledBy, Object
<1>7. CallInv'
  BY <1>1 DEF RequestsInv, CallInv
<1>8. ASSUME NEW id \in declined PROVE entry[id] # "none"
  <2>1. loaded \in Nat /\ bootTip \in Nat /\ id \in Ids
    BY <1>4, Heights
  <2>2. CreatedBy(id, loaded)
    BY <1>1, <2>1, LoggedMore DEF RequestsInv, DeclineInv, CreatedBy
  <2>3. Known(id)
    <3>1. CASE batch.stage = "none"
      BY <2>2, <3>1 DEF Known, Reached
    <3>2. CASE batch.stage # "none"
      <4>1. CreatedBy(id, batch.to)
        BY <2>1, <2>2, <3>2, Heights, LoggedMore DEF RequestsInv, BatchInv, CreatedBy
      <4>2. batch.stage = "created" => ~Awaited(id)
        BY <2>2 DEF RequestsInv, BatchInv, Awaited
      <4> QED
        BY <3>2, <4>1, <4>2 DEF Known, Reached
    <3> QED
      BY <3>1, <3>2
  <2> QED
    BY <2>1, <2>3 DEF RequestsInv, EntryInv
<1>9. DeclineInv'
  BY <1>1, <1>2, <1>4, <1>8 DEF RequestsInv, DeclineInv
<1> QED
  BY <1>5, <1>6, <1>7, <1>9 DEF RequestsInv

LEMMA RestartStep ==
    ASSUME Types, RequestsInv, Restart
    PROVE  RequestsInv'
<1>1. /\ phase' = "boot" /\ bootTip' = Len(log) /\ loaded' = 0
      /\ batch'.stage = "none" /\ batch'.waiting = {}
      /\ UNCHANGED <<requests, log, declined>>
  BY DEF Restart, NoBatch, chainVars
<1>2. \A id \in Ids : entry'[id] = "none" /\ \A o \in Object : state'[id][o] = "none"
  BY DEF Restart, Empty
<1>3. \A c \in Calls : call'[c].pc = "idle"
  BY NoCallType DEF Restart
<1>4. \A e, id, n : Logged(e, id, n)' <=> Logged(e, id, n)
  BY <1>1 DEF Logged
<1>5. \A e, id : ~Logged(e, id, 0)
  BY DEF Logged
<1>6. ChainInv'
  BY <1>1, <1>4 DEF RequestsInv, ChainInv, CreatedBy, FulfilledBy, CancelledBy
<1>7. BatchInv' /\ CallInv'
  BY <1>1, <1>3 DEF BatchInv, CallInv
<1>8. EntryInv'
  BY <1>1, <1>2, <1>4, <1>5 DEF EntryInv, Known, Reached, CreatedBy
<1>9. ASSUME NEW id \in declined PROVE CreatedBy(id, Len(log))
  <2>1. id \in Ids
    BY DEF Types, CallTypes
  <2>2. \/ CreatedBy(id, bootTip)
        \/ CreatedBy(id, loaded)
        \/ CreatedBy(id, batch.to)
    BY <2>1 DEF RequestsInv, DeclineInv, EntryInv, Known, Reached, Types, LoadTypes
  <2> QED
    BY <2>2, Heights, LoggedMore DEF CreatedBy
<1>10. DeclineInv'
  BY <1>1, <1>2, <1>4, <1>9 DEF DeclineInv, CreatedBy, Types, CallTypes
<1> QED
  BY <1>6, <1>7, <1>8, <1>10 DEF RequestsInv

\* A step of one call leaves the others alone.
LEMMA CallFacts ==
    ASSUME CallTypes, NEW c \in Calls
    PROVE  /\ \A pc : call' = [call EXCEPT ![c].pc = pc] =>
                 /\ call'[c].pc = pc /\ call'[c].id = call[c].id
                 /\ \A b \in Calls \ {c} : call'[b] = call[b]
           /\ \A r : call' = [call EXCEPT ![c] = r] =>
                 /\ call'[c] = r
                 /\ \A b \in Calls \ {c} : call'[b] = call[b]
BY DEF CallTypes, Call

LEMMA DeclineAskedStep ==
    ASSUME Types, RequestsInv, NEW c \in Calls,
           \/ \E id \in Ids : Decline(c, id)
           \/ DeclineChecked(c)
           \/ DeclineRejected(c)
    PROVE  RequestsInv'
<1>1. UNCHANGED <<requests, log, declined, phase, bootTip, loaded, batch, entry, state>>
  BY DEF Decline, DeclineChecked, DeclineRejected, chainVars, loadVars
<1>2. /\ call[c].pc # "inserted" /\ call'[c].pc # "inserted"
      /\ call'[c].pc # "idle" =>
            phase = "serving" /\ entry[call'[c].id] # "none"
      /\ \A b \in Calls \ {c} : call'[b] = call[b]
  <2>1. CASE \E id \in Ids : Decline(c, id)
    <3>1. PICK id \in Ids : Decline(c, id)
      BY <2>1
    <3>2. call' = [call EXCEPT ![c] = [pc |-> "checking", id |-> id, obj |-> entry[id]]]
      BY <3>1 DEF Decline
    <3>3. /\ call'[c] = [pc |-> "checking", id |-> id, obj |-> entry[id]]
          /\ \A b \in Calls \ {c} : call'[b] = call[b]
      BY <3>2, CallFacts, Zenon DEF Types
    <3>4. call'[c].pc = "checking" /\ call'[c].id = id
      BY <3>3
    <3>5. call[c].pc = "idle" /\ phase = "serving" /\ entry[id] # "none"
      BY <3>1 DEF Decline
    <3> QED
      BY <3>3, <3>4, <3>5
  <2>2. CASE DeclineChecked(c)
    <3>1. /\ call[c].pc = "checking"
          /\ \/ call' = [call EXCEPT ![c] = [call[c] EXCEPT !.pc = "inserting"]]
             \/ call' = [call EXCEPT ![c] = NoCall]
      BY <2>2, Zenon DEF DeclineChecked
    <3>2. [call[c] EXCEPT !.pc = "inserting"].pc = "inserting"
          /\ [call[c] EXCEPT !.pc = "inserting"].id = call[c].id
      BY DEF Types, CallTypes, Call
    <3>3. \/ call'[c] = [call[c] EXCEPT !.pc = "inserting"]
          \/ call'[c] = NoCall
      BY <3>1, CallFacts, Zenon DEF Types
    <3>4. \A b \in Calls \ {c} : call'[b] = call[b]
      BY <3>1, CallFacts, Zenon DEF Types
    <3> QED
      BY <3>1, <3>2, <3>3, <3>4, NoCallType DEF RequestsInv, CallInv
  <2>3. CASE DeclineRejected(c)
    <3>1. call[c].pc = "inserting" /\ call' = [call EXCEPT ![c] = NoCall]
      BY <2>3 DEF DeclineRejected
    <3> QED
      BY <3>1, CallFacts, NoCallType DEF Types
  <2> QED
    BY <2>1, <2>2, <2>3
<1>3. CallInv'
  BY <1>1, <1>2 DEF RequestsInv, CallInv
<1>4. \A id \in Ids : UnderWay(id) => UnderWay(id)'
  BY <1>2 DEF UnderWay
<1> QED
  BY <1>1, <1>3, <1>4, QuietStep

LEMMA DeclineInsertedStep ==
    ASSUME Types, RequestsInv, NEW c \in Calls, DeclineInserted(c)
    PROVE  RequestsInv'
<1>1. /\ UNCHANGED <<requests, log, phase, bootTip, loaded, batch, entry, state>>
      /\ call[c].pc = "inserting" /\ declined' = declined \cup {call[c].id}
  BY DEF DeclineInserted, Insert, chainVars, loadVars
<1>2. /\ call'[c].pc = "inserted" /\ call'[c].id = call[c].id
      /\ \A b \in Calls \ {c} : call'[b] = call[b]
  BY CallFacts DEF DeclineInserted, Types
<1>3. phase = "serving" /\ entry[call[c].id] # "none"
  BY <1>1 DEF RequestsInv, CallInv
<1>4. \A e, id, n : Logged(e, id, n)' <=> Logged(e, id, n)
  BY <1>1 DEF Logged
<1>5. ChainInv' /\ BatchInv'
  BY <1>1, <1>4
  DEF RequestsInv, ChainInv, BatchInv, CreatedBy, FulfilledBy, CancelledBy
<1>6. EntryInv'
  BY <1>1, <1>4
  DEF RequestsInv, EntryInv, Known, Reached, Awaited, FulfillKnown, CreatedBy, FulfilledBy,
      CancelledBy
<1>7. CallInv'
  BY <1>1, <1>2, <1>3 DEF RequestsInv, CallInv
<1>8. \A id \in Ids : UnderWay(id) => UnderWay(id)'
  BY <1>1, <1>2 DEF UnderWay
<1>9. DeclineInv'
  <2>1. PICK id \in Ids : id = call[c].id
    BY DEF Types, CallTypes, Call
  <2>2. UnderWay(id)' /\ entry[id] # "none" /\ declined' = declined \cup {id}
    BY <1>1, <1>2, <1>3, <2>1 DEF UnderWay
  <2>3. \A x \in declined : x \in Ids /\ (UnderWay(x) => UnderWay(x)')
    BY <1>8 DEF Types, CallTypes
  <2> QED
    BY <1>1, <1>3, <2>2, <2>3 DEF RequestsInv, DeclineInv
<1> QED
  BY <1>5, <1>6, <1>7, <1>9 DEF RequestsInv

LEMMA DeclineDoneStep ==
    ASSUME Types, RequestsInv, NEW c \in Calls, DeclineDone(c)
    PROVE  RequestsInv'
<1>1. /\ UNCHANGED <<requests, log, declined, phase, bootTip, loaded, batch>>
      /\ call[c].pc = "inserted"
  BY DEF DeclineDone, chainVars, loadVars
<1>2. call'[c].pc = "idle" /\ \A b \in Calls \ {c} : call'[b] = call[b]
  BY CallFacts, NoCallType DEF DeclineDone, Types
<1>3. PICK id \in Ids : id = call[c].id
  BY DEF Types, CallTypes, Call
<1>4. id \in declined /\ entry[id] # "none" /\ phase = "serving"
  BY <1>1, <1>3 DEF RequestsInv, CallInv
<1>5. /\ state'[id]["copy"] = "declined" /\ entry'[id] = "copy"
      /\ \A p \in Object \ {"copy"} : state'[id][p] = state[id][p]
      /\ \A i \in Ids \ {id} : state'[i] = state[i] /\ entry'[i] = entry[i]
  <2>1. /\ state' = [state EXCEPT ![id]["copy"] = "declined"]
        /\ entry' = [entry EXCEPT ![id] = "copy"]
    BY <1>3 DEF DeclineDone
  <2>2. "copy" \in Object /\ "declined" \in State /\ EntryTypes
    BY DEF Object, State, Types
  <2> QED
    BY <2>1, <2>2, SetFacts
<1>6. \A e, x, n : Logged(e, x, n)' <=> Logged(e, x, n)
  BY <1>1 DEF Logged
<1>7. ChainInv' /\ BatchInv'
  BY <1>1, <1>6
  DEF RequestsInv, ChainInv, BatchInv, CreatedBy, FulfilledBy, CancelledBy
<1>8. EntryInv'
  <2>1. \A x \in Ids : (Known(x)' <=> Known(x)) /\ (FulfillKnown(x)' <=> FulfillKnown(x))
    BY <1>1, <1>6 DEF Known, Reached, Awaited, FulfillKnown, CreatedBy, FulfilledBy
  <2> SUFFICES ASSUME NEW x \in Ids
               PROVE  /\ entry'[x] # "none" <=> Known(x)
                      /\ entry'[x] # "none" /\ x \notin declined =>
                            /\ entry'[x] = "original"
                            /\ state'[x]["original"] =
                                  IF CancelledBy(x, loaded) THEN "cancelled"
                                  ELSE IF FulfillKnown(x) THEN "fulfilled"
                                  ELSE "created"
    BY <1>1, <1>6, <2>1 DEF EntryInv, CancelledBy
  <2>2. CASE x = id
    BY <1>4, <1>5, <2>2 DEF RequestsInv, EntryInv
  <2>3. CASE x # id
    BY <1>5, <2>3 DEF RequestsInv, EntryInv
  <2> QED
    BY <2>2, <2>3
<1>9. CallInv'
  BY <1>1, <1>2, <1>5 DEF RequestsInv, CallInv, Types, CallTypes, Call
<1>10. DeclineInv'
  <2>1. \A x \in Ids, o \in Object : state'[x][o] = "declined" => x \in declined
    BY <1>4, <1>5 DEF RequestsInv, DeclineInv, Object
  <2>2. ASSUME NEW x \in declined
        PROVE  /\ entry'[x] # "none"
               /\ UnderWay(x)' \/ state'[x][entry'[x]] \notin {"none", "created"}
    <3>1. CASE x = id
      BY <1>5, <3>1
    <3>2. CASE x # id
      <4>1. x \in Ids
        BY DEF Types, CallTypes
      <4>2. UnderWay(x) => UnderWay(x)'
        BY <1>2, <1>3, <3>2 DEF UnderWay
      <4> QED
        BY <1>4, <1>5, <3>2, <4>1, <4>2 DEF RequestsInv, DeclineInv
    <3> QED
      BY <3>1, <3>2
  <2> QED
    BY <1>1, <1>4, <2>1, <2>2 DEF DeclineInv
<1> QED
  BY <1>7, <1>8, <1>9, <1>10 DEF RequestsInv

LEMMA InvStep == Types /\ RequestsInv /\ [Next]_vars => RequestsInv'
<1> SUFFICES ASSUME Types, RequestsInv, [Next]_vars PROVE RequestsInv'
  OBVIOUS
<1>1. ASSUME NEW id \in Ids, CreateRequest(id) \/ Fulfill(id) \/ Cancel(id)
      PROVE  RequestsInv'
  BY <1>1, ChainStep
<1>2. CASE Load
  BY <1>2, LoadStartStep, CreatedStep, FulfillmentsStep, FulfilledStep, CancellationsStep
  DEF Load
<1>3. CASE InitDeclined
  BY <1>3, InitDeclinedStep
<1>4. CASE Restart
  BY <1>4, RestartStep
<1>5. ASSUME NEW c \in Calls,
             \/ \E id \in Ids : Decline(c, id)
             \/ DeclineChecked(c) \/ DeclineInserted(c) \/ DeclineRejected(c)
             \/ DeclineDone(c)
      PROVE  RequestsInv'
  BY <1>5, DeclineAskedStep, DeclineInsertedStep, DeclineDoneStep
<1>6. CASE UNCHANGED vars
  <2>1. UNCHANGED <<requests, log, declined, phase, bootTip, loaded, batch, entry, state, call>>
    BY <1>6 DEF vars, chainVars, loadVars
  <2>2. CallInv' /\ \A id \in Ids : UnderWay(id) => UnderWay(id)'
    BY <2>1 DEF RequestsInv, CallInv, UnderWay
  <2> QED
    BY <2>1, <2>2, QuietStep
<1> QED
  BY <1>1, <1>2, <1>3, <1>4, <1>5, <1>6 DEF Next

LEMMA Invariant == Spec => [](Types /\ RequestsInv)
<1>1. Init => Types /\ RequestsInv
  BY TypesInit, InvInit
<1>2. Types /\ RequestsInv /\ [Next]_vars => (Types /\ RequestsInv)'
  BY TypesStep, InvStep
<1> QED
  BY <1>1, <1>2, PTL DEF Spec

\* When everything is loaded, a request nobody declined has on the API the status it has on
\* chain, in whatever pieces and order the events were handled.
THEOREM IndexFollowsChain == Spec => []FollowsChain
<1>1. Types /\ RequestsInv => FollowsChain
  <2> SUFFICES ASSUME Types, RequestsInv, Idle, NEW id \in Ids \ declined
               PROVE  Shown(id) = StateOf[requests[id]]
    BY DEF FollowsChain
  <2>1. requests[id] \in Status
    BY DEF Types, ChainTypes
  <2>2. /\ Known(id) <=> requests[id] # "none"
        /\ FulfillKnown(id) <=> requests[id] = "fulfilled"
        /\ CancelledBy(id, loaded) <=> requests[id] = "cancelled"
    BY DEF Idle, RequestsInv, ChainInv, Known, Reached, FulfillKnown
  <2>3. /\ entry[id] # "none" <=> requests[id] # "none"
        /\ entry[id] # "none" =>
              /\ entry[id] = "original"
              /\ state[id]["original"] = IF requests[id] = "cancelled" THEN "cancelled"
                                         ELSE IF requests[id] = "fulfilled" THEN "fulfilled"
                                         ELSE "created"
    BY <2>2 DEF RequestsInv, EntryInv
  <2> QED
    BY <2>1, <2>3 DEF Status, Shown, StateOf
<1> QED
  BY <1>1, Invariant, PTL

\* A decline the API shows is in the database, so that no restart can lose it.
THEOREM DeclinesAreStored == Spec => []DeclinedIsStored
<1>1. Types /\ RequestsInv => DeclinedIsStored
  BY DEF Types, EntryTypes, RequestsInv, DeclineInv, DeclinedIsStored, Shown
<1> QED
  BY <1>1, Invariant, PTL

\* No restart, no load and no second decline opens a declined request again.
THEOREM DeclinesAreRemembered == Spec => []DeclineRemembered
<1>1. Types /\ RequestsInv => DeclineRemembered
  BY DEF Types, CallTypes, RequestsInv, DeclineInv, DeclineRemembered, Shown, UnderWay
<1> QED
  BY <1>1, Invariant, PTL
=============================================================================
