------------------------- MODULE AccountKeysProofs -------------------------
(***************************************************************************)
(* Proofs about AccountKeys, for any phones, accounts, slots and lengths   *)
(* of the log: the contract's count is right, the index follows the log,   *)
(* and no phone is told wrongly that its key is missing.                   *)
(***************************************************************************)
EXTENDS AccountKeys, FiniteSetTheorems, SequenceTheorems, WellFoundedInduction, TLAPS

USE KeysAssumption DEF KeysAssumption, Accounts, Slots

-----------------------------------------------------------------------------
(* Types, in parts that few steps change *)

ContractTypes ==
    /\ keys \in [Accounts -> [Slots -> Keys \cup {None}]]
    /\ numActiveKeys \in [Accounts -> 0..MaxKeys]
    /\ log \in Seq(KeyChange) /\ Len(log) <= MaxLogs

IndexTypes ==
    /\ indexed \in 0..Len(log) /\ boot \in 0..Len(log) /\ restarts \in 0..MaxRestarts
    /\ keyToAddr \in [Keys -> Accounts \cup {None}]
    /\ addrToKeyData \in [Accounts -> SUBSET KeyData]

PhoneTypes ==
    /\ enclave \subseteq keyInfo /\ keyInfo \subseteq Keys
    /\ account \in [Keys -> Accounts \cup {None}]
    /\ accountKeys \in [Keys -> SUBSET KeyData]
    /\ pendingKeyRotation \in [Keys -> SUBSET Rotation]

CallTypes ==
    /\ creating \in [Founders -> {"no", "awaited", "abandoned"}]
    /\ answers \subseteq Answer
    /\ ops \subseteq Op /\ sent \in [Keys -> Op \cup {None}]

LEMMA TypeParts == TypeOK <=> ContractTypes /\ IndexTypes /\ PhoneTypes /\ CallTypes
BY DEF TypeOK, ContractTypes, IndexTypes, PhoneTypes, CallTypes

LEMMA KeysInit == Init => TypeOK
<1> SUFFICES ASSUME Init PROVE TypeOK
  OBVIOUS
<1>1. log \in Seq(KeyChange) /\ Len(log) = 0
  BY EmptySeq DEF Init
<1> QED
  BY <1>1 DEF Init, TypeOK

-----------------------------------------------------------------------------
(* The ways in which steps change the contract and the index *)

Founds(a, s, k) == s = 0 /\ k = a /\ ~Deployed(a)

Adds(a, s, k) == AddKey(a, s, k) /\ (Founds(a, s, k) \/ Active(a) # {}) /\ UNCHANGED indexVars
Removes(a, s) == RemoveKey(a, s) /\ UNCHANGED indexVars

IndexActs == (Load \/ Restart) /\ UNCHANGED contractVars

LEMMA ContractSteps ==
    ASSUME TypeOK, [Next]_vars
    PROVE  \/ UNCHANGED <<contractVars, indexVars>>
           \/ \E a \in Accounts, s \in Slots, k \in Keys : Len(log) < MaxLogs /\ Adds(a, s, k)
           \/ \E a \in Accounts, s \in Slots : Len(log) < MaxLogs /\ Removes(a, s)
           \/ IndexActs
<1>1. CASE \E k \in Founders : Deploy(k)
  <2> PICK k \in Founders : Deploy(k)
    BY <1>1
  <2>1. 0 \in Slots /\ k \in Accounts /\ k \in Keys /\ Founds(k, 0, k)
    BY DEF Founds, Deploy
  <2> QED
    BY <2>1 DEF Deploy, Adds
<1>2. CASE \E op \in ops : Execute(op)
  <2> PICK op \in ops : Execute(op)
    BY <1>2
  <2>1. op \in Op
    BY DEF TypeOK
  <2>2. op.address \in Accounts /\ op.slot \in Slots /\ op.key \in Keys /\ op.bySlot \in Slots /\ op.by \in Keys
    BY <2>1 DEF Op
  <2>3. Active(op.address) # {}
    BY <2>2 DEF Execute, Active
  <2> QED
    BY <2>2, <2>3 DEF Execute, Adds, Removes
<1>3. CASE \E op \in ops : Drop(op)
  BY <1>3 DEF Drop, contractVars, indexVars
<1>4. CASE Load \/ Restart
  BY <1>4 DEF Load, Restart, IndexActs
<1>5. CASE \E k \in Founders : Create(k) \/ Created(k) \/ CreateFails(k)
  BY <1>5 DEF Create, Created, CreateFails, contractVars, indexVars
<1>6. CASE \E k \in Keys : Device(k)
  BY <1>6 DEF Device, AddDevice, RemoveDevice, Send, Poll, Sync, Ask, Accepted, SendFails, LogOut, Reopen,
              contractVars, indexVars
<1>7. CASE \E r \in answers : Answered(r) \/ Lose(r)
  BY <1>7 DEF Answered, Found, Synced, Lose, contractVars, indexVars
<1>8. CASE UNCHANGED vars
  BY <1>8 DEF vars, contractVars, indexVars
<1> QED
  BY <1>1, <1>2, <1>3, <1>4, <1>5, <1>6, <1>7, <1>8 DEF Next, Chain

LEMMA AddKeyTypes ==
    ASSUME ContractTypes, Len(log) < MaxLogs,
           NEW a \in Accounts, NEW s \in Slots, NEW k \in Keys, AddKey(a, s, k)
    PROVE  ContractTypes' /\ Len(log') = Len(log) + 1
<1>1. [change |-> "added", address |-> a, slot |-> s, key |-> k] \in KeyChange
  BY DEF KeyChange
<1>2. log' \in Seq(KeyChange) /\ Len(log') = Len(log) + 1
  BY <1>1, AppendProperties DEF AddKey, Emit, ContractTypes
<1>3. keys' \in [Accounts -> [Slots -> Keys \cup {None}]]
  BY DEF AddKey, ContractTypes
<1>4. numActiveKeys' \in [Accounts -> 0..MaxKeys]
  BY DEF AddKey, ContractTypes
<1> QED
  BY <1>2, <1>3, <1>4 DEF ContractTypes

LEMMA RemoveKeyTypes ==
    ASSUME ContractTypes, Len(log) < MaxLogs,
           NEW a \in Accounts, NEW s \in Slots, RemoveKey(a, s)
    PROVE  ContractTypes' /\ Len(log') = Len(log) + 1
<1>1. [change |-> "removed", address |-> a, slot |-> s, key |-> keys[a][s]] \in KeyChange
  BY DEF KeyChange, RemoveKey, ContractTypes
<1>2. log' \in Seq(KeyChange) /\ Len(log') = Len(log) + 1
  BY <1>1, AppendProperties DEF RemoveKey, Emit, ContractTypes
<1>3. keys' \in [Accounts -> [Slots -> Keys \cup {None}]]
  BY DEF RemoveKey, ContractTypes
<1>4. numActiveKeys' \in [Accounts -> 0..MaxKeys]
  BY DEF RemoveKey, ContractTypes
<1> QED
  BY <1>2, <1>3, <1>4 DEF ContractTypes

LEMMA IndexActTypes ==
    ASSUME ContractTypes, IndexTypes, IndexActs
    PROVE  ContractTypes' /\ IndexTypes'
<1>1. ContractTypes' /\ log' = log
  BY DEF ContractTypes, IndexActs, contractVars
<1>2. CASE Restart
  BY <1>1, <1>2 DEF Restart, Tip, IndexTypes, ContractTypes
<1>3. CASE Load
  <2>1. log[indexed + 1] \in KeyChange /\ indexed + 1 \in 0..Len(log)
    BY <1>3, ElementOfSeq DEF Load, IndexTypes, ContractTypes
  <2> DEFINE c == log[indexed + 1]
  <2>2. c.address \in Accounts /\ c.slot \in Slots /\ c.key \in Keys
    BY <2>1 DEF KeyChange
  <2>3. addrToKeyData' \in [Accounts -> SUBSET KeyData] /\ keyToAddr' \in [Keys -> Accounts \cup {None}]
    <3>1. [slot |-> c.slot, pubKey |-> c.key] \in KeyData
      BY <2>2 DEF KeyData
    <3>2. CASE LoadAdded(c)
      BY <3>1, <3>2, <2>2 DEF LoadAdded, IndexTypes
    <3>3. CASE LoadRemoved(c)
      BY <3>3, <2>2 DEF LoadRemoved, IndexTypes
    <3> QED
      BY <1>3, <3>2, <3>3 DEF Load
  <2> QED
    BY <1>1, <1>3, <2>1, <2>3 DEF Load, IndexTypes
<1> QED
  BY <1>2, <1>3 DEF IndexActs

LEMMA ContractAndIndexTypes ==
    ASSUME TypeOK, [Next]_vars
    PROVE  ContractTypes' /\ IndexTypes'
<1> USE TypeParts
<1>1. CASE UNCHANGED <<contractVars, indexVars>>
  BY <1>1 DEF contractVars, indexVars, ContractTypes, IndexTypes
<1>2. CASE \E a \in Accounts, s \in Slots, k \in Keys : Len(log) < MaxLogs /\ Adds(a, s, k)
  <2>1. ContractTypes' /\ Len(log') = Len(log) + 1
    BY <1>2, AddKeyTypes DEF Adds
  <2> QED
    BY <1>2, <2>1 DEF Adds, indexVars, IndexTypes, ContractTypes
<1>3. CASE \E a \in Accounts, s \in Slots : Len(log) < MaxLogs /\ Removes(a, s)
  <2>1. ContractTypes' /\ Len(log') = Len(log) + 1
    BY <1>3, RemoveKeyTypes DEF Removes
  <2> QED
    BY <1>3, <2>1 DEF Removes, indexVars, IndexTypes, ContractTypes
<1>4. CASE IndexActs
  BY <1>4, IndexActTypes
<1> QED
  BY <1>1, <1>2, <1>3, <1>4, ContractSteps

-----------------------------------------------------------------------------
(* The phones *)

NatLess == {p \in Nat \X Nat : p[1] < p[2]}

LEMMA LowestExists ==
    ASSUME NEW T \in SUBSET Nat, T # {}
    PROVE  \E s \in T : \A t \in T : s <= t
<1>1. IsWellFoundedOn(NatLess, Nat)
  BY NatLessThanWellFounded DEF OpToRel, NatLess, IsWellFoundedOn
<1>2. PICK s \in T : \A t \in T : ~ (<<t, s>> \in NatLess)
  BY <1>1, WFMin
<1>3. \A t \in Nat : t < s => <<t, s>> \in NatLess
  BY DEF NatLess
<1>4. \A t \in T : ~(t < s)
  BY <1>2, <1>3
<1> QED
  BY <1>4

LEMMA HighestExists ==
    ASSUME NEW T \in SUBSET Slots, T # {}
    PROVE  \E s \in T : \A t \in T : t <= s
<1> DEFINE U == {LastSlot - t : t \in T}
<1>1. U \in SUBSET Nat /\ U # {}
  <2>1. \A t \in T : t \in Nat /\ LastSlot - t \in Nat
    OBVIOUS
  <2>2. \A v \in U : v \in Nat
    BY <2>1
  <2>3. PICK t \in T : TRUE
    OBVIOUS
  <2>4. LastSlot - t \in U
    OBVIOUS
  <2> QED
    BY <2>2, <2>4
<1>2. PICK u \in U : \A v \in U : u <= v
  BY <1>1, LowestExists
<1>3. PICK s \in T : u = LastSlot - s
  BY <1>2
<1>4. \A t \in T : u <= LastSlot - t
  BY <1>2
<1>5. \A t \in T : t \in Int /\ t <= s
  BY <1>3, <1>4
<1> QED
  BY <1>5

LEMMA UnusedSlotIsSlot ==
    ASSUME NEW used \in SUBSET Slots, Slots \ used # {}
    PROVE  UnusedSlot(used) \in Slots
<1>1. CASE used = {}
  BY <1>1 DEF UnusedSlot
<1>2. CASE used # {} /\ Highest(used) < LastSlot
  <2>1. \E s \in used : \A t \in used : t <= s
    BY <1>2, HighestExists
  <2>2. Highest(used) \in used
    BY <2>1 DEF Highest
  <2>3. UnusedSlot(used) = Highest(used) + 1
    BY <1>2 DEF UnusedSlot
  <2>4. \A h \in used : h \in 0..LastSlot
    OBVIOUS
  <2>5. Highest(used) \in 0..LastSlot
    BY <2>2, <2>4
  <2> QED
    BY <2>3, <2>5, <1>2
<1>3. CASE used # {} /\ ~(Highest(used) < LastSlot)
  <2>1. \E s \in Slots \ used : \A t \in Slots \ used : s <= t
    <3>1. Slots \ used \in SUBSET Nat
      OBVIOUS
    <3> QED
      BY <3>1, LowestExists
  <2>2. Lowest(Slots \ used) \in Slots
    BY <2>1 DEF Lowest
  <2> QED
    BY <1>3, <2>2 DEF UnusedSlot
<1> QED
  BY <1>1, <1>2, <1>3

-----------------------------------------------------------------------------
LEMMA SaveNewTypes ==
    ASSUME PhoneTypes, NEW k \in Keys, NEW a \in Accounts, SaveNew(k, a)
    PROVE  /\ account' \in [Keys -> Accounts \cup {None}]
           /\ accountKeys' \in [Keys -> SUBSET KeyData]
           /\ pendingKeyRotation' \in [Keys -> SUBSET Rotation]
<1>1. [slot |-> 0, pubKey |-> k] \in KeyData
  BY DEF KeyData
<1> QED
  BY <1>1 DEF SaveNew, PhoneTypes

LEMMA AskTypes ==
    ASSUME IndexTypes, PhoneTypes, CallTypes, NEW k \in Keys, NEW of \in {"lookup", "history"},
           NEW a \in Accounts, Ask(k, of, a)
    PROVE  PhoneTypes' /\ CallTypes'
<1> DEFINE r == [to |-> k, of |-> of, address |-> a,
                 accountKeys |-> IF of = "history" THEN addrToKeyData[a] ELSE {}]
<1>1. (IF of = "history" THEN addrToKeyData[a] ELSE {}) \in SUBSET KeyData
  BY DEF IndexTypes
<1>2. r \in Answer
  BY <1>1 DEF Answer
<1>3. answers' = answers \cup {r}
  BY DEF Ask
<1>4. PhoneTypes'
  BY DEF Ask, PhoneTypes, phoneVars, accountVars
<1>5. CallTypes'
  BY <1>2, <1>3 DEF Ask, CallTypes
<1> QED
  BY <1>4, <1>5

LEMMA SendTypes ==
    ASSUME PhoneTypes, CallTypes, NEW k \in Keys, NEW change \in {"added", "removed"},
           NEW s \in Slots, NEW key \in Keys, account[k] # None, Send(k, change, s, key)
    PROVE  PhoneTypes' /\ CallTypes'
<1>1. PICK d \in accountKeys[k] :
         LET op == [change |-> change, address |-> account[k], slot |-> s, key |-> key,
                    by |-> k, bySlot |-> d.slot]
         IN  ops' = ops \cup {op} /\ sent' = [sent EXCEPT ![k] = op]
  BY DEF Send
<1> DEFINE op == [change |-> change, address |-> account[k], slot |-> s, key |-> key,
                  by |-> k, bySlot |-> d.slot]
<1>2. d \in KeyData
  BY DEF PhoneTypes
<1>3. d.slot \in Slots /\ account[k] \in Accounts
  BY <1>2 DEF KeyData, PhoneTypes
<1>4. op \in Op
  BY <1>3 DEF Op
<1>5. PhoneTypes'
  BY DEF Send, PhoneTypes, phoneVars, accountVars
<1>6. CallTypes'
  BY <1>1, <1>4 DEF Send, CallTypes
<1> QED
  BY <1>5, <1>6

LEMMA DeleteTypes ==
    ASSUME PhoneTypes, NEW k \in Keys, DeleteAccountAndKey(k)
    PROVE  PhoneTypes'
BY DEF DeleteAccountAndKey, PhoneTypes

LEMMA DeviceTypes ==
    ASSUME IndexTypes, PhoneTypes, CallTypes, NEW k \in Keys, Device(k)
    PROVE  PhoneTypes' /\ CallTypes'
<1>1. CASE \E new \in Keys : AddDevice(k, new)
  <2>1. PICK new \in Keys : AddDevice(k, new)
    BY <1>1
  <2>2. SlotsKnown(k) \in SUBSET Slots
    <3>1. \A d \in accountKeys[k] : d.slot \in Slots
      BY DEF PhoneTypes, KeyData
    <3> QED
      BY <3>1 DEF SlotsKnown
  <2>3. UnusedSlot(SlotsKnown(k)) \in Slots
    BY <2>1, <2>2, UnusedSlotIsSlot DEF AddDevice
  <2> QED
    BY <2>1, <2>3, SendTypes DEF AddDevice
<1>2. CASE \E d \in accountKeys[k] : RemoveDevice(k, d)
  <2>1. PICK d \in accountKeys[k] : RemoveDevice(k, d)
    BY <1>2
  <2>2. d.slot \in Slots /\ d.pubKey \in Keys
    BY DEF PhoneTypes, KeyData
  <2> QED
    BY <2>1, <2>2, SendTypes DEF RemoveDevice
<1>3. CASE Poll(k)
  <2>1. keyToAddr[k] \in Accounts
    BY <1>3 DEF Poll, IndexTypes
  <2> QED
    BY <1>3, <2>1, AskTypes DEF Poll
<1>4. CASE Sync(k)
  <2>1. account[k] \in Accounts
    BY <1>4 DEF Sync, PhoneTypes
  <2> QED
    BY <1>4, <2>1, AskTypes DEF Sync
<1>5. CASE Accepted(k)
  <2>1. CallTypes'
    BY <1>5 DEF Accepted, CallTypes
  <2>2. sent[k] \in Op
    BY <1>5 DEF Accepted, CallTypes
  <2>3. sent[k].slot \in Slots
    BY <2>2 DEF Op
  <2>4. CASE account[k] = None
    BY <1>5, <2>1, <2>4 DEF Accepted, PhoneTypes, phoneVars, accountVars
  <2>5. CASE account[k] # None /\ sent[k].change = "removed" /\ sent[k].key = k
    BY <1>5, <2>1, <2>5, DeleteTypes DEF Accepted
  <2>6. CASE account[k] # None /\ ~(sent[k].change = "removed" /\ sent[k].key = k)
    <3> DEFINE p == [rotationType |-> IF sent[k].change = "added" THEN "add" ELSE "remove",
                     slot |-> sent[k].slot]
    <3>1. p \in Rotation
      BY <2>3 DEF Rotation
    <3>2. pendingKeyRotation' = [pendingKeyRotation EXCEPT ![k] = @ \cup {p}]
      BY <1>5, <2>6 DEF Accepted
    <3> QED
      BY <1>5, <2>1, <2>6, <3>1, <3>2 DEF Accepted, PhoneTypes
  <2> QED
    BY <2>1, <2>4, <2>5, <2>6
<1>6. CASE SendFails(k)
  BY <1>6 DEF SendFails, PhoneTypes, CallTypes, phoneVars, accountVars
<1>7. CASE LogOut(k)
  <2>1. PhoneTypes'
    BY <1>7, DeleteTypes DEF LogOut
  <2> QED
    BY <1>7, <2>1 DEF LogOut, callVars, CallTypes
<1>8. CASE Reopen(k)
  BY <1>8 DEF Reopen, PhoneTypes, CallTypes, accountVars
<1> QED
  BY <1>1, <1>2, <1>3, <1>4, <1>5, <1>6, <1>7, <1>8 DEF Device

LEMMA AnswerTypes ==
    ASSUME PhoneTypes, CallTypes, NEW r \in answers, Answered(r) \/ Lose(r)
    PROVE  PhoneTypes' /\ CallTypes'
<1>1. r.to \in Keys /\ r.address \in Accounts /\ r.accountKeys \in SUBSET KeyData
  BY DEF CallTypes, Answer
<1>2. CASE Found(r)
  <2>1. PhoneTypes'
    BY <1>1, <1>2, SaveNewTypes DEF Found, PhoneTypes, accountVars
  <2> QED
    BY <1>2, <2>1 DEF Found, CallTypes
<1>3. CASE Synced(r)
  <2>1. CallTypes'
    BY <1>3 DEF Synced, CallTypes
  <2>2. accountKeys' \in [Keys -> SUBSET KeyData]
    BY <1>1, <1>3 DEF Synced, PhoneTypes
  <2>3. pendingKeyRotation' \in [Keys -> SUBSET Rotation]
    <3> DEFINE left == {p \in pendingKeyRotation[r.to] : StillPending(p, {d.slot : d \in r.accountKeys})}
    <3>1. left \in SUBSET Rotation
      BY <1>1 DEF PhoneTypes
    <3>2. pendingKeyRotation' \in {pendingKeyRotation, [pendingKeyRotation EXCEPT ![r.to] = left]}
      BY <1>3 DEF Synced
    <3> HIDE DEF left
    <3> QED
      BY <1>1, <3>1, <3>2 DEF PhoneTypes
  <2> QED
    BY <1>3, <2>1, <2>2, <2>3 DEF Synced, PhoneTypes
<1>4. CASE Lose(r)
  BY <1>4 DEF Lose, PhoneTypes, CallTypes, phoneVars, accountVars
<1> QED
  BY <1>2, <1>3, <1>4 DEF Answered

LEMMA PhoneAndCallTypes ==
    ASSUME TypeOK, [Next]_vars
    PROVE  PhoneTypes' /\ CallTypes'
<1> USE TypeParts
<1>1. CASE Chain
  BY <1>1 DEF Chain, Deploy, Execute, Drop, PhoneTypes, CallTypes, phoneVars, accountVars, callVars
<1>2. CASE Load \/ Restart
  BY <1>2 DEF Load, Restart, PhoneTypes, CallTypes, phoneVars, accountVars, callVars
<1>3. CASE \E k \in Founders : Create(k) \/ CreateFails(k)
  BY <1>3 DEF Create, CreateFails, PhoneTypes, CallTypes, phoneVars, accountVars
<1>4. CASE \E k \in Founders : Created(k)
  <2>1. PICK k \in Founders : Created(k)
    BY <1>4
  <2>2. PhoneTypes'
    BY <2>1, SaveNewTypes DEF Created, PhoneTypes, accountVars
  <2> QED
    BY <2>1, <2>2 DEF Created, CallTypes
<1>5. CASE \E k \in Keys : Device(k)
  BY <1>5, DeviceTypes
<1>6. CASE \E r \in answers : Answered(r) \/ Lose(r)
  BY <1>6, AnswerTypes
<1>7. CASE UNCHANGED vars
  BY <1>7 DEF vars, PhoneTypes, CallTypes, phoneVars, accountVars, callVars
<1> QED
  BY <1>1, <1>2, <1>3, <1>4, <1>5, <1>6, <1>7 DEF Next

\* The contract, the index, the phones and the calls between them keep their types.
THEOREM KeysTypeOK == Spec => []TypeOK
<1>1. TypeOK /\ [Next]_vars => TypeOK'
  <2> SUFFICES ASSUME TypeOK, [Next]_vars PROVE TypeOK'
    OBVIOUS
  <2>1. ContractTypes' /\ IndexTypes' /\ PhoneTypes' /\ CallTypes'
    BY ContractAndIndexTypes, PhoneAndCallTypes
  <2> QED
    BY <2>1 DEF TypeOK, ContractTypes, IndexTypes, PhoneTypes, CallTypes
<1> QED
  BY <1>1, KeysInit, PTL DEF Spec

-----------------------------------------------------------------------------
(* The count and the slots *)

LEMMA ActiveFinite == \A a \in Accounts : IsFiniteSet(Active(a))
<1>1. IsFiniteSet(Slots)
  BY FS_Interval
<1>2. \A a \in Accounts : Active(a) \in SUBSET Slots
  BY DEF Active
<1> QED
  BY <1>1, <1>2, FS_Subset

\* An account in the log was deployed before, by a key of its own.
FirstLogFounds ==
    \A i \in 1..Len(log) : \E j \in 1..i :
        log[j].change = "added" /\ log[j].address = log[i].address /\ log[j].key = log[i].address

LEMMA AddKeyCounts ==
    ASSUME ContractTypes, CountIsKeys, NEW a \in Accounts, NEW s \in Slots, NEW k \in Keys, AddKey(a, s, k)
    PROVE  CountIsKeys'
<1>1. Active(a)' = Active(a) \cup {s} /\ s \notin Active(a)
  BY DEF AddKey, Active, ContractTypes
<1>2. \A b \in Accounts \ {a} : Active(b)' = Active(b)
  BY DEF AddKey, Active, ContractTypes
<1>3. Cardinality(Active(a)') = Cardinality(Active(a)) + 1
  BY <1>1, ActiveFinite, FS_AddElement
<1>4. \A b \in Accounts : numActiveKeys'[b] = Cardinality(Active(b)') /\ numActiveKeys'[b] <= MaxKeys
  BY <1>2, <1>3 DEF AddKey, CountIsKeys, ContractTypes
<1>5. ASSUME NEW b \in Accounts, NEW i \in 1..Len(log'), log'[i].address = b
      PROVE  Active(b)' # {}
  <2>1. CASE b = a
    BY <1>1, <2>1
  <2>2. CASE b # a
    <3>1. i \in 1..Len(log) /\ log'[i] = log[i]
      BY <1>5, <2>2 DEF AddKey, Emit, ContractTypes
    <3> QED
      BY <1>2, <1>5, <2>2, <3>1 DEF CountIsKeys
  <2> QED
    BY <2>1, <2>2
<1> QED
  BY <1>4, <1>5 DEF CountIsKeys

LEMMA RemoveKeyCounts ==
    ASSUME ContractTypes, CountIsKeys, NEW a \in Accounts, NEW s \in Slots, RemoveKey(a, s)
    PROVE  CountIsKeys'
<1>1. Active(a)' = Active(a) \ {s} /\ s \in Active(a)
  BY DEF RemoveKey, Active, ContractTypes
<1>2. \A b \in Accounts \ {a} : Active(b)' = Active(b)
  BY DEF RemoveKey, Active, ContractTypes
<1>3. Cardinality(Active(a)') = Cardinality(Active(a)) - 1 /\ IsFiniteSet(Active(a)')
  BY <1>1, ActiveFinite, FS_RemoveElement
<1>4. \A b \in Accounts : numActiveKeys'[b] = Cardinality(Active(b)') /\ numActiveKeys'[b] <= MaxKeys
  BY <1>2, <1>3 DEF RemoveKey, CountIsKeys, ContractTypes
<1>5. Active(a)' # {}
  <2>1. numActiveKeys[a] > 1 /\ numActiveKeys[a] = Cardinality(Active(a)) /\ numActiveKeys[a] \in Nat
    BY DEF RemoveKey, CountIsKeys, ContractTypes
  <2> QED
    BY <1>3, <2>1, FS_EmptySet
<1>6. ASSUME NEW b \in Accounts \ {a}, NEW i \in 1..Len(log'), log'[i].address = b
      PROVE  Active(b)' # {}
  <2>1. i \in 1..Len(log) /\ log'[i] = log[i]
    BY <1>6 DEF RemoveKey, Emit, ContractTypes
  <2> QED
    BY <1>2, <1>6, <2>1 DEF CountIsKeys
<1> QED
  BY <1>4, <1>5, <1>6 DEF CountIsKeys

LEMMA CountStep ==
    ASSUME TypeOK, CountIsKeys, [Next]_vars
    PROVE  CountIsKeys'
<1> USE TypeParts
<1>1. CASE UNCHANGED contractVars
  BY <1>1 DEF contractVars, CountIsKeys, Active
<1> QED
  BY <1>1, ContractSteps, AddKeyCounts, RemoveKeyCounts DEF Adds, Removes, IndexActs

LEMMA CountInit == Init => CountIsKeys
<1> SUFFICES ASSUME Init PROVE CountIsKeys
  OBVIOUS
<1>1. \A a \in Accounts : Active(a) = {} /\ numActiveKeys[a] = 0
  BY DEF Init, Active
<1>2. Len(log) = 0
  BY DEF Init
<1> QED
  BY <1>1, <1>2, FS_EmptySet DEF CountIsKeys

\* The count the contract keeps apart from the slots is right, and no account loses its last
\* key, whatever ops race.
THEOREM ContractCountsKeys == Spec => []CountIsKeys
<1>1. TypeOK /\ CountIsKeys /\ [Next]_vars => CountIsKeys'
  BY CountStep
<1> QED
  BY <1>1, CountInit, KeysTypeOK, PTL DEF Spec

-----------------------------------------------------------------------------
(* The log and the slots *)

Addition(a, s, k) == [change |-> "added", address |-> a, slot |-> s, key |-> k]

About(c, a, s) == c.address = a /\ c.slot = s

LEMMA HeldNext ==
    ASSUME NEW a, NEW s, NEW k, NEW n \in Nat
    PROVE  Held(a, s, k, n + 1) <=>
               \/ log[n + 1] = Addition(a, s, k)
               \/ Held(a, s, k, n) /\ ~About(log[n + 1], a, s)
<1>1. ASSUME log[n + 1] = Addition(a, s, k) PROVE Held(a, s, k, n + 1)
  <2>1. n + 1 \in 1..n + 1 /\ (n + 1) + 1 .. n + 1 = {}
    OBVIOUS
  <2> QED
    BY <1>1, <2>1 DEF Held, Addition
<1>2. ASSUME Held(a, s, k, n), ~About(log[n + 1], a, s) PROVE Held(a, s, k, n + 1)
  <2>1. PICK i \in 1..n : log[i] = Addition(a, s, k) /\ \A j \in i+1 .. n : ~About(log[j], a, s)
    BY <1>2 DEF Held, Addition, About
  <2>2. i \in 1..n + 1 /\ \A j \in i+1 .. n+1 : ~About(log[j], a, s)
    <3>1. \A j \in i+1 .. n+1 : j \in i+1 .. n \/ j = n + 1
      OBVIOUS
    <3> QED
      BY <1>2, <2>1, <3>1
  <2> QED
    BY <2>1, <2>2 DEF Held, Addition, About
<1>3. ASSUME Held(a, s, k, n + 1), log[n + 1] # Addition(a, s, k)
      PROVE  Held(a, s, k, n) /\ ~About(log[n + 1], a, s)
  <2>1. PICK i \in 1..n + 1 :
            log[i] = Addition(a, s, k) /\ \A j \in i+1 .. n+1 : ~About(log[j], a, s)
    BY <1>3 DEF Held, Addition, About
  <2>2. i \in 1..n /\ n + 1 \in i+1 .. n+1
    BY <1>3, <2>1
  <2>3. \A j \in i+1 .. n : j \in i+1 .. n+1
    OBVIOUS
  <2> QED
    BY <2>1, <2>2, <2>3 DEF Held, Addition, About
<1> QED
  BY <1>1, <1>2, <1>3

HeldGrows ==
    \A a, s, k : \A n \in Nat :
        Held(a, s, k, n + 1) <=> \/ log[n + 1] = Addition(a, s, k)
                                 \/ Held(a, s, k, n) /\ ~About(log[n + 1], a, s)

LEMMA HeldNextAlways == HeldGrows /\ HeldGrows'
<1>1. HeldGrows
  BY HeldNext DEF HeldGrows
<1> QED
  BY <1>1, PTL

LEMMA HeldUnique ==
    ASSUME NEW a, NEW s, NEW k, NEW l, NEW n \in Nat, Held(a, s, k, n), Held(a, s, l, n)
    PROVE  k = l
<1>1. PICK i \in 1..n : log[i] = Addition(a, s, k) /\ \A j \in i+1 .. n : ~About(log[j], a, s)
  BY DEF Held, Addition, About
<1>2. PICK h \in 1..n : log[h] = Addition(a, s, l) /\ \A j \in h+1 .. n : ~About(log[j], a, s)
  BY DEF Held, Addition, About
<1>3. About(log[i], a, s) /\ About(log[h], a, s)
  BY <1>1, <1>2 DEF Addition, About
<1>4. i = h
  <2>1. ~(i < h)
    <3>1. i < h => h \in i+1 .. n
      OBVIOUS
    <3> QED
      BY <1>1, <1>3, <3>1
  <2>2. ~(h < i)
    <3>1. h < i => i \in h+1 .. n
      OBVIOUS
    <3> QED
      BY <1>2, <1>3, <3>1
  <2> QED
    BY <2>1, <2>2
<1>5. Addition(a, s, k).key = k /\ Addition(a, s, l).key = l
  BY DEF Addition
<1> QED
  BY <1>1, <1>2, <1>4, <1>5

LEMMA HeldKept ==
    ASSUME log \in Seq(KeyChange), NEW e, log' = log \/ log' = Append(log, e), NEW a, NEW s, NEW k,
           NEW n \in 0..Len(log)
    PROVE  Held(a, s, k, n)' <=> Held(a, s, k, n)
<1>1. \A i \in 1..n : log'[i] = log[i]
  BY AppendProperties
<1>2. \A i \in 1..n : \A j \in i+1 .. n : j \in 1..n
  OBVIOUS
<1> QED
  BY <1>1, <1>2 DEF Held

\* The log is the history of the slots: what it removes was there, it adds to free slots, and
\* what it leaves in them is there.
Fits(i) ==
    /\ log[i].change = "removed" => Held(log[i].address, log[i].slot, log[i].key, i - 1)
    /\ log[i].change = "added" => \A k \in Keys : ~Held(log[i].address, log[i].slot, k, i - 1)
LogFits == \A i \in 1..Len(log) : Fits(i)
SlotsShowLog ==
    \A a \in Accounts, s \in Slots, k \in Keys : keys[a][s] = k <=> Held(a, s, k, Len(log))
LogIsHistory == LogFits /\ SlotsShowLog

LEMMA LogInit == Init => LogIsHistory /\ FirstLogFounds
<1> SUFFICES ASSUME Init PROVE LogIsHistory /\ FirstLogFounds
  OBVIOUS
<1>1. Len(log) = 0 /\ 1..Len(log) = {}
  BY DEF Init
<1>2. \A a, s, k : ~Held(a, s, k, Len(log))
  BY <1>1 DEF Held
<1> QED
  BY <1>1, <1>2 DEF Init, LogIsHistory, LogFits, SlotsShowLog, FirstLogFounds

\* What a new log leaves of the old ones.
LEMMA LogKept ==
    ASSUME ContractTypes, LogFits, NEW e, log' = Append(log, e)
    PROVE  /\ Len(log') = Len(log) + 1 /\ log'[Len(log) + 1] = e
           /\ \A i \in 1..Len(log) : log'[i] = log[i]
           /\ \A i \in 1..Len(log) : Fits(i)'
<1>1. Len(log') = Len(log) + 1 /\ log'[Len(log) + 1] = e /\ \A i \in 1..Len(log) : log'[i] = log[i]
  BY AppendProperties DEF ContractTypes
<1>2. ASSUME NEW i \in 1..Len(log) PROVE Fits(i)'
  <2>1. i - 1 \in 0..Len(log)
    BY DEF ContractTypes
  <2>2. \A a, s, k : Held(a, s, k, i - 1)' <=> Held(a, s, k, i - 1)
    BY <2>1, HeldKept DEF ContractTypes
  <2>3. Fits(i) /\ log'[i] = log[i]
    BY <1>1 DEF LogFits
  <2> QED
    BY <2>2, <2>3 DEF Fits
<1> QED
  BY <1>1, <1>2

LEMMA AddKeyHistory ==
    ASSUME ContractTypes, LogIsHistory, NEW a \in Accounts, NEW s \in Slots, NEW k \in Keys, AddKey(a, s, k),
           NEW n \in Nat, n = Len(log)
    PROVE  LogIsHistory'
<1> DEFINE e == Addition(a, s, k)
<1>0. log' = Append(log, e)
  BY DEF AddKey, Emit, Addition
<1>1. Len(log') = n + 1 /\ log'[n + 1] = e /\ \A i \in 1..n : Fits(i)'
  BY <1>0, LogKept DEF LogIsHistory
<1>2. \A b, t, l : Held(b, t, l, n)' <=> Held(b, t, l, n)
  <2>1. n \in 0..Len(log)
    BY <1>0
  <2> QED
    BY <1>0, <2>1, HeldKept DEF ContractTypes
<1>3. \A b, t, l : Held(b, t, l, n + 1)' <=> e = Addition(b, t, l) \/ (Held(b, t, l, n)' /\ ~About(e, b, t))
  BY <1>1, HeldNextAlways DEF HeldGrows
<1>4. ASSUME NEW b \in Accounts, NEW t \in Slots, NEW l \in Keys
      PROVE  keys'[b][t] = l <=> Held(b, t, l, n + 1)'
  <2>1. CASE b = a /\ t = s
    <3>1. keys'[b][t] = k /\ About(e, b, t) /\ (e = Addition(b, t, l) <=> l = k)
      BY <2>1 DEF AddKey, ContractTypes, About, Addition
    <3> QED
      BY <1>3, <3>1
  <2>2. CASE ~(b = a /\ t = s)
    <3>1. keys'[b][t] = keys[b][t] /\ ~About(e, b, t) /\ e # Addition(b, t, l)
      BY <2>2 DEF AddKey, ContractTypes, About, Addition
    <3> QED
      BY <1>2, <1>3, <3>1 DEF LogIsHistory, SlotsShowLog
  <2> QED
    BY <2>1, <2>2
<1>5. Fits(n + 1)'
  <2>1. \A l \in Keys : ~Held(a, s, l, n)'
    BY <1>2 DEF LogIsHistory, SlotsShowLog, AddKey
  <2>2. e.change = "added" /\ e.address = a /\ e.slot = s /\ (n + 1) - 1 = n
    BY <1>0 DEF Addition
  <2> QED
    BY <1>1, <2>1, <2>2 DEF Fits
<1>6. \A i \in 1..n + 1 : i \in 1..n \/ i = n + 1
  BY <1>0
<1>7. LogFits'
  BY <1>1, <1>5, <1>6 DEF LogFits
<1>8. SlotsShowLog'
  BY <1>1, <1>4 DEF SlotsShowLog
<1> QED
  BY <1>7, <1>8 DEF LogIsHistory

LEMMA RemoveKeyHistory ==
    ASSUME ContractTypes, LogIsHistory, NEW a \in Accounts, NEW s \in Slots, RemoveKey(a, s),
           NEW n \in Nat, n = Len(log)
    PROVE  LogIsHistory'
<1> DEFINE e == [change |-> "removed", address |-> a, slot |-> s, key |-> keys[a][s]]
<1> PICK r : r = e
  OBVIOUS
<1>0. log' = Append(log, r)
  BY DEF RemoveKey, Emit
<1>1. Len(log') = n + 1 /\ log'[n + 1] = r /\ \A i \in 1..n : Fits(i)'
  BY <1>0, LogKept DEF LogIsHistory
<1>2. \A b, t, l : Held(b, t, l, n)' <=> Held(b, t, l, n)
  <2>1. n \in 0..Len(log)
    BY <1>0
  <2> QED
    BY <1>0, <2>1, HeldKept DEF ContractTypes
<1>3. \A b, t, l : Held(b, t, l, n + 1)' <=> r = Addition(b, t, l) \/ (Held(b, t, l, n)' /\ ~About(r, b, t))
  BY <1>1, HeldNextAlways DEF HeldGrows
<1>4. ASSUME NEW b \in Accounts, NEW t \in Slots, NEW l \in Keys
      PROVE  keys'[b][t] = l <=> Held(b, t, l, n + 1)'
  <2>0. r # Addition(b, t, l)
    BY DEF Addition
  <2>1. CASE b = a /\ t = s
    <3>1. keys'[b][t] = None /\ About(r, b, t)
      BY <2>1 DEF RemoveKey, ContractTypes, About
    <3> QED
      BY <1>3, <2>0, <3>1
  <2>2. CASE ~(b = a /\ t = s)
    <3>1. keys'[b][t] = keys[b][t] /\ ~About(r, b, t)
      BY <2>2 DEF RemoveKey, ContractTypes, About
    <3> QED
      BY <1>2, <1>3, <2>0, <3>1 DEF LogIsHistory, SlotsShowLog
  <2> QED
    BY <2>1, <2>2
<1>5. Fits(n + 1)'
  <2>1. keys[a][s] \in Keys
    BY DEF RemoveKey, ContractTypes
  <2>2. Held(a, s, keys[a][s], n)
    BY <2>1 DEF LogIsHistory, SlotsShowLog
  <2>3. Held(r.address, r.slot, r.key, n)'
    BY <1>2, <2>2
  <2>4. r.change = "removed" /\ (n + 1) - 1 = n
    OBVIOUS
  <2> QED
    BY <1>1, <2>3, <2>4 DEF Fits
<1>6. \A i \in 1..n + 1 : i \in 1..n \/ i = n + 1
  BY <1>0
<1>7. LogFits'
  BY <1>1, <1>5, <1>6 DEF LogFits
<1>8. SlotsShowLog'
  BY <1>1, <1>4 DEF SlotsShowLog
<1> QED
  BY <1>7, <1>8 DEF LogIsHistory

LEMMA OwnerIsLogged ==
    ASSUME ContractTypes, LogIsHistory, NEW a \in Accounts, NEW s \in Slots, keys[a][s] # None
    PROVE  \E i \in 1..Len(log) : log[i].address = a
<1>1. PICK k \in Keys : keys[a][s] = k
  BY DEF ContractTypes
<1>2. Held(a, s, k, Len(log))
  BY <1>1 DEF LogIsHistory, SlotsShowLog
<1> QED
  BY <1>2 DEF Held

LEMMA FirstLogKept ==
    ASSUME ContractTypes, FirstLogFounds, NEW e, log' = Append(log, e),
           \/ e.change = "added" /\ e.key = e.address
           \/ \E i \in 1..Len(log) : log[i].address = e.address
    PROVE  FirstLogFounds'
<1> PICK n \in Nat : n = Len(log)
  BY DEF ContractTypes
<1>1. Len(log') = n + 1 /\ log'[n + 1] = e /\ \A i \in 1..n : log'[i] = log[i]
  BY AppendProperties DEF ContractTypes
<1> SUFFICES ASSUME NEW i \in 1..n + 1
             PROVE  \E j \in 1..i : log'[j].change = "added" /\ log'[j].address = log'[i].address
                                    /\ log'[j].key = log'[i].address
  BY <1>1 DEF FirstLogFounds
<1>2. CASE i \in 1..n
  BY <1>1, <1>2 DEF FirstLogFounds
<1>3. CASE i = n + 1 /\ e.change = "added" /\ e.key = e.address
  BY <1>1, <1>3
<1>4. CASE i = n + 1 /\ \E h \in 1..n : log[h].address = e.address
  <2>1. PICK h \in 1..n : log[h].address = e.address
    BY <1>4
  <2>2. PICK j \in 1..h : log[j].change = "added" /\ log[j].address = log[h].address
                                    /\ log[j].key = log[h].address
    BY <2>1 DEF FirstLogFounds
  <2>3. j \in 1..i /\ log'[j] = log[j] /\ log'[i] = e
    BY <1>1, <1>4
  <2> QED
    BY <2>1, <2>2, <2>3
<1> QED
  BY <1>2, <1>3, <1>4

LEMMA HistoryStep ==
    ASSUME TypeOK, CountIsKeys, LogIsHistory, FirstLogFounds, [Next]_vars
    PROVE  LogIsHistory' /\ FirstLogFounds'
<1> USE TypeParts
<1> PICK n \in Nat : n = Len(log)
  BY DEF ContractTypes
<1>1. CASE UNCHANGED contractVars
  BY <1>1 DEF contractVars, LogIsHistory, LogFits, Fits, SlotsShowLog, FirstLogFounds, Held
<1>2. CASE \E a \in Accounts, s \in Slots, k \in Keys : Adds(a, s, k)
  <2> PICK a \in Accounts, s \in Slots, k \in Keys : Adds(a, s, k)
    BY <1>2
  <2>1. LogIsHistory'
    BY AddKeyHistory DEF Adds
  <2> DEFINE e == Addition(a, s, k)
  <2>2. log' = Append(log, e) /\ e.change = "added" /\ e.address = a /\ e.key = k
    BY DEF Adds, AddKey, Emit, Addition
  <2>3. Active(a) # {} => \E i \in 1..Len(log) : log[i].address = a
    BY OwnerIsLogged DEF Active
  <2>4. FirstLogFounds'
    BY <2>2, <2>3, FirstLogKept DEF Adds, Founds
  <2> QED
    BY <2>1, <2>4
<1>3. CASE \E a \in Accounts, s \in Slots : Removes(a, s)
  <2> PICK a \in Accounts, s \in Slots : Removes(a, s)
    BY <1>3
  <2>1. LogIsHistory'
    BY RemoveKeyHistory DEF Removes
  <2> PICK e : e = [change |-> "removed", address |-> a, slot |-> s, key |-> keys[a][s]]
    OBVIOUS
  <2>2. log' = Append(log, e) /\ e.address = a
    BY DEF Removes, RemoveKey, Emit
  <2>3. \E i \in 1..Len(log) : log[i].address = a
    BY OwnerIsLogged DEF Removes, RemoveKey
  <2>4. FirstLogFounds'
    BY <2>2, <2>3, FirstLogKept
  <2> QED
    BY <2>1, <2>4
<1> QED
  BY <1>1, <1>2, <1>3, ContractSteps DEF IndexActs

-----------------------------------------------------------------------------
(* The index and the log *)

LEMMA IndexInit == Init => IndexFollowsLog
<1> SUFFICES ASSUME Init PROVE IndexFollowsLog
  OBVIOUS
<1>1. IndexTellsTruth
  BY DEF Init, IndexTellsTruth
<1>2. \A a, s, k : ~Held(a, s, k, indexed)
  BY DEF Init, Held
<1> QED
  BY <1>1, <1>2 DEF IndexFollowsLog, IndexIsComplete

LEMMA HeldIsAdded ==
    ASSUME NEW a, NEW s, NEW k, NEW n \in Nat, Held(a, s, k, n)
    PROVE  \E i \in Additions(k, n) : log[i] = Addition(a, s, k)
<1>1. PICK i \in 1..n : log[i] = Addition(a, s, k)
  BY DEF Held, Addition
<1>2. log[i].change = "added" /\ log[i].key = k
  BY <1>1 DEF Addition
<1> QED
  BY <1>1, <1>2 DEF Additions

LEMMA AddedOnce ==
    ASSUME NEW a, NEW s, NEW b, NEW t, NEW k, NEW n \in Nat, Cardinality(Additions(k, n)) = 1,
           Held(a, s, k, n), Held(b, t, k, n)
    PROVE  a = b /\ s = t
<1>1. IsFiniteSet(Additions(k, n))
  <2>1. IsFiniteSet(1..n)
    BY FS_Interval
  <2> QED
    BY <2>1, FS_Subset DEF Additions
<1>2. PICK x : Additions(k, n) = {x}
  BY <1>1, FS_Singleton
<1>3. log[x] = Addition(a, s, k) /\ log[x] = Addition(b, t, k)
  BY <1>2, HeldIsAdded
<1> QED
  BY <1>3 DEF Addition

LEMMA AdditionsNext ==
    ASSUME NEW k, NEW n \in Nat, ~(log[n + 1].change = "added" /\ log[n + 1].key = k)
    PROVE  Additions(k, n + 1) = Additions(k, n)
<1>1. \A i \in 1..n + 1 : i \in 1..n \/ i = n + 1
  OBVIOUS
<1>2. \A i \in 1..n : i \in 1..n + 1
  OBVIOUS
<1> QED
  BY <1>1, <1>2 DEF Additions

LEMMA GrowthKeepsIndex ==
    ASSUME ContractTypes, IndexTypes, IndexFollowsLog, UNCHANGED indexVars, NEW e, log' = Append(log, e)
    PROVE  IndexFollowsLog'
<1> PICK n \in Nat : n = indexed
  BY DEF IndexTypes, ContractTypes
<1>1. n \in 0..Len(log) /\ indexed' = n /\ keyToAddr' = keyToAddr /\ addrToKeyData' = addrToKeyData
  BY DEF IndexTypes, indexVars
<1>2. \A a, s, k : Held(a, s, k, n)' <=> Held(a, s, k, n)
  BY <1>1, HeldKept DEF ContractTypes
<1>3. \A k : Additions(k, n)' = Additions(k, n)
  <2>1. \A i \in 1..n : log'[i] = log[i]
    BY <1>1, AppendProperties DEF ContractTypes
  <2> QED
    BY <2>1 DEF Additions
<1>4. IndexTellsTruth'
  BY <1>1, <1>2 DEF IndexFollowsLog, IndexTellsTruth
<1>5. IndexIsComplete'
  BY <1>1, <1>2, <1>3 DEF IndexFollowsLog, IndexIsComplete
<1> QED
  BY <1>4, <1>5 DEF IndexFollowsLog

LEMMA LoadKeepsIndex ==
    ASSUME ContractTypes, IndexTypes, LogFits, IndexFollowsLog, Load
    PROVE  IndexFollowsLog'
<1> PICK n \in Nat : n = indexed
  BY DEF IndexTypes, ContractTypes
<1> PICK c : c = log[n + 1]
  OBVIOUS
<1>1. n + 1 \in 1..Len(log) /\ indexed' = n + 1 /\ log' = log
  BY DEF Load, contractVars, IndexTypes, ContractTypes
<1>2. c \in KeyChange
  BY <1>1, ElementOfSeq DEF ContractTypes
<1>3. c.address \in Accounts /\ c.slot \in Slots /\ c.key \in Keys /\ c.change \in {"added", "removed"}
  BY <1>2 DEF KeyChange
<1>4. \A a, s, k : Held(a, s, k, n + 1)' <=> Held(a, s, k, n + 1)
  BY <1>1 DEF Held
<1>5. \A a, s, k : Held(a, s, k, n + 1) <=> c = Addition(a, s, k) \/ (Held(a, s, k, n) /\ ~About(c, a, s))
  BY HeldNext
<1>6. \A k : Additions(k, n + 1)' = Additions(k, n + 1)
  BY <1>1 DEF Additions
<1>7. /\ c.change = "removed" => Held(c.address, c.slot, c.key, n)
      /\ c.change = "added" => \A k \in Keys : ~Held(c.address, c.slot, k, n)
  <2>1. Fits(n + 1) /\ (n + 1) - 1 = n
    BY <1>1 DEF LogFits
  <2> QED
    BY <2>1 DEF Fits
<1>8. CASE c.change = "added"
  <2>0. LoadAdded(c)
    BY <1>8 DEF Load
  <2>1. c = Addition(c.address, c.slot, c.key)
    BY <1>2, <1>8 DEF KeyChange, Addition
  <2>2. Held(c.address, c.slot, c.key, n + 1)
    BY <1>5, <2>1
  <2>3. \A a, s : \A k \in Keys : Held(a, s, k, n) => Held(a, s, k, n + 1)
    BY <1>5, <1>7, <1>8 DEF About
  <2>4. ASSUME NEW a \in Accounts, NEW d \in addrToKeyData'[a]
        PROVE  Held(a, d.slot, d.pubKey, n + 1)
    <3>1. CASE d \in addrToKeyData[a]
      <4>1. Held(a, d.slot, d.pubKey, n) /\ d \in KeyData
        BY <3>1 DEF IndexFollowsLog, IndexTellsTruth, IndexTypes
      <4> QED
        BY <2>3, <4>1 DEF KeyData
    <3>2. CASE d \notin addrToKeyData[a]
      <4>1. a = c.address /\ d = [slot |-> c.slot, pubKey |-> c.key]
        BY <1>3, <2>0, <3>2 DEF LoadAdded, IndexTypes
      <4> QED
        BY <2>2, <4>1
    <3> QED
      BY <3>1, <3>2
  <2>5. ASSUME NEW k \in Keys, keyToAddr'[k] # None
        PROVE  \E s \in Slots : Held(keyToAddr'[k], s, k, n + 1)
    <3>1. CASE k = c.key
      BY <1>3, <2>0, <2>2, <3>1 DEF LoadAdded, IndexTypes
    <3>2. CASE k # c.key
      BY <2>0, <2>3, <2>5, <3>2 DEF LoadAdded, IndexTypes, IndexFollowsLog, IndexTellsTruth
    <3> QED
      BY <3>1, <3>2
  <2>6. ASSUME NEW k \in Keys, NEW a \in Accounts, NEW s \in Slots,
               Cardinality(Additions(k, n + 1)) = 1, Held(a, s, k, n + 1)
        PROVE  [slot |-> s, pubKey |-> k] \in addrToKeyData'[a] /\ keyToAddr'[k] = a
    <3>1. CASE k = c.key
      <4>1. a = c.address /\ s = c.slot
        BY <2>2, <2>6, <3>1, AddedOnce
      <4> QED
        BY <1>3, <2>0, <3>1, <4>1 DEF LoadAdded, IndexTypes
    <3>2. CASE k # c.key
      <4>1. Cardinality(Additions(k, n)) = 1
        BY <2>6, <3>2, AdditionsNext
      <4>2. Held(a, s, k, n)
        <5>1. c # Addition(a, s, k)
          BY <3>2 DEF Addition
        <5> QED
          BY <1>5, <2>6, <5>1
      <4>3. [slot |-> s, pubKey |-> k] \in addrToKeyData[a] /\ keyToAddr[k] = a
        BY <4>1, <4>2 DEF IndexFollowsLog, IndexIsComplete
      <4> QED
        BY <2>0, <3>2, <4>3 DEF LoadAdded, IndexTypes
    <3> QED
      BY <3>1, <3>2
  <2>7. IndexTellsTruth'
    BY <1>1, <1>4, <2>4, <2>5 DEF IndexTellsTruth
  <2>8. IndexIsComplete'
    BY <1>1, <1>4, <1>6, <2>6 DEF IndexIsComplete
  <2> QED
    BY <2>7, <2>8 DEF IndexFollowsLog
<1>9. CASE c.change = "removed"
  <2>0. LoadRemoved(c)
    BY <1>9 DEF Load
  <2>1. Held(c.address, c.slot, c.key, n) /\ \A a, s, k : c # Addition(a, s, k)
    BY <1>7, <1>9 DEF Addition
  <2>2. ASSUME NEW a, NEW s, NEW k, Held(a, s, k, n), k # c.key
        PROVE  Held(a, s, k, n + 1)
    <3>1. ~About(c, a, s)
      BY <2>1, <2>2, HeldUnique DEF About
    <3> QED
      BY <1>5, <2>2, <3>1
  <2>4. ASSUME NEW a \in Accounts, NEW d \in addrToKeyData'[a]
        PROVE  Held(a, d.slot, d.pubKey, n + 1)
    <3>1. d \in addrToKeyData[a] /\ (d.pubKey # c.key \/ a # c.address)
      BY <1>3, <2>0 DEF LoadRemoved, IndexTypes
    <3>2. Held(a, d.slot, d.pubKey, n)
      BY <3>1 DEF IndexFollowsLog, IndexTellsTruth
    <3> QED
      BY <1>5, <2>2, <3>1, <3>2 DEF About
  <2>5. ASSUME NEW k \in Keys, keyToAddr'[k] # None
        PROVE  \E s \in Slots : Held(keyToAddr'[k], s, k, n + 1)
    <3>1. k # c.key /\ keyToAddr'[k] = keyToAddr[k]
      BY <1>3, <2>0, <2>5 DEF LoadRemoved, IndexTypes
    <3> QED
      BY <2>2, <2>5, <3>1 DEF IndexFollowsLog, IndexTellsTruth
  <2>6. ASSUME NEW k \in Keys, NEW a \in Accounts, NEW s \in Slots,
               Cardinality(Additions(k, n + 1)) = 1, Held(a, s, k, n + 1)
        PROVE  [slot |-> s, pubKey |-> k] \in addrToKeyData'[a] /\ keyToAddr'[k] = a
    <3>1. Held(a, s, k, n) /\ ~About(c, a, s)
      BY <1>5, <2>1, <2>6
    <3>2. Cardinality(Additions(k, n)) = 1
      BY <1>9, <2>6, AdditionsNext
    <3>3. k # c.key
      BY <2>1, <3>1, <3>2, AddedOnce DEF About
    <3>4. [slot |-> s, pubKey |-> k] \in addrToKeyData[a] /\ keyToAddr[k] = a
      BY <3>1, <3>2 DEF IndexFollowsLog, IndexIsComplete
    <3> QED
      BY <2>0, <3>3, <3>4 DEF LoadRemoved, IndexTypes
  <2>7. IndexTellsTruth'
    BY <1>1, <1>4, <2>4, <2>5 DEF IndexTellsTruth
  <2>8. IndexIsComplete'
    BY <1>1, <1>4, <1>6, <2>6 DEF IndexIsComplete
  <2> QED
    BY <2>7, <2>8 DEF IndexFollowsLog
<1> QED
  BY <1>3, <1>8, <1>9

LEMMA RestartKeepsIndex == Restart => IndexFollowsLog'
<1> SUFFICES ASSUME Restart PROVE IndexFollowsLog'
  OBVIOUS
<1>1. IndexTellsTruth'
  BY DEF Restart, IndexTellsTruth
<1>2. \A a, s, k : ~Held(a, s, k, 0)'
  BY DEF Held
<1>3. indexed' = 0
  BY DEF Restart
<1>4. IndexIsComplete'
  BY <1>2, <1>3 DEF IndexIsComplete
<1> QED
  BY <1>1, <1>4 DEF IndexFollowsLog

LEMMA IndexStep ==
    ASSUME TypeOK, LogIsHistory, IndexFollowsLog, [Next]_vars
    PROVE  IndexFollowsLog'
<1> USE TypeParts
<1>1. CASE UNCHANGED <<contractVars, indexVars>>
  BY <1>1 DEF contractVars, indexVars, IndexFollowsLog, IndexTellsTruth, IndexIsComplete, Held, Additions
<1>2. CASE \E a \in Accounts, s \in Slots, k \in Keys : Adds(a, s, k)
  BY <1>2, GrowthKeepsIndex DEF Adds, AddKey, Emit
<1>3. CASE \E a \in Accounts, s \in Slots : Removes(a, s)
  BY <1>3, GrowthKeepsIndex DEF Removes, RemoveKey, Emit
<1>4. CASE IndexActs
  BY <1>4, LoadKeepsIndex, RestartKeepsIndex DEF IndexActs, LogIsHistory
<1> QED
  BY <1>1, <1>2, <1>3, <1>4, ContractSteps

-----------------------------------------------------------------------------
(* What a phone is told of its own key *)

WasRemoved(a, k) ==
    \E i \in 1..Len(log) : log[i].change = "removed" /\ log[i].address = a /\ log[i].key = k
Entered(a, k, n) ==
    \E i \in 1..n : log[i].change = "added" /\ log[i].address = a /\ log[i].key = k
HasKey(data, k) == \E d \in data : d.pubKey = k

\* What the API knew when it last started, or knows now, or the phone's own account.
OwnAccount(a, k) == a = k \/ Entered(a, k, indexed) \/ Entered(a, k, boot)

IndexShows ==
    \A a \in Accounts, k \in Keys :
        Entered(a, k, indexed) => HasKey(addrToKeyData[a], k) \/ WasRemoved(a, k)
AccountsAreOwn ==
    /\ \A k \in Keys : account[k] # None => OwnAccount(account[k], k)
    /\ \A r \in answers : r.of = "lookup" => OwnAccount(r.address, r.to)
AnswersShow ==
    \A r \in answers : r.of = "history" => HasKey(r.accountKeys, r.to) \/ WasRemoved(r.address, r.to)
PhonesShow ==
    \A k \in Keys : account[k] # None => HasKey(accountKeys[k], k) \/ WasRemoved(account[k], k)

KeyShown == IndexShows /\ AccountsAreOwn /\ AnswersShow /\ PhonesShow

LEMMA ShownInit == Init => KeyShown
<1> SUFFICES ASSUME Init PROVE KeyShown
  OBVIOUS
<1>1. IndexShows
  BY DEF Init, IndexShows, Entered
<1> QED
  BY <1>1 DEF Init, KeyShown, AccountsAreOwn, AnswersShow, PhonesShow

LEMMA PhoneSteps ==
    ASSUME TypeOK, [Next]_vars
    PROVE  \/ account' = account /\ accountKeys' = accountKeys /\ answers' \subseteq answers
           \/ \E k \in Keys, a \in Accounts :
                 /\ SaveNew(k, a) /\ answers' \subseteq answers
                 /\ a = k \/ \E r \in answers : r.of = "lookup" /\ r.to = k /\ r.address = a
           \/ \E k \in Keys : DeleteAccountAndKey(k) /\ answers' \subseteq answers
           \/ \E r \in answers : Synced(r)
           \/ \E k \in Keys : Poll(k) \/ Sync(k)
<1>1. CASE Chain
  BY <1>1 DEF Chain, Deploy, Execute, Drop, phoneVars, accountVars, callVars
<1>2. CASE Load \/ Restart
  BY <1>2 DEF Load, Restart, phoneVars, accountVars, callVars
<1>3. CASE \E k \in Founders : Create(k) \/ CreateFails(k)
  BY <1>3 DEF Create, CreateFails, phoneVars, accountVars
<1>4. CASE \E k \in Founders : Created(k)
  BY <1>4 DEF Created, accountVars
<1>5. ASSUME NEW k \in Keys, Device(k)
      PROVE  \/ account' = account /\ accountKeys' = accountKeys /\ answers' \subseteq answers
             \/ DeleteAccountAndKey(k) /\ answers' \subseteq answers
             \/ Poll(k) \/ Sync(k)
  <2>1. CASE \/ \E new \in Keys : AddDevice(k, new)
             \/ \E d \in accountKeys[k] : RemoveDevice(k, d)
    BY <2>1 DEF AddDevice, RemoveDevice, Send, phoneVars, accountVars
  <2>2. CASE Accepted(k) \/ SendFails(k)
    BY <2>2 DEF Accepted, SendFails, phoneVars, accountVars
  <2>3. CASE LogOut(k)
    BY <2>3 DEF LogOut, callVars
  <2>4. CASE Reopen(k)
    BY <2>4 DEF Reopen, accountVars
  <2> QED
    BY <1>5, <2>1, <2>2, <2>3, <2>4 DEF Device
<1>6. CASE \E r \in answers : Answered(r) \/ Lose(r)
  <2> PICK r \in answers : Answered(r) \/ Lose(r)
    BY <1>6
  <2>1. r.to \in Keys /\ r.address \in Accounts
    BY DEF TypeOK, Answer
  <2>2. CASE Found(r)
    BY <2>1, <2>2 DEF Found, accountVars
  <2>3. CASE Lose(r)
    BY <2>3 DEF Lose, phoneVars, accountVars
  <2> QED
    BY <2>2, <2>3 DEF Answered
<1>7. CASE UNCHANGED vars
  BY <1>7 DEF vars, phoneVars, accountVars, callVars
<1> QED
  BY <1>1, <1>2, <1>3, <1>4, <1>5, <1>6, <1>7 DEF Next

\* What has been logged stays so, and what the API knew it knows again once it is ready.
LEMMA KnowledgeStays ==
    ASSUME TypeOK, [Next]_vars
    PROVE  \A a, k : /\ WasRemoved(a, k) => WasRemoved(a, k)'
                     /\ OwnAccount(a, k) => OwnAccount(a, k)'
<1> USE TypeParts DEF IndexTypes, ContractTypes
<1>1. CASE \E e : log' = Append(log, e) /\ UNCHANGED indexVars
  <2> PICK n \in Nat : n = Len(log)
    OBVIOUS
  <2>1. Len(log') = n + 1 /\ \A i \in 1..n : log'[i] = log[i]
    BY <1>1, AppendProperties
  <2>2. indexed' = indexed /\ boot' = boot /\ indexed \in 0..n /\ boot \in 0..n
    BY <1>1 DEF indexVars
  <2>3. \A a, k : WasRemoved(a, k) => WasRemoved(a, k)'
    BY <2>1 DEF WasRemoved
  <2>4. ASSUME NEW m \in 0..n, NEW a, NEW k, Entered(a, k, m) PROVE Entered(a, k, m)'
    <3>1. PICK i \in 1..m : log[i].change = "added" /\ log[i].address = a /\ log[i].key = k
      BY <2>4 DEF Entered
    <3>2. log'[i] = log[i]
      BY <2>1
    <3> QED
      BY <3>1, <3>2 DEF Entered
  <2>5. \A a, k : OwnAccount(a, k) => OwnAccount(a, k)'
    <3> PICK x \in 0..n, y \in 0..n : x = indexed /\ y = boot
      BY <2>2
    <3>1. \A a, k : Entered(a, k, x) => Entered(a, k, x)'
      BY <2>4
    <3>2. \A a, k : Entered(a, k, y) => Entered(a, k, y)'
      BY <2>4
    <3> QED
      BY <2>2, <3>1, <3>2 DEF OwnAccount
  <2> QED
    BY <2>3, <2>5
<1>2. CASE UNCHANGED contractVars /\ Load
  BY <1>2 DEF contractVars, Load, WasRemoved, OwnAccount, Entered
<1>3. CASE UNCHANGED contractVars /\ Restart
  BY <1>3 DEF contractVars, Restart, Tip, WasRemoved, OwnAccount, Entered
<1>4. CASE UNCHANGED <<contractVars, indexVars>>
  BY <1>4 DEF contractVars, indexVars, WasRemoved, OwnAccount, Entered
<1> QED
  BY <1>1, <1>2, <1>3, <1>4, ContractSteps DEF Adds, Removes, AddKey, RemoveKey, Emit, IndexActs

LEMMA IndexShowsStep ==
    ASSUME TypeOK, IndexShows, [Next]_vars
    PROVE  IndexShows'
<1> USE TypeParts DEF IndexTypes, ContractTypes
<1>0. \A a, k : WasRemoved(a, k) => WasRemoved(a, k)'
  BY KnowledgeStays
<1>1. CASE \E e : log' = Append(log, e) /\ UNCHANGED indexVars
  <2> PICK n \in Nat : n = indexed
    OBVIOUS
  <2>1. \A i \in 1..n : log'[i] = log[i]
    BY <1>1, AppendProperties
  <2>2. indexed' = n /\ addrToKeyData' = addrToKeyData
    BY <1>1 DEF indexVars
  <2>3. \A a, k : Entered(a, k, n)' => Entered(a, k, n)
    BY <2>1 DEF Entered
  <2> QED
    BY <1>0, <2>2, <2>3 DEF IndexShows
<1>2. CASE UNCHANGED contractVars /\ Load
  <2> PICK n \in Nat : n = indexed
    OBVIOUS
  <2> PICK c : c = log[n + 1]
    OBVIOUS
  <2>1. n + 1 \in 1..Len(log) /\ indexed' = n + 1 /\ log' = log
    BY <1>2 DEF Load, contractVars
  <2>5. c \in KeyChange
    BY <2>1, ElementOfSeq
  <2>2. /\ c.address \in Accounts /\ c.slot \in Slots /\ c.key \in Keys
        /\ c.change \in {"added", "removed"}
    BY <2>5 DEF KeyChange
  <2>3. ASSUME NEW a \in Accounts, NEW k \in Keys, Entered(a, k, n + 1)
        PROVE  HasKey(addrToKeyData'[a], k) \/ WasRemoved(a, k)
    <3>1. CASE c.change = "added"
      <4>0. LoadAdded(c)
        BY <1>2, <3>1 DEF Load
      <4>1. Entered(a, k, n) \/ (c.address = a /\ c.key = k)
        BY <2>3 DEF Entered
      <4>2. CASE c.address = a /\ c.key = k
        <5>1. [slot |-> c.slot, pubKey |-> c.key] \in addrToKeyData'[a]
          BY <2>2, <4>0, <4>2 DEF LoadAdded
        <5> QED
          BY <4>2, <5>1 DEF HasKey
      <4>3. CASE Entered(a, k, n)
        <5>1. addrToKeyData[a] \subseteq addrToKeyData'[a]
          BY <2>2, <4>0 DEF LoadAdded
        <5> QED
          BY <4>3, <5>1 DEF IndexShows, HasKey
      <4> QED
        BY <4>1, <4>2, <4>3
    <3>2. CASE c.change # "added"
      <4>0. LoadRemoved(c) /\ c.change = "removed"
        BY <1>2, <2>2, <3>2 DEF Load
      <4>1. Entered(a, k, n)
        BY <2>3, <3>2 DEF Entered
      <4>2. CASE c.address = a /\ c.key = k
        BY <2>1, <4>0, <4>2 DEF WasRemoved
      <4>3. CASE ~(c.address = a /\ c.key = k)
        BY <2>2, <4>0, <4>1, <4>3 DEF LoadRemoved, IndexShows, HasKey
      <4> QED
        BY <4>2, <4>3
    <3> QED
      BY <3>1, <3>2
  <2>4. \A a, k : Entered(a, k, n + 1)' => Entered(a, k, n + 1)
    BY <2>1 DEF Entered
  <2> QED
    BY <1>0, <2>1, <2>3, <2>4 DEF IndexShows, HasKey
<1>3. CASE UNCHANGED contractVars /\ Restart
  <2>1. \A a, k : ~Entered(a, k, 0)'
    BY DEF Entered
  <2>2. indexed' = 0
    BY <1>3 DEF Restart
  <2> QED
    BY <2>1, <2>2 DEF IndexShows
<1>4. CASE UNCHANGED <<contractVars, indexVars>>
  <2>1. log' = log /\ indexed' = indexed /\ addrToKeyData' = addrToKeyData
    BY <1>4 DEF contractVars, indexVars
  <2>2. \A a, k : Entered(a, k, indexed)' <=> Entered(a, k, indexed)
    BY <2>1 DEF Entered
  <2>3. \A a, k : WasRemoved(a, k)' <=> WasRemoved(a, k)
    BY <2>1 DEF WasRemoved
  <2> QED
    BY <1>0, <2>1, <2>2, <2>3 DEF IndexShows
<1> QED
  BY <1>1, <1>2, <1>3, <1>4, ContractSteps DEF Adds, Removes, AddKey, RemoveKey, Emit, IndexActs

\* An answer about the keys of an account shows the asker's, or that one was removed.
LEMMA SyncShows ==
    ASSUME TypeOK, FirstLogFounds, KeyShown, NEW k \in Keys, Sync(k)
    PROVE  HasKey(addrToKeyData[account[k]], k) \/ WasRemoved(account[k], k)
<1> USE TypeParts DEF IndexTypes, ContractTypes
<1>1. account[k] \in Accounts /\ indexed >= boot
  BY DEF Sync, Ask, Ready, PhoneTypes
<1>2. Entered(account[k], k, indexed)
  <2>1. CASE account[k] = k
    <3>1. PICK i \in 1..indexed : log[i].address = k
      BY <2>1 DEF Sync, Known
    <3>0. i \in 1..Len(log)
      OBVIOUS
    <3>2. PICK j \in 1..i : log[j].change = "added" /\ log[j].address = k /\ log[j].key = k
      BY <3>0, <3>1 DEF FirstLogFounds
    <3> QED
      BY <2>1, <3>2 DEF Entered
  <2>2. CASE Entered(account[k], k, indexed) \/ Entered(account[k], k, boot)
    BY <1>1, <2>2 DEF Entered
  <2> QED
    BY <2>1, <2>2 DEF KeyShown, AccountsAreOwn, OwnAccount, Sync
<1> QED
  BY <1>1, <1>2 DEF KeyShown, IndexShows

LEMMA PollFindsOwn ==
    ASSUME TypeOK, IndexFollowsLog, NEW k \in Keys, Poll(k)
    PROVE  OwnAccount(keyToAddr[k], k)
<1>1. PICK s \in Slots : Held(keyToAddr[k], s, k, indexed)
  BY DEF Poll, IndexFollowsLog, IndexTellsTruth
<1> QED
  BY <1>1 DEF Held, Entered, OwnAccount

LEMMA AnswersStep ==
    ASSUME TypeOK, FirstLogFounds, IndexFollowsLog, KeyShown, [Next]_vars
    PROVE  AccountsAreOwn' /\ AnswersShow' /\ PhonesShow'
<1> USE TypeParts
<1>0. /\ \A a, k : WasRemoved(a, k) => WasRemoved(a, k)'
      /\ \A a, k : OwnAccount(a, k) => OwnAccount(a, k)'
  BY KnowledgeStays
<1>1. ASSUME answers' \subseteq answers
      PROVE  AnswersShow' /\ \A r \in answers' : r.of = "lookup" => OwnAccount(r.address, r.to)'
  BY <1>0, <1>1 DEF KeyShown, AnswersShow, AccountsAreOwn
<1>2. CASE account' = account /\ accountKeys' = accountKeys /\ answers' \subseteq answers
  BY <1>0, <1>1, <1>2 DEF KeyShown, AccountsAreOwn, PhonesShow
<1>3. CASE \E k \in Keys, a \in Accounts :
             /\ SaveNew(k, a) /\ answers' \subseteq answers
             /\ a = k \/ \E r \in answers : r.of = "lookup" /\ r.to = k /\ r.address = a
  <2> PICK k \in Keys, a \in Accounts :
             /\ SaveNew(k, a) /\ answers' \subseteq answers
             /\ a = k \/ \E r \in answers : r.of = "lookup" /\ r.to = k /\ r.address = a
    BY <1>3
  <2>1. OwnAccount(a, k)'
    BY <1>0 DEF KeyShown, AccountsAreOwn, OwnAccount
  <2>2. account'[k] = a /\ HasKey(accountKeys'[k], k)
    BY DEF SaveNew, PhoneTypes, HasKey
  <2>3. \A l \in Keys \ {k} : account'[l] = account[l] /\ accountKeys'[l] = accountKeys[l]
    BY DEF SaveNew, PhoneTypes
  <2>4. AccountsAreOwn'
    BY <1>0, <1>1, <2>1, <2>2, <2>3 DEF KeyShown, AccountsAreOwn
  <2>5. PhonesShow'
    BY <1>0, <2>2, <2>3 DEF KeyShown, PhonesShow
  <2> QED
    BY <1>1, <2>4, <2>5
<1>4. CASE \E k \in Keys : DeleteAccountAndKey(k) /\ answers' \subseteq answers
  <2> PICK k \in Keys : DeleteAccountAndKey(k) /\ answers' \subseteq answers
    BY <1>4
  <2>1. account'[k] = None /\ \A l \in Keys \ {k} : account'[l] = account[l] /\ accountKeys'[l] = accountKeys[l]
    BY DEF DeleteAccountAndKey, PhoneTypes
  <2> QED
    BY <1>0, <1>1, <2>1 DEF KeyShown, AccountsAreOwn, PhonesShow
<1>5. CASE \E r \in answers : Synced(r)
  <2> PICK r \in answers : Synced(r)
    BY <1>5
  <2>1. r.to \in Keys /\ r.of = "history" /\ account' = account /\ answers' \subseteq answers
    BY DEF Synced, CallTypes, Answer
  <2>2. HasKey(r.accountKeys, r.to) \/ WasRemoved(r.address, r.to)
    BY <2>1 DEF KeyShown, AnswersShow
  <2>3. \A l \in Keys \ {r.to} : accountKeys'[l] = accountKeys[l]
    BY <2>1 DEF Synced, PhoneTypes
  <2>4. \/ accountKeys'[r.to] = accountKeys[r.to]
        \/ account[r.to] = r.address /\ accountKeys'[r.to] = r.accountKeys
    BY <2>1 DEF Synced, PhoneTypes
  <2>5. PhonesShow'
    BY <1>0, <2>1, <2>2, <2>3, <2>4 DEF KeyShown, PhonesShow
  <2> QED
    BY <1>0, <1>1, <2>1, <2>5 DEF KeyShown, AccountsAreOwn
<1>6. CASE \E k \in Keys : Poll(k) \/ Sync(k)
  <2> PICK k \in Keys : Poll(k) \/ Sync(k)
    BY <1>6
  <2>1. account' = account /\ accountKeys' = accountKeys
    BY DEF Poll, Sync, Ask, phoneVars, accountVars
  <2>2. AccountsAreOwn' /\ AnswersShow'
    <3>1. CASE Poll(k)
      <4>1. OwnAccount(keyToAddr[k], k)
        BY <3>1, PollFindsOwn
      <4>2. \A r \in answers' : r \in answers \/ (r.of = "lookup" /\ r.to = k /\ r.address = keyToAddr[k])
        BY <3>1 DEF Poll, Ask
      <4> QED
        BY <1>0, <2>1, <4>1, <4>2 DEF KeyShown, AccountsAreOwn, AnswersShow
    <3>2. CASE Sync(k)
      <4>1. HasKey(addrToKeyData[account[k]], k) \/ WasRemoved(account[k], k)
        BY <3>2, SyncShows
      <4>2. \A r \in answers' : \/ r \in answers
                                 \/ /\ r.of = "history" /\ r.to = k /\ r.address = account[k]
                                    /\ r.accountKeys = addrToKeyData[account[k]]
        BY <3>2 DEF Sync, Ask
      <4> QED
        BY <1>0, <2>1, <4>1, <4>2 DEF KeyShown, AccountsAreOwn, AnswersShow
    <3> QED
      BY <3>1, <3>2
  <2>3. PhonesShow'
    BY <1>0, <2>1 DEF KeyShown, PhonesShow
  <2> QED
    BY <2>2, <2>3
<1> QED
  BY <1>2, <1>3, <1>4, <1>5, <1>6, PhoneSteps

-----------------------------------------------------------------------------
KeysInv == TypeOK /\ CountIsKeys /\ LogIsHistory /\ FirstLogFounds /\ IndexFollowsLog /\ KeyShown

LEMMA KeysInvariant == Spec => []KeysInv
<1>1. Init => KeysInv
  BY KeysInit, CountInit, LogInit, IndexInit, ShownInit DEF KeysInv
<1>2. KeysInv /\ [Next]_vars => KeysInv'
  <2> SUFFICES ASSUME KeysInv, [Next]_vars PROVE KeysInv'
    OBVIOUS
  <2> USE DEF KeysInv
  <2>1. TypeOK'
    BY ContractAndIndexTypes, PhoneAndCallTypes
       DEF TypeOK, ContractTypes, IndexTypes, PhoneTypes, CallTypes
  <2>2. CountIsKeys' /\ LogIsHistory' /\ FirstLogFounds' /\ IndexFollowsLog'
    BY CountStep, HistoryStep, IndexStep
  <2>3. KeyShown'
    BY IndexShowsStep, AnswersStep DEF KeyShown
  <2> QED
    BY <2>1, <2>2, <2>3
<1> QED
  BY <1>1, <1>2, PTL DEF Spec

\* keyRegistry.ts never shows a key in a slot it was not in, whatever is added and removed in
\* whatever order, and shows every key that was added once.
THEOREM IndexIsTrueAndComplete == Spec => []IndexFollowsLog
<1>1. KeysInv => IndexFollowsLog
  BY DEF KeysInv
<1> QED
  BY <1>1, KeysInvariant, PTL

\* No phone that still has its key is told that it is missing unless it was removed, through
\* restarts of the API, stale answers and answers that come late.
THEOREM KeyMissingOnlyIfRemoved == Spec => []MissingOnlyIfRemoved
<1>1. KeysInv => MissingOnlyIfRemoved
  BY DEF KeysInv, TypeOK, KeyShown, PhonesShow, HasKey, WasRemoved, MissingOnlyIfRemoved, MissingKey
<1> QED
  BY <1>1, KeysInvariant, PTL

=============================================================================
