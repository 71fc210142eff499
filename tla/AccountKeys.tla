---------------------------- MODULE AccountKeys ----------------------------
(***************************************************************************)
(* The signing keys of an account: DaimoAccountV2.sol holds them in slots, *)
(* keyRegistry.ts follows its logs in memory, and each phone has a copy of *)
(* the index's answer, from which it chooses the slots of the keys it adds *)
(* and removes (AddDeviceScreen.tsx, DeviceScreen.tsx) and sees whether    *)
(* its own key is still there (TabNav.tsx).  accountManager.ts saves and   *)
(* deletes the account and the key of a phone.  A phone is known by the    *)
(* one key its enclave ever makes, and an account by the key it is         *)
(* deployed with, from which its address is computed.  Slots are those of  *)
(* one type of device.  A definition introduced as a slip is a wrong form  *)
(* of the one after it and not part of the specification.                  *)
(***************************************************************************)
EXTENDS Naturals, Sequences, FiniteSets

CONSTANTS
    Keys,          \* the phones' keys
    Founders,      \* those some account is created with
    LastSlot,      \* slots are 0..LastSlot
    MaxKeys,       \* maxKeys of the contract
    MaxLogs,       \* bound: logs of the contracts
    MaxOps,        \* bound: ops the API has at once
    MaxAnswers,    \* bound: answers of the API on their way to a phone
    MaxRestarts,   \* bound: restarts of the API
    None           \* no key, no account

Accounts == Founders
Slots == 0..LastSlot

ASSUME KeysAssumption ==
    /\ Founders \subseteq Keys /\ None \notin Keys
    /\ LastSlot \in Nat /\ MaxKeys \in Nat \ {0}
    /\ MaxLogs \in Nat /\ MaxOps \in Nat /\ MaxAnswers \in Nat /\ MaxRestarts \in Nat

VARIABLES
    keys,          \* keys[a][s]: the key in slot s of account a
    numActiveKeys, \* numActiveKeys[a]
    log,           \* SigningKeyAdded and SigningKeyRemoved, in order
    indexed,       \* how many logs KeyRegistry has loaded
    keyToAddr,     \* KeyRegistry.keyToAddr
    addrToKeyData, \* KeyRegistry.addrToKeyData
    boot,          \* the logs there were when the API started
    restarts,
    ops,           \* ops the API has and the chain may still execute
    enclave,       \* phones whose key exists
    keyInfo,       \* phones whose keyInfo has a public key
    account,       \* account[k]: the address of currentAccount
    accountKeys,   \* account[k]'s accountKeys
    pendingKeyRotation,
    creating,      \* creating[k]: whether phone k has called deployWallet, and awaits it
    answers,       \* answers of the API on their way to phones
    sent           \* sent[k]: the op phone k awaits the acceptance of

contractVars == <<keys, numActiveKeys, log>>
indexVars == <<indexed, keyToAddr, addrToKeyData, boot, restarts>>
callVars == <<creating, answers, sent>>
accountVars == <<account, accountKeys, pendingKeyRotation>>
phoneVars == <<enclave, keyInfo, accountVars>>
vars == <<contractVars, indexVars, ops, phoneVars, callVars>>

KeyData == [slot : Slots, pubKey : Keys]
KeyChange == [change : {"added", "removed"}, address : Accounts, slot : Slots, key : Keys]
\* What phone `by` signs, with the slot it believes its key to be in.
Op == [change : {"added", "removed"}, address : Accounts, slot : Slots, key : Keys,
       by : Keys, bySlot : Slots]
Rotation == [rotationType : {"add", "remove"}, slot : Slots]
\* lookupEthereumAccountByKey answers with an account, getAccountHistory with its keys.
Answer == [to : Keys, of : {"lookup", "history"}, address : Accounts,
           accountKeys : SUBSET KeyData]

TypeOK ==
    /\ keys \in [Accounts -> [Slots -> Keys \cup {None}]]
    /\ numActiveKeys \in [Accounts -> 0..MaxKeys]
    /\ log \in Seq(KeyChange) /\ Len(log) <= MaxLogs
    /\ indexed \in 0..Len(log) /\ boot \in 0..Len(log) /\ restarts \in 0..MaxRestarts
    /\ keyToAddr \in [Keys -> Accounts \cup {None}]
    /\ addrToKeyData \in [Accounts -> SUBSET KeyData]
    /\ ops \subseteq Op
    /\ enclave \subseteq keyInfo /\ keyInfo \subseteq Keys
    /\ account \in [Keys -> Accounts \cup {None}]
    /\ accountKeys \in [Keys -> SUBSET KeyData]
    /\ pendingKeyRotation \in [Keys -> SUBSET Rotation]
    /\ creating \in [Founders -> {"no", "awaited", "abandoned"}]
    /\ answers \subseteq Answer
    /\ sent \in [Keys -> Op \cup {None}]

Init ==
    /\ keys = [a \in Accounts |-> [s \in Slots |-> None]]
    /\ numActiveKeys = [a \in Accounts |-> 0]
    /\ log = <<>>
    /\ indexed = 0 /\ boot = 0 /\ restarts = 0
    /\ keyToAddr = [k \in Keys |-> None]
    /\ addrToKeyData = [a \in Accounts |-> {}]
    /\ ops = {}
    /\ enclave = Keys /\ keyInfo = Keys
    /\ account = [k \in Keys |-> None]
    /\ accountKeys = [k \in Keys |-> {}]
    /\ pendingKeyRotation = [k \in Keys |-> {}]
    /\ creating = [k \in Founders |-> "no"] /\ answers = {}
    /\ sent = [k \in Keys |-> None]

------------------------------------------------------------------------------
(* The contract *)

Emit(change, a, s, k) ==
    log' = Append(log, [change |-> change, address |-> a, slot |-> s, key |-> k])

\* _addSigningKey
AddKey(a, s, k) ==
    /\ keys[a][s] = None /\ numActiveKeys[a] < MaxKeys
    /\ keys' = [keys EXCEPT ![a][s] = k]
    /\ numActiveKeys' = [numActiveKeys EXCEPT ![a] = @ + 1]
    /\ Emit("added", a, s, k)

\* Slip: the last key can be removed.
RemoveAnyKey(a, s) ==
    /\ keys[a][s] # None
    /\ keys' = [keys EXCEPT ![a][s] = None]
    /\ numActiveKeys' = [numActiveKeys EXCEPT ![a] = @ - 1]
    /\ Emit("removed", a, s, keys[a][s])
\* removeSigningKey
RemoveKey(a, s) ==
    /\ keys[a][s] # None /\ numActiveKeys[a] > 1
    /\ keys' = [keys EXCEPT ![a][s] = None]
    /\ numActiveKeys' = [numActiveKeys EXCEPT ![a] = @ - 1]
    /\ Emit("removed", a, s, keys[a][s])

Deployed(a) == numActiveKeys[a] > 0

\* deployWallet: the account is created, with its initializer.
Deploy(k) ==
    /\ creating[k] # "no" /\ ~Deployed(k) /\ Len(log) < MaxLogs
    /\ AddKey(k, 0, k)
    /\ UNCHANGED <<indexVars, ops, phoneVars, callVars>>

\* The entry point executes an op whose signature the account accepts.
Execute(op) ==
    /\ keys[op.address][op.bySlot] = op.by /\ Len(log) < MaxLogs
    /\ IF op.change = "added" THEN AddKey(op.address, op.slot, op.key)
                              ELSE RemoveKey(op.address, op.slot)
    /\ ops' = ops \ {op}
    /\ UNCHANGED <<indexVars, phoneVars, callVars>>

\* An op is rejected or reverts, or its transaction is never mined: sendUncompressedBundle
\* tells its caller of none of these.
Drop(op) ==
    /\ ops' = ops \ {op}
    /\ UNCHANGED <<contractVars, indexVars, phoneVars, callVars>>

------------------------------------------------------------------------------
(* The API *)

\* KeyRegistry.load, for the next log.  A removal takes out every slot of its key.
LoadAdded(c) ==
    /\ addrToKeyData' = [addrToKeyData EXCEPT
                            ![c.address] = @ \cup {[slot |-> c.slot, pubKey |-> c.key]}]
    /\ keyToAddr' = [keyToAddr EXCEPT ![c.key] = c.address]

\* Slip: a removed key still finds its account.
RemovedButFound(c) ==
    /\ addrToKeyData' = [addrToKeyData EXCEPT ![c.address] = {d \in @ : d.pubKey # c.key}]
    /\ UNCHANGED keyToAddr
LoadRemoved(c) ==
    /\ addrToKeyData' = [addrToKeyData EXCEPT ![c.address] = {d \in @ : d.pubKey # c.key}]
    /\ keyToAddr' = [keyToAddr EXCEPT ![c.key] = None]

Load ==
    /\ indexed < Len(log)
    /\ LET c == log[indexed + 1] IN
         IF c.change = "added" THEN LoadAdded(c) ELSE LoadRemoved(c)
    /\ indexed' = indexed + 1
    /\ UNCHANGED <<contractVars, boot, restarts, ops, phoneVars, callVars>>

\* Slip: requests are served from the start.
AlwaysReady == TRUE
\* The middleware refuses requests until the index has caught up.
Ready == indexed >= boot

\* Slip: the API waits for a log that is not there.
TipOpen == Len(log) + 1
\* getIndexLatest
Tip == Len(log)

\* The API starts again; what it was doing is lost, what it has broadcast is not.
Restart ==
    /\ restarts < MaxRestarts
    /\ restarts' = restarts + 1
    /\ boot' = Tip /\ indexed' = 0
    /\ keyToAddr' = [k \in Keys |-> None]
    /\ addrToKeyData' = [a \in Accounts |-> {}]
    /\ answers' = {}
    /\ UNCHANGED <<contractVars, ops, phoneVars, creating, sent>>

------------------------------------------------------------------------------
(* The account manager of phone k *)

\* setNewAccount
SaveNew(k, a) ==
    /\ account' = [account EXCEPT ![k] = a]
    /\ accountKeys' = [accountKeys EXCEPT ![k] = {[slot |-> 0, pubKey |-> k]}]
    /\ pendingKeyRotation' = [pendingKeyRotation EXCEPT ![k] = {}]

\* createAccount, and its return with success or with an error (deployWallet goes on).
Create(k) ==
    /\ account[k] = None /\ k \in enclave /\ creating[k] # "awaited"
    /\ creating' = [creating EXCEPT ![k] = "awaited"]
    /\ UNCHANGED <<contractVars, indexVars, ops, phoneVars, answers, sent>>

Created(k) ==
    /\ creating[k] = "awaited" /\ Deployed(k)
    /\ IF account[k] = None THEN SaveNew(k, k) ELSE UNCHANGED accountVars
    /\ keyInfo' = keyInfo \cup {k}
    /\ creating' = [creating EXCEPT ![k] = "abandoned"]
    /\ UNCHANGED <<contractVars, indexVars, ops, enclave, answers, sent>>

CreateFails(k) ==
    /\ creating[k] = "awaited"
    /\ creating' = [creating EXCEPT ![k] = "abandoned"]
    /\ UNCHANGED <<contractVars, indexVars, ops, phoneVars, answers, sent>>

Ask(k, of, a) ==
    /\ Ready
    /\ Cardinality({r \in answers : r.to = k}) < MaxAnswers
    /\ answers' = answers \cup
         {[to |-> k, of |-> of, address |-> a,
           accountKeys |-> IF of = "history" THEN addrToKeyData[a] ELSE {}]}
    /\ UNCHANGED <<contractVars, indexVars, ops, phoneVars, creating, sent>>

\* pollForAccountByKey up to its answer, when an account is found ...
Poll(k) ==
    /\ account[k] = None /\ k \in keyInfo /\ keyToAddr[k] # None
    /\ Ask(k, "lookup", keyToAddr[k])

\* ... and after it.
Found(r) ==
    /\ r.of = "lookup"
    /\ IF account[r.to] = None THEN SaveNew(r.to, r.address) ELSE UNCHANGED accountVars
    /\ answers' = answers \ {r}
    /\ UNCHANGED <<contractVars, indexVars, ops, enclave, keyInfo, creating, sent>>

\* resync up to its answer; getAccountHistory needs a key of the account in the index ...
Known(a) == \E i \in 1..indexed : log[i].address = a
Sync(k) ==
    /\ account[k] # None /\ Known(account[k])
    /\ Ask(k, "history", account[k])

\* Slip: a rotation stays pending once it shows.
StillPendingSwapped(r, slots) == (r.rotationType = "remove") = (r.slot \notin slots)
StillPending(r, slots) == (r.rotationType = "add") = (r.slot \notin slots)

\* ... and applySync after it, if the phone still has that account.
Synced(r) ==
    LET slots == {d.slot : d \in r.accountKeys} IN
    /\ r.of = "history"
    /\ IF account[r.to] = r.address
         THEN /\ accountKeys' = [accountKeys EXCEPT ![r.to] = r.accountKeys]
              /\ pendingKeyRotation' = [pendingKeyRotation EXCEPT
                                          ![r.to] = {p \in @ : StillPending(p, slots)}]
         ELSE UNCHANGED <<accountKeys, pendingKeyRotation>>
    /\ answers' = answers \ {r}
    /\ UNCHANGED <<contractVars, indexVars, ops, enclave, keyInfo, account, creating, sent>>

\* An answer is lost.
Lose(r) ==
    /\ answers' = answers \ {r}
    /\ UNCHANGED <<contractVars, indexVars, ops, phoneVars, creating, sent>>

------------------------------------------------------------------------------
(* Adding and removing devices *)

Highest(slots) == CHOOSE s \in slots : \A t \in slots : t <= s
Lowest(slots) == CHOOSE s \in slots : \A t \in slots : s <= t

\* findUnusedSlot, when it does not throw.
UnusedSlot(used) ==
    IF used = {} THEN 0
    ELSE IF Highest(used) < LastSlot THEN Highest(used) + 1 ELSE Lowest(Slots \ used)

SlotsKnown(k) == {d.slot : d \in accountKeys[k]}

\* sendAsync with the device's key: the op is signed and handed to the API.
Send(k, change, s, key) ==
    \E d \in accountKeys[k] :
        /\ d.pubKey = k /\ k \in enclave /\ sent[k] = None
        /\ Cardinality(ops) < MaxOps
        /\ LET op == [change |-> change, address |-> account[k], slot |-> s, key |-> key,
                      by |-> k, bySlot |-> d.slot]
           IN /\ ops' = ops \cup {op}
              /\ sent' = [sent EXCEPT ![k] = op]
        /\ UNCHANGED <<contractVars, indexVars, phoneVars, creating, answers>>

\* AddDeviceScreen: the phone scans the code of one that has no account.
AddDevice(k, new) ==
    /\ account[k] # None /\ account[new] = None /\ new \in enclave
    /\ Slots \ SlotsKnown(k) # {}
    /\ Send(k, "added", UnusedSlot(SlotsKnown(k)), new)

\* DeviceScreen.  (The last device can be removed if the balance is low.)
RemoveDevice(k, d) ==
    /\ account[k] # None /\ d \in accountKeys[k]
    /\ Send(k, "removed", d.slot, d.pubKey)

\* deleteAccountAndKey
DeleteAccountAndKey(k) ==
    /\ enclave' = enclave \ {k} /\ keyInfo' = keyInfo \ {k}
    /\ account' = [account EXCEPT ![k] = None]
    /\ accountKeys' = [accountKeys EXCEPT ![k] = {}]
    /\ pendingKeyRotation' = [pendingKeyRotation EXCEPT ![k] = {}]

\* The API answers once the op is mined, or once it has given up on it, which it does not
\* tell: the op becomes pending, and a phone that removed itself logs out.
Accepted(k) ==
    /\ sent[k] # None
    /\ IF account[k] = None THEN UNCHANGED phoneVars
       ELSE IF sent[k].change = "removed" /\ sent[k].key = k THEN DeleteAccountAndKey(k)
       ELSE /\ pendingKeyRotation' = [pendingKeyRotation EXCEPT ![k] = @ \cup
                  {[rotationType |-> IF sent[k].change = "added" THEN "add" ELSE "remove",
                    slot |-> sent[k].slot]}]
            /\ UNCHANGED <<enclave, keyInfo, account, accountKeys>>
    /\ sent' = [sent EXCEPT ![k] = None]
    /\ UNCHANGED <<contractVars, indexVars, ops, creating, answers>>

\* The call fails for the phone, whatever becomes of the op.
SendFails(k) ==
    /\ sent[k] # None
    /\ sent' = [sent EXCEPT ![k] = None]
    /\ UNCHANGED <<contractVars, indexVars, ops, phoneVars, creating, answers>>

\* TabNav: the key the phone has is not among the account's.
MissingKey(k) ==
    /\ account[k] # None
    /\ k \notin keyInfo \/ \A d \in accountKeys[k] : d.pubKey # k

\* MissingKeyScreen: the user logs out.
LogOut(k) ==
    /\ MissingKey(k)
    /\ DeleteAccountAndKey(k)
    /\ UNCHANGED <<contractVars, indexVars, ops, callVars>>

\* The app starts again: loadEnclaveKey, and no call is under way.
Reopen(k) ==
    /\ keyInfo' = IF k \in enclave THEN keyInfo ELSE keyInfo \ {k}
    /\ creating' = [f \in Founders |->
                     IF f = k /\ creating[f] = "awaited" THEN "abandoned" ELSE creating[f]]
    /\ answers' = {r \in answers : r.to # k}
    /\ sent' = [sent EXCEPT ![k] = None]
    /\ UNCHANGED <<contractVars, indexVars, ops, enclave, accountVars>>

------------------------------------------------------------------------------
Chain == (\E k \in Founders : Deploy(k)) \/ (\E op \in ops : Execute(op) \/ Drop(op))
Answered(r) == Found(r) \/ Synced(r)
Device(k) ==
    \/ \E new \in Keys : AddDevice(k, new)
    \/ \E d \in accountKeys[k] : RemoveDevice(k, d)
    \/ Poll(k) \/ Sync(k) \/ Accepted(k) \/ SendFails(k) \/ LogOut(k) \/ Reopen(k)

Next ==
    \/ Chain
    \/ Load \/ Restart
    \/ \E k \in Founders : Create(k) \/ Created(k) \/ CreateFails(k)
    \/ \E k \in Keys : Device(k)
    \/ \E r \in answers : Answered(r) \/ Lose(r)

Spec == Init /\ [][Next]_vars

\* A phone with an account asks every few seconds and is answered now and then, and the
\* watcher loads what is on chain.
Fairness ==
    /\ WF_vars(Load)
    /\ \A k \in Keys :
         /\ WF_vars(Sync(k))
         /\ SF_vars(\E r \in answers : r.to = k /\ Answered(r))

FairSpec == Spec /\ Fairness

------------------------------------------------------------------------------
(* Properties *)

\* The count kept apart from the slots is the number of keys in them, at most MaxKeys, and
\* an account that was deployed keeps a key, whatever ops race to add and remove them
\* (DaimoAccountV2.sol:81-84, and the assertion of getActiveSigningKeys).
Active(a) == {s \in Slots : keys[a][s] # None}
CountIsKeys ==
    \A a \in Accounts :
        /\ numActiveKeys[a] = Cardinality(Active(a)) /\ numActiveKeys[a] <= MaxKeys
        /\ (\E i \in 1..Len(log) : log[i].address = a) => Active(a) # {}

\* Whether the contract held k in slot s of a after its first n logs.
Held(a, s, k, n) ==
    \E i \in 1..n :
        /\ log[i] = [change |-> "added", address |-> a, slot |-> s, key |-> k]
        /\ \A j \in i+1 .. n : ~(log[j].address = a /\ log[j].slot = s)

\* Whatever order additions and removals come in, the index never shows a key in a slot it
\* was not in after the logs loaded, nor finds an account by a key it did not have.
IndexTellsTruth ==
    /\ \A a \in Accounts : \A d \in addrToKeyData[a] : Held(a, d.slot, d.pubKey, indexed)
    /\ \A k \in Keys : keyToAddr[k] # None =>
           \E s \in Slots : Held(keyToAddr[k], s, k, indexed)

\* A key that was added once, to one slot of one account, is shown there and finds it for
\* as long as it is there.
Additions(k, n) == {i \in 1..n : log[i].change = "added" /\ log[i].key = k}
IndexIsComplete ==
    \A k \in Keys, a \in Accounts, s \in Slots :
        Cardinality(Additions(k, indexed)) = 1 /\ Held(a, s, k, indexed) =>
            /\ [slot |-> s, pubKey |-> k] \in addrToKeyData[a]
            /\ keyToAddr[k] = a

\* The index follows the log, and so the contract as it was then.
IndexFollowsLog == IndexTellsTruth /\ IndexIsComplete

\* A phone that still has its key is not told that it is missing, and invited to delete
\* it, unless some slot of the account had it removed: not by an answer computed while the
\* index was behind or being rebuilt, nor by one that arrives late.
MissingOnlyIfRemoved ==
    \A k \in enclave : MissingKey(k) =>
        \E i \in 1..Len(log) :
            log[i].change = "removed" /\ log[i].address = account[k] /\ log[i].key = k

\* No phone waits for ever for a key in a slot where one is: an addition that was executed,
\* or that lost the race for its slot, does not stay pending.
AwaitsPresentKey(k) ==
    /\ account[k] # None
    /\ \E s \in Slots :
         [rotationType |-> "add", slot |-> s] \in pendingKeyRotation[k] /\ keys[account[k]][s] # None
AddResolves == \A k \in Keys : []<>~AwaitsPresentKey(k)

\* DeviceScreen.tsx:113: "If we removed this device's key onchain, delete it locally and
\* log out."
OnAccount(a, k) == \E s \in Slots : keys[a][s] = k
DeletedOnlyIfRemoved ==
    [][\A k \in enclave : k \notin enclave' /\ ~MissingKey(k) => ~OnAccount(account[k], k)]_vars

=============================================================================
