----------------------------- MODULE Onboarding -----------------------------
(***************************************************************************)
(* How a phone gets its account.  accountManager.ts creates one through    *)
(* the API, or finds it by polling for the key in its enclave; the API's   *)
(* deployWallet.ts spends an invite code, deploys the account, which       *)
(* registers its name on chain, and pays a bonus (inviteCodeTracker.ts);   *)
(* the key and name indexes learn of the account from the chain.           *)
(* A phone stands for its enclave key and for its device attestation, and  *)
(* an account's address for the key, the name and the chain it is computed *)
(* from.  Removing keys and deleting accounts is left out, so is an invite *)
(* that is a payment link.  A definition introduced as a slip is a wrong   *)
(* form of the one after it and not part of the specification.             *)
(***************************************************************************)
EXTENDS Naturals, Sequences, FiniteSets

CONSTANTS
    Phones,        \* the devices
    Strangers,     \* keys whose accounts are deployed by somebody else
    Names,         \* valid names
    Chains,        \* home chains, each with an API of its own
    Testnets,      \* those that are test networks
    Base,          \* the chain a phone starts on
    Calls,         \* bound: calls of createAccount, retries included
    MaxUses,       \* max_uses of the invite code
    MaxCount,      \* bound: use_count
    MaxPolls,      \* bound: polls of a phone under way at once
    NoAccount      \* what a phone has saved before onboarding

\* An account on chain, as DaimoAccountFactory addresses it.
Address == [key : Phones \cup Strangers, name : Names, chain : Chains]
\* What the phone saves: its home chain is the phone's word for addr.chain.
Account == [addr : Address, name : Names, home : Chains]

ASSUME OnboardingAssumption ==
    /\ Phones # {} /\ Names # {} /\ Phones \cap Strangers = {} /\ IsFiniteSet(Calls)
    /\ Base \in Chains /\ Testnets \subseteq Chains
    /\ MaxUses \in Nat /\ MaxCount \in Nat /\ MaxPolls \in Nat
    /\ NoAccount \notin Account

VARIABLES
    account,       \* account[p]: AccountManager.currentAccount, as saved
    chain,         \* chain[p]: AccountManager.daimoChain
    keyLoaded,     \* keyLoaded[p]: keyInfo has been loaded from the enclave
    handle,        \* handle[p]: createAccountHandle's status
    polls,         \* requests of pollForAccountByKey under way
    call,          \* call[i]: one createAccount, ui on the phone and api on the server
    deployed,      \* deployed[c]: the accounts of a chain, oldest first
    keyIndexed,    \* keyIndexed[c]: how many of them KeyRegistry has loaded
    named,         \* named[c]: those NameRegistry knows by name
    useCount,      \* useCount[c]: use_count of the invite code
    attested,      \* attested[c]: used_faucet_attestations
    granted        \* calls whose invitee was sent a bonus

phoneVars == <<account, chain, keyLoaded, handle>>
indexVars == <<keyIndexed, named>>
inviteVars == <<useCount, attested, granted>>
vars == <<phoneVars, polls, call, deployed, indexVars, inviteVars>>

Ui == {"unused", "keys", "waiting", "done"}
Busy == {"read", "deploy", "cache", "count", "load", "check", "pay", "record"}
Api == {"none", "ok", "failed"} \cup Busy
Call == [ui : Ui, api : Api, key : Phones, name : Names, chain : Chains]
Unused == [ui |-> "unused", api |-> "none", key |-> CHOOSE p \in Phones : TRUE,
           name |-> CHOOSE n \in Names : TRUE, chain |-> Base]

\* A poll, with the account the API has found for it, if it has answered yet.
Poll == [key : Phones, chain : Chains, found : SUBSET Address]

Elements(s) == {s[i] : i \in DOMAIN s}
AddressOf(c) == [key |-> c.key, name |-> c.name, chain |-> c.chain]

TypeOK ==
    /\ account \in [Phones -> Account \cup {NoAccount}]
    /\ chain \in [Phones -> Chains]
    /\ keyLoaded \in [Phones -> BOOLEAN]
    /\ handle \in [Phones -> {"none", "loading", "error"}]
    /\ polls \subseteq Poll
    /\ call \in [Calls -> Call]
    /\ deployed \in [Chains -> Seq(Address)]
    /\ keyIndexed \in [Chains -> Nat]
    /\ \A c \in Chains : keyIndexed[c] <= Len(deployed[c])
    /\ named \in [Chains -> SUBSET Address]
    /\ useCount \in [Chains -> Nat]
    /\ attested \in [Chains -> SUBSET Phones]
    /\ granted \subseteq Calls

Init ==
    /\ account = [p \in Phones |-> NoAccount]
    /\ chain = [p \in Phones |-> Base]
    /\ keyLoaded = [p \in Phones |-> FALSE]
    /\ handle = [p \in Phones |-> "none"]
    /\ polls = {}
    /\ call = [i \in Calls |-> Unused]
    /\ deployed = [c \in Chains |-> <<>>]
    /\ keyIndexed = [c \in Chains |-> 0]
    /\ named = [c \in Chains |-> {}]
    /\ useCount = [c \in Chains |-> 0]
    /\ attested = [c \in Chains |-> {}]
    /\ granted = {}

------------------------------------------------------------------------------
(* The phone *)

\* loadEnclaveKey, called by the constructor: without an account it makes the key.
LoadKey(p) ==
    /\ ~keyLoaded[p]
    /\ keyLoaded' = [keyLoaded EXCEPT ![p] = TRUE]
    /\ UNCHANGED <<account, chain, handle, polls, call, deployed, indexVars, inviteVars>>

\* setDaimoChain, called when an invite is entered.
SwitchChain(p, c) ==
    /\ account[p] = NoAccount
    /\ chain[p] # c
    /\ chain' = [chain EXCEPT ![p] = c]
    /\ UNCHANGED <<account, keyLoaded, handle, polls, call, deployed, indexVars, inviteVars>>

\* Calls are told apart by nothing but their order.
FreshCall == CHOOSE j \in Calls : call[j].ui = "unused"

\* createAccount up to its first await: its two assertions let it through.
StartCreate(p, i, n) ==
    /\ call[i].ui = "unused"
    /\ i = FreshCall
    /\ account[p] = NoAccount
    /\ handle[p] # "loading"
    /\ call' = [call EXCEPT ![i].ui = "keys", ![i].key = p, ![i].name = n]
    /\ UNCHANGED <<phoneVars, polls, deployed, indexVars, inviteVars>>

\* It has the signing key and the device key: it calls deployWallet on the phone's chain.
SendCreate(i) ==
    /\ call[i].ui = "keys"
    /\ handle' = [handle EXCEPT ![call[i].key] = "loading"]
    /\ call' = [call EXCEPT ![i].ui = "waiting", ![i].api = "read",
                            ![i].chain = chain[call[i].key]]
    /\ UNCHANGED <<account, chain, keyLoaded, polls, deployed, indexVars, inviteVars>>

\* setNewAccount: the account saved is taken to live on the phone's current chain.
NewAccount(p, addr) == [addr |-> addr, name |-> addr.name, home |-> chain[p]]

\* "Avoid a race where we find it via polling" (accountManager.ts:273).
Saved(p, addr) == IF account[p] = NoAccount THEN NewAccount(p, addr) ELSE account[p]

\* deployWallet has returned an address.
CreateReturns(i) ==
    LET p == call[i].key IN
    /\ call[i].ui = "waiting" /\ call[i].api = "ok"
    /\ account' = [account EXCEPT ![p] = Saved(p, AddressOf(call[i]))]
    /\ handle' = [handle EXCEPT ![p] = "none"]
    /\ keyLoaded' = [keyLoaded EXCEPT ![p] = TRUE]
    /\ call' = [call EXCEPT ![i].ui = "done"]
    /\ UNCHANGED <<chain, polls, deployed, indexVars, inviteVars>>

\* It has thrown, or the connection was lost while the server goes on.
CreateFails(i) ==
    /\ call[i].ui = "waiting"
    /\ handle' = [handle EXCEPT ![call[i].key] = "error"]
    /\ call' = [call EXCEPT ![i].ui = "done"]
    /\ UNCHANGED <<account, chain, keyLoaded, polls, deployed, indexVars, inviteVars>>

\* Slip: a phone that has tried to create an account does not look for one.
PollUnlessTried(p) == account[p] = NoAccount /\ keyLoaded[p] /\ handle[p] = "none"
MayPoll(p) == account[p] = NoAccount /\ keyLoaded[p]

\* pollForAccountByKey up to its query; a timer calls it whether or not one is out.
PollStart(p) ==
    /\ MayPoll(p)
    /\ Cardinality({q \in polls : q.key = p}) < MaxPolls
    /\ polls' = polls \cup {[key |-> p, chain |-> chain[p], found |-> {}]}
    /\ UNCHANGED <<phoneVars, call, deployed, indexVars, inviteVars>>

\* The query fails, or there is nothing to save: no account, or one without a name.
PollFails(q) ==
    /\ polls' = polls \ {q}
    /\ UNCHANGED <<phoneVars, call, deployed, indexVars, inviteVars>>

\* Slip: the found account is saved whatever the phone has saved in the meantime.
SavedLast(p, addr) == NewAccount(p, addr)
SavedFound(p, addr) == Saved(p, addr)

\* The answer arrives, and is ignored if the phone has an account by now.
PollFinds(q) ==
    /\ \E addr \in q.found :
           account' = [account EXCEPT ![q.key] = SavedFound(q.key, addr)]
    /\ polls' = polls \ {q}
    /\ UNCHANGED <<chain, keyLoaded, handle, call, deployed, indexVars, inviteVars>>

\* The app is closed and opened again: the constructor reads the saved account.
AppRestart(p) ==
    /\ polls' = {q \in polls : q.key # p}
    /\ call' = [i \in Calls |-> IF call[i].key = p /\ call[i].ui # "unused"
                                 THEN [call[i] EXCEPT !.ui = "done"] ELSE call[i]]
    /\ chain' = [chain EXCEPT ![p] =
                    IF account[p] = NoAccount THEN Base ELSE account[p].home]
    /\ keyLoaded' = [keyLoaded EXCEPT ![p] = FALSE]
    /\ handle' = [handle EXCEPT ![p] = "none"]
    /\ UNCHANGED <<account, deployed, indexVars, inviteVars>>

------------------------------------------------------------------------------
(* The API's deployWallet and the invite code *)

At(i, pc) == call[i].api = pc
Goto(i, pc) == call' = [call EXCEPT ![i].api = pc]

\* getLinkStatus and getInviteStatus: the code has uses left.
ReadCode(i) ==
    /\ At(i, "read")
    /\ Goto(i, IF useCount[call[i].chain] < MaxUses THEN "deploy" ELSE "failed")
    /\ UNCHANGED <<phoneVars, polls, deployed, indexVars, inviteVars>>

\* DaimoNameRegistry.register, called by the account as it is initialised.
Register(addr) == \A a \in Elements(deployed[addr.chain]) : a.name # addr.name

\* Slip: the receipt of a transaction that reverted counts as an account.
AnyReceipt(addr) == TRUE
\* deployWallet.ts:90: the receipt says whether there is an account now.
Deployable(addr) == addr \in Elements(deployed[addr.chain]) \/ Register(addr)

\* The factory returns an account that is there, creates one whose name is free, and
\* reverts otherwise.
Deploy(i) ==
    LET addr == AddressOf(call[i]) IN
    /\ At(i, "deploy")
    /\ Goto(i, IF Deployable(addr) THEN "cache" ELSE "failed")
    /\ deployed' = IF Register(addr)
                     THEN [deployed EXCEPT ![addr.chain] = Append(@, addr)]
                     ELSE deployed
    /\ UNCHANGED <<phoneVars, polls, indexVars, inviteVars>>

\* accountFactory.deploy throws at last, though its transaction may have been mined.
DeployThrows(i) ==
    LET addr == AddressOf(call[i]) IN
    /\ At(i, "deploy")
    /\ Goto(i, "failed")
    /\ \/ UNCHANGED deployed
       \/ /\ Register(addr)
          /\ deployed' = [deployed EXCEPT ![addr.chain] = Append(@, addr)]
    /\ UNCHANGED <<phoneVars, polls, indexVars, inviteVars>>

\* Anybody may register a name: it is taken when deployWallet comes to it. A stranger
\* registers once, which bounds their number.
DeployStranger(s, n, c) ==
    LET addr == [key |-> s, name |-> n, chain |-> c] IN
    /\ \A x \in Chains : \A a \in Elements(deployed[x]) : a.key # s
    /\ Register(addr)
    /\ deployed' = [deployed EXCEPT ![c] = Append(@, addr)]
    /\ UNCHANGED <<phoneVars, polls, call, indexVars, inviteVars>>

\* The wait for the index is over: onSuccessfulRegister caches the name.
CacheName(i) ==
    LET addr == AddressOf(call[i]) IN
    /\ At(i, "cache")
    /\ Goto(i, "count")
    /\ named' = [named EXCEPT ![addr.chain] = @ \cup {addr}]
    /\ UNCHANGED <<phoneVars, polls, deployed, keyIndexed, inviteVars>>

\* useInviteCode: incrementInviteCodeUseCount, again if the answer is lost.
Count(i) ==
    LET c == call[i].chain IN
    /\ At(i, "count") /\ useCount[c] < MaxCount
    /\ useCount' = [useCount EXCEPT ![c] = @ + 1]
    /\ \E next \in {"load", "count"} : Goto(i, next)
    /\ UNCHANGED <<phoneVars, polls, deployed, indexVars, attested, granted>>

\* Slip: the count is compared as if this use were not in it yet.
UseBefore(n) == n - 1 <= MaxUses
WithinUses(n) == n <= MaxUses

\* loadInviteCode: a use beyond the last brings no bonus but lets the user in.
LoadCode(i) ==
    /\ At(i, "load")
    /\ Goto(i, IF WithinUses(useCount[call[i].chain]) THEN "check" ELSE "ok")
    /\ UNCHANGED <<phoneVars, polls, deployed, indexVars, inviteVars>>

\* isFaucetAttestationUsed.
MayGrant(p, c) == p \notin attested[c] \/ c \in Testnets

CheckAttestation(i) ==
    /\ At(i, "check")
    /\ Goto(i, IF MayGrant(call[i].key, call[i].chain) THEN "pay" ELSE "ok")
    /\ UNCHANGED <<phoneVars, polls, deployed, indexVars, inviteVars>>

\* trySendUSDC, which never throws.
Pay(i) ==
    /\ At(i, "pay")
    /\ Goto(i, "record")
    /\ granted' = granted \cup {i}
    /\ UNCHANGED <<phoneVars, polls, deployed, indexVars, useCount, attested>>

\* insertFaucetAttestation, and deployWallet returns.
RecordAttestation(i) ==
    LET c == call[i].chain IN
    /\ At(i, "record")
    /\ Goto(i, "ok")
    /\ attested' = [attested EXCEPT ![c] = @ \cup {call[i].key}]
    /\ UNCHANGED <<phoneVars, polls, deployed, indexVars, useCount, granted>>

------------------------------------------------------------------------------
(* The API's index *)

NextKeys(c) == keyIndexed[c] + 1 .. Len(deployed[c])

\* KeyRegistry.load: the deployments of one or more blocks.
LoadKeys(c) ==
    /\ \E n \in NextKeys(c) : keyIndexed' = [keyIndexed EXCEPT ![c] = n]
    /\ UNCHANGED <<phoneVars, polls, call, deployed, named, inviteVars>>

\* NameRegistry.load, up to the latest block.
LoadNames(c) ==
    /\ named[c] # Elements(deployed[c])
    /\ named' = [named EXCEPT ![c] = Elements(deployed[c])]
    /\ UNCHANGED <<phoneVars, polls, call, deployed, keyIndexed, inviteVars>>

\* lookupEthereumAccountByKey: KeyRegistry.keyToAddr holds the account a key was added to
\* last, and it must have a name.
Added(p, c) == {i \in 1..keyIndexed[c] : deployed[c][i].key = p}
Lookup(p, c) ==
    {a \in named[c] : \E i \in Added(p, c) :
        deployed[c][i] = a /\ \A j \in Added(p, c) : j <= i}

PollServed(q) ==
    /\ q.found = {} /\ Lookup(q.key, q.chain) # {}
    /\ polls' = (polls \ {q}) \cup {[q EXCEPT !.found = Lookup(q.key, q.chain)]}
    /\ UNCHANGED <<phoneVars, call, deployed, indexVars, inviteVars>>

\* The API restarts: its calls are lost, and it serves again once the index has caught up.
ApiRestart(c) ==
    /\ call' = [i \in Calls |-> IF call[i].chain = c /\ call[i].api \in Busy
                                 THEN [call[i] EXCEPT !.api = "failed"] ELSE call[i]]
    /\ keyIndexed' = [keyIndexed EXCEPT ![c] = Len(deployed[c])]
    /\ named' = [named EXCEPT ![c] = Elements(deployed[c])]
    /\ UNCHANGED <<phoneVars, polls, deployed, inviteVars>>

Next ==
    \/ \E p \in Phones :
         \/ LoadKey(p) \/ PollStart(p) \/ AppRestart(p)
         \/ \E c \in Chains : SwitchChain(p, c)
         \/ \E i \in Calls, n \in Names : StartCreate(p, i, n)
    \/ \E q \in polls : PollServed(q) \/ PollFinds(q) \/ PollFails(q)
    \/ \E i \in Calls :
         \/ SendCreate(i) \/ CreateReturns(i) \/ CreateFails(i)
         \/ ReadCode(i) \/ Deploy(i) \/ DeployThrows(i) \/ CacheName(i)
         \/ Count(i) \/ LoadCode(i) \/ CheckAttestation(i) \/ Pay(i) \/ RecordAttestation(i)
    \/ \E c \in Chains :
         \/ LoadKeys(c) \/ LoadNames(c) \/ ApiRestart(c)
         \/ \E s \in Strangers, n \in Names : DeployStranger(s, n, c)

Spec == Init /\ [][Next]_vars

\* The timer of the onboarding screens keeps polling, the app is not closed each time
\* before the answer, and a query does not fail for ever; the indexers keep loading.
FairSpec ==
    /\ Spec
    /\ \A p \in Phones :
         /\ WF_vars(LoadKey(p)) /\ SF_vars(PollStart(p))
         /\ WF_vars(\E q \in polls : q.key = p /\ PollFails(q))
         /\ SF_vars(\E q \in polls : q.key = p /\ PollServed(q))
         /\ SF_vars(\E q \in polls : q.key = p /\ PollFinds(q))
    /\ \A c \in Chains : WF_vars(LoadKeys(c)) /\ WF_vars(LoadNames(c))

------------------------------------------------------------------------------
(* Properties *)

\* A phone's account is on a chain under the phone's key, and the name it shows is that
\* account's alone: not the name of a deployment that failed or of somebody else.
AccountIsOnChain ==
    \A p \in Phones : account[p] # NoAccount =>
        LET a == account[p].addr IN
        /\ a \in Elements(deployed[a.chain])
        /\ a.key = p /\ account[p].name = a.name
        /\ \A b \in Elements(deployed[a.chain]) : b.name = a.name => b = a

\* The invite code pays no more bonuses than it has uses, however its users overlap and
\* whichever of them lose their answer.
BonusWithinUses ==
    \A c \in Chains : Cardinality({i \in granted : call[i].chain = c}) <= MaxUses

\* An account found by polling and one returned by createAccount never replace each
\* other, and a restart brings back the one that was saved.
AccountIsKept ==
    [][\A p \in Phones : account[p] # NoAccount => account'[p] = account[p]]_vars

\* A phone whose account has been deployed gets it, though the answer of deployWallet be
\* lost and its retry refused because the invite is spent.
FoundOnceDeployed ==
    \A p \in Phones, c \in Chains :
        (\E a \in Elements(deployed[c]) : a.key = p)
            ~> (account[p] # NoAccount \/ chain[p] # c)

\* inviteCodeTracker.ts:51: "Exit if mainnet double claim is attempted."
BonusOncePerDevice ==
    \A i, j \in granted :
        /\ call[i].key = call[j].key
        /\ call[i].chain = call[j].chain /\ call[i].chain \notin Testnets
        => i = j

=============================================================================
