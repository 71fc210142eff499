-------------------------- MODULE OnboardingProofs --------------------------
(***************************************************************************)
(* TLAPS proofs about Onboarding: types; the phone's account exists under  *)
(* its name; the bonuses stay within the invite's uses.                    *)
(***************************************************************************)
EXTENDS Onboarding, FiniteSetTheorems, TLAPS

-----------------------------------------------------------------------------
(* The inductive invariant *)

PhoneTypes ==
    /\ account \in [Phones -> Account \cup {NoAccount}]
    /\ chain \in [Phones -> Chains]
    /\ keyLoaded \in [Phones -> BOOLEAN]
    /\ handle \in [Phones -> {"none", "loading", "error"}]

PollTypes == polls \subseteq Poll

CallTypes == call \in [Calls -> Call]

ChainTypes == deployed \in [Chains -> Seq(Address)]

IndexTypes ==
    /\ keyIndexed \in [Chains -> Nat]
    /\ \A c \in Chains : keyIndexed[c] <= Len(deployed[c])
    /\ named \in [Chains -> SUBSET Address]

InviteTypes ==
    /\ useCount \in [Chains -> Nat]
    /\ attested \in [Chains -> SUBSET Phones]
    /\ granted \subseteq Calls

Types == PhoneTypes /\ PollTypes /\ CallTypes /\ ChainTypes /\ IndexTypes /\ InviteTypes

\* What a call can rely on once it has got past deploying: its account is there.
HasAccount == {"cache", "count", "load", "check", "pay", "record", "ok"}

\* A chain holds its own accounts, each under a name of its own.
NamesUnique ==
    \A c \in Chains : \A a, b \in Elements(deployed[c]) :
        a.chain = c /\ (a.name = b.name => a = b)

NamedDeployed == \A c \in Chains : named[c] \subseteq Elements(deployed[c])

FoundDeployed ==
    \A q \in polls : \A a \in q.found : a.key = q.key /\ a \in Elements(deployed[a.chain])

CallsDeployed ==
    \A i \in Calls : call[i].api \in HasAccount =>
        AddressOf(call[i]) \in Elements(deployed[call[i].chain])

SavedDeployed ==
    \A p \in Phones : account[p] # NoAccount =>
        /\ account[p].addr \in Elements(deployed[account[p].addr.chain])
        /\ account[p].addr.key = p /\ account[p].name = account[p].addr.name

\* Everything the phones and the API take for an account is one, under a unique name.
Backed ==
    NamesUnique /\ NamedDeployed /\ FoundDeployed /\ CallsDeployed /\ SavedDeployed

\* Calls that have counted their use and may still get a bonus, or have got one.
Spending(c) ==
    {i \in Calls : call[i].chain = c
                     /\ (call[i].api \in {"load", "check", "pay"} \/ i \in granted)}
\* Those of them whose use was within max_uses.
Granting(c) ==
    {i \in Calls : call[i].chain = c
                     /\ (call[i].api \in {"check", "pay"} \/ i \in granted)}

Stages ==
    /\ \A i \in Calls : call[i].ui \in {"unused", "keys"} => call[i].api = "none"
    /\ \A i \in granted : call[i].api \in {"record", "ok", "failed"}

\* The use count is at least the calls it has let through, and those who were let
\* through saw a count within the uses that included them all.
Counted ==
    \A c \in Chains : /\ Cardinality(Spending(c)) <= useCount[c]
                      /\ Cardinality(Granting(c)) <= MaxUses

IInv == Types /\ Backed /\ Stages /\ Counted

-----------------------------------------------------------------------------
(* Types *)

LEMMA TypesAreTypeOK == Types <=> TypeOK
BY Zenon DEF Types, TypeOK, PhoneTypes, PollTypes, CallTypes, ChainTypes, IndexTypes,
             InviteTypes

LEMMA UnusedType == Unused \in Call
BY OnboardingAssumption DEF Unused, Call, Ui, Api

LEMMA TypesInit == Init => Types
<1> SUFFICES ASSUME Init PROVE Types
  OBVIOUS
<1>1. PhoneTypes
  BY Zenon, OnboardingAssumption DEF Init, PhoneTypes
<1>2. CallTypes
  BY UnusedType DEF Init, CallTypes
<1>3. PollTypes /\ ChainTypes /\ InviteTypes
  BY DEF Init, PollTypes, ChainTypes, InviteTypes
<1>4. IndexTypes
  BY DEF Init, IndexTypes
<1> QED
  BY <1>1, <1>2, <1>3, <1>4 DEF Types

\* The address a call asks for.
LEMMA AddressType ==
    ASSUME CallTypes, NEW i \in Calls
    PROVE  /\ AddressOf(call[i]) \in Address
           /\ AddressOf(call[i]).key = call[i].key /\ call[i].key \in Phones
           /\ AddressOf(call[i]).name = call[i].name
           /\ AddressOf(call[i]).chain = call[i].chain /\ call[i].chain \in Chains
<1>1. call[i] \in Call
  BY DEF CallTypes
<1> QED
  BY <1>1 DEF AddressOf, Address, Call

\* Goto moves one call and keeps what it is about.
LEMMA GotoFacts ==
    ASSUME CallTypes, NEW i \in Calls, NEW s \in Api, Goto(i, s)
    PROVE  /\ CallTypes'
           /\ call'[i] = [call[i] EXCEPT !.api = s]
           /\ \A j \in Calls : j # i => call'[j] = call[j]
           /\ \A j \in Calls : /\ call'[j].key = call[j].key /\ call'[j].name = call[j].name
                               /\ call'[j].chain = call[j].chain /\ call'[j].ui = call[j].ui
           /\ call'[i].api = s
<1>1. call[i] \in Call
  BY DEF CallTypes
<1>2. [call[i] EXCEPT !.api = s] \in Call
  BY <1>1 DEF Call
<1>3. call' = [call EXCEPT ![i] = [call[i] EXCEPT !.api = s]]
  BY DEF Goto
<1>4. /\ [call[i] EXCEPT !.api = s].key = call[i].key
      /\ [call[i] EXCEPT !.api = s].name = call[i].name
      /\ [call[i] EXCEPT !.api = s].chain = call[i].chain
      /\ [call[i] EXCEPT !.api = s].ui = call[i].ui
      /\ [call[i] EXCEPT !.api = s].api = s
  BY <1>1 DEF Call
<1>5. /\ CallTypes' /\ call'[i] = [call[i] EXCEPT !.api = s]
      /\ \A j \in Calls : j # i => call'[j] = call[j]
  BY <1>2, <1>3 DEF CallTypes
<1> QED
  BY <1>4, <1>5

\* A deployment adds one account to one chain.
LEMMA DeployFacts ==
    ASSUME ChainTypes, NEW a \in Address,
           deployed' = [deployed EXCEPT ![a.chain] = Append(@, a)]
    PROVE  /\ ChainTypes'
           /\ Len(deployed'[a.chain]) = Len(deployed[a.chain]) + 1
           /\ \A c \in Chains : c # a.chain => deployed'[c] = deployed[c]
           /\ Elements(deployed'[a.chain]) = Elements(deployed[a.chain]) \cup {a}
           /\ \A c \in Chains : /\ Len(deployed'[c]) >= Len(deployed[c])
                                /\ Len(deployed[c]) \in Nat /\ Len(deployed'[c]) \in Nat
                                /\ Elements(deployed[c]) \subseteq Elements(deployed'[c])
<1>1. a.chain \in Chains /\ deployed[a.chain] \in Seq(Address)
  BY DEF Address, ChainTypes
<1>2. deployed'[a.chain] = Append(deployed[a.chain], a)
  BY <1>1 DEF ChainTypes
<1>3. \A c \in Chains : c # a.chain => deployed'[c] = deployed[c]
  BY DEF ChainTypes
<1>4. ChainTypes'
  BY <1>1, <1>2 DEF ChainTypes
<1>5. Len(deployed'[a.chain]) = Len(deployed[a.chain]) + 1
  BY <1>1, <1>2
<1>6. Elements(deployed'[a.chain]) = Elements(deployed[a.chain]) \cup {a}
  BY <1>1, <1>2 DEF Elements
<1>7. \A c \in Chains : Len(deployed[c]) \in Nat
  BY DEF ChainTypes
<1> QED
  BY <1>1, <1>3, <1>4, <1>5, <1>6, <1>7

\* What the types of a group of variables need is kept by a step that leaves them alone.
LEMMA TypesFrame ==
    /\ PhoneTypes /\ UNCHANGED phoneVars => PhoneTypes'
    /\ PollTypes /\ UNCHANGED polls => PollTypes'
    /\ CallTypes /\ UNCHANGED call => CallTypes'
    /\ ChainTypes /\ UNCHANGED deployed => ChainTypes'
    /\ IndexTypes /\ UNCHANGED <<deployed, indexVars>> => IndexTypes'
    /\ InviteTypes /\ UNCHANGED inviteVars => InviteTypes'
<1>1. PhoneTypes /\ UNCHANGED phoneVars => PhoneTypes'
  BY Zenon DEF PhoneTypes, phoneVars
<1>2. /\ PollTypes /\ UNCHANGED polls => PollTypes'
      /\ CallTypes /\ UNCHANGED call => CallTypes'
      /\ ChainTypes /\ UNCHANGED deployed => ChainTypes'
  BY Zenon DEF PollTypes, CallTypes, ChainTypes
<1>3. IndexTypes /\ UNCHANGED <<deployed, indexVars>> => IndexTypes'
  BY Zenon DEF IndexTypes, indexVars
<1>4. InviteTypes /\ UNCHANGED inviteVars => InviteTypes'
  BY Zenon DEF InviteTypes, inviteVars
<1> QED
  BY <1>1, <1>2, <1>3, <1>4

\* What a phone saves.
LEMMA SavedType ==
    ASSUME PhoneTypes, NEW p \in Phones, NEW a \in Address
    PROVE  Saved(p, a) \in Account \cup {NoAccount}
<1>1. a.name \in Names /\ chain[p] \in Chains /\ account[p] \in Account \cup {NoAccount}
  BY DEF PhoneTypes, Address
<1>2. NewAccount(p, a) \in Account
  BY <1>1 DEF NewAccount, Account
<1> QED
  BY <1>1, <1>2 DEF Saved

LEMMA ElementsType ==
    ASSUME ChainTypes, NEW c \in Chains
    PROVE  Elements(deployed[c]) \subseteq Address /\ Len(deployed[c]) \in Nat
BY DEF ChainTypes, Elements

-----------------------------------------------------------------------------
(* How the steps treat calls and chains *)

\* A call keeps what it is about.
Kept(j) ==
    /\ call'[j].key = call[j].key /\ call'[j].name = call[j].name
    /\ call'[j].chain = call[j].chain

\* A call that has reached the API keeps what it is about, and no call gets past
\* deploying its account.
Calm ==
    \A j \in Calls :
        /\ call[j].api # "none" => Kept(j)
        /\ call'[j].api = call[j].api \/ call'[j].api \in {"none", "read", "deploy", "failed"}

\* Accounts stay on their chain.
Grows == \A c \in Chains : Elements(deployed[c]) \subseteq Elements(deployed'[c])

\* The steps that end or begin on the phone.
UiStep ==
    \/ \E p \in Phones : AppRestart(p) \/ \E i \in Calls, n \in Names : StartCreate(p, i, n)
    \/ \E i \in Calls : SendCreate(i) \/ CreateReturns(i) \/ CreateFails(i)

\* They start the API's part of a call and change nothing else of it.
UiOnly ==
    \A j \in Calls :
        /\ call'[j].ui \in {"unused", "keys"} => call'[j].api = "none"
        /\ call[j].api # "none" => call'[j].api = call[j].api

\* A new record for one call.
LEMMA OneCall ==
    ASSUME CallTypes, NEW i \in Calls, NEW r \in Call, call' = [call EXCEPT ![i] = r]
    PROVE  CallTypes' /\ call'[i] = r /\ \A j \in Calls : j # i => call'[j] = call[j]
BY DEF CallTypes

LEMMA UiFacts ==
    ASSUME CallTypes, PhoneTypes, Stages, UiStep
    PROVE  CallTypes' /\ Calm /\ UiOnly
<1>0. \A j \in Calls : call[j] \in Call
  BY DEF CallTypes
<1>1. ASSUME NEW p \in Phones, AppRestart(p)
      PROVE  CallTypes' /\ Calm /\ UiOnly
  <2>1. \A j \in Calls : call'[j] = call[j] \/ call'[j] = [call[j] EXCEPT !.ui = "done"]
    BY <1>1 DEF AppRestart
  <2>2. \A j \in Calls : LET r == [call[j] EXCEPT !.ui = "done"] IN
             /\ r \in Call /\ r.ui = "done" /\ r.api = call[j].api /\ r.key = call[j].key
             /\ r.name = call[j].name /\ r.chain = call[j].chain
    BY <1>0 DEF Call, Ui
  <2>3. CallTypes'
    <3>1. \A j \in Calls : call'[j] \in Call
      BY <1>0, <2>1, <2>2
    <3>2. call' = [j \in Calls |-> call'[j]]
      BY <1>1 DEF AppRestart
    <3> QED
      BY <3>1, <3>2 DEF CallTypes
  <2> QED
    BY <2>1, <2>2, <2>3 DEF Calm, UiOnly, Kept, Stages
<1>2. ASSUME NEW p \in Phones, NEW i \in Calls, NEW n \in Names, StartCreate(p, i, n)
      PROVE  CallTypes' /\ Calm /\ UiOnly
  <2> DEFINE r == [[[call[i] EXCEPT !.ui = "keys"] EXCEPT !.key = p] EXCEPT !.name = n]
  <2>1. call' = [call EXCEPT ![i] = r]
    BY <1>0, <1>2 DEF StartCreate, CallTypes
  <2>2. r \in Call /\ r.api = call[i].api /\ call[i].api = "none"
    BY <1>0, <1>2 DEF StartCreate, Stages, Call, Ui
  <2> HIDE DEF r
  <2>3. CallTypes' /\ call'[i] = r /\ \A j \in Calls : j # i => call'[j] = call[j]
    BY <2>1, <2>2, OneCall
  <2> QED
    BY <2>2, <2>3 DEF Calm, UiOnly, Kept, Stages
<1>3. ASSUME NEW i \in Calls, SendCreate(i)
      PROVE  CallTypes' /\ Calm /\ UiOnly
  <2> DEFINE c == chain[call[i].key]
             r == [[[call[i] EXCEPT !.ui = "waiting"] EXCEPT !.api = "read"] EXCEPT !.chain = c]
  <2>0. c \in Chains
    BY <1>0 DEF PhoneTypes, Call
  <2> HIDE DEF c
  <2>1. call' = [call EXCEPT ![i] = r]
    BY <1>0, <1>3 DEF SendCreate, CallTypes, c
  <2>2. r \in Call /\ r.ui = "waiting" /\ r.api = "read" /\ call[i].api = "none"
    BY <1>0, <1>3, <2>0 DEF SendCreate, Stages, Call, Ui, Api, Busy
  <2> HIDE DEF r
  <2>3. CallTypes' /\ call'[i] = r /\ \A j \in Calls : j # i => call'[j] = call[j]
    BY <2>1, <2>2, OneCall
  <2> QED
    BY <2>2, <2>3 DEF Calm, UiOnly, Kept, Stages
<1>4. ASSUME NEW i \in Calls, CreateReturns(i) \/ CreateFails(i)
      PROVE  CallTypes' /\ Calm /\ UiOnly
  <2> DEFINE r == [call[i] EXCEPT !.ui = "done"]
  <2>1. call' = [call EXCEPT ![i] = r]
    BY <1>4 DEF CreateReturns, CreateFails
  <2>2. /\ r \in Call /\ r.ui = "done" /\ r.api = call[i].api /\ r.key = call[i].key
        /\ r.name = call[i].name /\ r.chain = call[i].chain
    BY <1>0 DEF Call, Ui
  <2> HIDE DEF r
  <2>3. CallTypes' /\ call'[i] = r /\ \A j \in Calls : j # i => call'[j] = call[j]
    BY <2>1, <2>2, OneCall
  <2> QED
    BY <2>2, <2>3 DEF Calm, UiOnly, Kept, Stages
<1> QED
  BY <1>1, <1>2, <1>3, <1>4 DEF UiStep

\* A restart of the API fails its calls and changes nothing else of them.
LEMMA ApiRestartFacts ==
    ASSUME CallTypes, InviteTypes, Stages, NEW c \in Chains, ApiRestart(c)
    PROVE  CallTypes' /\ Calm /\ Stages'
<1>0. \A j \in Calls : call[j] \in Call
  BY DEF CallTypes
<1>1. \A j \in Calls :
         \/ call'[j] = call[j]
         \/ call[j].api \in Busy /\ call'[j] = [call[j] EXCEPT !.api = "failed"]
  BY DEF ApiRestart
<1>2. \A j \in Calls : LET r == [call[j] EXCEPT !.api = "failed"] IN
           /\ r \in Call /\ r.api = "failed" /\ r.ui = call[j].ui /\ r.key = call[j].key
           /\ r.name = call[j].name /\ r.chain = call[j].chain
  BY <1>0 DEF Call, Api
<1>3. CallTypes'
  <2>1. \A j \in Calls : call'[j] \in Call
    BY <1>0, <1>1, <1>2
  <2>2. call' = [j \in Calls |-> call'[j]]
    BY DEF ApiRestart
  <2> QED
    BY <2>1, <2>2 DEF CallTypes
<1>4. "none" \notin Busy
  BY DEF Busy
<1>5. granted' = granted
  BY DEF ApiRestart, inviteVars
<1>6. \A j \in Calls :
         /\ Kept(j) /\ call'[j].ui = call[j].ui
         /\ call'[j].api = call[j].api \/ (call[j].api \in Busy /\ call'[j].api = "failed")
  BY <1>1, <1>2 DEF Kept
<1>7. Calm
  BY <1>6 DEF Calm
<1>8. Stages'
  BY <1>4, <1>5, <1>6 DEF Stages, InviteTypes
<1> QED
  BY <1>3, <1>7, <1>8

-----------------------------------------------------------------------------
(* Preservation of the types *)

\* The steps on a phone.
LEMMA TypesPhone ==
    ASSUME Types, Stages, NEW p \in Phones,
           \/ LoadKey(p) \/ PollStart(p) \/ AppRestart(p)
           \/ \E c \in Chains : SwitchChain(p, c)
           \/ \E i \in Calls, n \in Names : StartCreate(p, i, n)
    PROVE  Types'
<1> USE DEF Types
<1>1. CASE LoadKey(p)
  <2>1. PhoneTypes'
    BY <1>1 DEF LoadKey, PhoneTypes
  <2> QED
    BY <1>1, <2>1, TypesFrame DEF LoadKey
<1>2. CASE PollStart(p)
  <2>1. PollTypes'
    BY <1>2 DEF PollStart, PollTypes, Poll, PhoneTypes
  <2> QED
    BY <1>2, <2>1, TypesFrame DEF PollStart
<1>3. CASE AppRestart(p)
  <2>1. CallTypes'
    BY <1>3, UiFacts DEF UiStep
  <2>2. PollTypes'
    BY <1>3 DEF AppRestart, PollTypes
  <2>3. (IF account[p] = NoAccount THEN Base ELSE account[p].home) \in Chains
    BY OnboardingAssumption DEF PhoneTypes, Account
  <2>4. PhoneTypes'
    BY <1>3, <2>3 DEF AppRestart, PhoneTypes
  <2> QED
    BY <1>3, <2>1, <2>2, <2>4, TypesFrame DEF AppRestart
<1>4. ASSUME NEW c \in Chains, SwitchChain(p, c) PROVE Types'
  <2>1. PhoneTypes'
    BY <1>4 DEF SwitchChain, PhoneTypes
  <2> QED
    BY <1>4, <2>1, TypesFrame DEF SwitchChain
<1>5. ASSUME NEW i \in Calls, NEW n \in Names, StartCreate(p, i, n) PROVE Types'
  <2>1. CallTypes'
    BY <1>5, UiFacts DEF UiStep
  <2> QED
    BY <1>5, <2>1, TypesFrame DEF StartCreate
<1> QED
  BY <1>1, <1>2, <1>3, <1>4, <1>5

\* The steps of a poll.
LEMMA TypesPoll ==
    ASSUME Types, NEW q \in polls, PollServed(q) \/ PollFinds(q) \/ PollFails(q)
    PROVE  Types'
<1> USE DEF Types
<1>0. q \in Poll /\ q.key \in Phones /\ q.chain \in Chains /\ q.found \subseteq Address
  BY DEF PollTypes, Poll
<1>1. CASE PollServed(q)
  <2>1. Lookup(q.key, q.chain) \subseteq Address
    BY <1>0 DEF Lookup, IndexTypes
  <2>2. [q EXCEPT !.found = Lookup(q.key, q.chain)] \in Poll
    BY <1>0, <2>1 DEF Poll
  <2>3. PollTypes'
    BY <1>1, <2>2 DEF PollServed, PollTypes
  <2> QED
    BY <1>1, <2>3, TypesFrame DEF PollServed
<1>2. CASE PollFinds(q)
  <2>1. PICK a \in q.found : account' = [account EXCEPT ![q.key] = SavedFound(q.key, a)]
    BY <1>2 DEF PollFinds
  <2>2. SavedFound(q.key, a) \in Account \cup {NoAccount}
    BY <1>0, SavedType DEF SavedFound
  <2>3. PhoneTypes'
    BY <1>2, <2>1, <2>2 DEF PollFinds, PhoneTypes
  <2>4. PollTypes'
    BY <1>2 DEF PollFinds, PollTypes
  <2> QED
    BY <1>2, <2>3, <2>4, TypesFrame DEF PollFinds
<1>3. CASE PollFails(q)
  <2>1. PollTypes'
    BY <1>3 DEF PollFails, PollTypes
  <2> QED
    BY <1>3, <2>1, TypesFrame DEF PollFails
<1> QED
  BY <1>1, <1>2, <1>3

\* A chain that grows leaves the index behind it.
LEMMA TypesDeploy ==
    ASSUME Types, NEW a \in Address, UNCHANGED indexVars,
           deployed' = [deployed EXCEPT ![a.chain] = Append(@, a)]
    PROVE  ChainTypes' /\ IndexTypes' /\ Grows
<1>1. /\ ChainTypes'
      /\ \A c \in Chains : /\ Len(deployed'[c]) >= Len(deployed[c])
                           /\ Len(deployed[c]) \in Nat /\ Len(deployed'[c]) \in Nat
                           /\ Elements(deployed[c]) \subseteq Elements(deployed'[c])
  BY DeployFacts DEF Types
<1>2. IndexTypes'
  BY <1>1 DEF IndexTypes, indexVars, Types
<1> QED
  BY <1>1, <1>2 DEF Grows

\* The steps of a call on the phone and on the server.
LEMMA TypesCall ==
    ASSUME Types, Stages, NEW i \in Calls,
           \/ SendCreate(i) \/ CreateReturns(i) \/ CreateFails(i)
           \/ ReadCode(i) \/ Deploy(i) \/ DeployThrows(i) \/ CacheName(i)
           \/ Count(i) \/ LoadCode(i) \/ CheckAttestation(i) \/ Pay(i) \/ RecordAttestation(i)
    PROVE  Types'
<1> USE DEF Types
<1>0. /\ AddressOf(call[i]) \in Address /\ AddressOf(call[i]).chain = call[i].chain
      /\ call[i].chain \in Chains /\ call[i].key \in Phones
  BY AddressType
<1>s. /\ "deploy" \in Api /\ "failed" \in Api /\ "cache" \in Api /\ "count" \in Api
      /\ "load" \in Api /\ "check" \in Api /\ "ok" \in Api /\ "pay" \in Api /\ "record" \in Api
  BY DEF Api, Busy
<1>1. CASE SendCreate(i) \/ CreateFails(i)
  <2>1. CallTypes'
    BY <1>1, UiFacts DEF UiStep
  <2>2. PhoneTypes'
    BY <1>0, <1>1 DEF SendCreate, CreateFails, PhoneTypes
  <2> QED
    BY <1>1, <2>1, <2>2, TypesFrame DEF SendCreate, CreateFails
<1>2. CASE CreateReturns(i)
  <2>1. CallTypes'
    BY <1>2, UiFacts DEF UiStep
  <2>2. Saved(call[i].key, AddressOf(call[i])) \in Account \cup {NoAccount}
    BY <1>0, SavedType
  <2>3. PhoneTypes'
    BY <1>0, <1>2, <2>2 DEF CreateReturns, PhoneTypes
  <2> QED
    BY <1>2, <2>1, <2>3, TypesFrame DEF CreateReturns
<1>3. CASE ReadCode(i) \/ LoadCode(i) \/ CheckAttestation(i)
  <2>1. \E s \in Api : Goto(i, s)
    BY <1>3, <1>s DEF ReadCode, LoadCode, CheckAttestation
  <2>2. CallTypes'
    BY <2>1, GotoFacts
  <2> QED
    BY <1>3, <2>2, TypesFrame DEF ReadCode, LoadCode, CheckAttestation
<1>4. CASE Deploy(i) \/ DeployThrows(i)
  <2>1. \E s \in Api : Goto(i, s)
    BY <1>4, <1>s DEF Deploy, DeployThrows
  <2>2. CallTypes'
    BY <2>1, GotoFacts
  <2>3. \/ UNCHANGED deployed
        \/ deployed' = [deployed EXCEPT ![AddressOf(call[i]).chain] =
                            Append(@, AddressOf(call[i]))]
    BY <1>4 DEF Deploy, DeployThrows
  <2>4. UNCHANGED indexVars
    BY <1>4 DEF Deploy, DeployThrows
  <2>5. ChainTypes' /\ IndexTypes'
    <3>1. CASE UNCHANGED deployed
      BY <2>4, <3>1, TypesFrame
    <3>2. CASE ~ UNCHANGED deployed
      BY <1>0, <2>3, <2>4, <3>2, TypesDeploy
    <3> QED
      BY <3>1, <3>2
  <2> QED
    BY <1>4, <2>2, <2>5, TypesFrame DEF Deploy, DeployThrows
<1>5. CASE CacheName(i)
  <2>1. CallTypes'
    BY <1>5, <1>s, GotoFacts DEF CacheName
  <2>2. IndexTypes'
    BY <1>0, <1>5 DEF CacheName, IndexTypes
  <2> QED
    BY <1>5, <2>1, <2>2, TypesFrame DEF CacheName
<1>6. CASE Count(i) \/ Pay(i) \/ RecordAttestation(i)
  <2>1. \E s \in Api : Goto(i, s)
    BY <1>6, <1>s DEF Count, Pay, RecordAttestation
  <2>2. CallTypes'
    BY <2>1, GotoFacts
  <2>3. InviteTypes'
    BY <1>0, <1>6 DEF Count, Pay, RecordAttestation, InviteTypes
  <2> QED
    BY <1>6, <2>2, <2>3, TypesFrame DEF Count, Pay, RecordAttestation, indexVars
<1> QED
  BY <1>1, <1>2, <1>3, <1>4, <1>5, <1>6

\* The steps of a chain and of its index.
LEMMA TypesChain ==
    ASSUME Types, Stages, NEW c \in Chains,
           \/ LoadKeys(c) \/ LoadNames(c) \/ ApiRestart(c)
           \/ \E s \in Strangers, n \in Names : DeployStranger(s, n, c)
    PROVE  Types'
<1> USE DEF Types
<1>0. Elements(deployed[c]) \subseteq Address /\ Len(deployed[c]) \in Nat
  BY ElementsType
<1>1. CASE LoadKeys(c)
  <2>1. PICK n \in NextKeys(c) : keyIndexed' = [keyIndexed EXCEPT ![c] = n]
    BY <1>1 DEF LoadKeys
  <2>2. n \in Nat /\ n <= Len(deployed[c])
    BY <1>0, <2>1 DEF NextKeys, IndexTypes
  <2>3. IndexTypes'
    BY <1>1, <2>1, <2>2 DEF LoadKeys, IndexTypes
  <2> QED
    BY <1>1, <2>3, TypesFrame DEF LoadKeys
<1>2. CASE LoadNames(c)
  <2>1. IndexTypes'
    BY <1>0, <1>2 DEF LoadNames, IndexTypes
  <2> QED
    BY <1>2, <2>1, TypesFrame DEF LoadNames
<1>3. CASE ApiRestart(c)
  <2>1. CallTypes'
    BY <1>3, ApiRestartFacts
  <2>2. IndexTypes'
    BY <1>0, <1>3 DEF ApiRestart, IndexTypes
  <2> QED
    BY <1>3, <2>1, <2>2, TypesFrame DEF ApiRestart
<1>4. ASSUME NEW s \in Strangers, NEW n \in Names, DeployStranger(s, n, c) PROVE Types'
  <2> DEFINE a == [key |-> s, name |-> n, chain |-> c]
  <2>1. a \in Address /\ a.chain = c
    BY DEF Address
  <2>2. deployed' = [deployed EXCEPT ![a.chain] = Append(@, a)]
    BY <1>4, <2>1 DEF DeployStranger
  <2>3. ChainTypes' /\ IndexTypes'
    BY <1>4, <2>1, <2>2, TypesDeploy DEF DeployStranger
  <2> QED
    BY <1>4, <2>3, TypesFrame DEF DeployStranger
<1> QED
  BY <1>1, <1>2, <1>3, <1>4

LEMMA TypesStep == Types /\ Stages /\ Next => Types'
<1> SUFFICES ASSUME Types, Stages, Next PROVE Types'
  OBVIOUS
<1> QED
  BY TypesPhone, TypesPoll, TypesCall, TypesChain DEF Next

-----------------------------------------------------------------------------
(* Preservation of the stages and of what is counted *)

LEMMA StagesStep == Types /\ Stages /\ Next => Stages'
<1> SUFFICES ASSUME Types, Stages, Next PROVE Stages'
  OBVIOUS
<1>t. CallTypes /\ PhoneTypes /\ InviteTypes /\ granted \subseteq Calls
  BY DEF Types, InviteTypes
<1>1. ASSUME UiStep PROVE Stages'
  <2>1. granted' = granted
    BY <1>1 DEF UiStep, AppRestart, StartCreate, SendCreate, CreateReturns, CreateFails,
                inviteVars
  <2>2. UiOnly
    BY <1>1, <1>t, UiFacts
  <2>3. \A j \in granted : call'[j].api \in {"record", "ok", "failed"}
    BY <2>2, <1>t DEF Stages, UiOnly
  <2> QED
    BY <2>1, <2>2, <2>3 DEF Stages, UiOnly
<1>2. ASSUME NEW c \in Chains, ApiRestart(c) PROVE Stages'
  BY <1>2, <1>t, ApiRestartFacts
<1>3. ASSUME NEW i \in Calls, NEW s \in Api, Goto(i, s), call[i].api \in Busy, s # "none",
             \/ granted' = granted /\ (i \in granted => s \in {"record", "ok", "failed"})
             \/ granted' = granted \cup {i} /\ s = "record"
      PROVE  Stages'
  <2>1. /\ \A j \in Calls : j # i => call'[j] = call[j]
        /\ \A j \in Calls : call'[j].ui = call[j].ui
        /\ call'[i].api = s
    BY <1>3, <1>t, GotoFacts
  <2>2. call[i].api # "none"
    BY <1>3 DEF Busy
  <2> QED
    BY <1>3, <1>t, <2>1, <2>2 DEF Stages
<1>4. ASSUME NEW i \in Calls,
             \/ ReadCode(i) \/ Deploy(i) \/ DeployThrows(i) \/ CacheName(i) \/ Count(i)
             \/ LoadCode(i) \/ CheckAttestation(i) \/ Pay(i) \/ RecordAttestation(i)
      PROVE  Stages'
  <2>1. call[i].api \in {"read", "deploy", "cache", "count", "load", "check", "pay"}
            => i \notin granted
    BY <1>t DEF Stages
  <2>2. CASE Pay(i)
    <3>1. /\ Goto(i, "record") /\ granted' = granted \cup {i}
          /\ call[i].api \in Busy /\ "record" \in Api
      BY <2>2 DEF Pay, At, Busy, Api
    <3> QED
      BY <3>1, <1>3
  <2>3. CASE RecordAttestation(i)
    <3>1. Goto(i, "ok") /\ granted' = granted /\ call[i].api \in Busy /\ "ok" \in Api
      BY <2>3 DEF RecordAttestation, At, Busy, Api
    <3> QED
      BY <3>1, <1>3
  <2>4. CASE ~ Pay(i) /\ ~ RecordAttestation(i)
    <3>1. /\ granted' = granted /\ call[i].api \in Busy /\ i \notin granted
          /\ \E s \in Api : Goto(i, s) /\ s # "none"
      BY <1>4, <2>1, <2>4 DEF ReadCode, Deploy, DeployThrows, CacheName, Count, LoadCode,
            CheckAttestation, At, Busy, Api, inviteVars
    <3> QED
      BY <3>1, <1>3
  <2> QED
    BY <2>2, <2>3, <2>4
<1>5. ASSUME UNCHANGED <<call, granted>> PROVE Stages'
  BY <1>5 DEF Stages
<1> QED
  <2>1. ASSUME NEW p \in Phones, \/ LoadKey(p) \/ PollStart(p)
                                 \/ \E c \in Chains : SwitchChain(p, c)
        PROVE  UNCHANGED <<call, granted>>
    BY <2>1 DEF LoadKey, PollStart, SwitchChain, inviteVars
  <2>2. ASSUME NEW q \in polls, PollServed(q) \/ PollFinds(q) \/ PollFails(q)
        PROVE  UNCHANGED <<call, granted>>
    BY <2>2 DEF PollServed, PollFinds, PollFails, inviteVars
  <2>3. ASSUME NEW c \in Chains, \/ LoadKeys(c) \/ LoadNames(c)
                                 \/ \E s \in Strangers, n \in Names : DeployStranger(s, n, c)
        PROVE  UNCHANGED <<call, granted>>
    BY <2>3 DEF LoadKeys, LoadNames, DeployStranger, inviteVars
  <2> QED
    BY <1>1, <1>2, <1>4, <1>5, <2>1, <2>2, <2>3 DEF Next, UiStep

-----------------------------------------------------------------------------
(* Which steps change what *)

LEMMA WhoChanges ==
    ASSUME Next
    PROVE  /\ \/ account' = account
              \/ \E q \in polls : PollFinds(q)
              \/ \E i \in Calls : CreateReturns(i)
           /\ \/ polls' \subseteq polls
              \/ \E p \in Phones : PollStart(p)
              \/ \E q \in polls : PollServed(q)
           /\ \/ named' = named
              \/ \E i \in Calls : CacheName(i)
              \/ \E c \in Chains : LoadNames(c) \/ ApiRestart(c)
           /\ \/ deployed' = deployed
              \/ \E i \in Calls : Deploy(i) \/ DeployThrows(i)
              \/ \E c \in Chains, s \in Strangers, n \in Names : DeployStranger(s, n, c)
           /\ \/ UNCHANGED <<call, inviteVars>>
              \/ UiStep
              \/ \E c \in Chains : ApiRestart(c)
              \/ \E i \in Calls :
                   \/ ReadCode(i) \/ Deploy(i) \/ DeployThrows(i) \/ CacheName(i) \/ Count(i)
                   \/ LoadCode(i) \/ CheckAttestation(i) \/ Pay(i) \/ RecordAttestation(i)
<1>1. ASSUME NEW p \in Phones,
             LoadKey(p) \/ PollStart(p) \/ AppRestart(p) \/ \E c \in Chains : SwitchChain(p, c)
      PROVE  /\ UNCHANGED <<account, named, deployed, inviteVars>>
             /\ polls' \subseteq polls \/ PollStart(p)
             /\ call' = call \/ AppRestart(p)
  BY <1>1 DEF LoadKey, PollStart, AppRestart, SwitchChain, indexVars, phoneVars
<1>2. ASSUME NEW p \in Phones, NEW i \in Calls, NEW n \in Names, StartCreate(p, i, n)
      PROVE  UNCHANGED <<account, polls, named, deployed>>
  BY <1>2 DEF StartCreate, phoneVars, indexVars
<1>3. ASSUME NEW q \in polls, PollServed(q) \/ PollFinds(q) \/ PollFails(q)
      PROVE  /\ UNCHANGED <<named, deployed, call, inviteVars>>
             /\ account' = account \/ PollFinds(q)
             /\ polls' \subseteq polls \/ PollServed(q)
  BY <1>3 DEF PollServed, PollFinds, PollFails, indexVars, phoneVars
<1>4. ASSUME NEW i \in Calls, SendCreate(i) \/ CreateReturns(i) \/ CreateFails(i)
      PROVE  UNCHANGED <<polls, named, deployed>> /\ (account' = account \/ CreateReturns(i))
  BY <1>4 DEF SendCreate, CreateReturns, CreateFails, indexVars
<1>5. ASSUME NEW i \in Calls,
             \/ ReadCode(i) \/ Deploy(i) \/ DeployThrows(i) \/ CacheName(i) \/ Count(i)
             \/ LoadCode(i) \/ CheckAttestation(i) \/ Pay(i) \/ RecordAttestation(i)
      PROVE  /\ UNCHANGED <<account, polls>> /\ (named' = named \/ CacheName(i))
             /\ deployed' = deployed \/ Deploy(i) \/ DeployThrows(i)
  BY <1>5 DEF ReadCode, Deploy, DeployThrows, CacheName, Count, LoadCode, CheckAttestation,
              Pay, RecordAttestation, phoneVars, indexVars
<1>6. ASSUME NEW c \in Chains, LoadKeys(c) \/ LoadNames(c) \/ ApiRestart(c)
      PROVE  /\ UNCHANGED <<account, polls, deployed>>
             /\ named' = named \/ LoadNames(c) \/ ApiRestart(c)
             /\ UNCHANGED <<call, inviteVars>> \/ ApiRestart(c)
  BY <1>6 DEF LoadKeys, LoadNames, ApiRestart, phoneVars
<1>7. ASSUME NEW c \in Chains, NEW s \in Strangers, NEW n \in Names, DeployStranger(s, n, c)
      PROVE  UNCHANGED <<account, polls, named, call, inviteVars>>
  BY <1>7 DEF DeployStranger, phoneVars, indexVars
<1> QED
  BY <1>1, <1>2, <1>3, <1>4, <1>5, <1>6, <1>7 DEF Next, UiStep

-----------------------------------------------------------------------------
(* Preservation of what backs an account *)

\* An account is deployed under a free name only, and none is ever removed.
LEMMA ChainsStep ==
    ASSUME Types, NamesUnique, Next
    PROVE  NamesUnique' /\ Grows
<1>t. ChainTypes /\ CallTypes
  BY DEF Types
<1>1. ASSUME NEW a \in Address, Register(a),
             deployed' = [deployed EXCEPT ![a.chain] = Append(@, a)]
      PROVE  NamesUnique' /\ Grows
  <2>1. /\ Elements(deployed'[a.chain]) = Elements(deployed[a.chain]) \cup {a}
        /\ \A c \in Chains : c # a.chain => deployed'[c] = deployed[c]
        /\ Grows
    BY <1>1, <1>t, DeployFacts DEF Grows
  <2>2. \A b \in Elements(deployed[a.chain]) : b.name # a.name
    BY <1>1 DEF Register
  <2> QED
    BY <2>1, <2>2 DEF NamesUnique
<1>2. ASSUME deployed' = deployed PROVE NamesUnique' /\ Grows
  BY <1>2 DEF NamesUnique, Grows
<1>3. ASSUME NEW i \in Calls, Deploy(i) \/ DeployThrows(i) PROVE NamesUnique' /\ Grows
  BY <1>1, <1>2, <1>3, <1>t, AddressType DEF Deploy, DeployThrows
<1>4. ASSUME NEW c \in Chains, NEW s \in Strangers, NEW n \in Names, DeployStranger(s, n, c)
      PROVE  NamesUnique' /\ Grows
  <2>1. LET a == [key |-> s, name |-> n, chain |-> c] IN a \in Address /\ a.chain = c
    BY DEF Address
  <2> QED
    BY <1>1, <1>4, <2>1 DEF DeployStranger
<1> QED
  BY <1>2, <1>3, <1>4, WhoChanges

LEMMA NamedStep ==
    ASSUME Types, Backed, Next, Grows
    PROVE  NamedDeployed'
<1>t. ChainTypes /\ CallTypes /\ named \in [Chains -> SUBSET Address]
  BY DEF Types, IndexTypes
<1>1. CASE named' = named
  BY <1>1 DEF Backed, NamedDeployed, Grows
<1>2. ASSUME NEW i \in Calls, CacheName(i) PROVE NamedDeployed'
  <2>1. AddressOf(call[i]) \in Elements(deployed[call[i].chain])
    BY <1>2 DEF CacheName, At, Backed, CallsDeployed, HasAccount
  <2> QED
    BY <1>2, <1>t, <2>1, AddressType DEF CacheName, Backed, NamedDeployed
<1>3. ASSUME NEW c \in Chains, LoadNames(c) \/ ApiRestart(c) PROVE NamedDeployed'
  BY <1>3, <1>t DEF LoadNames, ApiRestart, Backed, NamedDeployed
<1> QED
  BY <1>1, <1>2, <1>3, WhoChanges

LEMMA FoundStep ==
    ASSUME Types, Backed, Next, Grows
    PROVE  FoundDeployed'
<1>t. /\ ChainTypes /\ named \in [Chains -> SUBSET Address]
      /\ \A q \in polls : q \in Poll /\ q.chain \in Chains /\ q.found \subseteq Address
  BY DEF Types, IndexTypes, PollTypes, Poll
<1>0. \A q \in polls : \A a \in q.found : /\ a.key = q.key /\ a.chain \in Chains
                                          /\ a \in Elements(deployed'[a.chain])
  BY <1>t DEF Backed, FoundDeployed, Grows, Address
<1>1. CASE polls' \subseteq polls
  BY <1>0, <1>1 DEF FoundDeployed
<1>2. ASSUME NEW p \in Phones, PollStart(p) PROVE FoundDeployed'
  BY <1>0, <1>2 DEF PollStart, FoundDeployed
<1>3. ASSUME NEW q \in polls, PollServed(q) PROVE FoundDeployed'
  <2> DEFINE r == [q EXCEPT !.found = Lookup(q.key, q.chain)]
  <2>1. \A a \in Lookup(q.key, q.chain) :
            a.key = q.key /\ a.chain = q.chain /\ a \in Elements(deployed[q.chain])
    <3>1. Lookup(q.key, q.chain) \subseteq Elements(deployed[q.chain])
      BY <1>t DEF Lookup, Backed, NamedDeployed
    <3>2. \A a \in Lookup(q.key, q.chain) : a.key = q.key
      BY DEF Lookup, Added
    <3> QED
      BY <1>t, <3>1, <3>2 DEF Backed, NamesUnique
  <2>2. r.key = q.key /\ r.found = Lookup(q.key, q.chain)
    BY <1>t DEF Poll
  <2>3. polls' \subseteq polls \cup {r}
    BY <1>3 DEF PollServed
  <2>4. \A a \in r.found : a.key = r.key /\ a \in Elements(deployed'[a.chain])
    BY <1>t, <2>1, <2>2 DEF Grows
  <2> HIDE DEF r
  <2> QED
    BY <1>0, <2>3, <2>4 DEF FoundDeployed
<1> QED
  BY <1>1, <1>2, <1>3, WhoChanges

LEMMA SavedStep ==
    ASSUME Types, Backed, Next, Grows
    PROVE  SavedDeployed'
<1>t. /\ CallTypes /\ PhoneTypes /\ account \in [Phones -> Account \cup {NoAccount}]
      /\ \A q \in polls : q.key \in Phones /\ q.found \subseteq Address
  BY DEF Types, PhoneTypes, PollTypes, Poll
<1>0. \A p \in Phones : account[p] # NoAccount =>
         /\ account[p].addr \in Elements(deployed'[account[p].addr.chain])
         /\ account[p].addr.key = p /\ account[p].name = account[p].addr.name
  BY <1>t DEF Backed, SavedDeployed, Grows, Account, Address
<1>1. ASSUME NEW p \in Phones, NEW a \in Address, a.key = p,
             a \in Elements(deployed[a.chain]),
             account' = [account EXCEPT ![p] = Saved(p, a)]
      PROVE  SavedDeployed'
  <2>1. a.chain \in Chains
    BY DEF Address
  <2>2. NewAccount(p, a).addr = a /\ NewAccount(p, a).name = a.name
    BY DEF NewAccount
  <2>3. a \in Elements(deployed'[a.chain])
    BY <1>1, <2>1 DEF Grows
  <2>4. account'[p] = account[p] \/ account'[p] = NewAccount(p, a)
    BY <1>1, <1>t DEF Saved
  <2>5. \A r \in Phones : r # p => account'[r] = account[r]
    BY <1>1, <1>t
  <2> QED
    BY <1>0, <1>1, <2>2, <2>3, <2>4, <2>5 DEF SavedDeployed
<1>2. CASE account' = account
  BY <1>0, <1>2 DEF SavedDeployed
<1>3. ASSUME NEW q \in polls, PollFinds(q) PROVE SavedDeployed'
  <2>1. PICK a \in q.found : account' = [account EXCEPT ![q.key] = Saved(q.key, a)]
    BY <1>3 DEF PollFinds, SavedFound
  <2>2. a.key = q.key /\ a \in Elements(deployed[a.chain]) /\ a \in Address
    BY <1>t DEF Backed, FoundDeployed
  <2> QED
    BY <1>1, <1>t, <2>1, <2>2
<1>4. ASSUME NEW i \in Calls, CreateReturns(i) PROVE SavedDeployed'
  <2>1. AddressOf(call[i]) \in Elements(deployed[call[i].chain])
    BY <1>4 DEF CreateReturns, Backed, CallsDeployed, HasAccount
  <2> QED
    BY <1>1, <1>4, <1>t, <2>1, AddressType DEF CreateReturns
<1> QED
  BY <1>2, <1>3, <1>4, WhoChanges

\* A step that is calm towards the calls.
LEMMA CalmCalls ==
    ASSUME Types, Backed, Grows, Calm
    PROVE  CallsDeployed'
<1>1. ASSUME NEW j \in Calls, call'[j].api \in HasAccount
      PROVE  AddressOf(call'[j]) \in Elements(deployed'[call'[j].chain])
  <2>1. call'[j].api = call[j].api /\ Kept(j)
    BY <1>1 DEF Calm, HasAccount
  <2>2. AddressOf(call'[j]) = AddressOf(call[j]) /\ call[j].chain \in Chains
    BY <2>1, AddressType DEF Kept, AddressOf, Types
  <2>3. AddressOf(call[j]) \in Elements(deployed[call[j].chain])
    BY <1>1, <2>1 DEF Backed, CallsDeployed
  <2> QED
    BY <2>1, <2>2, <2>3 DEF Grows, Kept
<1> QED
  BY <1>1 DEF CallsDeployed

\* A step of one call whose account is there.
LEMMA GotoCalls ==
    ASSUME Types, Backed, Grows, NEW i \in Calls, NEW s \in Api, Goto(i, s),
           AddressOf(call[i]) \in Elements(deployed'[call[i].chain])
    PROVE  CallsDeployed'
<1>1. \A j \in Calls : Kept(j) /\ (j # i => call'[j] = call[j])
  BY GotoFacts DEF Types, Kept
<1>2. ASSUME NEW j \in Calls, call'[j].api \in HasAccount
      PROVE  AddressOf(call'[j]) \in Elements(deployed'[call'[j].chain])
  <2>1. AddressOf(call'[j]) = AddressOf(call[j]) /\ call'[j].chain = call[j].chain
    BY <1>1 DEF Kept, AddressOf
  <2>2. CASE j # i
    <3>1. AddressOf(call[j]) \in Elements(deployed[call[j].chain]) /\ call[j].chain \in Chains
      BY <1>1, <1>2, <2>2, AddressType DEF Backed, CallsDeployed, Types
    <3> QED
      BY <2>1, <3>1 DEF Grows
  <2>3. CASE j = i
    BY <2>1, <2>3
  <2> QED
    BY <2>2, <2>3
<1> QED
  BY <1>2 DEF CallsDeployed

\* The steps of a call on the server that leave it short of an account.
LEMMA GotoCalm ==
    ASSUME CallTypes, NEW i \in Calls, NEW s \in {"deploy", "failed"}, Goto(i, s)
    PROVE  Calm
<1>1. s \in Api
  BY DEF Api, Busy
<1> QED
  BY <1>1, GotoFacts DEF Calm, Kept

LEMMA CallsStep ==
    ASSUME Types, Stages, Backed, Next, Grows
    PROVE  CallsDeployed'
<1>t. CallTypes /\ PhoneTypes /\ InviteTypes /\ ChainTypes
  BY DEF Types
<1>1. CASE UNCHANGED <<call, inviteVars>>
  BY <1>1, CalmCalls DEF Calm, Kept
<1>2. CASE UiStep
  BY <1>2, <1>t, UiFacts, CalmCalls
<1>3. ASSUME NEW c \in Chains, ApiRestart(c) PROVE CallsDeployed'
  BY <1>3, <1>t, ApiRestartFacts, CalmCalls
<1>4. ASSUME NEW i \in Calls, ReadCode(i) \/ DeployThrows(i) PROVE CallsDeployed'
  BY <1>4, <1>t, GotoCalm, CalmCalls DEF ReadCode, DeployThrows
<1>5. ASSUME NEW i \in Calls, Deploy(i) PROVE CallsDeployed'
  <2> DEFINE a == AddressOf(call[i])
  <2>0. a \in Address /\ a.chain = call[i].chain /\ call[i].chain \in Chains
    BY <1>t, AddressType
  <2> HIDE DEF a
  <2>1. CASE Deployable(a)
    <3>1. a \in Elements(deployed'[call[i].chain])
      <4>1. CASE Register(a)
        <5>1. deployed' = [deployed EXCEPT ![a.chain] = Append(@, a)]
          BY <1>5, <4>1 DEF Deploy, a
        <5> QED
          BY <5>1, <1>t, <2>0, DeployFacts
      <4>2. CASE ~ Register(a)
        BY <2>0, <2>1, <4>2 DEF Deployable, Grows
      <4> QED
        BY <4>1, <4>2
    <3>2. Goto(i, "cache") /\ "cache" \in Api
      BY <1>5, <2>1 DEF Deploy, a, Api, Busy
    <3> QED
      BY <3>1, <3>2, GotoCalls DEF a
  <2>2. CASE ~ Deployable(a)
    <3>1. Goto(i, "failed")
      BY <1>5, <2>2 DEF Deploy, a
    <3> QED
      BY <3>1, <1>t, GotoCalm, CalmCalls
  <2> QED
    BY <2>1, <2>2
<1>6. ASSUME NEW i \in Calls,
             \/ CacheName(i) \/ Count(i) \/ LoadCode(i) \/ CheckAttestation(i) \/ Pay(i)
             \/ RecordAttestation(i)
      PROVE  CallsDeployed'
  <2>1. call[i].api \in HasAccount /\ \E s \in Api : Goto(i, s)
    BY <1>6 DEF CacheName, Count, LoadCode, CheckAttestation, Pay, RecordAttestation, At,
                HasAccount, Api, Busy
  <2>2. AddressOf(call[i]) \in Elements(deployed'[call[i].chain])
    BY <2>1, <1>t, AddressType DEF Backed, CallsDeployed, Grows
  <2> QED
    BY <2>1, <2>2, GotoCalls
<1> QED
  BY <1>1, <1>2, <1>3, <1>4, <1>5, <1>6, WhoChanges

LEMMA BackedStep == Types /\ Stages /\ Backed /\ Next => Backed'
<1> SUFFICES ASSUME Types, Stages, Backed, Next PROVE Backed'
  OBVIOUS
<1>1. NamesUnique' /\ Grows
  BY ChainsStep DEF Backed
<1> QED
  BY <1>1, NamedStep, FoundStep, SavedStep, CallsStep DEF Backed

-----------------------------------------------------------------------------
(* Preservation of what is counted *)

LEMMA CountedSets ==
    ASSUME NEW c
    PROVE  /\ IsFiniteSet(Spending(c)) /\ IsFiniteSet(Granting(c))
           /\ Granting(c) \subseteq Spending(c)
           /\ Cardinality(Spending(c)) \in Nat /\ Cardinality(Granting(c)) \in Nat
<1>1. Spending(c) \subseteq Calls /\ Granting(c) \subseteq Spending(c)
  BY DEF Spending, Granting
<1>2. IsFiniteSet(Spending(c))
  BY <1>1, OnboardingAssumption, FS_Subset
<1>3. IsFiniteSet(Granting(c))
  BY <1>1, <1>2, FS_Subset
<1> QED
  BY <1>1, <1>2, <1>3, FS_CardinalityType

\* The step leaves c's count as it is, and no call begins to spend or to be granted.
LEMMA CountedShrinks ==
    ASSUME NEW c \in Chains, useCount'[c] = useCount[c], useCount[c] \in Nat,
           Spending(c)' \subseteq Spending(c), Granting(c)' \subseteq Granting(c),
           Cardinality(Spending(c)) <= useCount[c], Cardinality(Granting(c)) <= MaxUses
    PROVE  Cardinality(Spending(c)') <= useCount'[c] /\ Cardinality(Granting(c)') <= MaxUses
<1>1. /\ Cardinality(Spending(c)') <= Cardinality(Spending(c))
      /\ Cardinality(Granting(c)') <= Cardinality(Granting(c))
      /\ IsFiniteSet(Spending(c)') /\ IsFiniteSet(Granting(c)')
  BY CountedSets, FS_Subset
<1>2. Cardinality(Spending(c)') \in Nat /\ Cardinality(Granting(c)') \in Nat
  BY <1>1, FS_CardinalityType
<1> QED
  BY <1>1, <1>2, CountedSets, OnboardingAssumption

\* A step that moves no call towards a bonus.
LEMMA CountedCalm ==
    ASSUME Types, Stages, Counted, Calm, UNCHANGED inviteVars
    PROVE  Counted'
<1>1. ASSUME NEW c \in Chains
      PROVE  Spending(c)' \subseteq Spending(c) /\ Granting(c)' \subseteq Granting(c)
  <2>1. \A j \in Calls :
           call'[j].api \in {"load", "check", "pay"} \/ j \in granted
               => /\ call'[j].chain = call[j].chain
                  /\ call'[j].api \in {"load", "check", "pay"} => call'[j].api = call[j].api
    BY DEF Calm, Kept, Stages
  <2> QED
    BY <2>1 DEF Spending, Granting, inviteVars
<1>2. ASSUME NEW c \in Chains PROVE useCount'[c] = useCount[c] /\ useCount[c] \in Nat
  BY DEF inviteVars, Types, InviteTypes
<1> QED
  BY <1>1, <1>2, CountedShrinks DEF Counted

\* A step of the server about one call, seen from the sets.
LEMMA GotoSets ==
    ASSUME Types, NEW i \in Calls, NEW s \in Api, Goto(i, s), NEW c,
           granted' = granted \/ granted' = granted \cup {i}
    PROVE  /\ Spending(c)' \subseteq Spending(c) \cup {i}
           /\ Granting(c)' \subseteq Granting(c) \cup {i}
           /\ call[i].chain # c => /\ Spending(c)' \subseteq Spending(c)
                                   /\ Granting(c)' \subseteq Granting(c)
           /\ s \notin {"load", "check", "pay"} /\ granted' = granted
                => /\ Spending(c)' \subseteq Spending(c)
                   /\ Granting(c)' \subseteq Granting(c)
           /\ call[i].api \in {"load", "check", "pay"} => Spending(c)' \subseteq Spending(c)
           /\ call[i].api \in {"check", "pay"} => Granting(c)' \subseteq Granting(c)
           /\ s \notin {"check", "pay"} /\ granted' = granted
                => Granting(c)' \subseteq Granting(c)
<1>1. /\ \A j \in Calls : call'[j].chain = call[j].chain
      /\ \A j \in Calls : j # i => call'[j] = call[j]
      /\ call'[i].api = s
  BY GotoFacts DEF Types
<1> QED
  BY <1>1 DEF Spending, Granting

LEMMA CountedStep == Types /\ Stages /\ Counted /\ Next => Counted'
<1> SUFFICES ASSUME Types, Stages, Counted, Next PROVE Counted'
  OBVIOUS
<1>t. CallTypes /\ PhoneTypes /\ InviteTypes /\ useCount \in [Chains -> Nat]
  BY DEF Types, InviteTypes
<1>1. CASE UNCHANGED <<call, inviteVars>>
  BY <1>1, CountedCalm DEF Calm, Kept
<1>2. CASE UiStep
  <2>1. UNCHANGED inviteVars
    BY <1>2 DEF UiStep, AppRestart, StartCreate, SendCreate, CreateReturns, CreateFails
  <2> QED
    BY <1>2, <1>t, <2>1, UiFacts, CountedCalm
<1>3. ASSUME NEW c \in Chains, ApiRestart(c) PROVE Counted'
  BY <1>3, <1>t, ApiRestartFacts, CountedCalm DEF ApiRestart
<1>4. ASSUME NEW i \in Calls, NEW s \in Api, Goto(i, s), useCount' = useCount,
             granted' = granted \/ granted' = granted \cup {i},
             \A c \in Chains : Spending(c)' \subseteq Spending(c)
                                 /\ Granting(c)' \subseteq Granting(c)
      PROVE  Counted'
  BY <1>4, <1>t, CountedShrinks DEF Counted
<1>5. ASSUME NEW i \in Calls,
             \/ ReadCode(i) \/ Deploy(i) \/ DeployThrows(i) \/ CacheName(i)
             \/ RecordAttestation(i)
      PROVE  Counted'
  <2>1. /\ \E s \in Api : Goto(i, s) /\ s \notin {"load", "check", "pay"}
        /\ useCount' = useCount /\ granted' = granted
    BY <1>5 DEF ReadCode, Deploy, DeployThrows, CacheName, RecordAttestation, Api, Busy,
                inviteVars
  <2> QED
    BY <2>1, <1>4, GotoSets
<1>6. ASSUME NEW i \in Calls, CheckAttestation(i) \/ Pay(i) PROVE Counted'
  <2>1. /\ \E s \in Api : Goto(i, s)
        /\ granted' = granted \/ granted' = granted \cup {i}
        /\ call[i].api \in {"check", "pay"} /\ useCount' = useCount
    BY <1>6 DEF CheckAttestation, Pay, At, Api, Busy, inviteVars
  <2> QED
    BY <2>1, <1>4, GotoSets
<1>7. ASSUME NEW i \in Calls, Count(i) PROVE Counted'
  <2> DEFINE k == call[i].chain
  <2>1. PICK s \in {"load", "count"} : Goto(i, s)
    BY <1>7 DEF Count
  <2>2. k \in Chains /\ s \in Api /\ granted' = granted
    BY <1>7, <1>t, AddressType DEF Count, Api, Busy
  <2>3. useCount' = [useCount EXCEPT ![k] = @ + 1]
    BY <1>7 DEF Count
  <2>4. ASSUME NEW c \in Chains
        PROVE  Cardinality(Spending(c)') <= useCount'[c] /\ Cardinality(Granting(c)') <= MaxUses
    <3>0. Cardinality(Spending(c)) <= useCount[c] /\ Cardinality(Granting(c)) <= MaxUses
      BY DEF Counted
    <3>1. Granting(c)' \subseteq Granting(c)
      BY <2>1, <2>2, GotoSets
    <3>2. CASE c # k
      <4>1. Spending(c)' \subseteq Spending(c)
        BY <2>1, <2>2, <3>2, GotoSets
      <4>2. useCount'[c] = useCount[c] /\ useCount[c] \in Nat
        BY <1>t, <2>3, <3>2
      <4> QED
        BY <3>0, <3>1, <4>1, <4>2, CountedShrinks
    <3>3. CASE c = k
      <4>1. Spending(c)' \subseteq Spending(c) \cup {i}
        BY <2>1, <2>2, GotoSets
      <4>2. IsFiniteSet(Spending(c) \cup {i})
              /\ Cardinality(Spending(c) \cup {i}) <= Cardinality(Spending(c)) + 1
              /\ Cardinality(Spending(c) \cup {i}) \in Nat
        <5>1. IsFiniteSet(Spending(c)) /\ Cardinality(Spending(c)) \in Nat
          BY CountedSets
        <5>2. /\ IsFiniteSet(Spending(c) \cup {i})
              /\ \/ Cardinality(Spending(c) \cup {i}) = Cardinality(Spending(c))
                 \/ Cardinality(Spending(c) \cup {i}) = Cardinality(Spending(c)) + 1
          BY <5>1, FS_AddElement
        <5> QED
          BY <5>1, <5>2
      <4>3. Cardinality(Spending(c)') <= Cardinality(Spending(c) \cup {i})
              /\ Cardinality(Spending(c)') \in Nat
        BY <4>1, <4>2, FS_Subset, FS_CardinalityType
      <4>4. useCount'[c] = useCount[c] + 1 /\ useCount[c] \in Nat
        BY <1>t, <2>2, <2>3, <3>3
      <4>5. Cardinality(Granting(c)') <= MaxUses
        <5>1. Cardinality(Granting(c)') <= Cardinality(Granting(c))
                /\ Cardinality(Granting(c)') \in Nat
          BY <3>1, CountedSets, FS_Subset, FS_CardinalityType
        <5> QED
          BY <3>0, <5>1, CountedSets, OnboardingAssumption
      <4> QED
        BY <3>0, <4>2, <4>3, <4>4, <4>5, CountedSets
    <3> QED
      BY <3>2, <3>3
  <2> QED
    BY <2>4 DEF Counted
<1>8. ASSUME NEW i \in Calls, LoadCode(i) PROVE Counted'
  <2> DEFINE k == call[i].chain
  <2>0. /\ call[i].api = "load" /\ granted' = granted /\ useCount' = useCount
        /\ k \in Chains /\ "check" \in Api /\ "ok" \in Api
    BY <1>8, <1>t, AddressType DEF LoadCode, At, Api, Busy, inviteVars
  <2>1. CASE ~ WithinUses(useCount[k])
    <3>1. Goto(i, "ok")
      BY <1>8, <2>1 DEF LoadCode
    <3> QED
      BY <2>0, <3>1, <1>4, GotoSets
  <2>2. CASE WithinUses(useCount[k])
    <3>1. Goto(i, "check")
      BY <1>8, <2>2 DEF LoadCode
    <3>2. ASSUME NEW c \in Chains
          PROVE  /\ Cardinality(Spending(c)') <= useCount'[c]
                 /\ Cardinality(Granting(c)') <= MaxUses
      <4>0. /\ Cardinality(Spending(c)) <= useCount[c] /\ Cardinality(Granting(c)) <= MaxUses
            /\ useCount'[c] = useCount[c] /\ useCount[c] \in Nat
        BY <1>t, <2>0 DEF Counted
      <4>1. Spending(c)' \subseteq Spending(c)
        BY <2>0, <3>1, GotoSets
      <4>2. CASE c # k
        BY <2>0, <3>1, <4>0, <4>1, <4>2, GotoSets, CountedShrinks
      <4>3. CASE c = k
        <5>1. useCount[c] <= MaxUses
          BY <2>2, <4>3 DEF WithinUses
        <5>2. Granting(c)' \subseteq Spending(c)
          BY <4>1 DEF Spending, Granting
        <5>3. /\ Cardinality(Spending(c)') <= Cardinality(Spending(c))
              /\ Cardinality(Granting(c)') <= Cardinality(Spending(c))
              /\ IsFiniteSet(Spending(c)') /\ IsFiniteSet(Granting(c)')
          BY <4>1, <5>2, CountedSets, FS_Subset
        <5>4. Cardinality(Spending(c)') \in Nat /\ Cardinality(Granting(c)') \in Nat
          BY <5>3, FS_CardinalityType
        <5> QED
          BY <4>0, <5>1, <5>3, <5>4, CountedSets, OnboardingAssumption
      <4> QED
        BY <4>2, <4>3
    <3> QED
      BY <3>2 DEF Counted
  <2> QED
    BY <2>1, <2>2
<1> QED
  BY <1>1, <1>2, <1>3, <1>5, <1>6, <1>7, <1>8, WhoChanges

-----------------------------------------------------------------------------
(* The theorems *)

LEMMA IInvInit == Init => IInv
<1> SUFFICES ASSUME Init PROVE IInv
  OBVIOUS
<1>1. Types
  BY TypesInit
<1>2. \A i \in Calls : call[i].ui = "unused" /\ call[i].api = "none"
  BY DEF Init, Unused
<1>3. granted = {} /\ polls = {} /\ \A c \in Chains : useCount[c] = 0
  BY DEF Init
<1>4. Stages
  BY <1>2, <1>3 DEF Stages
<1>5. Backed
  <2>1. \A c \in Chains : Elements(deployed[c]) = {} /\ named[c] = {}
    BY DEF Init, Elements
  <2>2. NamesUnique /\ NamedDeployed
    BY <2>1 DEF NamesUnique, NamedDeployed
  <2>3. FoundDeployed /\ CallsDeployed
    BY <1>2, <1>3 DEF FoundDeployed, CallsDeployed, HasAccount
  <2>4. SavedDeployed
    BY DEF Init, SavedDeployed
  <2> QED
    BY <2>2, <2>3, <2>4 DEF Backed
<1>6. Counted
  <2>1. \A c \in Chains : Spending(c) = {} /\ Granting(c) = {}
    BY <1>2, <1>3 DEF Spending, Granting
  <2>2. Cardinality({}) = 0
    BY FS_EmptySet
  <2> QED
    BY <1>3, <2>1, <2>2, OnboardingAssumption DEF Counted
<1> QED
  BY <1>1, <1>4, <1>5, <1>6 DEF IInv

LEMMA IInvStep == IInv /\ [Next]_vars => IInv'
<1> SUFFICES ASSUME IInv, [Next]_vars PROVE IInv'
  OBVIOUS
<1>1. CASE Next
  BY <1>1, TypesStep, StagesStep, BackedStep, CountedStep DEF IInv
<1>2. CASE UNCHANGED vars
  <2>1. UNCHANGED <<phoneVars, polls, call, deployed, indexVars, inviteVars>>
    BY <1>2 DEF vars
  <2>2. Types'
    BY <2>1, TypesFrame DEF IInv, Types
  <2>3. UNCHANGED <<account, polls, call, deployed, named, useCount, granted>>
    BY <2>1 DEF phoneVars, indexVars, inviteVars
  <2>4. Backed'
    BY <2>3 DEF IInv, Backed, NamesUnique, NamedDeployed, FoundDeployed, CallsDeployed,
                SavedDeployed
  <2>5. Stages' /\ Counted'
    BY <2>3 DEF IInv, Stages, Counted, Spending, Granting
  <2> QED
    BY <2>2, <2>4, <2>5 DEF IInv
<1> QED
  BY <1>1, <1>2

\* The inductive invariant holds of every behaviour of the phones and the API.
THEOREM OnboardingInvariant == Spec => []IInv
<1> QED
  BY IInvInit, IInvStep, PTL DEF Spec

\* Every variable keeps its type, for any number of phones, chains, names and calls.
THEOREM OnboardingTypeOK == Spec => []TypeOK
<1>1. IInv => TypeOK
  BY TypesAreTypeOK DEF IInv
<1> QED
  BY <1>1, OnboardingInvariant, PTL

\* A phone's account is on a chain, under the phone's key and a name nobody else has.
THEOREM AccountExists == Spec => []AccountIsOnChain
<1>1. IInv => AccountIsOnChain
  <2> SUFFICES ASSUME IInv, NEW p \in Phones, account[p] # NoAccount
               PROVE  LET a == account[p].addr IN
                      /\ a \in Elements(deployed[a.chain])
                      /\ a.key = p /\ account[p].name = a.name
                      /\ \A b \in Elements(deployed[a.chain]) : b.name = a.name => b = a
    BY DEF AccountIsOnChain
  <2>1. account[p].addr.chain \in Chains
    BY DEF IInv, Types, PhoneTypes, Account, Address
  <2> QED
    BY <2>1 DEF IInv, Backed, SavedDeployed, NamesUnique
<1> QED
  BY <1>1, OnboardingInvariant, PTL

\* However the calls overlap, an invite code pays at most max_uses bonuses.
THEOREM BonusesWithinUses == Spec => []BonusWithinUses
<1>1. IInv => BonusWithinUses
  <2> SUFFICES ASSUME IInv, NEW c \in Chains
               PROVE  Cardinality({i \in granted : call[i].chain = c}) <= MaxUses
    BY DEF BonusWithinUses
  <2>1. {i \in granted : call[i].chain = c} \subseteq Granting(c)
    BY DEF IInv, Types, InviteTypes, Granting
  <2>2. /\ Cardinality({i \in granted : call[i].chain = c}) <= Cardinality(Granting(c))
        /\ Cardinality({i \in granted : call[i].chain = c}) \in Nat
    BY <2>1, CountedSets, FS_Subset, FS_CardinalityType
  <2>3. Cardinality(Granting(c)) <= MaxUses
    BY DEF IInv, Counted
  <2> QED
    BY <2>2, <2>3, CountedSets, OnboardingAssumption
<1> QED
  BY <1>1, OnboardingInvariant, PTL

\* Once a phone has saved an account no step replaces it: neither createAccount's answer,
\* a poll's, nor a restart.
THEOREM AccountKept == Spec => AccountIsKept
<1>1. IInv /\ [Next]_vars =>
        [\A p \in Phones : account[p] # NoAccount => account'[p] = account[p]]_vars
  <2> SUFFICES ASSUME IInv, Next, NEW p \in Phones, account[p] # NoAccount
               PROVE  account'[p] = account[p]
    BY DEF vars
  <2>0. account \in [Phones -> Account \cup {NoAccount}]
    BY DEF IInv, Types, PhoneTypes
  <2>1. CASE account' = account
    BY <2>1
  <2>2. ASSUME NEW q \in polls, PollFinds(q) PROVE account'[p] = account[p]
    BY <2>0, <2>2 DEF PollFinds, SavedFound, Saved
  <2>3. ASSUME NEW i \in Calls, CreateReturns(i) PROVE account'[p] = account[p]
    BY <2>0, <2>3 DEF CreateReturns, Saved
  <2> QED
    BY <2>1, <2>2, <2>3, WhoChanges
<1> QED
  BY <1>1, OnboardingInvariant, PTL DEF Spec, AccountIsKept
=============================================================================
