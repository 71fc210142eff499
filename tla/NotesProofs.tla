----------------------------- MODULE NotesProofs -----------------------------
(***************************************************************************)
(* Proofs about EphemeralNotes and NoteNotifications, for every set of     *)
(* owners and accounts, any number of overlapping loads and restarts, and  *)
(* any number of phones.                                                   *)
(***************************************************************************)
EXTENDS NoteNotifications, FiniteSetTheorems, TLAPS

\* A note in the contract is the last log of its owner.
HeldIsLast ==
    \A o \in Owners : note[o] # 0 =>
        /\ note[o] \in 1..Len(chain)
        /\ chain[note[o]].owner = o
        /\ chain[note[o]].redeemer = Nobody
        /\ \A k \in 1..Len(chain) : chain[k].owner = o => k <= note[o]

\* Log k redeems the note of log c, the log of its owner right before it.
Redeems(k, c) ==
    /\ chain[c].owner = chain[k].owner
    /\ chain[c].from = chain[k].from
    /\ chain[c].amount = chain[k].amount
    /\ chain[c].redeemer = Nobody
    /\ \A j \in c + 1 .. k - 1 : chain[j].owner # chain[k].owner

\* Every redemption redeems a note, and no other redemption does.
RedeemsOne ==
    \A k \in 1..Len(chain) : chain[k].redeemer # Nobody => \E c \in 1 .. k - 1 : Redeems(k, c)

\* The ranges of the loads follow each other up to what has been taken.
Before(l, m) == l.last < m.at /\ l.last < m.last
LoadsApart ==
    /\ \A l \in loads : /\ l.at <= l.last + 1 /\ l.last <= taken
                        /\ l.naming => l.at <= l.last
    /\ \A l, m \in loads : l = m \/ Before(l, m) \/ Before(m, l)
    /\ ~overlapped => \A l, m \in loads : l = m /\ l.last = taken

\* No load under way has log i before it.
Seen(i) == i <= taken /\ \A l \in loads : i \notin l.at..l.last

\* The index holds notes of the logs seen, each under its owner.
NotesSeen ==
    /\ \A i \in Index : status[i] # "none" => Seen(i) /\ chain[i].redeemer = Nobody
    /\ \A o \in Owners : shown[o] # 0 => status[shown[o]] # "none" /\ chain[shown[o]].owner = o
    /\ \A l \in loads : \A k \in 1..Len(l.done) : status[l.done[k]] # "none"

Redeemed == {"claimed", "cancelled"}

\* A note marked redeemed was, by a log of its owner that says how and by whom.
OutcomesTrue ==
    \A i \in Index :
        /\ claimer[i] # Nobody => status[i] \in Redeemed
        /\ status[i] \in Redeemed =>
             \E j \in 1..Len(chain) :
                 /\ chain[j].owner = chain[i].owner
                 /\ chain[j].redeemer # Nobody
                 /\ status[i] = StatusAfter(chain[j])
                 /\ claimer[i] \in {Nobody, chain[j].redeemer}

\* A load that waits for the name of a claimer is alone with its note, which it has marked.
Naming(l) == l.naming /\ AtRedeem(l)
NamingMarked ==
    /\ \A l \in loads : Naming(l) =>
          /\ l.obj \in Index
          /\ chain[l.obj].owner = Owner(l)
          /\ status[l.obj] = StatusAfter(chain[l.at])
          /\ claimer[l.obj] = Nobody
    /\ \A l, m \in loads : Naming(l) /\ Naming(m) /\ l.obj = m.obj => l = m

\* Without overlap nothing is shown for an owner whose note waits for its sender's name.
NamingFresh ==
    \A l \in loads : ~overlapped /\ l.naming /\ AtCreate(l) => shown[Owner(l)] = 0

ContractInv == HeldIsLast /\ RedeemsOne
IndexInv == LoadsApart /\ NotesSeen /\ OutcomesTrue /\ NamingMarked /\ NamingFresh

\* What ToldWhatHappened says of a message.
Happened(m) ==
    LET logs == {chain[i] : i \in OwnerLogs(m.owner, Len(chain))}
        redeemed == {c \in logs : c.redeemer # Nobody}
        sender == \E c \in logs : c.from = m.to
    IN  CASE m.kind = "confirmed" -> sender
          [] m.kind = "claimed"   -> \E c \in redeemed : /\ c.redeemer # c.from
                                                         /\ sender \/ c.redeemer = m.to
          [] m.kind = "cancelled" -> \E c \in redeemed : c.redeemer = c.from

\* Messages under way and sent are true, and those sent have a row.
MessagesTrue ==
    \A m \in Message :
        /\ told[m] > 0 => m \in rows
        /\ told[m] <= 1
        /\ (queue[m] > 0 \/ told[m] > 0) /\ m.kind # "welcome" => Happened(m)

USE NotesAssumption, PhonesAssumption DEF NotesAssumption, PhonesAssumption

-----------------------------------------------------------------------------
(* Types, in parts that the steps change together *)

ContractTypes ==
    /\ chain \in Seq(Log) /\ Len(chain) <= MaxLogs
    /\ note \in [Owners -> 0..MaxLogs]

LoadTypes ==
    /\ taken \in 0..Len(chain) /\ boot \in 0..Len(chain)
    /\ loads \subseteq Load
    /\ overlapped \in BOOLEAN
    /\ restarts \in 0..MaxRestarts

NoteTypes ==
    /\ shown \in [Owners -> 0..MaxLogs]
    /\ status \in [Index -> Status]
    /\ claimer \in [Index -> Accounts \cup {Nobody}]
    /\ linked \subseteq Accounts \X Owners
    /\ located \subseteq Index

LEMMA TypesSplit == TypeOK <=> ContractTypes /\ claims \subseteq Claim /\ LoadTypes /\ NoteTypes
BY Zenon DEF TypeOK, ContractTypes, LoadTypes, NoteTypes

\* What the chain says of a log that is there.
LEMMA LogType ==
    ASSUME ContractTypes, NEW i \in 1..Len(chain)
    PROVE  /\ i \in Index /\ chain[i] \in Log
           /\ chain[i].owner \in Owners /\ chain[i].from \in Accounts
           /\ chain[i].amount \in Amounts /\ chain[i].redeemer \in Accounts \cup {Nobody}
<1>1. chain[i] \in Log
  BY DEF ContractTypes
<1> QED
  BY <1>1 DEF ContractTypes, Log, Index

LEMMA LoadType ==
    ASSUME LoadTypes, NEW l \in loads
    PROVE  /\ l \in Load /\ l.at \in Nat \ {0} /\ l.last \in Index /\ l.obj \in 0..MaxLogs
           /\ l.naming \in BOOLEAN /\ l.done \in Seq(Index)
<1>1. l \in Load
  BY DEF LoadTypes
<1> QED
  BY <1>1 DEF Load, Index

-----------------------------------------------------------------------------
(* The steps, as the index sees them *)

\* The contract emits log c.
Emits(c) ==
    /\ Len(chain) < MaxLogs
    /\ chain' = Append(chain, c)
    /\ UNCHANGED <<indexVars, apiVars>>

\* A creation, or a redemption of the note the contract holds.
Creates(c) == note[c.owner] = 0 /\ c.redeemer = Nobody /\ note' = [note EXCEPT ![c.owner] = Len(chain) + 1]
Takes(c) ==
    /\ note[c.owner] # 0 /\ c.redeemer # Nobody
    /\ c = [chain[note[c.owner]] EXCEPT !.redeemer = c.redeemer]
    /\ note' = [note EXCEPT ![c.owner] = 0]

Turn ==
    \/ \E c \in Log : Emits(c) /\ (Creates(c) \/ Takes(c))
    \/ UNCHANGED <<chainVars, indexVars, apiVars>>
    \/ \E n \in Index : BeginLoad(n)
    \/ \E l \in loads : Handle(l) \/ EndLoad(l)
    \/ Reset /\ restarts' \in 0..MaxRestarts

\* A redemption repeats the log of the note it redeems.
LEMMA RedeemTakes ==
    ASSUME ContractTypes, HeldIsLast, NEW o \in Owners, NEW r \in Accounts,
           note[o] # 0, Len(chain) < MaxLogs, Redeem(o, r), UNCHANGED <<indexVars, apiVars>>
    PROVE  \E c \in Log : Emits(c) /\ Takes(c)
<1> DEFINE b == chain[note[o]]
           c == [b EXCEPT !.redeemer = r]
<1>1. note[o] \in 1..Len(chain) /\ b.owner = o
  BY DEF HeldIsLast
<1>2. b \in Log
  BY <1>1, LogType
<1>3. c \in Log /\ c.owner = o /\ c.redeemer = r
  BY <1>1, <1>2 DEF Log
<1>4. c = [chain[note[c.owner]] EXCEPT !.redeemer = c.redeemer]
  BY <1>3
<1>5. Takes(c)
  <2>1. note' = [note EXCEPT ![c.owner] = 0] /\ note[c.owner] # 0
    BY <1>3 DEF Redeem
  <2>2. c.redeemer # Nobody
    BY <1>3
  <2> HIDE DEF c
  <2> QED
    BY <1>4, <2>1, <2>2, Zenon DEF Takes
<1>6. Emits(c)
  BY DEF Emits, Redeem
<1> QED
  BY <1>3, <1>5, <1>6

LEMMA OutsideTurn ==
    ASSUME TypeOK, HeldIsLast, Outside
    PROVE  /\ \/ \E c \in Log : Emits(c) /\ (Creates(c) \/ Takes(c))
              \/ UNCHANGED <<chainVars, indexVars, apiVars>>
           /\ claims' \subseteq Claim
<1>0. ContractTypes /\ claims \subseteq Claim
  BY TypesSplit
<1>1. ASSUME NEW o \in Owners, NEW a \in Accounts, NEW n \in Amounts, CreateNote(o, a, n)
      PROVE  (\E c \in Log : Emits(c) /\ Creates(c)) /\ claims' = claims
  <2> DEFINE c == [owner |-> o, from |-> a, amount |-> n, redeemer |-> Nobody]
  <2>1. c \in Log
    BY DEF Log
  <2>2. Emits(c)
    BY <1>1 DEF CreateNote, Emits
  <2>3. Creates(c)
    BY <1>1 DEF CreateNote, Creates
  <2>4. claims' = claims
    BY <1>1 DEF CreateNote
  <2> QED
    BY <2>1, <2>2, <2>3, <2>4
<1>2. ASSUME NEW o \in Owners, NEW a \in Accounts, ClaimNote(o, a)
      PROVE  (\E c \in Log : Emits(c) /\ Takes(c)) /\ claims' = claims
  BY <1>0, <1>2, RedeemTakes DEF ClaimNote
<1>3. ASSUME NEW o \in Owners, NEW a \in Accounts, CheckClaim(o, a)
      PROVE  UNCHANGED <<chainVars, indexVars, apiVars>> /\ claims' \subseteq Claim
  BY <1>0, <1>3 DEF CheckClaim, Claim
<1>4. ASSUME NEW c \in claims, SendClaim(c)
      PROVE  /\ \/ \E d \in Log : Emits(d) /\ Takes(d)
                \/ UNCHANGED <<chainVars, indexVars, apiVars>>
             /\ claims' \subseteq Claim
  <2>1. c.owner \in Owners /\ c.recipient \in Accounts
    BY <1>0 DEF Claim
  <2>2. claims' \subseteq Claim
    BY <1>0, <1>4 DEF SendClaim
  <2>3. CASE note[c.owner] # 0
    BY <1>0, <1>4, <2>1, <2>2, <2>3, RedeemTakes DEF SendClaim
  <2>4. CASE note[c.owner] = 0
    BY <1>4, <2>2, <2>4 DEF SendClaim
  <2> QED
    BY <2>3, <2>4
<1> QED
  BY <1>0, <1>1, <1>2, <1>3, <1>4 DEF Outside

\* Every step of the whole system, push notifications included, is one of these.
LEMMA EveryTurn ==
    ASSUME TypeOK, HeldIsLast, [AllNext]_allVars
    PROVE  Turn /\ claims' \subseteq Claim
<1>0. claims \subseteq Claim /\ LoadTypes
  BY TypesSplit
<1>1. CASE Outside
  BY <1>1, OutsideTurn DEF Turn
<1>2. CASE \E n \in Index : BeginLoad(n)
  BY <1>0, <1>2 DEF Turn, BeginLoad
<1>3. ASSUME NEW l \in loads, Handle(l) \/ EndLoad(l)
      PROVE  Turn /\ claims' = claims
  <2>1. claims' = claims
    BY <1>3 DEF Handle, HandlerThrows, Create, CreateNamed, RedeemSeen, RedeemNamed, EndLoad
  <2> QED
    BY <1>3, <2>1 DEF Turn
<1>4. CASE UNCHANGED vars
  BY <1>0, <1>4 DEF vars, Turn
<1>5. CASE Reset /\ restarts' \in 0..MaxRestarts
  <2>1. claims' = {}
    BY <1>5 DEF Reset
  <2> QED
    BY <1>5, <2>1 DEF Turn
<1>6. ASSUME NEW l \in loads, EndAndCrash(l)
      PROVE  Reset /\ restarts' \in 0..MaxRestarts
  BY <1>0, <1>6 DEF EndAndCrash, LoadTypes
<1>7. Restart => Reset /\ restarts' \in 0..MaxRestarts
  BY <1>0 DEF Restart, LoadTypes
<1>8. CASE Listen \/ LoadTokens \/ (\E m \in Message : Push(m))
             \/ \E a \in Phones : Register(a) \/ SaveToken(a)
  <2>1. UNCHANGED vars
    BY <1>8 DEF Listen, LoadTokens, Push, Register, SaveToken
  <2> QED
    BY <1>4, <2>1
<1>9. CASE AllNext
  BY <1>0, <1>1, <1>2, <1>3, <1>5, <1>6, <1>7, <1>8, <1>9 DEF AllNext, EndAndNotify
<1> QED
  BY <1>4, <1>9 DEF allVars

\* The chain only grows.
LEMMA ChainGrows ==
    ASSUME ContractTypes, Turn
    PROVE  /\ chain' \in Seq(Log) /\ Len(chain') \in Nat /\ Len(chain) \in Nat
           /\ Len(chain) <= Len(chain') /\ Len(chain') <= MaxLogs
           /\ \A k \in 1..Len(chain) : k \in 1..Len(chain') /\ chain'[k] = chain[k]
<1>1. CASE UNCHANGED chain
  BY <1>1 DEF ContractTypes
<1>2. CASE \E c \in Log : Emits(c)
  BY <1>2 DEF ContractTypes, Emits
<1> QED
  BY <1>1, <1>2 DEF Turn, chainVars, BeginLoad, Handle, HandlerThrows, Create, CreateNamed,
     RedeemSeen, RedeemNamed, EndLoad, Reset

LEMMA Emitted ==
    ASSUME ContractTypes, NEW c \in Log, Emits(c)
    PROVE  /\ Len(chain') = Len(chain) + 1 /\ Len(chain) + 1 \in 1..MaxLogs
           /\ chain'[Len(chain) + 1] = c
           /\ \A k \in 1..Len(chain) : chain'[k] = chain[k]
BY DEF ContractTypes, Emits

\* The contract's part of a step.
LEMMA ChainStill ==
    ASSUME Turn
    PROVE  (\E c \in Log : Emits(c) /\ (Creates(c) \/ Takes(c))) \/ UNCHANGED chainVars
BY DEF Turn, chainVars, BeginLoad, Handle, HandlerThrows, Create, CreateNamed,
   RedeemSeen, RedeemNamed, EndLoad, Reset

LEMMA ContractTypesStep == ASSUME ContractTypes, Turn PROVE ContractTypes'
<1>1. chain' \in Seq(Log) /\ Len(chain') <= MaxLogs
  BY ChainGrows
<1>2. ASSUME NEW c \in Log, Emits(c), Creates(c) \/ Takes(c)
      PROVE  note' \in [Owners -> 0..MaxLogs]
  <2>1. Len(chain) + 1 \in 0..MaxLogs
    BY <1>2, Emitted
  <2> QED
    BY <1>2, <2>1 DEF ContractTypes, Creates, Takes
<1>3. CASE UNCHANGED chainVars
  BY <1>3 DEF ContractTypes, chainVars
<1> QED
  BY <1>1, <1>2, <1>3, ChainStill DEF ContractTypes

LEMMA ContractInvStep ==
    ASSUME ContractTypes, ContractInv, Turn
    PROVE  ContractInv'
<1> DEFINE n == Len(chain)
<1>0. n \in Nat
  BY DEF ContractTypes
<1>1. CASE UNCHANGED chainVars
  BY <1>1 DEF chainVars, ContractInv, HeldIsLast, RedeemsOne, Redeems
<1>2. ASSUME NEW c \in Log, Emits(c), Creates(c) \/ Takes(c) PROVE ContractInv'
  <2>1. Len(chain') = n + 1 /\ chain'[n + 1] = c /\ \A k \in 1..n : chain'[k] = chain[k]
    BY <1>2, Emitted
  <2>2. c.owner \in Owners /\ c.redeemer \in Accounts \cup {Nobody}
    BY DEF Log
  <2>3. \A o \in Owners \ {c.owner} : note'[o] = note[o]
    BY <1>2 DEF ContractTypes, Creates, Takes
  <2> DEFINE h == note[c.owner]
  <2>4. h # 0 =>
          /\ h \in 1..n /\ chain[h].owner = c.owner /\ chain[h].redeemer = Nobody
          /\ \A k \in 1..n : chain[k].owner = c.owner => k <= h
    BY <2>2 DEF ContractInv, HeldIsLast
  <2>5. HeldIsLast'
    <3>1. ASSUME NEW o \in Owners \ {c.owner}, note'[o] # 0
          PROVE  /\ note'[o] \in 1..Len(chain')
                 /\ chain'[note'[o]].owner = o
                 /\ chain'[note'[o]].redeemer = Nobody
                 /\ \A k \in 1..Len(chain') : chain'[k].owner = o => k <= note'[o]
      BY <1>0, <2>1, <2>3, <3>1 DEF ContractInv, HeldIsLast
    <3>2. note'[c.owner] # 0 => note'[c.owner] = n + 1 /\ c.redeemer = Nobody
      BY <1>2, <2>2 DEF ContractTypes, Creates, Takes
    <3> QED
      BY <1>0, <2>1, <3>1, <3>2 DEF HeldIsLast
  <2>6. RedeemsOne'
    <3>1. ASSUME NEW k \in 1..n, chain'[k].redeemer # Nobody
          PROVE  \E b \in 1 .. k - 1 : Redeems(k, b)'
      <4>1. PICK b \in 1 .. k - 1 : Redeems(k, b)
        BY <2>1, <3>1 DEF ContractInv, RedeemsOne
      <4>2. \A j \in 1..k : chain'[j] = chain[j]
        BY <1>0, <2>1
      <4>3. Redeems(k, b)'
        BY <1>0, <4>1, <4>2 DEF Redeems
      <4> QED
        BY <4>3
    <3>2. ASSUME NEW k, k = n + 1, c.redeemer # Nobody PROVE \E b \in 1 .. k - 1 : Redeems(k, b)'
      <4>1. Takes(c)
        BY <1>2, <3>2 DEF Creates
      <4>2. h # 0 /\ c = [chain[h] EXCEPT !.redeemer = c.redeemer]
        BY <4>1 DEF Takes
      <4>3. chain[h] \in Log
        BY <2>4, <4>2, LogType
      <4>4. c.from = chain[h].from /\ c.amount = chain[h].amount
        <5> DEFINE b == chain[h]
                   r == c.redeemer
        <5> HIDE DEF b, r
        <5>1. c = [b EXCEPT !.redeemer = r] /\ b \in Log
          BY <4>2, <4>3 DEF b, r
        <5>2. c.from = b.from /\ c.amount = b.amount
          BY <5>1 DEF Log
        <5> QED
          BY <5>2 DEF b
      <4>5. \A j \in h + 1 .. n : chain[j].owner # c.owner
        BY <1>0, <2>4, <4>2
      <4>6. PICK b \in 1..n : b = h
        BY <2>4, <4>2
      <4>7. chain'[b] = chain[b] /\ chain'[k] = c /\ \A j \in b + 1 .. n : chain'[j] = chain[j]
        BY <1>0, <2>1, <3>2, <4>6
      <4>8. \A j \in b + 1 .. k - 1 : chain'[j].owner # c.owner
        BY <1>0, <3>2, <4>5, <4>6, <4>7
      <4>9. chain[b].owner = c.owner /\ chain[b].redeemer = Nobody
            /\ chain[b].from = c.from /\ chain[b].amount = c.amount
        BY <2>4, <4>2, <4>4, <4>6
      <4>10. Redeems(k, b)'
        BY <4>7, <4>8, <4>9 DEF Redeems
      <4> QED
        BY <1>0, <3>2, <4>6, <4>10
    <3>3. ASSUME NEW k \in 1 .. n + 1, chain'[k].redeemer # Nobody
          PROVE  \E b \in 1 .. k - 1 : Redeems(k, b)'
      BY <1>0, <2>1, <3>1, <3>2, <3>3
    <3> QED
      BY <2>1, <3>3 DEF RedeemsOne
  <2> QED
    BY <2>5, <2>6 DEF ContractInv
<1> QED
  BY <1>1, <1>2, ChainStill

-----------------------------------------------------------------------------
(* The loads *)

LEMMA LoadTypesStep ==
    ASSUME ContractTypes, LoadTypes, NoteTypes, LoadsApart, NamingMarked, Turn
    PROVE  LoadTypes'
<1> USE DEF LoadTypes
<1>0. Len(chain) \in Nat /\ Len(chain') \in Nat /\ Len(chain) <= Len(chain') /\ Len(chain') <= MaxLogs
  BY ChainGrows
<1>1. CASE UNCHANGED apiVars
  BY <1>0, <1>1 DEF apiVars
<1>2. ASSUME NEW n \in Index, BeginLoad(n) PROVE LoadTypes'
  <2>1. n \in taken + 1 .. Len(chain) /\ taken' = n /\ UNCHANGED <<chain, boot, restarts>>
    BY <1>2 DEF BeginLoad, NewLogs, chainVars
  <2> DEFINE new == [at |-> taken + 1, last |-> n, naming |-> FALSE, obj |-> 0, done |-> <<>>]
  <2>2. new \in Load
    <3>1. <<>> \in Seq(Index)
      OBVIOUS
    <3>2. taken + 1 \in 1 .. MaxLogs + 1
      BY <1>0, <2>1
    <3> QED
      BY <3>1, <3>2 DEF Load
  <2>3. loads' = loads \cup {new}
    BY <1>2 DEF BeginLoad
  <2>4. overlapped' \in BOOLEAN
    BY <1>2, Zenon DEF BeginLoad
  <2>5. loads' \subseteq Load
    BY <2>2, <2>3
  <2>6. taken' \in 0..Len(chain') /\ boot' \in 0..Len(chain') /\ restarts' \in 0..MaxRestarts
    BY <1>0, <2>1
  <2> QED
    BY <2>4, <2>5, <2>6, Zenon
<1>3. ASSUME NEW l \in loads, Handle(l) \/ EndLoad(l) PROVE LoadTypes'
  <2>1. UNCHANGED <<chain, taken, boot, restarts>> /\ overlapped' = overlapped
    BY <1>3 DEF Handle, HandlerThrows, Create, CreateNamed, RedeemSeen, RedeemNamed, EndLoad, chainVars
  <2>2. /\ l \in Load /\ l.at \in Nat \ {0} /\ l.last \in Index
        /\ l.done \in Seq(Index)
    BY LoadType
  <2>3. l.at \in 1..MaxLogs + 1
    BY <2>2 DEF Load
  <2>4. ASSUME l.at <= l.last, NEW i \in Index PROVE Past(l, i) \in Load
    <3>1. l.at + 1 \in 1 .. MaxLogs + 1
      BY <2>2, <2>4 DEF Index
    <3>2. Append(l.done, i) \in Seq(Index)
      BY <2>2
    <3>3. 0 \in 0..MaxLogs
      OBVIOUS
    <3> QED
      BY <2>2, <3>1, <3>2, <3>3 DEF Past, Load
  <2>5. ASSUME NEW i \in 0..MaxLogs PROVE Waiting(l, i) \in Load
    BY <2>2 DEF Waiting, Load
  <2>6. ASSUME l.at <= l.last PROVE [l EXCEPT !.at = @ + 1] \in Load
    <3>1. l.at + 1 \in 1 .. MaxLogs + 1
      BY <2>2, <2>6 DEF Index
    <3> QED
      BY <2>2, <3>1 DEF Load
  <2>7. CASE HandlerThrows(l)
    BY <2>1, <2>6, <2>7 DEF HandlerThrows, Replace, AtCreate, AtRedeem
  <2>8. CASE Create(l)
    BY <2>1, <2>5, <2>8 DEF Create, Replace
  <2>9. CASE CreateNamed(l)
    BY <2>1, <2>2, <2>4, <2>9 DEF CreateNamed, Replace, AtCreate, Index
  <2>10. CASE RedeemSeen(l)
    <3>1. l.at \in 1..Len(chain)
      BY <1>0, <2>2, <2>10 DEF RedeemSeen, AtRedeem, LoadsApart, Index
    <3>2. Owner(l) \in Owners
      BY <3>1, LogType DEF Owner
    <3>3. shown[Owner(l)] \in 0..MaxLogs
      BY <3>2 DEF NoteTypes
    <3> QED
      BY <2>1, <2>5, <2>10, <3>3 DEF RedeemSeen, Replace
  <2>11. CASE RedeemNamed(l)
    BY <2>1, <2>4, <2>11 DEF RedeemNamed, Replace, AtRedeem, NamingMarked, Naming
  <2>12. CASE EndLoad(l)
    BY <2>1, <2>12 DEF EndLoad
  <2> QED
    BY <1>3, <2>7, <2>8, <2>9, <2>10, <2>11, <2>12 DEF Handle
<1>4. CASE Reset /\ restarts' \in 0..MaxRestarts
  <2>1. taken' = 0 /\ boot' = Len(chain) /\ loads' = {} /\ chain' = chain
    BY <1>4 DEF Reset, chainVars
  <2>2. overlapped' = FALSE
    BY <1>4 DEF Reset
  <2>3. taken' \in 0..Len(chain') /\ boot' \in 0..Len(chain') /\ loads' \subseteq Load
    BY <1>0, <2>1
  <2> QED
    BY <1>4, <2>2, <2>3, Zenon
<1>5. CASE \E c \in Log : Emits(c)
  BY <1>1, <1>5 DEF Emits
<1> QED
  BY <1>1, <1>2, <1>3, <1>4, <1>5 DEF Turn

\* How the handler of a log leaves its load.
Advances(l, m) ==
    /\ l.at <= l.last /\ m.last = l.last
    /\ \/ m.at = l.at + 1 /\ ~m.naming
       \/ m.at = l.at /\ ~l.naming /\ m.naming

LEMMA PastFields ==
    ASSUME NEW l \in Load, NEW i, l.at <= l.last
    PROVE  /\ Advances(l, Past(l, i)) /\ Past(l, i).at = l.at + 1 /\ ~Past(l, i).naming
           /\ Past(l, i).done = Append(l.done, i)
BY DEF Past, Load, Advances

LEMMA WaitingFields ==
    ASSUME NEW l \in Load, NEW i, l.at <= l.last, ~l.naming
    PROVE  /\ Advances(l, Waiting(l, i)) /\ Waiting(l, i).at = l.at /\ Waiting(l, i).naming
           /\ Waiting(l, i).obj = i /\ Waiting(l, i).done = l.done
BY DEF Waiting, Load, Advances

LEMMA SkipFields ==
    ASSUME NEW l \in Load, ~l.naming, l.at <= l.last
    PROVE  LET m == [l EXCEPT !.at = @ + 1]
           IN  Advances(l, m) /\ m.at = l.at + 1 /\ ~m.naming /\ m.done = l.done
BY DEF Load, Advances

LEMMA HandleMoves ==
    ASSUME LoadTypes, NEW l \in loads, Handle(l)
    PROVE  /\ UNCHANGED <<chainVars, claims, taken, boot, overlapped, restarts>>
           /\ l.at <= l.last
           /\ \E m : Replace(l, m) /\ Advances(l, m)
<1>0. l \in Load
  BY LoadType
<1>1. UNCHANGED <<chainVars, claims, taken, boot, restarts>> /\ overlapped' = overlapped
  BY DEF Handle, HandlerThrows, Create, CreateNamed, RedeemSeen, RedeemNamed
<1>2. l.at <= l.last
  BY DEF Handle, HandlerThrows, Create, CreateNamed, RedeemSeen, RedeemNamed, AtCreate, AtRedeem, Fresh
<1>3. CASE HandlerThrows(l)
  BY <1>0, <1>1, <1>2, <1>3, SkipFields DEF HandlerThrows
<1>4. CASE Create(l) \/ RedeemSeen(l)
  <2>1. ~l.naming /\ \E i : Replace(l, Waiting(l, i))
    BY <1>4 DEF Create, RedeemSeen
  <2> QED
    BY <1>0, <1>1, <1>2, <2>1, WaitingFields
<1>5. CASE CreateNamed(l) \/ RedeemNamed(l)
  <2>1. \E i : Replace(l, Past(l, i))
    BY <1>5 DEF CreateNamed, RedeemNamed
  <2> QED
    BY <1>0, <1>1, <1>2, <2>1, PastFields
<1> QED
  BY <1>3, <1>4, <1>5 DEF Handle

\* The log a load is at is one of the chain's.
LEMMA AtChain ==
    ASSUME ContractTypes, LoadTypes, LoadsApart, NEW l \in loads
    PROVE  /\ l.last \in 1..Len(chain)
           /\ \A k \in l.at..l.last : k \in 1..Len(chain) /\ k \in Index
           /\ l.at <= l.last => /\ l.at \in 1..Len(chain) /\ l.at \in l.at..l.last /\ l.at \in Index
                                /\ Owner(l) \in Owners /\ Owner(l) = chain[l.at].owner
<1>1. l.at \in Nat \ {0} /\ l.last \in Index /\ l.last <= taken
  BY LoadType DEF LoadsApart
<1>2. Len(chain) \in Nat /\ taken \in 0..Len(chain)
  BY DEF ContractTypes, LoadTypes
<1>3. \A k \in l.at..l.last : k \in 1..Len(chain)
  BY <1>1, <1>2 DEF Index
<1>4. l.at <= l.last => l.at \in 1..Len(chain) /\ l.at \in l.at..l.last
  BY <1>1, <1>2, <1>3 DEF Index
<1> QED
  BY <1>1, <1>2, <1>3, <1>4, LogType DEF Owner, Index

LEMMA LoadsApartStep ==
    ASSUME ContractTypes, LoadTypes, LoadsApart, Turn
    PROVE  LoadsApart'
<1>0. /\ taken \in Nat
      /\ \A l \in loads : /\ l.at \in Nat \ {0} /\ l.last \in Nat /\ l.naming \in BOOLEAN
                          /\ l.at <= l.last + 1 /\ l.last <= taken
                          /\ l.naming => l.at <= l.last
      /\ \A l, m \in loads : l = m \/ Before(l, m) \/ Before(m, l)
  BY LoadType DEF LoadTypes, LoadsApart, Index
<1>1. CASE UNCHANGED apiVars
  BY <1>1, Zenon DEF apiVars, LoadsApart, Before
<1>2. ASSUME NEW n \in Index, BeginLoad(n) PROVE LoadsApart'
  <2> DEFINE new == [at |-> taken + 1, last |-> n, naming |-> FALSE, obj |-> 0, done |-> <<>>]
  <2>1. n \in taken + 1 .. Len(chain) /\ taken' = n /\ loads' = loads \cup {new}
    BY <1>2 DEF BeginLoad, NewLogs
  <2>2. ~overlapped' => loads = {}
    BY <1>2, Zenon DEF BeginLoad
  <2>3. n \in Nat /\ n > taken
    BY <1>0, <2>1 DEF Index
  <2>4. new.at = taken + 1 /\ new.last = n /\ ~new.naming
    OBVIOUS
  <2> HIDE DEF new
  <2>5. \A l \in loads' : /\ l.at <= l.last + 1 /\ l.last <= taken'
                          /\ l.naming => l.at <= l.last
    BY <1>0, <2>1, <2>3, <2>4
  <2>6. \A l, m \in loads' : l = m \/ Before(l, m) \/ Before(m, l)
    BY <1>0, <2>1, <2>3, <2>4 DEF Before
  <2>7. ~overlapped' => \A l, m \in loads' : l = m /\ l.last = taken'
    BY <2>1, <2>2, <2>4
  <2> QED
    BY <2>5, <2>6, <2>7 DEF LoadsApart, Before
<1>3. ASSUME NEW l \in loads, Handle(l) PROVE LoadsApart'
  <2>1. PICK m : Replace(l, m) /\ Advances(l, m)
    BY <1>3, HandleMoves
  <2>2. taken' = taken /\ overlapped' = overlapped
    BY <1>3, HandleMoves
  <2>3. loads' = (loads \ {l}) \cup {m}
    BY <2>1 DEF Replace
  <2>4. m.at \in Nat \ {0} /\ m.at >= l.at /\ m.at <= l.last + 1 /\ m.last = l.last
        /\ (m.naming => m.at <= m.last)
    BY <1>0, <2>1 DEF Advances
  <2>5. \A k \in loads' : /\ k.at <= k.last + 1 /\ k.last <= taken'
                          /\ k.naming => k.at <= k.last
    BY <1>0, <2>2, <2>3, <2>4
  <2>6. \A k \in loads \ {l} : Before(k, m) \/ Before(m, k)
    BY <1>0, <2>4 DEF Before
  <2>7. \A k, j \in loads' : k = j \/ Before(k, j) \/ Before(j, k)
    BY <1>0, <2>3, <2>6
  <2>8. ~overlapped => \A k, j \in loads' : k = j /\ k.last = taken
    BY <2>3, <2>4 DEF LoadsApart
  <2> QED
    BY <2>2, <2>5, <2>7, <2>8, Zenon DEF LoadsApart, Before
<1>4. ASSUME NEW l \in loads, EndLoad(l) PROVE LoadsApart'
  <2>1. loads' = loads \ {l} /\ taken' = taken
    BY <1>4 DEF EndLoad
  <2>2. overlapped' = overlapped
    BY <1>4 DEF EndLoad
  <2>3. ~overlapped => \A k, j \in loads' : k = j /\ k.last = taken
    BY <2>1 DEF LoadsApart
  <2>4. /\ \A k \in loads' : /\ k.at <= k.last + 1 /\ k.last <= taken'
                             /\ k.naming => k.at <= k.last
        /\ \A k, j \in loads' : k = j \/ Before(k, j) \/ Before(j, k)
    BY <1>0, <2>1
  <2> QED
    BY <2>1, <2>2, <2>3, <2>4, Zenon DEF LoadsApart, Before
<1>5. CASE Reset
  BY <1>5 DEF Reset, LoadsApart
<1>6. CASE \E c \in Log : Emits(c)
  BY <1>1, <1>6 DEF Emits
<1> QED
  BY <1>1, <1>2, <1>3, <1>4, <1>5, <1>6 DEF Turn

-----------------------------------------------------------------------------
(* The notes in the index *)

StateTypes == ContractTypes /\ LoadTypes /\ NoteTypes
NotesInv == NotesSeen /\ OutcomesTrue /\ NamingMarked /\ NamingFresh

LEMMA StatusAfterType == \A c : StatusAfter(c) \in Redeemed /\ StatusAfter(c) \in Status
BY DEF StatusAfter, Redeemed, Status

\* What is known of the note that a load redeems.
LEMMA RedeemFacts ==
    ASSUME StateTypes, LoadsApart, NotesInv, NEW l \in loads, RedeemSeen(l)
    PROVE  LET i == shown[Owner(l)] IN
           /\ i \in Index /\ status[i] = "confirmed" /\ claimer[i] = Nobody
           /\ i \in 1..Len(chain) /\ chain[i].owner = Owner(l) /\ chain[i].redeemer = Nobody
<1> DEFINE i == shown[Owner(l)]
<1>1. i # 0 /\ status[i] = "confirmed" /\ l.at <= l.last
  BY DEF RedeemSeen, Accepts, AtRedeem
<1>2. Owner(l) \in Owners
  BY <1>1, AtChain DEF StateTypes
<1>3. i \in Index
  BY <1>1, <1>2 DEF StateTypes, NoteTypes, Index
<1>4. claimer[i] = Nobody
  BY <1>1, <1>3 DEF NotesInv, OutcomesTrue, Redeemed
<1>5. Seen(i) /\ chain[i].redeemer = Nobody /\ chain[i].owner = Owner(l)
  BY <1>1, <1>2, <1>3 DEF NotesInv, NotesSeen
<1>6. i \in 1..Len(chain)
  BY <1>3, <1>5 DEF Seen, StateTypes, LoadTypes, ContractTypes, Index
<1> QED
  BY <1>1, <1>3, <1>4, <1>5, <1>6

LEMMA NoteTypesStep ==
    ASSUME StateTypes, LoadsApart, NotesInv, Turn
    PROVE  NoteTypes'
<1> USE DEF NoteTypes
<1>0. NoteTypes
  BY DEF StateTypes
<1>1. CASE UNCHANGED indexVars
  BY <1>0, <1>1 DEF indexVars
<1>2. ASSUME NEW l \in loads, CreateNamed(l) PROVE NoteTypes'
  <2>1. l.at <= l.last
    BY <1>2 DEF CreateNamed, AtCreate
  <2>2. l.at \in Index /\ Owner(l) \in Owners /\ l.at \in 1..Len(chain) /\ l.at \in 0..MaxLogs
    BY <2>1, AtChain DEF StateTypes, Index
  <2>3. chain[l.at].from \in Accounts
    BY <2>2, LogType DEF StateTypes
  <2> QED
    BY <1>0, <1>2, <2>2, <2>3 DEF CreateNamed, Status
<1>3. ASSUME NEW l \in loads, RedeemSeen(l) PROVE NoteTypes'
  <2>1. l.at <= l.last
    BY <1>3 DEF RedeemSeen, AtRedeem
  <2>2. l.at \in Index
    BY <2>1, AtChain DEF StateTypes
  <2> QED
    BY <1>0, <1>3, <2>2, RedeemFacts, StatusAfterType DEF RedeemSeen
<1>4. ASSUME NEW l \in loads, RedeemNamed(l) PROVE NoteTypes'
  <2>1. l.at <= l.last
    BY <1>4 DEF RedeemNamed, AtRedeem
  <2>2. chain[l.at].redeemer \in Accounts \cup {Nobody}
    BY <2>1, AtChain, LogType DEF StateTypes
  <2> QED
    BY <1>0, <1>4, <2>2 DEF RedeemNamed
<1>5. CASE Reset
  <2>1. 0 \in 0..MaxLogs
    OBVIOUS
  <2> QED
    BY <1>5, <2>1 DEF Reset, Status
<1> QED
  BY <1>1, <1>2, <1>3, <1>4, <1>5
  DEF Turn, Emits, BeginLoad, Handle, HandlerThrows, Create, EndLoad

\* Until the API starts again, what has been seen stays seen.
LEMMA SeenKept ==
    ASSUME StateTypes, LoadsApart, Turn, ~Reset, NEW i \in Index, Seen(i)
    PROVE  Seen(i)'
<1>0. i \in Nat /\ taken \in Nat /\ \A l \in loads : l.at \in Nat /\ l.last \in Nat
  BY LoadType DEF StateTypes, LoadTypes, Index
<1>1. CASE UNCHANGED apiVars
  BY <1>1 DEF apiVars, Seen
<1>2. ASSUME NEW n \in Index, BeginLoad(n) PROVE Seen(i)'
  <2> DEFINE new == [at |-> taken + 1, last |-> n, naming |-> FALSE, obj |-> 0, done |-> <<>>]
  <2>1. taken' = n /\ n > taken /\ loads' = loads \cup {new} /\ new.at = taken + 1
    BY <1>0, <1>2 DEF BeginLoad, NewLogs, Index
  <2> HIDE DEF new
  <2> QED
    BY <1>0, <2>1 DEF Seen, Index
<1>3. ASSUME NEW l \in loads, Handle(l) PROVE Seen(i)'
  <2>1. PICK m : Replace(l, m) /\ Advances(l, m)
    BY <1>3, HandleMoves DEF StateTypes
  <2>2. taken' = taken /\ loads' = (loads \ {l}) \cup {m}
    BY <1>3, <2>1, HandleMoves DEF StateTypes, Replace
  <2> QED
    BY <1>0, <2>1, <2>2 DEF Seen, Advances
<1>4. ASSUME NEW l \in loads, EndLoad(l) PROVE Seen(i)'
  BY <1>4 DEF EndLoad, Seen
<1> QED
  BY <1>1, <1>2, <1>3, <1>4 DEF Turn, Emits

\* The log a load is at has not been seen, and has been when the load is past it.
LEMMA AtSeen ==
    ASSUME StateTypes, LoadsApart, NEW l \in loads, l.at <= l.last
    PROVE  /\ ~Seen(l.at)
           /\ \A m : /\ Replace(l, m) /\ Advances(l, m) /\ m.at = l.at + 1 /\ taken' = taken
                     => Seen(l.at)'
<1>0. l.at \in Nat /\ l.last \in Nat /\ l.last <= taken /\ taken \in Nat
      /\ l.at \in l.at..l.last
  BY LoadType DEF StateTypes, LoadTypes, LoadsApart, Index
<1>1. ASSUME NEW m, Replace(l, m), Advances(l, m), m.at = l.at + 1, taken' = taken
      PROVE  Seen(l.at)'
  <2>1. loads' = (loads \ {l}) \cup {m}
    BY <1>1 DEF Replace
  <2>2. \A k \in loads \ {l} : l.at \notin k.at..k.last
    BY <1>0, LoadType DEF StateTypes, LoadsApart, Before, Index
  <2>3. l.at \notin m.at..m.last
    BY <1>0, <1>1
  <2> QED
    BY <1>0, <1>1, <2>1, <2>2, <2>3 DEF Seen
<1> QED
  BY <1>0, <1>1 DEF Seen

\* A step that leaves the notes of the index alone, and begins no wait for a claimer's name.
LEMMA StillStep ==
    ASSUME StateTypes, LoadsApart, NotesInv, Turn, ~Reset, UNCHANGED indexVars,
           overlapped => overlapped',
           \A m \in loads' : \/ m \in loads
                             \/ /\ m.done = <<>> \/ \E l \in loads : m.done = l.done
                                /\ m.naming => AtCreate(m)' /\ shown[Owner(m)'] = 0
    PROVE  NotesInv'
<1>0. /\ \A k \in 1..Len(chain) : k \in 1..Len(chain') /\ chain'[k] = chain[k]
      /\ \A i \in Index : Seen(i) => Seen(i)'
  BY ChainGrows, SeenKept DEF StateTypes
<1>1. \A i \in Index : Seen(i) => i \in 1..Len(chain)
  BY DEF Seen, StateTypes, LoadTypes, ContractTypes, Index
<1>2. \A l \in loads : l.at <= l.last => l.at \in 1..Len(chain) /\ chain'[l.at] = chain[l.at]
  BY <1>0, AtChain DEF StateTypes
<1>3. shown' = shown /\ status' = status /\ claimer' = claimer
  BY DEF indexVars
<1>4. NotesSeen'
  <2>1. \A i \in Index : status[i] # "none" =>
          Seen(i)' /\ chain'[i] = chain[i] /\ chain[i].redeemer = Nobody
    BY <1>0, <1>1 DEF NotesInv, NotesSeen
  <2>2. \A o \in Owners : shown[o] # 0 => status[shown[o]] # "none" /\ chain'[shown[o]].owner = o
    <3>1. ASSUME NEW o \in Owners, shown[o] # 0
          PROVE  status[shown[o]] # "none" /\ chain'[shown[o]].owner = o
      <4>1. status[shown[o]] # "none" /\ chain[shown[o]].owner = o /\ shown[o] \in Index
        BY <3>1 DEF NotesInv, NotesSeen, StateTypes, NoteTypes, Index
      <4> QED
        BY <2>1, <4>1
    <3> QED
      BY <3>1
  <2>3. \A m \in loads' : \A k \in 1..Len(m.done) : status[m.done[k]] # "none"
    BY DEF NotesInv, NotesSeen
  <2> QED
    BY <1>3, <2>1, <2>2, <2>3 DEF NotesSeen
<1>5. OutcomesTrue'
  <2>1. ASSUME NEW i \in Index, status[i] \in Redeemed
        PROVE  \E j \in 1..Len(chain') :
                 /\ chain'[j].owner = chain'[i].owner
                 /\ chain'[j].redeemer # Nobody
                 /\ status[i] = StatusAfter(chain'[j])
                 /\ claimer[i] \in {Nobody, chain'[j].redeemer}
    <3>1. i \in 1..Len(chain)
      BY <1>1, <2>1 DEF NotesInv, NotesSeen, Redeemed
    <3> QED
      BY <1>0, <2>1, <3>1 DEF NotesInv, OutcomesTrue
  <2> QED
    BY <1>3, <2>1 DEF OutcomesTrue, NotesInv
<1>6. \A m \in loads' : Naming(m)' => m \in loads /\ Naming(m)
  BY <1>2 DEF Naming, AtRedeem, AtCreate
<1>7. NamingMarked'
  <2>1. ASSUME NEW m \in loads, Naming(m)
        PROVE  /\ m.obj \in Index /\ chain'[m.obj].owner = Owner(m)'
               /\ status[m.obj] = StatusAfter(chain'[m.at]) /\ claimer[m.obj] = Nobody
    <3>1. m.at <= m.last
      BY <2>1 DEF Naming, AtRedeem
    <3>2. /\ m.obj \in Index /\ chain[m.obj].owner = Owner(m)
          /\ status[m.obj] = StatusAfter(chain[m.at]) /\ claimer[m.obj] = Nobody
      BY <2>1 DEF NotesInv, NamingMarked
    <3>3. m.obj \in 1..Len(chain)
      BY <1>1, <3>2, StatusAfterType DEF NotesInv, NotesSeen, Redeemed
    <3>4. StatusAfter(chain'[m.at]) = StatusAfter(chain[m.at]) /\ Owner(m)' = Owner(m)
      BY <1>2, <3>1 DEF Owner
    <3> QED
      BY <1>0, <3>2, <3>3, <3>4
  <2>2. \A l, m \in loads' : Naming(l)' /\ Naming(m)' /\ l.obj = m.obj => l = m
    BY <1>6 DEF NotesInv, NamingMarked
  <2> QED
    BY <1>3, <1>6, <2>1, <2>2 DEF NamingMarked
<1>8. NamingFresh'
  <2>1. ASSUME NEW m \in loads', ~overlapped', m.naming, AtCreate(m)' PROVE shown[Owner(m)'] = 0
    <3>1. CASE m \in loads
      <4>1. AtCreate(m) /\ Owner(m)' = Owner(m)
        BY <1>2, <2>1, <3>1 DEF AtCreate, Owner
      <4> QED
        BY <2>1, <3>1, <4>1 DEF NotesInv, NamingFresh
    <3> QED
      BY <2>1, <3>1
  <2> QED
    BY <1>3, <2>1 DEF NamingFresh
<1> QED
  BY <1>4, <1>5, <1>7, <1>8 DEF NotesInv

LEMMA Appended ==
    ASSUME NEW S, NEW s \in Seq(S), NEW x \in S
    PROVE  \A n \in 1..Len(Append(s, x)) :
             \/ Append(s, x)[n] = x
             \/ n \in 1..Len(s) /\ Append(s, x)[n] = s[n]
<1>1. Len(s) \in Nat /\ Len(Append(s, x)) = Len(s) + 1
  OBVIOUS
<1>2. Append(s, x)[Len(s) + 1] = x
  OBVIOUS
<1> SUFFICES ASSUME NEW n \in 1..Len(Append(s, x)), n # Len(s) + 1
             PROVE  n \in 1..Len(s) /\ Append(s, x)[n] = s[n]
  BY <1>2, Zenon
<1>3. CASE n \in 1..Len(s)
  BY <1>3
<1> QED
  BY <1>1, <1>2, <1>3

\* What has been handled is handled, and a load that names its note stays as it is.
LEMMA OtherLoads ==
    ASSUME StateTypes, LoadsApart, NEW l \in loads, Handle(l), NEW m, Replace(l, m), ~m.naming
    PROVE  /\ loads' = (loads \ {l}) \cup {m} /\ chain' = chain /\ ~Naming(m)'
           /\ \A k \in loads' : Naming(k)' <=> k # m /\ k # l /\ Naming(k)
           /\ \A k \in loads' : Owner(k)' = Owner(k)
           /\ ~overlapped' => ~overlapped /\ loads' = {m}
<1>1. loads' = (loads \ {l}) \cup {m} /\ chain' = chain
  BY HandleMoves DEF Replace, StateTypes, chainVars
<1>2. \A k : (Naming(k)' <=> Naming(k)) /\ Owner(k)' = Owner(k)
  BY <1>1 DEF Naming, AtRedeem, Owner
<1>3. overlapped' = overlapped
  BY HandleMoves DEF StateTypes
<1>4. ~Naming(m)
  BY DEF Naming
<1>5. ~overlapped' => ~overlapped /\ loads' = {m}
  BY <1>1, <1>3 DEF LoadsApart
<1> QED
  BY <1>1, <1>2, <1>4, <1>5

LEMMA CreateNamedStep ==
    ASSUME StateTypes, LoadsApart, NotesInv, Turn, NEW l \in loads, CreateNamed(l)
    PROVE  NotesInv'
<1> DEFINE i == l.at
           m == Past(l, i)
<1>1. l.at <= l.last /\ chain[i].redeemer = Nobody /\ Handle(l) /\ ~Reset
  <2>1. Handle(l) /\ l.at <= l.last /\ chain[i].redeemer = Nobody
    BY DEF CreateNamed, AtCreate, Handle
  <2>2. loads' # {}
    BY DEF CreateNamed, Replace
  <2> QED
    BY <2>1, <2>2 DEF Reset
<1>2. i \in Index /\ i \in 1..Len(chain) /\ Owner(l) \in Owners /\ Owner(l) = chain[i].owner
  BY <1>1, AtChain DEF StateTypes
<1>3. Replace(l, m) /\ Advances(l, m) /\ m.at = l.at + 1 /\ ~m.naming /\ m.done = Append(l.done, i)
  BY <1>1, LoadType, PastFields DEF StateTypes, CreateNamed
<1>4. taken' = taken /\ claimer' = claimer
  BY DEF CreateNamed
<1>5. ~Seen(i) /\ Seen(i)' /\ \A k \in Index : Seen(k) => Seen(k)'
  BY <1>1, <1>3, <1>4, AtSeen, SeenKept
<1>6. status[i] = "none"
  BY <1>2, <1>5 DEF NotesInv, NotesSeen
<1>7. status'[i] = "confirmed" /\ \A k \in Index \ {i} : status'[k] = status[k]
  BY <1>2 DEF CreateNamed, StateTypes, NoteTypes
<1>8. shown'[Owner(l)] = i /\ \A o \in Owners \ {Owner(l)} : shown'[o] = shown[o]
  BY <1>2 DEF CreateNamed, StateTypes, NoteTypes
<1>9. /\ loads' = (loads \ {l}) \cup {m} /\ chain' = chain /\ ~Naming(m)'
      /\ \A k \in loads' : Naming(k)' <=> k # m /\ k # l /\ Naming(k)
      /\ \A k \in loads' : Owner(k)' = Owner(k)
      /\ ~overlapped' => ~overlapped /\ loads' = {m}
  BY <1>1, <1>3, OtherLoads
<1> HIDE DEF m
<1>10. \A k \in Index : status[k] # "none" => status'[k] # "none" /\ k # i
  BY <1>6, <1>7
<1>11. NotesSeen'
  <2>1. \A k \in Index : status'[k] # "none" => Seen(k)' /\ chain[k].redeemer = Nobody
    BY <1>1, <1>5, <1>7 DEF NotesInv, NotesSeen
  <2>2. \A o \in Owners : shown'[o] # 0 => status'[shown'[o]] # "none" /\ chain[shown'[o]].owner = o
    <3>1. ASSUME NEW o \in Owners \ {Owner(l)}, shown[o] # 0
          PROVE  status'[shown[o]] # "none" /\ chain[shown[o]].owner = o
      <4>1. shown[o] \in Index
        BY <3>1 DEF StateTypes, NoteTypes, Index
      <4> QED
        BY <1>10, <3>1, <4>1 DEF NotesInv, NotesSeen
    <3> QED
      BY <1>2, <1>7, <1>8, <3>1
  <2>3. \A k \in loads' : \A n \in 1..Len(k.done) : status'[k.done[n]] # "none"
    <3>1. \A k \in loads : k.done \in Seq(Index) /\ \A n \in 1..Len(k.done) :
                              k.done[n] \in Index /\ status[k.done[n]] # "none"
      BY LoadType DEF StateTypes, NotesInv, NotesSeen
    <3>2. \A n \in 1..Len(m.done) : status'[m.done[n]] # "none"
      <4>1. l.done \in Seq(Index)
        BY <3>1
      <4>2. \A n \in 1..Len(m.done) : m.done[n] = i \/ (n \in 1..Len(l.done) /\ m.done[n] = l.done[n])
        BY <1>2, <1>3, <4>1, Appended
      <4> QED
        BY <1>7, <1>10, <3>1, <4>2
    <3> QED
      BY <1>9, <1>10, <3>1, <3>2
  <2> QED
    BY <1>9, <2>1, <2>2, <2>3 DEF NotesSeen
<1>12. OutcomesTrue'
  <2>1. claimer[i] = Nobody
    BY <1>2, <1>6 DEF NotesInv, OutcomesTrue, Redeemed
  <2>2. "confirmed" \notin Redeemed
    BY DEF Redeemed
  <2> QED
    BY <1>4, <1>7, <1>9, <2>1, <2>2 DEF NotesInv, OutcomesTrue
<1>13. NamingMarked'
  <2>1. \A k \in loads : Naming(k) =>
          /\ k.obj \in Index /\ chain[k.obj].owner = Owner(k)
          /\ status'[k.obj] = StatusAfter(chain[k.at]) /\ claimer[k.obj] = Nobody
    BY <1>6, <1>7, StatusAfterType DEF NotesInv, NamingMarked, Redeemed
  <2>2. \A k, j \in loads' : Naming(k)' /\ Naming(j)' /\ k.obj = j.obj => k = j
    BY <1>9 DEF NotesInv, NamingMarked
  <2> QED
    BY <1>4, <1>9, <2>1, <2>2 DEF NamingMarked, StatusAfter
<1>14. NamingFresh'
  BY <1>3, <1>9 DEF NamingFresh
<1> QED
  BY <1>11, <1>12, <1>13, <1>14 DEF NotesInv

LEMMA RedeemNamedStep ==
    ASSUME StateTypes, LoadsApart, NotesInv, Turn, NEW l \in loads, RedeemNamed(l)
    PROVE  NotesInv'
<1> DEFINE i == l.obj
           m == Past(l, i)
<1>1. l.at <= l.last /\ Naming(l) /\ chain[l.at].redeemer # Nobody /\ Handle(l) /\ ~Reset
  <2>1. Handle(l) /\ l.at <= l.last /\ Naming(l) /\ chain[l.at].redeemer # Nobody
    BY DEF RedeemNamed, AtRedeem, Handle, Naming
  <2>2. loads' # {}
    BY DEF RedeemNamed, Replace
  <2> QED
    BY <2>1, <2>2 DEF Reset
<1>2. l.at \in 1..Len(chain) /\ Owner(l) = chain[l.at].owner
  BY <1>1, AtChain DEF StateTypes
<1>3. Replace(l, m) /\ Advances(l, m) /\ m.at = l.at + 1 /\ ~m.naming /\ m.done = Append(l.done, i)
  BY <1>1, LoadType, PastFields DEF StateTypes, RedeemNamed
<1>4. taken' = taken /\ shown' = shown /\ status' = status
  BY DEF RedeemNamed
<1>5. \A k \in Index : Seen(k) => Seen(k)'
  BY <1>1, SeenKept
<1>6. /\ i \in Index /\ chain[i].owner = Owner(l)
      /\ status[i] = StatusAfter(chain[l.at]) /\ claimer[i] = Nobody
  BY <1>1 DEF NotesInv, NamingMarked
<1>7. claimer'[i] = chain[l.at].redeemer /\ \A k \in Index \ {i} : claimer'[k] = claimer[k]
  BY <1>6 DEF RedeemNamed, StateTypes, NoteTypes
<1>9. /\ loads' = (loads \ {l}) \cup {m} /\ chain' = chain /\ ~Naming(m)'
      /\ \A k \in loads' : Naming(k)' <=> k # m /\ k # l /\ Naming(k)
      /\ \A k \in loads' : Owner(k)' = Owner(k)
      /\ ~overlapped' => ~overlapped /\ loads' = {m}
  BY <1>1, <1>3, OtherLoads
<1> HIDE DEF m
<1>11. NotesSeen'
  <2>1. \A k \in Index : status[k] # "none" => Seen(k)' /\ chain[k].redeemer = Nobody
    BY <1>5 DEF NotesInv, NotesSeen
  <2>2. \A k \in loads' : \A n \in 1..Len(k.done) : status[k.done[n]] # "none"
    <3>1. \A k \in loads : \A n \in 1..Len(k.done) : status[k.done[n]] # "none"
      BY DEF NotesInv, NotesSeen
    <3>2. status[i] # "none"
      BY <1>6, StatusAfterType DEF Redeemed
    <3>3. l.done \in Seq(Index)
      BY LoadType DEF StateTypes
    <3>4. \A n \in 1..Len(m.done) : m.done[n] = i \/ (n \in 1..Len(l.done) /\ m.done[n] = l.done[n])
      BY <1>3, <1>6, <3>3, Appended
    <3> QED
      BY <1>9, <3>1, <3>2, <3>4
  <2> QED
    BY <1>4, <1>9, <2>1, <2>2 DEF NotesInv, NotesSeen
<1>12. OutcomesTrue'
  <2>1. ASSUME NEW k \in Index \ {i}
        PROVE  /\ claimer'[k] # Nobody => status[k] \in Redeemed
               /\ status[k] \in Redeemed =>
                    \E j \in 1..Len(chain) :
                      /\ chain[j].owner = chain[k].owner /\ chain[j].redeemer # Nobody
                      /\ status[k] = StatusAfter(chain[j])
                      /\ claimer'[k] \in {Nobody, chain[j].redeemer}
    BY <1>7 DEF NotesInv, OutcomesTrue
  <2>2. status[i] \in Redeemed
    BY <1>6, StatusAfterType
  <2>3. \E j \in 1..Len(chain) :
          /\ chain[j].owner = chain[i].owner /\ chain[j].redeemer # Nobody
          /\ status[i] = StatusAfter(chain[j])
          /\ claimer'[i] \in {Nobody, chain[j].redeemer}
    BY <1>1, <1>2, <1>6, <1>7
  <2> QED
    BY <1>4, <1>9, <2>1, <2>2, <2>3 DEF OutcomesTrue
<1>13. NamingMarked'
  <2>1. \A k \in loads : Naming(k) /\ k # l =>
          /\ k.obj \in Index /\ chain[k.obj].owner = Owner(k)
          /\ status[k.obj] = StatusAfter(chain[k.at]) /\ claimer'[k.obj] = Nobody
    BY <1>1, <1>7 DEF NotesInv, NamingMarked
  <2>2. \A k, j \in loads' : Naming(k)' /\ Naming(j)' /\ k.obj = j.obj => k = j
    BY <1>9 DEF NotesInv, NamingMarked
  <2> QED
    BY <1>4, <1>9, <2>1, <2>2 DEF NamingMarked, StatusAfter
<1>14. NamingFresh'
  BY <1>3, <1>9 DEF NamingFresh
<1> QED
  BY <1>11, <1>12, <1>13, <1>14 DEF NotesInv

LEMMA RedeemSeenStep ==
    ASSUME StateTypes, LoadsApart, NotesInv, Turn, NEW l \in loads, RedeemSeen(l)
    PROVE  NotesInv'
<1> DEFINE i == shown[Owner(l)]
           m == Waiting(l, i)
<1>1. l.at <= l.last /\ AtRedeem(l) /\ ~l.naming /\ Handle(l) /\ ~Reset
  <2>1. Handle(l) /\ l.at <= l.last /\ AtRedeem(l) /\ ~l.naming
    BY DEF RedeemSeen, AtRedeem, Handle
  <2>2. loads' # {}
    BY DEF RedeemSeen, Replace
  <2> QED
    BY <2>1, <2>2 DEF Reset
<1>2. l.at \in 1..Len(chain) /\ Owner(l) = chain[l.at].owner
  BY <1>1, AtChain DEF StateTypes
<1>3. Replace(l, m) /\ m.at = l.at /\ m.last = l.last /\ m.naming /\ m.obj = i /\ m.done = l.done
  BY <1>1, LoadType, WaitingFields DEF StateTypes, RedeemSeen, Advances
<1>4. /\ taken' = taken /\ shown' = shown /\ claimer' = claimer
      /\ loads' = (loads \ {l}) \cup {m} /\ chain' = chain
  BY DEF RedeemSeen, Replace, chainVars
<1>5. \A k \in Index : Seen(k) => Seen(k)'
  BY <1>1, SeenKept
<1>6. /\ i \in Index /\ status[i] = "confirmed" /\ claimer[i] = Nobody
      /\ i \in 1..Len(chain) /\ chain[i].owner = Owner(l)
  BY RedeemFacts
<1>7. status'[i] = StatusAfter(chain[l.at]) /\ \A k \in Index \ {i} : status'[k] = status[k]
  BY <1>6 DEF RedeemSeen, StateTypes, NoteTypes
<1>8. overlapped' = overlapped /\ (~overlapped => loads' = {m})
  <2>1. overlapped' = overlapped
    BY DEF RedeemSeen
  <2>2. ~overlapped => loads' = {m}
    BY <1>4 DEF LoadsApart
  <2> QED
    BY <2>1, <2>2
<1>9. \A k : /\ Naming(k)' <=> Naming(k)
             /\ Owner(k)' = Owner(k) /\ StatusAfter(chain[k.at])' = StatusAfter(chain[k.at])
  BY <1>4 DEF Naming, AtRedeem, Owner, StatusAfter
<1>10. Owner(m) = Owner(l) /\ chain[m.at] = chain[l.at]
  BY <1>3 DEF Owner
<1> HIDE DEF m
<1>11. NotesSeen'
  <2>1. \A k \in Index : status'[k] # "none" => status[k] # "none"
    BY <1>6, <1>7
  <2>2. \A k \in Index : status[k] # "none" => status'[k] # "none"
    BY <1>7, StatusAfterType DEF Redeemed
  <2>3. \A o \in Owners : shown[o] # 0 => status'[shown[o]] # "none" /\ chain[shown[o]].owner = o
    <3>1. ASSUME NEW o \in Owners, shown[o] # 0
          PROVE  status'[shown[o]] # "none" /\ chain[shown[o]].owner = o
      <4>1. shown[o] \in Index
        BY <3>1 DEF StateTypes, NoteTypes, Index
      <4> QED
        BY <2>2, <3>1, <4>1 DEF NotesInv, NotesSeen
    <3> QED
      BY <3>1
  <2>4. \A k \in loads' : \A n \in 1..Len(k.done) : status'[k.done[n]] # "none"
    <3>1. \A k \in loads : \A n \in 1..Len(k.done) :
            k.done[n] \in Index /\ status[k.done[n]] # "none"
      BY LoadType DEF StateTypes, NotesInv, NotesSeen
    <3> QED
      BY <1>3, <1>4, <2>2, <3>1
  <2> QED
    BY <1>4, <1>5, <2>1, <2>3, <2>4 DEF NotesInv, NotesSeen
<1>12. OutcomesTrue'
  <2>1. \E j \in 1..Len(chain) :
          /\ chain[j].owner = chain[i].owner /\ chain[j].redeemer # Nobody
          /\ status'[i] = StatusAfter(chain[j])
          /\ claimer[i] \in {Nobody, chain[j].redeemer}
    BY <1>1, <1>2, <1>6, <1>7 DEF AtRedeem
  <2>2. status'[i] \in Redeemed
    BY <1>7, StatusAfterType
  <2>3. \A k \in Index \ {i} :
          /\ claimer[k] # Nobody => status'[k] \in Redeemed
          /\ status'[k] \in Redeemed =>
               \E j \in 1..Len(chain) :
                 /\ chain[j].owner = chain[k].owner /\ chain[j].redeemer # Nobody
                 /\ status'[k] = StatusAfter(chain[j])
                 /\ claimer[k] \in {Nobody, chain[j].redeemer}
    BY <1>7 DEF NotesInv, OutcomesTrue
  <2> QED
    BY <1>4, <2>1, <2>2, <2>3 DEF OutcomesTrue
<1>13. NamingMarked'
  <2>1. \A k \in loads : Naming(k) => k.obj # i
    BY <1>6, StatusAfterType DEF NotesInv, NamingMarked, Redeemed
  <2>2. \A k \in loads' : Naming(k) =>
          /\ k.obj \in Index /\ chain[k.obj].owner = Owner(k)
          /\ status'[k.obj] = StatusAfter(chain[k.at]) /\ claimer[k.obj] = Nobody
    BY <1>3, <1>4, <1>6, <1>7, <1>10, <2>1 DEF NotesInv, NamingMarked
  <2>3. \A k, j \in loads' : Naming(k) /\ Naming(j) /\ k.obj = j.obj => k = j
    BY <1>3, <1>4, <2>1 DEF NotesInv, NamingMarked
  <2> QED
    BY <1>4, <1>9, <2>2, <2>3 DEF NamingMarked
<1>14. NamingFresh'
  <2>1. ~overlapped' => \A k \in loads' : ~AtCreate(k)'
    BY <1>1, <1>3, <1>4, <1>8 DEF AtCreate, AtRedeem
  <2> QED
    BY <2>1 DEF NamingFresh
<1> QED
  BY <1>11, <1>12, <1>13, <1>14 DEF NotesInv

LEMMA NotesInvStep ==
    ASSUME StateTypes, LoadsApart, NotesInv, Turn
    PROVE  NotesInv'
<1>1. CASE UNCHANGED <<indexVars, apiVars>> /\ ~Reset
  <2>1. loads' = loads
    BY <1>1 DEF apiVars
  <2>2. overlapped' = overlapped
    BY <1>1 DEF apiVars
  <2> QED
    BY <1>1, <2>1, <2>2, StillStep
<1>2. ASSUME NEW n \in Index, BeginLoad(n), ~Reset PROVE NotesInv'
  <2> DEFINE new == [at |-> taken + 1, last |-> n, naming |-> FALSE, obj |-> 0, done |-> <<>>]
  <2>1. UNCHANGED indexVars /\ loads' = loads \cup {new} /\ new.done = <<>> /\ ~new.naming
    BY <1>2 DEF BeginLoad
  <2>2. overlapped => overlapped'
    BY <1>2, Zenon DEF BeginLoad
  <2> HIDE DEF new
  <2> QED
    BY <1>2, <2>1, <2>2, StillStep
<1>3. ASSUME NEW l \in loads, HandlerThrows(l) \/ Create(l) \/ EndLoad(l), ~Reset PROVE NotesInv'
  <2>1. UNCHANGED indexVars /\ chain' = chain /\ l \in Load
    BY <1>3, LoadType DEF HandlerThrows, Create, EndLoad, chainVars, StateTypes
  <2>2. overlapped' = overlapped
    BY <1>3 DEF HandlerThrows, Create, EndLoad
  <2>3. CASE HandlerThrows(l)
    <3> DEFINE m == [l EXCEPT !.at = @ + 1]
    <3>1. ~l.naming /\ l.at <= l.last /\ loads' = (loads \ {l}) \cup {m}
      BY <2>3 DEF HandlerThrows, AtCreate, AtRedeem, Replace
    <3>2. m.done = l.done /\ ~m.naming
      BY <2>1, <3>1, SkipFields
    <3> HIDE DEF m
    <3> QED
      BY <1>3, <2>1, <2>2, <3>1, <3>2, StillStep
  <2>4. CASE Create(l)
    <3>1. PICK m : m = Waiting(l, 0)
      OBVIOUS
    <3>2. ~l.naming /\ Fresh(l) /\ l.at <= l.last /\ loads' = (loads \ {l}) \cup {m}
      BY <2>4, <3>1 DEF Create, Fresh, AtCreate, Replace
    <3>3. m.done = l.done /\ m.at = l.at /\ m.last = l.last
      BY <2>1, <3>1, <3>2, WaitingFields DEF Advances
    <3>4. AtCreate(m)' /\ Owner(m)' = Owner(l) /\ shown[Owner(l)] = 0
      BY <2>1, <3>2, <3>3 DEF AtCreate, Owner, Fresh
    <3> QED
      BY <1>3, <2>1, <2>2, <3>2, <3>3, <3>4, StillStep
  <2>5. CASE EndLoad(l)
    <3>1. loads' = loads \ {l}
      BY <2>5 DEF EndLoad
    <3> QED
      BY <1>3, <2>1, <2>2, <3>1, StillStep
  <2> QED
    BY <1>3, <2>3, <2>4, <2>5
<1>4. CASE Reset
  <2>1. /\ \A i \in Index : status'[i] = "none" /\ claimer'[i] = Nobody
        /\ \A o \in Owners : shown'[o] = 0
        /\ loads' = {}
    BY <1>4 DEF Reset
  <2>2. NotesSeen' /\ NamingMarked' /\ NamingFresh'
    BY <2>1 DEF NotesSeen, NamingMarked, NamingFresh
  <2>3. OutcomesTrue'
    BY <2>1 DEF OutcomesTrue, Redeemed
  <2> QED
    BY <2>2, <2>3 DEF NotesInv
<1> QED
  BY <1>1, <1>2, <1>3, <1>4, CreateNamedStep, RedeemSeenStep, RedeemNamedStep
  DEF Turn, Emits, Handle

LEMMA IndexInvSplit == IndexInv <=> LoadsApart /\ NotesInv
BY Zenon DEF IndexInv, NotesInv

-----------------------------------------------------------------------------
(* Outcomes stay *)

LEMMA OutcomeKeptStep ==
    ASSUME StateTypes, LoadsApart, NotesInv, Turn
    PROVE  OutcomeKept
<1> SUFFICES ASSUME NEW o \in Owners, taken' >= taken, shown[o] # 0
             PROVE  LET i == shown[o] IN
                    /\ overlapped \/ shown'[o] = i
                    /\ status[i] # "confirmed" => status'[i] = status[i]
                    /\ claimer[i] # Nobody => claimer'[i] = claimer[i]
  BY DEF OutcomeKept
<1> DEFINE i == shown[o]
<1>1. i \in Index /\ status[i] # "none" /\ Seen(i)
  BY DEF NotesInv, NotesSeen, StateTypes, NoteTypes, Index
<1>2. CASE UNCHANGED indexVars
  BY <1>2 DEF indexVars
<1>3. ASSUME NEW l \in loads, CreateNamed(l)
      PROVE  /\ overlapped \/ shown'[o] = i
             /\ status'[i] = status[i] /\ claimer' = claimer
  <2>1. l.at <= l.last /\ l.naming /\ AtCreate(l)
    BY <1>3 DEF CreateNamed, AtCreate
  <2>2. i # l.at
    BY <1>1, <2>1, AtSeen
  <2>3. status'[i] = status[i] /\ claimer' = claimer
    BY <1>1, <1>3, <2>2 DEF CreateNamed, StateTypes, NoteTypes
  <2>4. ~overlapped => shown'[o] = i
    <3>1. ~overlapped => shown[Owner(l)] = 0
      BY <2>1 DEF NotesInv, NamingFresh
    <3>2. o # Owner(l) => shown'[o] = shown[o]
      BY <1>3 DEF CreateNamed, StateTypes, NoteTypes
    <3> QED
      BY <3>1, <3>2
  <2> QED
    BY <2>3, <2>4
<1>4. ASSUME NEW l \in loads, RedeemSeen(l)
      PROVE  /\ shown' = shown /\ claimer' = claimer
             /\ status[i] # "confirmed" => status'[i] = status[i]
  <2>1. shown[Owner(l)] \in Index /\ status[shown[Owner(l)]] = "confirmed"
    BY <1>4, RedeemFacts
  <2> QED
    BY <1>1, <1>4, <2>1 DEF RedeemSeen, StateTypes, NoteTypes
<1>5. ASSUME NEW l \in loads, RedeemNamed(l)
      PROVE  /\ shown' = shown /\ status' = status
             /\ claimer[i] # Nobody => claimer'[i] = claimer[i]
  <2>1. l.obj \in Index /\ claimer[l.obj] = Nobody
    BY <1>5 DEF RedeemNamed, NotesInv, NamingMarked, Naming
  <2> QED
    BY <1>1, <1>5, <2>1 DEF RedeemNamed, StateTypes, NoteTypes
<1>6. ~Reset
  <2>1. Reset => taken = 0
    BY DEF Reset, StateTypes, LoadTypes
  <2> QED
    BY <1>1, <2>1 DEF Seen, Index
<1> QED
  BY <1>2, <1>3, <1>4, <1>5, <1>6
  DEF Turn, Emits, BeginLoad, Handle, HandlerThrows, Create, EndLoad

-----------------------------------------------------------------------------
(* What the index has been through *)

\* The handler of a log handles that log: a creation when its sender has been named, a
\* redemption when its claimer is about to be, and what it throws at, at once.
LEMMA HandledByHandler ==
    ASSUME StateTypes, LoadsApart, NEW l \in loads, NEW m, Replace(l, m), Advances(l, m),
           UNCHANGED <<chain, taken>>, NEW k \in Index
    PROVE  Handled(k)' <=> Handled(k) \/ (k = l.at /\ (m.at = l.at => AtRedeem(l)))
<1>0. /\ k \in Nat /\ l.at \in Nat /\ l.last \in Nat /\ l.at <= l.last /\ l.last <= taken /\ taken \in Nat
      /\ m.last = l.last /\ loads' = (loads \ {l}) \cup {m}
      /\ \/ m.at = l.at + 1 /\ ~m.naming
         \/ m.at = l.at /\ ~l.naming /\ m.naming
      /\ \A j \in loads : j.at \in Nat /\ j.last \in Nat
  BY LoadType DEF StateTypes, LoadTypes, LoadsApart, Index, Advances, Replace
<1>1. /\ (\A j : AtRedeem(j)' <=> AtRedeem(j))
      /\ m.at = l.at => (AtRedeem(m) <=> AtRedeem(l))
  BY <1>0 DEF AtRedeem
<1> DEFINE Free(j) == k \in j.at..j.last => k = j.at /\ AtRedeem(j) /\ j.naming
<1>2. Handled(k) <=> k <= taken /\ Free(l) /\ \A j \in loads \ {l} : Free(j)
  BY DEF Handled
<1>3. Handled(k)' <=> k <= taken /\ Free(m) /\ \A j \in loads \ {l} : Free(j)
  BY <1>0, <1>1 DEF Handled
<1>4. CASE k = l.at
  <2>1. k <= taken /\ \A j \in loads \ {l} : k \notin j.at..j.last
    BY <1>0, <1>4 DEF LoadsApart, Before
  <2>2. Free(m) <=> (m.at = l.at => AtRedeem(l))
    BY <1>0, <1>1, <1>4
  <2>3. Free(l) => (m.at = l.at => AtRedeem(l))
    BY <1>0, <1>4
  <2> QED
    BY <1>2, <1>3, <1>4, <2>1, <2>2, <2>3
<1>5. CASE k # l.at
  <2>1. Free(m) <=> Free(l)
    BY <1>0, <1>5
  <2> QED
    BY <1>2, <1>3, <1>5, <2>1
<1> QED
  BY <1>4, <1>5

\* Other steps handle nothing.
LEMMA HandledStill ==
    ASSUME StateTypes, LoadsApart, Turn, ~Reset, \A l \in loads : ~Handle(l), NEW k \in 1..Len(chain')
    PROVE  Handled(k)' <=> k \in 1..Len(chain) /\ Handled(k)
<1>0. /\ k \in Nat /\ taken \in Nat /\ Len(chain) \in Nat /\ taken <= Len(chain)
      /\ \A j \in loads : j.at \in Nat /\ j.last \in Nat /\ j.at <= j.last + 1 /\ j.last <= taken
      /\ \A i \in 1..Len(chain) : chain'[i] = chain[i]
  BY LoadType, ChainGrows DEF StateTypes, LoadTypes, LoadsApart, Index
<1>1. \A l \in loads : AtRedeem(l)' <=> AtRedeem(l)
  <2>1. \A l \in loads : l.at <= l.last => chain'[l.at] = chain[l.at]
    BY <1>0, AtChain DEF StateTypes
  <2> QED
    BY <2>1 DEF AtRedeem
<1>2. CASE loads' = loads /\ taken' = taken
  BY <1>0, <1>1, <1>2 DEF Handled
<1>3. ASSUME NEW n \in Index, BeginLoad(n) PROVE Handled(k)' <=> k \in 1..Len(chain) /\ Handled(k)
  <2> DEFINE new == [at |-> taken + 1, last |-> n, naming |-> FALSE, obj |-> 0, done |-> <<>>]
  <2>1. /\ taken' = n /\ n > taken /\ n \in Nat /\ loads' = loads \cup {new}
        /\ new.at = taken + 1 /\ new.last = n /\ ~new.naming
        /\ n <= Len(chain) /\ chain' = chain
    BY <1>0, <1>3 DEF BeginLoad, NewLogs, Index, chainVars
  <2> HIDE DEF new
  <2>2. CASE k <= taken
    BY <1>0, <1>1, <2>1, <2>2 DEF Handled
  <2>3. CASE k > taken
    BY <1>0, <1>1, <2>1, <2>3 DEF Handled
  <2> QED
    BY <1>0, <2>2, <2>3
<1>4. ASSUME NEW l \in loads, EndLoad(l) PROVE Handled(k)' <=> k \in 1..Len(chain) /\ Handled(k)
  <2>1. loads' = loads \ {l} /\ taken' = taken /\ chain' = chain /\ l.at > l.last
    BY <1>4 DEF EndLoad, chainVars
  <2> QED
    BY <1>0, <1>1, <2>1 DEF Handled
<1> QED
  BY <1>2, <1>3, <1>4 DEF Turn, Emits, apiVars

-----------------------------------------------------------------------------
(* An owner used once *)

\* Its note is redeemed at most once, by a log that repeats it.
OnlyRedeemed(o, i) ==
    \A j \in 1..Len(chain) : chain[j].owner = o /\ j # i =>
        /\ j > i /\ chain[j].redeemer # Nobody
        /\ chain[j].from = chain[i].from /\ chain[j].amount = chain[i].amount
        /\ \A k \in 1..Len(chain) : chain[k].owner = o /\ k # i => k = j

LEMMA UsedOnce ==
    ASSUME ContractTypes, ContractInv, NEW o, NEW i, Created(o) = {i}
    PROVE  /\ i \in 1..Len(chain) /\ chain[i].owner = o /\ chain[i].redeemer = Nobody
           /\ OnlyRedeemed(o, i)
<1>1. i \in 1..Len(chain) /\ chain[i].owner = o /\ chain[i].redeemer = Nobody
  BY DEF Created, OwnerLogs
<1>2. ASSUME NEW j \in 1..Len(chain), chain[j].owner = o, j # i
      PROVE  chain[j].redeemer # Nobody /\ i \in 1 .. j - 1 /\ Redeems(j, i)
  <2>1. chain[j].redeemer # Nobody
    BY <1>2 DEF Created, OwnerLogs
  <2>2. PICK c \in 1 .. j - 1 : Redeems(j, c)
    BY <2>1 DEF ContractInv, RedeemsOne
  <2>3. c \in Created(o)
    BY <1>2, <2>2 DEF Redeems, Created, OwnerLogs, ContractTypes
  <2> QED
    BY <2>1, <2>2, <2>3
<1>3. ASSUME NEW j \in 1..Len(chain), NEW k \in 1..Len(chain),
             chain[j].owner = o, j # i, chain[k].owner = o, k # i
      PROVE  k = j
  <2>1. Len(chain) \in Nat
    BY DEF ContractTypes
  <2>2. i \in 1..Len(chain) /\ i < j /\ i < k /\ Redeems(j, i) /\ Redeems(k, i)
    BY <1>1, <1>2, <1>3, <2>1
  <2>3. ~ (k < j) /\ ~ (j < k)
    BY <1>3, <2>1, <2>2 DEF Redeems
  <2> QED
    BY <2>1, <2>3
<1>4. \A j \in 1..Len(chain) : chain[j].owner = o /\ j # i => j > i
  BY <1>1, <1>2 DEF ContractTypes
<1> QED
  BY <1>1, <1>2, <1>3, <1>4 DEF Redeems, OnlyRedeemed

\* What IndexAgrees says of an owner used once.
Agrees(o, i) ==
    /\ shown[o] = IF Handled(i) THEN i ELSE 0
    /\ shown[o] = i =>
         /\ <<chain[i].from, o>> \in linked
         /\ \/ status[i] = "confirmed"
            \/ \E j \in 1..Len(chain) : chain[j].owner = o /\ j # i /\ Handled(j)
         /\ \A j \in 1..Len(chain) : chain[j].owner = o /\ j # i /\ Handled(j) =>
              /\ status[i] \in Redeemed
              /\ status[i] = "cancelled" <=> chain[j].redeemer = chain[i].from
              /\ claimer[i] \in {chain[j].redeemer, Nobody}

LEMMA IndexAgreesAs ==
    IndexAgrees <=> \A o \in Owners : \A i \in Created(o) :
                      ~overlapped /\ Created(o) = {i} => Agrees(o, i)
<1> SUFFICES ASSUME NEW o \in Owners, NEW i \in Created(o)
             PROVE  LET redeemed == {j \in OwnerLogs(o, Len(chain)) : j # i /\ Handled(j)} IN
                    Agrees(o, i) <=>
                      /\ shown[o] = IF Handled(i) THEN i ELSE 0
                      /\ shown[o] = i =>
                           /\ <<chain[i].from, o>> \in linked
                           /\ redeemed = {} => status[i] = "confirmed"
                           /\ \A j \in redeemed :
                                /\ status[i] \in {"claimed", "cancelled"}
                                /\ status[i] = "cancelled" <=> chain[j].redeemer = chain[i].from
                                /\ claimer[i] \in {chain[j].redeemer, Nobody}
  BY Zenon DEF IndexAgrees
<1> DEFINE redeemed == {j \in OwnerLogs(o, Len(chain)) : j # i /\ Handled(j)}
<1>1. \A j : j \in redeemed <=> j \in 1..Len(chain) /\ chain[j].owner = o /\ j # i /\ Handled(j)
  BY DEF OwnerLogs
<1>2. redeemed = {} <=> ~ \E j \in 1..Len(chain) : chain[j].owner = o /\ j # i /\ Handled(j)
  BY <1>1
<1> HIDE DEF redeemed
<1>3. Agrees(o, i) <=>
        /\ shown[o] = IF Handled(i) THEN i ELSE 0
        /\ shown[o] = i =>
             /\ <<chain[i].from, o>> \in linked
             /\ redeemed = {} => status[i] = "confirmed"
             /\ \A j \in redeemed :
                  /\ status[i] \in {"claimed", "cancelled"}
                  /\ status[i] = "cancelled" <=> chain[j].redeemer = chain[i].from
                  /\ claimer[i] \in {chain[j].redeemer, Nobody}
  BY <1>1, <1>2 DEF Agrees, Redeemed
<1> QED
  BY <1>3 DEF redeemed

\* A step that is no handler's keeps what is said of owners used once.
LEMMA AgreesStill ==
    ASSUME StateTypes, ContractInv, LoadsApart, NotesInv, IndexAgrees, Turn, ~Reset,
           \A l \in loads : ~Handle(l), UNCHANGED indexVars,
           ContractTypes', ContractInv', ~overlapped' => ~overlapped,
           NEW o \in Owners, NEW i \in Created(o)', ~overlapped', Created(o)' = {i}
    PROVE  Agrees(o, i)'
<1>0. /\ \A k \in 1..Len(chain) : k \in 1..Len(chain') /\ chain'[k] = chain[k]
      /\ \A k \in 1..Len(chain') : Handled(k)' <=> k \in 1..Len(chain) /\ Handled(k)
  BY ChainGrows, HandledStill DEF StateTypes
<1>1. shown' = shown /\ status' = status /\ claimer' = claimer /\ linked' = linked
  BY DEF indexVars
<1>2. i \in 1..Len(chain') /\ chain'[i].owner = o /\ chain'[i].redeemer = Nobody
  BY DEF Created, OwnerLogs
<1>3. CASE i \in 1..Len(chain)
  <2>1. i \in Created(o)
    BY <1>0, <1>2, <1>3 DEF Created, OwnerLogs
  <2>2. \A k \in Created(o) : k = i
    <3>1. \A k \in Created(o) : k \in Created(o)'
      BY <1>0 DEF Created, OwnerLogs
    <3> QED
      BY <3>1
  <2>3. Created(o) = {i}
    BY <2>1, <2>2
  <2>4. Agrees(o, i)
    BY <2>1, <2>3, IndexAgreesAs
  <2>5. shown'[o] = IF Handled(i)' THEN i ELSE 0
    BY <1>0, <1>1, <1>3, <2>4 DEF Agrees
  <2>6. ASSUME shown'[o] = i
        PROVE  /\ <<chain'[i].from, o>> \in linked'
               /\ \/ status'[i] = "confirmed"
                  \/ \E j \in 1..Len(chain') : chain'[j].owner = o /\ j # i /\ Handled(j)'
               /\ \A j \in 1..Len(chain') : chain'[j].owner = o /\ j # i /\ Handled(j)' =>
                    /\ status'[i] \in Redeemed
                    /\ status'[i] = "cancelled" <=> chain'[j].redeemer = chain'[i].from
                    /\ claimer'[i] \in {chain'[j].redeemer, Nobody}
    BY <1>0, <1>1, <1>3, <2>4, <2>6 DEF Agrees
  <2> QED
    BY <2>5, <2>6 DEF Agrees
<1>4. CASE i \notin 1..Len(chain)
  <2>1. shown[o] = 0
    <3>1. SUFFICES ASSUME shown[o] # 0 PROVE FALSE
      OBVIOUS
    <3> DEFINE k == shown[o]
    <3>2. k \in Index /\ Seen(k) /\ chain[k].redeemer = Nobody /\ chain[k].owner = o
      BY <3>1 DEF NotesInv, NotesSeen, StateTypes, NoteTypes, Index
    <3>3. k \in 1..Len(chain)
      BY <3>2 DEF Seen, StateTypes, LoadTypes, ContractTypes, Index
    <3>4. PICK c : c = k
      OBVIOUS
    <3>5. c \in Created(o)'
      BY <1>0, <3>2, <3>3, <3>4 DEF Created, OwnerLogs
    <3> QED
      BY <1>4, <3>3, <3>4, <3>5
  <2>2. ~Handled(i)' /\ i # 0
    BY <1>0, <1>2, <1>4
  <2> QED
    BY <1>1, <2>1, <2>2 DEF Agrees
<1> QED
  BY <1>3, <1>4

\* What a handler may assume of an owner used once.
LEMMA AgreesBefore ==
    ASSUME StateTypes, ContractInv, LoadsApart, NotesInv, IndexAgrees, NEW l \in loads, ~overlapped,
           l.at <= l.last, NEW o \in Owners, NEW i \in Created(o), Created(o) = {i}
    PROVE  /\ Agrees(o, i) /\ i \in Index /\ i \in 1..Len(chain)
           /\ l.at \in 1..Len(chain) /\ Owner(l) \in Owners
           /\ Handled(l.at) <=> AtRedeem(l) /\ l.naming
           /\ \A k \in Index : k > l.at => ~Handled(k)
           /\ \A k \in Index : k < l.at => Handled(k)
           /\ AtCreate(l) /\ Owner(l) = o => l.at = i
           /\ AtRedeem(l) /\ Owner(l) = o => l.at > i
<1>1. Agrees(o, i)
  BY IndexAgreesAs
<1>2. loads = {l} /\ l.last = taken
  BY DEF LoadsApart
<1>3. l.at \in Nat /\ l.last \in Nat /\ l.at \in 1..Len(chain) /\ Owner(l) \in Owners
      /\ Owner(l) = chain[l.at].owner
  BY LoadType, AtChain DEF StateTypes, Index
<1>4. i \in 1..Len(chain) /\ i \in Index /\ chain[i].owner = o /\ chain[i].redeemer = Nobody
  BY UsedOnce, LogType DEF StateTypes
<1>5. \A k \in Index : Handled(k) <=> k <= l.last /\ (k >= l.at => k = l.at /\ AtRedeem(l) /\ l.naming)
  <2>1. \A k \in Index : k \in Nat
    BY DEF Index
  <2> QED
    BY <1>2, <1>3, <2>1 DEF Handled
<1>6. AtCreate(l) /\ Owner(l) = o => l.at = i
  BY <1>3 DEF AtCreate, Created, OwnerLogs
<1>7. AtRedeem(l) /\ Owner(l) = o => l.at > i
  <2>1. ContractTypes
    BY DEF StateTypes
  <2>2. \A j \in 1..Len(chain) : chain[j].owner = o /\ j # i => j > i
    BY <2>1, UsedOnce DEF OnlyRedeemed
  <2> QED
    BY <1>3, <1>4, <2>2 DEF AtRedeem
<1>8. l.at \in Index /\ \A k \in Index : k \in Nat
  BY <1>3, LogType DEF StateTypes, Index
<1>9. /\ Handled(l.at) <=> AtRedeem(l) /\ l.naming
      /\ \A k \in Index : k > l.at => ~Handled(k)
      /\ \A k \in Index : k < l.at => Handled(k)
  BY <1>3, <1>5, <1>8
<1> QED
  BY <1>1, <1>3, <1>4, <1>6, <1>7, <1>9, Zenon

LEMMA AgreesSame ==
    ASSUME NEW o, NEW i \in 1..Len(chain), chain[i].owner = o, Agrees(o, i), chain' = chain,
           shown'[o] = shown[o], linked \subseteq linked',
           shown[o] = i => status'[i] = status[i] /\ claimer'[i] = claimer[i],
           \A k \in 1..Len(chain) : chain[k].owner = o => (Handled(k)' <=> Handled(k))
    PROVE  Agrees(o, i)'
BY DEF Agrees

\* A handler whose log is of another owner.
LEMMA AgreesOther ==
    ASSUME StateTypes, ContractInv, LoadsApart, NotesInv, IndexAgrees, NEW l \in loads, Handle(l),
           ~overlapped, NEW o \in Owners, NEW i \in Created(o), Created(o) = {i}, Owner(l) # o
    PROVE  Agrees(o, i)'
<1>1. PICK m : Replace(l, m) /\ Advances(l, m)
  BY HandleMoves DEF StateTypes
<1>2. UNCHANGED <<chain, taken>> /\ l.at <= l.last
  BY HandleMoves DEF StateTypes, chainVars
<1>3. Agrees(o, i) /\ i \in 1..Len(chain) /\ i \in Index /\ l.at \in 1..Len(chain) /\ Owner(l) \in Owners
  BY <1>2, AgreesBefore
<1>4. chain[i].owner = o /\ Owner(l) = chain[l.at].owner /\ i # l.at
  BY <1>2, <1>3 DEF Created, OwnerLogs, Owner
<1>5. \A k \in 1..Len(chain) : chain[k].owner = o => (Handled(k)' <=> Handled(k))
  <2>1. \A k \in 1..Len(chain) : k \in Index
    BY LogType DEF StateTypes
  <2> QED
    BY <1>1, <1>2, <1>4, <2>1, HandledByHandler
<1>6. CASE UNCHANGED indexVars
  BY <1>2, <1>3, <1>4, <1>5, <1>6, AgreesSame DEF indexVars
<1>7. CASE CreateNamed(l)
  <2>1. shown'[o] = shown[o] /\ status'[i] = status[i] /\ claimer' = claimer /\ linked \subseteq linked'
    BY <1>3, <1>4, <1>7 DEF CreateNamed, StateTypes, NoteTypes
  <2> QED
    BY <1>2, <1>3, <1>4, <1>5, <2>1, AgreesSame
<1>8. CASE RedeemSeen(l)
  <2>1. shown[Owner(l)] \in Index /\ chain[shown[Owner(l)]].owner = Owner(l)
    BY <1>8, RedeemFacts
  <2>2. shown' = shown /\ status'[i] = status[i] /\ claimer' = claimer /\ linked' = linked
    BY <1>3, <1>4, <1>8, <2>1 DEF RedeemSeen, StateTypes, NoteTypes
  <2> QED
    BY <1>2, <1>3, <1>4, <1>5, <2>2, AgreesSame
<1>9. CASE RedeemNamed(l)
  <2>1. l.obj \in Index /\ chain[l.obj].owner = Owner(l)
    BY <1>9 DEF RedeemNamed, NotesInv, NamingMarked, Naming
  <2>2. shown' = shown /\ status' = status /\ claimer'[i] = claimer[i] /\ linked' = linked
    BY <1>3, <1>4, <1>9, <2>1 DEF RedeemNamed, StateTypes, NoteTypes
  <2> QED
    BY <1>2, <1>3, <1>4, <1>5, <2>2, AgreesSame
<1> QED
  BY <1>6, <1>7, <1>8, <1>9 DEF Handle, HandlerThrows, Create

\* A handler whose log is of the owner.
LEMMA AgreesOwn ==
    ASSUME StateTypes, ContractInv, LoadsApart, NotesInv, IndexAgrees, NEW l \in loads, Handle(l),
           ~overlapped, NEW o \in Owners, NEW i \in Created(o), Created(o) = {i}, Owner(l) = o
    PROVE  Agrees(o, i)'
<1>1. PICK m : Replace(l, m) /\ Advances(l, m)
  BY HandleMoves DEF StateTypes
<1>2. UNCHANGED <<chain, taken>> /\ l.at <= l.last
  BY HandleMoves DEF StateTypes, chainVars
<1>3. /\ Agrees(o, i) /\ i \in Index /\ i \in 1..Len(chain)
      /\ l.at \in 1..Len(chain) /\ l.at \in Index
      /\ Handled(l.at) <=> AtRedeem(l) /\ l.naming
      /\ \A k \in Index : k > l.at => ~Handled(k)
      /\ \A k \in Index : k < l.at => Handled(k)
      /\ AtCreate(l) => l.at = i
      /\ AtRedeem(l) => l.at > i
  BY <1>2, AgreesBefore, LogType DEF StateTypes
<1>4. /\ chain[i].owner = o /\ chain[l.at].owner = o /\ i # 0
      /\ \A j \in 1..Len(chain) : chain[j].owner = o /\ j # i =>
           /\ j > i /\ chain[j].redeemer # Nobody
           /\ chain[j].from = chain[i].from /\ chain[j].amount = chain[i].amount
           /\ \A k \in 1..Len(chain) : chain[k].owner = o /\ k # i => k = j
  <2>1. ContractTypes
    BY DEF StateTypes
  <2>2. chain[l.at].owner = o /\ i # 0
    BY <1>3 DEF Owner, Index
  <2>3. chain[i].owner = o /\ OnlyRedeemed(o, i)
    BY <2>1, UsedOnce
  <2> QED
    BY <2>2, <2>3 DEF OnlyRedeemed
<1>5. \A k \in 1..Len(chain) : /\ k \in Index
                               /\ Handled(k)' <=> Handled(k) \/ (k = l.at /\ (m.at = l.at => AtRedeem(l)))
  BY <1>1, <1>2, HandledByHandler, LogType DEF StateTypes
<1>6. l \in Load
  BY LoadType DEF StateTypes
<1>7. \A k \in 1..Len(chain) : chain[k].owner = o /\ k # i /\ k # l.at /\ AtRedeem(l) => FALSE
  BY <1>3, <1>4 DEF AtRedeem
<1>8. ~HandlerThrows(l)
  <2>1. SUFFICES ASSUME HandlerThrows(l) PROVE FALSE
    OBVIOUS
  <2>2. ~l.naming
    BY <2>1 DEF HandlerThrows
  <2>3. CASE AtCreate(l) /\ ~Fresh(l)
    <3>1. ~Handled(i) /\ shown[o] # 0
      BY <1>3, <2>2, <2>3 DEF Fresh
    <3> QED
      BY <1>3, <3>1 DEF Agrees
  <2>4. CASE AtRedeem(l) /\ ~Accepts(l)
    <3>1. Handled(i) /\ ~Handled(l.at) /\ l.at # i
      BY <1>3, <2>2, <2>4
    <3>2. shown[o] = i /\ status[i] = "confirmed"
      BY <1>3, <1>7, <2>4, <3>1 DEF Agrees
    <3>3. chain[i].amount = chain[l.at].amount
      BY <1>3, <1>4, <3>1
    <3> QED
      BY <1>4, <2>4, <3>2, <3>3 DEF Accepts
  <2> QED
    BY <2>1, <2>3, <2>4 DEF HandlerThrows
<1>9. CASE Create(l)
  <2>1. AtCreate(l) /\ ~l.naming /\ Replace(l, Waiting(l, 0)) /\ UNCHANGED indexVars
    BY <1>9 DEF Create, Fresh
  <2>2. ~AtRedeem(l)
    BY <2>1 DEF AtCreate, AtRedeem
  <2>3. PICK w : w = Waiting(l, 0)
    OBVIOUS
  <2>4. Advances(l, w) /\ w.at = l.at
    BY <1>2, <1>6, <2>1, <2>3, WaitingFields
  <2>5. \A k \in 1..Len(chain) : Handled(k)' <=> Handled(k)
    BY <1>2, <1>5, <2>1, <2>2, <2>3, <2>4, HandledByHandler
  <2> QED
    BY <1>2, <1>3, <1>4, <2>1, <2>5, AgreesSame DEF indexVars
<1>10. CASE CreateNamed(l)
  <2>1. AtCreate(l) /\ l.at = i /\ ~AtRedeem(l)
    BY <1>3, <1>10 DEF CreateNamed, AtCreate, AtRedeem
  <2>2. PICK w : w = Past(l, l.at)
    OBVIOUS
  <2>3. Replace(l, w) /\ Advances(l, w) /\ w.at = l.at + 1
    BY <1>2, <1>6, <1>10, <2>2, PastFields DEF CreateNamed
  <2>4. Handled(i)' /\ \A j \in 1..Len(chain) : chain[j].owner = o /\ j # i => ~Handled(j)'
    <3>1. \A k \in 1..Len(chain) : Handled(k)' <=> Handled(k) \/ k = l.at
      BY <1>2, <1>3, <1>5, <2>3, HandledByHandler DEF Index
    <3>2. \A j \in 1..Len(chain) : chain[j].owner = o /\ j # i => j \in Index /\ ~Handled(j)
      BY <1>3, <1>4, <1>5, <2>1
    <3> QED
      BY <1>3, <2>1, <3>1, <3>2
  <2>5. shown'[o] = i /\ status'[i] = "confirmed" /\ linked' = linked \cup {<<chain[i].from, o>>}
    BY <1>3, <1>10, <2>1 DEF CreateNamed, StateTypes, NoteTypes
  <2> QED
    BY <1>2, <2>4, <2>5 DEF Agrees
<1>11. CASE RedeemSeen(l)
  <2>1. AtRedeem(l) /\ ~l.naming /\ shown[o] # 0 /\ status[shown[o]] = "confirmed" /\ l.at # i
    BY <1>3, <1>11 DEF RedeemSeen, Accepts
  <2>2. shown[o] = i /\ Handled(i) /\ claimer[i] = Nobody
    BY <1>3, <1>11, <2>1, RedeemFacts DEF Agrees
  <2>3. Handled(i)' /\ Handled(l.at)'
    BY <1>3, <1>5, <2>1, <2>2
  <2>4. status'[i] = StatusAfter(chain[l.at])
    BY <1>3, <1>11, <2>2 DEF RedeemSeen, StateTypes, NoteTypes
  <2>5. shown' = shown /\ claimer' = claimer /\ linked' = linked
    BY <1>11 DEF RedeemSeen
  <2>6. chain[l.at].from = chain[i].from
    BY <1>3, <1>4, <2>1
  <2>7. status'[i] \in Redeemed /\ (status'[i] = "cancelled" <=> chain[l.at].redeemer = chain[i].from)
    BY <2>4, <2>6 DEF StatusAfter, Redeemed
  <2>8. <<chain[i].from, o>> \in linked
    BY <1>3, <2>2 DEF Agrees
  <2>9. \A j \in 1..Len(chain) : chain[j].owner = o /\ j # i => j = l.at
    BY <1>7, <2>1
  <2> QED
    BY <1>2, <1>3, <1>4, <2>1, <2>2, <2>3, <2>5, <2>7, <2>8, <2>9 DEF Agrees
<1>12. CASE RedeemNamed(l)
  <2>1. AtRedeem(l) /\ l.naming /\ l.at # i /\ Handled(l.at)
    BY <1>3, <1>12 DEF RedeemNamed
  <2>2. \A k \in 1..Len(chain) : Handled(k)' <=> Handled(k)
    BY <1>5, <2>1
  <2>3. l.obj \in Index
    BY <1>12 DEF RedeemNamed, NotesInv, NamingMarked, Naming
  <2>4. claimer'[i] \in {claimer[i], chain[l.at].redeemer}
    BY <1>3, <1>12, <2>3 DEF RedeemNamed, StateTypes, NoteTypes
  <2>5. shown' = shown /\ status' = status /\ linked' = linked
    BY <1>12 DEF RedeemNamed
  <2>6. \A j \in 1..Len(chain) : chain[j].owner = o /\ j # i => j = l.at
    BY <1>7, <2>1
  <2>7. shown[o] = i => claimer'[i] \in {chain[l.at].redeemer, Nobody}
    BY <1>3, <1>4, <2>1, <2>4 DEF Agrees
  <2>8. shown'[o] = IF Handled(i)' THEN i ELSE 0
    BY <1>3, <2>2, <2>5 DEF Agrees
  <2>9. ASSUME shown'[o] = i
        PROVE  /\ <<chain[i].from, o>> \in linked'
               /\ \/ status'[i] = "confirmed"
                  \/ \E j \in 1..Len(chain) : chain[j].owner = o /\ j # i /\ Handled(j)'
               /\ \A j \in 1..Len(chain) : chain[j].owner = o /\ j # i /\ Handled(j)' =>
                    /\ status'[i] \in Redeemed
                    /\ status'[i] = "cancelled" <=> chain[j].redeemer = chain[i].from
                    /\ claimer'[i] \in {chain[j].redeemer, Nobody}
    BY <1>3, <2>2, <2>5, <2>6, <2>7, <2>9 DEF Agrees
  <2> QED
    BY <1>2, <2>8, <2>9 DEF Agrees
<1> QED
  BY <1>8, <1>9, <1>10, <1>11, <1>12 DEF Handle

LEMMA IndexAgreesStep ==
    ASSUME StateTypes, ContractInv, LoadsApart, NotesInv, IndexAgrees, Turn,
           ContractTypes', ContractInv'
    PROVE  IndexAgrees'
<1> SUFFICES ASSUME NEW o \in Owners, NEW i \in Created(o)', ~overlapped', Created(o)' = {i}
             PROVE  Agrees(o, i)'
  <2>1. (IndexAgrees <=> \A o \in Owners : \A i \in Created(o) :
                            ~overlapped /\ Created(o) = {i} => Agrees(o, i))'
    BY IndexAgreesAs, PTL
  <2> QED
    BY <2>1, Zenon
<1>1. CASE Reset
  <2>1. shown'[o] = 0 /\ taken' = 0 /\ i # 0
    BY <1>1 DEF Reset, Created, OwnerLogs
  <2>2. ~Handled(i)'
    <3>1. i \in Nat \ {0}
      BY DEF Created, OwnerLogs, ContractTypes
    <3> QED
      BY <2>1, <3>1 DEF Handled
  <2> QED
    BY <2>1, <2>2 DEF Agrees
<1>2. ASSUME NEW l \in loads, Handle(l) PROVE Agrees(o, i)'
  <2>1. chain' = chain /\ overlapped' = overlapped
    BY <1>2, HandleMoves DEF StateTypes, chainVars
  <2>2. Created(o)' = Created(o)
    BY <2>1 DEF Created, OwnerLogs
  <2>3. ~overlapped
    BY <2>1
  <2> QED
    BY <1>2, <2>2, <2>3, AgreesOther, AgreesOwn
<1>3. CASE ~Reset /\ \A l \in loads : ~Handle(l)
  <2>1. UNCHANGED indexVars
    BY <1>3 DEF Turn, Emits, BeginLoad, EndLoad
  <2>2. ~overlapped' => ~overlapped
    <3>1. ASSUME NEW n \in Index, BeginLoad(n) PROVE ~overlapped' => ~overlapped
      BY <3>1, Zenon DEF BeginLoad
    <3>2. CASE overlapped' = overlapped
      BY <3>2
    <3> QED
      BY <1>3, <3>1, <3>2 DEF Turn, Emits, EndLoad, apiVars
  <2> QED
    BY <1>3, <2>1, <2>2, AgreesStill
<1> QED
  BY <1>1, <1>2, <1>3

-----------------------------------------------------------------------------
(* Push notifications *)

\* A message about a note names its owner; only a message of welcome names none.
LEMMA MessageType ==
    ASSUME NEW m \in Message
    PROVE  /\ m.to \in Accounts
           /\ m.kind # "welcome" =>
                m.owner \in Owners /\ m.kind \in {"confirmed", "claimed", "cancelled"}
BY DEF Message

LEMMA WelcomeType ==
    ASSUME NEW a \in Accounts
    PROVE  LET m == [to |-> a, kind |-> "welcome"]
           IN  m \in Message /\ m.to = a /\ m.kind = "welcome"
BY DEF Message

LEMMA PushesType ==
    ASSUME NEW l, l.done \in Seq(Index), NEW m
    PROVE  /\ Pushes(l, m) \in Nat
           /\ Pushes(l, m) > 0 => \E k \in 1..Len(l.done) : m \in PushesOf(l.done[k])
<1> DEFINE ks == {k \in 1..Len(l.done) : m \in PushesOf(l.done[k])}
<1>1. IsFiniteSet(1..Len(l.done))
  BY FS_Interval
<1>2. IsFiniteSet(ks)
  BY <1>1, FS_Subset
<1>3. Cardinality(ks) \in Nat
  BY <1>2, FS_CardinalityType
<1>4. ks = {} => Cardinality(ks) = 0
  BY FS_EmptySet
<1> QED
  BY <1>3, <1>4 DEF Pushes

\* Every message goes to an account with a token.
LEMMA PushesOfTo ==
    ASSUME NEW i, NEW m, m \in PushesOf(i)
    PROVE  /\ m.to \in tokens /\ m.kind = status[i] /\ m.owner = chain[i].owner
           /\ \/ m.to = chain[i].from
              \/ status[i] = "claimed" /\ m.to = claimer[i]
BY DEF PushesOf, PushTo

LEMMA PushTypesStep ==
    ASSUME TypeOK, PushTypeOK, HeldIsLast, [AllNext]_allVars
    PROVE  PushTypeOK'
<1> USE DEF PushTypeOK
<1>1. CASE UNCHANGED pushVars
  BY <1>1 DEF pushVars
<1>2. ASSUME NEW l \in loads, EndAndNotify(l) PROVE PushTypeOK'
  <2>1. \A m \in Message : queue'[m] \in Nat /\ (queue'[m] > 0 => m.to \in Phones)
    <3>1. l.done \in Seq(Index)
      BY LoadType, TypesSplit
    <3>2. SUFFICES ASSUME NEW m \in Message PROVE queue'[m] \in Nat /\ (queue'[m] > 0 => m.to \in Phones)
      OBVIOUS
    <3>3. queue'[m] = queue[m] \/ queue'[m] = queue[m] + Pushes(l, m)
      BY <1>2 DEF EndAndNotify
    <3>4. Pushes(l, m) \in Nat /\ (Pushes(l, m) > 0 => m.to \in Phones)
      BY <3>1, PushesType, PushesOfTo
    <3> QED
      BY <3>3, <3>4
  <2>2. queue' \in [Message -> Nat]
    <3>1. queue' = [m \in Message |-> queue'[m]]
      BY <1>2 DEF EndAndNotify
    <3> QED
      BY <2>1, <3>1
  <2> QED
    BY <1>2, <2>1, <2>2 DEF EndAndNotify
<1>3. CASE Forget
  BY <1>3 DEF Forget
<1>4. CASE Listen \/ LoadTokens
  BY <1>4 DEF Listen, LoadTokens
<1>5. ASSUME NEW m \in Message, Push(m) PROVE PushTypeOK'
  BY <1>5 DEF Push
<1>6. ASSUME NEW a \in Phones, Register(a) PROVE PushTypeOK'
  <2>1. PICK m : m = [to |-> a, kind |-> "welcome"]
    OBVIOUS
  <2>2. m \in Message /\ m.to = a
    BY <2>1, WelcomeType
  <2>3. queue' = [queue EXCEPT ![m] = @ + 1]
    BY <1>6, <2>1 DEF Register
  <2> QED
    BY <1>6, <2>2, <2>3 DEF Register
<1>7. ASSUME NEW a \in Phones, SaveToken(a) PROVE PushTypeOK'
  BY <1>7 DEF SaveToken
<1> QED
  BY <1>1, <1>2, <1>3, <1>4, <1>5, <1>6, <1>7 DEF AllNext, allVars, EndAndCrash

\* What has happened has happened for good.
LEMMA HappenedKept ==
    ASSUME ContractTypes, Turn, NEW m \in Message, m.kind # "welcome", Happened(m)
    PROVE  Happened(m)'
<1>1. \A k \in 1..Len(chain) : k \in 1..Len(chain') /\ chain'[k] = chain[k]
  BY ChainGrows
<1>2. PICK logs, more : /\ logs = {chain[i] : i \in OwnerLogs(m.owner, Len(chain))}
                        /\ more = {chain'[i] : i \in OwnerLogs(m.owner, Len(chain))'}
  OBVIOUS
<1>3. logs \subseteq more
  BY <1>1, <1>2 DEF OwnerLogs
<1>4. CASE m.kind = "confirmed"
  BY <1>2, <1>3, <1>4 DEF Happened
<1>5. CASE m.kind = "claimed"
  <2>1. PICK c \in logs : /\ c.redeemer # Nobody /\ c.redeemer # c.from
                          /\ (\E d \in logs : d.from = m.to) \/ c.redeemer = m.to
    BY <1>2, <1>5 DEF Happened
  <2>2. c \in more /\ ((\E d \in more : d.from = m.to) \/ c.redeemer = m.to)
    BY <1>3, <2>1
  <2> QED
    BY <1>2, <1>5, <2>1, <2>2 DEF Happened
<1>6. CASE m.kind = "cancelled"
  BY <1>2, <1>3, <1>6 DEF Happened
<1> QED
  BY <1>4, <1>5, <1>6, MessageType

\* A message made for note i tells what has happened.
LEMMA PushesHappened ==
    ASSUME StateTypes, NotesInv, tokens \subseteq Phones,
           NEW i \in Index, status[i] # "none", NEW m \in Message, m \in PushesOf(i)
    PROVE  Happened(m)
<1>1. /\ m.to \in tokens /\ m.kind = status[i] /\ m.owner = chain[i].owner
      /\ \/ m.to = chain[i].from
         \/ status[i] = "claimed" /\ m.to = claimer[i]
  BY PushesOfTo
<1>2. m.to # Nobody
  BY <1>1
<1>3. i \in 1..Len(chain)
  BY DEF NotesInv, NotesSeen, Seen, StateTypes, LoadTypes, ContractTypes, Index
<1> DEFINE logs == {chain[k] : k \in OwnerLogs(m.owner, Len(chain))}
           sender == \E c \in logs : c.from = m.to
<1>4. chain[i] \in logs
  BY <1>1, <1>3 DEF OwnerLogs
<1>5. CASE status[i] = "confirmed"
  BY <1>1, <1>4, <1>5 DEF Happened
<1>6. CASE status[i] \in Redeemed
  <2>1. PICK j \in 1..Len(chain) :
          /\ chain[j].owner = chain[i].owner /\ chain[j].redeemer # Nobody
          /\ status[i] = StatusAfter(chain[j])
          /\ claimer[i] \in {Nobody, chain[j].redeemer}
    BY <1>6 DEF NotesInv, OutcomesTrue
  <2>2. chain[j] \in logs
    BY <1>1, <2>1 DEF OwnerLogs
  <2>3. CASE status[i] = "claimed"
    <3>1. chain[j].redeemer # chain[j].from
      BY <2>1, <2>3 DEF StatusAfter
    <3>2. sender \/ chain[j].redeemer = m.to
      BY <1>1, <1>2, <1>4, <2>1
    <3> QED
      BY <1>1, <2>1, <2>2, <2>3, <3>1, <3>2 DEF Happened
  <2>4. CASE status[i] = "cancelled"
    <3>1. chain[j].redeemer = chain[j].from
      BY <2>1, <2>4 DEF StatusAfter
    <3> QED
      BY <1>1, <2>1, <2>2, <2>4, <3>1 DEF Happened
  <2> QED
    BY <1>6, <2>3, <2>4 DEF Redeemed
<1>7. status[i] \in {"none", "confirmed"} \cup Redeemed
  BY DEF StateTypes, NoteTypes, Status, Redeemed
<1> QED
  BY <1>5, <1>6, <1>7

LEMMA MessagesTrueStep ==
    ASSUME TypeOK, PushTypeOK, HeldIsLast, NotesInv, MessagesTrue, [AllNext]_allVars
    PROVE  MessagesTrue'
<1>0. StateTypes /\ Turn /\ ContractTypes
  BY TypesSplit, EveryTurn DEF StateTypes
<1> SUFFICES ASSUME NEW m \in Message
             PROVE  /\ told'[m] > 0 => m \in rows'
                    /\ told'[m] <= 1
                    /\ (queue'[m] > 0 \/ told'[m] > 0) /\ m.kind # "welcome" => Happened(m)'
  BY Zenon DEF MessagesTrue
<1>1. /\ told[m] \in Nat /\ queue[m] \in Nat
      /\ told[m] > 0 => m \in rows
      /\ told[m] <= 1
      /\ (queue[m] > 0 \/ told[m] > 0) /\ m.kind # "welcome" => Happened(m)
  BY DEF MessagesTrue, PushTypeOK
<1>2. m.kind # "welcome" /\ Happened(m) => Happened(m)'
  BY <1>0, HappenedKept
<1>3. CASE rows' = rows /\ told' = told /\ (queue'[m] > queue[m] /\ m.kind # "welcome" => Happened(m))
           /\ queue'[m] \in Nat
  BY <1>1, <1>2, <1>3
<1>4. CASE UNCHANGED pushVars
  BY <1>1, <1>3, <1>4 DEF pushVars
<1>5. ASSUME NEW l \in loads, EndAndNotify(l)
      PROVE  /\ rows' = rows /\ told' = told /\ queue'[m] \in Nat
             /\ queue'[m] > queue[m] => Happened(m)
  <2>1. /\ l.done \in Seq(Index)
        /\ \A k \in 1..Len(l.done) : l.done[k] \in Index /\ status[l.done[k]] # "none"
    BY <1>0, LoadType DEF StateTypes, NotesInv, NotesSeen
  <2>2. queue'[m] = queue[m] \/ queue'[m] = queue[m] + Pushes(l, m)
    BY <1>5 DEF EndAndNotify
  <2>3. Pushes(l, m) \in Nat /\ (Pushes(l, m) > 0 => Happened(m))
    BY <1>0, <2>1, PushesType, PushesHappened DEF PushTypeOK
  <2>4. rows' = rows /\ told' = told
    BY <1>5 DEF EndAndNotify
  <2> QED
    BY <1>1, <2>2, <2>3, <2>4
<1>6. CASE Forget
  <2>1. queue'[m] = 0 /\ rows' = rows /\ told' = told
    BY <1>6 DEF Forget
  <2> QED
    BY <1>1, <1>3, <2>1
<1>7. CASE Listen \/ LoadTokens \/ \E a \in Phones : SaveToken(a)
  <2>1. queue' = queue /\ rows' = rows /\ told' = told
    BY <1>7 DEF Listen, LoadTokens, SaveToken
  <2> QED
    BY <1>1, <1>3, <2>1
<1>8. ASSUME NEW a \in Phones, Register(a)
      PROVE  /\ rows' = rows /\ told' = told /\ queue'[m] \in Nat
             /\ queue'[m] > queue[m] => m.kind = "welcome"
  <2>1. PICK w : w = [to |-> a, kind |-> "welcome"]
    OBVIOUS
  <2>2. w \in Message /\ w.kind = "welcome"
    BY <2>1, WelcomeType
  <2>3. queue' = [queue EXCEPT ![w] = @ + 1] /\ rows' = rows /\ told' = told
    BY <1>8, <2>1 DEF Register
  <2> QED
    BY <1>1, <2>2, <2>3 DEF PushTypeOK
<1>9. ASSUME NEW w \in Message, Push(w)
      PROVE  /\ told'[m] > 0 => m \in rows'
             /\ told'[m] <= 1
             /\ (queue'[m] > 0 \/ told'[m] > 0) /\ m.kind # "welcome" => Happened(m)'
  <2>1. queue[w] > 0 /\ queue' = [queue EXCEPT ![w] = @ - 1] /\ rows' = rows \cup {w}
        /\ (told' = told \/ (w \notin rows /\ told' = [told EXCEPT ![w] = @ + 1]))
    BY <1>9 DEF Push, Unsent
  <2>2. CASE m = w
    <3>1. m \in rows' /\ (told'[m] = told[m] \/ (~(told[m] > 0) /\ told'[m] = told[m] + 1))
      BY <1>1, <2>1, <2>2 DEF PushTypeOK
    <3> QED
      BY <1>1, <1>2, <2>1, <2>2, <3>1
  <2>3. CASE m # w
    <3>1. queue'[m] = queue[m] /\ told'[m] = told[m]
      BY <2>1, <2>3 DEF PushTypeOK
    <3> QED
      BY <1>1, <1>2, <2>1, <3>1
  <2> QED
    BY <2>2, <2>3
<1> QED
  BY <1>3, <1>4, <1>5, <1>6, <1>7, <1>8, <1>9 DEF AllNext, allVars, EndAndCrash

-----------------------------------------------------------------------------
(* The theorems *)

AllInv == AllTypeOK /\ ContractInv /\ IndexInv /\ IndexAgrees /\ MessagesTrue

LEMMA InitInv == AllInit => AllInv
<1> SUFFICES ASSUME AllInit PROVE AllInv
  OBVIOUS
<1> USE DEF AllInit, Init
<1>1. chain = <<>> /\ Len(chain) = 0 /\ loads = {} /\ taken = 0
  OBVIOUS
<1>2. TypeOK
  <2>1. 0 \in 0..MaxLogs /\ 0 \in 0..MaxRestarts /\ 0 \in 0..0
    OBVIOUS
  <2>2. /\ chain \in Seq(Log) /\ Len(chain) <= MaxLogs /\ note \in [Owners -> 0..MaxLogs]
        /\ taken \in 0..Len(chain) /\ boot \in 0..Len(chain) /\ restarts \in 0..MaxRestarts
    BY <1>1, <2>1
  <2>3. /\ claims \subseteq Claim /\ loads \subseteq Load
        /\ shown \in [Owners -> 0..MaxLogs] /\ status \in [Index -> Status]
        /\ claimer \in [Index -> Accounts \cup {Nobody}]
        /\ linked \subseteq Accounts \X Owners /\ located \subseteq Index
    BY <2>1 DEF Status
  <2>4. overlapped \in BOOLEAN
    OBVIOUS
  <2> QED
    BY <2>2, <2>3, <2>4, Zenon DEF TypeOK
<1>3. PushTypeOK
  BY DEF PushInit, PushTypeOK
<1>4. ContractInv
  BY <1>1 DEF ContractInv, HeldIsLast, RedeemsOne
<1>5. LoadsApart
  BY <1>1 DEF LoadsApart
<1>6. NotesInv
  <2>1. /\ \A i \in Index : status[i] = "none" /\ claimer[i] = Nobody
        /\ \A o \in Owners : shown[o] = 0
    OBVIOUS
  <2> QED
    BY <1>1, <2>1 DEF NotesInv, NotesSeen, OutcomesTrue, Redeemed, NamingMarked, NamingFresh
<1>7. IndexAgrees
  <2>1. \A o \in Owners : Created(o) = {}
    BY <1>1 DEF Created, OwnerLogs
  <2> QED
    BY <2>1 DEF IndexAgrees
<1>8. MessagesTrue
  <2>1. \A m \in Message : queue[m] = 0 /\ told[m] = 0
    BY DEF PushInit
  <2> QED
    BY <2>1 DEF MessagesTrue
<1> QED
  BY <1>2, <1>3, <1>4, <1>5, <1>6, <1>7, <1>8, IndexInvSplit DEF AllInv, AllTypeOK

\* What a step needs to know of the state before it.
LEMMA AllInvFacts ==
    ASSUME AllInv, [AllNext]_allVars
    PROVE  /\ TypeOK /\ PushTypeOK /\ StateTypes /\ ContractTypes /\ LoadTypes /\ NoteTypes
           /\ ContractInv /\ HeldIsLast /\ LoadsApart /\ NotesInv /\ NamingMarked
           /\ IndexAgrees /\ MessagesTrue /\ Turn /\ claims' \subseteq Claim
<1>1. /\ TypeOK /\ PushTypeOK /\ ContractInv /\ HeldIsLast /\ LoadsApart /\ NotesInv /\ NamingMarked
      /\ IndexAgrees /\ MessagesTrue
  BY IndexInvSplit, Zenon DEF AllInv, AllTypeOK, ContractInv, NotesInv
<1>2. ContractTypes /\ LoadTypes /\ NoteTypes
  BY <1>1, TypesSplit, Zenon
<1>3. Turn /\ claims' \subseteq Claim
  BY <1>1, EveryTurn
<1> QED
  BY <1>1, <1>2, <1>3, Zenon DEF StateTypes

LEMMA StepInv == AllInv /\ [AllNext]_allVars => AllInv'
<1> SUFFICES ASSUME AllInv, [AllNext]_allVars PROVE AllInv'
  OBVIOUS
<1>0. /\ TypeOK /\ PushTypeOK /\ StateTypes /\ ContractTypes /\ LoadTypes /\ NoteTypes
      /\ ContractInv /\ HeldIsLast /\ LoadsApart /\ NotesInv /\ NamingMarked
      /\ IndexAgrees /\ MessagesTrue /\ Turn /\ claims' \subseteq Claim
  BY AllInvFacts
<1>1. ContractTypes' /\ ContractInv'
  BY <1>0, ContractTypesStep, ContractInvStep
<1>2. LoadTypes' /\ NoteTypes'
  BY <1>0, LoadTypesStep, NoteTypesStep
<1>3. TypeOK'
  <2>1. (TypeOK <=> ContractTypes /\ claims \subseteq Claim /\ LoadTypes /\ NoteTypes)'
    BY TypesSplit, PTL
  <2>2. (claims \subseteq Claim)'
    BY <1>0 DEF Claim
  <2> QED
    BY <1>1, <1>2, <2>1, <2>2, Zenon
<1>4. PushTypeOK'
  BY <1>0, PushTypesStep
<1>5. IndexInv'
  <2>1. (IndexInv <=> LoadsApart /\ NotesInv)'
    BY IndexInvSplit, PTL
  <2>2. LoadsApart' /\ NotesInv'
    BY <1>0, LoadsApartStep, NotesInvStep
  <2> QED
    BY <2>1, <2>2, Zenon
<1>6. IndexAgrees'
  BY <1>0, <1>1, IndexAgreesStep
<1>7. MessagesTrue'
  BY <1>0, MessagesTrueStep
<1> QED
  BY <1>1, <1>3, <1>4, <1>5, <1>6, <1>7, Zenon DEF AllInv, AllTypeOK

LEMMA AllInvAlways == AllSpec => []AllInv
<1> QED
  BY InitInv, StepInv, PTL DEF AllSpec

\* The contract, the index of noteIndexer.ts and the notifications of pushNotifier.ts keep
\* to their types; in particular a message waits only for an account that has the app.
THEOREM NotesTypes == AllSpec => []AllTypeOK
<1>1. AllInv => AllTypeOK
  BY Zenon DEF AllInv
<1> QED
  BY <1>1, AllInvAlways, PTL

\* However often notes are handled again, and though a message is written and sent in
\* separate steps (maybeSendNotifications), nobody is told the same twice, and what is told
\* of a note has happened to it on chain.
THEOREM MessagesRight == AllSpec => []NotifiedRightly
<1>1. AllInv => NotifiedRightly
  BY DEF AllInv, MessagesTrue, NotifiedRightly, NotifiedOnce, ToldWhatHappened, Happened
<1> QED
  BY <1>1, AllInvAlways, PTL

\* Without overlapping loads noteIndexer.ts shows for an owner used once what the contract
\* did with its note; and always, how a note ended is not changed until the API restarts.
THEOREM IndexFollows == AllSpec => FollowsContract
<1>1. AllInv /\ AllInv' /\ [AllNext]_allVars => [IndexAgrees' /\ OutcomeKept]_vars
  <2> SUFFICES ASSUME AllInv, AllInv', [AllNext]_allVars PROVE IndexAgrees' /\ OutcomeKept
    OBVIOUS
  <2>1. OutcomeKept
    BY AllInvFacts, OutcomeKeptStep
  <2> QED
    BY <2>1 DEF AllInv
<1> QED
  BY <1>1, AllInvAlways, PTL DEF AllSpec, FollowsContract

=============================================================================
