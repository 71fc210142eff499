--------------------------- MODULE EphemeralNotes ---------------------------
(***************************************************************************)
(* Payment links.  DaimoEphemeralNotesV2.sol holds the money of a note     *)
(* under the address of a key made for it, its owner, until the sender     *)
(* takes it back or somebody shows a signature of that key;                *)
(* noteIndexer.ts follows the contract in memory, one log at a time with   *)
(* an await in each, and claimEphemeralNoteSponsored.ts claims for users   *)
(* who have no gas.  A note is known by the index of the log that created  *)
(* it.  The id in a link stands for its owner, and a batch of blocks for   *)
(* the logs in it; the token moves as the logs say.  A definition          *)
(* introduced as a slip is a wrong form of the one after it and not part   *)
(* of the specification.                                                   *)
(***************************************************************************)
EXTENDS Naturals, Sequences, FiniteSets

CONSTANTS
    Owners,        \* addresses of ephemeral keys
    Accounts,      \* senders and recipients
    Amounts,       \* amounts of the token
    Cent,          \* how much of it is a cent
    MaxLogs,       \* bound: logs of the contract
    MaxLoads,      \* bound: loads under way at once
    MaxRestarts,   \* bound: restarts of the API
    Nobody         \* no account

ASSUME NotesAssumption ==
    /\ Owners # {} /\ Accounts # {} /\ Nobody \notin Accounts
    /\ Amounts \subseteq Nat \ {0} /\ Cent \in Nat \ {0}
    /\ MaxLogs \in Nat /\ MaxLoads \in Nat /\ MaxRestarts \in Nat

VARIABLES
    chain,         \* logs emitted, NoteCreated and NoteRedeemed
    note,          \* note[o]: the log of the note the contract holds for o, or 0
    claims,        \* sponsored claims about to send their transaction
    taken,         \* logs handed to loads so far
    boot,          \* the tip read when the API started
    loads,         \* calls of handleNoteLogs under way
    shown,         \* notes: the note indexed for an owner, or 0
    status,        \* status[i]: DaimoNoteStatus.status of note i
    claimer,       \* claimer[i]: its claimer
    linked,        \* senderIdToOwner: senders and owners whose link resolves
    located,       \* logCoordinateToNoteEvent: logs a transfer can be matched with
    overlapped,    \* a load has begun while another was under way
    restarts

chainVars == <<chain, note>>
indexVars == <<shown, status, claimer, linked, located>>
apiVars == <<taken, boot, loads, overlapped, restarts>>
vars == <<chainVars, claims, indexVars, apiVars>>

Index == 1..MaxLogs
Log == [owner : Owners, from : Accounts, amount : Amounts, redeemer : Accounts \cup {Nobody}]
Status == {"none", "confirmed", "claimed", "cancelled"}
\* A call of handleNoteLogs: it is at log `at` of those up to `last`, before or after
\* the await in its handler; obj is the note a redemption awaits the claimer of, and
\* done the notes it has handled.
Load == [at : 1 .. MaxLogs + 1, last : Index, naming : BOOLEAN, obj : 0..MaxLogs, done : Seq(Index)]
Claim == [owner : Owners, recipient : Accounts]

TypeOK ==
    /\ chain \in Seq(Log) /\ Len(chain) <= MaxLogs
    /\ note \in [Owners -> 0..MaxLogs]
    /\ claims \subseteq Claim
    /\ taken \in 0..Len(chain) /\ boot \in 0..Len(chain)
    /\ loads \subseteq Load
    /\ shown \in [Owners -> 0..MaxLogs]
    /\ status \in [Index -> Status]
    /\ claimer \in [Index -> Accounts \cup {Nobody}]
    /\ linked \subseteq Accounts \X Owners
    /\ located \subseteq Index
    /\ overlapped \in BOOLEAN
    /\ restarts \in 0..MaxRestarts

Init ==
    /\ chain = <<>>
    /\ note = [o \in Owners |-> 0]
    /\ claims = {}
    /\ taken = 0 /\ boot = 0 /\ loads = {} /\ overlapped = FALSE /\ restarts = 0
    /\ shown = [o \in Owners |-> 0] /\ linked = {} /\ located = {}
    /\ status = [i \in Index |-> "none"] /\ claimer = [i \in Index |-> Nobody]

------------------------------------------------------------------------------
(* The contract *)

\* createNote
CreateNote(o, a, n) ==
    /\ note[o] = 0 /\ Len(chain) < MaxLogs
    /\ chain' = Append(chain, [owner |-> o, from |-> a, amount |-> n, redeemer |-> Nobody])
    /\ note' = [note EXCEPT ![o] = Len(chain) + 1]
    /\ UNCHANGED <<claims, indexVars, apiVars>>

\* The common end of claimNoteSelf and claimNoteRecipient.
Redeem(o, r) ==
    /\ chain' = Append(chain, [chain[note[o]] EXCEPT !.redeemer = r])
    /\ note' = [note EXCEPT ![o] = 0]

\* claimNoteSelf, by the sender, or claimNoteRecipient, by anyone with the signature.
ClaimNote(o, r) ==
    /\ note[o] # 0 /\ Len(chain) < MaxLogs
    /\ Redeem(o, r)
    /\ UNCHANGED <<claims, indexVars, apiVars>>

------------------------------------------------------------------------------
(* The sponsored claim *)

\* claimEphemeralNoteSponsored up to its transaction: the index says it can be claimed.
CheckClaim(o, r) ==
    /\ shown[o] # 0 /\ status[shown[o]] = "confirmed"
    /\ claims' = claims \cup {[owner |-> o, recipient |-> r]}
    /\ UNCHANGED <<chainVars, indexVars, apiVars>>

\* The transaction pays, or reverts because the note is gone: its receipt tells neither.
SendClaim(c) ==
    /\ Len(chain) < MaxLogs
    /\ IF note[c.owner] # 0 THEN Redeem(c.owner, c.recipient) ELSE UNCHANGED chainVars
    /\ claims' = claims \ {c}
    /\ UNCHANGED <<indexVars, apiVars>>

------------------------------------------------------------------------------
(* The indexer *)

\* A load of catchUpTo waits for the one before it; the ticks that follow may overlap.
MayLoad(n) ==
    IF taken < boot THEN loads = {} /\ n <= boot
                    ELSE \A l \in loads : l.last > boot

\* Slip: the range of a load ends a log too far.
NewLogsOpen == taken + 1 .. Len(chain) + 1
\* Slip: the range of a load stops before its end.
NewLogsShort == taken + 1 .. Len(chain) - 1
NewLogs == taken + 1 .. Len(chain)

\* load with rows that are not stale: the next logs, up to the n-th.
BeginLoad(n) ==
    /\ n \in NewLogs /\ MayLoad(n)
    /\ Cardinality(loads) < MaxLoads
    /\ loads' = loads \cup {[at |-> taken + 1, last |-> n, naming |-> FALSE, obj |-> 0,
                             done |-> <<>>]}
    /\ taken' = n
    /\ overlapped' = (overlapped \/ loads # {})
    /\ UNCHANGED <<chainVars, claims, indexVars, boot, restarts>>

Replace(l, m) == loads' = (loads \ {l}) \cup {m}
AtCreate(l) == l.at <= l.last /\ chain[l.at].redeemer = Nobody
AtRedeem(l) == l.at <= l.last /\ chain[l.at].redeemer # Nobody
Owner(l) == chain[l.at].owner
Past(l, i) == [l EXCEPT !.at = @ + 1, !.naming = FALSE, !.obj = 0, !.done = Append(@, i)]
Waiting(l, i) == [l EXCEPT !.naming = TRUE, !.obj = i]
\* amountToDollars: whole cents.
Dollars(n) == n \div Cent

\* The checks of handleNoteRedeemed.
Accepts(l) ==
    LET i == shown[Owner(l)] IN
    /\ i # 0 /\ status[i] = "confirmed"
    /\ Dollars(chain[i].amount) = Dollars(chain[l.at].amount)

\* The check of handleNoteCreated.
Fresh(l) == AtCreate(l) /\ shown[Owner(l)] = 0

\* A handler that throws is logged, and the next log is handled.
HandlerThrows(l) ==
    /\ ~l.naming
    /\ \/ AtCreate(l) /\ ~Fresh(l)
       \/ AtRedeem(l) /\ ~Accepts(l)
    /\ Replace(l, [l EXCEPT !.at = @ + 1])
    /\ UNCHANGED <<chainVars, claims, indexVars, taken, boot, overlapped, restarts>>

\* handleNoteCreated up to the await of its sender's name ...
Create(l) ==
    /\ ~l.naming /\ Fresh(l)
    /\ Replace(l, Waiting(l, 0))
    /\ UNCHANGED <<chainVars, claims, indexVars, taken, boot, overlapped, restarts>>

\* ... and after it.
CreateNamed(l) ==
    /\ l.naming /\ AtCreate(l)
    /\ shown' = [shown EXCEPT ![Owner(l)] = l.at]
    /\ status' = [status EXCEPT ![l.at] = "confirmed"]
    /\ linked' = linked \cup {<<chain[l.at].from, Owner(l)>>}
    /\ located' = located \cup {l.at}
    /\ Replace(l, Past(l, l.at))
    /\ UNCHANGED <<chainVars, claims, claimer, taken, boot, overlapped, restarts>>

\* Slip: whoever redeems it, the note is claimed.
AlwaysClaimed(log) == "claimed"
StatusAfter(log) == IF log.redeemer = log.from THEN "cancelled" ELSE "claimed"

\* handleNoteRedeemed up to the await of the claimer's name ...
RedeemSeen(l) ==
    LET i == shown[Owner(l)] IN
    /\ ~l.naming /\ AtRedeem(l) /\ Accepts(l)
    /\ status' = [status EXCEPT ![i] = StatusAfter(chain[l.at])]
    /\ located' = located \cup {l.at}
    /\ Replace(l, Waiting(l, i))
    /\ UNCHANGED <<chainVars, claims, shown, claimer, linked, taken, boot, overlapped, restarts>>

\* ... and after it.
RedeemNamed(l) ==
    /\ l.naming /\ AtRedeem(l)
    /\ claimer' = [claimer EXCEPT ![l.obj] = chain[l.at].redeemer]
    /\ Replace(l, Past(l, l.obj))
    /\ UNCHANGED <<chainVars, claims, shown, status, linked, located, taken, boot, overlapped,
                   restarts>>

\* handleNoteLogs returns.
EndLoad(l) ==
    /\ l.at > l.last
    /\ loads' = loads \ {l}
    /\ UNCHANGED <<chainVars, claims, indexVars, taken, boot, overlapped, restarts>>

\* The API starts again with nothing in memory; its calls are lost.
Reset ==
    /\ taken' = 0 /\ boot' = Len(chain) /\ loads' = {} /\ claims' = {} /\ overlapped' = FALSE
    /\ shown' = [o \in Owners |-> 0] /\ linked' = {} /\ located' = {}
    /\ status' = [i \in Index |-> "none"] /\ claimer' = [i \in Index |-> Nobody]
    /\ UNCHANGED chainVars

Restart ==
    /\ restarts < MaxRestarts
    /\ restarts' = restarts + 1
    /\ Reset

\* Steps of the contract and of the sponsored claims, and of the handlers of a load.
Outside ==
    \/ \E o \in Owners, a \in Accounts :
         \/ \E n \in Amounts : CreateNote(o, a, n)
         \/ ClaimNote(o, a)
         \/ CheckClaim(o, a)
    \/ \E c \in claims : SendClaim(c)
Handle(l) ==
    HandlerThrows(l) \/ Create(l) \/ CreateNamed(l) \/ RedeemSeen(l) \/ RedeemNamed(l)

Next ==
    \/ Outside
    \/ \E n \in Index : BeginLoad(n)
    \/ \E l \in loads : Handle(l) \/ EndLoad(l)
    \/ Restart

Spec == Init /\ [][Next]_vars

------------------------------------------------------------------------------
(* Properties *)

OwnerLogs(o, n) == {i \in 1..n : chain[i].owner = o}
Created(o) == {i \in OwnerLogs(o, Len(chain)) : chain[i].redeemer = Nobody}

\* Which logs the index has been through: those handed to loads and not waiting in one.
Handled(i) ==
    i <= taken /\ \A l \in loads : i \in l.at..l.last => i = l.at /\ AtRedeem(l) /\ l.naming

\* The index shows for an owner used once what the contract did with its note: it can be
\* claimed, or has been by the account shown, or was taken back by its sender.
IndexAgrees ==
    \A o \in Owners : \A i \in Created(o) :
        ~overlapped /\ Created(o) = {i} =>
            LET redeemed == {j \in OwnerLogs(o, Len(chain)) : j # i /\ Handled(j)} IN
            /\ shown[o] = IF Handled(i) THEN i ELSE 0
            /\ shown[o] = i =>
                 /\ <<chain[i].from, o>> \in linked
                 /\ redeemed = {} => status[i] = "confirmed"
                 /\ \A j \in redeemed :
                      /\ status[i] \in {"claimed", "cancelled"}
                      /\ status[i] = "cancelled" <=> chain[j].redeemer = chain[i].from
                      /\ claimer[i] \in {chain[j].redeemer, Nobody}

\* Even when loads overlap or an owner is used again, how a note ended is not changed
\* until the API restarts, nor, without overlap, does its link come to show another note.
OutcomeKept ==
    \A o \in Owners :
        LET i == shown[o] IN
        taken' >= taken /\ i # 0 =>
            /\ overlapped \/ shown'[o] = i
            /\ status[i] # "confirmed" => status'[i] = status[i]
            /\ claimer[i] # Nobody => claimer'[i] = claimer[i]

\* The index follows the contract and does not change its mind.
FollowsContract == [][IndexAgrees' /\ OutcomeKept]_vars

\* Every note is shown at some point, however the API is restarted, and the redemption of
\* one whose owner is used once is too.
ShownInTheEnd ==
    \A o \in Owners :
        /\ (Created(o) # {}) ~> (shown[o] # 0)
        /\ (note[o] = 0 /\ Cardinality(Created(o)) = 1)
               ~> \/ overlapped \/ Cardinality(Created(o)) > 1
                  \/ shown[o] # 0 /\ status[shown[o]] # "confirmed" /\ claimer[shown[o]] # Nobody

\* daimoLinkStatus.ts:119: "Claimer, or undefined if the note is not yet claimed or
\* cancelled."
ClaimerIfRedeemed ==
    \A o \in Owners :
        shown[o] # 0 /\ claimer[shown[o]] = Nobody => status[shown[o]] = "confirmed"

=============================================================================
