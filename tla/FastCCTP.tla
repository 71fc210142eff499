------------------------------ MODULE FastCCTP ------------------------------
(***************************************************************************)
(* packages/contract: DaimoFastCCTP and DaimoCCTPBridger.  A sender burns  *)
(* tokens on chain A; CCTP mints them on chain B into a handoff address    *)
(* that encodes every parameter of the transfer.  On chain B a liquidity   *)
(* provider may pay the recipient at once and take over the claim to the   *)
(* minted tokens.  One call of a contract is one step; a call that reverts *)
(* is no step.  A definition introduced as a slip is a wrong form of the   *)
(* one after it and not part of the specification.                         *)
(***************************************************************************)
EXTENDS Integers, FiniteSets

CONSTANTS
    Accounts,   \* senders, recipients and liquidity providers, on both chains
    Bridger,    \* the DaimoCCTPBridger contract on chain A
    Transfers,  \* bound: transfer parameters, one handoff address each
    Amounts,    \* bound: amounts a CCTP burn may have
    Funds,      \* Funds[a]: what account a owns on each chain at the start
    NoOne       \* address(0)

\* A transfer is its parameters: the handoff address is their CREATE2 hash.  The two
\* chain ids and the token are those of the one pair of chains modelled.
Transfer == [from : Accounts \cup {Bridger}, to : Accounts,
             fromAmount : Amounts, toAmount : Nat, nonce : Nat]

ASSUME CCTPAssumption ==
    /\ IsFiniteSet(Accounts)
    /\ IsFiniteSet(Transfers)
    /\ IsFiniteSet(Amounts)
    /\ Amounts \subseteq Nat \ {0}
    /\ Transfers \subseteq Transfer
    /\ Bridger \notin Accounts
    /\ NoOne \notin Accounts
    /\ Funds \in [Accounts -> Nat]

VARIABLES
    balA, balB,     \* token balances of the accounts on chains A and B
    sent,           \* handoffSent, on A
    fastCCTPNonce,  \* of DaimoCCTPBridger, on A
    transit,        \* transit[x][n]: CCTP messages minting n to the handoff of x
    inbox,          \* token balance of the handoff address of x, on B
    held,           \* token balance of the FastCCTP contract on B
    recipientOf,    \* handoffToRecipient, on B
    fronted,        \* history: who paid the recipient of x in advance
    claims,         \* history: how often x was claimed
    burned          \* history: what was burned on A to the handoff of x

bridgeVars ==
    <<balA, balB, sent, fastCCTPNonce, transit, inbox, held, recipientOf,
      fronted, claims, burned>>
chainA == <<balA, sent, fastCCTPNonce, burned>>
chainB == <<balB, inbox, held, recipientOf, fronted, claims>>

CCTPTypeOK ==
    /\ balA \in [Accounts -> Nat]
    /\ balB \in [Accounts -> Nat]
    /\ sent \in SUBSET Transfers
    /\ fastCCTPNonce \in Nat
    /\ transit \in [Transfers -> [Amounts -> Nat]]
    /\ inbox \in [Transfers -> Nat]
    /\ held \in Nat
    /\ recipientOf \in [Transfers -> Accounts \cup {NoOne}]
    /\ fronted \in [Transfers -> Accounts \cup {NoOne}]
    /\ claims \in [Transfers -> Nat]
    /\ burned \in [Transfers -> Nat]

CCTPInit ==
    /\ balA = Funds
    /\ balB = Funds
    /\ sent = {}
    /\ fastCCTPNonce = 0
    /\ transit = [x \in Transfers |-> [n \in Amounts |-> 0]]
    /\ inbox = [x \in Transfers |-> 0]
    /\ held = 0
    /\ recipientOf = [x \in Transfers |-> NoOne]
    /\ fronted = [x \in Transfers |-> NoOne]
    /\ claims = [x \in Transfers |-> 0]
    /\ burned = [x \in Transfers |-> 0]

-----------------------------------------------------------------------------
(* Chain A *)

\* Slip: the burn does not ask for the payer's balance.
BurnUnchecked(a, x, n) ==
    /\ balA' = [balA EXCEPT ![a] = @ - n]
    /\ transit' = [transit EXCEPT ![x][n] = @ + 1]
    /\ burned' = [burned EXCEPT ![x] = @ + n]

\* CCTP's depositForBurn: n tokens of payer a are burned, to be minted for x.
Burn(a, x, n) ==
    /\ balA[a] >= n
    /\ balA' = [balA EXCEPT ![a] = @ - n]
    /\ transit' = [transit EXCEPT ![x][n] = @ + 1]
    /\ burned' = [burned EXCEPT ![x] = @ + n]

\* startTransfer's checks and the mark against reuse, in its burn.
Start(a, x) ==
    /\ x.fromAmount >= x.toAmount
    /\ x \notin sent
    /\ sent' = sent \cup {x}
    /\ Burn(a, x, x.fromAmount)

\* startTransfer, called by an account.
StartTransfer(x) ==
    /\ x.from \in Accounts
    /\ Start(x.from, x)
    /\ UNCHANGED <<fastCCTPNonce, chainB>>

\* The transfer sendToChain makes of an amount of account a.
BridgeTransfer(a, n, k) ==
    [from |-> Bridger, to |-> a, fromAmount |-> n, toAmount |-> n, nonce |-> k]

\* Slip: the nonce is not advanced.
SendToChainSameNonce(a, n) ==
    LET x == BridgeTransfer(a, n, fastCCTPNonce + 1)
    IN  /\ x \in Transfers
        /\ Start(a, x)
        /\ UNCHANGED <<fastCCTPNonce, chainB>>

\* DaimoCCTPBridger.sendToChain: pulls the tokens, takes the next nonce, starts.
SendToChain(a, n) ==
    LET x == BridgeTransfer(a, n, fastCCTPNonce + 1)
    IN  /\ x \in Transfers
        /\ fastCCTPNonce' = fastCCTPNonce + 1
        /\ Start(a, x)
        /\ UNCHANGED chainB

\* Anyone may burn to a handoff address without startTransfer (DaimoFastCCTP.sol:76).
DirectBurn(a, x, n) ==
    /\ Burn(a, x, n)
    /\ UNCHANGED <<sent, fastCCTPNonce, chainB>>

-----------------------------------------------------------------------------
(* CCTP *)

\* A relayed message mints its tokens; messages arrive in any order, each once.
Deliver(x, n) ==
    /\ transit[x][n] > 0
    /\ transit' = [transit EXCEPT ![x][n] = @ - 1]
    /\ inbox' = [inbox EXCEPT ![x] = @ + n]
    /\ UNCHANGED <<chainA, balB, held, recipientOf, fronted, claims>>

-----------------------------------------------------------------------------
(* Chain B *)

\* Slip: a finished transfer may be finished again.
FastFinishAgain(lp, x) ==
    /\ balB[lp] >= x.toAmount
    /\ recipientOf' = [recipientOf EXCEPT ![x] = lp]
    /\ fronted' = [fronted EXCEPT ![x] = lp]
    /\ balB' = [balB EXCEPT ![lp] = @ - x.toAmount, ![x.to] = @ + x.toAmount]
    /\ UNCHANGED <<chainA, transit, inbox, held, claims>>

\* fastFinishTransfer: lp pays the recipient and becomes the recipient of the claim.
FastFinish(lp, x) ==
    /\ recipientOf[x] = NoOne
    /\ balB[lp] >= x.toAmount
    /\ recipientOf' = [recipientOf EXCEPT ![x] = lp]
    /\ fronted' = [fronted EXCEPT ![x] = lp]
    /\ balB' = [balB EXCEPT ![lp] = @ - x.toAmount, ![x.to] = @ + x.toAmount]
    /\ UNCHANGED <<chainA, transit, inbox, held, claims>>

\* Slips: the handoff accepts any balance, or only the exact one.
SufficientAlways(x) == TRUE
SufficientExact(x) == inbox[x] = x.fromAmount

\* EphemeralHandoff's check of what it received.
Sufficient(x) == inbox[x] >= x.fromAmount

\* Who a claim pays: the recorded recipient, or else the original one.
Payee(x) == IF recipientOf[x] = NoOne THEN x.to ELSE recipientOf[x]

\* Slip: the claim does not record its recipient.
RecordNothing(x) == UNCHANGED recipientOf
\* claimTransfer records its recipient, which ends fast finishing.
RecordPayee(x) == recipientOf' = [recipientOf EXCEPT ![x] = Payee(x)]

\* The handoff sends its whole balance to FastCCTP, which pays fromAmount on.
Sweep(x) ==
    /\ inbox' = [inbox EXCEPT ![x] = 0]
    /\ balB' = [balB EXCEPT ![Payee(x)] = @ + x.fromAmount]
    /\ held' = held + inbox[x] - x.fromAmount

\* claimTransfer, by anyone.  The handoff contract destroys itself in the same
\* transaction, so the address can be deployed again.
Claim(x) ==
    /\ Sufficient(x)
    /\ Sweep(x)
    /\ RecordPayee(x)
    /\ claims' = [claims EXCEPT ![x] = @ + 1]
    /\ UNCHANGED <<chainA, transit, fronted>>

-----------------------------------------------------------------------------
CCTPNext ==
    \/ \E x \in Transfers :
          \/ StartTransfer(x) \/ Claim(x)
          \/ \E a \in Accounts : FastFinish(a, x) \/ \E n \in Amounts : DirectBurn(a, x, n)
          \/ \E n \in Amounts : Deliver(x, n)
    \/ \E a \in Accounts, n \in Amounts : SendToChain(a, n)

CCTPSpec == CCTPInit /\ [][CCTPNext]_bridgeVars

\* CCTP's relayer delivers what was burned, and someone claims what arrived.
CCTPFairness ==
    \A x \in Transfers :
        /\ \A n \in Amounts : WF_bridgeVars(Deliver(x, n))
        /\ WF_bridgeVars(Claim(x))

CCTPFairSpec == CCTPSpec /\ CCTPFairness

-----------------------------------------------------------------------------
(* Properties *)

\* The sum of a function's values, counted unit by unit.
Units(f) == UNION {{x} \X (1..f[x]) : x \in DOMAIN f}
Total(f) == Cardinality(Units(f))

\* What CCTP is to mint for x, and for all transfers.
InTransitTo(x) == Total([n \in Amounts |-> n * transit[x][n]])
InTransit == Total([x \in Transfers |-> InTransitTo(x)])

\* No call creates or loses tokens: what left chain A is in transit, in a handoff, in the
\* contract or in an account of chain B.
MoneyConserved ==
    Total(balA) + InTransit + Total(inbox) + held + Total(balB) = 2 * Total(Funds)

\* A transfer pays out what was burned for it: claims are never served from the burns of
\* another transfer or from what other claims left in the contract.
BackedByBurns ==
    \A x \in Transfers : claims[x] * x.fromAmount + inbox[x] <= burned[x]

\* What a transfer paid out, holds and is to be minted was burned for it: with
\* MoneyConserved and CCTPTypeOK the inductive invariant of the money.
Accounted ==
    \A x \in Transfers :
        claims[x] * x.fromAmount + inbox[x] + InTransitTo(x) <= burned[x]

\* Money is neither made nor lost, and every claim has its own.
ClaimsBackedByBurns == MoneyConserved /\ BackedByBurns

\* Once a transfer has a recipient on chain B, by fast finish or claim, it keeps it.
RecipientKept ==
    \A x \in Transfers : recipientOf[x] # NoOne => recipientOf'[x] = recipientOf[x]

\* DaimoFastCCTP.sol:168, :225: nobody pays in advance for a transfer that was claimed or
\* that another provider has paid.
NotFrontedLate ==
    \A x \in Transfers : claims[x] > 0 \/ fronted[x] # NoOne => fronted'[x] = fronted[x]

\* A provider who paid in advance is the one every claim of that transfer pays.
FronterIsRecipient ==
    \A x \in Transfers : fronted[x] # NoOne => recipientOf[x] = fronted[x]

\* sendToChain never reverts because an earlier transfer took its handoff address.
BridgeNonceFresh ==
    \A x \in Transfers : x.from = Bridger /\ x.nonce > fastCCTPNonce => x \notin sent

\* Claims stay with whom they belong to, in whatever order transfers are started, delivered,
\* fronted and claimed again: no recipient is replaced, nobody pays in advance for nothing, no
\* later claim takes what one left in the contract, and no transfer of the bridger takes the
\* address of another.
ClaimsKept ==
    [][/\ RecipientKept /\ NotFrontedLate
       /\ held' >= held
       /\ FronterIsRecipient' /\ BridgeNonceFresh']_bridgeVars

\* Every transfer that was started is paid out on chain B, dust on its handoff or not.
StartedIsClaimed == \A x \in Transfers : x \in sent ~> claims[x] > 0

=============================================================================
