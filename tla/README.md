# Daimo: a verification project

Daimo is a payments app. Smart contracts hold the accounts and the money
(`packages/contract`), an API server indexes the chain in memory, deploys accounts and
submits operations (`packages/daimo-api`), and a mobile app keeps one account and its history
(`apps/daimo-mobile`). This directory holds TLA+ specifications of the parts of that
system whose correctness depends on order, overlap, failure and restart, the
configurations TLC checks them with, and theorems about them that TLAPS checks.

Paths below are relative to the repository. A definition's comment names the function it
translates; `PROJECT.json` gives the lines of each, the hazards the properties are for, and
for every property a wrong form of one definition that it notices.

## 1. The system

### Components, their state and what makes each correct

| Component | State | Operations | Hard because | Correct when |
|---|---|---|---|---|
| **IndexWatcher** (`daimo-api/src/db/indexWatcher.ts`, `contract/indexer.ts`) | `latest`, `isIndexing`, each indexer's `lastProcessedBlock` and rows in memory | `init`, `catchUpTo`, `tick`, `index`, `updateLastProcessedCheckStale` | ticks come from a timer and from Postgres notifications and interleave at every await; one load of a layer may fail after others were applied | a row is applied once, in layer order, and everything up to `latest` is indexed |
| **FastCCTP and its bridger** (`contract/src/DaimoFastCCTP.sol`, `DaimoCCTPBridger.sol`) | recipients and claims by transfer, handoff addresses, balances, the bridger's nonce | start, fast finish, claim, `sendToChain` | burns, CCTP messages, advance payments and claims happen on two chains in any order, and a handoff contract destroys itself and comes back | no money is lost or paid twice, the one who fronted is repaid |
| **Account sync** (`daimo-mobile/src/sync/sync.ts`, `daimo-api/src/api/getAccountHistory.ts`, `action/useSendAsync.ts`) | the phone's stored account: history, marks, balance, pending ops; the API's index and finalized block | `resync`, `fetchSync`, `applySync`, sending an op | syncs overlap, answers arrive late and in any order, the app is reopened, the chain is reorganised | the history is a complete copy of the index and agrees with the balance; an op given up never executes |
| **Payment requests** (`contract/src/DaimoRequest.sol`, `daimo-api/src/contract/requestIndexer.ts`) | status on chain; objects and maps in memory; `declined_requests` in Postgres | create, fulfil, cancel; `load`, `init`, `declineRequest` | a load handles its rows by kind with awaits in between, beside declines; memory is lost on restart and declines are not | the API shows what the chain or a decline says |
| **Onboarding, invites, names** (`logic/accountManager.ts`, `api/deployWallet.ts`, `offchain/inviteCodeTracker.ts`, `DaimoNameRegistry.sol`, `nameRegistry.ts`) | the phone's account, chain and `createAccountHandle`; accounts and names on chain and in the index; `use_count` and attestations in Postgres | `createAccount`, polling for an account, `setDaimoChain`, `deployWallet`, `useInviteCode`, `register` | calls are retried and overlap, answers are lost, polls race with calls, names are taken meanwhile | the phone's account exists under its key and name; an invite pays no more than its uses |
| **Payment links** (`DaimoEphemeralNotesV2.sol`, `noteIndexer.ts`, `claimEphemeralNoteSponsored.ts`) | notes by owner on chain; notes, links and log coordinates in memory | create, claim as sender or recipient, sponsored claim, `load` | an owner may be used again after its note was claimed; a load awaits in every handler, and loads overlap | a note is paid once, the index says which and does not change its mind |
| **Push notifications** (`server/pushNotifier.ts`) | tokens by account, messages written | `init`, `register`, the listeners, `maybeSend` | the listeners run beside loads, a batch is handled again after a restart, a failed assertion ends the process | nobody is told twice, or what is not so |
| **Account keys** (`DaimoAccountV2.sol`, `keyRegistry.ts`, `keySlot.ts`, `keyRotation/*.tsx`, `TabNav.tsx`) | keys by slot, their number; keys by account and account by key in memory; a phone's key, account and pending rotations | add and remove a key, choose a slot, `load`, sync, log out, delete | the index keeps one account per key; the phone chooses slots from an old copy; the API answers while it rebuilds | at most `maxKeys` keys and never none; no phone is told wrongly that its key is gone |
| **Coin indexers** (`homeCoinIndexer.ts`, `foreignCoinIndexer.ts`, `opIndexer.ts`, `ClogMatcher.ts`) | transfers, balances, pending receipts, transfers by transaction | `load`, proposing swaps, `createTransferClog`, `attachFeeAmounts` | receipts and swaps are matched by amount; matching transfers are loaded without being awaited and lost on restart | a line of history tells what happened, in full in the end |
| **Assets of an account** (`DaimoAccountV2.sol`, `DaimoSwapbotLP.sol`) | balances on two chains, home coin, forwarding address, the tip pool | `collect`, `swapToHomeCoin`, `forward`, `executeBatch`, `isValidSignature`, `swapAndTip` | anybody may call the first three at any moment, in parts and with any market maker; what was approved outlives the owner's say | nothing is lost beyond the tolerated price, an account that forwards loses only what had been approved, and the money comes home |
| **Flexible swapper** (`DaimoFlexSwapper.sol`) | lists of tokens, feeds and pools | the minimum a swap must return | pools and feeds disagree, are missing or old; divisions truncate | the price follows the table in its comment |
| **Transaction sender** (`network/viemClient.ts`) | the lock, the nonce, attempts | `writeContractAndGetReceipt` | a transaction may be mined after its timeout, by another node's view, or under the nonce another call was given | a call that returns has been executed and is over; every call ends |
| **Landline** (`landline/*.ts`, `sync/syncLandline.ts`, `action/useLandlineDeposit.ts`) | bank transfers at the service, rows on the phone | deposit, withdraw, matching in the API, merge on the phone | the chain, the bank and the phone learn of a transfer in any order, and the bank settles it days after its block was final | a bank transfer is one row and shows its outcome in the end |
| User operations (`daimo-userop`, `opSender.ts`, `sendUserOpV2.ts`, `bundlerClient.ts`) | the deadline and acceptance of an op | sign, submit, bundle | errors of a bundle are swallowed | an op is executed by its deadline or never |
| Payment memos, invite graph, caches | a table or map that is only added to, or expires | insert, get | filled after an insert or a query | what is shown was written |
| Factory, paymaster, database, notifier, router, cron, telemetry, web app, native key modules, screens | none of the protocol's own | pass calls on, show, store, measure | a notification or a stored row may be late | what they pass on is unchanged |

### How they interact

The phone calls the API over HTTP (`deployWallet`, `getAccountHistory`,
`lookupEthereumAccountByKey`, `sendUserOpV2`, `declineRequest`, `depositFromLandline`,
`claimEphemeralNoteSponsored`); any call may be lost on the way there or on the way back.
The API writes to the chain through the transaction sender and to Postgres, and learns of the
chain only from the index database that an indexing service (shovel) fills; its in-memory
indexers are driven by IndexWatcher, in three layers, call each other, and tell the push
notifier through listeners. It asks Landline's service for bank transfers at every sync. The
contracts know nothing of the API. CCTP, Circle's bridge, connects the two chains of
FastCCTP; an account's `collect` on one chain arrives on the other through it, and
`swapToHomeCoin` goes on from there.

## 2. Modules

| Module | Models | Notes |
|---|---|---|
| `IndexLog` | what an in-memory index promises: batches of blocks, each above all before it, or a restart from nothing | abstract specification |
| `IndexWatcher` | the watcher and the load of each kind of indexer | implements `IndexLog` for the indexers with the stale check |
| `FastCCTP` | both chains of a bridge, its messages, the handoff contracts and the bridger | |
| `AccountSync` | chain, API index, finalized block, phone | composes three programs |
| `Requests` | contract, its events, the API's memory and database, declines | |
| `Onboarding` | phones, one API and invite code per chain, the chains | composes three programs |
| `EphemeralNotes` | the contract of payment links, its index, sponsored claims | |
| `NoteNotifications` | `EphemeralNotes` with the push notifier on top | composition, by extension |
| `AccountKeys` | contract, key index, phones and the calls between them | composes three programs |
| `ForeignCoins` | the index of tokens other than the home coin, as operators on batches of blocks | used by `TransferClogs` |
| `TransferClogs` | the chain, the index of the home coin, `ClogMatcher` | composes three indexers |
| `FlexSwapper` | prices, as operators on a market | used by `AccountAssets` |
| `AccountAssets` | an account on two chains, the bridge, the tip pool, anybody's calls, its owner's batches, approvals and signatures | |
| `ChainCalls` | what callers of the transaction sender may rely on | abstract specification |
| `TxSender` | calls, lock, attempts, the sequencer's pool, restarts | implements `ChainCalls` |
| `LandlineTransfers` | Landline, the chain, the API's matching, the phone's merge | composes four programs |
| `*Proofs` | theorems and lemmas of the module they are named after | `NotesProofs` has those of `EphemeralNotes` and `NoteNotifications`, `ServicesProofs` those of `TxSender`, `LandlineTransfers` and `FastCCTP`, `TokensProofs` those of `FlexSwapper`, `AccountAssets`, `ForeignCoins` and `TransferClogs`; the parts of one module share no state |
| `MC*` | instances for TLC | |

A definition introduced as a *slip* is a wrong form of the definition after it: a guard
dropped, a bound off by one, a record not written. It is no part of a specification. It
documents which property notices that mistake.

### IndexWatcher

`runs[t]` is where an invocation of `tick` stands (`asking`: its two queries are out;
`asked`: it compares `latest`; `loading`: it awaits a layer), with the values the function
holds in its variables. `loads` are the calls of `Indexer.load` whose query is under way,
owned by their tick, or by nobody once the `Promise.all` of the tick has rejected. The
three kinds of indexer differ: `Checked` ones consult `lastProcessedBlock`, `CheckLate`
ones only if their query returned rows (`OpIndexer`, `NoteIndexer`), and `RequestIndexer`
has no check and throws on a request it knows. `TickSkip` is the code's early return
inside the `try`, whose `finally` clears `isIndexing` of the tick that holds it: ticks do
overlap. Promises that say what holds without overlap are therefore stated for histories
that are not `disturbed`; `AppliedAtMostOnce` and `ImplementsIndexLog` hold even so.

### FastCCTP

A transfer is the tuple the contract hashes. `transit[x][n]` counts the CCTP messages of
`n` tokens for the handoff of `x`; `inbox` is what they have minted there. `burned`,
`claims`, `fronted` and `sent` are what happened, for the properties. `DirectBurn` is dust:
anybody may burn to a handoff's address. A claim needs the handoff's whole balance to be
at least `fromAmount`, pays the recorded recipient and sweeps the rest into the contract
(`held`). Signature-free parts (owner calls, proxies) and the swap at either end are left
out. Both chains use one unit of account. Names such as `CCTPInit` and `fastCCTPNonce` keep
this module apart from the others that `ServicesProofs` extends.

### AccountSync

`chain` is a sequence of blocks, each a set of transfers; `Reorg` replaces the blocks
after the finalized one. The index gets a block's transfers (`LoadTransfers`) before the
tip is published (`PublishTip`), because the coin indexer runs before `latest` is set. A
sync captures the last block when the request arrives and everything else when it is
answered, as `getAccountHistory` does around its wait for the finalized block. A balance is
the set of entries it adds up. A sync from scratch is what happens when the app starts
(`AppLoad`); the others ask for everything since the account's last finalized block.

A history variable, `undercut`, marks a run of events in which a slow sync from scratch was
applied while another sync that had started at a later finalized block was under way: the
later answer then leaves a gap that no further sync closes. It takes an answer older than
the finality delay, so `MissesNothingIndexed` excludes it instead of reporting it, and it is
listed among the hazards; without the flag TLC shows the gap in the run's instance in 22
steps. Key rotations are in `AccountKeys`, bank transfers in `LandlineTransfers`; the fields
that an answer merely replaces are left out.

### Requests

An object of the code's map is `original` or the `copy` a decline installs; `entry` says
which of them the map holds, and a handler that awaits the name of the fulfiller goes on
with the object it had. `batch.stage` follows `load` through creations, fulfilments and
cancellations. `Restart` empties the memory, and `InitDeclined` follows the replay of the
chain up to the tip read at boot. Maps derived from the main one (by address, by log
coordinate) and the listeners are left out; overlap of loads and failing loads are
IndexWatcher's subject. A request that was declined and then fulfilled is shown fulfilled
until a restart and declined afterwards; no text of the repository says which is meant.

### Onboarding

A phone stands for its enclave key and its device attestation; an account's address is the
record of the key, name and chain it is computed from. `call[i]` is one `createAccount`:
`ui` is the part on the phone, `api` the part on the server, which goes on when the phone
has lost the connection. A poll is a request, with the answer it carries once served. Each
home chain has an API of its own, with an index of keys (a prefix of the deployments) and of
names (ahead of it or behind it, because `onSuccessfulRegister` adds a name directly). The
payment of a bonus is the moment it is sent. Left out: invites that are payment links, the
inviter's own bonus (the same code path), removing keys and deleting accounts, changes of
`max_uses`, and names that are invalid or on the black list, which fail before any effect.

### EphemeralNotes and NoteNotifications

A note is the index of the log that created it, so that two notes of one owner are told
apart. The contract keeps one note per owner and deletes it when it is redeemed. A load is a
call of `handleNoteLogs` with the logs it still has to handle; each handler awaits a name
before it writes, so every log has a step up to that await and one after it. Loads overlap
when IndexWatcher's ticks do, which `overlapped` records: the index agrees with the contract
about owners used once as long as none has, and how a note ended does not change even when
some have. A handler that throws is logged by the code and passed over here
(`HandlerThrows`). A sponsored claim is two steps, the look at the index and the
transaction.

`NoteNotifications` extends this with the push notifier. Its listener runs in the step that
ends a load and starts to write the messages, each on its own: `queue` counts the writes of a
message that are under way, which end in any order, and a message whose row is there already
is not sent. A failed assertion in a listener ends the process (`EndAndCrash`).
Messages are sent at most once: one whose row was written before a crash is never sent, as
in the code.

### AccountKeys

A phone is the one key its enclave makes, an account the key it is deployed with. `keys` and
`numActiveKeys` are the contract's, which counts apart from the slots. `KeyRegistry.load` takes the
log one entry at a time; a removal takes out every slot of its key. `Ready` is the API's
refusal to serve until the index has reached the tip read at boot. A phone chooses a slot
from the answer it stored last and sends an op; `ops` are those the chain may still execute,
and `Drop` is an op that was rejected, reverted or never mined, of which
`sendUncompressedBundle` tells nobody. `creating` outlives the phone's interest in it
(`abandoned`). Answers wait in `answers` and may arrive late or not at all. Backup keys
(passkeys, seed phrases) are added by the same op in slots of their own and are left out.

### ChainCalls and TxSender

`ChainCalls` is what a caller of `writeContractAndGetReceipt` may rely on, in four actions.
`TxSender` is the function: the lock, the nonce read from a node that may be a block behind, the
attempts, the errors that end a call and those that repeat it. The sequencer keeps one
transaction per nonce and may mine it long after the API has given up. `Results` maps a call
that waits or works to `open`. `KeepsPromise` is `ChainCalls!Spec` under that mapping: it is
what remains of "exactly once" when transactions outlive their timeouts.

### ForeignCoins and TransferClogs

`txs` is the chain, a sequence of transactions of the kinds the indexers distinguish, each
with its transfers (`moves`) and with what every account holds after it (`held`), which only
the chain and the properties read. `Tick` indexes a batch of them: balances, pending receipts,
the receipt each swap came from. `ForeignCoins` has these as functions of a state and a log,
since that indexer awaits nothing that matters: `Loaded` is the state after each block of a
load, `ProcessBlock` takes the logs of a block in their order. A list of logs is the set of
them, each with its place on the chain, so that "the first" is the one with the least place.
A transfer out is matched to a pending receipt by token and amount; one that
matches none replaces all that is pending by what the account has left of that token
(`BulkSend`). The queries of
`ClogMatcher` are in `due` until they answer, and the history is served meanwhile; what they
had loaded, or had not, is lost with a restart. `startSeen` and `missed` are about arrivals
whose `Start` event is on another chain and may be indexed later. Rows of one transaction
have no order in the query, so a search among them may find any. Links, requests and memos
of a line are left out; prices of foreign tokens are data.

### FlexSwapper and AccountAssets

`FlexSwapper` computes the least amount a swap must return, in the integer arithmetic of the
contract. A market gives pools (a price and a liquidity per fee tier) and feeds (answer, age,
staleness); a call that may revert is a set with at most one element. `AccountAssets` has an
account on its home chain and on another one. Anybody collects, swaps or forwards, all or
part of what is held (`Parts`), with a market maker that delivers the minimum or a unit less
(`Offsets`; the latter must be refused), directly or through the tip pool, which makes up
the difference from the tip. The owner's batches are one or two calls, which
succeed or fail as a whole. A batch may call any contract with anything; what matters of
that to the account is what it sends (`spent`), what it approves (`allowance`) and its own
settings, and these are the calls of `BatchCall`. A call of `collect`, `swapToHomeCoin` or `forward`
in a batch is as if somebody made it before or after. `allowance` is of all spenders of a
token together, who may take of it (`TakeApproved`) whatever the account has become; an
approval is told by what it is after it, which may be more or less or nothing. A token
may also take a signed message for an approval (`Permit`), and asks `isValidSignature` of the
account, which needs an account that does not forward. The approvals that `collect` and
`_swap` give are used up in the same call and are no state. `owed` is a history variable:
the stablecoins there were, less those approved, when forwarding was set, and what came
since; no action reads it. `OffboardedIsWhole` compares
it with what is kept where the bridge coin is a stablecoin and the home coin is one or the native
coin, for anybody may swap stablecoins into another home coin, which is what `ValueKept` is
about. The bridge is taken as a transfer that arrives, which is what
`FastCCTP` is about. `swapAndTip` is modelled for the native coin only; section 5 says why.

### LandlineTransfers

Landline's record of a bank transfer and its transaction on chain are made one; a row on the
phone is a `Clog`, of an op, of a transfer log, or of a bank transfer alone. A sync is `Read` (last
block, finalized block, logs), `Answer` (Landline is asked; `Join` adds what it says to the
logs asked for, by transaction hash) and `ApplySync` (`Merge` with the rows the phone keeps).
The RPC nodes behind the API may lag (`FinalizedBlocks`). Block numbers and times are one,
as the code computes each from the other. Rows are objects that the code marks in place, which
matters where it uses a row after marking another reference to it (`StillPending`).
`behind` records that an answer was applied which had been computed before one applied
earlier; `EveryTxIsOneRow` excludes what follows until the app is opened again. What
Landline itself does is external: it is modelled by what the comments of the two matchers say
of it. The specification is called `LandlineSpec`, and its types and initial states
`LandlineTypeOK` and `LandlineInit`, so that `ServicesProofs` can extend it beside `TxSender`.

## 3. What TLC checks

| Run | Instance | Shows |
|---|---|---|
| `watcher` | 2 ticks, 4 indexers in 3 layers, 3 blocks, batches of 2, 1 failure, 1 restart | nothing is missing below `latest` and layers load in order unless disturbed; the log of every checked indexer refines `IndexLog`; under fairness the tip is reached unless a repeated request jams it |
| `cctp` | 1 tipped and 2 bridged transfers, 3 accounts, amounts 1 and 2 | no money appears or is lost and every claim is backed by a burn; whoever is recorded as recipient is kept and paid; every transfer started is claimed |
| `sync` | 2 syncs, 1 op, 2 blocks, 1 reorg | the history misses nothing of the index and agrees with the balance; an op that was dropped never executes |
| `requests` | 2 requests, 1 of them addressed, 2 declines, 1 restart | the index follows the chain, declines are remembered, a settlement is shown |
| `onboarding` | 1 phone, 2 chains, 2 calls, 1 stranger, 1 name, invite of 1 use | the account exists under its key and name and is kept; bonuses stay within uses; a deployed account reaches its phone |
| `notes` | 1 owner used again, 2 accounts, 1 of them with the app, 3 logs, 2 loads, 1 restart | the index of notes follows the contract and does not change its mind; what phones are told is true and told once; notes and redemptions are shown in the end |
| `keys` | 2 keys, 1 account, 2 slots, 4 logs, 1 op, 1 answer under way, 1 restart | the count equals the keys and stays in its limits; the index follows the log; a phone is told that its key is missing only if it was removed; a rotation whose key is there resolves |
| `keys_delete` | the same | violates the comment of `DeviceScreen.tsx:113` (section 5) |
| `sender` | 3 calls, 1 of which reverts when repeated, 3 attempts, 9 nonces, 1 restart | refinement of `ChainCalls`; every call returns or throws |
| `coins` | 1 account, 2 foreign tokens, 4 transactions, 1 of them in the home coin alone | what the phone is asked to swap is held; what a line tells of its swap, bridge and fee is true and told once; it is told in full in the end |
| `assets` | 1 receipt of 100 of the native coin or a stablecoin on either chain, parts of 50, 3 markets, approvals of one stablecoin | the minimum follows the contract's table, compared with what amounts are worth by the feeds; calls by anybody lose no more than it tolerates; an account that forwards loses no more than was approved; money comes home |
| `landline` | 1 deposit, 1 withdrawal, 1 of them begun, 1 sync, nodes 1 block behind, 3 blocks | a transaction of a bank transfer is one row; rows are bundled once both sides are known; outcomes are shown and nothing stays pending, in the end |

Further configurations reproduce what section 5 describes, each ending in a violation of the
property named: `MCIndexWatcherOverlap`, `MCIndexWatcherStale`, `MCAccountSyncReorg`,
`MCRequestsDecline`, `MCOnboardingBonus`, `MCNotesClaimer` (`ClaimerIfRedeemed`),
`MCLandlineStatus` (`BankStatusIsShown`), `MCLandlineBundle` (`BundledAtOnce`) and
`MCLandlineKept` (`OnChainPartIsKept`). `MCAccountSyncLive` checks the liveness of
AccountSync (`EventuallySeen`, `PendingResolves`) with one sync and one reorg, and passes.

### Bounds and why they are enough

- Two of what races: two ticks, two syncs, two declines, two calls of `createAccount`, two
  loads of notes. The hazards listed are between a pair; the theorems cover any number.
- Blocks: three let a batch of two end below the tip, leave a block for the next and hold a
  row of each kind of indexer, one block being empty for the late-checking one. For
  `sync` two suffice, one of them replaced, and for `landline` three: one to begin a
  transfer in, one that mines it, one after its deadline.
- One failure and one restart reach every partial effect; a second restart begins again
  from a state the first could have left, and memory does not survive it.
- Transfers: two bridged ones have consecutive nonces of one account, the tipped one has a
  provider's margin; a third provider would only fail earlier.
- `Deadline = 1` makes the deadline of an op fall on a block that may or may not include it.
- `MaxCount` bounds how often `use_count` is incremented; 2 exceeds the single use.
- `MaxPolls = 1`: a second poll of a phone carries what a later one would.
- `notes`: three logs are a note, its redemption and a second note of the same owner.
- `keys`: `MaxKeys = 2` puts both limits, full and last, within reach of two keys; four logs
  are two additions, a removal and one more change.
- `sender`: `MaxTxs` is `Calls` times `MaxAttempts`, so that no call lacks a nonce.
- `coins`: four transactions are a name, two receipts and a swap; two tokens tell a match by
  amount from one by token.
- `assets`: 100 and its half are large enough for the truncated tolerances to be more than
  zero and small enough for them to be off by a unit; the offset −1 stands for any
  delivery that is too small. The markets are one that agrees with its feeds, one that
  does not, and one whose feed is old; the seven tokens are the native coin, stablecoins,
  and tokens with a feed, a pool, or both. One token is approved (`Approvable`): approvals of
  two would only add up, as they do in the theorem.
- The passing runs allow a stop (`CHECK_DEADLOCK FALSE`) because the bounds end every
  behaviour: blocks, calls and restarts run out.

Larger instances of the safety properties were explored apart from the runs: `sync` with three
blocks and one reorg (12.2 million states); `keys` with three slots and `MaxKeys` 3, no restart
(1.7 million); `coins` with five transactions, one foreign token, no restart (2.2 million);
`onboarding` with two names on one chain (0.3 million); `landline` with two syncs (9.3
million). The refinement and the invariants held.

### Fairness

- `IndexWatcher`: the event loop runs what is resolved, Postgres answers, the timer fires.
  Failures, restarts and new blocks are never required; notifications are not either, as
  the timer alone starts ticks.
- `FastCCTP`: CCTP delivers what was burned and somebody claims, which anybody may do and the
  recipient gains from. Fast finishes are optional.
- `AccountSync`: blocks come and become final, the API polls, the phone's timer fires.
  Requests may fail any number of times but not for ever (strong fairness of arrival,
  answer and application).
- `Requests`: IndexWatcher keeps loading, and the lookup of a name answers, since it catches
  what ENS throws. Declines may stall anywhere.
- `Onboarding`: the timer of the onboarding screens polls; strong fairness, because a
  restart of the app or a failed query may come between any two steps. No fairness of
  `createAccount`, `deployWallet` or their answers.
- `EphemeralNotes`, `NoteNotifications`: the watcher keeps loading, and the lookup of a name
  answers, with or without a name.
- `AccountKeys`: the index keeps loading, the phone keeps syncing, and some answers arrive
  however many are lost. Nothing is required of ops or users.
- `TxSender`: every step of a call answers or fails (the wait for a receipt has a timeout of
  its own, requests have viem's); the lock is given to every waiting call in turn. The
  sequencer is not required to mine anything.
- `TransferClogs`: the watcher ticks, the queries nobody awaits are answered, events of the
  other chain are indexed. `ToldInTheEnd` speaks of behaviours in which restarts end.
- `AccountAssets`: the market is calm again and again, market makers take what pays them
  (`DaimoFlexSwapper.sol:30`), the bridge delivers, somebody collects, swaps and forwards.
- `LandlineTransfers`: blocks come, become final and are indexed; the timer syncs, and
  answers computed from a node that is up to date arrive again and again. Nothing is
  required of banks and users.

## 4. What is proved

All theorems hold for every value of the constants under the module's named assumptions:
numbers that are natural, special values outside the sets they mark, finite sets where
something is counted or added up (`CCTPAssumption`, `CoinsAssumption`), every indexer in
exactly one layer (`LayeringAssumption`, `daimo-api/src/server/server.ts:114`), markets whose
rounds and pools have the types the contract reads (`AssetsAssumption`). The bounds of the runs are constants too, so that a theorem is about any number of ticks, syncs,
loads, phones or restarts.

| Theorem | Property |
|---|---|
| `WatcherTypeOK`, `NeverAppliedTwice`, `WatcherImplementsLog`, `IndexComplete`, `LayersInOrder` | types; `AppliedAtMostOnce`; `ImplementsIndexLog`; `CompleteUnlessDisturbed`; `LayersInOrderUnlessDisturbed` |
| `CCTPTypes`, `ClaimsAreKept`, `MoneyIsBacked` | types, so no balance is negative; `ClaimsKept`; `ClaimsBackedByBurns` |
| `SyncTypeOK`, `HistoryMissesNothing`, `BalanceAgreesWithHistory`, `FinalTransfersStay`, `DroppedOpsAreDead` | types; `MissesNothingIndexed`; `BalanceIsOfHistory`; `FinalStaysFinal`; `DroppedIsDead` |
| `RequestsTypeOK`, `IndexFollowsChain`, `DeclinesAreStored`, `DeclinesAreRemembered` | types; `FollowsChain`; `DeclinedIsStored`; `DeclineRemembered` |
| `OnboardingTypeOK`, `AccountExists`, `BonusesWithinUses`, `AccountKept` | types; `AccountIsOnChain`; `BonusWithinUses`; `AccountIsKept` |
| `SenderTypeOK`, `NothingAfterReturn`, `SenderKeepsPromise` | types; a call that returned is executed no more; `KeepsPromise` |
| `KeysTypeOK`, `ContractCountsKeys`, `IndexIsTrueAndComplete`, `KeyMissingOnlyIfRemoved` | types; `CountIsKeys`; `IndexFollowsLog`; `MissingOnlyIfRemoved` |
| `NotesTypes`, `MessagesRight`, `IndexFollows` | `AllTypeOK`; `NotifiedRightly`; `FollowsContract` |
| `LandlineTypes`, `OneRowPerTx`, `RowsAreBundled` | `LandlineTypeOK`; `EveryTxIsOneRow`; `BundledOnceKnown` |
| `ClogsTypes`, `ClogsInvariant`, `InboxIsHeld`, `HistoryIsTrue` | `TypeOK` of `coins`; the inductive invariant; `PendingIsHeld`; `ClogsTellTruth` |
| `AssetsTypes`, `MinimumIsDocumented`, `NothingIsLost`, `NothingOwedIsLost` | types; `PricedAsDocumented`; `ValueKept`; `OffboardedIsWhole` |

Every invariant and every action property of the passing runs, and the refinements of
`IndexLog` and `ChainCalls`, are theorems.

The type invariants called `TypeOK` of these modules, and `AppliedAtMostOnce`, `FinalStaysFinal`,
`DeclinedIsStored` and `DoneIsOver`, are left to the proofs and not repeated in the runs.

The argument is in each case an invariant that every step keeps, checked by TLC before it was
proved:

- *IndexWatcher*: ranges under way are not empty, and a checked indexer holds nothing above
  `lastProcessedBlock`. A load that is not stale therefore lies above everything applied,
  which gives both the count and the refinement step. Overlap needs no case of its own: the
  check and the application happen in one turn of the event loop. For completeness, while
  nothing is disturbed at most one caller loads (`OneCaller`), its batch begins after `latest`
  (`BatchFollowsLatest`), the loads under way are of its present layer
  (`LoadsOfTheLayer`), and an indexer holds all up to the end of the batch if its load is done
  and all up to `latest` otherwise (`BatchOrLatest`). An indexer of an earlier layer is
  done, which is also why the layers are in order.
- *FastCCTP*: a transfer that was fronted or claimed has a recorded recipient, and a fronted
  one that provider; whatever the order of calls, the second of a claim and a fast finish
  then finds the record of the first. Only the bridger starts transfers from its own
  address, with nonces it has already counted. The money is a sum over accounts, handoffs and
  messages under way: general lemmas say what a sum does when one entry changes, and
  `MoneyConserved` and `Accounted` (what was claimed of a transfer, is in its handoff and is in
  transit to it is no more than was burned for it) follow for each call from the entries it
  touches.
- *AccountSync*: nobody's heights are ahead of what they come from; every answer is complete
  between the block it was asked from and its last block; no sync under way starts above
  the account's finalized block unless `undercut`; what the account keeps below that start
  is complete. Merging then leaves no gap. An op is dropped by the phone's clock, an answer's
  last block: `InTime` says that the deadline the phone assumes is not before the signed
  one, that no block holds an op after its deadline, and that the index has all blocks up
  to the one loaded; an op not in the index by then is in no later block either.
- *Requests*: `Reached`, `Known` and `FulfillKnown` say which events the load under way has
  applied, by its stage and by the handlers still awaiting; an entry nobody declined is the
  original object in the state those events amount to; a decline under way whose insert is
  done is in the database, and one in the database is shown or about to be.
- *Onboarding*: `Backed` traces whatever stands for an account (saved, returned, found,
  named) to the chain, where names are unique. `Counted` relates two sets of calls to the
  count: those that have counted a use and may still get a bonus are at most `use_count`,
  and those let through are at most `max_uses`, because when a call is let through the
  count it reads includes everybody let through before.
- *TxSender*: nonces come from the chain, so a waiting transaction is always the next to be
  mined (`AtTheEnd`) and at most one waits. The one a call waits for therefore carries that
  call, or was the last to be mined (`ReceiptIsOwn`), and nothing is left of a call once it
  returns (`DoneIsOver`). Every step then maps to an action of `ChainCalls` or to none.
- *AccountKeys*: `LogIsHistory` makes the contract a function of the log, so a key is active
  after a prefix of the log if its last entry there is an addition; the index shows the keys
  of the prefix it has loaded, since a removal takes out all slots of a key and a key added
  again gets an entry of its own. The count changes with the set of active slots by one.
  `KeyShown` carries "shown or removed by some entry" from the index through answers under
  way to phones; it needs `Ready`, as an index being rebuilt does not show what it will.
- *EphemeralNotes*: of the contract, the note it holds is the last log of its owner
  (`HeldIsLast`) and every redemption is of the creation right before it (`RedeemsOne`), so
  an owner used once is redeemed once. Of the index, the ranges of loads follow each other
  (`LoadsApart`); what it holds comes from logs no load has before it (`NotesSeen`); how a
  note ended is what some redemption of its owner says (`OutcomesTrue`); and a load that
  awaits the name of a claimer is alone with the note it marked (`NamingMarked`), or, when
  it awaits a sender's, nothing is shown for that owner unless loads overlap
  (`NamingFresh`). The last two are what an await could break.
- *NoteNotifications*: every message under way or sent is true, and a sent one has its row
  (`MessagesTrue`). A load tells of notes it has handled, whose outcomes are true by
  `OutcomesTrue`, and the chain does not take back what it has logged.
- *LandlineTransfers*: an answer under way is the `Join` of the logs in its range with what
  Landline told of each transfer, which is what Landline knows now or knew before; what it
  did not tell began no earlier than the first block asked for (`Told`). `RowsTrue` gives the
  rows of bank transfers their time, so a row that is not told again is kept and one that
  is told again is replaced: the three cases of a merge are that the answer tells nothing of
  a transfer, tells of it without its transaction, or with it. `behind` excludes only that
  an answer starts above what the phone keeps as final (`SyncTrue`).

- *TransferClogs* and *ForeignCoins*: three parts, named in `TokensProofs`. `ChainInv` is
  about the chain: what the transfers of each kind of transaction look like (`Shape`), and that
  what accounts hold is what came less what went (`Balanced`). `IndexInv` is about the
  foreign coin indexer, and is stated for the middle of a block (`Fits`, after the first `j`
  logs of block `i`), because what holds between two logs is what a log needs. For each
  account: pending receipts add up to no more than the balance, and the balance to no more
  than is held (`AtMostHeld`); nothing is there before the name (`NothingYet`); of an account
  that sends only what it received, they add up to all that is held (`AllHeld`); what is
  pending came, and before the log now read (`Came`); an origin is a receipt of an earlier
  transaction, of one swap, and not pending any more (`Origins`). A log is a receipt, a swap of
  a pending receipt, a send in bulk, or of somebody else: one lemma for each, then one
  induction over the logs of a block and one over the blocks of a load. `FoundInv` says
  that of each transaction only its own transfers, or the start of its own, were loaded; the
  two queries of `loadClogTransfers` may leave it with the former alone. A search among the
  transfers of a `paySwapped` then ends at what was bought, whichever walk it takes, since
  money passes through the exchange once.
- *FlexSwapper*: `Worth` compares amounts of two tokens in a fraction of a dollar in which both
  are whole numbers, by powers of ten and not by division. A quotient rounded down is off
  by less than one unit (`Division`, `ShiftedQuotient`), so the reference lies within a unit of
  the worth of the input (`ReferenceIsWorth`), 99% of it rounded in the account's favour
  (`MinimumIsPriced`), and the pools within a 25th of it (`EstimateIsClose`). The quotes
  of pools and hops need only be natural numbers.
- *AccountAssets*: types, which give that a market is one of the given ones, and `KeptOf`, which
  says of one token and one step what `ValueKept` says; each action is a case, and a swap or a
  collect brings what the swapper asked for (`SwapIsFair`), through the tip pool or not.
  `OffboardedIsWhole` is not inductive, since a spender may take what was approved:
  `OffboardedInv` has that what is kept covers what is owed and all that is still approved.
  A taking lowers both sides; a batch or a signature that would raise an approval needs an
  account that does not forward; a swap or collect of a stablecoin brings as much
  (`SwapIsFair`). The sums are cardinalities (`Total`), and `TotalMoves` says what a step that
  moves an amount does to one.

Recursive functions (`Pow10`, the states of a batch of calls, of a block and of a load) are
proved about by induction over the numbers in a set, `Induction`, which follows from the
library's theorem that `<` is well founded on `Nat`; that such a function is what its equation
says is proved once (`RunExists`, `RunUpto`). The induction theorems of the library take an
operator as a parameter, which the provers here cannot be given.

Only model-checked are the liveness properties, as TLAPS has no support for fairness and
`ENABLED` here: `CatchesUp`, `StartedIsClaimed`, `SettledIsShown`, `FoundOnceDeployed`,
`ShownInTheEnd`, `AddResolves`, `EveryCallEnds`, `ToldInTheEnd`, `ComesHome`, `OutcomeShown` and
`NothingStaysPending`.

## 5. What the code does differently from what it says

Shown by the run `keys_delete`:

- `DeviceScreen.tsx:121`: the comment (line 113) says that a phone that removed its own key on
  chain deletes it. The code deletes it when `sendUserOpV2` returns, and that call returns
  even if the op was never mined (`bundlerClient.ts:91`) or reverted.

Shown by the further configurations of section 3:

1. `indexWatcher.ts:143`: a tick that skips clears the flag of the tick it skips for, so that
   ticks do overlap.
2. `indexer.ts:24`: the stale check looks at the first block of a range only, so after a
   partly failed batch blocks are skipped that no indexer has seen.
3. `sync.ts:137`: the phone is not guaranteed to see all events after a reorg, because the
   API does not load a block twice.
4. `requestIndexer.ts:306`: a decline replaces a request that was settled during its insert.
5. `inviteCodeTracker.ts:39`: the attestation is checked before and recorded after the
   payment, so overlapping calls of one device are both paid.
6. `daimoLinkStatus.ts:119` says that a note has no claimer only while it is not claimed; the
   indexer sets the status before it awaits the claimer's name.
7. `op.ts:283`: the status of the bank is to be shown, but a row whose block is final is shown
   as final though the bank is still processing the transfer or has failed it, as the
   block of a bank transfer without a transaction is a guess that becomes final too.
8. `syncLandline.ts:24`: rows of one bank transfer are bundled, except the row the phone adds
   when it begins a deposit, which stands beside the answer's until its deadline.
9. `syncLandline.ts:28`: the part of a row that is on chain is kept, but a row already
   final when its transaction is mined keeps the block it guessed.

Read in the code, or met while modelling, and not stated as a property:

- A receipt of one token is forgotten when another token received in the same transaction
  is swapped or sent in bulk (`foreignCoinIndexer.ts:177-206`).
- A payment with a fee may be told from the row of the fee (`ClogMatcher.ts:250`), so its
  destination is missing; an arrival whose start is indexed late has no origin until the API
  restarts.
- `homeCoinIndexer.ts:123`: listeners are called before the query that finds the origin of
  what they tell of has begun.
- What an account received before its name was registered is counted if both are loaded
  in one batch, and not otherwise.
- `DaimoSwapbotLP.swapAndTip` with an ERC-20 input takes it from a caller who has sent it
  already (`DaimoFlexSwapper.sol:200`), so it works for the native coin only.
- Stablecoins are exchanged one for one in their least units, whatever their decimals
  (`DaimoFlexSwapper.sol:277`), and quotes below 25 units never pass the check of line 302.
- An amount worth less than one unit of the output has reference 0, which the code takes for a
  pair without a reference: it is priced by the pools alone, less 2%, and compared with
  nothing (`DaimoFlexSwapper.sol:288`). `PricedAsDocumented` therefore claims the comparison with
  the pools for amounts worth a unit.
- Setting a forwarding address "deactivates the account's own functionality"
  (`DaimoAccountV2.sol:69`), but what its owner had approved before may still be taken of
  what the account has or later receives. `OffboardedIsWhole` therefore leaves it out.
- A failure to save a memo makes `sendUserOpV2` fail although the op is sent, and a failure
  of Landline makes the whole sync fail.

## 6. Not modelled, and why

Parts with no module of their own:

- `DaimoAccountFactoryV2`, `DaimoPaymasterV2`: one idempotent deployment, which Onboarding
  sees, and the bookkeeping of ERC-4337, which has no order of its own to get wrong.
- Payment memos and the invite graph: a row inserted once and a cache filled after it.
- Caches of prices, profiles and tokens: no document says how old a value may be, so there
  is nothing to hold them against.
- `forceRegister`, aliases and the resolution of names: lookups over maps that only grow.
- `createRequestSponsored`: its transaction is the creation of a request in `Requests`.
- Cron jobs, telemetry, router, database, notifier: they pass on, measure or store. What
  matters of them, ticks, the readiness gate, atomic statements, is in the modules.
- Screens, translations, QR codes, migrations, the web app: no protocol state. Generated
  ABIs, token tables and word lists, the largest files of the repository, are data.

Left out of the modelled parts:

- Signatures, gas and the encoding of calls; in AccountAssets the gas an account without a
  paymaster pays (`_payPrefund`), a cost of every op.
- Of the calls a batch makes of other contracts, all but what they send and approve. An
  approval is an amount that is used up: one without a limit, which some tokens do not lower,
  is no bound on anything.
- A query that has used up the retries of `retryBackoff` is a failure of its caller where one
  awaits it. The loads that `opIndexer.ts:94` and `homeCoinIndexer.ts:125` start and
  do not await have nobody to fail to: nothing in the server handles such a rejection,
  so Node ends the process, and `Restart` in TransferClogs is that too.
- The phone's clock is the chain's in AccountSync, and the two statuses `failed` and `returned`
  of Landline are one; no property tells them apart.
- Time is not measured: timeouts may fire at any moment, deadlines are blocks.
- Reorgs are in AccountSync only: the API keeps what it has loaded whatever the module, which
  point 3 above shows once.
- Invites that are payment links, the inviter's bonus and `updateInviteCode` in Onboarding;
  backup keys in AccountKeys; the owner's calls of the CCTP bridger; messages about
  transfers, requests and keys in NoteNotifications, which differ in key and text.

## 7. Plan

The modules, runs and proofs planned are done. What could be added:

1. Invites that are payment links and the inviter's bonus in `Onboarding`.
2. Transactions with several user operations in `TransferClogs`, whose fees are told apart by
   operation in the code.
3. Reorgs for the indexers, once the code says what they should do about them.
