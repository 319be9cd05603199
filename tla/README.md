# Verification of Solard

Solard (`slrd`) is a TypeScript toolkit for Solana: wallets, trades, payments,
launches, subscriptions and the RPC plumbing below them. This directory holds
TLA+ models of the parts whose correctness depends on order: what happens when
a process dies between two awaits, when two calls overlap, when an RPC node
lags behind the cluster, when a fork is dropped, when an answer is lost. TLC
checks the models on small instances; TLAPS proves what they must never do for
every value of their constants.

Paths below are relative to `src/packages/` unless they start with `src/`.

- [1. Inventory](#1-inventory): the system's parts
- [2. Modules](#2-modules): what each module models and how it maps to the code
- [3. Runs](#3-runs): what is checked, on which bounds, what it shows
- [4. Findings](#4-findings): where the code and its own words disagree
- [5. Proofs](#5-proofs): what is proved and along which argument
- [6. What is not modelled](#6-what-is-not-modelled)
- [7. Plan](#7-plan)
- [8. Running the checks](#8-running-the-checks)

## 1. Inventory

Three kinds of shared state tie the parts together: the SQLite database (one
row per execution, settings rows holding JSON for intents and payments, a table
of RPC reservations), in-memory maps and promise chains of one process, and the
chain itself, which every part sees only through RPC answers that may be late.

### Money that must not move twice

**Durable transfer-many** (`core/src/tx/durable-transfer-many.ts`).
Pays a set of allocations under a stable id.
*State:* one settings row: status, the paid allocation ids, the pending signed
batch, its attempt counter, receipts.
*Operations:* execute (new or same input), resume, and the inner loop `drive`:
reconcile the pending batch, build the next, persist it, mark the attempt,
send, confirm.
*Hard:* a crash at any await; a row that is read once and written back whole;
nodes that do not know a signature yet; expiry racing a late confirmation.
*Correct when:* no allocation is paid by two transactions, nothing sent is
forgotten, and the row never claims what the chain did not do.

**Trade settlement** (`core/src/core/solard.ts`, `tx/trade-intent.ts`,
`tx/expiry.ts`, `tx/confirm.ts`, `core/errors.ts`). One buy or sell under an
`intentKey`.
*State:* the intent row, one `executions` row per signed transaction, an
in-memory queue per wallet.
*Operations:* `runReliableTrade`, `executeTradePlan` with its attempts,
`submitPlan`, `settleSubmission`, `resumeTrade`, `reconcileTrades`.
*Hard:* a second process on the same key; `resumeTrade` beside a running
operation; an attempt replaced after its blockhash expired; a buy refused by
preflight that is signed anew in the same attempt; errors whose text decides
whether anything was submitted; a store write that fails after the
outcome is known.
*Correct when:* a key never has two live transactions; whatever was sent is
journaled first; "confirmed" is the truth and "failed" is final.

**Cumulative distribution** (`core/src/distributions/cumulative.ts`).
Entitlements per wallet that grow over time; the difference to what was paid is
sent in batches. A plan saves new entitlements without paying.
*State:* one settings row with entitlements, paid amounts, one pending batch, a
dead-letter list.
*Hard:* two executes that each carry their own copy across many awaits
(`:389`); a failure seen at processed commitment (`:449`); an uncertain state
that refuses every later execute (`:657`) although it is described as "blocked
until reconciled" (`:563`); a crash between the persisted attempt and its effect
(`:489`); a late confirmation that exceeds what is still owed, so that a guard
throws after the money has moved (`:517`).
*Correct when:* for every wallet, paid plus pending never exceeds its
entitlement, and what landed is counted once.

**Creator reward claim** (`core/src/rewards/creator-claim.ts`,
`core/src/claims/*.ts`). Claims fees under a stable id.
*State:* one settings row per id: prepared, submitted, confirmed, failed or
uncertain, with the signature. *Operations:* prepare, execute, resume.
*Hard:* two claims both find no state and each signs (`:840`); "submitted" is
written before the send (`:932`); the row is read again at finalisation while
callers hold a copy they may still write (`:638`).
*Correct when:* an id is claimed by one transaction and its signature is never
forgotten.

**Pump buyers** (`core/src/launches/pump/pump-buyer-spam.ts`, `spam-buy.ts`,
`spamDependentBuy` in `token-launch.ts`). Loops that build, send, poll and
rebuild a buy for one wallet while a token is launched.
*State:* the buy being sent, the signatures watched; nothing durable.
*Hard:* an expiry check that falls between two throttled status checks
(`pump-buyer-spam.ts:522`), answers that are lost, several live generations of
one buy (`spam-buy.ts:391`).
*Correct when:* a buy that was seen is never followed by another one.

**Pump launch** (`token-launch.ts`, `armed-buyers.ts`,
`tx/senders/jito-sender.ts`). Deploys a token and runs the buyers' loops; or
sends all of it as a bundle, in generations, each of which is watched only
until its window closes though its blockhash stays valid
(`token-launch.ts:2828`); or first releases a process of armed buyers. **Launch
sessions** (`core/src/pump-launch-session.ts`) and the **vanity mint pool** keep
rows in the database.

### What every request depends on

**Blockhash cache** (`core/src/chain/blockhash.ts`).
*State:* the cached value, a generation, a map of pending requests, timers.
*Operations:* `get`, `refresh`, `start`/`stop` of warming, `invalidate`.
*Hard:* a response that was asked for before `invalidate` and arrives after; a
`finally` that runs after its map entry was replaced.
*Correct when:* a `get` after `invalidate` never returns an older blockhash.

**RPC gate and transport** (`core/src/chain/shared-rpc-window.ts`,
`chain/connection.ts`).
*State:* the table of reservations; per request its chunks and retries; the
endpoint pool's health.
*Hard:* the clock is read before SQLite's lock is held
(`shared-rpc-window.ts:53`); two windows prune one table (`:73`); a batch is
split so that each part fits (`connection.ts:156`); failover between endpoints
of different heights.
*Correct when:* the budget holds over every interval, and the wait a caller is
told is never early and late by no more than its clock was.

**Account cache** (`core/src/chain/account-cache.ts`): a TTL map without
generations: a load started before `invalidate` stores its old value after it
(`:17`). **Raw transaction cache** (`core/src/events/raw-transaction-cache.ts`):
a transaction cached at confirmed commitment is served for ever (`:455`).
**Jupiter transport**: a rate limiter on a promise chain. **Composer and
senders**: compile, simulate, send one transaction or a bundle.

### What watches the chain

**Live trades** (`sdk/src/live.ts`, `core/src/market/launch-trades.ts`).
*State:* the watched mints, the subscription of one of several endpoints, a
feed of migrations, the set of trades seen, two promise chains.
*Operations:* subscribe, add and remove tokens, fail over, refresh a migrated
token, renew the feed, close.
*Hard:* the token list read when a failover subscribes (`live.ts:428`);
`close` overtaking a failover or a renewal (`:451`); jobs of one chain that
await jobs of the other (`:548`); a bounded set of seen trades (`:394`); a log
whose decoding ends after its token was removed and added again.
*Correct when:* a watched token is always listened to, nothing is open after
close, close waits for nothing but the node, and a failover delivers nothing
twice.

**Live trade history** (`core/src/market/live-trade-history.ts`): a shared
writer with a bounded map of unwritten rows, flushed on a promise chain; rows
replaced by ones of higher confidence during a flush (`:241`), waiters that all
pass one bound (`:286`), a close that fails and is repeated (`:313`).

**Watcher** (`core/src/runtime/watcher.ts`): `start` does not await `stop`, whose
continuation empties the list of ids that `start` has filled (`:57`).

**Portal listener** (`core/src/pump-listener.ts`): a cursor on a stream that
forks, with a bounded memory of headers (`:858`) and of delivered events.
**History replay and token events** walk RPC pages and write idempotent rows.
**Pump live services** project a public feed and put a circuit breaker before
metadata hosts (`metadata-circuit.ts:39`).

### The rest

Routing, pricing and venues (functions of quotes and accounts), transfer
packing (functions of byte sizes), sweeps and liquidation (sequential loops
that re-read balances), the database layer, agents, signals, workflows and
strategies, the SDK client, the browser SDK and the CLI. Section 6 says why
each is left out. `PROJECT.json` lists every component with its files and every
hazard with its line.

## 2. Modules

| module | models | status |
| --- | --- | --- |
| `PayOnce` | the abstract promise of a payment flow | refined by the next two and by `CreatorClaim` |
| `PayOwed` | the abstract promise of a flow whose debts grow | refined by `CumulativeDistribution` |
| `DurableTransfer` | `tx/durable-transfer-many.ts` | checked, refinement checked, proved |
| `TradeSettlement` | `core/solard.ts` and its helpers, under an `intentKey` | checked, refinement checked, proved |
| `BlockhashCache` | `chain/blockhash.ts` | checked, proved |
| `RpcWindow` | `chain/shared-rpc-window.ts`, the transport of `chain/connection.ts` | checked, proved |
| `Cluster` | what the calls below know of Solana (external) | part of the next three |
| `CumulativeDistribution` | `distributions/cumulative.ts` | checked, refinement checked, proved |
| `CreatorClaim` | `rewards/creator-claim.ts`, claims with an id | checked, refinement checked, proved |
| `PumpBuyer` | the loops of `launches/pump/` that buy for one wallet | checked, proved |
| `LiveTradeHistory` | `market/live-trade-history.ts` | checked, proved |
| `PortalCursor` | `pump-listener.ts`, its cursor | checked, proved |
| `LiveTrades` | `sdk/src/live.ts` on `market/launch-trades.ts` | checked, proved |
| `Services` | `CumulativeDistribution`, `CreatorClaim`, `PumpBuyer`, `LiveTradeHistory` and `PortalCursor` in one process, in any interleaving | checked one at a time, proved interleaved |
| `ServiceProofs` | theorems of `PumpBuyer`, `LiveTradeHistory`, `PortalCursor` and `Services` | TLAPS |
| the other `*Proofs` | theorems of the module they are named after | TLAPS |
| `MC*` | harnesses, symmetry sets and small constants for TLC | |

Conventions shared by all of them:

- **A step is the code between two awaits.** JavaScript runs to completion, so
  nothing interleaves inside it; everything may interleave at an await. A
  variable `pc` (or a field of a record) names the await a call is at.
- **SQLite is atomic per statement and durable**; one JSON row is one variable.
- **A transaction is its content.** Signing is deterministic (Ed25519 over
  compiled bytes), so two transactions with the same batch, input and blockhash
  have the same signature and are the same record. The blockhash is abstracted
  to the last height at which it is valid.
- **The cluster** is a function `net` from transactions to what has become of
  them: not sent, in flight, processed (well or with an error), confirmed. A
  processed transaction can fall back to in flight when its fork is dropped. RPC
  answers are drawn from a set of *views*: an answer may be as old as "not
  found" and is never newer than the truth.
- Operators whose comment begins with **Slip** are plausible mistakes, each
  placed before the definition it distorts. No specification uses them. They
  are listed as mutants: with the slip in place of the original, TLC must find
  the property violated, so each property depends on the code it is about.
- The configurations with `CHECK_DEADLOCK FALSE` are those of models whose
  heights are bounded: at the last height, with every call returned, the system
  has stopped because the bound was reached. `BlockhashCache` and `RpcWindow`
  never have to stop and are checked for deadlock.

### PayOnce

For a set of allocations: `paidBy` (which transactions moved it) and
`reported`. A step moves a batch nobody has moved yet, or reports what has been
moved. Nothing is ever withdrawn.

### PayOwed

For a set of payees three amounts: `owed`, `got`, `booked`. A step raises what
is owed, pays several payees something they are owed, or books something they
have got. No amount ever falls.

### DurableTransfer

`db` is the settings row and `mem[d]` the object the call `d` carries, because
the code loads the row once and writes the whole object back after each change.
A row has status, paid ids, pending batch, a flag for `submissionAttempts > 0`,
and receipts. The awaits are `pack` (before the intent is saved), `status`,
`reconfirm`, `parsed`, `height` (the four requests of `reconcilePending`),
`build`, `submit`, `send` and `confirm`. Each action's name is that of the
function or request it follows; the map in `PROJECT.json` gives the lines.

`Crash(d)` is both the death of the process and any exception that leaves the
call: in each case the copy is lost and the row stays. `packTransferMany` cuts
batches by byte size; the model takes any non-empty prefix of the unpaid
allocations, in their sorted order, as the first batch.

Two flags say under which circumstances the code is used. `Serial`: calls for
one id do not overlap. `FailedCanReland`: a failure that was seen at processed
commitment can be dropped with its fork and the bytes executed again. The second
is what Solana does; it is a flag because the code's reasoning excludes it, and
both sides are worth a run.

`ExecuteFails` is not offered at the last height of the exploration: a rebuild
with the very same content would otherwise be taken for the transaction that
failed, which cannot happen with real blockhashes.

### TradeSettlement

`intent` is the settings row of the key, `execution[t]` the status of the row of
`executions` with that signature, `queue[p]` the promise chain of the wallet in
process `p`, `job[c]` where a call is and what it holds, `told[c]` what it
answered last. A call is queued (`runReliableTrade`), claims the key by the
insert of a unique row, and either operates (build, journal, record, broadcast,
settle, replace, save) or resumes (`resumeTrade`: stored result, one second of
confirmation, settlement of the stored bytes, a last inspection of expiry).

A buy that is refused for its price (PumpSwap 6040) is submitted once more in
the same attempt (`core/src/core/solard.ts:3023`): `SubmitAgain`, after which
`again` is set. When the simulation refuses it, nothing has been signed. When the
preflight of its send refuses it, which takes `skipPreflight: false` (the default
is true, `:2506`), the refused transaction is in both journals and unexpired when
the second one is signed. The flag `Resubmits` is a buy that is simulated and
sent with preflight; `requoted` is the fresh quote, by which the second
transaction may differ from the first although their blockhash is the same.

The tip and the finalized height are both variables: the blockhash of a
transaction is spent only when the *finalized* height has passed it, while the
tip may belong to a fork that is abandoned. `inspectExpiredSubmission` makes
three requests; `OneNode` says that they reach the same node, so that a node
which has finalized past the last valid height knows every execution before it.

The other flags: `ResumeWaits` (nobody resumes a key while an operation runs),
`SendRetried` (the transport may repeat a send whose answer was lost, so that the
preflight of the repeat can be refused although the first copy has left),
`StoreMayFail` (a write of the intent may throw, which `runReliableTrade`
swallows).

Left out: fees other than through the attempt number, position bookkeeping
after a trade, calls without an `intentKey` (one attempt, no row), and the
quotes and balances a plan is built from.

### BlockhashCache

A request crosses three turns of the event loop: the `then` that stores the
value when the generation is unchanged, the `finally` that removes the pending
entry if it is still its own, and the continuation of those that awaited it.
Every other step can fall between them. A blockhash is abstracted to the
connection asked and the generation in which it was asked: the only things the
properties tell apart. `Respond` and `Fail` may never come: the transport has no
timeout of its own.

### RpcWindow

Times are counted back from the present, which keeps the state finite without
bounding the run: the age of a reservation, the lag of a caller since it read
the clock. `reserve()` reads the clock first and takes SQLite's write lock
second, so a row can be stamped up to `busy_timeout` in the past; `LockWait` is
that bound, 0 for the window of a single process. Rows of one stamp are counted
and pruned together and tell a caller the same wait, so `rows` is the load of
each age; `Total` sums the ages below one. `starts` is a history variable
of what really started when, which the properties compare to the budgets.
`told[c]` is the wait a refused client still sleeps, the lag of the `reserve()`
that told it, and (history) whether nothing was reserved since.
`Chunks` is the batch splitting, `Retry` and `GiveUp` the loop of
`solardRpcFetch`.

### Services

The frame for five components: the variables of all, and a step of one that
leaves the variables of the others alone. Three of them share the cluster, in
which the transactions of each are its own (`ApartAssumption`: a transfer, a
claim and a buy differ in their instructions); the height is everyone's.

### Cluster

The fate of each transaction, the height and the answers of a lagging node, as
in `DurableTransfer`, for the three modules whose calls pay through it. A
*world* says what a run assumes: `serial` (calls of one id do not overlap),
`reland` (a processed failure may be dropped and the bytes land again) and
`repeat` (two builds may be given one blockhash, so that two batches of the same
amounts are the same transaction).

### CumulativeDistribution

`row` is the settings row, `copy[c]` the object call `c` carries and writes back
whole. Both entry points are calls: a plan applies entitlements and saves; an
execute applies them and loops over prepare, `reconcilePending`, build and
`submitPersisted` with all their awaits. Where a batch is cut is decided by the
wallet's balance and by byte sizes, so a batch is any prefix of what is
outstanding, ending even inside one recipient's amount.

### CreatorClaim

The row with its pinned transaction and its checkpoint, and a call that carries
a copy of it: a new claim pins before it sends, a resume reconciles by status,
second confirmation, transaction history and height, resubmits the same bytes,
and finalises after reading the row again.

### PumpBuyer

One loop is chosen at the start. The careful one polls the status and the height
at intervals of their own, so either can be skipped in a round. The other two
replace a buy by the clock, and differ in what they watch afterwards.
`executePumpTokenLaunch` runs one loop for each wallet and they share nothing.

### LiveTradeHistory

`refs` counts the recorders of one path, `pending` the rows that wait, `stored`
the database, by confidence. A drain runs in one turn and may fail after some
batches, which leaves the batch that failed both waiting and stored. `record`
waits for room behind one flush; `close` waits for active records, flushes,
releases the writer, and may be repeated if the flush failed.

### PortalCursor

A block is the set of tokens created in it and its hash is the chain up to it.
The source extends its chain or moves to another branch at any time, also while
a response is being read, which continues from the chain it was begun on. What
the client cannot survive is a fork deeper than `REORG_REWIND` once its header
memory is of no help: `Fork` drops no more blocks than that. The memory is the
JavaScript map in the order of first insertion: `Remembered` adds and evicts,
`RemovedAfter` drops what the fork has undone.

### LiveTrades

Two promise chains are sequences of jobs whose first one runs, at an await. A
job of the listener that calls the pool appends a job there and waits for it.
The pool's health check opens another core subscription, with the tokens of the
current one, before it closes that; the listener renews its migration feed in
the same manner, keeping both until the new one listens. `PoolUnsubscribes` and
`ListenerUnsubscribes` name the awaits of a node's answer that nothing bounds. A
log becomes a trade in flight, which reaches `onTrade` when its decoding ends.

## 3. Runs

Every run is a question. "Pass" runs hold on every reachable state of their
instance; "violation" runs are section 4.

| run | instance | question |
| --- | --- | --- |
| `durable_serial` | 2 allocations, 1 input, 2 calls that do not overlap, heights 0..2, a blockhash valid 1 block and at most 1 block old | Is nothing paid twice or forgotten, whatever crashes and forks? Does the row implement `PayOnce`? |
| `durable_live` | 1 call, heights 0..1 | Does every intent end, and is every landed payment found? |
| `trade_one_process` | 2 calls of one process, 2 attempts, heights 0..4, validity 1, a buy with preflight (`Resubmits`) | Is there one trade at most per key, and are the answers true and stable, also when a refused buy is submitted again? |
| `trade_processes` | 2 processes asking for different trades under one key, `ResumeWaits` off, `SendRetried` and `StoreMayFail` on, no preflight (the default), bounds as above | What still holds when callers overlap, writes fail and sends are repeated? |
| `trade_live` | 1 call, heights 0..3, no preflight | Is a submitted trade resolved by resuming it? |
| `blockhash_cache` | 2 callers, 2 connections, 1 warmer, 3 live requests, 1 invalidation, TTL of 1 tick | Whose blockhash does `get` return, and does it return once its request is over? |
| `rpc_window` | 2 clients, 2 requests in 3 ticks, 1 send in 4 ticks, lock wait 1, 1 retry, 5 batches | At what rate do requests start, and is the told wait right for who waited for the lock? |
| `services` | five components, one at a time (below) | What is paid, claimed, bought, recorded and reported through crashes, overlaps, forks and failing flushes? |
| `live_trades` | 1 token, 2 trades, 1 failover, 1 migration, 2 jobs waiting, a filter of 1 | Does a failover lose or repeat anything, and does close end if the unsubscriptions do? |

`services` explores `Services` one component at a time: `machine` is the one
that moves while the others rest, so its states are a sum and not a product.
That nothing is lost by it is a theorem (section 5): `HarnessIsServices` says
that the run explores a part of the composition, `ServicesAreSafe` and
`ServicesImplement` that what holds of the parts holds of the whole. Its
instances: a distribution with 2 calls, 2 recipients whose entitlement grows
from 1 to 2 (1 recipient paid when calls overlap), 2 signed transactions; a
claim with 2 calls and 4 transactions; each of the buyer's loops with 3 buys;
heights 0..1, and validity 0 for the distribution; 2 recorders of different
confidence, 2 records under way, 3 keys, a map of 1 and batches of 1; a chain of
4 blocks, 2 forks, 2 remembered headers, 2 headers told by a conflict, a rewind
of 2. The four worlds are: serial calls and final failures, with and without
builds that share a blockhash; serial calls and failures that land again;
overlapping calls. The last two have no shared blockhashes, so that
`PaidIsReceived` says something of them.

### Properties

**DurableTransfer.** `PaidAtMostOnce` is the promise to the user; the passing
run checks it as part of `PaysOnce`, the refinement of `PayOnce` (paid means
confirmed on chain, reported means marked in the row), and section 5 proves it.
`NothingForgotten` says what makes a crash harmless: anything that may have
moved money is pinned with its attempt marked, or receipted.
`RecordMatchesChain` relates row and chain: the receipts are confirmed and cover
exactly the paid allocations. (Its run has calls that do not overlap; that it
survives overlapping ones is the theorem `RecordIsTrue`.)
`ReplacedOnlyWhenDecided` is the step property behind all of these.
`EveryIntentEnds` and `LandedIsRecorded` are liveness, and the second holds for
rows that were given up as uncertain as well. `OneUnresolved` (the contract's
"only one batch may be unresolved"), `UncertainKeepsPending` (the dead end is
recoverable) and `SerialCopies` are proved and not run.

**TradeSettlement.** `OneTradeAlive`: over all calls, processes, attempts and
restarts, a key never has two transactions that have traded or still may.
`ReplacedOnlyWhenClosed` is the step property behind it: a transaction is
journaled only when each earlier one is closed, that is expired for good and in
no block, or was refused by a preflight and never left (`NeverLeft`). The second
case is the resubmission of a refused buy; it makes the code depend on the send
not being repeated (section 4). `JournaledBeforeBroadcast` relates the chain to
both journals. `ConfirmedIsTrue` and `FailedIsFinal` say what an answer is
worth: after "failed" the caller may trade again under another key.
`ResolvedStays`: a resolved row does not change. `HeadIsPending`: a wallet's
queue is never jammed by a call that is over. `TradesOnce` is the refinement of
`PayOnce` with a single allocation. `SubmittedIsResolved` is liveness.

`trade_processes` leaves out `FailedIsFinal`: with overlapping processes it does
not hold (section 4), and a store write that fails after a definitive rejection
(`core/src/core/solard.ts:3287`) also breaks it: the call answers "failed" while
the row still invites a resume that rebroadcasts. What the run shows is that
even then no key has two live transactions, for sends without preflight. With
preflight on, repeated sends or overlapping callers break `OneTradeAlive`
(section 4).

**BlockhashCache.** `NotBeforeInvalidate`: the retry of a trade is signed with a
blockhash asked for after the expiry of the previous one was established.
`PendingIsOpen` is what coalescing must not break (as are `OwnConnection` and
`Coalesced`, which are proved and not run). `GetReturns` is liveness: whoever
awaits a request returns once it is answered or refused, whether the request is
orphaned, joined or one's own. It says nothing of a request that never ends,
which the code does not prevent.

**RpcWindow.** `BudgetPerWindow` bounds the requests and the sends that
really start within any interval of `window - LockWait`. In one process that is the
window; on a shared database the guarantee is weaker by the wait for the lock,
and `busy_timeout` (5000 ms) exceeds the default window (1100 ms): under
contention that long the gate promises nothing, which no comment of the code
denies. `WaitIsRight` is about the clients that sleep the wait they were told, with
the clock as late as the wait for the lock made it. Not early: who has slept it,
with nothing reserved in between, is let go by the next `reserve()`, however late
that one gets the lock. Late by the lag and no more: until the sleep that is left
has come down to the lag of the `reserve()` that told it, the window has no room.
`ChunksFit`: no part of a batch is one that `reserve` would refuse for ever.

**CumulativeDistribution.** `PaysWhatIsOwed` is the refinement of `PayOwed`, if
calls do not overlap and failures are final: no payment lands that was not owed
in full when it did, no stale copy takes back an entitlement or a paid amount,
and what the row books has been received. (`NeverOverpaid`, the bound on what is
received, follows from it; it is proved and not run.) Without those two
assumptions the code does overpay, for the reasons of findings 1 and "two
drivers" of section 4; two properties say what survives. `PaidIsReceived`: what
the row calls paid, its recipient has, whoever overwrote the row (assuming that
two batches never share a blockhash: otherwise a batch that equals an earlier
one *is* that transaction, and its confirmation is counted twice).
`WithinEntitlement`: the two corruption guards of the code never throw after the
money has moved, for no row and no copy.

**CreatorClaim.** `ClaimsOnce` is the refinement of `PayOnce` for calls that do
not overlap: the rewards of an id are claimed once on chain, "confirmed" is
written only after that and never overwritten. (`OneClaimPerId`, that one
transaction is ever sent for an id, is proved and not run.) `ClaimMatchesChain`
holds for overlapping calls too: a confirmed row has the checkpoint of a
transaction that landed, and what landed is found from the row. Two calls that
both find no row sign two claims; the property is about them only as far as one
of them has built.

**PumpBuyer.** `SecondBuyHasCause`: if two buys of a wallet are on chain, one of
them was given up unseen, for its expiry (careful loop) or for the clock (the
others), or for a failure on a fork that was dropped. For the careful loop that
is its comment "never compile a second buy after the first signature is
processed"; for the others it bounds the cost of their intervals.

**LiveTradeHistory.** `RecordedIsKept`: whatever was recorded is waiting or
stored, with that confidence or a higher one, through flushes that fail half-way,
closes that are repeated and a writer that another recorder shares.
`QueueIsBounded`: the map exceeds its limit by the waiting records at most, as
each of them checked the limit before it waited.

**PortalCursor.** `NothingMissed`: when the client stands on the source's chain
it has reported every creation of that chain behind its cursor, after forks in
the middle of responses and whatever its header memory has evicted.

**LiveTrades.** `WatchedIsCovered`: an open subscription and an open feed listen
to every watched token, except to a migrated one between its removal and its
return. `ClosedIsQuiet`: once the closed promise has settled nothing is open, and
nothing under way opens anything again. `DeliveredOnce`: a trade passes the
filter again only after as many others as it remembers. `CloseEnds` is liveness: if
unsubscriptions end (`UnsubscriptionsEnd`), so does close, whatever was queued,
probed or renewed when it was called; the two chains never wait for each other.

### Why the bounds are enough

- *Two allocations* give a payment of one batch and of two, a batch paid while
  another is not, and a rebuild that repacks. *Two heights, validity 1* let a
  batch expire, be declared uncertain, and a later batch get a later blockhash.
- *Two calls* are enough to interleave with a call at each of its awaits.
- *Two attempts, four heights, validity 1, age 0* let the first attempt expire by
  tip and by finality, land late on another fork, and the second be built and
  expire as well.
- *Three live requests* give one per connection and one orphaned by an
  invalidation that has not settled. One invalidation makes every value either
  older or not older than a given `get`; TLAPS lifts this bound.
- *Windows 3 and 4 with lock wait 1* (section 5 lifts these bounds) make the two windows differ, leave room for a
  stamp in the past and for a row that only one of them still counts; the five
  batches exceed the request budget, the send budget, both or neither.

- *Two recipients and a growing entitlement* let a batch end between two
  recipients, and let an entitlement rise while a batch is pending. *Validity 0,
  two heights* make every transaction expire once. *Two signed batches* are what
  an overpayment takes.
- *Four claims* are two blockhashes with two contents each; a third claim would
  already violate the property of two. *Three buys* have two on one blockhash and
  one on another.
- *A map of one row, batches of one, three keys, two records* let a record wait
  for room, find it taken, and a flush fail between two batches.
- *Two remembered headers under a rewind of two in a chain of four* let a fork's
  ancestor be older than the memory; two forks return to a branch whose headers
  are remembered in the order of their first insertion.
- *One token* suffices for `LiveTrades`, whose jobs treat tokens independently;
  two trades and a filter of one let the filter forget. The waiting jobs bound
  how many calls pile up behind one that awaits.

### Fairness

The safety runs use a specification that has none. The liveness runs assume:

- *The cluster keeps working.* Heights advance (weak fairness of `Tick` and
  `Finalize`), a processed transaction is confirmed if its fork keeps coming back
  (strong fairness of confirmation; in `DurableTransfer` of execution too).
- *The caller keeps resuming.* That is the contract of both flows: a crashed
  payment or trade is finished by another call.
- *Crashes may go on for ever.* So an await cannot be assumed to be survived the
  first time: the steps behind it are strongly fair, which says that a call that
  reaches the await again and again gets past it at some time. The fair actions
  `Delivers`, `LearnsOutcome`, `NoticesExpiry`, `StoresOutcome` and their like say
  that a node that is asked again and again catches up at some time.
- *Nothing of the network* in `BlockhashCache` and `LiveTrades`, because the code
  bounds nothing there: `chain/connection.ts` passes a request on as it came
  (`:210`), without a timeout, and waits for the gate in a loop (`:103`);
  `sdk/src/live.ts` uses a plain web3.js `Connection` (`:133`, `:352`), of which only
  the probes have timeouts (`:218`, `:280`). What is fair is the event loop, which
  runs the turns it has queued: `Settle` and `Return` in `BlockhashCache`; in
  `LiveTrades` the running job of either chain, except where it awaits an
  unsubscription. That those end is the antecedent of `CloseEnds` and no assumption
  of the specification: without it TLC finds a close that waits for ever on an
  unsubscription of a dead websocket. No call, failover or trade must happen.
- *`CDFairSpec`*, which `distribution_uncertain` refutes its property under,
  assumes calls that keep being made and end, and a cluster that keeps working:
  the counterexample is not a system that stopped.

## 4. Findings

Three runs end in a counterexample. Each checks one sentence of the code's own
documentation against what the code does.

1. `durable_reland`. "Definite on-chain failure is safe to rebuild later"
   (`core/src/tx/durable-transfer-many.ts:467`), but `:295` takes an error at
   *any* commitment for definite; at processed commitment its fork may be dropped
   and the same bytes land after the batch was rebuilt. `tx/confirm.ts:17` accepts
   an error only at confirmed. The distribution decides in the same way
   (`distributions/cumulative.ts:449`).
2. `trade_two_processes`. "intent keys arbitrate across processes"
   (`core/src/core/solard.ts:3216`), but a second process with the key resumes it
   while the first operates (`:3257`): it may settle the last signature it read
   and answer "failed" while the first signs the next attempt, which lands.
3. `distribution_uncertain`. An expired batch is left pending, "replacement is
   blocked until reconciled" (`core/src/distributions/cumulative.ts:563`), but an
   execute refuses an uncertain id before it reconciles (`:657`) and nothing else
   does: a batch that has landed is never counted and the id never pays again.

The properties of the first two are checked by passing runs, or proved, with the
flag the other way (`FailedCanReland`, `ResumeWaits` with one process).

Four more limits show when a flag of a passing configuration is turned:

- *Two drivers* (`DurableTransfer`, `Serial = FALSE`, property `OneUnresolved`).
  "Only one batch may be unresolved at a time"
  (`core/src/tx/durable-transfer-many.ts:621`), but nothing serialises two calls
  with one id: each loads the row, each pins and sends a batch, and the later
  write forgets the earlier batch. With `Serial` the sentence is proved.
- *Trade failover* (`TradeSettlement`, `OneNode = FALSE`, property
  `OneTradeAlive`). "Only healthy, post-finalized-expiry absence authorizes a
  replacement" (`core/src/tx/expiry.ts:3`), but the three requests of `:13` may be
  answered by different nodes of the endpoint pool: the height of one is combined
  with the empty history of another.
- *Repeated send* (`TradeSettlement`, `SendRetried = TRUE`, property
  `FailedIsFinal`). `isDefinitivePreSubmissionError` is "True only when Solard can
  prove no transaction was submitted" (`core/src/core/errors.ts:110`), but any
  "simulation failed" counts (`:129`), and the transport repeats a send whose
  answer was lost: the copy's preflight fails because the first landed.
- *Resubmitted buy* (`TradeSettlement`, `Resubmits = TRUE`, property
  `OneTradeAlive`). "An ambiguous submission or a program failure must never
  trigger a new trade" (`core/src/tx/trade-policy.ts:160`), but a buy that the
  preflight of its send refuses with error 6040 is signed and journaled anew
  (`core/src/core/solard.ts:3031`), while the refused bytes are in both journals
  and valid. Two circumstances put both on chain. With `SendRetried`: the refused
  send was a repeat whose first copy has left. With overlapping callers
  (`ResumeWaits = FALSE`): another call reads the refused signature from the
  journal and sends it again. Without either, `trade_one_process` checks that a
  key trades once, and it is proved (`OneCaller`).

## 5. Proofs

The proofs hold for every value of the constants that satisfies the named
assumptions (naturals for bounds, Booleans for flags, distinct null values): any
number of allocations, inputs, calls, connections, requests, tokens, keys,
blocks and heights. Where a theorem needs more, its statement says so: a flag of
the model (`OneNode`), a conjunction of flags (`OneCaller`), or, in the modules
on `Cluster`, a field of the variable `world`.

Each section names the inductive invariant and what each part of it is there
for. All of them have one idea in common: a step reads what an earlier step
saw, so the invariant must say of *every copy, view or promise under way* what
the property says of the shared state.

### DurableTransferProofs

*In any mode*, with overlapping callers and failures that land again:
`TypeCorrect`, `RecordIsTrue` (`RecordMatchesChain`) and `UncertainIsPinned`
(`UncertainKeepsPending`). The invariant is `SoundInv`: types, and `GoodRow` of
the row and of *every copy a call holds*. The copies are what makes it
inductive: any of them may be written back whole at any later step, so each must
agree with the chain by itself. It survives other calls because receipts name
confirmed transactions and confirmation is never undone.

*With `Serial` and without `FailedCanReland`*: `NoDoublePayment`
(`PaidAtMostOnce`), `NothingIsForgotten`, `OneBatchUnresolved`,
`ReplacementIsSafe` (`ReplacedOnlyWhenDecided`) and `DurableImplementsPayOnce`
(the refinement). The invariant is `SafeInv`: `SoundInv`, `SerialCopies` (a live
call's copy is the row; the pinned batch is not marked paid), `NothingForgotten`
and `PaidAtMostOnce`. Why they need each other: a second payment would need a
transaction that confirms while an overlapping one is receipted;
`NothingForgotten` makes the confirming one the pinned one, `SerialCopies` makes
its batch disjoint from what is marked paid, and `RecordMatchesChain` makes what
is marked paid exactly what is receipted. `OneUnresolved` is then immediate: all
unresolved transactions are the one the row pins.

### TradeSettlementProofs

The many actions of a call are first sorted into eleven kinds by what they may do
to intent, journal and chain (`Claims`, `Rechecks`, `Signs`, `Records`,
`Resubmission`, `Ends`, ...): the lemma `StepKinds`. Every invariant is then shown
for each kind.

*In any mode*, that is with overlapping processes, repeated sends, resubmitted
buys, failing writes and several nodes: `TypeCorrect`, `SentIsJournaled`
(`JournaledBeforeBroadcast`), `ConfirmedIsLanded` (`ConfirmedIsTrue`) from
`SoundInv` (each call's transaction is in intent and journal from the await of
its send on), and `HeadIsAtWork` (`HeadIsPending`) from `QueueInv` (only the
head of a queue is past its turn, nobody is in it twice, who waits is in it).

*If one node answers an expiry inspection* (`OneNode`), and buys are resubmitted
by a single caller only (`Resubmits => OneCaller`): `OnlyOneTrade`
(`OneTradeAlive`) and `ReplacementIsSafe` (`ReplacedOnlyWhenClosed`). Without
preflight, the default, that is with overlapping processes and repeated sends.
`ReplaceInv` adds that every journaled transaction but the last is closed or never
left, and that the one operation of the key signs its next only when that holds of
the last too. What never left must stay so: a refused transaction is no longer the
last of the journal, and only the last is ever sent again (`NeverLeftStays`), once
no other call can still hold it (`ExclusiveOK`: while a call operates, nobody
settles). The second assumption is needed: section 4 has a counterexample for each
of repeated sends and overlapping callers.

*If one process uses the key and leaves its operation alone* (`OneCaller`:
`OneNode`, `ResumeWaits`, no repeated send, no failing write, all calls in one
process), with resubmission or without: `FailureIsFinal` (`FailedIsFinal`),
`ResolvedIsKept` (`ResolvedStays`) and `TradeIsMadeOnce` (`TradesOnce`, the
refinement of `PayOnce`). `GuardedInv` adds who may conclude "failed", and from
what: that all that is journaled is lost, or from an error before anything of this
attempt left the process; and that no other call is then left to send it. Each
flag of `OneCaller` is needed: sections 3 and 4 name the counterexamples.

### CumulativeDistributionProofs

*In any world* `DistributionTypeCorrect` and `AlwaysWithinEntitlement`
(`WithinEntitlement`): `DistInv` says of the row and of every copy that paid
plus pinned is within the entitlement, so neither of the code's guards can throw
after money has moved. *If batches do not share a blockhash* `RecordedIsReceived`
(`PaidIsReceived`): `BackedInv` says of the row and of every copy that what it
marks paid, plus its pinned batch once that has landed, has been received. *If
calls do not overlap and failures are final* `NobodyIsOverpaid`
(`NeverOverpaid`): `OwedInv` says that the one call works on what the row says,
that whatever may still pay is pinned in the row, and that what is received is
marked paid or pinned and landed; with `DistInv` that is within the entitlement.

*Under the same two assumptions* `DistributionImplementsPayOwed`
(`PaysWhatIsOwed`). A step that writes the row must not lower an amount, and what
it writes is a copy: `AgreedInv` says that no call carries a lower entitlement
than the row, and the row's own while its batch is pinned; `WriteEntitles` and
`SettleBooks` are the two ways of writing. A landing is within what is owed by
`OwesInv` of the state after it. `booked` is taken for nothing where builds may
share a blockhash, since there the row may count one payment twice.
The worlds are hypotheses inside the invariants, so one specification serves all
three.

### CreatorClaimProofs

`ClaimTypeCorrect` and `ClaimRowIsTrue` (`ClaimMatchesChain`) for overlapping
calls: a row pins a transaction, has the checkpoint of one that landed, or its
transaction failed; a copy pins one and is not confirmed. `OneClaimEver`
(`OneClaimPerId`) for a serial world: `ClaimAloneInv` says that everything ever
sent is the transaction that the row and the one call under way pin. For the same
world `ClaimImplementsPayOnce` (`ClaimsOnce`): the step that confirms the
transaction is the step that pays, and a payment cannot come twice because only
one transaction was ever sent; the step that writes "confirmed" reports, and
`DoneInv` (no call is left when the row says so) is why nothing overwrites it.

### BlockhashCacheProofs

`TypeCorrect`, `NeverBeforeInvalidate`, `AlwaysOwnConnection`, `AlwaysCoalesced`
and `PendingAlwaysOpen`, from one invariant `Inv` of six parts: the cached value
is of this generation (`CurrentInv`), an open request of this generation is the
pending entry of its connection (`OpenInv`), a pending entry is an open request of
this generation and connection (`PendingInv`), a waiter's request exists, is its
connection's and not older than the waiter (`WaiterInv`), and a returned value is
likewise (`AnswerInv`). `OpenInv` and `PendingInv` are converse to each other,
and coalescing follows from the first.

### RpcWindowProofs

`TypeCorrect`, `BudgetsHold` (`BudgetPerWindow`), `WaitsAreRight` (`WaitIsRight`)
and `ChunksAlwaysFit` (`ChunksFit`), for every pair of windows and budgets, every
wait for the lock and any set of batches. The budget is two facts. `RowsOK`: the
rows younger than a window are within its budget, which a reservation with an
older clock keeps because it counts every row younger than its own window, the
later ones included. `StartsOK`: what really started in the last `n` is in the
rows of the last `n + LockWait`, as a stamp is at most that much too old and
nothing so young is pruned by either window.

A wait is told by one state of the table and slept through others, so the
invariant is a promise about the table as it is now (`Promises`). `WaitServed`: with
what is left of the sleep, and nothing reserved since, the window has room for the
cost as far back as a later `reserve()` can read its clock (`Reach`). `WaitNeeded`:
while the sleep is longer than the lag it was told with, the window has no room
now. Both are set up by what one wait says of the table (`WaitMeans`, by `LastFit`:
it finds the last age at which the cost fits), kept by time, which shifts all ages
and the sleep alike (`LaterFacts`), and by pruning, which drops what no window
counts; a reservation ends the calm and only takes room away (`RoomInserted`).

### LiveTradesProofs

`TypeCorrect`; `ClosedListenerIsQuiet` (`ClosedIsQuiet`);
`WatchedTokensAreCovered` (`WatchedIsCovered`); `TradesAreDeliveredOnce`
(`DeliveredOnce`). The key is `ChainInv`: of the jobs in the pool's chain that
are not health checks there is one at most, and it is the one that the
listener's running job awaits. So the two chains cannot disagree about what is
being done. `ClosingInv` adds what is still open when: nothing is queued behind
the close (`LastJobOK`), every open subscription is the live one or has its
close ahead (`SubsOK`), and likewise for the feeds (`FeedsOK`). `TokensOK` says
which of the watched tokens the live subscription, the pool's set and the feed
each have, up to the one that the running jobs are about to add, remove or
refresh. The filter's proof is that `seen` is the end of what was accepted
(`FilterInv`); that `Window` others between two deliveries is then counting:
that many different trades, none of them forgotten (`WindowPassed`).

`CloseComesNearer` is the part of `CloseEnds` that needs no fairness. Its
invariant, `NoMutualWait`: after `close()` the listener's chain is not empty until
the closed promise settles, and what its running job waits for is a job it has put
in the pool itself. Its two action properties are the measures: `CloseAdvances`
(every step of the listener lessens its jobs and awaits, no step adds to them) and
`AskedAdvances` (every step of the pool answers the awaited job or brings it
nearer, and no step puts it back: a health check queues behind it). A running job
of the pool waits for a probe or an unsubscription, never for a job; so if the
event loop runs what is queued, which is the fairness of the run, and
unsubscriptions end (`UnsubscriptionsEnd`), `close()` ends. That last inference,
with `ENABLED` and fairness in it, is what `live_trades` adds.

### ServiceProofs

*LiveTradeHistory*: `HistoryTypeCorrect`, `NothingRecordedIsLost`
(`RecordedIsKept`), `QueueStaysBounded` (`QueueIsBounded`). `ActiveInv`: while a
record waits its recorder has not flushed for the last time. `RefInv`: the
writer's count is the number of recorders that refer to it. `DrainedInv`: when
all of them have flushed nothing waits, so what `Release` drops is empty. `RoomInv`
charges each record that was told there is room with the place it may take.

*PumpBuyer*: `BuyerTypeCorrect`, `SecondBuyIsExplained` (`SecondBuyHasCause`).
`StageInv` says what each loop holds at each await, `ReplacedInv` that every buy
that was sent and is not the active one was replaced, with evidence that was true
when it was seen and is true still.

*PortalCursor*: `PortalTypeCorrect`, `NothingIsMissed` (`NothingMissed`).
`NothingMissed` speaks of the moments at which the client is on the source's
chain; a fork can bring it back to a branch it left long ago. So `ParentOK` says
that *all* creations of the parent's own chain are reported, whichever that is,
and that its part below the rewind is on the source's chain (`Certain`);
`HeadersOK` says the first of every remembered header, as any of them may become
the parent. Without a parent hash only what no fork can drop has been passed.

*Services*: the composition. `ServicesTypeCorrect` (`TypeOK`), `ServicesAreSafe`
(all safety properties of the five at once), `ServicesImplement` (`ClaimsOnce` and
`PaysWhatIsOwed` at once), for any interleaving, `HarnessIsServices` for the run.
Each component's induction is used as it is; what is added is that the other four
do not disturb its invariant. A step of a component changes the fate of no
transaction but its own (`DistributionTouches`, `ClaimTouches`, `BuyerTouches`;
the height may rise and nothing else), so to the others it is `Foreign`, and an
invariant that speaks of one's own transactions and variables is indifferent to
that (`DistributionIndifferent` and so on). In the refinements the others' steps
stutter.

### Induction over data

The library's induction theorems take an operator as parameter, which the
provers cannot instantiate. Where a recursive function of a model had to be
unfolded (`RemovedAfter`, `Newest`, `Total`, `Chunks`) the proofs argue with sets
of numbers: `NumberInduction` says that a set that holds 0 and is closed under
successor holds every natural number, because its complement has no least
element (`WFMin` on `<`, whose well-foundedness the library gives as a fact). The
existence of the function is itself shown that way, by extending it one argument
at a time.

### Only model-checked

- *Liveness*: `EveryIntentEnds`, `LandedIsRecorded`, `SubmittedIsResolved`,
  `GetReturns`, `CloseEnds`. They need `ENABLED` and the rules for fairness, which
  the prover does not have.
- *The findings* of section 4: a counterexample is its own proof.

## 6. What is not modelled

- *Wire formats and arithmetic*: instruction layouts, Borsh decoding, curve
  quotes, fee estimation, base58, encryption of wallets. They are functions, and
  fixtures test them directly. They are most of the lines of this repository.
- *Transfer packing*: batches are any prefix, so no property depends on sizes.
- *Trade routing, pricing, venues, Jupiter*: what they decide is a plan that is
  built or an error before anything is sent, and both are inputs of the models.
- *Sweeps and liquidation*: each pass re-reads balances; a repeat moves what is
  left and never the same funds twice.
- *The database layer*: atomic per statement and durable; a torn or full disk is
  outside.
- *Agents, strategies, backtests, signals, workflows, SDK facade, CLI*:
  compositions, pure functions or presentation.
- *Endpoint failover of the RPC transport* is not a module of its own; its effect
  on the inspection of expiry is the flag `OneNode`. Its retry of sends is
  `SendRetried`.
- *Claims without an id* keep no row, and are as safe as their caller.
- *The deployment of a launch*: that at most one generation of a bundle lands is
  decided by the mint they all create, in a program outside this repository.
  What the code adds is its report, which may be wrong about a generation that
  lands after its window (`token-launch.ts:2828`). Armed buyers are released and
  aborted by messages over a loopback socket, but nothing here starts their
  server (`createArmedBuyerServer` has no caller), so what an abort does to them
  is unknown.
- *Launch sessions* are imported by no file. *Vanity pool*: each operation is one
  SQLite transaction.
- *Watcher*: `start()` calls `stop()` without awaiting it; `stop` goes on one
  microtask later and empties the list that `start` has filled. A later `stop()`
  therefore removes no subscription. Nothing interleaves: a reader sees it, a
  model checker has nothing to add.
- *Account cache*: a TTL map in which a load begun before `invalidate()` stores
  its value after it. No document promises otherwise, and what is quoted from it
  is guarded by slippage.
- *In `LiveTrades`*: decoding, launch subscriptions, trades of a removed token
  that are still in flight (the listener checks again before it calls back), the
  trades that fall between removal and return of a migrated token, and migration
  callbacks after a stop. The listener's closed promise is rejected for good if
  its recorder fails to close, although the recorder itself may be closed again.
- *In `PortalCursor`*: ranges, probing, pauses, and the duplicate filter; the
  callback behind it only prints.
- *In `LiveTradeHistory`*: backfilled rows, candles and coverage.
- *Pump live services*: display; the breaker of metadata hosts computes its
  half-open time from `openMs` although another duration may be in force
  (`core/src/pump/services/metadata-circuit.ts:39`), which delays metadata only.

## 7. Plan

Every safety property, action property and refinement that a passing run checks
is proved. What is worth adding:

| next | statement | argument expected |
| --- | --- | --- |
| `TradeSettlement`, `SendRetried` on | `failed` is final for the errors that are raised before the first send | `GuardedInv` without the case of a rejected send |
| `CumulativeDistribution`, overlapping calls | how much two calls can overpay: no more than what both had pinned | `OwedInv` for a set of batches, one for each call |
| `BlockhashCache` under `TradeSettlement` | the retry of a trade is signed with a later `lastValid` | composition: `NotBeforeInvalidate` gives the guard of `Build` |
| the other liveness properties | the measure of each, as `CloseComesNearer` has it for `close()` | crashes put a call back, so the measure is of the row and the chain |

## 8. Running the checks

    tlc -workers 2 -config DurableTransferSerial.cfg MCDurableTransfer
    tlapm DurableTransferProofs.tla

`PROJECT.json` lists each run with its module, configuration and properties. The
longest, `services`, `live_trades` and `blockhash_cache`, take one to two minutes
each. Of the proofs, those of `TradeSettlement`, `Services` and `RpcWindow` take
longest, some minutes each from nothing.
