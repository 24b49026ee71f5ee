# TLA+ models of go-qlc

This directory holds TLA+ specifications of parts of go-qlc, the TLC configurations that
check them, and `PROJECT.json`, which records for every module definition the source
lines it translates, every run, mutant, finding and the hazards of the code.

## The system and its parts

| Part | Source | What it does | Model |
|---|---|---|---|
| Ledger rollback (confirmed tier) | `src/ledger/process/rollback.go` | `LedgerVerifier.Rollback` revokes a confirmed block, every later block of its chain and, transitively, every block that received a send among them | `LedgerRollback` (partly) |
| Ledger rollback (cache tier) | same, lines 138-334, 487-526 | revokes unconfirmed blocks in the block cache and the cache's account metas | `RollbackCache` |
| Unchecked rollback | same, lines 885-935 | drops unchecked blocks that depend on a revoked block | `UncheckedRollback` |
| DPoS engine | `src/consensus/dpos/dpos_impl.go` | unchecked (gap) cache, vote cache, processing loop, confirmation, fork handling, online representatives | `DposEngine` (partly), `OnlineReps` |
| PoV block processor | `src/consensus/pov_processor.go` | duplicate filter and orphan parking for PoV blocks | not modelled: a stub nothing constructs (see below) |
| PoV miner worker | `src/miner/pov_worker.go` | mining templates, GetWork/SubmitWork, CPU mining start/stop | `PovWorker` |
| Settlement and miner arithmetic | `abi_miner.go`, `abi_dod_settlement.go`, `rpc/api/settlement.go` | reward height rounding, billing-unit rounding, paging ranges, the DoD order/connection store and its invoices | `MinerReward`, `DoDUnits`, `DoDBilling`, `DoDInvoice`, `CalculateRange`, `DoDStore`, `DoDConnParam` |
| Reward contracts | `src/vm/contract/rewards.go` | airdrop and confidant rewards: the pending entry of a reward send, the ContractReward block and its RewardsInfo record | `ContractRewards` |
| Contract registry | `src/vm/contract/contract.go` | lookup of chain contracts and their methods | not modelled: lookup tables |
| Public key distribution storage | `src/vm/contract/abi/abi_public_key_distribution.go` | checks, point reads and scans over the verifier, publish and oracle tables | `PKDStore` |
| Generated codecs, SQL store, CLI, RPC wrappers, config, p2p messages | various | encoding, I/O, argument handling | not modelled: no state machine TLC could say anything about |

How they interact: DPoS feeds blocks to the ledger verifier (`BlockProcess`), parks
gap blocks in the unchecked cache until their dependency is confirmed
(`blocksAcked` -> `dequeueUnchecked`), and on a lost fork calls `Rollback` on the
loser; rollback in turn publishes `EventRollback` and removes dependent unchecked
blocks. The PoV processor and miner worker form the separate PoV chain.

Harnesses. Components that do not interact are checked side by side in one harness
whose initial state picks which of them runs (a `tier`, `part` or `fn` variable); the
others keep their initial state, so the state space is the sum of theirs, not the
product:

- `MCRollback`: `LedgerRollback`, `RollbackCache`, `UncheckedRollback` and
  `ContractRewards` (twice: tiers `rewards` and `rewardsRoot`);
- `MCDpos`: `DposEngine` and `OnlineReps`, each under its own fairness;
- `MCMiningSettlement`: `PovWorker`, `CalculateRange`, `MinerReward`, `DoDInvoice`,
  `DoDStore`, `DoDConnParam` and `PKDStore`.

The violation runs use one-component harnesses: `MCLedgerRollback`, `MCRollbackCache`,
`MCOnlineReps`, `MCPovWorker`, `MCCalculateRange`, `MCDoDBilling`, `MCDoDInvoice`,
`MCDoDStore`.

## Modules

### `LedgerRollback`

State (VARIABLES) and its counterpart in the ledger:

- `blocks`: the confirmed state blocks, id -> `[type, address, previous, link, balance, rep]`
  (the block hash is an integer; one token, the chain token).
- `tokenMeta`: the account's token meta (`Header`, `Balance`, `Representative`, `BlockCount`).
- `frontiers`: the frontier table, header -> open block.
- `pending`: pending entries `<<destination, send>> -> amount`.
- `representation`: the weight of each representative.
- `nextId`: the next block id (a bound, not program state).

Actions:

- `ProcessOpen`, `ProcessSend`, `ProcessReceive`, `ProcessChange`: the commit of a valid
  block. The verifier's processing code is not in this repository's sources, so these
  are written from the specification (section 4.1) and marked `spec_modelled`.
- `Rollback(h)`: `LedgerVerifier.Rollback` for a confirmed block, as one step (the code
  runs it inside one cache batch). It is translated from the code: `RollbackMapLoop` is
  the queue loop of lines 38-122 (`UpdateRollbackMap` keeps the older block per chain
  by `BlockOrderCompare`; `EnqueueLinks` walks the chain from its header down to the
  block and enqueues the receiver of every received send, through `QueuePut`, which
  drops an element when the ring buffer is full, as `relatedBlocks.Put` does with its
  result ignored). `RollbackBlocks` is `rollbackBlocks`: for every chain of the map,
  from header to the oldest revoked block, `RollBackToken`/`rollBackTokenDel`,
  `RollBackFrontier`, `RollBackRep`/`RollBackRepChange`, `RollBackPendingDel` for a
  revoked send and `RollBackPendingAdd` for a revoked Open/Receive whose send is not in
  `SendBlocksInRollback`. The chains are undone in one batch; the order of chains does
  not matter because their token metas and frontiers are disjoint and the pending keys
  and representation deltas commute.

The Open case passes `tm.Balance` as the re-created pending amount exactly as line 379
does; this is a finding (below).

### `RollbackCache`

The cache tier holds blocks processed but not yet confirmed. `cache` maps a block id to
`[acct, prev, kind, link, ts]`. Here `prev = 0` stands for the account's confirmed
header. `acctCache` is the account meta cache: `[header, count]` per account.

The confirmed tier is reduced to two things: the confirmed sends still pending
(`ConfSends`), and the revocation of a confirmed block. A revocation calls
`checkBlockUnConfirmed`, as `rollbackBlocks` does at line 468.

Processing into the cache is not in these sources. `ProcessCache` follows spec 4.1:
- the new block's previous is the header;
- timestamps are non-decreasing along a chain;
- a receive consumes a pending send, either a confirmed one or one in the cache.

The actions and operators that translate the code:
- `RollbackCache(h)` is `Rollback` and `RollbackCache` for a cached hash, in one batch.
- `RollBlockChoices` is the repeated-receive choice (lines 176-187).
- `TempBlocks` and `RollChain` pick the blocks to roll back: timestamp filter, sort,
  then following `previous`.
- `RollbackCacheBlocks`, `RollbackCacheAccount` and `RollbackCacheAccountDel` are the
  deletes and the meta updates.
- `CheckBlockUnConfirmed(a, s)` models `checkBlockUnConfirmed`.

Reads follow the code:
- `GetBlockCaches` and `HasBlockCache` read the committed cache.
- `GetAccountMeteCache(…, batch)` reads through the batch. So rolling back n blocks
  decrements the count n times.

Bounds (in `MCRollback`):
- two accounts and one confirmed send from c1 to c2;
- timestamps 0..1, so a successor can have an equal or a later timestamp;
- 4 cache blocks.

### `UncheckedRollback`

`LedgerVerifier.RollbackUnchecked` (rollback.go 885-935). State: `unchecked`
(`<<dependency, kind>>` -> the parked block, one per key as `GetUncheckedBlock` reads
it), `ledger` (the blocks `GetStateBlock` finds) and `lastCall`. `Park` is the block
processor's `AddUncheckedBlock` (modelled from spec 4.1, the store is not in these
sources): a block waits on one dependency at a time, never on itself through the
table, and the table holds at most `MaxParked` blocks. `Rollback(h)` applies
`RollbackUnchecked`: the link, previous and (for a confirmed mintage reward) token
blocks are read first, then each one found is deleted and rolled back recursively,
in that order. `TokenKey` models lines 902-903: `tokenId` is copied from the
parameter before `UnpackMethod` fills it, so the token lookup always uses the zero
hash. The early return on a missing send (898-901) is not taken: a confirmed reward
always has its send.

Bounds (the `unchecked` tier of `MCRollback`): three blocks, one of them a confirmed
mintage reward of one token, at most three parked, any confirmed subset.

### `ContractRewards`

The airdrop and confidant reward contracts (rewards.go) between one sender chain tx
and one beneficiary chain rx of the gas token, with the rollback of ContractReward
blocks (rollback.go 421-445, 824-852). State: `txHead` (tx's header), `rxChain`
(rx's blocks, each reward block with its send and the storage its receive wrote),
`pending` (the entries `doPending` filed), `sends` (every reward send), `storage`
(reward key -> RewardsInfo) and `nextHash`.

- `RewardSend(m, k, amt, pamt, tok)` is `DoSend` and `DoPending`: the pending entry
  holds the parameter's amount `pamt`; the send moves `amt` of token `tok`. The reward
  key `k` stands for `GetRewardsKey`/`GetConfidantKey` of the signed parameter (not in
  these sources); `Verify` is taken to pass, so every parameter a signer could hand
  out is explored, a reused key included.
- `RewardReceive(p)` is `DoReceive`'s `generate` with the commit: it is refused
  (`GenerateOK`) for a zero amount, a token other than the gas token, or an info
  stored under the key with another amount or contract (`SameReward`: the header
  clause is commented out in the code). Otherwise it appends the ContractReward block
  on rx's header, writes the info (`RewardInfo`: tx's current header, rx's header) if
  the key is new, and consumes the pending entry.
- `TxOther` and `RxOther` are any other block of either chain (from spec 4.1): they
  move the headers the info records.
- `RollbackRx` rolls back rx's header block. For a reward it re-adds the pending
  entry (`rollBackPendingAdd` calls `DoPending` of the send) and runs
  `rollBackContractData`.

`generate` sets the block's `Extra` to the zero hash, so `rollBackContractData`
skips the block; the callers that commit a contract receive are not in these sources
and may replace `Extra` by the root of the storage the receive wrote. The settlement
RPC does that for the send blocks it builds (`ctx.Cache.Trie().Hash()`), but it returns
the blocks of `DoReceive` unchanged (`getContractRewardsBlock`). The constant `ExtraRoot` covers both: tier `rewards` has
a zero Extra, `rewardsRoot` a storage root. With a root, the trie holds what the
receive wrote, and rollback removes it again. Representatives are left out:
representation counts the chain token only, and `generate` accepts the gas token only.

Bounds (tiers `rewards` and `rewardsRoot` of `MCRollback`): the confidant contract
(the airdrop contract differs only in its key function), two reward keys, amounts 0
and 1 (sent and named), the gas and the chain token, and five block hashes. That is
enough for a send, its receive, a later block of tx, the rollback of the reward and
a new receive.

### `DposEngine`

The gap-handling core of the DPoS engine. State:

- `ledger`: the confirmed blocks (the ledger abstracted to a set).
- `roots`, `tally`: active elections and the representatives whose votes they hold.
- `unchecked`: `uncheckedCache` as a map from a missing hash to the waiters
  `[blk, from]` parked under it (`from` is the BlockSource's `BlockFrom`).
- `voteCache`: the acks cached for gap blocks.
- `msgs`, `acked`: the `blocks` and `blocksAcked` channels.
- `pc`, `todo`, `cur`: where `ProcessMsgLoop` is: draining `blocksAcked`, inside
  `dequeueUnchecked`'s Range (`todo` are the waiters still to visit, `cur` the hash
  being served), or at the select.
- `sent`, `heard`, `expired`: a bound on deliveries, and history variables for the
  vote property.

Actions of the loop goroutine, translated from the code: `DrainAcked` (one
`<-blocksAcked` and the `Has` check of `dequeueUnchecked`), `DequeueWaiter` (one
waiter of the Range: `BlockCheck`, `ProcessResult`, then `ConfirmBlock` for a
synchronized block or the cached and local votes), `DequeueDone` (the final
`Remove`), `DrainDone`, `ProcessMsgDo` (all of it, with `ProcessResult`,
`enqueueUnchecked` and `localRepVote`), `Tick` (the 1 ms fall-through). Other actors:
`Deliver` (`ProcessMsg`), `Elect` (the election goroutine reaching quorum and calling
`ConfirmBlock`; from the spec, since `acTrx` is not in these sources), and
`Evict`/`EvictVotes` (LRU eviction or TTL expiry, any entry at any time).
`BlockCheck` is abstracted to Old / GapPrevious / GapSource / Progress from which
blocks are confirmed; forks are not modelled.

Fairness: weak fairness of the loop only. It is a goroutine that never waits except
on a channel send, because the select always has the 1 ms timeout. Nothing is
assumed of elections, peers or the caches.

### `OnlineReps`

The online-representative table. State: `onlineReps` (the `sync.Map`, representative
-> expiry minute), `now` (minutes), `cleaners` (the goroutines the `Start` loop
spawned, by spawn minute: where each is, the `now` it read, the keys present when its
Range began, the keys visited and kept, the key it is about to delete),
`ledgerOnline` (what `SetOnlineRepresentations` last wrote) and the history `saved`
(the expiry of each representative's latest save).

Actions: `SaveVote(r)` (`saveOnlineRep` from `ProcessMsgDo`'s ConfirmAck branch and the
local votes of `localRepVote`, `ProcessFork` and `dequeueUnchecked`), `Tick`,
`TimerFindOnlineRep` (the ticker case of `Start`, which spawns the goroutine), and the
goroutine's steps: `FindOnlineRepresentatives` (`GetRandomStateBlock` fails, or every
local representative is saved; it cleans either way), `CleanStart` (reads `now`),
`CleanVisit` (the Range callback reads one value), `CleanDelete` (the `Delete`, of
whatever the key holds by then) and `CleanEnd` (the Range may end once every key present
throughout it was visited, as `sync.Map.Range` allows; then
`SetOnlineRepresentations`). The votes `findOnlineRepresentatives` generates are left
out: they do not touch the table.

### `PovWorker`

The miner worker's RPC handlers, run one at a time by its loop goroutine, against the
PoV chain. State: `mineBlockPool` (WorkHash -> template; a template is its parent tip,
height, miner, algorithm and creation time), `minerAlgoBlocks` (`<<miner, algo>>` ->
current template and `lastMineTime`), `lastMineHeight`, the configuration `minerAddr`,
`algoType`, `cpuMining`; `tip` and `clock` (periods of just over 30 s) are the
environment; `reply`, `rpcErr` and the history `submitted` record what the handlers
returned. Actions: `GetWork` (`checkMinerPledge`, `CheckMinerPledge`: below
`VerifyHeightStart` every miner passes, above it only a pledged one; then `generateBlock`: `PoolReset` when the
tip height differs from `lastMineHeight`, reuse of the current template unless it is
older than 30 s, else `NewBlockTemplate` added to the pool), `GetWorkUnpledged` (the
error path), `SubmitWork` (`findBlockInPool`; `checkAndFillBlockByResult` is a
nondeterministic ok/fail, `FillResults`; `submitBlock`, `SubmitBlock`, records the
block with the tip it was submitted on), `StartMining`, `StopMining`; the chain's
`ExtendChain`, `SwitchSameHeight` and `Tick`. `Init` is every configuration `Init`
and `Start` can produce.

### Arithmetic: `MinerReward`, `DoDUnits`, `DoDBilling`, `DoDInvoice`, `CalculateRange`

`MCMiningSettlement` instantiates `CalculateRange`, `MinerReward` and `DoDInvoice` with
the bounds below. For these each initial state picks one function (`fn`) and one
argument tuple, so one run enumerates all their input spaces.

Pure functions as operators, each with a harness whose state is the call's
arguments, chosen in `Init` from bounded sets, and a reference definition written
as a set comprehension (not from the code) to compare against:

- `MinerReward`: `MinerPovHeightToCount`, `MinerRoundPovHeight`,
  `MinerCalcRewardEndHeight` and `VerifyHeights` (the height checks of
  `MinerRewardParam.Verify`). The three `common` constants are parameters: rewards
  from height 6, rounds of 4 blocks, at most 8 blocks per claim; heights 0..24.
- `DoDUnits` (operators only): `DoDSettleBillingUnitRound` and
  `DoDSettleCalcBillingUnit`. Unit lengths are a constant `UnitLen`: `AddDate` and
  `Year()` are abstracted to fixed lengths, and `Year()` to `t \div UnitLen["Year"]`.
  `RoundTerminates` says when the Year/Month loop returns (one iteration suffices).
- `DoDBilling`: one call of `DoDSettleBillingUnitRound` as a process whose Year/Month
  `for` loop runs one iteration per `LoopIteration` step (lengths 12/6/5/4/3/2/1 for
  year..second, times 0..14). Weak fairness: the call runs on its goroutine.
  `CHECK_DEADLOCK FALSE`: the computation ends when it returns.
- `DoDInvoice`: `DoDSettleCalcConnInvoice` for one connection with no order filter:
  one parameter period (a Done entry or the appended Active one), an optional
  disconnect fee, `DoDSettleNeedInvoice` and `DoDSettleCalcAmount`. DoD amounts are
  floats in the code; here they are exact multiples of `1/Den` (`Den` = 60, a multiple
  of every period length), so sums compare exactly. Inputs: periods with any start and
  end in 0..6 (unit billing: a start of at least 1, end 0 = open; DoD: start < end),
  units Year 6, Month 4, Day 2, Second 1, price and addition 1, three window bounds
  `t0 < t1 < t2`, every flight/split flag, now 3 or 6, a disconnection at any time or
  none. Inputs for which a Year/Month rounding would loop are left to `DoDBilling`.
  The string formatting, Track lookup and Usage list are left out: they do not change
  the amount.
- `CalculateRange`: `calculateRange` with Go's `int` as a 6-bit two's-complement
  integer (`GoAdd`), sizes 0..4, every offset including nil and negatives.

### `DoDStore`

The DoD settlement store of `abi_dod_settlement.go` and the invoice built from it.
State: `orders` (`<<seller, order id>>` -> buyer and the connections of the order),
`userOrders` (buyer -> the list of `<<seller, order id>>` that
`GetOrderIdListByAddress` returns, in stored order), `products` (`<<seller, product
id>>` -> the connection's amount), `payg` (`<<product, order>>` -> the PAYG time span)
the history `paygCalls`, `userProducts` (buyer -> the `<<seller, product id>>` list
`GetProductIdListByAddress` returns) and its history `productCalls`. The stored orders and lists of `InitStore` are those the
RPC test helper `addDoDSettleTestOrder` writes: any set of orders, each with a buyer
and connections, listed per buyer in one common order.

Actions: `UpdateConnection` and `UpdateOrder` (the store writes an order or connection
update makes), `UpdatePAYGTimeSpan` (`DoDSettleUpdatePAYGTimeSpan`: the first call
stores both times, a later one replaces only the non-zero ones), `UpdateUserProduct`
(`DoDSettleUpdateUserProduct`: a product id already in the buyer's list, under any
seller, is skipped, a new one appended). Operators:
`GetOrderInfoByOrderId`, `GetConnectionInfoByProductId`, `OrderConns`, `OrderAmount` and
`GenerateInvoiceByBuyer` (`DoDSettleGenerateInvoiceByBuyer`: for every order in the
buyer's list it looks the order up under the requested seller and fails on the first
miss). `ReferenceInvoice` is the invoice the spec describes: the buyer's orders with the
seller, their amount and their distinct connections.

Bounds: `MCDoDStore` checks the order and connection tables and the buyer invoice with
two buyers, two sellers, two order ids and two product ids. `MCMiningSettlement` has a
one-key instance for the PAYG span (spans of different keys are independent), times 0..2 and three
updates; for the product list, one buyer and two sellers offering the same two product
ids, four updates, so that both sellers give both ids.

### `PKDStore`

The public key distribution storage of `abi_public_key_distribution.go`. State: the
three tables, `verifiers` (type + account -> info, key, valid), `publishes` (type + id
+ key hash + previous-block hash -> account, key, verifiers, code hashes, valid) and
`oracles` (type + id + key hash + hash + account -> code). A key is a record of its
fields. The scans read fields back out of an iterated key by the byte offsets of the
code (`VerifierTypeIndexS` and the rest, kept as definitions). `Slice` returns the
field whose bytes the offsets select exactly, and `Garbled` otherwise. So an offset
that disagrees with the layout the writers build shows up in the records.

Nothing in the file writes storage. The contract methods that do (`VerifierRegister`,
`Publish`, `Oracle`) are not in these sources, so `Init` is any storage their checks
admit:
- verifier entries have a valid type, and e-mail ones an e-mail info;
- each publication is keyed by the hash of its own key, with as many code hashes as
  distinct verifiers, and one per previous-block hash;
- oracle entries passed `OracleInfoCheck` against their publication, which may since
  have been revoked.

The state never changes. The checks (`VerifierRegInfoCheck`, `OracleInfoCheck` ...),
the point reads and the 13 scans are operators. The fee and `VerifierPledgeCheck` are
left out.

Bounds (two instances in `MCMiningSettlement`):
- `pkdVerifier`: both verifier types, two accounts, two infos (one an e-mail address).
- `pkdPublish`: one type, two accounts, one id, an ED25519 key and a key of no valid
  length, two previous-block hashes and two codes, so a verifier can hold the other
  verifier's code and two publications can share a prefix.
- About 26 000 stored states in all.

### `DoDConnParam`

The raw parameters of a connection (`DoDSettleUpdateConnectionRawParam`,
`DoDSettleGetConnectionRawParam`). State: `rawParam` (storage id -> the stored record)
and the history `rawCalls`. `UpdateConnectionRawParam` stores the whole request the
first time; later it replaces each field of `MergedFields` (lines 452-494) that the
request sets, and keeps the `KeptFields` (buyer product, offering and the endpoints,
lines 495-519) of the first request. A field value is a small natural, 0 meaning unset.
Bounds: one id, the fields ItemId, Price (merged) and BuyerProductId (kept), values
0..2, three updates.

## Runs

| Run | Config | Expect | What it shows |
|---|---|---|---|
| `ledger_rollback` | `MCRollback.cfg` | pass | Any interleaving of commits and cascaded rollbacks keeps the ledger consistent: `NoDanglingReceive` (no receive outlives its send), `PendingMatchesUnreceivedSends`, `RepresentationMatchesAccounts` (weights = sum of delegated balances), `ChainIntegrity` (token meta, block count and frontiers agree with the chains), and the action property `RollbackRevokesExactlyDependents` (a rollback removes exactly the transitive dependents of one block, compared against a reference closure). In the unchecked tier, `UncheckedRollbackRemovesDependents`: `RollbackUnchecked(h)` deletes every block parked, however deep, on h through link and previous gaps, deletes nothing that does not depend on h, and leaves the other entries as they were. In the cache tier, `CacheChainClosed`: no cache block outlives its previous block, whatever mix of cache rollbacks and confirmed revocations occurs; `AccountCacheMatchesChain`: the account meta cache exists exactly when the account has cache blocks, and its header and count describe them. In the reward tiers, `PendingRewardsReceivable`: every well-formed pending reward send (gas token, positive amount equal to the parameter's, a key no other send used) can be received, also after its reward block was rolled back while tx or rx moved on, with the stored info kept or removed. It is the reason the header comparison at rewards.go:231 must stay commented out: restoring it makes TLC fail the property in four steps. `RewardStorageMatchesChain`: every reward block on rx's chain has its info stored with its amount and contract, and, with a storage-root Extra, no info outlives its rolled-back block. |
| `rollback_open_pending_amount` | `MCLedgerRollback_pending.cfg` | violation | `PendingAmountCorrect` fails: g sends 1 to a1, a1 opens, a1 sends 1 back, rolling back a1's Open re-creates the pending entry with amount 0 (the header's balance) instead of 1. |
| `rollback_cache_receive` | `MCRollbackCache_receive.cfg` | violation | `CacheReceivesHaveSends` fails: a2 sends to a1 in the cache, a1 receives it in the cache, then a confirmed block of a2 is revoked. a2's cache blocks are deleted, but a1's receive stays. |
| `dpos` | `MCDpos.cfg` | pass | `NoLostWakeup`: a waiter parked under a confirmed hash always has that hash pending in `blocksAcked` or being served. `VotesPreserved`: every ConfirmAck the loop processed is counted by its election, still cached, evicted, or its block is confirmed. `LoopNeverBlocks`: at these bounds the loop never waits on its own channel. `WaiterEventuallyRechecked` (liveness): a waiter under a confirmed hash eventually leaves the cache. `ExpiredEventuallyPurged` (liveness): an expired online-representative entry is eventually deleted or refreshed, with votes at any time and overlapping goroutines. |
| `online_reps_fresh` | `MCOnlineReps_fresh.cfg` | violation | `FreshRepKept` fails: a goroutine reads r1's expired entry, r1's vote saves a fresh one, and the goroutine's `Delete` removes it. |
| `pov_stale_template` | `MCPovWorker_stale.cfg` | violation | `TemplatesOnBestChain` fails: TLC prints GetWork at height 0, an extension of the chain to height 1, and SubmitWork of the template from before it, which findBlockInPool still finds by WorkHash and hands to the chain; the same invariant also covers GetWork's template on the old tip after a switch to a same-height sibling. |
| `pov_startmining_partial` | `MCPovWorker_start.cfg` | violation | `FailedStartMiningKeepsConfig` fails: with m1 configured, StartMining(m2, no algorithm) errors after replacing the configured address with m2 (m2 is unpledged and passes the pledge check only below VerifyHeightStart). |
| `calculate_range_overflow` | `MCCalculateRange_overflow.cfg` | violation | `SliceBoundsValid` fails: a count near the largest int wraps `start + count`. |
| `dod_billing_loop` | `MCDoDBilling_loop.cfg` | violation | `BillingRoundTerminates` fails: Year/Month with a bound more than one unit away loops for ever. |
| `dod_invoice_units` | `MCDoDInvoice_units.cfg` | violation | `UnitBilledAdditive` fails: split invoices of a unit-billed period over adjacent windows do not sum to the invoice of their union. |
| `mining_settlement` | `MCMiningSettlement.cfg` | pass | PoV worker: `GetWorkAtNextHeight` (GetWork only hands out templates for the height after the best tip) and `TemplatesSubmittable` (every miner's current template is in the WorkHash pool). `PageMatchesReference`: for counts -1..5, calculateRange errs exactly when the reference page is empty, and otherwise returns exactly that page. `EndHeightMatchesReference`: MinerCalcRewardEndHeight returns the highest admissible round boundary or 0, and a claim from the start to it passes Verify. `RoundMatchesReference`: a DoDSettleBillingUnitRound that returns gives the first unit boundary at or after the bound. `DoDUsageAdditive`: split DoD invoices of two adjacent windows sum to the invoice of their union, disconnect fee included, in flight and settled mode. `UserProductsListed`: after any sequence of `DoDSettleUpdateUserProduct` calls, the buyer's product list holds each product id given once, with the seller of its first call, in first-call order. `SpanIsLastNonZero`: a PAYG span holds, field by field, the last non-zero time given. `RawParamMerged`: after any sequence of raw parameter updates a connection holds the first request's identifying fields and the last value set of every other field. `PKDScansAgree`: every verifier, publish and oracle scan (the latter through the publishing block, for `GetOracleInfoByHash`) returns exactly the valid entries its filter selects, each field as the key was built. `PKDChecksAgree`: the checks and point reads agree with the scans, and `OracleInfoCheck` accepts exactly the code whose hash a listed publication holds for the account. |
| `dod_invoice_buyer` | `MCDoDStore_buyer.cfg` | violation | `InvoiceByBuyerCorrect` fails: b1 has orders with s1 and s2; the invoice of b1 by s1 errs on the s2 order. |

Two more hazards TLC shows when a capacity is lowered, kept as notes rather than runs
because the real capacities make them rare: with `QueueCap <- 1` in the
`MCRollback` harness a rollback drops an enqueued receiver and `NoDanglingReceive`
fails (the real queue holds 512); with `AckCap <- 1` in the `MCDpos` harness the loop
takes a Sync block, calls `ConfirmBlock` and blocks on the channel only it drains
(`LoopNeverBlocks`).

Every property of a passing run has a mutant in `PROJECT.json` (a plausible bug in
the mapped code, e.g. keeping the later block in rollbackMap, dropping the
blockOrderCompare branch, moving Change weight the wrong way, building the pending key
with the sender) under which TLC finds it violated.

### Bounds

3 accounts (genesis g and two symmetric accounts a1, a2), 2 representatives, supply 2,
7 block ids, queue capacity 8. Seven blocks are the fewest with which a cascade reaches
a chain twice from different senders (the case where `blockOrderCompare` decides
whether the receiver is re-enqueued); supply 2 allows two separate sends from one
account. With the cache, unchecked and reward tiers, `MCRollback` explores about
285 000 distinct states in about 35 s.
`CHECK_DEADLOCK FALSE` is set because the model stops when the block ids run out; the
ledger itself never stops.

DPoS bounds: 3 blocks (a send b1 on the genesis chain, the Open b2 receiving it, b3
after b2, so both GapSource and GapPrevious occur and a chain of two waits), one local
and one remote representative with quorum 2 (an election needs a remote ack, which may
arrive while the block is a gap), 4 deliveries, `blocksAcked` capacity 2 (the fewest
with which the loop never blocks at these bounds; at 1 it does, see Runs).

Online representatives (in `MCDpos`): one local representative, `repTimeout` 5 and
`findOnlineRepInterval` 2 minutes as in the code, 6 minutes: goroutines are spawned at
minutes 2, 4 and 6 and may overlap, and a vote of minute 0 expires before the last
one. The violation run has a second (remote) representative. `MCDpos` has about
106 000 states and takes about 80 s (the two liveness properties).

PoV worker bounds: two miners (one pledged, one not), one algorithm, 2 best-chain
changes (enough for extend-then-switch and extend-then-extend), the pledge checked
from height 1 on (so the unpledged miner gets work on the genesis tip and is refused
after), 1 clock period in `MCMiningSettlement` (a template reused within it and
renewed after it; the violation harness `MCPovWorker` has 2). The worker never stops
(its RPCs are always enabled), so deadlock is checked. `MCMiningSettlement` has about
1 417 000 states and takes about 130 s, most of it evaluating the two public key
distribution properties.

### Fairness

`LedgerRollback` checks no liveness: `Rollback` is one synchronous call.
`DposEngine` assumes weak fairness of `ProcessMsgLoop` only (see above).
`OnlineReps` assumes that the clock advances, that the `Start` loop takes its ticker
(its select has no other blocking case) and that runnable goroutines are scheduled:
weak fairness of `Tick`, `TimerFindOnlineRep` and of the goroutines' steps together
(each goroutine ends, so this lets every one finish). Votes are not assumed.
`PovWorker` checks safety only.

## Findings

1. `rollback.go:379` (code bug): the Open case re-creates the pending entry of the
   source send with `tm.Balance`, the balance at the chain's header, not the amount
   sent. The Receive case computes `cur - pre` correctly.
2. `pov_worker.go:237, 449` (divergence from the spec): templates are reset only
   inside the next GetWork, and only on a height change. A template from before the
   chain advanced is still found and accepted by SubmitWork (the trace TLC prints), and
   a same-height reorg keeps serving templates on the replaced tip.
3. `pov_worker.go:285-293` (code bug): StartMining updates the configuration before
   its last check, and that check reads the request's algorithm, so the configured
   algorithm is never used as the fallback line 272 allows.
4. `settlement.go:930` (code bug): `start + count` overflows for a huge `count`; the
   RPC then slices with `end < start` and panics.
5. `abi_dod_settlement.go:104` (code bug): the Year/Month loops never advance `start`
   and never end for a bound more than one unit away.
6. `abi_dod_settlement.go:149` (code bug): the Month count is at least 1, so an empty
   invoice window bills a whole month, and split invoices bill the same month in
   every window.
7. `abi_dod_settlement.go:770` (code bug): a split invoice rounds its end up past the
   period's EndTime when the window ends exactly there, and uses EndTime unrounded when
   the window runs past it; a period shorter than a unit is billed one unit or none
   depending on where the window ends.
8. `rollback.go:499` (divergence from the spec): a cache-tier rollback does not
   cascade through send/receive pairs. The spec (4.1) says `rollback_cache` uses the
   same logic as `rollback`. But `checkBlockUnConfirmed` deletes an account's cache
   blocks wholesale, and `rollbackCache` follows one chain only. So a cache receive of
   a deleted cache send survives.
9. `abi_dod_settlement.go:991` (code bug): `DoDSettleGenerateInvoiceByBuyer` looks
   every order of the buyer up under the requested seller. A buyer with orders from
   two sellers cannot be invoiced by either (the lookup fails), and when another
   seller's order id is also an id of the requested seller, that seller's order of a
   different buyer is billed.
10. `dpos_impl.go:601` (divergence from the spec): `cleanOnlineReps` reads an entry
   and deletes the key in two steps, so a vote saved in between is deleted; spec 5
   says the periodic cleaner deletes only expired entries. A representative that has
   just voted is offline until its next vote.

Observations without a run (hazard notes in `PROJECT.json`): the rollback queue's
silent `Put` failure and `blocksAcked` self-blocking above; `MinerCalcRewardEndHeight`
returning an end below the start (rewards from 6, rounds of 4: start 8, maxEnd 9 gives
7) instead of 0, whose contract the spec does not state; a flight, non-split DoD period
starting exactly on the bound shared by two windows is billed in both (line 737 with
the `bs == e` case of `DoDSettleNeedInvoice`), which may be the intended closed-window
reading; `RollbackUnchecked` looking the token-info dependent up under the zero
hash (rollback.go:902), so a block waiting for a minted token survives the rollback
of the mint (`TokenDependentsRemoved` in `UncheckedRollback` fails on it at once, but
no run slot is left for it); `OracleInfoCheck` indexing the code hashes by the
verifier's position with no length check (line 427), which panics if a publication
carries fewer codes than verifiers. Reward contracts (rewards.go:167): `DoSend` and
`doPending` accept any token, any amount and any reused key, and the pending entry
holds the parameter's amount, not the amount sent. But `generate` refuses a non-gas
token, a zero amount, or a key stored with another amount. Such a send leaves a
pending entry that can never be received. `ContractRewards` reaches these states.
`PendingRewardsReceivable` is stated for well-formed sends only, because `Verify`
is not in these sources and may refuse such parameters.

## Plan for the rest

1. `DposEngine`: forks (`ProcessFork`, loser rollback) and `rollbackUnchecked`.
2. ContractSend rollback of chain-token contracts in `LedgerRollback` (the
   missing `rollBackRep`).
3. `DoDStore`: the invoice by product (it needs the connection's track of orders), the
   merge of order and connection updates into the stored connection, and a run of the
   per-seller product listing the RPC test implies against `UserProductsListed`.

## Not modelled

The PoV block processor (`pov_processor.go`) is a stub: nothing in these sources
constructs it, and `processBlock` only drops duplicates and parks orphans in two maps
nobody reads. It neither submits a non-orphan nor replays parked children nor caps the
pool, all of which spec 4.4 describes.

The DoD invoices by order and by product (`DoDSettleGenerateInvoiceByOrder`,
`...ByProduct`) reuse the order lookup and the per-connection sums of the invoice by
buyer; with connections abstracted to their billed amount, a property of them could
only restate those sums, so they are left out.

No abstract specification is refined: the reward contracts' sends, receives and
rollbacks map one to one onto an abstract transfer protocol, so such a refinement
restates their assignments, and the cascaded rollback's abstract counterpart (revoke
the dependency closure) is already the action property
`RollbackRevokesExactlyDependents`.

The contract registry (`contract.go`) maps addresses and method ids to contract
implementations, with no state that changes.

SQL relation store, CLI and RPC wrappers, configuration, protobuf messages, ABI
packing and generated serialisation code (`abi_kyc_types_gen.go`): they are encoding and I/O with no
interleaving or persistent state machine for TLC to explore.
