------------------------------ MODULE PovWorker ------------------------------
(***************************************************************************)
(* The PoV miner worker (src/miner/pov_worker.go): the RPC handlers        *)
(* GetWork, SubmitWork, StartMining and StopMining, run one at a time by   *)
(* the worker's loop, and the template pool they share.                    *)
(*                                                                         *)
(* A template is abstracted to the tip it builds on, its height, miner,    *)
(* algorithm and creation time; its WorkHash is the template itself.      *)
(* The chain runs in its own goroutine: it may extend the best chain or    *)
(* switch to another block at the same height.  Time advances in steps of  *)
(* just over 30 seconds, the template reuse window.  newBlockTemplate's    *)
(* errors (state DB, consensus) and the sync-state check are not modelled; *)
(* the vote pledge is a fixed set of miners, checked from the verify       *)
(* height on.                                                               *)
(***************************************************************************)
EXTENDS Integers, Functions, TLC

CONSTANTS
    Miners,     \* miner addresses a request may name
    Zero,       \* the zero address
    Algos,      \* supported algorithms
    Unknown,    \* ALGO_UNKNOWN
    Pledged,    \* miners whose vote pledge checkMinerPledge accepts
    VerifyHeightStart, \* PovMinerVerifyHeightStart
    None,       \* no template
    MaxTips,    \* bound on best-chain changes
    MaxClock    \* bound on 30-second periods

ASSUME Pledged \subseteq Miners

VARIABLES
    tip,             \* best chain head: [id, height]
    tipCount,        \* best-chain changes so far (fresh tip ids)
    clock,           \* time, in 30-second periods
    mineBlockPool,   \* templates a SubmitWork may name
    minerAlgoBlocks, \* <<miner, algo>> -> [blk, last]: current template and its time
    lastMineHeight,  \* tip height at the last pool reset
    minerAddr,       \* configured coinbase
    algoType,        \* configured algorithm
    cpuMining,       \* CPU mining enabled
    reply,           \* template returned by the step's GetWork, else None
    rpcErr,          \* the step's RPC returned an error
    submitted        \* history: [blk, tip] of every block handed to the chain

vars == <<tip, tipCount, clock, mineBlockPool, minerAlgoBlocks, lastMineHeight,
          minerAddr, algoType, cpuMining, reply, rpcErr, submitted>>

Tips == [id : 0..MaxTips, height : 0..MaxTips]
Templates == [prev : 0..MaxTips, height : 1..MaxTips + 1, miner : Miners,
              algo : Algos, t : 0..MaxClock]

Config == <<minerAddr, algoType, cpuMining>>
Chain == <<tip, tipCount, clock>>

(* Mutant: the height copied from the latest header, without the + 1.     *)
NewBlockTemplateOnTipHeight(m, a) ==
    [prev |-> tip.id, height |-> tip.height, miner |-> m, algo |-> a, t |-> clock]

(* newBlockTemplate: a block on the latest header.                         *)
NewBlockTemplate(m, a) ==
    [prev |-> tip.id, height |-> tip.height + 1, miner |-> m, algo |-> a, t |-> clock]

(* The reset of generateBlock: a new pool when the tip height changed.     *)
(* Mutant: the pool is reset but the per-miner current templates are not. *)
PoolResetKeepAlgoBlocks(pool, algoBlks) ==
    IF lastMineHeight # tip.height THEN <<<<>>, algoBlks>> ELSE <<pool, algoBlks>>

PoolReset(pool, algoBlks) ==
    IF lastMineHeight # tip.height THEN <<<<>>, <<>>>> ELSE <<pool, algoBlks>>

(* checkMinerPledge: below the verify height every miner passes; from it   *)
(* on, only a miner whose vote in the tip's state reaches the pledge (a    *)
(* missing state DB or account fails as well).                             *)
CheckMinerPledge(m) == tip.height < VerifyHeightStart - 1 \/ m \in Pledged

(* checkAndFillBlockByResult: the miner's coinbase extra size, coinbase    *)
(* hash, merkle root, block hash and aux PoW all match, or one does not.   *)
FillResults == BOOLEAN

(* submitBlock: the block goes to the chain; the chain's error or the     *)
(* one-minute timeout is only logged.                                      *)
SubmitBlock(t) == submitted \cup {[blk |-> t, tip |-> tip.id]}

(* GetWork -> checkMinerPledge -> generateBlock, under muxMineBlock.       *)
(* A template is reused unless it is absent or more than 30 s old.         *)
GetWork(m, a) ==
    /\ CheckMinerPledge(m)
    /\ LET reset == PoolReset(mineBlockPool, minerAlgoBlocks)
           pool == reset[1]
           algoBlks == reset[2]
           k == <<m, a>>
           fresh == k \notin DOMAIN algoBlks \/ clock > algoBlks[k].last
           blk == IF fresh THEN NewBlockTemplate(m, a) ELSE algoBlks[k].blk
       IN /\ lastMineHeight' = tip.height
          /\ minerAlgoBlocks' = IF fresh THEN (k :> [blk |-> blk, last |-> clock]) @@ algoBlks
                                ELSE algoBlks
          /\ mineBlockPool' = IF fresh THEN (blk :> TRUE) @@ pool ELSE pool
          /\ reply' = blk
    /\ rpcErr' = FALSE
    /\ UNCHANGED <<Chain, Config, submitted>>

(* GetWork for a miner whose pledge is not enough: an error, no change.   *)
GetWorkUnpledged(m, a) ==
    /\ ~CheckMinerPledge(m)
    /\ reply' = None /\ rpcErr' = TRUE
    /\ UNCHANGED <<Chain, Config, mineBlockPool, minerAlgoBlocks, lastMineHeight, submitted>>

(* SubmitWork: find the template by WorkHash, check the miner's result    *)
(* (ok: coinbase, merkle root and block hash all match) and submitBlock.  *)
SubmitWork(t, ok) ==
    /\ reply' = None
    /\ rpcErr' = (t \notin DOMAIN mineBlockPool \/ ~ok)
    /\ submitted' = IF rpcErr' THEN submitted ELSE SubmitBlock(t)
    /\ UNCHANGED <<Chain, Config, mineBlockPool, minerAlgoBlocks, lastMineHeight>>

(* StartMining, check by check; the fields are assigned before the last    *)
(* check (lines 285-296), which tests the request's algoType.              *)
StartMining(addr, algo) ==
    LET refused == cpuMining
                   \/ (addr = Zero /\ minerAddr = Zero)
                   \/ (algo = Unknown /\ algoType = Unknown)
                   \/ (addr # Zero /\ ~CheckMinerPledge(addr))
        addr2 == IF addr # Zero THEN addr ELSE minerAddr
        algo2 == IF algo # Unknown THEN algo ELSE algoType
    IN /\ reply' = None
       /\ IF refused
          THEN /\ rpcErr' = TRUE
               /\ UNCHANGED Config
          ELSE /\ minerAddr' = addr2
               /\ algoType' = algo2
               /\ rpcErr' = (addr2 = Zero \/ algo = Unknown)
               /\ cpuMining' = ~rpcErr'
       /\ UNCHANGED <<Chain, mineBlockPool, minerAlgoBlocks, lastMineHeight, submitted>>

StopMining ==
    /\ reply' = None
    /\ rpcErr' = ~cpuMining
    /\ cpuMining' = FALSE
    /\ UNCHANGED <<Chain, minerAddr, algoType, mineBlockPool, minerAlgoBlocks,
                   lastMineHeight, submitted>>

-----------------------------------------------------------------------------
(* The chain and time.                                                     *)

Env(newTip, newClock) ==
    /\ tip' = newTip /\ clock' = newClock
    /\ tipCount' = IF newTip = tip THEN tipCount ELSE tipCount + 1
    /\ reply' = None /\ rpcErr' = FALSE
    /\ UNCHANGED <<Config, mineBlockPool, minerAlgoBlocks, lastMineHeight, submitted>>

(* A new best block extends the chain.                                     *)
ExtendChain ==
    /\ tipCount < MaxTips
    /\ Env([id |-> tipCount + 1, height |-> tip.height + 1], clock)

(* The best chain switches to a sibling of the tip (same height).          *)
SwitchSameHeight ==
    /\ tipCount < MaxTips
    /\ tip.height > 0
    /\ Env([id |-> tipCount + 1, height |-> tip.height], clock)

Tick ==
    /\ clock < MaxClock
    /\ Env(tip, clock + 1)

Init ==
    /\ tip = [id |-> 0, height |-> 0]
    /\ tipCount = 0
    /\ clock = 0
    /\ mineBlockPool = <<>>
    /\ minerAlgoBlocks = <<>>
    /\ lastMineHeight = 0
    /\ minerAddr \in Miners \cup {Zero}
    /\ algoType \in Algos \cup {Unknown}
    /\ cpuMining \in {FALSE} \cup {b \in BOOLEAN : minerAddr # Zero /\ algoType # Unknown}
    /\ reply = None
    /\ rpcErr = FALSE
    /\ submitted = {}

Next ==
    \/ \E m \in Miners, a \in Algos : GetWork(m, a) \/ GetWorkUnpledged(m, a)
    \/ \E t \in DOMAIN mineBlockPool, ok \in FillResults : SubmitWork(t, ok)
    \/ \E addr \in Miners \cup {Zero}, algo \in Algos \cup {Unknown} : StartMining(addr, algo)
    \/ StopMining
    \/ ExtendChain
    \/ SwitchSameHeight
    \/ Tick

Spec == Init /\ [][Next]_vars

-----------------------------------------------------------------------------
(* Properties.                                                             *)

TypeOK ==
    /\ tip \in Tips /\ tipCount \in 0..MaxTips /\ clock \in 0..MaxClock
    /\ DOMAIN mineBlockPool \subseteq Templates
    /\ DOMAIN minerAlgoBlocks \subseteq Miners \X Algos
    /\ \A k \in DOMAIN minerAlgoBlocks :
          minerAlgoBlocks[k] \in [blk : Templates, last : 0..MaxClock]
    /\ lastMineHeight \in 0..MaxTips
    /\ minerAddr \in Miners \cup {Zero} /\ algoType \in Algos \cup {Unknown}
    /\ cpuMining \in BOOLEAN /\ rpcErr \in BOOLEAN
    /\ reply \in Templates \cup {None}
    /\ submitted \subseteq [blk : Templates, tip : 0..MaxTips]

(* GetWork only hands out a template for the height after the best chain's *)
(* head: generateBlock's reset on a height change never lets a template of *)
(* an older height survive in minerAlgoBlocks, whatever the order of chain *)
(* changes, clock ticks and requests of several miners.                    *)
GetWorkAtNextHeight ==
    reply # None => reply.height = tip.height + 1

(* Every miner's current template can be submitted: a template GetWork    *)
(* keeps handing out (minerAlgoBlocks) is always found by findBlockInPool  *)
(* (mineBlockPool), across resets and reuse.                               *)
TemplatesSubmittable ==
    \A k \in DOMAIN minerAlgoBlocks : minerAlgoBlocks[k].blk \in DOMAIN mineBlockPool

(* A template is only used on the best chain it was built on.  The        *)
(* specification (4.5) says GetWork's template has the latest header as   *)
(* parent, and its boundary cases that a template submitted after the     *)
(* best chain advanced is rejected on WorkHash mismatch.  generateBlock   *)
(* resets its pool only when the tip height changes, and only inside the  *)
(* next GetWork, so neither holds.                                         *)
TemplatesOnBestChain ==
    /\ reply # None => reply.prev = tip.id
    /\ \A sub \in submitted : sub.blk.prev = sub.tip

(* A StartMining that returns an error leaves the configured miner address *)
(* and algorithm as they were (lines 285-296 assign before the last check). *)
FailedStartMiningKeepsConfig ==
    [][\A addr \in Miners \cup {Zero}, algo \in Algos \cup {Unknown} :
          (StartMining(addr, algo) /\ rpcErr') => UNCHANGED <<minerAddr, algoType>>]_vars

====
