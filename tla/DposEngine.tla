----------------------------- MODULE DposEngine -----------------------------
(***************************************************************************)
(* The DPoS engine's gap handling (src/consensus/dpos/dpos_impl.go).       *)
(*                                                                         *)
(* ProcessMsgLoop is one goroutine: each iteration drains blocksAcked,     *)
(* calling dequeueUnchecked for every confirmed hash, then takes one       *)
(* BlockSource from the blocks channel (ProcessMsgDo) or falls through     *)
(* after 1 ms.  dequeueUnchecked ranges over the parked waiters one at a   *)
(* time, so the election goroutine may confirm blocks in between.          *)
(*                                                                         *)
(* The ledger is abstracted to the set of confirmed blocks; BlockCheck     *)
(* classifies a block by whether it and its previous and source blocks are *)
(* confirmed (fork and rejection results are not modelled).  The election  *)
(* side (acTrx: addToRoots, vote, addWinner2Ledger) is not in this         *)
(* repository's sources and is modelled from the specification (4.2).      *)
(* The unchecked and vote caches are LRU caches with TTL: any entry may    *)
(* vanish at any time, which Evict and EvictVotes model.                   *)
(***************************************************************************)
EXTENDS Integers, Sequences, FiniteSets, Functions, TLC

CONSTANTS
    Blocks,      \* account-chain blocks that may arrive
    Genesis,     \* the block confirmed from the start
    None,        \* the zero hash
    Prev,        \* Prev[b]: previous block of b, or None
    Src,         \* Src[b]: source send of b (Open/Receive), or None
    LocalReps,   \* representatives whose keys this node holds (localRepAccount)
    RemoteReps,  \* representatives whose ConfirmAck may arrive
    Quorum,      \* number of votes an election needs
    MaxMsgs,     \* bound on BlockSources delivered in a behaviour
    AckCap       \* capacity of blocksAcked (maxBlocks)

AllBlocks == Blocks \cup {Genesis}
Reps == LocalReps \cup RemoteReps
MsgTypes == {"PublishReq", "ConfirmAck", "Sync"}

ASSUME Prev \in [Blocks -> AllBlocks \cup {None}] /\ Src \in [Blocks -> AllBlocks \cup {None}]

VARIABLES
    ledger,     \* confirmed blocks
    roots,      \* blocks with an active election (acTrx.roots)
    tally,      \* tally[b]: representatives whose vote the election of b holds
    unchecked,  \* uncheckedCache: missing hash d -> waiters [blk, from] parked under it
    voteCache,  \* voteCache[b]: representatives whose ack for gap block b is cached
    msgs,       \* the blocks channel
    acked,      \* the blocksAcked channel
    pc,         \* ProcessMsgLoop: "drain", "range" (inside dequeueUnchecked) or "select"
    todo,       \* waiters dequeueUnchecked has still to visit
    cur,        \* the hash dequeueUnchecked is serving
    sent,       \* BlockSources delivered so far
    heard,      \* history: <<b, r>> of every ConfirmAck the loop processed
    expired     \* history: <<b, r>> of every cached vote the vote cache evicted

vars == <<ledger, roots, tally, unchecked, voteCache, msgs, acked, pc, todo, cur,
          sent, heard, expired>>

Waiter == [blk : Blocks, from : {"sync", "unsync"}]
Msg == [type : {"ConfirmAck"}, blk : Blocks, rep : RemoteReps]
       \cup [type : {"PublishReq", "Sync"}, blk : Blocks, rep : {None}]

(* lv.BlockCheck, abstracted: Old when confirmed, GapPrevious / GapSource  *)
(* when the previous / source block is not, Progress otherwise.            *)
Missing(x) == x # None /\ x \notin ledger

BlockCheck(b) ==
    CASE b \in ledger      -> "Old"
      [] Missing(Prev[b])  -> "GapPrevious"
      [] Missing(Src[b])   -> "GapSource"
      [] OTHER             -> "Progress"

(* Mutant: the gap key taken from the wrong field (link for previous).    *)
GapKeySwapped(b, res) == IF res = "GapPrevious" THEN Src[b] ELSE Prev[b]

GapKey(b, res) == IF res = "GapPrevious" THEN Prev[b] ELSE Src[b]

IsResultValid(res) == res \in {"Progress", "Old"}

(* Mutant: GapSource is not treated as a gap.                              *)
IsResultGapPreviousOnly(res) == res = "GapPrevious"

IsResultGap(res) == res \in {"GapPrevious", "GapSource"}

(* enqueueUnchecked: store the waiter under depHash, replacing an entry    *)
(* for the same block hash (sync.Map.Store keyed by hash).                 *)
EnqueueUnchecked(u, d, w) ==
    IF d \in DOMAIN u
    THEN [u EXCEPT ![d] = {x \in @ : x.blk # w.blk} \cup {w}]
    ELSE (d :> {w}) @@ u

Parked(d) == IF d \in DOMAIN unchecked THEN unchecked[d] ELSE {}

(* ProcessResult: Progress from an unsynchronized source starts an         *)
(* election, a gap parks the block; the other results only log.            *)
ResultRoots(res, w, rts) ==
    IF res = "Progress" /\ w.from = "unsync" THEN rts \cup {w.blk} ELSE rts

ResultUnchecked(res, w, u) ==
    IF IsResultGap(res) THEN EnqueueUnchecked(u, GapKey(w.blk, res), w) ELSE u

(* acTrx.vote for each of reps: counted only by an active election.        *)
Vote(b, reps, rts, t) == IF b \in rts THEN [t EXCEPT ![b] = @ \cup reps] ELSE t

(* ConfirmBlock: end the election, commit the winner (addWinner2Ledger,    *)
(* which succeeds only if the block's dependencies are confirmed) and      *)
(* send its hash to blocksAcked, blocking while the channel is full.       *)
(* Mutant: the hash is not sent when there was no election (the else       *)
(* branch, lines 410-413, without the blocksAcked send).                   *)
(* Mutant: blocksAcked treated as unbounded (no wait when full).          *)
ConfirmBlockUnbounded(b, rts) ==
    /\ roots' = rts \ {b}
    /\ ledger' = IF Missing(Prev[b]) \/ Missing(Src[b]) THEN ledger ELSE ledger \cup {b}
    /\ acked' = Append(acked, b)

ConfirmBlockNoAckWithoutElection(b, rts) ==
    /\ roots' = rts \ {b}
    /\ ledger' = IF Missing(Prev[b]) \/ Missing(Src[b]) THEN ledger ELSE ledger \cup {b}
    /\ acked' = IF b \in rts THEN Append(acked, b) ELSE acked
    /\ Len(acked) < AckCap

ConfirmBlock(b, rts) ==
    /\ roots' = rts \ {b}
    /\ ledger' = IF Missing(Prev[b]) \/ Missing(Src[b]) THEN ledger ELSE ledger \cup {b}
    /\ acked' = Append(acked, b)
    /\ Len(acked) < AckCap

-----------------------------------------------------------------------------
(* ProcessMsgLoop.                                                         *)

(* The drain loop takes one confirmed hash; dequeueUnchecked returns at    *)
(* once when nothing is parked under it, else snapshots the waiters.       *)
DrainAcked ==
    /\ pc = "drain"
    /\ acked # <<>>
    /\ LET h == Head(acked)
       IN /\ acked' = Tail(acked)
          /\ IF h \notin DOMAIN unchecked
             THEN UNCHANGED <<pc, todo, cur>>
             ELSE /\ pc' = "range" /\ todo' = unchecked[h] /\ cur' = h
    /\ UNCHANGED <<ledger, roots, tally, unchecked, voteCache, msgs, sent, heard, expired>>

(* Mutant: the loop goes on to the select without draining blocksAcked.   *)
DrainDoneEarly ==
    /\ pc = "drain"
    /\ pc' = "select"
    /\ UNCHANGED <<ledger, roots, tally, unchecked, voteCache, msgs, acked, todo, cur,
                   sent, heard, expired>>

DrainDone ==
    /\ pc = "drain"
    /\ acked = <<>>
    /\ pc' = "select"
    /\ UNCHANGED <<ledger, roots, tally, unchecked, voteCache, msgs, acked, todo, cur,
                   sent, heard, expired>>

(* One waiter of dequeueUnchecked's Range: BlockCheck, ProcessResult, and  *)
(* for a valid block either ConfirmBlock (synchronized) or the cached      *)
(* votes and the local representatives' votes.                             *)
DequeueWaiter(w) ==
    LET b == w.blk
        res == BlockCheck(b)
        rts == ResultRoots(res, w, roots)
    IN /\ pc = "range"
       /\ w \in todo
       /\ todo' = todo \ {w}
       /\ unchecked' = ResultUnchecked(res, w, unchecked)
       /\ IF ~IsResultValid(res)
          THEN UNCHANGED <<ledger, roots, tally, voteCache, acked>>
          ELSE IF w.from = "sync"
          THEN /\ ConfirmBlock(b, rts)
               /\ UNCHANGED <<tally, voteCache>>
          ELSE /\ roots' = rts
               /\ tally' = Vote(b, voteCache[b] \cup LocalReps, rts, tally)
               /\ voteCache' = [voteCache EXCEPT ![b] = {}]
               /\ UNCHANGED <<ledger, acked>>
       /\ UNCHANGED <<msgs, pc, cur, sent, heard, expired>>

(* The end of dequeueUnchecked: uncheckedCache.Remove(hash).               *)
(* Mutant: the entry is left in the cache.                                 *)
DequeueEndKeep(u, h) == u

DequeueEnd(u, h) == Restrict(u, DOMAIN u \ {h})

DequeueDone ==
    /\ pc = "range"
    /\ todo = {}
    /\ unchecked' = DequeueEnd(unchecked, cur)
    /\ pc' = "drain"
    /\ cur' = None
    /\ UNCHANGED <<ledger, roots, tally, voteCache, msgs, acked, todo, sent, heard, expired>>

(* ProcessMsgDo for the BlockSource at the head of the blocks channel.     *)
(* A block already in an election is not checked and counts as Progress.  *)
ProcessMsgDo ==
    /\ pc = "select"
    /\ msgs # <<>>
    /\ LET m == Head(msgs)
           b == m.blk
           w == [blk |-> b, from |-> IF m.type = "Sync" THEN "sync" ELSE "unsync"]
           voting == b \in roots
           res == IF voting THEN "Progress" ELSE BlockCheck(b)
           rts == IF voting THEN roots ELSE ResultRoots(res, w, roots)
       IN /\ msgs' = Tail(msgs)
          /\ pc' = "drain"
          /\ unchecked' = IF voting THEN unchecked ELSE ResultUnchecked(res, w, unchecked)
          /\ heard' = IF m.type = "ConfirmAck" THEN heard \cup {<<b, m.rep>>} ELSE heard
          /\ CASE m.type = "PublishReq" ->
                    /\ roots' = rts
                    /\ tally' = IF IsResultValid(res) THEN Vote(b, LocalReps, rts, tally) ELSE tally
                    /\ UNCHANGED <<ledger, voteCache, acked>>
               [] m.type = "ConfirmAck" /\ IsResultGap(res) ->
                    /\ roots' = rts
                    /\ voteCache' = [voteCache EXCEPT ![b] = @ \cup {m.rep}]
                    /\ UNCHANGED <<ledger, tally, acked>>
               [] m.type = "ConfirmAck" ->
                    /\ roots' = rts
                    /\ tally' = CASE res = "Progress" -> Vote(b, {m.rep} \cup LocalReps, rts, tally)
                                  [] res = "Old"      -> Vote(b, {m.rep}, rts, tally)
                                  [] OTHER            -> tally
                    /\ UNCHANGED <<ledger, voteCache, acked>>
               [] m.type = "Sync" /\ res = "Progress" ->
                    /\ ConfirmBlock(b, rts)
                    /\ UNCHANGED <<tally, voteCache>>
               [] OTHER ->
                    /\ roots' = rts
                    /\ UNCHANGED <<ledger, tally, voteCache, acked>>
    /\ UNCHANGED <<todo, cur, sent, expired>>

(* The 1 ms fall-through of the select when no BlockSource is waiting.     *)
Tick ==
    /\ pc = "select"
    /\ msgs = <<>>
    /\ pc' = "drain"
    /\ UNCHANGED <<ledger, roots, tally, unchecked, voteCache, msgs, acked, todo, cur,
                   sent, heard, expired>>

-----------------------------------------------------------------------------
(* Other goroutines and the environment.                                   *)

(* ProcessMsg: a peer, sync or the local node delivers a BlockSource.      *)
Deliver(m) ==
    /\ sent < MaxMsgs
    /\ msgs' = Append(msgs, m)
    /\ sent' = sent + 1
    /\ UNCHANGED <<ledger, roots, tally, unchecked, voteCache, acked, pc, todo, cur,
                   heard, expired>>

(* The election goroutine confirms a block whose tally reached quorum.    *)
Elect(b) ==
    /\ b \in roots
    /\ Cardinality(tally[b]) >= Quorum
    /\ ConfirmBlock(b, roots)
    /\ UNCHANGED <<tally, unchecked, voteCache, msgs, pc, todo, cur, sent, heard, expired>>

(* LRU eviction or TTL expiry of an unchecked entry.                       *)
Evict(d) ==
    /\ d \in DOMAIN unchecked
    /\ unchecked' = Restrict(unchecked, DOMAIN unchecked \ {d})
    /\ UNCHANGED <<ledger, roots, tally, voteCache, msgs, acked, pc, todo, cur,
                   sent, heard, expired>>

(* LRU eviction or TTL expiry of a vote cache entry.                       *)
EvictVotes(b) ==
    /\ voteCache[b] # {}
    /\ voteCache' = [voteCache EXCEPT ![b] = {}]
    /\ expired' = expired \cup {<<b, r>> : r \in voteCache[b]}
    /\ UNCHANGED <<ledger, roots, tally, unchecked, msgs, acked, pc, todo, cur, sent, heard>>

Init ==
    /\ ledger = {Genesis}
    /\ roots = {}
    /\ tally = [b \in Blocks |-> {}]
    /\ unchecked = <<>>
    /\ voteCache = [b \in Blocks |-> {}]
    /\ msgs = <<>>
    /\ acked = <<>>
    /\ pc = "drain"
    /\ todo = {}
    /\ cur = None
    /\ sent = 0
    /\ heard = {}
    /\ expired = {}

Loop ==
    \/ DrainAcked
    \/ DrainDone
    \/ \E w \in todo : DequeueWaiter(w)
    \/ DequeueDone
    \/ ProcessMsgDo
    \/ Tick

Next ==
    \/ Loop
    \/ \E m \in Msg : Deliver(m)
    \/ \E b \in Blocks : Elect(b)
    \/ \E d \in DOMAIN unchecked : Evict(d)
    \/ \E b \in Blocks : EvictVotes(b)

(* ProcessMsgLoop never waits on anything but a full channel: the 1 ms    *)
(* fall-through keeps it running, so it is weakly fair.                    *)
Spec == Init /\ [][Next]_vars /\ WF_vars(Loop)

-----------------------------------------------------------------------------
(* Properties.                                                             *)

TypeOK ==
    /\ ledger \subseteq AllBlocks /\ roots \subseteq Blocks
    /\ tally \in [Blocks -> SUBSET Reps]
    /\ DOMAIN unchecked \subseteq AllBlocks /\ \A d \in DOMAIN unchecked : unchecked[d] \subseteq Waiter
    /\ voteCache \in [Blocks -> SUBSET RemoteReps]
    /\ msgs \in Seq(Msg) /\ acked \in Seq(AllBlocks) /\ Len(acked) <= AckCap
    /\ pc \in {"drain", "range", "select"} /\ todo \subseteq Waiter
    /\ cur \in AllBlocks \cup {None} /\ sent \in 0..MaxMsgs

(* No lost wake-up: a block parked under a hash that is already confirmed *)
(* has that hash still waiting in blocksAcked, or dequeueUnchecked is      *)
(* serving it.  ConfirmBlock must commit before it signals, BlockCheck and *)
(* enqueueUnchecked must run in the loop that drains blocksAcked.          *)
NoLostWakeup ==
    \A d \in DOMAIN unchecked :
        d \in ledger =>
            \/ \E i \in 1..Len(acked) : acked[i] = d
            \/ pc = "range" /\ cur = d

(* A ConfirmAck the loop processed is never silently dropped: the block is *)
(* confirmed, the vote is in its election's tally, or it is still in the  *)
(* vote cache (or the cache evicted it).  Covers ProcessMsgDo's gap branch *)
(* and the folding of cached votes in dequeueUnchecked.                    *)
VotesPreserved ==
    \A <<b, r>> \in heard :
        b \in ledger \/ r \in tally[b] \/ r \in voteCache[b] \/ <<b, r>> \in expired

(* ProcessMsgLoop can always take a step: it never waits forever on a     *)
(* send to blocksAcked, the channel only it receives from (ConfirmBlock    *)
(* called from dequeueUnchecked or from ProcessMsgDo's Sync branch).       *)
LoopNeverBlocks == ENABLED Loop

(* A block parked under a confirmed hash is eventually taken out of the    *)
(* unchecked cache (re-checked by dequeueUnchecked, or evicted).           *)
WaiterEventuallyRechecked ==
    \A d \in AllBlocks, w \in Waiter :
        (w \in Parked(d) /\ d \in ledger) ~> (w \notin Parked(d))

====
