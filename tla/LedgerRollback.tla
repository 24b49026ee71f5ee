--------------------------- MODULE LedgerRollback ---------------------------
(***************************************************************************)
(* The confirmed tier of the account-chain ledger and the verifier's       *)
(* cascaded rollback (src/ledger/process/rollback.go, LedgerVerifier).      *)
(*                                                                         *)
(* One token is modelled: the chain token, so every block moves            *)
(* representation weight.  A block hash is an integer id; id 1 is the      *)
(* genesis Open block.  The processing side (Open, Send, Receive, Change)  *)
(* is the verifier's commit path, which is not part of this repository's   *)
(* sources and is modelled from the specification (section 4.1).  The      *)
(* rollback side is translated from rollback.go: the queue loop that       *)
(* builds rollbackMap, and rollbackBlocks, which walks every affected      *)
(* chain from its header back to the oldest block to revoke.               *)
(***************************************************************************)
EXTENDS Integers, Sequences, FiniteSets, SequencesExt, Functions

CONSTANTS
    Accounts,     \* addresses that may own an account chain
    Reps,         \* representative addresses
    GenesisAcct,  \* the account that owns the genesis Open block
    GenesisRep,   \* its representative
    Supply,       \* balance of the genesis block
    MaxBlocks,    \* bound on block ids ever created (ids 1..MaxBlocks)
    QueueCap,     \* capacity of the relatedBlocks queue (queue.NewQueue(512))
    NoBlock       \* the zero hash

ASSUME GenesisAcct \in Accounts /\ GenesisRep \in Reps
ASSUME Supply \in Nat \ {0} /\ MaxBlocks \in Nat \ {0} /\ QueueCap \in Nat \ {0}

VARIABLES
    blocks,          \* committed state blocks: id -> block record
    tokenMeta,       \* account -> [header, balance, rep, blockCount]
    frontiers,       \* frontier table: header id -> open id
    pending,         \* <<destination, send id>> -> amount
    representation,  \* rep -> delegated weight
    nextId           \* next unused block id

vars == <<blocks, tokenMeta, frontiers, pending, representation, nextId>>

Ids == 1..MaxBlocks
GenesisId == 1
BlockTypes == {"Open", "Send", "Receive", "Change"}

Block(t, a, p, l, bal, r) ==
    [type |-> t, address |-> a, previous |-> p, link |-> l, balance |-> bal, rep |-> r]

IsSendBlock(b) == blocks[b].type = "Send"
IsReceiving(b) == blocks[b].type \in {"Open", "Receive"}

(* ledger.GetBlockLink: the block that received send block s.             *)
GetBlockLink(s) ==
    IF \E b \in DOMAIN blocks : IsReceiving(b) /\ blocks[b].link = s
    THEN CHOOSE b \in DOMAIN blocks : IsReceiving(b) /\ blocks[b].link = s
    ELSE NoBlock

(* Position of a block in its chain, the Open block being 1.               *)
RECURSIVE Height(_)
Height(b) == IF blocks[b].previous = NoBlock THEN 1 ELSE 1 + Height(blocks[b].previous)

(* The blocks met walking from cur back along previous to stop, inclusive. *)
RECURSIVE WalkBack(_, _)
WalkBack(cur, stop) ==
    IF cur = stop \/ blocks[cur].previous = NoBlock
    THEN <<cur>>
    ELSE <<cur>> \o WalkBack(blocks[cur].previous, stop)

Header(a) == tokenMeta[a].header

-----------------------------------------------------------------------------
(* Block processing: the commit of a Progress block (spec section 4.1,    *)
(* step 5): write the block, move the token meta, frontier, pending and   *)
(* representation in one batch.                                           *)

Commit(id, blk, tm, pend) ==
    /\ blocks' = (id :> blk) @@ blocks
    /\ tokenMeta' = (blk.address :> tm) @@ tokenMeta
    /\ frontiers' =
         IF blk.previous = NoBlock
         THEN (id :> id) @@ frontiers
         ELSE (id :> frontiers[blk.previous])
                @@ Restrict(frontiers, DOMAIN frontiers \ {blk.previous})
    /\ pending' = pend
    /\ nextId' = nextId + 1

ProcessOpen(a, s, r) ==
    /\ nextId <= MaxBlocks
    /\ a \notin DOMAIN tokenMeta
    /\ <<a, s>> \in DOMAIN pending
    /\ LET amt == pending[<<a, s>>]
       IN /\ Commit(nextId, Block("Open", a, NoBlock, s, amt, r),
                    [header |-> nextId, balance |-> amt, rep |-> r, blockCount |-> 1],
                    Restrict(pending, DOMAIN pending \ {<<a, s>>}))
          /\ representation' = [representation EXCEPT ![r] = @ + amt]

ProcessSend(a, d, amt) ==
    /\ nextId <= MaxBlocks
    /\ a \in DOMAIN tokenMeta
    /\ amt \in 1..tokenMeta[a].balance
    /\ LET tm == tokenMeta[a]
       IN /\ Commit(nextId, Block("Send", a, tm.header, d, tm.balance - amt, tm.rep),
                    [tm EXCEPT !.header = nextId, !.balance = @ - amt, !.blockCount = @ + 1],
                    (<<d, nextId>> :> amt) @@ pending)
          /\ representation' = [representation EXCEPT ![tm.rep] = @ - amt]

ProcessReceive(a, s) ==
    /\ nextId <= MaxBlocks
    /\ a \in DOMAIN tokenMeta
    /\ <<a, s>> \in DOMAIN pending
    /\ LET tm == tokenMeta[a]
           amt == pending[<<a, s>>]
       IN /\ Commit(nextId, Block("Receive", a, tm.header, s, tm.balance + amt, tm.rep),
                    [tm EXCEPT !.header = nextId, !.balance = @ + amt, !.blockCount = @ + 1],
                    Restrict(pending, DOMAIN pending \ {<<a, s>>}))
          /\ representation' = [representation EXCEPT ![tm.rep] = @ + amt]

ProcessChange(a, r) ==
    /\ nextId <= MaxBlocks
    /\ a \in DOMAIN tokenMeta
    /\ r # tokenMeta[a].rep
    /\ LET tm == tokenMeta[a]
       IN /\ Commit(nextId, Block("Change", a, tm.header, NoBlock, tm.balance, r),
                    [tm EXCEPT !.header = nextId, !.rep = r, !.blockCount = @ + 1],
                    pending)
          /\ representation' = [representation EXCEPT ![tm.rep] = @ - tm.balance,
                                                       ![r] = @ + tm.balance]

-----------------------------------------------------------------------------
(* Rollback (rollback.go).                                                 *)

(* blockOrderCompare: TRUE iff a was created earlier than b in their       *)
(* common chain, found by walking back from the header.                    *)
BlockOrderCompare(a, b) == Height(a) < Height(b)

(* relatedBlocks.Put: the go-queue ring buffer refuses an element when it  *)
(* is full, and the result of Put is ignored at lines 102 and 108.         *)
QueuePut(q, h) == IF Len(q) < QueueCap THEN Append(q, h) ELSE q

(* One iteration of the queue loop (lines 38-122) with oldest = h: keep    *)
(* the earlier of h and rollbackMap[chain], then walk the chain from its   *)
(* header down to h and enqueue the receiver of every received send,       *)
(* unless rollbackMap already holds an earlier block of that chain.        *)
(* Mutant: the comparison reversed, keeping the later block.              *)
UpdateRollbackMapKeepLater(rmap, h) ==
    LET k == blocks[h].address
    IN IF k \in DOMAIN rmap /\ BlockOrderCompare(h, rmap[k])
       THEN rmap
       ELSE (k :> h) @@ rmap

UpdateRollbackMap(rmap, h) ==
    LET k == blocks[h].address
    IN IF k \in DOMAIN rmap /\ ~BlockOrderCompare(h, rmap[k])
       THEN rmap
       ELSE (k :> h) @@ rmap

(* Mutant: a receiver is enqueued only when its chain is not yet in      *)
(* rollbackMap, dropping the blockOrderCompare branch (lines 98-105).      *)
EnqueueLinksNoCompare(q, rmap, h) ==
    LET PutLink(queue, cur) ==
          LET lb == GetBlockLink(cur)
              ka == IF lb = NoBlock THEN NoBlock ELSE blocks[lb].address
          IN IF IsSendBlock(cur) /\ lb # NoBlock /\ ka \notin DOMAIN rmap
             THEN QueuePut(queue, lb)
             ELSE queue
    IN FoldLeft(PutLink, q, WalkBack(Header(blocks[h].address), h))

EnqueueLinks(q, rmap, h) ==
    LET PutLink(queue, cur) ==
          LET lb == GetBlockLink(cur)
              ka == IF lb = NoBlock THEN NoBlock ELSE blocks[lb].address
          IN IF IsSendBlock(cur) /\ lb # NoBlock
                /\ (ka \in DOMAIN rmap => BlockOrderCompare(lb, rmap[ka]))
             THEN QueuePut(queue, lb)
             ELSE queue
    IN FoldLeft(PutLink, q, WalkBack(Header(blocks[h].address), h))

RECURSIVE RollbackMapLoop(_, _)
RollbackMapLoop(q, rmap) ==
    IF q = <<>>
    THEN rmap
    ELSE LET h == Head(q)
             rmap2 == UpdateRollbackMap(rmap, h)
         IN RollbackMapLoop(EnqueueLinks(Tail(q), rmap2, h), rmap2)

(* The blocks of chain k that rollbackBlocks revokes, header first.        *)
Revoked(rmap, k) == WalkBack(Header(k), rmap[k])

RevokedSet(rmap) == UNION {Range(Revoked(rmap, k)) : k \in DOMAIN rmap}

(* sendBlocksInRollback: every send block among the revoked blocks.        *)
SendBlocksInRollback(rmap) == {b \in RevokedSet(rmap) : IsSendBlock(b)}

(* rollBackToken / rollBackTokenDel for block b: the token meta goes back  *)
(* to the previous block, or is deleted when b opened the chain.           *)
(* Mutant: BlockCount is not decremented.                                 *)
RollBackTokenKeepCount(tm, b) ==
    IF blocks[b].previous = NoBlock
    THEN NoBlock
    ELSE LET pre == blocks[blocks[b].previous]
         IN [header |-> blocks[b].previous, balance |-> pre.balance,
             rep |-> pre.rep, blockCount |-> tm.blockCount]

(* Mutant: the Open case calls rollBackToken like the other cases instead *)
(* of rollBackTokenDel, leaving a token meta whose header is zero.         *)
RollBackTokenNoDel(tm, b) ==
    LET pre == IF blocks[b].previous = NoBlock THEN blocks[b] ELSE blocks[blocks[b].previous]
    IN [header |-> blocks[b].previous, balance |-> pre.balance,
        rep |-> pre.rep, blockCount |-> tm.blockCount - 1]

RollBackToken(tm, b) ==
    IF blocks[b].previous = NoBlock
    THEN NoBlock
    ELSE LET pre == blocks[blocks[b].previous]
         IN [header |-> blocks[b].previous, balance |-> pre.balance,
             rep |-> pre.rep, blockCount |-> tm.blockCount - 1]

(* rollBackFrontier(pre, cur): delete the frontier keyed by cur and, when  *)
(* pre is not zero, add it back keyed by pre.                              *)
RollBackFrontier(f, b) ==
    LET rest == Restrict(f, DOMAIN f \ {b})
    IN IF blocks[b].previous = NoBlock THEN rest
       ELSE (blocks[b].previous :> f[b]) @@ rest

(* Mutant: the weight is moved the wrong way, from pre to cur.             *)
RollBackRepChangeSwapped(b, r) ==
    LET cur == blocks[b]
        preRep == blocks[cur.previous].rep
    IN (IF r = cur.rep THEN cur.balance ELSE 0) - (IF r = preRep THEN cur.balance ELSE 0)

RollBackRepChange(b, r) ==
    LET cur == blocks[b]
        preRep == blocks[cur.previous].rep
    IN (IF r = preRep THEN cur.balance ELSE 0) - (IF r = cur.rep THEN cur.balance ELSE 0)

(* rollBackRep (Open, Send, Receive) and rollBackRepChange (Change): the   *)
(* weight change applied to representative r when b is revoked.           *)
RollBackRep(b, r) ==
    LET cur == blocks[b]
        preBal == IF cur.previous = NoBlock THEN 0 ELSE blocks[cur.previous].balance
    IN CASE cur.type = "Open"    -> IF r = cur.rep THEN -cur.balance ELSE 0
         [] cur.type = "Send"    -> IF r = cur.rep THEN preBal - cur.balance ELSE 0
         [] cur.type = "Receive" -> IF r = cur.rep THEN -(cur.balance - preBal) ELSE 0
         [] cur.type = "Change"  -> RollBackRepChange(b, r)

(* rollBackPendingAdd for a revoked Open or Receive block b whose source   *)
(* send is not itself revoked: the pending entry comes back.  For an Open  *)
(* the amount passed at line 379 is tm.Balance, the token meta read at     *)
(* line 344 before the chain's walk, i.e. the header's balance.            *)
PendingKeyOf(b) == <<blocks[b].address, blocks[b].link>>

RollBackPendingAdd(b, tm) ==
    IF blocks[b].type = "Open"
    THEN tm.balance
    ELSE blocks[b].balance - blocks[blocks[b].previous].balance

(* rollBackPendingDel for a revoked send block s.                          *)
(* Mutant: the pending key is built with the sender's address.            *)
RollBackPendingDelSender(s) == <<blocks[s].address, s>>

RollBackPendingDel(s) == <<blocks[s].link, s>>

(* rollbackBlocks (lines 337-485), applied in one batch.  The chains are   *)
(* visited in map order, which is irrelevant: the chains' token metas and  *)
(* frontiers are disjoint, pending keys added and deleted are distinct,    *)
(* and representation changes add up.                                      *)
RollbackBlocks(rmap) ==
    LET rolled == RevokedSet(rmap)
        sends == SendBlocksInRollback(rmap)
        readds == {b \in rolled : IsReceiving(b) /\ blocks[b].link \notin sends}
        NewTm(k) == FoldLeft(RollBackToken, tokenMeta[k], Revoked(rmap, k))
        keptTm == (DOMAIN tokenMeta \ DOMAIN rmap) \cup
                  {k \in DOMAIN rmap : NewTm(k) # NoBlock}
        added == [key \in {PendingKeyOf(b) : b \in readds} |->
                    LET b == CHOOSE x \in readds : PendingKeyOf(x) = key
                    IN RollBackPendingAdd(b, tokenMeta[blocks[b].address])]
    IN /\ blocks' = Restrict(blocks, DOMAIN blocks \ rolled)
       /\ tokenMeta' = [k \in keptTm |-> IF k \in DOMAIN rmap THEN NewTm(k) ELSE tokenMeta[k]]
       /\ frontiers' = FoldSet(LAMBDA k, f : FoldLeft(RollBackFrontier, f, Revoked(rmap, k)),
                               frontiers, DOMAIN rmap)
       /\ pending' = added @@ Restrict(pending, DOMAIN pending \ {RollBackPendingDel(x) : x \in sends})
       /\ representation' = [r \in Reps |->
                               representation[r] + MapThenSumSet(LAMBDA b : RollBackRep(b, r), rolled)]

(* LedgerVerifier.Rollback for a confirmed block h (the cache tier is not  *)
(* part of this module).  Rolling back the genesis block fails in          *)
(* rollBackPendingAdd (its link is not a block) and aborts the batch, so   *)
(* it is not an enabled step.                                              *)
Rollback(h) ==
    /\ h \in DOMAIN blocks
    /\ h # GenesisId
    /\ RollbackBlocks(RollbackMapLoop(<<h>>, <<>>))
    /\ UNCHANGED nextId

-----------------------------------------------------------------------------
Init ==
    /\ blocks = (GenesisId :> Block("Open", GenesisAcct, NoBlock, NoBlock, Supply, GenesisRep))
    /\ tokenMeta = (GenesisAcct :> [header |-> GenesisId, balance |-> Supply,
                                     rep |-> GenesisRep, blockCount |-> 1])
    /\ frontiers = (GenesisId :> GenesisId)
    /\ pending = <<>>
    /\ representation = [r \in Reps |-> IF r = GenesisRep THEN Supply ELSE 0]
    /\ nextId = GenesisId + 1

Next ==
    \/ \E a \in Accounts, s \in Ids, r \in Reps : ProcessOpen(a, s, r)
    \/ \E a, d \in Accounts, amt \in 1..Supply : ProcessSend(a, d, amt)
    \/ \E a \in Accounts, s \in Ids : ProcessReceive(a, s)
    \/ \E a \in Accounts, r \in Reps : ProcessChange(a, r)
    \/ \E h \in Ids : Rollback(h)

Spec == Init /\ [][Next]_vars

-----------------------------------------------------------------------------
(* Properties.                                                             *)

TokenMetas == [header : Ids, balance : Nat, rep : Reps, blockCount : Ids]

TypeOK ==
    /\ DOMAIN blocks \subseteq Ids
    /\ \A b \in DOMAIN blocks :
         /\ blocks[b].type \in BlockTypes
         /\ blocks[b].address \in Accounts
         /\ blocks[b].balance \in Nat
         /\ blocks[b].rep \in Reps
    /\ DOMAIN tokenMeta \subseteq Accounts /\ \A a \in DOMAIN tokenMeta : tokenMeta[a] \in TokenMetas
    /\ DOMAIN frontiers \subseteq Ids /\ Range(frontiers) \subseteq Ids
    /\ DOMAIN pending \subseteq Accounts \X Ids /\ Range(pending) \subseteq Nat
    /\ representation \in [Reps -> Int]
    /\ nextId \in 1..(MaxBlocks + 1)

(* The blocks that depend on h: h, every later block of its chain, and,    *)
(* transitively, every block that received a send among them.  This is     *)
(* the reference definition of what a rollback of h must revoke.           *)
DependsOn(b, D) ==
    \/ blocks[b].previous \in D
    \/ IsReceiving(b) /\ blocks[b].link \in D

RECURSIVE Closure(_)
Closure(D) ==
    LET D2 == D \cup {b \in DOMAIN blocks : DependsOn(b, D)}
    IN IF D2 = D THEN D ELSE Closure(D2)

Dependents(h) == Closure({h})

(* Cascade completeness: every committed Open or Receive block (other than *)
(* genesis) still has its source send committed, addressed to its account. *)
(* Violated if Rollback's queue loop misses the receiver of a revoked send.*)
NoDanglingReceive ==
    \A b \in DOMAIN blocks \ {GenesisId} :
        IsReceiving(b) =>
            /\ blocks[b].link \in DOMAIN blocks
            /\ IsSendBlock(blocks[b].link)
            /\ blocks[blocks[b].link].link = blocks[b].address

(* Pending entries are exactly the committed sends nobody has received:    *)
(* rollback must delete the pending of a revoked send and re-create the    *)
(* pending of a send whose receiver it revokes, and only then.             *)
PendingMatchesUnreceivedSends ==
    DOMAIN pending =
        {<<blocks[s].link, s>> : s \in {x \in DOMAIN blocks : IsSendBlock(x) /\ GetBlockLink(x) = NoBlock}}

(* The amount of every pending entry is what its send block sent, so a     *)
(* re-received send credits the same amount it debited.                    *)
SentAmount(s) == blocks[blocks[s].previous].balance - blocks[s].balance

PendingAmountCorrect ==
    \A key \in DOMAIN pending : key[2] \in DOMAIN blocks => pending[key] = SentAmount(key[2])

(* Every representative's weight equals the sum of the balances of the     *)
(* accounts delegating to it, after any sequence of commits and cascaded   *)
(* rollbacks (rollBackRep / rollBackRepChange invert the commit deltas).   *)
RepresentationMatchesAccounts ==
    \A r \in Reps :
        representation[r] = MapThenSumSet(LAMBDA a : tokenMeta[a].balance,
                                          {a \in DOMAIN tokenMeta : tokenMeta[a].rep = r})

(* Chain integrity: an account has a token meta iff it owns blocks; its    *)
(* header is the one block of the account nobody follows, the meta copies  *)
(* the header's balance and representative, blockCount is the chain's     *)
(* length, all the account's blocks lie on that chain, and the frontier    *)
(* table maps exactly the headers to their Open blocks.                    *)
ChainIntegrity ==
    /\ DOMAIN tokenMeta = {blocks[b].address : b \in DOMAIN blocks}
    /\ \A a \in DOMAIN tokenMeta :
         LET tm == tokenMeta[a]
             chain == WalkBack(tm.header, NoBlock)
         IN /\ tm.header \in DOMAIN blocks
            /\ blocks[tm.header].address = a
            /\ tm.balance = blocks[tm.header].balance
            /\ tm.rep = blocks[tm.header].rep
            /\ tm.blockCount = Len(chain)
            /\ Range(chain) = {b \in DOMAIN blocks : blocks[b].address = a}
            /\ frontiers[tm.header] = chain[Len(chain)]
    /\ DOMAIN frontiers = {tokenMeta[a].header : a \in DOMAIN tokenMeta}

(* A rollback step revokes exactly the dependents of some block: not a     *)
(* block that does not depend on it, and none that does is left behind.    *)
RollbackRevokesExactlyDependents ==
    [][DOMAIN blocks' \subseteq DOMAIN blocks /\ DOMAIN blocks' # DOMAIN blocks =>
         \E h \in DOMAIN blocks : DOMAIN blocks \ DOMAIN blocks' = Dependents(h)]_vars

=============================================================================
