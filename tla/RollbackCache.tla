---------------------------- MODULE RollbackCache ----------------------------
(***************************************************************************)
(* The uncommitted (cache) tier of the ledger and its rollback            *)
(* (src/ledger/process/rollback.go: RollbackCache, rollbackCache,           *)
(* rollbackCacheBlocks, rollbackCacheAccount, rollbackCacheAccountDel and   *)
(* checkBlockUnConfirmed).                                                  *)
(*                                                                         *)
(* One token per account.  A cache block is an integer id; previous 0 is   *)
(* the account's confirmed header.  The confirmed tier is abstracted to    *)
(* the confirmed sends still pending (ConfSends, to SendTo[s]) and to the  *)
(* revocation of confirmed blocks, which calls checkBlockUnConfirmed (line *)
(* 468).  Adding a block to the cache is the verifier's processing, not    *)
(* part of these sources: it follows section 4.1 of the specification      *)
(* (previous = the header, timestamps non-decreasing, a receive consumes a *)
(* pending send).  Batch reads see the batch's own writes.                 *)
(***************************************************************************)
EXTENDS Integers, Sequences, FiniteSets, SequencesExt

CONSTANTS
    Accounts,   \* account addresses
    ConfSends,  \* confirmed send blocks not yet received
    SendTo,     \* their destination accounts
    SendFrom,   \* their senders
    Times,      \* block timestamps
    MaxBlocks,  \* bound on cache block ids (1..MaxBlocks)
    NoSend      \* a revoked confirmed block that is not a send

VARIABLES
    cache,        \* block cache: id -> [acct, prev, kind, link, ts]
    acctCache,    \* account meta cache: account -> [header, count]
    revokedSends, \* confirmed sends revoked by a confirmed rollback
    nextId        \* next unused cache block id

vars == <<cache, acctCache, revokedSends, nextId>>

Kinds == {"send", "recv", "change"}
Mine(a) == {b \in DOMAIN cache : cache[b].acct = a}

(* Sends a receive of account a may consume: live, and not yet received.  *)
LiveSends == (ConfSends \ revokedSends) \cup {b \in DOMAIN cache : cache[b].kind = "send"}
Pending(a) ==
    {s \in LiveSends : (s \in ConfSends => SendTo[s] = a)
                       /\ (s \in DOMAIN cache => cache[s].link = a)
                       /\ ~\E b \in DOMAIN cache : cache[b].kind = "recv" /\ cache[b].link = s}

(* Process into the cache (specification 4.1: linkage, timestamps,        *)
(* pending resolution; commit updates the token meta).                      *)
ProcessCache(a, kind, link, ts) ==
    LET head == IF a \in DOMAIN acctCache THEN acctCache[a].header ELSE 0
        count == IF a \in DOMAIN acctCache THEN acctCache[a].count ELSE 0
    IN /\ nextId <= MaxBlocks
       /\ head # 0 => ts >= cache[head].ts
       /\ kind = "send" => link \in Accounts \ {a}
       /\ kind = "recv" => link \in Pending(a)
       /\ kind = "change" => link = 0
       /\ cache' = (nextId :> [acct |-> a, prev |-> head, kind |-> kind, link |-> link, ts |-> ts])
                     @@ cache
       /\ acctCache' = (a :> [header |-> nextId, count |-> count + 1]) @@ acctCache
       /\ nextId' = nextId + 1
       /\ UNCHANGED revokedSends

-----------------------------------------------------------------------------
(* rollbackCache(hash).                                                     *)

(* "if receive repeated, rollback later block": the first other block of  *)
(* the chain with the same link, in the cache's iteration order.           *)
RollBlockChoices(h) ==
    LET dups == {b \in Mine(cache[h].acct) : b # h /\ cache[b].link = cache[h].link}
    IN IF cache[h].kind = "recv" /\ dups # {}
       THEN {IF cache[d].ts > cache[h].ts THEN d ELSE h : d \in dups}
       ELSE {h}

(* Blocks of the chain not older than the rolled-back one.                 *)
(* Mutant: strictly younger.                                               *)
TempBlocksYounger(rb) == {b \in Mine(cache[rb].acct) : cache[b].ts > cache[rb].ts}
TempBlocks(rb) == {b \in Mine(cache[rb].acct) : cache[b].ts >= cache[rb].ts}

(* rollBlocks: rb, then the successor of the last one among the sorted     *)
(* tempBlocks, as long as there is one.                                     *)
RECURSIVE RollChain(_, _)
RollChain(cur, temp) ==
    LET succ == {b \in temp : cache[b].prev = cur}
        next == CHOOSE b \in succ : \A c \in succ : cache[b].ts <= cache[c].ts
    IN IF succ = {} THEN <<cur>> ELSE <<cur>> \o RollChain(next, temp \ {next})

(* rollbackCacheAccountDel: drop the account's token meta (the account     *)
(* meta when it is its only token).                                        *)
RollbackCacheAccountDel(ac, a) == [x \in DOMAIN ac \ {a} |-> ac[x]]

(* Mutant: the account meta read without the batch's writes, so every     *)
(* step decrements the stored count once.                                   *)
RollbackCacheAccountUnbatched(ac, blk, n) ==
    IF cache[blk].acct \in DOMAIN ac
    THEN [ac EXCEPT ![cache[blk].acct] = [header |-> cache[blk].prev, count |-> @.count - 1]]
    ELSE ac

(* rollbackCacheAccount for the n blocks of rollBlocks, the oldest (blk)   *)
(* last: the token meta takes the previous block as header, one count less *)
(* per block.                                                               *)
RollbackCacheAccount(ac, blk, n) ==
    IF cache[blk].acct \in DOMAIN ac
    THEN [ac EXCEPT ![cache[blk].acct] = [header |-> cache[blk].prev, count |-> @.count - n]]
    ELSE ac

(* Mutant: the HasBlockCache(previous) test dropped: the meta always takes *)
(* the previous block as header.                                           *)
RollbackCacheBlocksKeepMeta(c, ac, roll) ==
    <<[b \in DOMAIN c \ ToSet(roll) |-> c[b]], RollbackCacheAccount(ac, roll[1], Len(roll))>>

(* rollbackCacheBlocks(rollBlocks, cache = true): delete from the youngest;*)
(* the meta follows the last step, on the oldest block, whose previous is  *)
(* a cache block or not.                                                   *)
RollbackCacheBlocks(c, ac, roll) ==
    LET rb == roll[1]
    IN <<[b \in DOMAIN c \ ToSet(roll) |-> c[b]],
         IF cache[rb].prev \in DOMAIN cache
         THEN RollbackCacheAccount(ac, rb, Len(roll))
         ELSE RollbackCacheAccountDel(ac, cache[rb].acct)>>

(* The effect of rollbackCache(h) on the cache and the account meta.       *)
RollbackCacheEffect(c, ac, rb) ==
    RollbackCacheBlocks(c, ac, RollChain(rb, TempBlocks(rb) \ {rb}))

(* Rollback(hash) of a block in the cache: RollbackCache in one batch.      *)
RollbackCache(h) ==
    /\ h \in DOMAIN cache
    /\ \E rb \in RollBlockChoices(h) :
          LET r == RollbackCacheEffect(cache, acctCache, rb)
          IN cache' = r[1] /\ acctCache' = r[2]
    /\ UNCHANGED <<revokedSends, nextId>>

(* checkBlockUnConfirmed(block), run by rollbackBlocks for every revoked   *)
(* confirmed block of account a (s: the block, when it is a send): delete  *)
(* all of a's cache blocks and its cached meta; if a send, rollbackCache   *)
(* each cache block receiving it.                                           *)
CheckBlockUnConfirmed(a, s) ==
    LET c1 == [b \in DOMAIN cache \ Mine(a) |-> cache[b]]
        ac1 == RollbackCacheAccountDel(acctCache, a)
        rcv == {b \in DOMAIN cache : s # NoSend /\ cache[b].link = s}
    IN /\ s # NoSend => s \in ConfSends \ revokedSends /\ SendFrom[s] = a
       /\ IF rcv = {}
          THEN cache' = c1 /\ acctCache' = ac1
          ELSE \E b \in rcv : \E rb \in RollBlockChoices(b) :
                  LET r == RollbackCacheEffect(c1, ac1, rb)
                  IN cache' = r[1] /\ acctCache' = r[2]
       /\ revokedSends' = IF s = NoSend THEN revokedSends ELSE revokedSends \cup {s}
       /\ UNCHANGED nextId

Init ==
    /\ cache = <<>>
    /\ acctCache = <<>>
    /\ revokedSends = {}
    /\ nextId = 1

Next ==
    \/ \E a \in Accounts, k \in Kinds, l \in Accounts \cup LiveSends \cup {0}, ts \in Times :
          ProcessCache(a, k, l, ts)
    \/ \E h \in DOMAIN cache : RollbackCache(h)
    \/ \E a \in Accounts, s \in ConfSends \cup {NoSend} : CheckBlockUnConfirmed(a, s)

Spec == Init /\ [][Next]_vars

-----------------------------------------------------------------------------
(* Properties.                                                             *)

TypeOK ==
    /\ DOMAIN cache \subseteq 1..MaxBlocks
    /\ \A b \in DOMAIN cache :
          cache[b] \in [acct : Accounts, prev : 0..MaxBlocks, kind : Kinds,
                        link : Accounts \cup ConfSends \cup 0..MaxBlocks, ts : Times]
    /\ DOMAIN acctCache \subseteq Accounts
    /\ \A a \in DOMAIN acctCache : acctCache[a] \in [header : 1..MaxBlocks, count : Int]
    /\ revokedSends \subseteq ConfSends
    /\ nextId \in 1..MaxBlocks + 1

(* No cache block outlives its previous block: whatever mix of cache       *)
(* rollbacks (from any block of a chain) and confirmed revocations,         *)
(* rollbackCache removes every later block of the chain.                    *)
CacheChainClosed ==
    \A b \in DOMAIN cache : cache[b].prev = 0 \/ cache[b].prev \in DOMAIN cache

(* The account meta cache describes the cache chain: it exists exactly     *)
(* when the account has cache blocks, its header is the youngest of them   *)
(* and its block count their number, after rollbackCacheAccount's           *)
(* per-block updates and rollbackCacheAccountDel.                           *)
AccountCacheMatchesChain ==
    \A a \in Accounts :
        /\ (a \in DOMAIN acctCache) <=> Mine(a) # {}
        /\ a \in DOMAIN acctCache =>
              /\ acctCache[a].header \in Mine(a)
              /\ ~\E b \in Mine(a) : cache[b].prev = acctCache[a].header
              /\ acctCache[a].count = Cardinality(Mine(a))

(* Every receive in the cache receives a send that still exists: the       *)
(* specification (4.1) says rollback_cache, like rollback, revokes the      *)
(* counterparts on other chains.  rollbackCache follows the account's own  *)
(* chain only, and checkBlockUnConfirmed only the revoked confirmed send's *)
(* receivers.                                                              *)
CacheReceivesHaveSends ==
    \A b \in DOMAIN cache : cache[b].kind = "recv" => cache[b].link \in LiveSends

====
