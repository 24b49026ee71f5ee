----------------------------- MODULE MCRollback -----------------------------
(***************************************************************************)
(* One harness for ledger rollback: each behaviour runs either the        *)
(* confirmed tier (LedgerRollback: commits and cascaded Rollback), the     *)
(* cache tier (RollbackCache: cache processing, rollbackCache and          *)
(* checkBlockUnConfirmed), the unchecked table (UncheckedRollback:        *)
(* parking and RollbackUnchecked) or the reward contracts with the        *)
(* rollback of their blocks (ContractRewards, with a zero or a storage-   *)
(* root Extra), chosen by tier; the others stay in their initial state.   *)
(***************************************************************************)
EXTENDS Integers, TLC

CONSTANTS g, a1, a2, r1, r2, NoBlock, c1, c2, s1, NoSend, u1, u2, u3, t1, Zero

VARIABLES tier,
          blocks, tokenMeta, frontiers, pending, representation, nextId,
          cache, acctCache, revokedSends, cacheNextId,
          unchecked, ledger, lastCall,
          txHead, rxChain, rwPending, sends, storage, rwNextHash

lrVars == <<blocks, tokenMeta, frontiers, pending, representation, nextId>>
rcVars == <<cache, acctCache, revokedSends, cacheNextId>>
urVars == <<unchecked, ledger, lastCall>>
rwVars == <<txHead, rxChain, rwPending, sends, storage, rwNextHash>>
vars == <<tier, lrVars, rcVars, urVars, rwVars>>

(* Confirmed tier: genesis account g and two more, two representatives,   *)
(* a supply of 2, at most 7 blocks.                                        *)
LR == INSTANCE LedgerRollback WITH Accounts <- {g, a1, a2}, Reps <- {r1, r2},
        GenesisAcct <- g, GenesisRep <- r1, Supply <- 2, MaxBlocks <- 7, QueueCap <- 8

(* Cache tier: two accounts, one confirmed send s1 from c1 to c2 still    *)
(* pending, timestamps 0..1 (equal and increasing successors), 4 blocks.  *)
RC == INSTANCE RollbackCache WITH Accounts <- {c1, c2}, ConfSends <- {s1},
        SendTo <- (s1 :> c2), SendFrom <- (s1 :> c1), Times <- 0..1, MaxBlocks <- 4,
        nextId <- cacheNextId

(* Unchecked table: three blocks, u3 a mintage reward of token t1, at    *)
(* most three parked.                                                      *)
UR == INSTANCE UncheckedRollback WITH Blocks <- {u1, u2, u3}, Tokens <- {t1},
        MintRewards <- {u3}, TokenOf <- (u3 :> t1), MaxParked <- 3, None <- NoBlock

(* Reward contracts: the confidant contract (the airdrop one takes the     *)
(* same path), two reward keys (so a signer can reuse one), amounts 0..1,  *)
(* the gas and the chain token, five blocks: enough for a send, its        *)
(* receive, a further block of tx and a new receive after the rollback.    *)
RW0 == INSTANCE ContractRewards WITH Methods <- {"confidant"}, ParamKeys <- {1, 2},
        Amounts <- {0, 1}, Tokens <- {"gas", "chain"}, GasToken <- "gas",
        ExtraRoot <- FALSE, MaxBlocks <- 5, pending <- rwPending, nextHash <- rwNextHash
RW1 == INSTANCE ContractRewards WITH Methods <- {"confidant"}, ParamKeys <- {1, 2},
        Amounts <- {0, 1}, Tokens <- {"gas", "chain"}, GasToken <- "gas",
        ExtraRoot <- TRUE, MaxBlocks <- 5, pending <- rwPending, nextHash <- rwNextHash

Init ==
    /\ tier \in {"confirmed", "cache", "unchecked", "rewards", "rewardsRoot"}
    /\ LR!Init
    /\ RC!Init
    /\ UR!Init
    /\ tier # "unchecked" => ledger = {}
    /\ RW0!Init

Next ==
    \/ tier = "confirmed" /\ LR!Next /\ UNCHANGED <<tier, rcVars, urVars, rwVars>>
    \/ tier = "cache" /\ RC!Next /\ UNCHANGED <<tier, lrVars, urVars, rwVars>>
    \/ tier = "unchecked" /\ UR!Next /\ UNCHANGED <<tier, lrVars, rcVars, rwVars>>
    \/ tier = "rewards" /\ RW0!Next /\ UNCHANGED <<tier, lrVars, rcVars, urVars>>
    \/ tier = "rewardsRoot" /\ RW1!Next /\ UNCHANGED <<tier, lrVars, rcVars, urVars>>

Spec == Init /\ [][Next]_vars

(* Only the non-genesis accounts of the confirmed tier are interchangeable.*)
MCSymmetry == Permutations({a1, a2})

-----------------------------------------------------------------------------
(* Properties of the confirmed tier (see LedgerRollback).                  *)

TypeOK == LR!TypeOK /\ RC!TypeOK /\ UR!TypeOK /\ RW0!TypeOK

(* No committed receive is left whose send was rolled back.               *)
NoDanglingReceive == LR!NoDanglingReceive

(* The pending table holds exactly the unreceived sends, with their       *)
(* amounts, after any mix of commits and rollbacks.                        *)
PendingMatchesUnreceivedSends == LR!PendingMatchesUnreceivedSends

(* Each representative's weight is the balance of the accounts delegating *)
(* to it, after rollBackRep and rollBackRepChange.                         *)
RepresentationMatchesAccounts == LR!RepresentationMatchesAccounts

(* Every account chain stays linked from its header back to its open      *)
(* block, with matching token meta and frontier.                           *)
ChainIntegrity == LR!ChainIntegrity

(* A rollback step revokes exactly the dependents of some block.           *)
RollbackRevokesExactlyDependents == LR!RollbackRevokesExactlyDependents

(* Properties of the cache tier (see RollbackCache).                       *)

(* No cache block outlives its previous block.                             *)
CacheChainClosed == RC!CacheChainClosed

(* The account meta cache always describes the remaining cache chain.      *)
AccountCacheMatchesChain == RC!AccountCacheMatchesChain

(* Property of the unchecked table (see UncheckedRollback).                *)

(* RollbackUnchecked deletes every block parked, however deeply, on the    *)
(* rolled-back block through link and previous gaps, and nothing else.    *)
UncheckedRollbackRemovesDependents == UR!UncheckedRollbackRemovesDependents

(* Properties of the reward contracts (see ContractRewards).               *)

(* Every well-formed pending reward send can be received (generate         *)
(* accepts it), also again after its reward block was rolled back.         *)
PendingRewardsReceivable ==
    /\ tier = "rewards" => RW0!PendingRewardsReceivable
    /\ tier = "rewardsRoot" => RW1!PendingRewardsReceivable

(* The reward storage records every reward block on the beneficiary's     *)
(* chain, and, with a storage-root Extra, nothing for a rolled-back one.  *)
RewardStorageMatchesChain ==
    /\ tier = "rewards" => RW0!RewardStorageMatchesChain
    /\ tier = "rewardsRoot" => RW1!RewardStorageMatchesChain

====
