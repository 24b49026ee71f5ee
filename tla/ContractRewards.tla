--------------------------- MODULE ContractRewards ---------------------------
(***************************************************************************)
(* The airdrop and confidant reward contracts (vm/contract/rewards.go)    *)
(* between one sender chain (tx) and one beneficiary chain (rx) of the    *)
(* gas token, with the rollback of the reward blocks                       *)
(* (ledger/process/rollback.go).                                           *)
(*                                                                         *)
(* A reward send carries a signed parameter; doPending files a pending    *)
(* entry for the beneficiary with the parameter's amount, and generate     *)
(* (DoReceive) builds the ContractReward block on rx and records a         *)
(* RewardsInfo under a key derived from the parameter.  The key is an      *)
(* abstract value chosen by the signer (ParamKeys): GetRewardsKey and      *)
(* GetConfidantKey hash the parameter's id and headers, and are not in     *)
(* these sources.  The signature check (Verify) is taken to pass: the      *)
(* model explores every parameter a signer may hand out.                   *)
(*                                                                         *)
(* generate sets the block's Extra to the zero hash.  The settlement RPC  *)
(* sets the Extra of the send blocks it builds to its VMContext's trie     *)
(* root but returns DoReceive's blocks as they are; the caller that        *)
(* commits a reward receive is not in these sources and may do either.    *)
(* ExtraRoot says which: only with a root does rollBackContractData        *)
(* remove the stored info again.                                           *)
(*                                                                         *)
(* Block hashes are 1..MaxBlocks, 0 the zero hash.  From and To of every  *)
(* RewardsInfo are tx and rx, so the model leaves them out of the info.    *)
(***************************************************************************)
EXTENDS Integers, Sequences, FiniteSets, Functions, TLC

CONSTANTS
    Methods,      \* {"airdrop", "confidant"}: the two contracts
    ParamKeys,    \* reward keys a signed parameter can map to
    Amounts,      \* amounts a send moves and a parameter names
    Tokens,       \* tokens a reward send can move
    GasToken,     \* common.GasToken()
    ExtraRoot,    \* TRUE: the committed block's Extra is its storage root
    MaxBlocks     \* bound on the blocks of both chains together

ASSUME GasToken \in Tokens /\ 0 \in Amounts /\ ExtraRoot \in BOOLEAN

VARIABLES
    txHead,       \* header of tx's gas token chain
    rxChain,      \* rx's gas token chain, oldest first
    pending,      \* pending reward sends for rx (doPending)
    sends,        \* every reward send tx made
    storage,      \* the rewards contract's storage: key -> RewardsInfo
    nextHash      \* hash of the next block

vars == <<txHead, rxChain, pending, sends, storage, nextHash>>

Hashes == 1..MaxBlocks
Keys == Methods \X ParamKeys

(* A reward send: its hash, contract, reward key, the amount it moves     *)
(* (CalculateAmount), the parameter's amount (doPending) and its token.    *)
Send == [hash: Hashes, method: Methods, key: Keys, amount: Amounts,
         paramAmount: Amounts, token: Tokens]

(* RewardsInfo without From and To; type is the contract.                  *)
Info == [type: Methods, txHeader: 0..MaxBlocks, rxHeader: 0..MaxBlocks, amount: Amounts]

(* A block of rx is a ContractReward, with its send and the storage its   *)
(* receive wrote (its Extra trie), or any other gas block of rx:           *)
(* [hash, type |-> "reward", link, trie] or [hash, type |-> "other"].      *)
BlockOK(b) ==
    /\ b.hash \in Hashes
    /\ b.type = "reward" => b.link \in sends /\ DOMAIN b.trie \subseteq Keys

(* The sends whose ContractReward is on rx's chain.                        *)
Received == {rxChain[i].link : i \in {j \in DOMAIN rxChain : rxChain[j].type = "reward"}}

RxHeader == IF rxChain = <<>> THEN 0 ELSE rxChain[Len(rxChain)].hash

-----------------------------------------------------------------------------
(* doPending: the pending entry is keyed by the beneficiary and the send's *)
(* hash and holds the parameter's amount, not the amount sent.             *)
PendingAmount(p) == p.paramAmount

(* The comparison with the commented-out header clause restored.          *)
SameRewardWithHeaders(stored, info) ==
    /\ stored.amount = info.amount
    /\ stored.type = info.type
    /\ stored.txHeader = info.txHeader
    /\ stored.rxHeader = info.rxHeader

(* generate: the stored info for the key agrees with the new one on       *)
(* amount, type, from and to; the header comparison is commented out.      *)
SameReward(stored, info) ==
    /\ stored.amount = info.amount
    /\ stored.type = info.type

(* generate's RewardsInfo: tx's current header, rx's header as previous.  *)
RewardInfo(p) ==
    [type |-> p.method, txHeader |-> txHead, rxHeader |-> RxHeader, amount |-> p.amount]

(* generate accepts the send: a positive amount of the gas token, and any *)
(* info already stored under the key is the same reward.                   *)
GenerateOK(p) ==
    /\ p.amount > 0
    /\ p.token = GasToken
    /\ p.key \in DOMAIN storage => SameReward(storage[p.key], RewardInfo(p))

(* The storage generate writes: the info, unless the key is stored.      *)
GenerateWrites(p) ==
    IF p.key \in DOMAIN storage THEN <<>> ELSE p.key :> RewardInfo(p)

(* rollBackContractData: with a storage root in Extra, every key of the   *)
(* trie must still hold the trie's value and is removed; a zero Extra      *)
(* leaves the storage alone.  FALSE when the values differ (the error).    *)
ContractDataMatches(b) ==
    \A k \in DOMAIN b.trie : k \in DOMAIN storage /\ storage[k] = b.trie[k]

(* Contract data left in place, as with a zero Extra.                     *)
KeepContractData(b) == storage

RollBackContractData(b) ==
    Restrict(storage, DOMAIN storage \ DOMAIN b.trie)

-----------------------------------------------------------------------------
Init ==
    /\ txHead = 1
    /\ rxChain = <<>>
    /\ pending = {}
    /\ sends = {}
    /\ storage = <<>>
    /\ nextHash = 2

(* tx sends to the reward contract (DoSend, then DoPending files the      *)
(* pending entry for the beneficiary).                                     *)
RewardSend(m, k, amt, pamt, tok) ==
    LET s == [hash |-> nextHash, method |-> m, key |-> <<m, k>>, amount |-> amt,
              paramAmount |-> pamt, token |-> tok]
    IN /\ nextHash <= MaxBlocks
       /\ pending' = pending \cup {s}
       /\ sends' = sends \cup {s}
       /\ txHead' = nextHash
       /\ nextHash' = nextHash + 1
       /\ UNCHANGED <<rxChain, storage>>

(* rx receives a pending reward: DoReceive (generate) builds the          *)
(* ContractReward block on rx's header, records the info if the key is    *)
(* new, and the commit consumes the pending entry.                         *)
RewardReceive(p) ==
    /\ p \in pending
    /\ nextHash <= MaxBlocks
    /\ GenerateOK(p)
    /\ storage' = GenerateWrites(p) @@ storage
    /\ rxChain' = Append(rxChain, [hash |-> nextHash, type |-> "reward", link |-> p,
                                   trie |-> IF ExtraRoot THEN GenerateWrites(p) ELSE <<>>])
    /\ pending' = pending \ {p}
    /\ nextHash' = nextHash + 1
    /\ UNCHANGED <<txHead, sends>>

(* Any other gas block of tx or of rx moves that chain's header.           *)
TxOther ==
    /\ nextHash <= MaxBlocks
    /\ txHead' = nextHash
    /\ nextHash' = nextHash + 1
    /\ UNCHANGED <<rxChain, pending, sends, storage>>

RxOther ==
    /\ rxChain # <<>>
    /\ nextHash <= MaxBlocks
    /\ rxChain' = Append(rxChain, [hash |-> nextHash, type |-> "other"])
    /\ nextHash' = nextHash + 1
    /\ UNCHANGED <<txHead, pending, sends, storage>>

(* Rollback of rx's header block.  A ContractReward gets its pending      *)
(* entry back from DoPending of its send (rollBackPendingAdd) and its      *)
(* contract data rolled back; the rollback fails, changing nothing, when   *)
(* the stored data differ from the trie.                                   *)
RollbackRx ==
    /\ rxChain # <<>>
    /\ LET b == rxChain[Len(rxChain)] IN
       IF b.type = "reward"
       THEN /\ ContractDataMatches(b)
            /\ pending' = pending \cup {b.link}
            /\ storage' = RollBackContractData(b)
       ELSE UNCHANGED <<pending, storage>>
    /\ rxChain' = SubSeq(rxChain, 1, Len(rxChain) - 1)
    /\ UNCHANGED <<txHead, sends, nextHash>>

Next ==
    \/ \E m \in Methods, k \in ParamKeys, amt, pamt \in Amounts, tok \in Tokens :
          RewardSend(m, k, amt, pamt, tok)
    \/ \E p \in pending : RewardReceive(p)
    \/ TxOther
    \/ RxOther
    \/ RollbackRx

Spec == Init /\ [][Next]_vars

-----------------------------------------------------------------------------
TypeOK ==
    /\ txHead \in Hashes
    /\ \A i \in DOMAIN rxChain : BlockOK(rxChain[i])
    /\ pending \subseteq sends /\ sends \subseteq Send
    /\ DOMAIN storage \subseteq Keys /\ \A k \in DOMAIN storage : storage[k] \in Info
    /\ nextHash \in 2..MaxBlocks + 1

(* A send made as the contract intends: gas token, a positive amount equal *)
(* to the parameter's, and a reward key no other send of tx used.          *)
WellFormed(p) ==
    /\ p.token = GasToken
    /\ p.amount > 0
    /\ p.amount = p.paramAmount
    /\ \A q \in sends : q.key = p.key => q = p

(* Every well-formed pending reward can be received: generate accepts it, *)
(* also after its reward block was rolled back while tx's or rx's header   *)
(* moved on, and whether or not the rollback removed the stored info.      *)
PendingRewardsReceivable ==
    \A p \in pending : WellFormed(p) => GenerateOK(p)

Rewards == {rxChain[i] : i \in {j \in DOMAIN rxChain : rxChain[j].type = "reward"}}

(* The reward storage records every reward block on rx's chain, with its  *)
(* amount and contract; and when the committed Extra is the storage root,  *)
(* rollback leaves no info behind for a reward that is no longer there.    *)
RewardStorageMatchesChain ==
    /\ \A b \in Rewards :
          /\ b.link.key \in DOMAIN storage
          /\ storage[b.link.key].amount = b.link.amount
          /\ storage[b.link.key].type = b.link.method
    /\ ExtraRoot => DOMAIN storage \subseteq {b.link.key : b \in Rewards}

====
