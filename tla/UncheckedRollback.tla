-------------------------- MODULE UncheckedRollback --------------------------
(***************************************************************************)
(* LedgerVerifier.RollbackUnchecked (src/ledger/process/rollback.go): when *)
(* a block is rolled back, the unchecked blocks parked on it (by the      *)
(* GapSource/link and GapPrevious kinds, and, for a ContractReward of the *)
(* mintage contract, by the GapTokenInfo kind under the minted token id)  *)
(* are deleted, and with them, recursively, the blocks parked on those.   *)
(*                                                                         *)
(* The unchecked table holds one block per <<dependency, kind>> key, as   *)
(* GetUncheckedBlock reads it.  A block is a model value; which blocks     *)
(* are confirmed ContractRewards of a mintage send, and the token id the   *)
(* send mints, are constants.  A confirmed reward always has its send      *)
(* confirmed (LedgerRollback rolls the reward back first), so the early   *)
(* return on a missing send (lines 898-901) is not taken.                 *)
(***************************************************************************)
EXTENDS Integers, FiniteSets, TLC

CONSTANTS
    Blocks,       \* block hashes
    Tokens,       \* token ids a GapTokenInfo block may wait for
    MintRewards,  \* ContractReward blocks whose send calls the mintage contract
    TokenOf,      \* MintRewards -> the token id of the mintage parameter
    Zero,         \* the zero hash
    MaxParked,    \* bound on the unchecked table
    None

Kinds == {"link", "previous", "token"}
Keys == ((Blocks \cup {Zero}) \X {"link", "previous"}) \cup ((Tokens \cup {Zero}) \X {"token"})

VARIABLES
    unchecked,    \* <<dependency, kind>> -> the parked block
    ledger,       \* the blocks GetStateBlock finds
    lastCall      \* the last operation: <<"park">> or <<"rollback", hash>>

vars == <<unchecked, ledger, lastCall>>

(* GetUncheckedBlock(dep, kind): the parked block, None if there is none.  *)
Parked(U, dep, kind) == IF <<dep, kind>> \in DOMAIN U THEN U[<<dep, kind>>] ELSE None

(* DeleteUncheckedBlock(dep, kind).                                        *)
Delete(U, dep, kind) == [k \in DOMAIN U \ {<<dep, kind>>} |-> U[k]]

(* The token id the code looks the GapTokenInfo block up under: tokenId   *)
(* is read from param before UnpackMethod fills param (lines 902-903), so *)
(* it is always the zero hash.                                             *)
TokenKey(h) == Zero

(* Mutant: the GapPrevious block is deleted, its own dependents are not.   *)
RECURSIVE RollbackUncheckedShallow(_, _)
RollbackUncheckedShallow(U, h) ==
    LET blkLink == Parked(U, h, "link")
        blkPrevious == Parked(U, h, "previous")
        blkToken == IF h \in ledger /\ h \in MintRewards
                    THEN Parked(U, TokenKey(h), "token") ELSE None
        U1 == IF blkLink # None THEN RollbackUncheckedShallow(Delete(U, h, "link"), blkLink) ELSE U
        U2 == IF blkPrevious # None THEN Delete(U1, h, "previous") ELSE U1
    IN IF blkToken # None THEN RollbackUncheckedShallow(Delete(U2, TokenKey(h), "token"), blkToken)
                          ELSE U2

(* RollbackUnchecked(hash): the three parked blocks are read first; each  *)
(* one found is deleted and rolled back in turn, link, previous, token.    *)
RECURSIVE RollbackUnchecked(_, _)
RollbackUnchecked(U, h) ==
    LET blkLink == Parked(U, h, "link")
        blkPrevious == Parked(U, h, "previous")
        blkToken == IF h \in ledger /\ h \in MintRewards
                    THEN Parked(U, TokenKey(h), "token") ELSE None
        U1 == IF blkLink # None THEN RollbackUnchecked(Delete(U, h, "link"), blkLink) ELSE U
        U2 == IF blkPrevious # None THEN RollbackUnchecked(Delete(U1, h, "previous"), blkPrevious) ELSE U1
    IN IF blkToken # None THEN RollbackUnchecked(Delete(U2, TokenKey(h), "token"), blkToken)
                          ELSE U2

(* The hashes a block waits on through the table, directly or not.         *)
RECURSIVE WaitsOn(_, _, _)
WaitsOn(U, b, seen) ==
    LET direct == {k[1] : k \in {k \in DOMAIN U : U[k] = b}} \cap Blocks
    IN direct \cup UNION {WaitsOn(U, d, seen \cup direct) : d \in direct \ seen}

(* The block processor parks a gap block under the dependency it misses   *)
(* (AddUncheckedBlock); a block waits on one dependency at a time, and    *)
(* never, through the table, on itself.                                    *)
Park(b, dep, kind) ==
    /\ Cardinality(DOMAIN unchecked) < MaxParked
    /\ <<dep, kind>> \in Keys \ DOMAIN unchecked
    /\ dep # Zero
    /\ \A k \in DOMAIN unchecked : unchecked[k] # b
    /\ dep # b /\ b \notin WaitsOn(unchecked, dep, {})
    /\ unchecked' = (<<dep, kind>> :> b) @@ unchecked
    /\ lastCall' = <<"park">>
    /\ UNCHANGED ledger

Rollback(h) ==
    /\ unchecked' = RollbackUnchecked(unchecked, h)
    /\ lastCall' = <<"rollback", h>>
    /\ UNCHANGED ledger

Init ==
    /\ unchecked = <<>>
    /\ ledger \in SUBSET Blocks
    /\ lastCall = <<"park">>

Next ==
    \/ \E b \in Blocks, k \in Keys : Park(b, k[1], k[2])
    \/ \E h \in Blocks : Rollback(h)

Spec == Init /\ [][Next]_vars

-----------------------------------------------------------------------------
(* Properties.                                                             *)

TypeOK ==
    /\ DOMAIN unchecked \subseteq Keys
    /\ \A k \in DOMAIN unchecked : unchecked[k] \in Blocks
    /\ ledger \subseteq Blocks

(* The blocks that depend on h through the table: parked on h by link or  *)
(* previous, or, when with token edges, parked under the token a confirmed *)
(* mintage reward mints; and so on from each of those.                     *)
RECURSIVE Dependents(_, _, _, _)
Dependents(U, h, withToken, seen) ==
    LET keys == {<<h, "link">>, <<h, "previous">>}
                \cup (IF withToken /\ h \in ledger /\ h \in MintRewards
                      THEN {<<TokenOf[h], "token">>} ELSE {})
        direct == {U[k] : k \in keys \cap DOMAIN U} \ seen
    IN direct \cup UNION {Dependents(U, d, withToken, seen \cup direct) : d \in direct}

(* The entries of U holding h's dependents.                                *)
EntriesOf(U, h, withToken) ==
    {k \in DOMAIN U : U[k] \in Dependents(U, h, withToken, {h})}

(* RollbackUnchecked(h) deletes every block parked on h through link and  *)
(* previous gaps, however deep, and deletes nothing but h's dependents.    *)
UncheckedRollbackRemovesDependents ==
    [][\A h \in Blocks :
          lastCall' = <<"rollback", h>> =>
             /\ EntriesOf(unchecked, h, FALSE) \cap DOMAIN unchecked' = {}
             /\ DOMAIN unchecked \ DOMAIN unchecked' \subseteq EntriesOf(unchecked, h, TRUE)
             /\ \A k \in DOMAIN unchecked' : unchecked'[k] = unchecked[k]]_vars

(* With the token edges too: a block waiting for the token a rolled-back   *)
(* mintage reward mints is deleted with it.                                *)
TokenDependentsRemoved ==
    [][\A h \in Blocks :
          lastCall' = <<"rollback", h>> =>
             EntriesOf(unchecked, h, TRUE) \cap DOMAIN unchecked' = {}]_vars

====
