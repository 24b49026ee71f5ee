----------------------------- MODULE MinerReward -----------------------------
(***************************************************************************)
(* The miner-reward height arithmetic of src/vm/contract/abi/abi_miner.go: *)
(* MinerPovHeightToCount, MinerRoundPovHeight, MinerCalcRewardEndHeight,    *)
(* and the height checks of MinerRewardParam.Verify.  The three            *)
(* parameters are constants of the common package (not in these sources). *)
(* Heights stay far below 2^64 here, as on any real chain.  The input is   *)
(* fixed in Init; the state is the call's arguments.                       *)
(***************************************************************************)
EXTENDS Integers

CONSTANTS
    RewardHeightStart,  \* common.PovMinerRewardHeightStart
    MaxRewardBlocks,    \* common.PovMinerMaxRewardBlocksPerCall
    HeightRound,        \* common.PovMinerRewardHeightRound
    Heights             \* heights an argument may take

VARIABLES startHeight, maxEndHeight

vars == <<startHeight, maxEndHeight>>

(* height begins at 0, so height + 1 is the block count.                   *)
MinerPovHeightToCount(h) == h + 1

MinerRoundPovHeight(h, round) ==
    LET roundCount == (MinerPovHeightToCount(h) \div round) * round
    IN IF roundCount = 0 THEN 0 ELSE roundCount - 1

(* Mutant: the span is one block longer than the maximum per call.        *)
MinerCalcRewardEndHeightLong(s, m) ==
    LET s2 == IF s < RewardHeightStart THEN RewardHeightStart ELSE s
        e1 == s2 + MaxRewardBlocks
        e2 == MinerRoundPovHeight(IF e1 > m THEN m ELSE e1, HeightRound)
    IN IF m < RewardHeightStart \/ e2 < RewardHeightStart THEN 0 ELSE e2

MinerCalcRewardEndHeight(s, m) ==
    LET s2 == IF s < RewardHeightStart THEN RewardHeightStart ELSE s
        e1 == s2 + MaxRewardBlocks - 1
        e2 == MinerRoundPovHeight(IF e1 > m THEN m ELSE e1, HeightRound)
    IN IF m < RewardHeightStart \/ e2 < RewardHeightStart THEN 0 ELSE e2

(* The height checks of MinerRewardParam.Verify.                           *)
VerifyHeights(s, e) ==
    /\ s >= RewardHeightStart
    /\ s <= e
    /\ e - s + 1 <= MaxRewardBlocks

Init ==
    /\ startHeight \in Heights
    /\ maxEndHeight \in Heights

Next == UNCHANGED vars

Spec == Init /\ [][Next]_vars

-----------------------------------------------------------------------------

EffectiveStart == IF startHeight < RewardHeightStart THEN RewardHeightStart ELSE startHeight
EndHeight == MinerCalcRewardEndHeight(startHeight, maxEndHeight)

(* A round boundary: the last height of a round of HeightRound blocks.    *)
IsRoundEnd(h) == (h + 1) % HeightRound = 0

(* MinerCalcRewardEndHeight returns the highest round boundary that is at *)
(* least RewardHeightStart, at most maxEndHeight, and at most             *)
(* MaxRewardBlocks - 1 past the (raised) start, or 0 when there is none.  *)
(* And a non-zero result at or after the start forms a reward claim that  *)
(* MinerRewardParam.Verify accepts.                                        *)
EndHeightMatchesReference ==
    LET hi == EffectiveStart + MaxRewardBlocks - 1
        ends == {h \in RewardHeightStart..maxEndHeight : h <= hi /\ IsRoundEnd(h)}
    IN /\ EndHeight = IF ends = {} THEN 0
                      ELSE CHOOSE h \in ends : \A h2 \in ends : h2 <= h
       /\ (EndHeight # 0 /\ EndHeight >= EffectiveStart)
             => VerifyHeights(EffectiveStart, EndHeight)

====
