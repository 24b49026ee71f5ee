---------------------------- MODULE MCDpos ----------------------------------
(***************************************************************************)
(* One harness for the DPoS service: each behaviour runs either the       *)
(* message loop (DposEngine) or the online-representative table and its   *)
(* periodic goroutines (OnlineReps), chosen by part; the other stays in   *)
(* its initial state.                                                      *)
(***************************************************************************)
EXTENDS Integers, TLC

CONSTANTS b1, b2, b3, g, l1, r1, None

VARIABLES part,
          ledger, roots, tally, unchecked, voteCache, msgs, acked, pc, todo, cur,
          sent, heard, expired,
          now, onlineReps, cleaners, ledgerOnline, saved

deVars == <<ledger, roots, tally, unchecked, voteCache, msgs, acked, pc, todo, cur,
            sent, heard, expired>>
orVars == <<now, onlineReps, cleaners, ledgerOnline, saved>>
vars == <<part, deVars, orVars>>

(* Three blocks: b1 a send on the genesis chain, b2 the Open that receives *)
(* it (a GapSource while b1 is unconfirmed), b3 a block after b2 (a        *)
(* GapPrevious while b2 is unconfirmed).  One local and one remote         *)
(* representative; an election needs both votes.                           *)
DE == INSTANCE DposEngine WITH Blocks <- {b1, b2, b3}, Genesis <- g,
        Prev <- (b1 :> g) @@ (b2 :> None) @@ (b3 :> b2),
        Src <- (b1 :> None) @@ (b2 :> b1) @@ (b3 :> None),
        LocalReps <- {l1}, RemoteReps <- {r1}, Quorum <- 2, MaxMsgs <- 4, AckCap <- 2

(* One local representative, repTimeout 5 and findOnlineRepInterval 2      *)
(* minutes, over 6 minutes: goroutines at minutes 2, 4 and 6, and a vote   *)
(* of minute 0 expired before the last of them.                            *)
OR == INSTANCE OnlineReps WITH Reps <- {l1}, LocalReps <- {l1}, RepTimeout <- 5,
        FindInterval <- 2, MaxTime <- 6

Init ==
    /\ part \in {"engine", "online"}
    /\ DE!Init
    /\ OR!Init

Next ==
    \/ part = "engine" /\ DE!Next /\ UNCHANGED <<part, orVars>>
    \/ part = "online" /\ OR!Next /\ UNCHANGED <<part, deVars>>

(* The fairness of each part's own specification.                          *)
Fairness ==
    /\ WF_vars(part = "engine" /\ DE!Loop /\ UNCHANGED <<part, orVars>>)
    /\ WF_vars(part = "online" /\ OR!Tick /\ UNCHANGED <<part, deVars>>)
    /\ WF_vars(part = "online" /\ OR!TimerFindOnlineRep /\ UNCHANGED <<part, deVars>>)
    /\ WF_vars(part = "online" /\ \E c \in DOMAIN cleaners : OR!Cleaner(c)
                /\ UNCHANGED <<part, deVars>>)

Spec == Init /\ [][Next]_vars /\ Fairness

-----------------------------------------------------------------------------
TypeOK == DE!TypeOK /\ OR!TypeOK

(* DPoS message loop (see DposEngine).                                     *)

(* No lost wake-up: a block parked under a confirmed hash has that hash   *)
(* still in blocksAcked, or dequeueUnchecked is serving it.                *)
NoLostWakeup == DE!NoLostWakeup

(* No ConfirmAck the loop processed is lost: the block is confirmed, the  *)
(* vote is tallied, or it is in (or was evicted from) the vote cache.      *)
VotesPreserved == DE!VotesPreserved

(* ProcessMsgLoop can always take a step: it never blocks on blocksAcked. *)
LoopNeverBlocks == part = "engine" => DE!LoopNeverBlocks

(* A block parked under a confirmed hash is eventually taken out of the   *)
(* unchecked cache, by dequeueUnchecked or by eviction.                    *)
WaiterEventuallyRechecked == DE!WaiterEventuallyRechecked

(* DPoS online representatives (see OnlineReps).                           *)

(* An expired entry is eventually deleted by the periodic goroutine, or   *)
(* refreshed by a new vote.                                                *)
ExpiredEventuallyPurged == OR!ExpiredEventuallyPurged

====
