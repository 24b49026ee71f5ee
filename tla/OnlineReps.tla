----------------------------- MODULE OnlineReps -----------------------------
(***************************************************************************)
(* The DPoS online-representative table (src/consensus/dpos/dpos_impl.go): *)
(* saveOnlineRep, called whenever a vote of a representative is seen or    *)
(* made, and the goroutine the Start loop spawns every                     *)
(* findOnlineRepInterval: findOnlineRepresentatives, then cleanOnlineReps, *)
(* which ranges over the sync.Map, deletes the expired entries and         *)
(* persists the others with SetOnlineRepresentations.                      *)
(*                                                                         *)
(* Time is in minutes.  Each goroutine is named by the minute it was       *)
(* spawned; its Range reads a value and deletes the key in two steps, and  *)
(* it need not visit a key stored after it began (sync.Map.Range).  The    *)
(* votes findOnlineRepresentatives generates are not modelled; its         *)
(* GetRandomStateBlock may fail.                                           *)
(***************************************************************************)
EXTENDS Integers, FiniteSets, TLC

CONSTANTS
    Reps,          \* representative addresses
    LocalReps,     \* localRepAccount
    RepTimeout,    \* repTimeout (5 minutes)
    FindInterval,  \* findOnlineRepInterval (2 minutes)
    MaxTime,       \* bound on the clock
    None

ASSUME LocalReps \subseteq Reps

VARIABLES
    now,           \* the clock, in minutes
    onlineReps,    \* dps.onlineReps: representative -> expiry
    cleaners,      \* spawn minute -> the goroutine's state
    ledgerOnline,  \* the set last written by SetOnlineRepresentations
    saved          \* history: representative -> expiry of its latest save

vars == <<now, onlineReps, cleaners, ledgerOnline, saved>>

(* saveOnlineRep(addr): onlineReps.Store(addr, now + repTimeout).          *)
SaveOnlineRep(om, r) == (r :> now + RepTimeout) @@ om

(* A vote of representative r seen by the loop (ProcessMsgDo, line 322)   *)
(* or made by a local representative (lines 184, 369, 468).                *)
SaveVote(r) ==
    /\ onlineReps' = SaveOnlineRep(onlineReps, r)
    /\ saved' = SaveOnlineRep(saved, r)
    /\ UNCHANGED <<now, cleaners, ledgerOnline>>

Tick ==
    /\ now < MaxTime
    /\ now % FindInterval = 0 /\ now > 0 => now \in DOMAIN cleaners
    /\ now' = now + 1
    /\ UNCHANGED <<onlineReps, cleaners, ledgerOnline, saved>>

(* A goroutine before it starts, and after it returns.                     *)
Idle == [pc |-> "done", t |-> 0, start |-> {}, visited |-> {}, del |-> None, kept |-> {}]

(* timerFindOnlineRep fires: the Start loop spawns the goroutine.          *)
TimerFindOnlineRep ==
    /\ now % FindInterval = 0 /\ now > 0
    /\ now \notin DOMAIN cleaners
    /\ cleaners' = (now :> [Idle EXCEPT !.pc = "find"]) @@ cleaners
    /\ UNCHANGED <<now, onlineReps, ledgerOnline, saved>>

(* GetOnlineRepresentatives: the keys a Range of onlineReps yields.        *)
GetOnlineRepresentatives == DOMAIN onlineReps

Set(c, f, v) == [cleaners EXCEPT ![c][f] = v]

(* Mutant: the goroutine returns when findOnlineRepresentatives fails,     *)
(* without cleaning.                                                       *)
FindOnlineRepresentativesReturnOnErr(c) ==
    /\ cleaners[c].pc = "find"
    /\ \/ /\ cleaners' = Set(c, "pc", "done")
          /\ UNCHANGED <<onlineReps, saved>>
       \/ /\ onlineReps' = [r \in DOMAIN onlineReps \cup LocalReps |->
                              IF r \in LocalReps THEN now + RepTimeout ELSE onlineReps[r]]
          /\ saved' = [r \in DOMAIN saved \cup LocalReps |->
                          IF r \in LocalReps THEN now + RepTimeout ELSE saved[r]]
          /\ cleaners' = Set(c, "pc", "clean")
    /\ UNCHANGED <<now, ledgerOnline>>

(* findOnlineRepresentatives: GetRandomStateBlock fails (nothing saved),  *)
(* or every local representative is saved; the goroutine then cleans      *)
(* either way.                                                             *)
FindOnlineRepresentatives(c) ==
    /\ cleaners[c].pc = "find"
    /\ \/ UNCHANGED <<onlineReps, saved>>
       \/ /\ onlineReps' = [r \in DOMAIN onlineReps \cup LocalReps |->
                              IF r \in LocalReps THEN now + RepTimeout ELSE onlineReps[r]]
          /\ saved' = [r \in DOMAIN saved \cup LocalReps |->
                          IF r \in LocalReps THEN now + RepTimeout ELSE saved[r]]
    /\ cleaners' = Set(c, "pc", "clean")
    /\ UNCHANGED <<now, ledgerOnline>>

(* cleanOnlineReps: now is read, then the Range begins.                    *)
CleanStart(c) ==
    /\ cleaners[c].pc = "clean"
    /\ cleaners' = [cleaners EXCEPT ![c].pc = "range", ![c].t = now,
                                    ![c].start = DOMAIN onlineReps]
    /\ UNCHANGED <<now, onlineReps, ledgerOnline, saved>>

(* The Range callback reads the value of a key not yet visited: an       *)
(* expired one is to be deleted, the others are kept.                     *)
CleanVisit(c, r) ==
    /\ cleaners[c].pc = "range"
    /\ r \in DOMAIN onlineReps \ cleaners[c].visited
    /\ cleaners' = IF onlineReps[r] < cleaners[c].t
                   THEN [cleaners EXCEPT ![c].visited = @ \cup {r}, ![c].pc = "delete",
                                         ![c].del = r]
                   ELSE [cleaners EXCEPT ![c].visited = @ \cup {r}, ![c].kept = @ \cup {r}]
    /\ UNCHANGED <<now, onlineReps, ledgerOnline, saved>>

(* onlineReps.Delete(addr), whatever the key holds by now.                 *)
CleanDelete(c) ==
    /\ cleaners[c].pc = "delete"
    /\ onlineReps' = [r \in DOMAIN onlineReps \ {cleaners[c].del} |-> onlineReps[r]]
    /\ cleaners' = [cleaners EXCEPT ![c].pc = "range", ![c].del = None]
    /\ UNCHANGED <<now, ledgerOnline, saved>>

(* The Range ends once every key present throughout it was visited;       *)
(* SetOnlineRepresentations persists the kept ones.                        *)
CleanEnd(c) ==
    /\ cleaners[c].pc = "range"
    /\ cleaners[c].start \cap DOMAIN onlineReps \subseteq cleaners[c].visited
    /\ ledgerOnline' = cleaners[c].kept
    /\ cleaners' = [cleaners EXCEPT ![c] = Idle]
    /\ UNCHANGED <<now, onlineReps, saved>>

Init ==
    /\ now = 0
    /\ onlineReps = <<>>
    /\ cleaners = <<>>
    /\ ledgerOnline = {}
    /\ saved = <<>>

Cleaner(c) ==
    \/ FindOnlineRepresentatives(c)
    \/ CleanStart(c)
    \/ \E r \in Reps : CleanVisit(c, r)
    \/ CleanDelete(c)
    \/ CleanEnd(c)

Next ==
    \/ \E r \in Reps : SaveVote(r)
    \/ Tick
    \/ TimerFindOnlineRep
    \/ \E c \in DOMAIN cleaners : Cleaner(c)

(* The clock advances, the Start loop takes its timer and the spawned     *)
(* goroutines keep being scheduled (each of them ends, so the weak        *)
(* fairness of their union lets every one finish).  Votes need not come.  *)
Fairness ==
    /\ WF_vars(Tick)
    /\ WF_vars(TimerFindOnlineRep)
    /\ WF_vars(\E c \in DOMAIN cleaners : Cleaner(c))

Spec == Init /\ [][Next]_vars /\ Fairness

-----------------------------------------------------------------------------
(* Properties.                                                             *)

Expiries == 0..MaxTime + RepTimeout

TypeOK ==
    /\ now \in 0..MaxTime
    /\ DOMAIN onlineReps \subseteq Reps
    /\ \A r \in DOMAIN onlineReps : onlineReps[r] \in Expiries
    /\ DOMAIN cleaners \subseteq 0..MaxTime
    /\ \A c \in DOMAIN cleaners :
          cleaners[c] \in [pc : {"find", "clean", "range", "delete", "done"},
                           t : 0..MaxTime, start : SUBSET Reps, visited : SUBSET Reps,
                           del : Reps \cup {None}, kept : SUBSET Reps]
    /\ ledgerOnline \subseteq Reps

(* An expired entry does not stay: once a representative's expiry has     *)
(* passed, the entry is eventually deleted or refreshed by a new vote, as *)
(* the specification (4.2) says the periodic task purges expired entries. *)
Expired(r) == r \in GetOnlineRepresentatives /\ onlineReps[r] < now

ExpiredEventuallyPurged == \A r \in Reps : Expired(r) ~> ~Expired(r)

(* A representative whose latest vote has not expired is in the table:    *)
(* the cleaner, the only deleter (specification 5), deletes only expired  *)
(* entries.  cleanOnlineReps reads the value and deletes the key in two    *)
(* steps, and a vote saved in between is deleted with it.                 *)
FreshRepKept ==
    \A r \in DOMAIN saved : saved[r] >= now => r \in GetOnlineRepresentatives

====
