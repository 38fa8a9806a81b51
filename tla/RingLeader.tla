------------------------------ MODULE RingLeader ------------------------------
(***************************************************************************)
(* Leader election of the compactor replicas through the hash ring         *)
(* (compactor.go: NewCompactor, starting, loop, OnRingInstanceRegister).   *)
(*                                                                         *)
(* Each replica registers in the ring "compactor" with one token, waits    *)
(* until its own ring client sees it JOINING, switches to ACTIVE, waits    *)
(* until it sees itself ACTIVE and then enters the loop.  Every            *)
(* ringPollPeriod the loop asks its ring client who owns ringKeyOfLeader   *)
(* and starts or stops the tables manager accordingly.                     *)
(*                                                                         *)
(* kv is the ring descriptor in the KV store; view[r] is the copy held by  *)
(* replica r's ring client, which lags behind kv.  Heartbeat ages are      *)
(* abstracted to a flag: fresh means younger than HeartbeatTimeout; an     *)
(* instance that is not fresh is forgotten by the auto-forget delegate of  *)
(* a live replica once ringAutoForgetUnhealthyPeriods timeouts passed.     *)
(***************************************************************************)
EXTENDS Naturals, FiniteSets

CONSTANTS
    Replicas,    \* the compactor replicas (their addresses)
    Tokens,      \* the token values the random generator may produce
    MaxCrashes   \* bound on crashes and shutdowns of replicas

ASSUME RingAssumption ==
    /\ Tokens \subseteq Nat
    /\ IsFiniteSet(Tokens)
    /\ Cardinality(Tokens) >= Cardinality(Replicas)
    /\ MaxCrashes \in Nat

VARIABLES
    kv,        \* kv[r]: the instance descriptor of r in the ring KV store
    view,      \* view[r][x]: replica r's ring client's copy of kv[x]
    proc,      \* proc[r]: where replica r's process is
    running,   \* running[r]: c.running, the tables manager runs on r
    started,   \* started[r]: r has been started at least once
    crashes    \* number of crashes and shutdowns so far

vars == <<kv, view, proc, running, started, crashes>>

(* ringNumTokens: each compactor instance holds exactly one token. *)
ringNumTokens == 1

States == {"ABSENT", "JOINING", "ACTIVE", "LEAVING"}

Desc == [state: States, tokens: SUBSET Tokens, fresh: BOOLEAN]

Absent == [state |-> "ABSENT", tokens |-> {}, fresh |-> FALSE]

Procs == {"down", "waitJoining", "waitActive", "loop", "leaving"}

TypeOK ==
    /\ kv \in [Replicas -> Desc]
    /\ view \in [Replicas -> [Replicas -> Desc]]
    /\ proc \in [Replicas -> Procs]
    /\ running \in [Replicas -> BOOLEAN]
    /\ started \in [Replicas -> BOOLEAN]
    /\ crashes \in 0..MaxCrashes

Init ==
    /\ kv = [r \in Replicas |-> Absent]
    /\ view = [r \in Replicas |-> [x \in Replicas |-> Absent]]
    /\ proc = [r \in Replicas |-> "down"]
    /\ running = [r \in Replicas |-> FALSE]
    /\ started = [r \in Replicas |-> FALSE]
    /\ crashes = 0

(* The tokens of the instances registered in a ring descriptor. *)
TakenTokens(d) == UNION {d[x].tokens : x \in Replicas}

(* ring.NewRandomTokenGenerator().GenerateTokens(n, taken): any n distinct *)
(* tokens that are not taken.                                              *)
GenerateTokens(n, taken) == {T \in SUBSET (Tokens \ taken) : Cardinality(T) = n}

(* ring.Get(ringKeyOfLeader, ring.Write, ...) on a ring descriptor with    *)
(* replication factor 1: walking the tokens from key 0, instances that are *)
(* not ACTIVE extend the replica set, so the walk stops at the ACTIVE      *)
(* instance with the smallest token; the ignore-unhealthy strategy drops   *)
(* every non-ACTIVE or stale instance, and an empty set is an error.       *)
(* The result is the set of returned addresses.                            *)
RingGet(d) ==
    LET active == {x \in Replicas : d[x].state = "ACTIVE"}
        owns(x, t) == t \in d[x].tokens /\ \A y \in active : \A u \in d[y].tokens : t <= u
        first  == {x \in active : \E t \in d[x].tokens : owns(x, t)}
    IN  {x \in first : d[x].fresh}

-----------------------------------------------------------------------------
(* Mutant: the number of tokens to generate ignores the tokens the         *)
(* instance already holds.                                                 *)
RegisterIgnoringOwnTokens(r) ==
    /\ proc[r] = "down"
    /\ LET tokens == IF kv[r].state # "ABSENT" THEN kv[r].tokens ELSE {}
       IN  \E new \in GenerateTokens(ringNumTokens, TakenTokens(kv)) :
              kv' = [kv EXCEPT ![r] = [state |-> "JOINING", tokens |-> tokens \cup new,
                                       fresh |-> TRUE]]
    /\ view' = [view EXCEPT ![r] = kv]
    /\ proc' = [proc EXCEPT ![r] = "waitJoining"]
    /\ started' = [started EXCEPT ![r] = TRUE]
    /\ UNCHANGED <<running, crashes>>

(* starting: the lifecycler registers r through the delegate chain; the    *)
(* compactor's OnRingInstanceRegister sets JOINING and keeps the tokens of *)
(* an existing instance, else generates one token not taken in the ring.   *)
(* The ring client starts with the descriptor it reads from the KV store.  *)
Register(r) ==
    /\ proc[r] = "down"
    /\ LET tokens == IF kv[r].state # "ABSENT" THEN kv[r].tokens ELSE {}
       IN  \E new \in GenerateTokens(ringNumTokens - Cardinality(tokens), TakenTokens(kv)) :
              kv' = [kv EXCEPT ![r] = [state |-> "JOINING", tokens |-> tokens \cup new,
                                       fresh |-> TRUE]]
    /\ view' = [view EXCEPT ![r] = kv]
    /\ proc' = [proc EXCEPT ![r] = "waitJoining"]
    /\ started' = [started EXCEPT ![r] = TRUE]
    /\ UNCHANGED <<running, crashes>>

(* The first start of a replica, which the deployment guarantees. *)
FirstStart(r) == ~started[r] /\ Register(r)

(* WaitInstanceState(JOINING) returns, then ChangeState(ACTIVE). *)
ObserveJoining(r) ==
    /\ proc[r] = "waitJoining"
    /\ view[r][r].state = "JOINING"
    /\ kv' = [kv EXCEPT ![r].state = "ACTIVE"]
    /\ proc' = [proc EXCEPT ![r] = "waitActive"]
    /\ UNCHANGED <<view, running, started, crashes>>

(* WaitInstanceState(ACTIVE) returns; starting succeeds, loop begins. *)
ObserveActive(r) ==
    /\ proc[r] = "waitActive"
    /\ view[r][r].state = "ACTIVE"
    /\ proc' = [proc EXCEPT ![r] = "loop"]
    /\ UNCHANGED <<kv, view, running, started, crashes>>

(* r's ring client receives the current descriptor from the KV watch. *)
Sync(r) ==
    /\ proc[r] # "down"
    /\ view' = [view EXCEPT ![r] = kv]
    /\ UNCHANGED <<kv, proc, running, started, crashes>>

(* A syncTicker tick: the ring names r as the only owner of the leader key *)
(* and the compactor is not running, so r starts the tables manager and    *)
(* the delete requests manager under a fresh running context.              *)
TickStart(r) ==
    /\ proc[r] = "loop"
    /\ RingGet(view[r]) = {r}
    /\ ~running[r]
    /\ running' = [running EXCEPT ![r] = TRUE]
    /\ UNCHANGED <<kv, view, proc, started, crashes>>

(* Mutant: the compactor is stopped but c.running is not cleared. *)
TickStopNoReset(r) ==
    /\ proc[r] = "loop"
    /\ Cardinality(RingGet(view[r])) = 1
    /\ RingGet(view[r]) # {r}
    /\ running[r]
    /\ UNCHANGED vars

(* A tick at which the ring names another owner while r runs: r cancels    *)
(* the running context, waits for its goroutines, and clears c.running.    *)
(* A ring error or a result that is not exactly one address changes        *)
(* nothing ("will check again").                                           *)
TickStop(r) ==
    /\ proc[r] = "loop"
    /\ Cardinality(RingGet(view[r])) = 1
    /\ RingGet(view[r]) # {r}
    /\ running[r]
    /\ running' = [running EXCEPT ![r] = FALSE]
    /\ UNCHANGED <<kv, view, proc, started, crashes>>

(* The service context is done: the loop cancels and waits for the running *)
(* work and returns; stopping stops the lifecycler, whose leave-on-stopping *)
(* delegate switches the instance to LEAVING.                              *)
Shutdown(r) ==
    /\ proc[r] = "loop"
    /\ crashes < MaxCrashes
    /\ crashes' = crashes + 1
    /\ running' = [running EXCEPT ![r] = FALSE]
    /\ kv' = [kv EXCEPT ![r].state = "LEAVING"]
    /\ proc' = [proc EXCEPT ![r] = "leaving"]
    /\ UNCHANGED <<view, started>>

(* The stopped lifecycler unregisters the instance from the ring. *)
Unregister(r) ==
    /\ proc[r] = "leaving"
    /\ kv' = [kv EXCEPT ![r] = Absent]
    /\ proc' = [proc EXCEPT ![r] = "down"]
    /\ UNCHANGED <<view, running, started, crashes>>

(* The process of r dies at any point; its instance stays in the ring and *)
(* stops heartbeating.                                                     *)
Crash(r) ==
    /\ proc[r] # "down"
    /\ crashes < MaxCrashes
    /\ crashes' = crashes + 1
    /\ proc' = [proc EXCEPT ![r] = "down"]
    /\ running' = [running EXCEPT ![r] = FALSE]
    /\ UNCHANGED <<kv, view, started>>

(* HeartbeatTimeout passes without a heartbeat of the dead replica x. *)
HeartbeatTimeout(x) ==
    /\ proc[x] = "down"
    /\ kv[x].state # "ABSENT"
    /\ kv[x].fresh
    /\ kv' = [kv EXCEPT ![x].fresh = FALSE]
    /\ UNCHANGED <<view, proc, running, started, crashes>>

(* The auto-forget delegate, run at a heartbeat of live replica r, removes *)
(* x once it has been unhealthy for ringAutoForgetUnhealthyPeriods         *)
(* heartbeat timeouts.                                                     *)
AutoForget(r, x) ==
    /\ proc[r] \notin {"down", "leaving"}
    /\ kv[x].state # "ABSENT"
    /\ ~kv[x].fresh
    /\ kv' = [kv EXCEPT ![x] = Absent]
    /\ UNCHANGED <<view, proc, running, started, crashes>>

Next ==
    \E r \in Replicas :
        \/ Register(r) \/ ObserveJoining(r) \/ ObserveActive(r) \/ Sync(r)
        \/ TickStart(r) \/ TickStop(r)
        \/ Shutdown(r) \/ Unregister(r) \/ Crash(r) \/ HeartbeatTimeout(r)
        \/ \E x \in Replicas : AutoForget(r, x)

(* Weak fairness on what the code and its environment keep doing: tickers  *)
(* fire, the KV watch delivers, WaitInstanceState polls, heartbeats and    *)
(* time go on, and every replica is started once.  Crashes, shutdowns and *)
(* restarts are not fair: a crashed replica may stay down.                 *)
Fairness ==
    \A r \in Replicas :
        /\ WF_vars(FirstStart(r))
        /\ WF_vars(ObserveJoining(r)) /\ WF_vars(ObserveActive(r))
        /\ WF_vars(Sync(r)) /\ WF_vars(TickStart(r)) /\ WF_vars(TickStop(r))
        /\ WF_vars(Unregister(r)) /\ WF_vars(HeartbeatTimeout(r))
        /\ \A x \in Replicas : WF_vars(AutoForget(r, x))

Spec == Init /\ [][Next]_vars

FairSpec == Spec /\ Fairness

-----------------------------------------------------------------------------
(* Ring tokens stay well formed across registrations, crashes, restarts   *)
(* and auto-forgets: every instance in the ring holds exactly              *)
(* ringNumTokens tokens and no token is held by two instances, so the      *)
(* owner of the leader key is never ambiguous.                             *)
RingTokensWellFormed ==
    /\ \A r \in Replicas :
          kv[r].state # "ABSENT" => Cardinality(kv[r].tokens) = ringNumTokens
    /\ \A r, x \in Replicas : r # x => kv[r].tokens \cap kv[x].tokens = {}

(* Eventual leader uniqueness (spec 8, invariant 4; scenario S7): once     *)
(* crashes and shutdowns stop, exactly one replica runs the compactor from *)
(* some point on, even when the replica that owned the leader key died and *)
(* is never restarted.                                                     *)
EventuallyOneLeader ==
    <>[](Cardinality({r \in Replicas : running[r]}) = 1)
=============================================================================
