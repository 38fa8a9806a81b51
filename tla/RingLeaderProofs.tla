---------------------------- MODULE RingLeaderProofs ----------------------------
(***************************************************************************)
(* Proofs about the ring membership of the compactor replicas: the tokens *)
(* of the ring stay well formed for every set of replicas and tokens and  *)
(* any number of crashes.                                                  *)
(***************************************************************************)
EXTENDS RingLeader, FiniteSetTheorems, TLAPS

(* A replica whose process is up has an instance in the ring, and it      *)
(* heartbeats: only the instance of a dead replica can turn stale and be  *)
(* forgotten.                                                             *)
LiveRegistered ==
    \A r \in Replicas : proc[r] # "down" => kv[r].state # "ABSENT" /\ kv[r].fresh

(* An instance not in the ring holds no tokens; one in the ring holds a   *)
(* single token, which no other instance holds.                          *)
TokensShape ==
    /\ \A r \in Replicas : kv[r].state = "ABSENT" => kv[r].tokens = {}
    /\ \A r \in Replicas : kv[r].state # "ABSENT" => \E t \in Tokens : kv[r].tokens = {t}
    /\ \A r, x \in Replicas : r # x => kv[r].tokens \cap kv[x].tokens = {}

(* The inductive invariant. *)
IInv == TypeOK /\ LiveRegistered /\ TokensShape

-----------------------------------------------------------------------------
(* IInv holds initially. *)
LEMMA InitIInv == Init => IInv
<1> SUFFICES ASSUME Init PROVE IInv
  OBVIOUS
<1>1. Absent \in Desc
  BY DEF Absent, Desc, States
<1>2. TypeOK
  BY <1>1, RingAssumption DEF Init, TypeOK, Procs
<1>3. LiveRegistered /\ TokensShape
  BY DEF Init, LiveRegistered, TokensShape, Absent
<1>4. QED
  BY <1>2, <1>3 DEF IInv

(* IInv implies the property. *)
LEMMA IInvWellFormed == IInv => RingTokensWellFormed
<1> SUFFICES ASSUME IInv PROVE RingTokensWellFormed
  OBVIOUS
<1>1. \A r \in Replicas : kv[r].state # "ABSENT" => Cardinality(kv[r].tokens) = 1
  BY FS_Singleton DEF IInv, TokensShape
<1>2. QED
  BY <1>1 DEF IInv, TokensShape, RingTokensWellFormed, ringNumTokens

(* The tokens Register gives r: its own single token when its instance is *)
(* still in the ring, else one new token that no instance holds.          *)
LEMMA RegisterToken ==
    ASSUME IInv, NEW r \in Replicas, Register(r)
    PROVE  \E t \in Tokens :
              /\ kv' = [kv EXCEPT ![r] = [state |-> "JOINING", tokens |-> {t}, fresh |-> TRUE]]
              /\ \A x \in Replicas \ {r} : t \notin kv[x].tokens
<1> DEFINE own == IF kv[r].state # "ABSENT" THEN kv[r].tokens ELSE {}
<1>1. PICK new \in GenerateTokens(ringNumTokens - Cardinality(own), TakenTokens(kv)) :
          kv' = [kv EXCEPT ![r] = [state |-> "JOINING", tokens |-> own \cup new, fresh |-> TRUE]]
  BY DEF Register
<1>2. new \subseteq Tokens /\ new \cap TakenTokens(kv) = {}
      /\ Cardinality(new) = ringNumTokens - Cardinality(own)
  BY <1>1 DEF GenerateTokens
<1>3. IsFiniteSet(new)
  BY <1>2, RingAssumption, FS_Subset
<1>4. CASE kv[r].state # "ABSENT"
  <2>1. PICK t \in Tokens : kv[r].tokens = {t}
    BY <1>4 DEF IInv, TokensShape
  <2>2. Cardinality(own) = 1
    BY <1>4, <2>1, FS_Singleton
  <2>3. new = {}
    BY <1>2, <1>3, <2>2, FS_EmptySet DEF ringNumTokens
  <2>4. \A x \in Replicas \ {r} : t \notin kv[x].tokens
    BY <2>1 DEF IInv, TokensShape
  <2>5. QED
    BY <1>1, <1>4, <2>1, <2>3, <2>4
<1>5. CASE kv[r].state = "ABSENT"
  <2>1. Cardinality(own) = 0
    BY <1>5, FS_EmptySet
  <2>2. Cardinality(new) = 1
    BY <1>2, <2>1 DEF ringNumTokens
  <2>3. PICK t : new = {t}
    BY <1>3, <2>2, FS_Singleton
  <2>4. t \in Tokens /\ \A x \in Replicas : t \notin kv[x].tokens
    BY <1>2, <2>3 DEF TakenTokens
  <2>5. QED
    BY <1>1, <1>5, <2>3, <2>4
<1>6. QED
  BY <1>4, <1>5

(* Register preserves IInv. *)
LEMMA RegisterIInv ==
    ASSUME IInv, NEW r \in Replicas, Register(r)
    PROVE  IInv'
<1>1. PICK t \in Tokens :
          /\ kv' = [kv EXCEPT ![r] = [state |-> "JOINING", tokens |-> {t}, fresh |-> TRUE]]
          /\ \A x \in Replicas \ {r} : t \notin kv[x].tokens
  BY RegisterToken
<1>2. /\ view' = [view EXCEPT ![r] = kv]
      /\ proc' = [proc EXCEPT ![r] = "waitJoining"]
      /\ started' = [started EXCEPT ![r] = TRUE]
      /\ UNCHANGED <<running, crashes>>
  BY DEF Register
<1>3. TypeOK'
  BY <1>1, <1>2 DEF IInv, TypeOK, Desc, States, Procs
<1>4. LiveRegistered'
  BY <1>1, <1>2 DEF IInv, TypeOK, LiveRegistered
<1>5. TokensShape'
  BY <1>1 DEF IInv, TypeOK, TokensShape
<1>6. QED
  BY <1>3, <1>4, <1>5 DEF IInv


(* Steps that leave the KV store alone and bring no process up preserve   *)
(* IInv: the ring client's sync, the two ticker branches, waiting for     *)
(* ACTIVE and a crash.                                                    *)
LEMMA KvFrameIInv ==
    ASSUME IInv, NEW r \in Replicas,
           Sync(r) \/ TickStart(r) \/ TickStop(r) \/ ObserveActive(r) \/ Crash(r)
    PROVE  IInv'
<1>1. UNCHANGED <<kv, started>>
  BY DEF Sync, TickStart, TickStop, ObserveActive, Crash
<1>2. \A x \in Replicas : proc'[x] # "down" => proc[x] # "down"
  BY DEF Sync, TickStart, TickStop, ObserveActive, Crash, IInv, TypeOK
<1>3. TypeOK'
  <2>1. CASE Sync(r)
    BY <2>1 DEF Sync, IInv, TypeOK
  <2>2. CASE TickStart(r) \/ TickStop(r)
    BY <2>2 DEF TickStart, TickStop, IInv, TypeOK
  <2>3. CASE ObserveActive(r)
    BY <2>3 DEF ObserveActive, IInv, TypeOK, Procs
  <2>4. CASE Crash(r)
    BY <2>4, RingAssumption DEF Crash, IInv, TypeOK, Procs
  <2>5. QED
    BY <2>1, <2>2, <2>3, <2>4
<1>4. QED
  BY <1>1, <1>2, <1>3 DEF IInv, LiveRegistered, TokensShape

(* ChangeState(ACTIVE) after JOINING was seen, and the shutdown's switch  *)
(* to LEAVING, change only the state of an instance in the ring.          *)
LEMMA StateChangeIInv ==
    ASSUME IInv, NEW r \in Replicas, ObserveJoining(r) \/ Shutdown(r)
    PROVE  IInv'
<1>1. proc[r] # "down" /\ kv[r].state # "ABSENT" /\ kv[r].fresh
  BY DEF ObserveJoining, Shutdown, IInv, LiveRegistered
<1>2. PICK st \in {"ACTIVE", "LEAVING"} : kv' = [kv EXCEPT ![r].state = st]
  BY DEF ObserveJoining, Shutdown
<1>3. proc'[r] # "down" /\ \A x \in Replicas \ {r} : proc'[x] = proc[x]
  BY DEF ObserveJoining, Shutdown, IInv, TypeOK
<1>4. /\ kv' \in [Replicas -> Desc]
      /\ \A x \in Replicas : /\ kv'[x].state # "ABSENT" <=> (x = r \/ kv[x].state # "ABSENT")
                            /\ kv'[x].tokens = kv[x].tokens
                            /\ kv'[x].fresh = kv[x].fresh
  BY <1>1, <1>2 DEF IInv, TypeOK, Desc, States
<1>5. TypeOK'
  <2>1. CASE ObserveJoining(r)
    BY <1>4, <2>1 DEF ObserveJoining, IInv, TypeOK, Procs
  <2>2. CASE Shutdown(r)
    BY <1>4, <2>2, RingAssumption DEF Shutdown, IInv, TypeOK, Procs
  <2>3. QED
    BY <2>1, <2>2
<1>6. LiveRegistered'
  BY <1>1, <1>3, <1>4 DEF IInv, LiveRegistered
<1>7. TokensShape'
  BY <1>1, <1>4 DEF IInv, TokensShape
<1>8. QED
  BY <1>5, <1>6, <1>7 DEF IInv

(* Removing an instance from the ring, by the leaving replica itself or   *)
(* by the auto-forget delegate of another replica, preserves IInv: only   *)
(* a dead replica's instance goes stale and can be forgotten.             *)
LEMMA RemoveIInv ==
    ASSUME IInv, NEW r \in Replicas, NEW x \in Replicas, Unregister(r) \/ AutoForget(r, x)
    PROVE  IInv'
<1>1. CASE Unregister(r)
  <2>1. kv' = [kv EXCEPT ![r] = Absent] /\ proc' = [proc EXCEPT ![r] = "down"]
        /\ UNCHANGED <<view, running, started, crashes>>
    BY <1>1 DEF Unregister
  <2>2. Absent \in Desc
    BY DEF Absent, Desc, States
  <2>3. QED
    BY <2>1, <2>2 DEF IInv, TypeOK, LiveRegistered, TokensShape, Absent, Procs
<1>2. CASE AutoForget(r, x)
  <2>1. kv' = [kv EXCEPT ![x] = Absent] /\ UNCHANGED <<view, proc, running, started, crashes>>
    BY <1>2 DEF AutoForget
  <2>2. proc[x] = "down"
    BY <1>2 DEF AutoForget, IInv, LiveRegistered
  <2>3. Absent \in Desc
    BY DEF Absent, Desc, States
  <2>4. QED
    BY <2>1, <2>2, <2>3 DEF IInv, TypeOK, LiveRegistered, TokensShape, Absent
<1>3. QED
  BY <1>1, <1>2

(* The heartbeat of a dead replica's instance goes stale. *)
LEMMA HeartbeatTimeoutIInv ==
    ASSUME IInv, NEW r \in Replicas, HeartbeatTimeout(r)
    PROVE  IInv'
<1>1. proc[r] = "down" /\ kv' = [kv EXCEPT ![r].fresh = FALSE]
      /\ UNCHANGED <<view, proc, running, started, crashes>>
  BY DEF HeartbeatTimeout
<1>2. /\ kv' \in [Replicas -> Desc]
      /\ \A x \in Replicas : /\ kv'[x].state = kv[x].state
                            /\ kv'[x].tokens = kv[x].tokens
                            /\ x # r => kv'[x] = kv[x]
  BY <1>1 DEF IInv, TypeOK, Desc
<1>3. QED
  BY <1>1, <1>2 DEF IInv, TypeOK, LiveRegistered, TokensShape

(* Every step, or stutter, preserves IInv. *)
LEMMA NextIInv == IInv /\ [Next]_vars => IInv'
<1> SUFFICES ASSUME IInv, [Next]_vars PROVE IInv'
  OBVIOUS
<1>1. CASE UNCHANGED vars
  BY <1>1 DEF vars, IInv, TypeOK, LiveRegistered, TokensShape
<1>2. ASSUME NEW r \in Replicas,
             \/ Register(r) \/ ObserveJoining(r) \/ ObserveActive(r) \/ Sync(r)
             \/ TickStart(r) \/ TickStop(r)
             \/ Shutdown(r) \/ Unregister(r) \/ Crash(r) \/ HeartbeatTimeout(r)
             \/ \E x \in Replicas : AutoForget(r, x)
      PROVE  IInv'
  BY <1>2, RegisterIInv, KvFrameIInv, StateChangeIInv, RemoveIInv, HeartbeatTimeoutIInv
<1>3. QED
  BY <1>1, <1>2 DEF Next

(* Whatever the replicas, the token values and the number of crashes,     *)
(* registrations that keep a restarted instance's token, crashes,         *)
(* shutdowns and auto-forgets keep every instance in the ring at exactly  *)
(* ringNumTokens tokens, none of them shared: OnRingInstanceRegister      *)
(* generates ringNumTokens minus the tokens the instance already holds,   *)
(* avoiding every taken token.                                            *)
THEOREM RingTokensWellFormedTheorem == Spec => []RingTokensWellFormed
<1>1. Spec => []IInv
  BY InitIInv, NextIInv, PTL DEF Spec
<1>2. QED
  BY <1>1, IInvWellFormed, PTL

=============================================================================
