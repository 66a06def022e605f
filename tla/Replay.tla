------------------------------- MODULE Replay -------------------------------
(***************************************************************************)
(* DPoP replay protection (src/src/auth): a request reads the wall clock   *)
(* once, when it enters auth_layer; authenticate then waits for the        *)
(* issuer's keys and the WebID's profile; verify_dpop at last judges the   *)
(* proof's age by that reading and records its jti with it.  Between       *)
(* reading and recording any number of other requests may pass.            *)
(*                                                                         *)
(* A proof is its jti and its iat.  Its signature, target and key binding  *)
(* are decided before the replay set is asked and are left to the request  *)
(* being dropped or not; the caches that answer authenticate are not here. *)
(***************************************************************************)
EXTENDS Integers

CONSTANTS
  Reqs,         \* request slots
  Jtis,         \* proofs clients hold, by jti
  Iats,         \* the iat claims they may carry
  MAX_AGE_SECONDS,
  FUTURE_SKEW_SECONDS,
  EVICTION_INTERVAL_SECONDS,
  MaxClock,     \* bound: the last second of the run
  StepsBack     \* TRUE iff the wall clock may be set back

NoJti == "none"

Window == MAX_AGE_SECONDS + FUTURE_SKEW_SECONDS

ASSUME ReplayAssumption ==
  /\ NoJti \notin Jtis
  /\ Iats \subseteq Int
  /\ MAX_AGE_SECONDS \in Nat
  /\ FUTURE_SKEW_SECONDS \in Nat
  /\ EVICTION_INTERVAL_SECONDS \in Nat \ {0}
  /\ EVICTION_INTERVAL_SECONDS <= Window
  /\ MaxClock \in Nat
  /\ StepsBack \in BOOLEAN

VARIABLES
  clock,          \* the wall clock
  iat,            \* jti -> the iat its proof carries
  pc,             \* request -> "idle", or "resolving" keys and profile
  jti,            \* request -> the proof it presents
  now_unix,       \* request -> the clock it read
  jtis,           \* ReplaySet.jtis: the hashes held ...
  recorded_at,    \* ... and when each was recorded
  last_eviction,
  accepted,       \* history: jti -> 0, 1 or 2 (or more) times accepted
  last,           \* history: the clock reading the set was last asked with
  inOrder         \* history: readings have reached the set in order so far

vars == <<clock, iat, pc, jti, now_unix, jtis, recorded_at, last_eviction,
          accepted, last, inOrder>>

TypeOK ==
  /\ clock \in Nat
  /\ iat \in [Jtis -> Iats]
  /\ pc \in [Reqs -> {"idle", "resolving"}]
  /\ jti \in [Reqs -> Jtis \cup {NoJti}]
  /\ \A r \in Reqs : pc[r] = "resolving" => jti[r] \in Jtis
  /\ now_unix \in [Reqs -> Nat]
  /\ jtis \subseteq Jtis
  /\ recorded_at \in [Jtis -> Nat]
  /\ last_eviction \in Nat
  /\ accepted \in [Jtis -> 0..2]
  /\ last \in Nat
  /\ inOrder \in BOOLEAN

-----------------------------------------------------------------------------
Tick ==
  /\ clock < MaxClock
  /\ clock' = clock + 1
  /\ UNCHANGED <<iat, pc, jti, now_unix, jtis, recorded_at, last_eviction,
                 accepted, last, inOrder>>

\* The operator, or NTP, sets the clock back.
SetBack ==
  /\ StepsBack
  /\ \E t \in 0..MaxClock : t < clock /\ clock' = t
  /\ UNCHANGED <<iat, pc, jti, now_unix, jtis, recorded_at, last_eviction,
                 accepted, last, inOrder>>

\* auth_layer: the one reading of the clock.
auth_layer(r) ==
  /\ pc[r] = "idle"
  /\ \E j \in Jtis : jti' = [jti EXCEPT ![r] = j]
  /\ now_unix' = [now_unix EXCEPT ![r] = clock]
  /\ pc' = [pc EXCEPT ![r] = "resolving"]
  /\ UNCHANGED <<clock, iat, jtis, recorded_at, last_eviction, accepted, last,
                 inOrder>>

\* authenticate returns.
Finish(r) ==
  /\ pc' = [pc EXCEPT ![r] = "idle"]
  /\ jti' = [jti EXCEPT ![r] = NoJti]
  /\ now_unix' = [now_unix EXCEPT ![r] = 0]

\* A request refused for its token, its issuer, its WebID or its proof's
\* signature, target or key; it leaves the jti unused.
Reject(r) ==
  /\ pc[r] = "resolving"
  /\ Finish(r)
  /\ UNCHANGED <<clock, iat, jtis, recorded_at, last_eviction, accepted, last,
                 inOrder>>

\* verify_dpop's freshness check.
Fresh(j, t) ==
  /\ iat[j] - t <= FUTURE_SKEW_SECONDS
  /\ t - iat[j] <= MAX_AGE_SECONDS

\* Fault: a clock that went back does not sweep.
SweepsForward(t) == t - last_eviction >= EVICTION_INTERVAL_SECONDS

\* The interval is compared in absolute value.
Sweeps(t) ==
  \/ t - last_eviction >= EVICTION_INTERVAL_SECONDS
  \/ last_eviction - t >= EVICTION_INTERVAL_SECONDS

\* Fault: only the age a proof may have, without the skew.
RetainedTooFew(t) ==
  IF Sweeps(t) THEN {j \in jtis : recorded_at[j] >= t - MAX_AGE_SECONDS}
  ELSE jtis

Retained(t) ==
  IF Sweeps(t) THEN {j \in jtis : recorded_at[j] >= t - Window} ELSE jtis

\* Fault: the cutoff is recorded for the reading.
RecordCutoff(j, t) ==
  /\ jtis' = Retained(t) \cup {j}
  /\ recorded_at' = [k \in Jtis |-> IF k \in Retained(t) THEN recorded_at[k]
                                    ELSE IF k = j THEN t - Window ELSE 0]
  /\ last_eviction' = IF Sweeps(t) THEN t ELSE last_eviction

\* InMemoryJtiReplayStore::record_or_reject, one critical section.
record_or_reject(j, t) ==
  /\ jtis' = Retained(t) \cup {j}
  /\ recorded_at' = [k \in Jtis |-> IF k \in Retained(t) THEN recorded_at[k]
                                    ELSE IF k = j THEN t ELSE 0]
  /\ last_eviction' = IF Sweeps(t) THEN t ELSE last_eviction

\* verify_dpop, from the freshness check on: nothing waits in between.
verify_dpop(r) ==
  /\ pc[r] = "resolving"
  /\ LET j == jti[r]
         t == now_unix[r]
     IN IF Fresh(j, t)
        THEN /\ record_or_reject(j, t)
             /\ accepted' = IF j \in Retained(t) \/ accepted[j] = 2 THEN accepted
                            ELSE [accepted EXCEPT ![j] = @ + 1]
             /\ last' = t
             /\ inOrder' = (inOrder /\ last <= t)
        ELSE UNCHANGED <<jtis, recorded_at, last_eviction, accepted, last, inOrder>>
  /\ Finish(r)
  /\ UNCHANGED <<clock, iat>>

-----------------------------------------------------------------------------
\* An empty set, no sweep yet, and a clock so far from zero that the first
\* request sweeps.
Init ==
  /\ clock = EVICTION_INTERVAL_SECONDS
  /\ iat \in [Jtis -> Iats]
  /\ pc = [r \in Reqs |-> "idle"]
  /\ jti = [r \in Reqs |-> NoJti]
  /\ now_unix = [r \in Reqs |-> 0]
  /\ jtis = {}
  /\ recorded_at = [j \in Jtis |-> 0]
  /\ last_eviction = 0
  /\ accepted = [j \in Jtis |-> 0]
  /\ last = 0
  /\ inOrder = TRUE

Next ==
  \/ Tick \/ SetBack
  \/ \E r \in Reqs : auth_layer(r) \/ Reject(r) \/ verify_dpop(r)

Spec == Init /\ [][Next]_vars

-----------------------------------------------------------------------------
\* No proof is accepted twice as long as clock readings reach the set in the
\* order they were taken: what a sweep forgets, the freshness check refuses,
\* the clock skew a proof may have on top of its age included.
NoReplayInOrder == inOrder => \A j \in Jtis : accepted[j] < 2

\* What is held is bounded whatever the clock does: no entry is older, at the
\* reading the set was last asked with, than the window and one interval.
RetentionBounded ==
  \A j \in jtis : last - recorded_at[j] < Window + EVICTION_INTERVAL_SECONDS

\* src/src/auth/dpop.rs, JtiReplayStore: outside the window the freshness check
\* "has already rejected the proof before the store is ever consulted. So
\* nothing that still needs replay protection is droppable."
NoReplay == \A j \in Jtis : accepted[j] < 2
=============================================================================
