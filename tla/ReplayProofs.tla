---------------------------- MODULE ReplayProofs ----------------------------
(***************************************************************************)
(* Replay for every number of requests and proofs and every choice of the  *)
(* three durations: what a sweep forgets was too old to be accepted again, *)
(* and what it keeps is bounded.                                           *)
(***************************************************************************)
EXTENDS Replay, TLAPS

\* What each proof ever accepted owes its rejection to: it is held, or its iat
\* is too old for any reading from the last one on.  A reading that skewed the
\* proof into the future is the earliest it can have been recorded at.
HeldOrStale ==
  inOrder =>
    /\ last_eviction <= last
    /\ \A j \in jtis : recorded_at[j] <= last
    /\ \A j \in jtis : iat[j] - recorded_at[j] <= FUTURE_SKEW_SECONDS
    /\ \A j \in Jtis : accepted[j] < 2
    /\ \A j \in Jtis : accepted[j] = 1 =>
         j \in jtis \/ last - iat[j] > MAX_AGE_SECONDS

\* What is held was recorded within a window of the last sweep, and the set was
\* last asked within an interval of it, on either side.
NearSweep ==
  /\ last - last_eviction < EVICTION_INTERVAL_SECONDS
  /\ last_eviction - last < EVICTION_INTERVAL_SECONDS
  /\ \A j \in jtis : recorded_at[j] >= last_eviction - Window

\* The variables and the replay set are of their types in every state of every
\* behaviour of the authentication path.
THEOREM TypeCorrect == Spec => []TypeOK
<1>1. Init => TypeOK
  BY ReplayAssumption DEF Init, TypeOK
<1>2. TypeOK /\ [Next]_vars => TypeOK'
  <2> SUFFICES ASSUME TypeOK, [Next]_vars PROVE TypeOK'
    OBVIOUS
  <2> USE ReplayAssumption DEF TypeOK
  <2>1. CASE Tick
    BY <2>1 DEF Tick
  <2>2. CASE SetBack
    BY <2>2 DEF SetBack
  <2>3. ASSUME NEW r \in Reqs, auth_layer(r) PROVE TypeOK'
    BY <2>3 DEF auth_layer
  <2>4. ASSUME NEW r \in Reqs, Reject(r) PROVE TypeOK'
    BY <2>4 DEF Reject, Finish
  <2>5. ASSUME NEW r \in Reqs, verify_dpop(r) PROVE TypeOK'
    <3> DEFINE j == jti[r]  t == now_unix[r]
    <3>1. j \in Jtis /\ t \in Nat
      BY <2>5 DEF verify_dpop
    <3>2. /\ pc' \in [Reqs -> {"idle", "resolving"}]
          /\ jti' \in [Reqs -> Jtis \cup {NoJti}]
          /\ \A q \in Reqs : pc'[q] = "resolving" => jti'[q] \in Jtis
          /\ now_unix' \in [Reqs -> Nat]
          /\ clock' = clock /\ iat' = iat
      BY <2>5 DEF verify_dpop, Finish
    <3>3. CASE Fresh(j, t)
      <4>1. Retained(t) \subseteq Jtis
        BY DEF Retained
      <4>2. /\ record_or_reject(j, t)
            /\ accepted' = IF j \in Retained(t) \/ accepted[j] = 2 THEN accepted
                           ELSE [accepted EXCEPT ![j] = @ + 1]
            /\ last' = t
            /\ inOrder' = (inOrder /\ last <= t)
        BY <2>5, <3>3 DEF verify_dpop
      <4>3. jtis' \subseteq Jtis /\ recorded_at' \in [Jtis -> Nat]
              /\ last_eviction' \in Nat
        BY <3>1, <4>1, <4>2 DEF record_or_reject
      <4>4. accepted' \in [Jtis -> 0..2] /\ last' \in Nat /\ inOrder' \in BOOLEAN
        BY <3>1, <4>2
      <4> QED BY <3>2, <4>3, <4>4
    <3>4. CASE ~Fresh(j, t)
      BY <2>5, <3>2, <3>4 DEF verify_dpop
    <3> QED BY <3>3, <3>4
  <2>6. CASE UNCHANGED vars
    BY <2>6 DEF vars
  <2> QED BY <2>1, <2>2, <2>3, <2>4, <2>5, <2>6 DEF Next
<1> QED BY <1>1, <1>2, PTL DEF Spec

\* A step that leaves the replay set alone leaves both invariants alone.
LEMMA SetUntouched ==
  ASSUME UNCHANGED <<iat, jtis, recorded_at, last_eviction, accepted, last, inOrder>>
  PROVE  (HeldOrStale => HeldOrStale') /\ (NearSweep => NearSweep')
BY DEF HeldOrStale, NearSweep

\* The critical section of record_or_reject, for a proof that is fresh at the
\* reading it is recorded with, preserves both.
LEMMA RecordingPreserves ==
  ASSUME TypeOK, TypeOK', HeldOrStale, NearSweep,
         NEW j \in Jtis, NEW t \in Nat,
         Fresh(j, t), record_or_reject(j, t), UNCHANGED iat,
         accepted' = (IF j \in Retained(t) \/ accepted[j] = 2 THEN accepted
                      ELSE [accepted EXCEPT ![j] = @ + 1]),
         last' = t, inOrder' = (inOrder /\ last <= t)
  PROVE  HeldOrStale' /\ NearSweep'
<1> USE ReplayAssumption DEF TypeOK, record_or_reject, Window
<1>1. iat[j] \in Int /\ \A k \in Jtis : iat[k] \in Int
  OBVIOUS
<1>2. Retained(t) \subseteq jtis
  BY DEF Retained
<1>3. \A k \in jtis' : \/ k \in Retained(t) /\ recorded_at'[k] = recorded_at[k]
                       \/ k = j /\ recorded_at'[k] = t
  BY <1>2
<1>4. NearSweep'
  <2>1. CASE Sweeps(t)
    <3>1. last_eviction' = t
      BY <2>1
    <3>2. \A k \in Retained(t) : recorded_at[k] >= t - Window
      BY <2>1 DEF Retained
    <3> QED BY <1>2, <1>3, <3>1, <3>2 DEF NearSweep
  <2>2. CASE ~Sweeps(t)
    <3>1. last_eviction' = last_eviction
      BY <2>2
    <3>2. /\ t - last_eviction < EVICTION_INTERVAL_SECONDS
          /\ last_eviction - t < EVICTION_INTERVAL_SECONDS
      BY <2>2 DEF Sweeps
    <3> QED BY <1>2, <1>3, <3>1, <3>2 DEF NearSweep
  <2> QED BY <2>1, <2>2
<1>5. HeldOrStale'
  <2> SUFFICES ASSUME inOrder, last <= t
               PROVE  /\ last_eviction' <= last'
                      /\ \A k \in jtis' : recorded_at'[k] <= last'
                      /\ \A k \in jtis' :
                           iat'[k] - recorded_at'[k] <= FUTURE_SKEW_SECONDS
                      /\ \A k \in Jtis : accepted'[k] < 2
                      /\ \A k \in Jtis : accepted'[k] = 1 =>
                           k \in jtis' \/ last' - iat'[k] > MAX_AGE_SECONDS
    BY DEF HeldOrStale
  <2>1. last_eviction' <= last'
    BY DEF HeldOrStale
  <2>2. \A k \in jtis' : recorded_at'[k] <= last'
    BY <1>2, <1>3 DEF HeldOrStale
  <2>3. \A k \in jtis' : iat'[k] - recorded_at'[k] <= FUTURE_SKEW_SECONDS
    BY <1>1, <1>2, <1>3 DEF HeldOrStale, Fresh
  <2>4. \A k \in jtis : k \notin Retained(t) => t - iat[k] > MAX_AGE_SECONDS
    <3> SUFFICES ASSUME NEW k \in jtis, k \notin Retained(t)
                 PROVE  t - iat[k] > MAX_AGE_SECONDS
      OBVIOUS
    <3>1. recorded_at[k] < t - Window
      BY DEF Retained
    <3>2. iat[k] - recorded_at[k] <= FUTURE_SKEW_SECONDS
      BY DEF HeldOrStale
    <3> QED BY <1>1, <3>1, <3>2
  <2>5. accepted[j] < 2 /\ (j \notin Retained(t) => accepted[j] = 0)
    <3>1. accepted[j] < 2
      BY DEF HeldOrStale
    <3>2. ASSUME j \notin Retained(t), accepted[j] = 1 PROVE FALSE
      <4>1. t - iat[j] <= MAX_AGE_SECONDS
        BY DEF Fresh
      <4>2. j \in jtis
        BY <1>1, <3>2, <4>1 DEF HeldOrStale
      <4> QED BY <1>1, <2>4, <3>2, <4>1, <4>2
    <3> QED BY <3>1, <3>2
  <2>6. \A k \in Jtis : accepted'[k] < 2
    BY <2>5 DEF HeldOrStale
  <2>7. ASSUME NEW k \in Jtis, accepted'[k] = 1
        PROVE  k \in jtis' \/ last' - iat'[k] > MAX_AGE_SECONDS
    <3>1. CASE k = j
      BY <3>1
    <3>2. CASE k # j
      <4>1. accepted[k] = 1
        BY <2>7, <3>2
      <4>2. CASE k \in jtis
        BY <2>4, <4>2
      <4>3. CASE k \notin jtis
        BY <1>1, <4>1, <4>3 DEF HeldOrStale
      <4> QED BY <4>2, <4>3
    <3> QED BY <3>1, <3>2
  <2> QED BY <2>1, <2>2, <2>3, <2>6, <2>7
<1> QED BY <1>4, <1>5

\* Both invariants hold in every state.
THEOREM SetInvariant == Spec => [](HeldOrStale /\ NearSweep)
<1>1. Init => HeldOrStale /\ NearSweep
  BY ReplayAssumption DEF Init, HeldOrStale, NearSweep
<1>2. TypeOK /\ TypeOK' /\ HeldOrStale /\ NearSweep /\ [Next]_vars
        => HeldOrStale' /\ NearSweep'
  <2> SUFFICES ASSUME TypeOK, TypeOK', HeldOrStale, NearSweep, [Next]_vars
               PROVE  HeldOrStale' /\ NearSweep'
    OBVIOUS
  <2>1. CASE Tick
    BY <2>1, SetUntouched DEF Tick
  <2>2. CASE SetBack
    BY <2>2, SetUntouched DEF SetBack
  <2>3. ASSUME NEW r \in Reqs, auth_layer(r) PROVE HeldOrStale' /\ NearSweep'
    BY <2>3, SetUntouched DEF auth_layer
  <2>4. ASSUME NEW r \in Reqs, Reject(r) PROVE HeldOrStale' /\ NearSweep'
    BY <2>4, SetUntouched DEF Reject
  <2>5. ASSUME NEW r \in Reqs, verify_dpop(r) PROVE HeldOrStale' /\ NearSweep'
    <3>1. jti[r] \in Jtis /\ now_unix[r] \in Nat
      BY <2>5 DEF verify_dpop, TypeOK
    <3>2. CASE Fresh(jti[r], now_unix[r])
      <4>1. /\ record_or_reject(jti[r], now_unix[r])
            /\ UNCHANGED iat
            /\ accepted' = (IF jti[r] \in Retained(now_unix[r]) \/ accepted[jti[r]] = 2
                            THEN accepted ELSE [accepted EXCEPT ![jti[r]] = @ + 1])
            /\ last' = now_unix[r]
            /\ inOrder' = (inOrder /\ last <= now_unix[r])
        BY <2>5, <3>2 DEF verify_dpop
      <4> QED BY <3>1, <3>2, <4>1, RecordingPreserves
    <3>3. CASE ~Fresh(jti[r], now_unix[r])
      BY <2>5, <3>3, SetUntouched DEF verify_dpop
    <3> QED BY <3>2, <3>3
  <2>6. CASE UNCHANGED vars
    BY <2>6, SetUntouched DEF vars
  <2> QED BY <2>1, <2>2, <2>3, <2>4, <2>5, <2>6 DEF Next
<1> QED BY <1>1, <1>2, TypeCorrect, PTL DEF Spec

\* No proof is accepted twice while clock readings reach the replay set in
\* order, whatever the durations: the sweep of record_or_reject keeps everything
\* the freshness check of verify_dpop would still let through.
THEOREM ReplayIsRefused == Spec => []NoReplayInOrder
<1>1. HeldOrStale => NoReplayInOrder
  BY DEF HeldOrStale, NoReplayInOrder
<1> QED BY <1>1, SetInvariant, PTL

\* Nothing held is older than the window and one interval at the last reading,
\* even if the clock is set back: the interval is compared in absolute value.
THEOREM RetentionIsBounded == Spec => []RetentionBounded
<1>1. TypeOK /\ NearSweep => RetentionBounded
  BY ReplayAssumption DEF TypeOK, NearSweep, RetentionBounded, Window
<1> QED BY <1>1, TypeCorrect, SetInvariant, PTL
=============================================================================
