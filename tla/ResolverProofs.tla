--------------------------- MODULE ResolverProofs ---------------------------
(***************************************************************************)
(* What Resolver's caches promise, for any number of requests, documents   *)
(* and items and for every lifetime, timeout and bound.                    *)
(***************************************************************************)
EXTENDS Resolver, FiniteSetTheorems, TLAPS

\* What vouches now has vouched just now, and what a request or an entry may
\* still answer with is no older than its own clock says.
Fresh ==
  /\ \A d \in Docs : \A i \in published[d] : since[d][i] = 0
  /\ \A d \in held : \A i \in copy[d] :
       age[d] < CACHE_TTL => since[d][i] <= age[d] + TOTAL_TIMEOUT
  /\ \A r \in Reqs : pc[r] = "body" =>
       \A i \in got[r] : since[doc[r]][i] <= waited[r]
  /\ \A r \in Reqs : pc[r] = "clear" =>
       \A i \in got[r] : since[doc[r]][i] <= TOTAL_TIMEOUT

\* A fresh outcome is in one of the maps; a request that missed the cache
\* before anything settled finds it among the failures.
Answered(d) == d \in held /\ age[d] <= outcome[d]
Remembered(d) == d \in failed /\ failedAge[d] <= outcome[d]

Known ==
  /\ \A d \in Docs : outcome[d] < NEGATIVE_CACHE_TTL => Answered(d) \/ Remembered(d)
  /\ \A r \in Reqs : pc[r] = "clear" /\ doc[r] \in held => age[doc[r]] = 0
  /\ \A r \in Reqs : pc[r] = "negative" /\ raced[r] = FALSE =>
       /\ doc[r] \in held => age[doc[r]] = CACHE_TTL
       /\ outcome[doc[r]] < NEGATIVE_CACHE_TTL => Remembered(doc[r])
-----------------------------------------------------------------------------
\* insert_bounded keeps nothing it was not given, keeps d, and lets go only of
\* what expired or of an entry none that is live is older than.
LEMMA RoomIsMade ==
  ASSUME NEW m, NEW a, NEW ttl, NEW d, NEW s \in insert_bounded(m, a, ttl, d)
  PROVE  /\ d \in s
         /\ s \subseteq m \cup {d}
         /\ \A e \in m \ s : a[e] < ttl =>
              \A x \in m : a[x] < ttl => a[x] <= a[e]
BY DEF insert_bounded, Oldest

\* A finite map within its bound stays within it, and a live entry goes only
\* from a map all of whose entries are live.
LEMMA BoundIsKept ==
  ASSUME NEW m \in SUBSET Docs, Cardinality(m) <= MAX_CACHE_ENTRIES,
         NEW a, NEW ttl, NEW d \in Docs, NEW s \in insert_bounded(m, a, ttl, d)
  PROVE  /\ Cardinality(s) <= MAX_CACHE_ENTRIES
         /\ \A e \in m \ s : a[e] < ttl => \A x \in m : a[x] < ttl
<1> DEFINE live == {e \in m : a[e] < ttl}
<1>0. MAX_CACHE_ENTRIES \in Nat \ {0}
  BY ResolverAssumption
<1>1. IsFiniteSet(m) /\ Cardinality(m) \in Nat
  BY FS_Subset, FS_CardinalityType, ResolverAssumption
<1>2. IsFiniteSet(live) /\ Cardinality(live) \in Nat
      /\ Cardinality(live) <= Cardinality(m)
      /\ (Cardinality(m) = Cardinality(live) => m = live)
  <2>1. live \in SUBSET m
    OBVIOUS
  <2> HIDE DEF live
  <2> QED BY <1>1, <2>1, FS_Subset, FS_CardinalityType
<1>3. CASE Cardinality(m) < MAX_CACHE_ENTRIES \/ d \in m
  <2>1. s = m \cup {d}
    BY <1>3 DEF insert_bounded
  <2>2. Cardinality(s) <= MAX_CACHE_ENTRIES
    <3>1. Cardinality(s) = IF d \in m THEN Cardinality(m) ELSE Cardinality(m) + 1
      BY <1>1, <2>1, FS_AddElement
    <3> QED BY <1>0, <1>1, <1>3, <3>1
  <2> QED BY <2>1, <2>2
<1>4. CASE ~(Cardinality(m) < MAX_CACHE_ENTRIES \/ d \in m)
           /\ Cardinality(live) < MAX_CACHE_ENTRIES
  <2>1. s = live \cup {d}
    BY <1>4 DEF insert_bounded
  <2>2. Cardinality(s) <= MAX_CACHE_ENTRIES
    <3> HIDE DEF live
    <3>1. Cardinality(s) = IF d \in live THEN Cardinality(live)
                           ELSE Cardinality(live) + 1
      BY <1>2, <2>1, FS_AddElement
    <3> QED BY <1>0, <1>2, <1>4, <3>1
  <2> QED BY <2>1, <2>2
<1>5. CASE ~(Cardinality(m) < MAX_CACHE_ENTRIES \/ d \in m)
           /\ ~(Cardinality(live) < MAX_CACHE_ENTRIES)
  <2>1. PICK o \in Oldest(live, a) : s = (live \ {o}) \cup {d}
    BY <1>5 DEF insert_bounded
  <2>2. o \in live
    BY <2>1 DEF Oldest
  <2>3. m = live /\ Cardinality(live) = MAX_CACHE_ENTRIES
    <3> HIDE DEF live
    <3> QED BY <1>0, <1>1, <1>2, <1>5
  <2>4. Cardinality(s) <= MAX_CACHE_ENTRIES
    <3> HIDE DEF live
    <3>1. IsFiniteSet(live \ {o})
          /\ Cardinality(live \ {o}) = Cardinality(live) - 1
      BY <1>2, <2>2, FS_RemoveElement
    <3>2. Cardinality(s) \in {Cardinality(live \ {o}), Cardinality(live \ {o}) + 1}
      BY <2>1, <3>1, FS_AddElement
    <3> QED BY <1>0, <1>2, <2>3, <3>1, <3>2
  <2>5. \A x \in m : a[x] < ttl
    BY <2>3
  <2> QED BY <2>4, <2>5
<1> QED BY <1>3, <1>4, <1>5

\* Older counts up to its cap.
LEMMA OlderCounts ==
  ASSUME NEW cap \in Nat, NEW a \in 0..cap
  PROVE  /\ Older(a, cap) \in 0..cap
         /\ a <= Older(a, cap) /\ Older(a, cap) <= a + 1
         /\ a < cap => Older(a, cap) = a + 1
BY DEF Older

\* The constants are numbers in the order the code has them.
LEMMA Numbers ==
  /\ CACHE_TTL \in Nat /\ CACHE_TTL > 0
  /\ NEGATIVE_CACHE_TTL \in Nat /\ NEGATIVE_CACHE_TTL > 0
  /\ NEGATIVE_CACHE_TTL <= CACHE_TTL
  /\ TOTAL_TIMEOUT \in Nat
  /\ Horizon \in Nat /\ Horizon = CACHE_TTL + TOTAL_TIMEOUT
BY ResolverAssumption DEF Horizon

\* What Return assigns has its type.
LEMMA ReturnTypes ==
  ASSUME TypeOK, NEW r \in Reqs,
         NEW what \in {"none", "vouched", "refused"}, Return(r, what)
  PROVE  /\ pc' \in [Reqs -> Labels]
         /\ reply' \in [Reqs -> {"none", "vouched", "refused"}]
         /\ waited' \in [Reqs -> 0..TOTAL_TIMEOUT]
         /\ got' \in [Reqs -> SUBSET Items]
<1>1. waited' \in [Reqs -> 0..TOTAL_TIMEOUT]
  BY Numbers DEF Return, TypeOK
<1> QED BY <1>1 DEF Return, Goto, TypeOK, Labels

\* Every step keeps the types.
LEMMA TypeStep == TypeOK /\ [Next]_vars => TypeOK'
<1> SUFFICES ASSUME TypeOK, [Next]_vars PROVE TypeOK'
  OBVIOUS
<1> USE Numbers
<1>1. ASSUME NEW r \in Reqs, Ask(r) PROVE TypeOK'
  <2>1. doc' \in [Reqs -> Docs] /\ item' \in [Reqs -> Items]
    BY <1>1 DEF Ask, TypeOK
  <2>2. pc' \in [Reqs -> Labels]
        /\ reply' \in [Reqs -> {"none", "vouched", "refused"}]
    BY <1>1 DEF Ask, Goto, TypeOK, Labels
  <2>3. UNCHANGED <<published, held, copy, age, failed, failedAge, waited, got,
                    since, outcome, raced>>
    BY <1>1 DEF Ask, caches
  <2> QED BY <2>1, <2>2, <2>3 DEF TypeOK
<1>2. ASSUME NEW r \in Reqs, LookCache(r) PROVE TypeOK'
  <2>1. /\ pc' \in [Reqs -> Labels]
        /\ reply' \in [Reqs -> {"none", "vouched", "refused"}]
        /\ waited' \in [Reqs -> 0..TOTAL_TIMEOUT]
        /\ got' \in [Reqs -> SUBSET Items]
    <3>1. CASE Judge(r, copy[doc[r]])
      BY <3>1, ReturnTypes DEF Judge
    <3>2. CASE Goto(r, "negative") /\ UNCHANGED <<reply, waited, got>>
      BY <3>2 DEF Goto, TypeOK, Labels
    <3> QED BY <1>2, <3>1, <3>2 DEF LookCache
  <2> QED BY <1>2, <2>1 DEF TypeOK, LookCache, caches, request
<1>3. ASSUME NEW r \in Reqs, LookNegative(r) PROVE TypeOK'
  <2>1. /\ pc' \in [Reqs -> Labels]
        /\ reply' \in [Reqs -> {"none", "vouched", "refused"}]
        /\ waited' \in [Reqs -> 0..TOTAL_TIMEOUT]
        /\ got' \in [Reqs -> SUBSET Items]
    <3>1. CASE Return(r, "refused")
      BY <3>1, ReturnTypes
    <3>2. CASE Goto(r, "connect") /\ UNCHANGED <<reply, waited, got>>
      BY <3>2 DEF Goto, TypeOK, Labels
    <3> QED BY <1>3, <3>1, <3>2 DEF LookNegative
  <2> QED BY <1>3, <2>1 DEF TypeOK, LookNegative, caches, request
<1>4. ASSUME NEW r \in Reqs, Connect(r) \/ Serve(r) \/ Cancel(r) PROVE TypeOK'
  <2>1. CASE Connect(r) \/ Serve(r)
    BY <2>1 DEF TypeOK, Connect, Serve, Goto, Labels, caches, request
  <2>2. CASE Cancel(r)
    <3>1. Return(r, "none")
      BY <2>2 DEF Cancel
    <3> QED BY <2>2, <3>1, ReturnTypes DEF TypeOK, Cancel, caches, request
  <2> QED BY <1>4, <2>1, <2>2
<1>5. ASSUME NEW r \in Reqs, Insert(r) PROVE TypeOK'
  <2>1. held' \subseteq Docs
    BY <1>5, RoomIsMade DEF Insert, TypeOK
  <2>2. copy' \in [Docs -> SUBSET Items] /\ age' \in [Docs -> 0..CACHE_TTL]
    BY <1>5 DEF Insert, TypeOK
  <2>3. outcome' \in [Docs -> 0..NEGATIVE_CACHE_TTL] /\ raced' \in [Reqs -> BOOLEAN]
    BY <1>5 DEF Insert, Settle, TypeOK
  <2> QED BY <1>5, <2>1, <2>2, <2>3 DEF Insert, Goto, TypeOK, Labels, request
<1>6. ASSUME NEW r \in Reqs, Clear(r) PROVE TypeOK'
  <2>1. \E what \in {"vouched", "refused"} : Return(r, what)
    BY <1>6 DEF Clear, Judge
  <2>2. failedAge' \in [Docs -> 0..NEGATIVE_CACHE_TTL]
        /\ outcome' \in [Docs -> 0..NEGATIVE_CACHE_TTL]
    BY <1>6 DEF Clear, TypeOK
  <2> QED BY <1>6, <2>1, <2>2, ReturnTypes DEF Clear, TypeOK, request
<1>7. ASSUME NEW r \in Reqs, Fail(r) PROVE TypeOK'
  <2>1. failed' \subseteq Docs
    BY <1>7, RoomIsMade DEF Fail, TypeOK
  <2>2. failedAge' \in [Docs -> 0..NEGATIVE_CACHE_TTL]
    BY <1>7 DEF Fail, TypeOK
  <2>3. outcome' \in [Docs -> 0..NEGATIVE_CACHE_TTL] /\ raced' \in [Reqs -> BOOLEAN]
    BY <1>7 DEF Fail, Settle, TypeOK
  <2>4. Return(r, "refused")
    BY <1>7 DEF Fail
  <2> QED BY <1>7, <2>1, <2>2, <2>3, <2>4, ReturnTypes DEF Fail, TypeOK, request
<1>8. ASSUME NEW d \in Docs, Edit(d) PROVE TypeOK'
  <2>1. PICK s \in SUBSET Items :
          /\ published' = [published EXCEPT ![d] = s]
          /\ since' = [since EXCEPT ![d] = [i \in Items |->
                         IF i \in s THEN 0 ELSE since[d][i]]]
    BY <1>8 DEF Edit
  <2>2. since' \in [Docs -> [Items -> 0..Horizon]]
    BY <2>1 DEF TypeOK
  <2> QED BY <1>8, <2>1, <2>2 DEF Edit, TypeOK, caches, request
<1>9. ASSUME Tick PROVE TypeOK'
  <2>1. age' \in [Docs -> 0..CACHE_TTL]
    BY <1>9, OlderCounts DEF Tick, TypeOK
  <2>2. failedAge' \in [Docs -> 0..NEGATIVE_CACHE_TTL]
    BY <1>9, OlderCounts DEF Tick, TypeOK
  <2>3. waited' \in [Reqs -> 0..TOTAL_TIMEOUT]
    BY <1>9 DEF Tick, TypeOK
  <2>4. since' \in [Docs -> [Items -> 0..Horizon]]
    <3>1. ASSUME NEW d \in Docs, NEW i \in Items
          PROVE  (IF i \in published[d] THEN 0 ELSE Older(since[d][i], Horizon))
                    \in 0..Horizon
      <4>1. since[d][i] \in 0..Horizon
        BY DEF TypeOK
      <4>2. Older(since[d][i], Horizon) \in 0..Horizon
        BY <4>1 DEF Older
      <4> QED BY <4>2
    <3> QED BY <1>9, <3>1 DEF Tick
  <2>5. outcome' \in [Docs -> 0..NEGATIVE_CACHE_TTL]
    BY <1>9, OlderCounts DEF Tick, TypeOK
  <2> QED BY <1>9, <2>1, <2>2, <2>3, <2>4, <2>5 DEF Tick, TypeOK, request
<1>10. CASE UNCHANGED vars
  BY <1>10 DEF TypeOK, vars
<1> QED BY <1>1, <1>2, <1>3, <1>4, <1>5, <1>6, <1>7, <1>8, <1>9, <1>10 DEF Next, Step

\* They hold of two empty caches.
LEMMA TypeInit == Init => TypeOK
BY Numbers DEF Init, TypeOK, Labels

\* Every variable of the two resolvers keeps its type: no age passes its cap.
THEOREM TypeCorrect == Spec => []TypeOK
BY TypeInit, TypeStep, PTL DEF Spec

-----------------------------------------------------------------------------
\* Steps of one request: what other requests rest on is left alone.
LEMMA FreshStep == TypeOK /\ Fresh /\ [Next]_vars => Fresh'
<1> SUFFICES ASSUME TypeOK, Fresh, [Next]_vars PROVE Fresh'
  OBVIOUS
<1> USE Numbers
<1>1. ASSUME NEW r \in Reqs, Ask(r) PROVE Fresh'
  BY <1>1 DEF TypeOK, Fresh, Ask, Goto, caches
<1>2. ASSUME NEW r \in Reqs, LookCache(r) PROVE Fresh'
  BY <1>2 DEF TypeOK, Fresh, LookCache, Judge, Return, Goto, caches, request
<1>3. ASSUME NEW r \in Reqs, LookNegative(r) \/ Connect(r) PROVE Fresh'
  BY <1>3 DEF TypeOK, Fresh, LookNegative, Connect, Return, Goto, caches, request
<1>4. ASSUME NEW r \in Reqs, Serve(r) PROVE Fresh'
  BY <1>4 DEF TypeOK, Fresh, Serve, Goto, caches, request
<1>5. ASSUME NEW r \in Reqs, Insert(r) PROVE Fresh'
  <2>1. held' \subseteq held \cup {doc[r]}
    BY <1>5, RoomIsMade DEF Insert
  <2>2. \A i \in got[r] : since[doc[r]][i] <= TOTAL_TIMEOUT
    BY <1>5 DEF Insert, TypeOK, Fresh
  <2>3. ASSUME NEW d \in held', NEW i \in copy'[d], age'[d] < CACHE_TTL
        PROVE  since'[d][i] <= age'[d] + TOTAL_TIMEOUT
    <3>1. CASE d = doc[r]
      BY <1>5, <2>2, <2>3, <3>1 DEF Insert, TypeOK
    <3>2. CASE d # doc[r]
      BY <1>5, <2>1, <2>3, <3>2 DEF Insert, TypeOK, Fresh
    <3> QED BY <3>1, <3>2
  <2> QED BY <1>5, <2>2, <2>3 DEF Insert, Goto, TypeOK, Fresh, request
<1>6. ASSUME NEW r \in Reqs, Clear(r) PROVE Fresh'
  BY <1>6 DEF TypeOK, Fresh, Clear, Judge, Return, Goto, request
<1>7. ASSUME NEW r \in Reqs, Fail(r) \/ Cancel(r) PROVE Fresh'
  BY <1>7 DEF TypeOK, Fresh, Fail, Cancel, Return, Goto, caches, request
<1>8. ASSUME NEW d \in Docs, Edit(d) PROVE Fresh'
  <2>1. PICK s \in SUBSET Items :
          /\ published' = [published EXCEPT ![d] = s]
          /\ since' = [since EXCEPT ![d] = [i \in Items |->
                         IF i \in s THEN 0 ELSE since[d][i]]]
    BY <1>8 DEF Edit
  <2>2. \A e \in Docs, i \in Items : since'[e][i] <= since[e][i]
    BY <2>1 DEF TypeOK
  <2>3. \A e \in Docs : \A i \in published'[e] : since'[e][i] = 0
    BY <2>1 DEF TypeOK, Fresh
  <2>4. UNCHANGED <<held, copy, age, pc, doc, waited, got>>
    BY <1>8 DEF Edit, caches, request
  <2>5. \A e \in Docs, i \in Items : since[e][i] \in Nat /\ since'[e][i] \in Nat
    BY <2>1 DEF TypeOK
  <2> QED BY <2>2, <2>3, <2>4, <2>5 DEF TypeOK, Fresh
<1>9. ASSUME Tick PROVE Fresh'
  <2>1. \A d \in Docs, i \in Items :
          /\ since[d][i] \in Nat /\ since'[d][i] \in Nat
          /\ since'[d][i] <= since[d][i] + 1
          /\ i \in published[d] => since'[d][i] = 0
    BY <1>9 DEF Tick, Older, TypeOK
  <2>2. \A d \in held : age'[d] < CACHE_TTL => age'[d] = age[d] + 1
    BY <1>9 DEF Tick, Older, TypeOK
  <2>3. \A r \in Reqs : pc[r] = "body" => waited'[r] = waited[r] + 1
    BY <1>9 DEF Tick, TypeOK
  <2>4. UNCHANGED <<published, held, copy, pc, doc, got>>
    BY <1>9 DEF Tick, request
  <2>5. \A r \in Reqs : pc[r] # "clear"
    BY <1>9 DEF Tick
  <2>6. \A d \in held : \A i \in copy[d] :
          age'[d] < CACHE_TTL => since'[d][i] <= age'[d] + TOTAL_TIMEOUT
    <3> SUFFICES ASSUME NEW d \in held, NEW i \in copy[d], age'[d] < CACHE_TTL
                 PROVE  since'[d][i] <= age'[d] + TOTAL_TIMEOUT
      OBVIOUS
    <3>1. d \in Docs /\ i \in Items /\ age[d] \in Nat
      BY DEF TypeOK
    <3>2. age'[d] = age[d] + 1
      BY <2>2
    <3>3. since[d][i] <= age[d] + TOTAL_TIMEOUT
      BY <3>1, <3>2 DEF Fresh
    <3>4. /\ since[d][i] \in Nat /\ since'[d][i] \in Nat
          /\ since'[d][i] <= since[d][i] + 1
      BY <2>1, <3>1
    <3> QED BY <3>1, <3>2, <3>3, <3>4
  <2>7. \A r \in Reqs : pc[r] = "body" =>
          \A i \in got[r] : since'[doc[r]][i] <= waited'[r]
    BY <2>1, <2>3 DEF TypeOK, Fresh
  <2> QED BY <2>1, <2>4, <2>5, <2>6, <2>7 DEF TypeOK, Fresh
<1>10. CASE UNCHANGED vars
  BY <1>10 DEF Fresh, vars
<1> QED BY <1>1, <1>2, <1>3, <1>4, <1>5, <1>6, <1>7, <1>8, <1>9, <1>10 DEF Next, Step

\* Nothing is cached at first.
LEMMA FreshInit == Init => Fresh
BY DEF Init, Fresh

\* Nobody is told "vouched" but within the invariant's two ages.
LEMMA VouchedIsFresh ==
  ASSUME TypeOK, Fresh, [Next]_vars, NEW r \in Reqs,
         pc[r] # "idle", pc'[r] = "idle", reply'[r] = "vouched"
  PROVE  since[doc[r]][item[r]] < Horizon
<1> USE Numbers
<1>1. since[doc[r]][item[r]] \in Nat /\ doc[r] \in Docs
  BY DEF TypeOK
<1>2. CASE LookCache(r)
  <2>1. doc[r] \in held /\ age[doc[r]] < CACHE_TTL /\ item[r] \in copy[doc[r]]
    BY <1>2 DEF LookCache, Judge, Return, Goto, TypeOK
  <2>2. since[doc[r]][item[r]] <= age[doc[r]] + TOTAL_TIMEOUT
    BY <2>1 DEF Fresh
  <2>3. age[doc[r]] \in Nat
    BY <1>1 DEF TypeOK
  <2> QED BY <1>1, <2>1, <2>2, <2>3
<1>3. CASE Clear(r)
  <2>1. pc[r] = "clear" /\ item[r] \in got[r]
    BY <1>3 DEF Clear, Judge, Return, TypeOK
  <2>2. since[doc[r]][item[r]] <= TOTAL_TIMEOUT
    BY <2>1 DEF Fresh
  <2> QED BY <1>1, <2>2
<1>4. LookCache(r) \/ Clear(r)
  <2>1. ASSUME NEW q \in Reqs, Ask(q) \/ Connect(q) \/ Serve(q) \/ Insert(q) PROVE FALSE
    BY <2>1 DEF Ask, Connect, Serve, Insert, Goto, TypeOK
  <2>2. ASSUME NEW q \in Reqs, Fail(q) \/ Cancel(q) \/ LookNegative(q) PROVE FALSE
    BY <2>2 DEF Fail, Cancel, LookNegative, Return, Goto, TypeOK
  <2>3. ASSUME NEW q \in Reqs, LookCache(q) \/ Clear(q) PROVE q = r
    BY <2>3 DEF LookCache, Clear, Judge, Return, Goto, TypeOK
  <2>4. ASSUME (\E d \in Docs : Edit(d)) \/ Tick \/ UNCHANGED vars PROVE FALSE
    BY <2>4 DEF Edit, Tick, vars
  <2> QED BY <2>1, <2>2, <2>3, <2>4 DEF Next, Step
<1> QED BY <1>2, <1>3, <1>4

\* A withdrawn key or issuer is honoured for one cache lifetime and one GET at
\* most, for every interleaving of any number of requests.
THEOREM WithdrawalIsHonoured == Spec => WithdrawalTakesEffect
<1>1. TypeOK /\ Fresh /\ [Next]_vars =>
        [\A r \in Reqs :
           pc[r] # "idle" /\ pc'[r] = "idle" /\ reply'[r] = "vouched"
             => since[doc[r]][item[r]] < Horizon]_vars
  BY VouchedIsFresh
<1> QED BY <1>1, TypeInit, TypeStep, FreshInit, FreshStep, PTL
        DEF Spec, WithdrawalTakesEffect

-----------------------------------------------------------------------------
\* No outcome that is still fresh gets lost between the two maps.
LEMMA KnownStep == TypeOK /\ Known /\ [Next]_vars => Known'
<1> SUFFICES ASSUME TypeOK, Known, [Next]_vars PROVE Known'
  OBVIOUS
<1> USE Numbers DEF Answered, Remembered
<1>1. ASSUME NEW r \in Reqs, Ask(r) PROVE Known'
  BY <1>1 DEF TypeOK, Known, Ask, Goto, caches
<1>2. ASSUME NEW r \in Reqs, LookCache(r) PROVE Known'
  <2>1. UNCHANGED <<held, age, failed, failedAge, outcome, doc>>
    BY <1>2 DEF LookCache, caches, request
  <2>2. \A q \in Reqs \ {r} : pc'[q] = pc[q] /\ raced'[q] = raced[q]
    BY <1>2 DEF LookCache, Judge, Return, Goto, TypeOK
  <2>3. pc'[r] \in {"idle", "negative"}
    BY <1>2 DEF LookCache, Judge, Return, Goto, TypeOK
  <2>4. ASSUME pc'[r] = "negative"
        PROVE  /\ doc[r] \in held => age[doc[r]] = CACHE_TTL
               /\ outcome[doc[r]] < NEGATIVE_CACHE_TTL => Remembered(doc[r])
    <3>1. ~(doc[r] \in held /\ age[doc[r]] < CACHE_TTL)
      BY <1>2, <2>4 DEF LookCache, Judge, Return, Goto, TypeOK
    <3>2. doc[r] \in Docs /\ age[doc[r]] \in 0..CACHE_TTL
          /\ outcome[doc[r]] \in Nat
      BY DEF TypeOK
    <3> QED BY <3>1, <3>2 DEF Known
  <2> QED BY <2>1, <2>2, <2>3, <2>4 DEF Known
<1>3. ASSUME NEW r \in Reqs, LookNegative(r) \/ Connect(r) \/ Serve(r) \/ Cancel(r)
      PROVE Known'
  BY <1>3 DEF TypeOK, Known, LookNegative, Connect, Serve, Cancel, Return, Goto,
              caches, request
<1>4. ASSUME NEW r \in Reqs, Insert(r) PROVE Known'
  <2>1. /\ held' \subseteq held \cup {doc[r]} /\ doc[r] \in held'
        /\ doc[r] \in Docs
    BY <1>4, RoomIsMade DEF Insert, TypeOK
  <2>2. \A d \in Docs : d # doc[r] /\ d \in held' => d \in held /\ age'[d] = age[d]
    BY <1>4, <2>1 DEF Insert, TypeOK
  <2>3. age'[doc[r]] = 0 /\ outcome'[doc[r]] = 0
    BY <1>4, <2>1 DEF Insert, Settle, TypeOK
  <2>4. UNCHANGED <<failed, failedAge, doc>>
    BY <1>4 DEF Insert, request
  <2>5. \A d \in Docs \ {doc[r]} :
          /\ outcome'[d] \in {outcome[d], NEGATIVE_CACHE_TTL}
          /\ d \in held \ held' /\ age[d] < CACHE_TTL
               => outcome'[d] = NEGATIVE_CACHE_TTL
    BY <1>4 DEF Insert, Settle, TypeOK
  <2>6. ASSUME NEW d \in Docs, outcome'[d] < NEGATIVE_CACHE_TTL
        PROVE  Answered(d)' \/ Remembered(d)'
    <3>1. CASE d = doc[r]
      BY <2>1, <2>3, <3>1
    <3>2. CASE d # doc[r]
      <4>1. outcome'[d] = outcome[d] /\ outcome[d] \in Nat /\ age[d] \in Nat
        BY <2>5, <2>6, <3>2 DEF TypeOK
      <4>2. CASE Answered(d)
        <5>1. d \in held'
          BY <2>5, <2>6, <3>2, <4>1, <4>2
        <5> QED BY <2>2, <3>2, <4>1, <4>2, <5>1
      <4>3. CASE Remembered(d)
        BY <2>4, <4>1, <4>3
      <4> QED BY <2>6, <4>1, <4>2, <4>3 DEF Known
    <3> QED BY <3>1, <3>2
  <2>7. ASSUME NEW q \in Reqs, pc'[q] = "clear", doc'[q] \in held'
        PROVE  age'[doc'[q]] = 0
    <3>1. doc'[q] = doc[q] /\ doc[q] \in Docs
      BY <2>4 DEF TypeOK
    <3>2. CASE doc[q] = doc[r]
      BY <2>3, <3>1, <3>2
    <3>3. CASE doc[q] # doc[r]
      <4>1. pc[q] = "clear"
        BY <1>4, <2>7, <3>3 DEF Insert, Goto, TypeOK
      <4> QED BY <2>2, <2>7, <3>1, <3>3, <4>1 DEF Known
    <3> QED BY <3>2, <3>3
  <2>8. ASSUME NEW q \in Reqs, pc'[q] = "negative", raced'[q] = FALSE
        PROVE  /\ doc'[q] \in held' => age'[doc'[q]] = CACHE_TTL
               /\ outcome'[doc'[q]] < NEGATIVE_CACHE_TTL => Remembered(doc[q])'
    <3>1. pc[q] = "negative" /\ raced[q] = FALSE /\ doc[q] # doc[r]
      BY <1>4, <2>8 DEF Insert, Settle, Goto, TypeOK
    <3>2. doc'[q] = doc[q] /\ doc[q] \in Docs
      BY <2>4 DEF TypeOK
    <3>3. doc[q] \in held' => age'[doc[q]] = CACHE_TTL
      BY <2>2, <3>1, <3>2 DEF Known
    <3>4. ASSUME outcome'[doc[q]] < NEGATIVE_CACHE_TTL
          PROVE  Remembered(doc[q]) /\ outcome'[doc[q]] = outcome[doc[q]]
      BY <2>5, <3>1, <3>2, <3>4 DEF Known
    <3> QED BY <2>4, <3>2, <3>3, <3>4
  <2> QED BY <2>6, <2>7, <2>8 DEF Known
<1>5. ASSUME NEW r \in Reqs, Clear(r) PROVE Known'
  <2>1. pc[r] = "clear" /\ doc[r] \in Docs
    BY <1>5 DEF Clear, TypeOK
  <2>2. UNCHANGED <<held, age, doc, raced>>
    BY <1>5 DEF Clear, request
  <2>3. \A q \in Reqs : pc'[q] \in {"clear", "negative"} => pc'[q] = pc[q]
    BY <1>5 DEF Clear, Judge, Return, Goto, TypeOK
  <2>4. \A d \in Docs \ {doc[r]} :
          /\ d \in failed' <=> d \in failed
          /\ failedAge'[d] = failedAge[d] /\ outcome'[d] = outcome[d]
    BY <1>5 DEF Clear, TypeOK
  <2>5. CASE doc[r] \in held
    <3>1. age[doc[r]] = 0 /\ outcome' = outcome
      BY <1>5, <2>1, <2>5 DEF Known, Clear
    <3>2. ASSUME NEW d \in Docs, outcome'[d] < NEGATIVE_CACHE_TTL
          PROVE  Answered(d)' \/ Remembered(d)'
      <4>1. CASE d = doc[r]
        BY <2>2, <2>5, <3>1, <4>1 DEF TypeOK
      <4>2. CASE d # doc[r]
        BY <2>2, <2>4, <3>2, <4>2 DEF Known
      <4> QED BY <4>1, <4>2
    <3>3. ASSUME NEW q \in Reqs, pc'[q] = "negative", raced'[q] = FALSE
          PROVE  /\ doc'[q] \in held' => age'[doc'[q]] = CACHE_TTL
                 /\ outcome'[doc'[q]] < NEGATIVE_CACHE_TTL => Remembered(doc[q])'
      <4>1. pc[q] = "negative" /\ raced[q] = FALSE /\ doc[q] \in Docs
        BY <2>2, <2>3, <3>3 DEF TypeOK
      <4>2. doc[q] # doc[r]
        BY <2>5, <3>1, <4>1 DEF Known
      <4> QED BY <2>2, <2>4, <4>1, <4>2 DEF Known
    <3> QED BY <2>2, <2>3, <3>2, <3>3 DEF Known
  <2>6. CASE doc[r] \notin held
    <3>1. outcome'[doc[r]] = NEGATIVE_CACHE_TTL
      BY <1>5, <2>1, <2>6 DEF Clear, TypeOK
    <3>2. ASSUME NEW d \in Docs, outcome'[d] < NEGATIVE_CACHE_TTL
          PROVE  Answered(d)' \/ Remembered(d)'
      BY <2>2, <2>4, <3>1, <3>2 DEF Known
    <3>3. ASSUME NEW q \in Reqs, pc'[q] = "negative", raced'[q] = FALSE
          PROVE  /\ doc'[q] \in held' => age'[doc'[q]] = CACHE_TTL
                 /\ outcome'[doc'[q]] < NEGATIVE_CACHE_TTL => Remembered(doc[q])'
      <4>1. pc[q] = "negative" /\ raced[q] = FALSE /\ doc[q] \in Docs
        BY <2>2, <2>3, <3>3 DEF TypeOK
      <4> QED BY <2>2, <2>4, <3>1, <4>1 DEF Known
    <3> QED BY <2>2, <2>3, <3>2, <3>3 DEF Known
  <2> QED BY <2>5, <2>6
<1>6. ASSUME NEW r \in Reqs, Fail(r) PROVE Known'
  <2>1. /\ failed' \subseteq failed \cup {doc[r]} /\ doc[r] \in failed'
        /\ doc[r] \in Docs
    BY <1>6, RoomIsMade DEF Fail, TypeOK
  <2>2. \A d \in Docs : d # doc[r] /\ d \in failed'
          => d \in failed /\ failedAge'[d] = failedAge[d]
    BY <1>6, <2>1 DEF Fail, TypeOK
  <2>3. failedAge'[doc[r]] = 0 /\ outcome'[doc[r]] = 0
    BY <1>6, <2>1 DEF Fail, Settle, TypeOK
  <2>4. UNCHANGED <<held, age, doc>>
    BY <1>6 DEF Fail, request
  <2>5. \A d \in Docs \ {doc[r]} :
          /\ outcome'[d] \in {outcome[d], NEGATIVE_CACHE_TTL}
          /\ d \in failed \ failed' /\ failedAge[d] < NEGATIVE_CACHE_TTL
               => outcome'[d] = NEGATIVE_CACHE_TTL
    BY <1>6 DEF Fail, Settle, TypeOK
  <2>6. ASSUME NEW d \in Docs \ {doc[r]}, outcome'[d] < NEGATIVE_CACHE_TTL
        PROVE  /\ outcome'[d] = outcome[d]
               /\ Remembered(d) => Remembered(d)'
    <3>1. outcome'[d] = outcome[d] /\ outcome[d] \in Nat /\ failedAge[d] \in Nat
      BY <2>5, <2>6 DEF TypeOK
    <3>2. ASSUME Remembered(d) PROVE Remembered(d)'
      <4>1. d \in failed'
        BY <2>5, <2>6, <3>1, <3>2
      <4> QED BY <2>2, <3>1, <3>2, <4>1
    <3> QED BY <3>1, <3>2
  <2>7. ASSUME NEW d \in Docs, outcome'[d] < NEGATIVE_CACHE_TTL
        PROVE  Answered(d)' \/ Remembered(d)'
    <3>1. CASE d = doc[r]
      BY <2>1, <2>3, <3>1
    <3>2. CASE d # doc[r]
      BY <2>4, <2>6, <2>7, <3>2 DEF Known
    <3> QED BY <3>1, <3>2
  <2>8. \A q \in Reqs : pc'[q] \in {"clear", "negative"} => pc'[q] = pc[q]
    BY <1>6 DEF Fail, Return, Goto, TypeOK
  <2>9. ASSUME NEW q \in Reqs, pc'[q] = "negative", raced'[q] = FALSE
        PROVE  /\ doc'[q] \in held' => age'[doc'[q]] = CACHE_TTL
               /\ outcome'[doc'[q]] < NEGATIVE_CACHE_TTL => Remembered(doc[q])'
    <3>1. pc[q] = "negative" /\ raced[q] = FALSE /\ doc[q] \in Docs \ {doc[r]}
      BY <1>6, <2>8, <2>9 DEF Fail, Settle, TypeOK
    <3> QED BY <2>4, <2>6, <3>1 DEF Known
  <2> QED BY <2>4, <2>7, <2>8, <2>9 DEF Known
<1>7. ASSUME NEW d \in Docs, Edit(d) PROVE Known'
  BY <1>7 DEF Known, Edit, caches, request
<1>8. ASSUME Tick PROVE Known'
  <2>1. \A d \in Docs :
          outcome'[d] < NEGATIVE_CACHE_TTL =>
            outcome'[d] = outcome[d] + 1 /\ outcome[d] < NEGATIVE_CACHE_TTL
    BY <1>8 DEF Tick, Older, TypeOK
  <2>2. \A d \in held : age'[d] <= age[d] + 1 /\ (age[d] = CACHE_TTL => age'[d] = CACHE_TTL)
    BY <1>8 DEF Tick, Older, TypeOK
  <2>3. \A d \in failed : failedAge'[d] <= failedAge[d] + 1
    BY <1>8 DEF Tick, Older, TypeOK
  <2>4. UNCHANGED <<held, failed, pc, doc, raced>>
    BY <1>8 DEF Tick, request
  <2>5. \A r \in Reqs : pc[r] # "clear"
    BY <1>8 DEF Tick
  <2>6. \A d \in Docs : /\ age[d] \in Nat /\ age'[d] \in Nat
                        /\ failedAge[d] \in Nat /\ failedAge'[d] \in Nat
                        /\ outcome[d] \in Nat /\ outcome'[d] \in Nat
    BY <1>8 DEF Tick, Older, TypeOK
  <2>7. ASSUME NEW d \in Docs, outcome'[d] < NEGATIVE_CACHE_TTL
        PROVE  /\ Answered(d) => Answered(d)'
               /\ Remembered(d) => Remembered(d)'
               /\ outcome[d] < NEGATIVE_CACHE_TTL
    BY <2>1, <2>2, <2>3, <2>4, <2>6, <2>7
  <2>8. ASSUME NEW q \in Reqs, pc[q] = "negative", raced[q] = FALSE
        PROVE  /\ doc[q] \in held => age'[doc[q]] = CACHE_TTL
               /\ outcome'[doc[q]] < NEGATIVE_CACHE_TTL => Remembered(doc[q])'
    <3>1. doc[q] \in Docs
      BY DEF TypeOK
    <3> QED BY <2>2, <2>4, <2>7, <2>8, <3>1 DEF Known
  <2> QED BY <2>4, <2>5, <2>7, <2>8 DEF Known
<1>9. CASE UNCHANGED vars
  BY <1>9 DEF Known, vars
<1> QED BY <1>1, <1>2, <1>3, <1>4, <1>5, <1>6, <1>7, <1>8, <1>9 DEF Next, Step

\* Nothing has an outcome at first.
LEMMA KnownInit == Init => Known
BY Numbers DEF Init, Known

\* A fetch begins in LookNegative only, where nothing fresh was found.
LEMMA ProbeHasReason ==
  ASSUME TypeOK, Known, [Next]_vars, NEW r \in Reqs,
         pc[r] = "negative", pc'[r] = "connect"
  PROVE  raced[r] \/ outcome[doc[r]] >= NEGATIVE_CACHE_TTL
<1> USE Numbers
<1>1. LookNegative(r)
  <2>1. ASSUME NEW q \in Reqs, Ask(q) \/ Connect(q) \/ Serve(q) \/ Insert(q) PROVE FALSE
    BY <2>1 DEF Ask, Connect, Serve, Insert, Goto, TypeOK
  <2>2. ASSUME NEW q \in Reqs, Fail(q) \/ Cancel(q) \/ LookCache(q) \/ Clear(q) PROVE FALSE
    BY <2>2 DEF Fail, Cancel, LookCache, Clear, Judge, Return, Goto, TypeOK
  <2>3. ASSUME NEW q \in Reqs, LookNegative(q) PROVE q = r
    BY <2>3 DEF LookNegative, Return, Goto, TypeOK
  <2>4. ASSUME (\E d \in Docs : Edit(d)) \/ Tick \/ UNCHANGED vars PROVE FALSE
    BY <2>4 DEF Edit, Tick, vars
  <2> QED BY <2>1, <2>2, <2>3, <2>4 DEF Next, Step
<1>2. ~(doc[r] \in failed /\ failedAge[doc[r]] < NEGATIVE_CACHE_TTL)
  BY <1>1 DEF LookNegative, Return, Goto, TypeOK
<1>3. doc[r] \in Docs /\ outcome[doc[r]] \in Nat /\ failedAge[doc[r]] \in Nat
  BY DEF TypeOK
<1> QED BY <1>2, <1>3 DEF Known, Remembered

\* No fetch begins against a fresh outcome, unless it settled after the request
\* had missed the cache.
THEOREM ProbesAreSpared == Spec => NoProbeAfterOutcome
<1>1. TypeOK /\ Known /\ [Next]_vars =>
        [\A r \in Reqs :
           pc[r] = "negative" /\ pc'[r] = "connect"
             => raced[r] \/ outcome[doc[r]] >= NEGATIVE_CACHE_TTL]_vars
  BY ProbeHasReason
<1> QED BY <1>1, TypeInit, TypeStep, KnownInit, KnownStep, PTL
        DEF Spec, NoProbeAfterOutcome

-----------------------------------------------------------------------------
\* insert_bounded is the only way into either map.
LEMMA BoundStep == TypeOK /\ CachesBounded /\ [Next]_vars => CachesBounded'
<1> SUFFICES ASSUME TypeOK, CachesBounded, [Next]_vars PROVE CachesBounded'
  OBVIOUS
<1>1. ASSUME NEW r \in Reqs, Insert(r) PROVE CachesBounded'
  <2>1. doc[r] \in Docs /\ held \in SUBSET Docs
    BY DEF TypeOK
  <2> QED BY <1>1, <2>1, BoundIsKept DEF Insert, CachesBounded
<1>2. ASSUME NEW r \in Reqs, Fail(r) PROVE CachesBounded'
  <2>1. doc[r] \in Docs /\ failed \in SUBSET Docs
    BY DEF TypeOK
  <2> QED BY <1>2, <2>1, BoundIsKept DEF Fail, CachesBounded
<1>3. ASSUME NEW r \in Reqs, Clear(r) PROVE CachesBounded'
  <2>1. IsFiniteSet(failed) /\ Cardinality(failed) \in Nat
    BY FS_Subset, FS_CardinalityType, ResolverAssumption DEF TypeOK
  <2>2. failed' \in SUBSET failed
    BY <1>3 DEF Clear
  <2>3. /\ IsFiniteSet(failed') /\ Cardinality(failed') <= Cardinality(failed)
        /\ Cardinality(failed') \in Nat
    BY <2>1, <2>2, FS_Subset, FS_CardinalityType
  <2>4. MAX_CACHE_ENTRIES \in Nat
    BY ResolverAssumption
  <2> QED BY <1>3, <2>1, <2>3, <2>4 DEF Clear, CachesBounded
<1>4. ASSUME NEW r \in Reqs,
             Ask(r) \/ LookCache(r) \/ LookNegative(r) \/ Connect(r) \/ Serve(r)
               \/ Cancel(r)
      PROVE  CachesBounded'
  BY <1>4 DEF Ask, LookCache, LookNegative, Connect, Serve, Cancel, caches,
              CachesBounded
<1>5. ASSUME (\E d \in Docs : Edit(d)) \/ Tick \/ UNCHANGED vars PROVE CachesBounded'
  BY <1>5 DEF Edit, Tick, vars, caches, CachesBounded
<1> QED BY <1>1, <1>2, <1>3, <1>4, <1>5 DEF Next, Step

\* Both maps are empty at first.
LEMMA BoundInit == Init => CachesBounded
BY FS_EmptySet, ResolverAssumption DEF Init, CachesBounded

\* Neither cache holds more than MAX_CACHE_ENTRIES entries, whatever keys the
\* credentials of any number of requests name.
THEOREM CachesStayBounded == Spec => []CachesBounded
BY TypeInit, TypeStep, BoundInit, BoundStep, PTL DEF Spec

\* An entry leaves the cache in an insertion only.
LEMMA DisplacedIsOldest ==
  ASSUME TypeOK, CachesBounded, [Next]_vars, NEW d \in held \ held',
         age[d] < CACHE_TTL
  PROVE  \A e \in held : age[e] <= age[d]
<1>1. PICK r \in Reqs : Insert(r)
  <2>1. ASSUME NEW r \in Reqs,
               \/ Ask(r) \/ LookCache(r) \/ LookNegative(r) \/ Connect(r)
               \/ Serve(r) \/ Clear(r) \/ Fail(r) \/ Cancel(r)
        PROVE  held' = held
    BY <2>1 DEF Ask, LookCache, LookNegative, Connect, Serve, Clear, Fail, Cancel,
                caches
  <2>2. ASSUME (\E e \in Docs : Edit(e)) \/ Tick \/ UNCHANGED vars PROVE held' = held
    BY <2>2 DEF Edit, Tick, vars, caches
  <2> QED BY <2>1, <2>2 DEF Next, Step
<1>2. held' \in insert_bounded(held, age, CACHE_TTL, doc[r])
  BY <1>1 DEF Insert
<1>3. \A x \in held : age[x] < CACHE_TTL => age[x] <= age[d]
  BY <1>2, RoomIsMade
<1>4. \A x \in held : age[x] < CACHE_TTL
  <2>1. doc[r] \in Docs /\ held \in SUBSET Docs
    BY DEF TypeOK
  <2> QED BY <1>2, <2>1, BoundIsKept DEF CachesBounded
<1> QED BY <1>3, <1>4

\* An answer that is still good is displaced only from a cache full of such, and
\* the one fetched longest ago is.
THEOREM DisplacementIsFair == Spec => OldestGoesFirst
<1>1. TypeOK /\ CachesBounded /\ [Next]_vars =>
        [\A d \in held \ held' :
           age[d] < CACHE_TTL => \A e \in held : age[e] <= age[d]]_vars
  BY DisplacedIsOldest
<1> QED BY <1>1, TypeInit, TypeStep, BoundInit, BoundStep, PTL
        DEF Spec, OldestGoesFirst
=============================================================================
