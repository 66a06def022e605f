------------------------------ MODULE Resolver ------------------------------
(***************************************************************************)
(* The two lookups authenticate waits for (src/src/auth): an issuer's keys *)
(* (http_jwks.rs) and a WebID's declared issuers (webid_issuer.rs).  Both  *)
(* are the same resolver with other constants: a cache of documents, a     *)
(* cache of failures, a guarded GET, and cache.rs, which bounds the two    *)
(* maps.  A document is the set of items it vouches for: keys by kid, or   *)
(* issuers.                                                                *)
(*                                                                         *)
(* Each map has its own lock, so a request takes it in turn and others may *)
(* run in between.  Instants are kept as what elapsed() would return, up   *)
(* to the age from which on they are all alike.                            *)
(***************************************************************************)
EXTENDS Integers, FiniteSets

CONSTANTS
  Reqs,         \* request slots
  Docs,         \* what is resolved: issuers, or WebIDs
  Items,        \* what a document may vouch for
  CACHE_TTL,
  NEGATIVE_CACHE_TTL,
  TOTAL_TIMEOUT,
  MAX_CACHE_ENTRIES

ASSUME ResolverAssumption ==
  /\ IsFiniteSet(Docs)
  /\ CACHE_TTL \in Nat \ {0}
  /\ NEGATIVE_CACHE_TTL \in Nat \ {0}
  /\ NEGATIVE_CACHE_TTL <= CACHE_TTL
  /\ TOTAL_TIMEOUT \in Nat
  /\ MAX_CACHE_ENTRIES \in Nat \ {0}

VARIABLES
  published,    \* doc -> what its owner has it vouch for now
  held,         \* the keys of cache ...
  copy,         \* ... what each entry vouches for ...
  age,          \* ... and its age, CACHE_TTL standing for all that expired
  failed,       \* the keys of negative_cache ...
  failedAge,    \* ... and their ages, likewise
  pc,           \* request -> where it is
  doc,          \* request -> what it resolves
  item,         \* request -> what it wants vouched for
  waited,       \* request -> how long its GET has been out
  got,          \* request -> what the GET brought
  reply,        \* request -> its last answer
  since,        \* history: how long ago a document last vouched for an item
  outcome,      \* history: how long ago one of its fetches last settled
  raced         \* history: one settled since the request missed the cache

caches == <<held, copy, age, failed, failedAge>>
request == <<doc, item>>
vars == <<published, held, copy, age, failed, failedAge, pc, doc, item, waited,
          got, reply, since, outcome, raced>>

Labels == {"idle", "cache", "negative", "connect", "get", "body", "clear"}

\* From this age on no answer may rest on a document any more.
Horizon == CACHE_TTL + TOTAL_TIMEOUT

TypeOK ==
  /\ published \in [Docs -> SUBSET Items]
  /\ held \subseteq Docs
  /\ copy \in [Docs -> SUBSET Items]
  /\ age \in [Docs -> 0..CACHE_TTL]
  /\ failed \subseteq Docs
  /\ failedAge \in [Docs -> 0..NEGATIVE_CACHE_TTL]
  /\ pc \in [Reqs -> Labels]
  /\ doc \in [Reqs -> Docs]
  /\ item \in [Reqs -> Items]
  /\ waited \in [Reqs -> 0..TOTAL_TIMEOUT]
  /\ got \in [Reqs -> SUBSET Items]
  /\ reply \in [Reqs -> {"none", "vouched", "refused"}]
  /\ since \in [Docs -> [Items -> 0..Horizon]]
  /\ outcome \in [Docs -> 0..NEGATIVE_CACHE_TTL]
  /\ raced \in [Reqs -> BOOLEAN]

-----------------------------------------------------------------------------
\* Fault: nobody makes room.
insert_unbounded(m, a, ttl, d) == {m \cup {d}}

\* min_by_key on the stamps; entries of one age may be met in either order.
Oldest(m, a) == {o \in m : \A e \in m : a[e] <= a[o]}

\* cache.rs: what a map may hold after d is inserted.
insert_bounded(m, a, ttl, d) ==
  LET live == {e \in m : a[e] < ttl}
  IN IF Cardinality(m) < MAX_CACHE_ENTRIES \/ d \in m THEN {m \cup {d}}
     ELSE IF Cardinality(live) < MAX_CACHE_ENTRIES THEN {live \cup {d}}
     ELSE {(live \ {o}) \cup {d} : o \in Oldest(live, a)}

\* The history of an insertion: d's fetch has settled now, and a document that
\* lost an entry it could have been answered from is as good as never asked.
Settle(d, lost) ==
  /\ outcome' = [e \in Docs |-> IF e = d THEN 0
                                ELSE IF e \in lost THEN NEGATIVE_CACHE_TTL
                                ELSE outcome[e]]
  /\ raced' = [q \in Reqs |-> raced[q] \/ (pc[q] = "negative" /\ doc[q] = d)]

-----------------------------------------------------------------------------
Goto(r, l) == pc' = [pc EXCEPT ![r] = l]

\* resolve or authorizes returns; what it held is dropped.
Return(r, what) ==
  /\ Goto(r, "idle")
  /\ reply' = [reply EXCEPT ![r] = what]
  /\ waited' = [waited EXCEPT ![r] = 0]
  /\ got' = [got EXCEPT ![r] = {}]

\* select_key finds the token's key, any(issuer_matches) the token's issuer.
Judge(r, vouched) ==
  Return(r, IF item[r] \in vouched THEN "vouched" ELSE "refused")

\* authenticate comes to one of its two lookups.
Ask(r) ==
  /\ pc[r] = "idle"
  /\ Goto(r, "cache")
  /\ doc' \in {[doc EXCEPT ![r] = d] : d \in Docs}
  /\ item' \in {[item EXCEPT ![r] = i] : i \in Items}
  /\ reply' = [reply EXCEPT ![r] = "none"]
  /\ UNCHANGED <<published, caches, waited, got, since, outcome, raced>>

\* Fault: an entry answers whatever its age.
LookCacheForever(r) ==
  /\ pc[r] = "cache"
  /\ raced' = [raced EXCEPT ![r] = FALSE]
  /\ IF doc[r] \in held
     THEN Judge(r, copy[doc[r]])
     ELSE Goto(r, "negative") /\ UNCHANGED <<reply, waited, got>>
  /\ UNCHANGED <<published, caches, request, since, outcome>>

LookCache(r) ==
  /\ pc[r] = "cache"
  /\ raced' = [raced EXCEPT ![r] = FALSE]
  /\ IF doc[r] \in held /\ age[doc[r]] < CACHE_TTL
     THEN Judge(r, copy[doc[r]])
     ELSE Goto(r, "negative") /\ UNCHANGED <<reply, waited, got>>
  /\ UNCHANGED <<published, caches, request, since, outcome>>

\* Fault: failures are not asked for.
SkipNegative(r) ==
  /\ pc[r] = "negative"
  /\ Goto(r, "connect")
  /\ UNCHANGED <<published, caches, request, waited, got, reply, since, outcome,
                 raced>>

\* A recent failure is the answer; otherwise the fetch begins.
LookNegative(r) ==
  /\ pc[r] = "negative"
  /\ IF doc[r] \in failed /\ failedAge[doc[r]] < NEGATIVE_CACHE_TTL
     THEN Return(r, "refused")
     ELSE Goto(r, "connect") /\ UNCHANGED <<reply, waited, got>>
  /\ UNCHANGED <<published, caches, request, since, outcome, raced>>

\* The address is looked up and, for an issuer, the discovery document fetched;
\* then the GET that brings the document goes out, and its timeout runs.
Connect(r) ==
  /\ pc[r] = "connect"
  /\ Goto(r, "get")
  /\ UNCHANGED <<published, caches, request, waited, got, reply, since, outcome,
                 raced>>

\* The host answers with what it publishes at that moment.
Serve(r) ==
  /\ pc[r] = "get"
  /\ Goto(r, "body")
  /\ got' = [got EXCEPT ![r] = published[doc[r]]]
  /\ UNCHANGED <<published, caches, request, waited, reply, since, outcome, raced>>

\* The answer is in and parsed: it is cached, with the age of its insertion.
Insert(r) ==
  /\ pc[r] = "body"
  /\ Goto(r, "clear")
  /\ held' \in insert_bounded(held, age, CACHE_TTL, doc[r])
  /\ copy' = [e \in Docs |-> IF e = doc[r] THEN got[r]
                             ELSE IF e \in held' THEN copy[e] ELSE {}]
  /\ age' = [e \in Docs |-> IF e = doc[r] \/ e \notin held' THEN 0 ELSE age[e]]
  /\ Settle(doc[r], {e \in held \ held' : age[e] < CACHE_TTL})
  /\ UNCHANGED <<published, failed, failedAge, request, waited, got, reply, since>>

\* The failure it may have been remembered for is forgotten, under another lock.
\* If the bound has taken the answer meanwhile, nothing is known of it any more.
Clear(r) ==
  /\ pc[r] = "clear"
  /\ failed' = failed \ {doc[r]}
  /\ failedAge' = [failedAge EXCEPT ![doc[r]] = 0]
  /\ outcome' = IF doc[r] \in held THEN outcome
                ELSE [outcome EXCEPT ![doc[r]] = NEGATIVE_CACHE_TTL]
  /\ Judge(r, got[r])
  /\ UNCHANGED <<published, held, copy, age, request, since, raced>>

\* guarded_get fails on a blocked address, a failed connection, a status, a
\* size or its timeout; what it brings may not parse.
MayFail(r) == pc[r] \in {"connect", "get", "body"}

\* Whatever it was, it is remembered as one failure.
Fail(r) ==
  /\ MayFail(r)
  /\ Return(r, "refused")
  /\ failed' \in insert_bounded(failed, failedAge, NEGATIVE_CACHE_TTL, doc[r])
  /\ failedAge' = [e \in Docs |-> IF e = doc[r] \/ e \notin failed' THEN 0
                                  ELSE failedAge[e]]
  /\ Settle(doc[r], {e \in failed \ failed' : failedAge[e] < NEGATIVE_CACHE_TTL})
  /\ UNCHANGED <<published, held, copy, age, request, since>>

\* The client is gone: the handler is dropped at whichever await it was.
Cancel(r) ==
  /\ pc[r] # "idle"
  /\ Return(r, "none")
  /\ UNCHANGED <<published, caches, request, since, outcome, raced>>

-----------------------------------------------------------------------------
\* An issuer rotates its keys, an owner edits the profile.
Edit(d) ==
  /\ \E s \in SUBSET Items :
       /\ published' = [published EXCEPT ![d] = s]
       /\ since' = [since EXCEPT ![d] = [i \in Items |->
                      IF i \in s THEN 0 ELSE since[d][i]]]
  /\ UNCHANGED <<caches, pc, request, waited, got, reply, outcome, raced>>

Older(a, cap) == IF a < cap THEN a + 1 ELSE a

\* Fault: the client has no timeout.
TickUntimed ==
  /\ \A r \in Reqs : pc[r] # "clear"
  /\ age' = [d \in Docs |-> IF d \in held THEN Older(age[d], CACHE_TTL) ELSE 0]
  /\ failedAge' = [d \in Docs |->
       IF d \in failed THEN Older(failedAge[d], NEGATIVE_CACHE_TTL) ELSE 0]
  /\ waited' = [r \in Reqs |->
       IF pc[r] \in {"get", "body"} THEN waited[r] + 1 ELSE waited[r]]
  /\ since' = [d \in Docs |-> [i \in Items |->
       IF i \in published[d] THEN 0 ELSE Older(since[d][i], Horizon)]]
  /\ outcome' = [d \in Docs |-> Older(outcome[d], NEGATIVE_CACHE_TTL)]
  /\ UNCHANGED <<published, held, copy, failed, pc, request, got, reply, raced>>

\* A second passes.  No GET is out for longer than its timeout, and the answer
\* it brought is given without another wait.
Tick ==
  /\ \A r \in Reqs : /\ pc[r] \in {"get", "body"} => waited[r] < TOTAL_TIMEOUT
                     /\ pc[r] # "clear"
  /\ age' = [d \in Docs |-> IF d \in held THEN Older(age[d], CACHE_TTL) ELSE 0]
  /\ failedAge' = [d \in Docs |->
       IF d \in failed THEN Older(failedAge[d], NEGATIVE_CACHE_TTL) ELSE 0]
  /\ waited' = [r \in Reqs |->
       IF pc[r] \in {"get", "body"} THEN waited[r] + 1 ELSE waited[r]]
  /\ since' = [d \in Docs |-> [i \in Items |->
       IF i \in published[d] THEN 0 ELSE Older(since[d][i], Horizon)]]
  /\ outcome' = [d \in Docs |-> Older(outcome[d], NEGATIVE_CACHE_TTL)]
  /\ UNCHANGED <<published, held, copy, failed, pc, request, got, reply, raced>>

Init ==
  /\ published \in [Docs -> SUBSET Items]
  /\ held = {} /\ failed = {}
  /\ copy = [d \in Docs |-> {}]
  /\ age = [d \in Docs |-> 0]
  /\ failedAge = [d \in Docs |-> 0]
  /\ pc = [r \in Reqs |-> "idle"]
  /\ doc \in [Reqs -> Docs]
  /\ item \in [Reqs -> Items]
  /\ waited = [r \in Reqs |-> 0]
  /\ got = [r \in Reqs |-> {}]
  /\ reply = [r \in Reqs |-> "none"]
  /\ since = [d \in Docs |-> [i \in Items |->
                IF i \in published[d] THEN 0 ELSE Horizon]]
  /\ outcome = [d \in Docs |-> NEGATIVE_CACHE_TTL]
  /\ raced = [r \in Reqs |-> FALSE]

Step(r) ==
  \/ LookCache(r) \/ LookNegative(r) \/ Connect(r) \/ Serve(r) \/ Insert(r)
  \/ Clear(r) \/ Fail(r)

Next ==
  \/ \E r \in Reqs : Ask(r) \/ Step(r) \/ Cancel(r)
  \/ \E d \in Docs : Edit(d)
  \/ Tick

Spec == Init /\ [][Next]_vars

-----------------------------------------------------------------------------
\* A key or an issuer its owner has withdrawn is honoured for the life of a
\* cache entry and of the GET that brought it at most, however responses,
\* insertions and withdrawals overtake each other: whoever is told "vouched"
\* asks about an item the document still vouched for that recently.
WithdrawalTakesEffect ==
  [][\A r \in Reqs :
       pc[r] # "idle" /\ pc'[r] = "idle" /\ reply'[r] = "vouched"
         => since[doc[r]][item[r]] < Horizon]_vars

\* No host is probed anew while the outcome of an earlier fetch is fresh, for
\* a request that looks after it settled: neither a failure nor an answer is
\* lost between the two maps.  (A request that had already missed the cache
\* when another's fetch settled may still probe.)
NoProbeAfterOutcome ==
  [][\A r \in Reqs :
       pc[r] = "negative" /\ pc'[r] = "connect"
         => raced[r] \/ outcome[doc[r]] >= NEGATIVE_CACHE_TTL]_vars

\* Neither map outgrows its bound, whatever keys credentials name.
CachesBounded ==
  /\ Cardinality(held) <= MAX_CACHE_ENTRIES
  /\ Cardinality(failed) <= MAX_CACHE_ENTRIES

\* An entry that could still answer is displaced only where all could, and
\* none of them is older.
OldestGoesFirst ==
  [][\A d \in held \ held' :
       age[d] < CACHE_TTL => \A e \in held : age[e] <= age[d]]_vars
=============================================================================
