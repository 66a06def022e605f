# A TLA+ model of quadpod

quadpod is a Solid pod server: an HTTP front end over a SPARQL store and a
blob store, with Web Access Control (WAC), N3 patches, change notifications and
DPoP-bound authentication. This directory holds TLA+ modules for the parts that
keep state, race or decide, TLC configurations that check them on small instances, and
TLAPS proofs of the main guarantees for every instance. Source references are
to `src/` in the repository; `PROJECT.json` maps every definition to its lines.

## 1. Inventory

| part | state | operations | who calls it |
|---|---|---|---|
| URI space (`space.rs`) | none | resolve, parent, ancestors, slash_counterpart | everybody |
| WAC decisions (`wac/mod.rs`, `wac/pdp.rs`) | none | decide, allows, grants_anything | guard, ACL warning |
| WAC guard (`wac/guard.rs`, `wac/prp.rs`) | a snapshot of presence and ACLs per request | probe, authorize\*, is_taken, materialize | every handler |
| Provisioning (`wac/provision.rs`, `main.rs`) | the root and its ACL | provision at start, reset | process start |
| HTTP handlers (`http.rs`) | per-request locals | PUT, POST, PATCH, DELETE, GET, HEAD, OPTIONS | clients |
| Auxiliary resources (`aux.rs`) | an ACL graph and its marker per subject | put, patch, delete_subject | handlers |
| Containers (`container.rs`) | `ldp:contains` and type triples | ensure_container, add_containment, containment_removal, container_is_empty | guard, handlers |
| Resource store (`resource.rs`, `shelf.rs`) | system graph, default graph, one graph per named graph | put_dataset, put_blob, patch_guarded, delete_rdf, get_dataset, kind_of | handlers, aux |
| Blob store (`blob.rs`) | one object per binary resource | put, get, delete | resource store |
| SPARQL store (`store.rs`, `sparql.rs`) | the quads | update, query, ask | all of the above |
| Notifications (`notify.rs`) | a registry of broadcast channels | subscribe, live, publish, drop of a receiver | handlers, event streams |
| DPoP proofs (`auth/dpop.rs`, `auth/middleware.rs`) | the replay set | verify_dpop, record_or_reject | auth layer |
| Authentication (`auth/authenticate.rs`, `auth/access_token.rs`) | none | authenticate | auth layer |
| Issuer keys and profiles (`auth/http_jwks.rs`, `auth/webid_issuer.rs`, `auth/cache.rs`) | TTL caches | resolve, authorizes | authenticate |
| Safe fetch (`auth/safe_fetch.rs`) | none | fetch with address and redirect checks | keys, profiles |
| Identity provider (`op/`) | signing key on disk | load, mint, discovery | well-known routes |
| Patches (`patch.rs`), RDF (`rdf.rs`, `dataset.rs`), shapes (`shapes.rs`), configuration (`config.rs`) | none | parse, serialise, validate | handlers, start |

**How they interact.** A request passes the auth layer, gets an agent, and its
handler probes the guard (two queries), decides, and then makes one store call
after another, each an await. There is no lock around a request: the store
makes a single update atomic (ADR-2) and nothing more. Handlers of different
requests interleave between any two calls; a client that disconnects, a store
error or a killed process ends a handler at any of them.

**What is hard here.** Decisions taken on a snapshot and acted on later;
representations spread over several graphs and two stores; a walk that creates
ancestors one update at a time; policies that must neither outlive their subject
nor come back with a reused name; a registry cleaned up by racing drops and
writers; a clock that is read before a wait and used after it; and many small
decisions (paths, negotiation, versions, patches, addresses, precedence) that two
pieces of code take separately and must take alike. `PROJECT.json`
lists each hazard at its line with the properties that cover it.

## 2. Modules

```
Space ── Wac ── Pod ─────────── MCPod            PodProofs ──┐
                 └── Events ─── MCEvents         ────────────┴─ PodSequentialProofs
Register <── Representation ─── MCRepresentation RepresentationProofs
Bus ─────────────────────────── MCBus            BusProofs
Replay ──────────────────────── MCReplay         ReplayProofs
Resolver ────────────────────── MCResolver       ResolverProofs

Dataset, Negotiate ── Serve ── Write ──┐
Paths, Patch, SafeFetch, Auth, Config ─┴─ Decisions (extends Wac) ── MCDecisions
                                               └── DecisionsProofs ── ContentProofs
```

**Space** (`space.rs`). A URL is its segments and whether it ends in a slash;
`parent`, `ancestors`, `slash_counterpart` and the chain a request touches are
operators with the source's names. `resolve` admits no other shape, so paths are
lists and not strings.

**Wac** (`wac/pdp.rs`, `wac/mod.rs`, `Guard::decide_from`). An ACL document is a
set of authorizations (agents, accessTo, default, modes). `decide` unions the
modes of the matching ones, `decide_from` lets the nearest ACL decide alone,
`allows` makes Write imply Append.

**Pod** (`http.rs` over `wac/guard.rs`, `aux.rs`, `container.rs`,
`resource.rs`). The store is five variables: presence markers, containment,
container types, ACL markers and ACL contents. A request is a slot with a
program counter naming the store call it makes next; each store call is one
action:

| action | code |
|---|---|
| `ProbeMarkers`, then a deciding action at `acls` | `Guard::probe`: `exists_many`, then `load_chain_acls` |
| `Deny`, `Refuse` | a denial; body, header, shape and kind checks, all before the first write |
| `Materialize`, `EnsureAncestor`, `LinkChild` | `Guard::materialize`: the checks, then `ensure_container` and `add_containment` per ancestor, nearest first |
| `WriteResource`, `ReadMembers`, `ReplaceContainer`, `TypeContainer` | `put_write` |
| `DecidePatch`, `PatchExisting` | `patch_impl`, `patch_guarded`, `create_by_patch` |
| `DecidePost`, `Rename` | `post_impl`, `is_taken`, the uuid name |
| `WriteAcl`, `Confirm` | `aux::put`: the conditional update, then `exists` |
| `DecideAux`, `AclThere`, `AskDeletions`, `PatchAcl`, `AclFound`, `DeleteAcl` | `aux::patch`, `delete_rdf` on an ACL |
| `DecideDelete`, `IsEmpty`, `Found`, `DeleteSubject` | `delete_impl`, `aux::delete_subject` with its cascade |
| `Fail`, `Restart` | a handler dropped at an await; a new process over the old store |

Where a decision follows a query without an await, query and decision are one
action. `Refuse` is a nondeterministic choice: which bodies, headers or shapes
are refused does not matter to the properties, only that a refusal comes before
the first write, the size cap on ACLs excepted; which bodies are is the business
of `Write` and `Negotiate`. `landed` is a history variable; no guard reads it.

**Events** (`notify.rs`: the `emit_*` functions) takes Pod's steps as they are and
adds what a handler reports: `Facts` is what it takes from the guard before
`materialize` consumes it, `Emit` publishes when the answer is a success. `was`
is a history variable: the store when the request arrived.

**Representation** (`resource.rs`, `shelf.rs`, `blob.rs`). One resource's
system graph, default graph, shelves and object, and the writes of it as
sequences of store calls: registry read, update, object delete for a dataset;
registry read, object write, update for bytes; the three reads by which a
graph-format PUT finds out whether it would discard named graphs. A body is one
*fact* standing for its triples, so that parts of two bodies can be told apart.
`Served` is what a read finds in one state. **Register** is the abstract
specification: one whole representation, replaced, patched or removed. The
history variable `overlapped` records that two writes have ever been under way
at once; the refinement and the properties that hold one write at a time are
conditioned on it, so that one run checks them beside those that hold always.

**Decisions.** The code that decides from its input alone is modelled as
operators, one module per subject, and `Decisions` puts questions to them: one
action per entry point, over all inputs of the instance, with an invariant that
compares the answer with a reference stated another way than the code computes
it. The limits of the code (the cap on a body, the last second an `i64` counts,
the age and the skew of a proof) are constants, and `InputsAssumption` states
the types the inputs have in the code, so that the proofs speak of all of them.

| module | code | what a value is |
|---|---|---|
| `Paths` | `space.rs` resolve, `container.rs` child_name, `blob.rs` keys, `dpop.rs` htu comparison | a path is a list of segments; a segment is a text class (plain, dot, reserved...) and how many `.acl` it ends in, or on the wire whether it is percent-encoded |
| `Dataset` | `dataset.rs` | quads over IRIs, server names, blank nodes, plain and directional literals, nested triple terms |
| `Negotiate` | `rdf.rs` negotiate and accept_allows, `http.rs` classify_body and Accept-\* | an Accept header is a list of ranges with quality and version |
| `Serve` | `http.rs` get_impl, etag_candidates | a tag is the body, format and version it is computed from |
| `Write` | `http.rs` put checks and preconditions, `shapes.rs`, `?validate` | a shape document is a text that is SHACL or not, and a set of constraints with severities; one step of the store's or of the engine's may fail |
| `Patch` | `patch.rs`, `resource.rs` patching, `http.rs` containment check | a document is its quads; a graph is a set of triples, RDF 1.2 terms included |
| `SafeFetch` | `safe_fetch.rs` | addresses as octets or 16-bit groups, two name lookups that may disagree |
| `Auth` | `authenticate.rs`, `access_token.rs`, `dpop.rs`, `op/keys.rs`, `op/mint.rs` | keys by identity; a signature is the key it verifies under; times saturate at both ends |
| `Config` | `config.rs`, `main.rs` | one scalar with a default, one without and one list stand for the settings |

`warn_if_acl_grants_nothing` is in `Decisions` itself, over `Wac`.

**Bus** (`notify.rs`). The registry and its read-write lock: each action is what
one lock acquisition covers. `Release` is the drop of the inner receiver, before
`Unregister` takes the lock; `live` counts under the read lock and `Evict`
recounts under the write lock.

**Replay** (`auth/middleware.rs`, `auth/authenticate.rs`, `auth/dpop.rs`).
`auth_layer` reads the clock; the request then waits for keys and profile; the
freshness check and `record_or_reject` use the old reading. `Tick` and `SetBack`
are the wall clock.

**Resolver** (`auth/http_jwks.rs`, `auth/webid_issuer.rs`, `auth/cache.rs`,
`guarded_get`). The two lookups of `authenticate` have the same control flow and
differ in constants and in what a document is, so one module stands for both:

| action | code |
|---|---|
| `LookCache`, `LookNegative` | the two reads, each under its map's lock; after the second the fetch begins |
| `Connect`, `Serve` | address lookup and, for an issuer, discovery; the GET and what the host answers it with |
| `Insert`, `Clear` | the `Ok` arm: `insert_bounded`, then `negative_cache.remove` |
| `Fail` | the `Err` arm: `insert_bounded` into the failures |
| `Cancel` | the handler dropped at any await |
| `Edit`, `Tick` | an owner edits the document; a second passes |

A document is the set of items it vouches for: keys by `kid`, or issuers.
Instants are ages (`elapsed`), kept up to the value from which on the code treats
them alike, so no bound on time is needed. `since`, `outcome` and `raced` are
history variables; no guard reads them. A GET is out for `TOTAL_TIMEOUT` at most
and its answer is given without a further second's wait; address lookup and
discovery take as long as they like.

**External.** Oxigraph (a `;`-sequence is one transaction, a query sees one
state), the object store (put and delete of one object are atomic), tokio's
broadcast channel (a bounded backlog that loses its oldest events and says so),
the clocks, and the hosts that publish keys and profiles are modelled from how
the code uses them.

## 3. Runs

| run | question | bounds |
|---|---|---|
| `pod_concurrent` | What holds at every await of two racing requests, with failures and restarts? `AuxHasSubject`, `MembersHaveMarker`, `PolicyDiesWithSubject`, `PolicyIsWhole` | `/`, `/a/`, `/a/x`; 2 requests; PUT, DELETE and all ACL methods on `/a/` |
| `pod_sequential` | What holds at every await of one request at a time, with failures and restarts? `NoSlashPair`, `DocumentIsLinked`, `PolicyNeedsControl`, `MemberNeedsAppend`, `RemovalNeedsWrite` | six URLs, with two missing ancestors, a slash pair and one fresh name; every method; owner and guest; ACLs on both containers |
| `pod_quiet` | What holds between requests when nothing fails? `ListingIsExact`, `EventsTellTheChange`, `PostIsFresh`, and that every request is `Answered` | the same tree, a fresh name as document and container; every method |
| `rep` | Is an RDF resource always one client's dataset (`WholeDataset`)? Do the writes, cut off anywhere, implement `Register` until two of them overlap (`ReadsAreWhole`)? `BinaryHasObject`, `NoOrphanShelf`, `NoSilentDiscard` | 3 racing writers, 2 graph names, 3 datasets, 2 byte formats, 2 patches |
| `decisions` | Does every decision agree with its reference? 9 properties of 29 parts, listed below | all inputs `MCDecisions` lists: 319,490 questions |
| `bus` | Do racing drops, evictions and subscriptions keep readers attached and the registry clean? `NoReaderCutOff`, `NoChannelLeftBehind`, `UnreadIsReclaimed` | 2 topics, 3 readers, 2 writers, capacity 1 |
| `replay` | Is no proof accepted twice while readings arrive in order, and is the set bounded? `NoReplayInOrder`, `RetentionBounded` | 2 requests, 2 proofs, window 2+1 s, sweep every 1 s, 7 s, clock set back at will |
| `resolver` | Is what was withdrawn honoured for a bounded time, is no host probed against a fresh outcome, are the maps bounded? `WithdrawalTakesEffect`, `NoProbeAfterOutcome`, `CachesBounded` | 2 requests, 2 documents, room for 1 entry, lifetimes 2 and 1 s, timeout 1 s, no bound on time |

Four runs show the code doing something a comment of the repository rules out
(`findings` in `PROJECT.json` quotes the lines):

| run | what TLC finds |
|---|---|
| `pod_acked_policy` | an ACL PUT is confirmed by the ACL another request wrote after the subject was deleted and recreated |
| `rep_blob_race` | a dataset write's late object delete takes the object of the blob write that overtook it |
| `etag_versions` | a read of an RDF 1.2 resource at `1.2-basic` gives out a tag that no conditional write accepts |
| `replay_late` | a request that read the clock before another one's sweep gets a used proof accepted; the clock only runs forward |

The properties of `decisions` are conjunctions of named parts, each a question of
its own and each with a mutant of the code it is about:

- `NamesAgree`: `KeepsItsName` (no two paths share a graph or an object),
  `ChildIsMember` (a Slug never leaves its container), `NamesOneResource` (a proof
  for one resource is no proof for another);
- `NegotiatesAsAsked`: `ServesTheBest`, `MostSpecificDecides`,
  `AdvertisesWhatItAccepts`;
- `NothingLostUnseen`: `ComesBack` (what is stored comes back up to blank node
  names), `ProjectsFaithfully`, `SaysWhatIsMissing`, `OneTagOneBody`,
  `ReplacesOnlyWhatItShows` (no client overwrites what it could not have been
  shown);
- `ShapesHold`: `FailsClosed` (an RDF body passes a container with a binding only
  if the one document it names was read, is SHACL and finds no violation, with
  no store read, engine call or report failing on the way; blobs are let in
  unvalidated, as the tests have it), `ReportAgrees` (the `?validate` report on what
  a PUT stored is the one it was judged by, and the link a PUT with findings gives
  leads to it unless something fails);
- `PatchesAsWritten`: `ParseIsExact`, `AppliesAsWritten` (with one mapping and every
  deletion there the document is carried out, otherwise nothing changes; a name that
  stands for a triple term can be matched and not written), `CreatesAsFromEmpty`,
  `MembersUntouched`, `NeedsWhatItDoes`;
- `FetchesOnlyVouched`: `ReachesOnlyVouched`, `JudgedByWhatItReaches`,
  `NeverBeyondTheCap`;
- `IdentityIsProven`: `BelievedIffProven`, `ActsOnlyOnTrust`, `OwnTokensVerify`;
- `StartsAsTold`: `RunsAsConfigured`, `BlamesTheCulprit`,
  `ServesOrLeavesNothing`, `KeysOutliveRestarts`;
- `WarningIsExact` for the ACL warning.

**Why the bounds are enough.** Three URLs hold a container that can be created,
linked, deleted and recreated under a document while its ACL is fought over, and
two requests suffice for each race found by hand; the properties of
`pod_concurrent` are also proved for all bounds. The deeper tree gives a walk of two
levels, where order and per-level permission matter, and a document whose
container spelling a deep write would need. `MaxInFlight = 1` means requests run
one after another but stop anywhere: it is what a single-user pod sees, and the
properties listed for it really fail with two requests (section 6). In `Replay`
only the order of window, skew and interval matters; they are proved for all
values. In `Resolver` one entry's room makes two documents displace each other,
and a lifetime longer than the timeout lets a late answer outlive an edit; its
properties are proved for all values too. `Channels` in `Bus` must exceed the number of topics, since a channel is
registered or read and three are never used up. The inputs of `decisions` take
every branch of the code they reach, in pairs where two values interact (two
quads, two Accept entries with every quality, three segments, two keys); nothing
in that code counts further, except the cap on a body and the window of a proof,
which are small numbers here and any numbers in the proofs.

**Fairness.** `Pod` has weak fairness on every step of a request that has
arrived (in `Events` on the same steps): the runtime polls every handler to its end and every store call
returns. It is used by `Answered` only. `Bus` has weak fairness on `Unregister`:
a `Drop` that has begun runs to its end. Nothing is assumed of clients, readers,
writers or the clock, which may stop.

**Deadlock** is checked in every run.

## 4. Proofs

All proofs are for every value of the constants, under the named assumptions of
the modules: a URL set closed under ancestors (`SpaceAssumption`), documents
made of authorizations (`PodAssumption`), bodies of the declared types and
patches that speak of other facts than bodies (`RepresentationAssumption`),
`CAPACITY > 0`, an eviction interval no longer than the freshness window
(`ReplayAssumption`; 60 and 305 seconds in the code), and failures remembered no
longer than answers (`ResolverAssumption`; 30 against 120 and 300 seconds).
`PodAssumption` also says that the set of request slots is finite: the number in
flight is counted. `Decisions` has three: the limits are naturals and a proof's
window ends before time does (`LimitsAssumption`), every container has a URL
below it (`RoomAssumption`), and inputs have their types (`InputsAssumption`): among
them, a graph a patch meets is made of stored terms, which are IRIs, literals and
triple terms and no blank nodes.

**PodProofs.** `TypeCorrect`, by the inductive invariant `IInv`: the types and
`Fitting`, what a label says of a request's locals. Without `Fitting` the type
invariant is not inductive: the walk takes the head of its plan, which is a
container only if there is a step left, and a container's update names
`op[r].target`, a container only because its label was chosen so. The plan is
well formed because `Levels` picks the least present ancestor, which needs that
a set of naturals has a least element. From `IInv`, three lemmas say which
updates can remove a subject's marker (`DeleteSubject` alone), set an ACL's
(`WriteAcl` on a present subject, or a restart at the root) and what the cascade
takes along; `NoOrphanedPolicy`, `MembersAreReachable`,
`PolicyIsNotResurrected` and `PolicyInForceIsWhole` follow, for any number of
requests and with all faults.

**PodSequentialProofs.** What holds when requests come one at a time, a hypothesis
of each theorem (`MaxInFlight = 1`), with faults and restarts: `OneNameOneResource`
(`NoSlashPair`), `DocumentsStayListed`, `PoliciesNeedControl`,
`MembersNeedAppend`, `RemovalsNeedWrite`, `PostsAreFresh`. None of these is
inductive: each is decided on a probe and acted on several updates later. The
invariant `SeqInv` adds `Alone`, what each label still knows of the store: that the
probe is what a probe would find now, that every container of the walk still to
come grants Append and has no document of its name, that the target is listed or
the next step lists it, that a DELETE's agent still holds its modes. It rests on two
facts. `GuardSeesStore`: what `decide_from` finds in a probe, from any level of
the chain, is what the store's own policies say of the URL at that level. And a
walk never changes the answer for what is left of it, since its updates touch
listings, types and markers and no policy. Without
faults (`~Faults`) `ListingsAreExact` follows from `QuietInv`, which says how far
the listing is from exact at each label: the target may be listed before it is
written, a container made before it is listed or typed, and nothing else.

`EventsAreTrue` is the last of them: `EventsTellTheChange`, a statement of the
answer, about facts taken before the first write. `EventInv` carries them through
the request. Of the chain from the target up, the first `n` are missing when the
guard looks and the next one is there, and the facts list exactly these
(`Foreseen`). During the walk the store has gained the containers at
places 2 to `k + 1` of the chain and the links of the first `k` places (`Walked`);
the write adds the target (`Gained`); up to the first write the store is as it was
on arrival (`Unwritten`). A request for an ACL and a DELETE know beside this
whether what they change was there (`WritesAcl`, `Removes`). That nothing else
changed is `SeqInv` and `QuietInv`: the probe is still true, and a target that is
missing is listed nowhere. That an ACL event names a resource is `AuxHasSubject`.
That no event comes twice needs that a chain has no repetitions and that removing
the target from the created URLs takes out its only occurrence. With a failing
store the property is false: a write that fails after `materialize` publishes
nothing (section 6), hence the hypothesis `~Faults`.

**RepresentationProofs.** `TypeCorrect`, and `DatasetIsWhole`: `WholeDataset`
is inductive beside the types, because the only update that makes a resource RDF
writes everything the property speaks of, whatever stale registry it had read.
Until two requests overlap, `SoloInv` holds: a request cut off anywhere leaves
the stores `Settled` (no names without a marker, an object for every binary one,
no shelf unregistered), and while one runs what it has read is still so. From it
`BytesAreThere`, `ShelvesAreRegistered`, `NamedGraphsAreSeen` and
`RegisterIsImplemented`: every step maps to a step of `Register` or leaves its
value as it is.

**BusProofs.** `ReadersStayAttached` by the invariant `Attached`, and
`ChannelsAreTended` by `Tended` (a channel belongs to one topic, and an unread
one has a drop on its way).

**ReplayProofs.** `ReplayIsRefused` and `RetentionIsBounded` by `SetInvariant`:
a proof that was accepted is held, or stale for every reading not older than the
last (`HeldOrStale`), and nothing held is older than the last sweep by more than
the window (`NearSweep`).

**ResolverProofs.** `WithdrawalIsHonoured` by `Fresh`: an item in a cached copy
was vouched for no longer ago than the entry's age and one timeout, one in an
answer under way no longer than the GET has been out. `ProbesAreSpared` by
`Known`: a fresh outcome is in one of the two maps, and a request that missed the
cache before anything settled finds it among the failures. The case that makes
this hard is `Clear`, which runs under another lock than `Insert` and may remove
a newer failure; the invariant says that the answer is then still in the cache,
at age 0, unless the bound took it. `CachesStayBounded` and `DisplacementIsFair`
rest on two lemmas about `insert_bounded`; the second needs the first, since a
map above its bound would lose live entries beside expired ones.

**DecisionsProofs.** The state is the question asked, so an invariant of
`Decisions` is a lemma about operators, for every input of its type:
`StartsTrue`, `IdentitiesAreProven`, `FetchesAreVouched`, `ShapesAreHeld` and
`WarningsAreExact`. The parts worth knowing:

- *The running total of a body* is a recursive function. That it exists, and that
  it only grows, is shown by taking the least chunk at which it would fail
  (`LeastExists`, from the well-foundedness of the naturals), which takes no
  induction scheme. The order of settings and of keys is handled in the same way.
- *An identity* is proven stage by stage: `BelievedIffPassed` says that the code's
  early returns amount to a conjunction, `ActsInOrder` what has been done before
  each of them. The proof of `BelievedIffProven` failed at first for a good reason:
  the model gave "no verifier" and the token algorithm `none` one name, so that a
  token of that algorithm passed under a key the verifier does not support. The code
  has no such value (`verifier_for` returns an error), and neither has the model
  now.
- *Failing closed.* `LoadedShape` goes down the early returns of `load`,
  `ReportIsRead` down those of `validate`: a shape comes only of the one readable
  document with no read failing, a report only of a text that is SHACL with the engine
  at work. `JudgedByReport` and `ViewOfReport` say that a PUT and a `?validate` turn
  everything else into a refusal.
- *A report* looks at the predicates of the default graph alone
  (`ReportOfPredicates`), which skolemize and deskolemize keep, and
  `without_server_managed` takes out of a stored container exactly what the server
  put in.
- *A warning* is exact because a URL occurs once in a chain, so that the ACL of a
  container decides for what is below it (`GovernsFromAbove`).

**ContentProofs** goes on with what is negotiated, stored, served and replaced:
`AnswersAreRanked` and `LossesAreSaid`; and with names and patches:
`NamesAgreeHold` and `PatchesAsWrittenHold`.

- *Ranking.* The code sorts the entries of an Accept header and takes the first
  that fits. The model says which entry that is (`ranked_accept` is the order,
  `FirstRanked` its first), and `FirstExists` shows that there is one among any
  entries of a header of any length, again by a least counterexample. `PassServes`
  then says that one pass of `negotiate` serves an offer of the highest quality,
  and `ChoicesAreOffers` that the formats its two passes let by are exactly the
  choices the header leaves.
- *Blank nodes.* `AtomByAtom` shows that skolemize and deskolemize reach every atom
  at every depth of a triple term, `QuadThereAndBack` that both together rename.
  That the renaming is one to one comes from the uuids being so, which is an
  assumption on the inputs.
- *Losses.* `VersionOf` shows that a dataset has a highest version and
  `ProjectionFits` that a projection differs from its dataset exactly if that
  version is above the target, which is what the response claims to say
  (`MissingIsSaid`).

- *Names.* A path that `resolve` admits has no empty segment and no dots, so that its
  object key is the path itself (`KeyIsPath`) and a name gives back its path
  (`NameIsKept`). `SlugNamesMember` follows a Slug of any content through
  `child_name` to a URL in the container; a name reserved at the root is refused, the
  fresh one of the second attempt never. A DPoP proof is compared with the wire path after dot segments are resolved;
  `DecodedPath` shows that a dot segment stays one however it is percent-encoded, so
  where a handler has a target there was none to resolve (`HandledHasNoDots`), and
  two paths that compare equal are equal.
- *Patches.* The names a patch binds are numbered by a fold over its conditions.
  `BindingExists` shows that the recursion has a solution, by a least
  counterexample, and `BoundIsNames` that every name of the conditions gets exactly
  one index. Solutions by index, as the code's query finds them, and mappings by
  name, as the document means them, are then one to one (`SolutionsByName`), and
  unique together (`OneTogether`); substituting by one or the other gives the same
  triples, and fails for the same terms (`SubstituteIsRead`, `RenderedIsRead`), which
  without conditions are none (`NothingBound`). `parse` reports the error at the first place that has
  one, and wherever there are errors one comes first (`FirstIsError`), so that it
  refuses exactly the documents that break the form (`ParsesExactly`).

**Only model-checked.** Liveness (`Answered`, `UnreadIsReclaimed`): out of the
prover's reach. Every invariant and action property the passing runs check, the
refinement among them, is stated by a theorem.

## 5. Not modelled

The text of RDF, N3, HTTP and tokens: parsers, serialisers and signature checks
are libraries' and appear as what they yield. A read made of several queries
(`get_dataset`) can straddle a write; `Served` is one state. CORS, HEAD and
OPTIONS, the well-known routes and the event stream's encoding; the validator an
event carries. SHACL beyond property constraints, and `?validate` before its guard
has let it through. `StorageSpace::new`, signal
handling and the drain at shutdown, storage backends. `Serve`, `Write` and
`Patch` judge one state: that a precondition and the update it guards are two
store calls is listed as a hazard. The replay set is emptied by a restart, which
the repository documents; `Replay` has no restart.

## 6. What the code does not guarantee

Found while modelling, beyond the four runs above. A write killed inside `materialize` leaves a container no listing
shows, and no later write repairs it. Two racing creates can leave both `/a` and `/a/`: the probe is not
part of the update. Two POSTs with one slug can both find it free. A container
PUT racing a child's creation can write back a listing without the child. A
container PATCH racing a DELETE recreates the container unlisted. An ACL PATCH
racing a DELETE is answered "not found" although its triples are in the unmarked
graph (harmless, by `PolicyIsWhole`). A blob overwrite cut off before its update
serves the new bytes under the old media type; `ReadsAreWhole` admits exactly
this. On a plain resource an ACL with only `acl:default` denies everyone without
a warning. Requests that miss the key or profile cache together each fetch, and a
profile fetched before an edit can replace one fetched after it, so a withdrawal
already honoured can be forgotten until that entry expires. A write that fails
after `materialize` publishes no event for the containers it made.

Smaller observations from the decisions. `uses_reserved_namespace` does not look
inside triple terms. A blob is answered without `WAC-Allow`, a document with it.
`Accept: application/*` on a graph is answered with `text/turtle`, and a wildcard
with quality 0 rejects nothing in `negotiate`. `If-Match: *` is compared as a tag.
A client's own `a ldp:Container` on a container is left out of `?validate`, and if
the kind of a blob cannot be read there, the blob is reported on as an empty graph.
A patch variable bound to a literal and inserted as a subject is left to the SPARQL
engine. `resource.rs:313` calls everything but an IRI or a literal "a term the store
cannot hold"; it holds RDF 1.2 triple terms, and a patch that writes a variable bound
to one is answered 500 and changes nothing (`AppliesAsWritten` says so).
`safe_fetch.rs:13-19` and `config.rs:64` describe the checked address as
pinned, while `PolicyResolver` screens a second lookup by the host's permission:
`safe_fetch.rs:154-157` ("the port-exact rule is not lost by this") and `510-513` ("no
window in which a name can answer public for a check and private for the
connection") hold of a host the operator did not name, and of a named one only while
the two lookups agree. `ReachesOnlyVouched` states exactly what is left.
A key file whose creation succeeds and whose writing fails stays behind empty, and
every later start refuses it.
Of two keys with one `kid` the first decides.

## 7. Plan

Done: the write path with its events, representations, the registry, the replay
set, the resolvers, and the decisions; the proofs of section 4. Next, in this order:

1. `Reads`: GET over `get_dataset` as several queries, and conditional writes
   racing each other.
2. `Events` composed with `Bus`, with racing requests.
