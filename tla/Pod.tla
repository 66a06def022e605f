-------------------------------- MODULE Pod --------------------------------
(***************************************************************************)
(* The write path of one pod: what PUT, POST, PATCH and DELETE on          *)
(* resources, containers and ACLs do to presence markers, containment and  *)
(* policy documents (src/src/http.rs over wac/guard.rs, aux.rs,            *)
(* container.rs and resource.rs).                                          *)
(*                                                                         *)
(* Every store call is one action.  A SparqlStore update is atomic (ADR-2) *)
(* and a query sees one state, so between two calls of a request any other *)
(* request may take any number of steps, and a request may stop for good   *)
(* at every await: a store error, a client that disconnects, a killed      *)
(* process.                                                                *)
(*                                                                         *)
(* Representations (triples, shelves, bytes) are module Representation's;  *)
(* here a resource's content is only whether its marker is set.            *)
(***************************************************************************)
EXTENDS Wac, FiniteSets

CONSTANTS
  Reqs,         \* request slots; a slot serves one request after another
  MaxInFlight,  \* bound: requests being served at once
  Methods,      \* the methods clients of this instance use
  Callers,      \* the agents they use them as
  AclUrls,      \* URLs whose ACL they write, patch or delete
  AclDocs,      \* ACL documents they write
  PatchParts,   \* the parts of the patches they send to anything but an ACL
  AclPatches,   \* [del, add] pairs of authorizations they patch an ACL with
  FreshNames,   \* URLs only a server-chosen uuid name can denote
  OwnerDoc,     \* the document provision_root_acl writes
  Faults        \* TRUE iff requests may fail or be cut off, and the pod restart

SubjectMethods == {"PUT", "POST", "PATCH", "DELETE"}
AuxMethods == {"PUT_acl", "PATCH_acl", "DELETE_acl"}

\* The formulae a patch may have; each may be missing.
Parts == {"where", "deletes", "inserts"}

\* Patch::required_modes
required_modes(parts) ==
  {m \in Modes : \/ m = "Read" /\ parts \cap {"where", "deletes"} # {}
                 \/ m = "Append" /\ "inserts" \in parts
                 \/ m = "Write" /\ "deletes" \in parts}

Docs == SUBSET Authorization

Operation ==
  [method : SubjectMethods \cup AuxMethods, target : Urls, slug : Urls,
   agent : Agents, parts : SUBSET Parts, add : Docs, del : Docs]

NoOp == [method |-> "PUT", target |-> Root, slug |-> Root, agent |-> Public,
         parts |-> {}, add |-> {}, del |-> {}]

ASSUME PodAssumption ==
  /\ IsFiniteSet(Reqs)
  /\ Methods \subseteq SubjectMethods \cup AuxMethods
  /\ Callers \subseteq Agents
  /\ PatchParts \subseteq SUBSET Parts
  /\ AclUrls \subseteq Urls
  /\ FreshNames \subseteq Urls \ {Root}
  /\ \A d \in AclDocs \cup {OwnerDoc} : \A a \in d : a \in Authorization
  /\ \A p \in AclPatches :
       /\ p = [del |-> p.del, add |-> p.add]
       /\ p.del \cup p.add # {}
       /\ \A a \in p.del \cup p.add : a \in Authorization
  /\ Faults \in BOOLEAN
  /\ MaxInFlight \in Nat

VARIABLES
  \* The store.
  present,    \* subjects whose presence marker is set
  contains,   \* container -> objects of its ldp:contains triples
  typed,      \* containers carrying the server's type triples
  marked,     \* subjects whose ACL's presence marker is set
  doc,        \* subject -> authorizations in its ACL graph
  \* The requests.
  pc,         \* the store call a request makes next
  op,         \* what it was asked for
  snap,       \* Guard.present, until the ACLs are read and the guard decides
  plan,       \* materialize's remaining (ancestor, child) steps
  kept,       \* containment a container PUT read and will write back
  saw,        \* the answer of an existence or deletion check, or of a write
  landed,     \* history: whether this request's ACL update changed the store
  reply       \* what the client is told

store == <<present, contains, typed, marked, doc>>
scratch == <<snap, plan, kept, saw>>
vars == <<present, contains, typed, marked, doc,
          pc, op, snap, plan, kept, saw, landed, reply>>

NoSnap == [present |-> {}, acls |-> {}]

Labels == {"idle", "markers", "acls", "child_markers", "child_acls",
           "ensure", "link", "write", "members", "replace", "type", "patch",
           "write_acl", "confirm", "acl_there", "acl_ask", "patch_acl",
           "empty", "found", "delete", "acl_found", "delete_acl", "replied"}

Replies == {"none", "ok", "denied", "refused", "not_found"}

PlanStep == [at : Containers, child : Urls \cup {NoUrl}]

TypeOK ==
  /\ present \in SUBSET Urls
  /\ contains \in [Containers -> SUBSET Urls]
  /\ typed \in SUBSET Containers
  /\ marked \in SUBSET Urls
  /\ doc \in [Urls -> Docs]
  /\ pc \in [Reqs -> Labels]
  /\ op \in [Reqs -> Operation]
  /\ snap \in [Reqs -> [present : SUBSET Urls, acls : SUBSET Urls]]
  /\ plan \in [Reqs -> Seq(PlanStep)]
  /\ kept \in [Reqs -> SUBSET Urls]
  /\ saw \in [Reqs -> BOOLEAN]
  /\ landed \in [Reqs -> BOOLEAN]
  /\ reply \in [Reqs -> Replies]

-----------------------------------------------------------------------------
(* Requests *)

\* A POST names a container and a child of it; a PATCH comes with its
\* parts; an ACL write with a document or the two halves of a patch.
SubjectRequests ==
  {[method |-> m, target |-> u, slug |-> u, agent |-> a,
    parts |-> {}, add |-> {}, del |-> {}] :
     m \in {"PUT", "DELETE"}, u \in Urls, a \in Callers}
  \cup
  {[method |-> "POST", target |-> parent(u), slug |-> u, agent |-> a,
    parts |-> {}, add |-> {}, del |-> {}] :
     u \in Urls \ (FreshNames \cup {Root}), a \in Callers}
  \cup
  {[method |-> "PATCH", target |-> u, slug |-> u, agent |-> a,
    parts |-> n, add |-> {}, del |-> {}] :
     u \in Urls, a \in Callers, n \in PatchParts}

AclRequests ==
  {[method |-> "PUT_acl", target |-> u, slug |-> u, agent |-> a,
    parts |-> {}, add |-> d, del |-> {}] :
     u \in AclUrls, a \in Callers, d \in AclDocs}
  \cup
  {[method |-> "PATCH_acl", target |-> u, slug |-> u, agent |-> a,
    parts |-> {}, add |-> p.add, del |-> p.del] :
     u \in AclUrls, a \in Callers, p \in AclPatches}
  \cup
  {[method |-> "DELETE_acl", target |-> u, slug |-> u, agent |-> a,
    parts |-> {}, add |-> {}, del |-> {}] :
     u \in AclUrls, a \in Callers}

Requests == {o \in SubjectRequests \cup AclRequests : o.method \in Methods}

\* Only the server mints a uuid name: clients use one once it is there.
Known(u) == u \in FreshNames => u \in present

Goto(r, l) == pc' = [pc EXCEPT ![r] = l]

Blank(r) ==
  /\ snap' = [snap EXCEPT ![r] = NoSnap]
  /\ plan' = [plan EXCEPT ![r] = <<>>]
  /\ kept' = [kept EXCEPT ![r] = {}]
  /\ saw' = [saw EXCEPT ![r] = FALSE]

\* The handler returns; its locals are gone.
Answer(r, what) ==
  /\ Goto(r, "replied")
  /\ reply' = [reply EXCEPT ![r] = what]
  /\ Blank(r)

\* The handler goes on to the store call at l, with nothing but the request.
Proceed(r, l) ==
  /\ Goto(r, l)
  /\ Blank(r)
  /\ UNCHANGED reply

Forget(r) ==
  /\ Goto(r, "idle")
  /\ op' = [op EXCEPT ![r] = NoOp]
  /\ Blank(r)
  /\ landed' = [landed EXCEPT ![r] = FALSE]
  /\ reply' = [reply EXCEPT ![r] = "none"]

InFlight == {r \in Reqs : pc[r] # "idle"}

Start(r) ==
  /\ pc[r] = "idle"
  /\ Cardinality(InFlight) < MaxInFlight
  /\ \E o \in Requests :
       /\ Known(o.target) /\ Known(o.slug)
       /\ op' = [op EXCEPT ![r] = o]
  /\ Goto(r, "markers")
  /\ UNCHANGED <<store, scratch, landed, reply>>

\* The response leaves; the slot forgets the request.
Close(r) ==
  /\ pc[r] = "replied"
  /\ Forget(r)
  /\ UNCHANGED store

-----------------------------------------------------------------------------
(* Guard::probe: one query for every marker, one for the ACLs found *)

Probed(u) ==
  ChainSet(u) \cup {slash_counterpart(c) : c \in ChainSet(u) \ {Root}}

ProbeMarkers(r) ==
  /\ pc[r] \in {"markers", "child_markers"}
  /\ snap' = [snap EXCEPT ![r] =
                [present |-> present \cap Probed(op[r].target),
                 acls |-> marked \cap ChainSet(op[r].target)]]
  /\ Goto(r, IF pc[r] = "markers" THEN "acls" ELSE "child_acls")
  /\ UNCHANGED <<store, op, plan, kept, saw, landed, reply>>

\* prp::load_chain_acls: an ACL the first query found stays in the map even if
\* its graph is gone by now, as an empty document, which grants nothing.
Acls(r) == [u \in snap[r].acls |-> doc[u]]

Held(r, start) ==
  decide_from(Chain(op[r].target), Acls(r), op[r].agent, start)

\* Guard::authorize, authorize_parent and authorize_aux, and the modes a patch
\* is held to, as each handler asks for them.
authorize(r, mode) == allows(Held(r, 1), mode)

\* Fault: DELETE does not ask about the parent.
IgnoreParent(r, mode) == TRUE

authorize_parent(r, mode) == op[r].target = Root \/ allows(Held(r, 2), mode)

\* Fault: DELETE does not ask about the ACL it takes along.
IgnoreAux(r) == TRUE

authorize_aux(r) == op[r].target \in snap[r].acls => authorize(r, "Control")

Authorized(r) ==
  CASE op[r].method = "PUT" -> authorize(r, "Write")
    [] op[r].method = "POST" -> authorize(r, "Append")
    [] op[r].method = "PATCH" ->
         /\ authorize(r, "Append")
         /\ \A m \in required_modes(op[r].parts) : allows(Held(r, 1), m)
    [] op[r].method = "DELETE" ->
         /\ authorize(r, "Write")
         /\ authorize_parent(r, "Write")
         /\ authorize_aux(r)
    [] OTHER -> authorize(r, "Control")

Deny(r) ==
  /\ pc[r] = "acls"
  /\ ~Authorized(r)
  /\ Answer(r, "denied")
  /\ UNCHANGED <<store, op, landed>>

\* classify_body, check_conditionals and enforce_shape only read, and run between
\* the decision and the first write: any request may fail them there.
Unfit(r) ==
  \/ pc[r] = "acls" /\ Authorized(r)
  \/ pc[r] = "child_acls"

\* An authorized request the handler turns away without writing to its target:
\* its body, its conditional headers, a shape, a stored version or kind.  The
\* cap on the size of an ACL alone is checked after materialize.
Refuse(r) ==
  /\ Unfit(r) \/ pc[r] = "write_acl"
  /\ Answer(r, "refused")
  /\ UNCHANGED <<store, op, landed>>

-----------------------------------------------------------------------------
(* Guard::materialize *)

IsAux(o) == o.method \in AuxMethods

\* A member is recorded for a target that is neither an auxiliary nor there.
IsMember(o, seen) == ~IsAux(o) /\ o.target \notin seen.present

\* How far the walk goes: up to the first ancestor that exists, and not at all
\* when that is the nearest one and there is no member to record.
Levels(o, seen) ==
  LET anc == ancestors(o.target)
      there == {i \in DOMAIN anc : anc[i] \in seen.present}
      stop == IF there = {} THEN Len(anc)
              ELSE CHOOSE i \in there : \A j \in there : i <= j
  IN IF 1 \in there /\ ~IsMember(o, seen) THEN 0 ELSE stop

Plan(o, seen) ==
  [i \in 1..Levels(o, seen) |->
     [at |-> ancestors(o.target)[i],
      child |-> IF i > 1 THEN ancestors(o.target)[i - 1]
                ELSE IF IsMember(o, seen) THEN o.target ELSE NoUrl]]

\* Fault: only the target counts as created, not the ancestors.
TargetOnly(o, seen) == IF IsMember(o, seen) THEN {o.target} ELSE {}

\* Everything the write would bring into existence.
Creations(o, seen) ==
  (IF IsMember(o, seen) THEN {o.target} ELSE {})
  \cup ({ancestors(o.target)[i] : i \in 1..Levels(o, seen)} \ seen.present)

\* Fault: the walk asks about no ancestor.
IgnoreAncestors(r) == TRUE

AncestorsAllow(r) ==
  \A i \in 1..Levels(op[r], snap[r]) : allows(Held(r, i + 1), "Append")

SlashPair(o, seen) ==
  \E u \in Creations(o, seen) \ {Root} : slash_counterpart(u) \in seen.present

Materializable(r) ==
  /\ AncestorsAllow(r)
  /\ IsAux(op[r]) => op[r].target \in snap[r].present
  /\ ~SlashPair(op[r], snap[r])

\* The store call that follows materialize.
WriteLabel(o) ==
  CASE IsAux(o) -> "write_acl"
    [] ~IsAux(o) /\ ~o.target.slash -> "write"
    [] ~IsAux(o) /\ o.target.slash /\ o.method = "PUT" -> "members"
    [] OTHER -> "replace"

\* A PATCH takes this path for an absent target, and only if it asks nothing of
\* the prior state (create_by_patch).
Creating(r) ==
  \/ pc[r] = "acls" /\ op[r].method \in {"PUT", "PUT_acl"}
  \/ pc[r] = "child_acls"
  \/ /\ pc[r] = "acls" /\ op[r].method = "PATCH"
     /\ op[r].target \notin snap[r].present
     /\ op[r].parts \subseteq {"inserts"}

\* Fault: only the slash counterpart takes a name.
CounterpartOnly(r) ==
  /\ pc[r] = "child_acls"
  /\ op[r].slug = op[r].target
  /\ slash_counterpart(op[r].target) \in snap[r].present

\* POST: a child whose name, or its slash counterpart, is taken gets another.
IsTaken(r) ==
  /\ pc[r] = "child_acls"
  /\ op[r].slug = op[r].target
  /\ \/ op[r].target \in snap[r].present
     \/ slash_counterpart(op[r].target) \in snap[r].present

Materialize(r) ==
  /\ Creating(r)
  /\ pc[r] = "acls" => Authorized(r)
  /\ ~IsTaken(r)
  /\ IF Materializable(r)
     THEN /\ plan' = [plan EXCEPT ![r] = Plan(op[r], snap[r])]
          /\ Goto(r, IF Levels(op[r], snap[r]) = 0 THEN WriteLabel(op[r])
                     ELSE "ensure")
          /\ snap' = [snap EXCEPT ![r] = NoSnap]
          /\ UNCHANGED <<kept, saw, reply>>
     ELSE Answer(r, "denied")
  /\ UNCHANGED <<store, op, landed>>

\* Fault: the walk never leaves its first step.
StayPut(r) ==
  /\ Goto(r, IF Len(plan[r]) = 1 THEN WriteLabel(op[r]) ELSE "ensure")
  /\ UNCHANGED plan

\* The rest of the plan, or the write it was for.
Advance(r) ==
  /\ plan' = [plan EXCEPT ![r] = Tail(plan[r])]
  /\ Goto(r, IF Len(plan[r]) = 1 THEN WriteLabel(op[r]) ELSE "ensure")

\* Fault: the type triples go to the child.
TypeTheChild(r) ==
  /\ pc[r] = "ensure"
  /\ present' = present \cup {Head(plan[r]).at}
  /\ typed' = typed \cup {Head(plan[r]).child}
  /\ IF Head(plan[r]).child = NoUrl
     THEN Advance(r)
     ELSE Goto(r, "link") /\ UNCHANGED plan
  /\ UNCHANGED <<contains, marked, doc, op, snap, kept, saw, landed, reply>>

\* container::ensure_container on one ancestor, nearest first.
EnsureAncestor(r) ==
  /\ pc[r] = "ensure"
  /\ present' = present \cup {Head(plan[r]).at}
  /\ typed' = typed \cup {Head(plan[r]).at}
  /\ IF Head(plan[r]).child = NoUrl
     THEN Advance(r)
     ELSE Goto(r, "link") /\ UNCHANGED plan
  /\ UNCHANGED <<contains, marked, doc, op, snap, kept, saw, landed, reply>>

\* Fault: a bare INSERT DATA, without the marker.
LinkUnmarked(r) ==
  /\ pc[r] = "link"
  /\ contains' = [contains EXCEPT ![Head(plan[r]).at] =
                    @ \cup {Head(plan[r]).child}]
  /\ Advance(r)
  /\ UNCHANGED <<present, typed, marked, doc, op, snap, kept, saw, landed, reply>>

\* container::add_containment, an update of its own.
LinkChild(r) ==
  /\ pc[r] = "link"
  /\ contains' = [contains EXCEPT ![Head(plan[r]).at] =
                    @ \cup {Head(plan[r]).child}]
  /\ present' = present \cup {Head(plan[r]).at}
  /\ Advance(r)
  /\ UNCHANGED <<typed, marked, doc, op, snap, kept, saw, landed, reply>>

-----------------------------------------------------------------------------
(* Writing the target *)

\* resource::put_dataset or put_blob: one update sets the marker.
WriteResource(r) ==
  /\ pc[r] = "write"
  /\ present' = present \cup {op[r].target}
  /\ Answer(r, "ok")
  /\ UNCHANGED <<contains, typed, marked, doc, op, landed>>

\* Fault: a container PUT keeps nothing.
KeepNothing(r) ==
  /\ pc[r] = "members"
  /\ Goto(r, "replace")
  /\ UNCHANGED <<store, op, scratch, landed, reply>>

\* put_write on a container: get_rdf, keeping its ldp:contains triples.
ReadMembers(r) ==
  /\ pc[r] = "members"
  /\ kept' = [kept EXCEPT ![r] =
                IF op[r].target \in present THEN contains[op[r].target] ELSE {}]
  /\ Goto(r, "replace")
  /\ UNCHANGED <<store, op, snap, plan, saw, landed, reply>>

\* put_rdf replaces the container's graph; only a body that says so itself
\* leaves the type triples in it.
ReplaceContainer(r) ==
  /\ pc[r] = "replace"
  /\ contains' = [contains EXCEPT ![op[r].target] = kept[r]]
  /\ present' = present \cup {op[r].target}
  /\ typed' \in {typed \ {op[r].target}, typed \cup {op[r].target}}
  /\ saw' = [saw EXCEPT ![r] = TRUE]
  /\ Goto(r, "type")
  /\ UNCHANGED <<marked, doc, op, snap, plan, kept, landed, reply>>

\* ensure_container re-asserts the server's triples, and the answer is that of
\* the write before it.
TypeContainer(r) ==
  /\ pc[r] = "type"
  /\ present' = present \cup {op[r].target}
  /\ typed' = typed \cup {op[r].target}
  /\ Answer(r, IF saw[r] THEN "ok" ELSE "refused")
  /\ UNCHANGED <<contains, marked, doc, op, landed>>

\* PATCH of a target the probe found, and of an absent one it cannot create.
DecidePatch(r) ==
  /\ pc[r] = "acls"
  /\ op[r].method = "PATCH"
  /\ Authorized(r)
  /\ ~Creating(r)
  /\ IF op[r].target \in snap[r].present
     THEN Proceed(r, "patch")
     ELSE Answer(r, "refused")
  /\ UNCHANGED <<store, op, landed>>

\* patch_dataset touches the graph and never the marker.  A patch that matches
\* nothing changes nothing (patch_response); one applied to a container may take
\* the type triples out or put them in, and ensure_container follows either.
PatchExisting(r) ==
  /\ pc[r] = "patch"
  /\ \E applied \in BOOLEAN :
       IF op[r].target.slash
       THEN /\ typed' \in IF applied THEN {typed, typed \ {op[r].target}, typed \cup {op[r].target}}
                          ELSE {typed}
            /\ saw' = [saw EXCEPT ![r] = applied]
            /\ Goto(r, "type")
            /\ UNCHANGED <<snap, plan, kept, reply>>
       ELSE /\ Answer(r, IF applied THEN "ok" ELSE "refused")
            /\ UNCHANGED typed
  /\ UNCHANGED <<present, contains, marked, doc, op, landed>>

\* POST settles on the child, then on a fresh name if that one is taken.
DecidePost(r) ==
  /\ pc[r] = "acls"
  /\ op[r].method = "POST"
  /\ Authorized(r)
  /\ op' = [op EXCEPT ![r].target = op[r].slug]
  /\ Proceed(r, "child_markers")
  /\ UNCHANGED <<store, landed>>

Unused(u) ==
  /\ u \notin present
  /\ \A c \in Containers : u \notin contains[c]
  /\ \A r \in Reqs : pc[r] # "idle" => op[r].target # u

Rename(r) ==
  /\ IsTaken(r)
  /\ \E u \in FreshNames :
       /\ parent(u) = parent(op[r].slug) /\ u.slash = op[r].slug.slash
       /\ Unused(u)
       /\ op' = [op EXCEPT ![r].target = u]
  /\ Proceed(r, "child_markers")
  /\ UNCHANGED <<store, landed>>

-----------------------------------------------------------------------------
(* ACLs *)

\* Fault: the subject is checked before the update, not by it.
WriteAclUnguarded(r) ==
  /\ pc[r] = "write_acl"
  /\ marked' = marked \cup {op[r].target}
  /\ doc' = [doc EXCEPT ![op[r].target] = op[r].add]
  /\ landed' = [landed EXCEPT ![r] = TRUE]
  /\ Goto(r, "confirm")
  /\ UNCHANGED <<present, contains, typed, op, scratch, reply>>

\* Fault: the insert without the clear.
InsertAcl(r) ==
  /\ pc[r] = "write_acl"
  /\ IF op[r].target \in present
     THEN /\ marked' = marked \cup {op[r].target}
          /\ doc' = [doc EXCEPT ![op[r].target] = @ \cup op[r].add]
     ELSE UNCHANGED <<marked, doc>>
  /\ landed' = [landed EXCEPT ![r] = op[r].target \in present]
  /\ Goto(r, "confirm")
  /\ UNCHANGED <<present, contains, typed, op, scratch, reply>>

\* aux::put: clear and insert under a condition the update itself carries.
WriteAcl(r) ==
  /\ pc[r] = "write_acl"
  /\ IF op[r].target \in present
     THEN /\ marked' = marked \cup {op[r].target}
          /\ doc' = [doc EXCEPT ![op[r].target] = op[r].add]
     ELSE UNCHANGED <<marked, doc>>
  /\ landed' = [landed EXCEPT ![r] = op[r].target \in present]
  /\ Goto(r, "confirm")
  /\ UNCHANGED <<present, contains, typed, op, scratch, reply>>

\* The exists(aux) that decides what the client is told.
Confirm(r) ==
  /\ pc[r] = "confirm"
  /\ Answer(r, IF op[r].target \notin marked THEN "not_found"
               ELSE IF op[r].del # {} /\ ~saw[r] THEN "refused" ELSE "ok")
  /\ UNCHANGED <<store, op, landed>>

\* PATCH and DELETE of an ACL materialize nothing.
DecideAux(r) ==
  /\ pc[r] = "acls"
  /\ op[r].method \in {"PATCH_acl", "DELETE_acl"}
  /\ Authorized(r)
  /\ Proceed(r, IF op[r].method = "PATCH_acl" THEN "acl_there" ELSE "acl_found")
  /\ UNCHANGED <<store, op, landed>>

\* aux::patch: only an ACL that is there is patched.
AclThere(r) ==
  /\ pc[r] = "acl_there"
  /\ IF op[r].target \in marked
     THEN Proceed(r, "acl_ask")
     ELSE Answer(r, "not_found")
  /\ UNCHANGED <<store, op, landed>>

\* patch_guarded's ASK; a patch whose conditions find no mapping ends here.
AskDeletions(r) ==
  /\ pc[r] = "acl_ask"
  /\ \/ /\ saw' = [saw EXCEPT ![r] = op[r].del \subseteq doc[op[r].target]]
        /\ Goto(r, "patch_acl")
        /\ UNCHANGED <<snap, plan, kept, reply>>
     \/ Answer(r, IF op[r].target \in marked THEN "refused" ELSE "not_found")
  /\ UNCHANGED <<store, op, landed>>

\* One update: the deletions and the subject's marker are its WHERE.  It writes
\* no marker of its own.
PatchAcl(r) ==
  /\ pc[r] = "patch_acl"
  /\ LET t == op[r].target
         matches == op[r].del \subseteq doc[t] /\ t \in present
     IN /\ doc' = IF matches
                  THEN [doc EXCEPT ![t] = (@ \ op[r].del) \cup op[r].add]
                  ELSE doc
        /\ landed' = [landed EXCEPT ![r] = matches]
  /\ Goto(r, "confirm")
  /\ UNCHANGED <<present, contains, typed, marked, op, scratch, reply>>

\* delete_rdf: the answer first, the drops after it and whatever it was.
AclFound(r) ==
  /\ pc[r] = "acl_found"
  /\ saw' = [saw EXCEPT ![r] = op[r].target \in marked]
  /\ Goto(r, "delete_acl")
  /\ UNCHANGED <<store, op, snap, plan, kept, landed, reply>>

DeleteAcl(r) ==
  /\ pc[r] = "delete_acl"
  /\ marked' = marked \ {op[r].target}
  /\ doc' = [doc EXCEPT ![op[r].target] = {}]
  /\ Answer(r, IF saw[r] THEN "ok" ELSE "not_found")
  /\ UNCHANGED <<present, contains, typed, op, landed>>

-----------------------------------------------------------------------------
(* DELETE *)

\* The root container is 405, any other container is asked for its members.
DecideDelete(r) ==
  /\ pc[r] = "acls"
  /\ op[r].method = "DELETE"
  /\ Authorized(r)
  /\ IF op[r].target = Root
     THEN Answer(r, "refused")
     ELSE Proceed(r, IF op[r].target.slash THEN "empty" ELSE "found")
  /\ UNCHANGED <<store, op, landed>>

\* container::container_is_empty
IsEmpty(r) ==
  /\ pc[r] = "empty"
  /\ IF contains[op[r].target] = {}
     THEN Proceed(r, "found")
     ELSE Answer(r, "refused")
  /\ UNCHANGED <<store, op, landed>>

Found(r) ==
  /\ pc[r] = "found"
  /\ saw' = [saw EXCEPT ![r] = op[r].target \in present]
  /\ Goto(r, "delete")
  /\ UNCHANGED <<store, op, snap, plan, kept, landed, reply>>

\* Fault: the parent keeps the link.
KeepLink(t) == [c \in Containers |-> IF c = t THEN {} ELSE contains[c]]

\* aux::delete_subject's one update: the subject's graphs, its ACL's graphs and
\* its link in the parent.
Unlinked(t) ==
  [c \in Containers |-> IF c = t THEN {}
                        ELSE IF c = parent(t) THEN contains[c] \ {t}
                        ELSE contains[c]]

\* Fault: the cascade drops the ACL's marker and leaves its graph.
KeepAclGraph(r) ==
  /\ pc[r] = "delete"
  /\ present' = present \ {op[r].target}
  /\ contains' = Unlinked(op[r].target)
  /\ typed' = typed \ {op[r].target}
  /\ marked' = marked \ {op[r].target}
  /\ Answer(r, IF saw[r] THEN "ok" ELSE "not_found")
  /\ UNCHANGED <<doc, op, landed>>

DeleteSubject(r) ==
  /\ pc[r] = "delete"
  /\ present' = present \ {op[r].target}
  /\ contains' = Unlinked(op[r].target)
  /\ typed' = typed \ {op[r].target}
  /\ marked' = marked \ {op[r].target}
  /\ doc' = [doc EXCEPT ![op[r].target] = {}]
  /\ Answer(r, IF saw[r] THEN "ok" ELSE "not_found")
  /\ UNCHANGED <<op, landed>>

-----------------------------------------------------------------------------
(* Faults *)

\* A store call fails, or the connection goes and the handler is dropped at an
\* await: nothing after this point of the handler runs.
Fail(r) ==
  /\ Faults
  /\ pc[r] \notin {"idle", "replied"}
  /\ Forget(r)
  /\ UNCHANGED store

\* main: a new process finds the store as it was left, provisions the root and,
\* when there is none or the operator asked, the root's ACL.
Restart ==
  /\ Faults
  /\ pc' = [r \in Reqs |-> "idle"]
  /\ op' = [r \in Reqs |-> NoOp]
  /\ snap' = [r \in Reqs |-> NoSnap]
  /\ plan' = [r \in Reqs |-> <<>>]
  /\ kept' = [r \in Reqs |-> {}]
  /\ saw' = [r \in Reqs |-> FALSE]
  /\ landed' = [r \in Reqs |-> FALSE]
  /\ reply' = [r \in Reqs |-> "none"]
  /\ present' = present \cup {Root}
  /\ typed' = typed \cup {Root}
  /\ \E reset \in BOOLEAN :
       IF Root \in marked /\ ~reset
       THEN UNCHANGED <<marked, doc>>
       ELSE /\ marked' = marked \cup {Root}
            /\ doc' = [doc EXCEPT ![Root] = OwnerDoc]
  /\ UNCHANGED contains

-----------------------------------------------------------------------------
\* A pod just provisioned.
Init ==
  /\ present = {Root}
  /\ contains = [c \in Containers |-> {}]
  /\ typed = {Root}
  /\ marked = {Root}
  /\ doc = [u \in Urls |-> IF u = Root THEN OwnerDoc ELSE {}]
  /\ pc = [r \in Reqs |-> "idle"]
  /\ op = [r \in Reqs |-> NoOp]
  /\ snap = [r \in Reqs |-> NoSnap]
  /\ plan = [r \in Reqs |-> <<>>]
  /\ kept = [r \in Reqs |-> {}]
  /\ saw = [r \in Reqs |-> FALSE]
  /\ landed = [r \in Reqs |-> FALSE]
  /\ reply = [r \in Reqs |-> "none"]

\* The steps a request takes by itself once it has arrived.
Step(r) ==
  \/ ProbeMarkers(r) \/ Deny(r) \/ Refuse(r) \/ Materialize(r)
  \/ EnsureAncestor(r) \/ LinkChild(r)
  \/ WriteResource(r) \/ ReadMembers(r) \/ ReplaceContainer(r)
  \/ TypeContainer(r) \/ DecidePatch(r) \/ PatchExisting(r)
  \/ DecidePost(r) \/ Rename(r)
  \/ WriteAcl(r) \/ Confirm(r) \/ DecideAux(r) \/ AclThere(r)
  \/ AskDeletions(r) \/ PatchAcl(r) \/ AclFound(r) \/ DeleteAcl(r)
  \/ DecideDelete(r) \/ IsEmpty(r) \/ Found(r) \/ DeleteSubject(r)
  \/ Close(r)

Next ==
  \/ \E r \in Reqs : Start(r) \/ Step(r) \/ Fail(r)
  \/ Restart

\* The runtime polls every handler to its end and every store call returns.
Fairness == \A r \in Reqs : WF_vars(Step(r))

Spec == Init /\ [][Next]_vars /\ Fairness
-----------------------------------------------------------------------------
(* Properties: any number of requests at once, with faults *)

\* No orphaned policy: an ACL is only ever there with its subject.  aux::put
\* carries the subject's marker inside its update, and the cascade of
\* aux::delete_subject drops both in one, so no interleaving separates them.
AuxHasSubject == marked \subseteq present

\* Containment triples never sit in a container that reads as absent: they go
\* in with the marker (insert_marked) and go with it (delete_subject).
MembersHaveMarker == \A c \in Containers : contains[c] # {} => c \in present

\* No stale policy is resurrected by recreating a path: the step that removes a
\* subject removes its policy document with it, marker and content.
PolicyDiesWithSubject ==
  [][\A u \in Urls : u \in present /\ u \notin present' =>
       u \notin marked' /\ doc'[u] = {}]_vars

\* A policy comes into force whole: the step that marks an ACL present leaves
\* in it exactly the document that step wrote, whatever a patch racing a delete
\* had left behind in the unmarked graph.
PolicyIsWhole ==
  [][\A u \in Urls : u \in marked' /\ u \notin marked =>
       \/ \E r \in Reqs : /\ pc[r] = "write_acl"
                          /\ op[r].target = u /\ doc'[u] = op[r].add
       \/ u = Root /\ doc'[u] = OwnerDoc]_vars

-----------------------------------------------------------------------------
(* Properties: one request at a time (MaxInFlight = 1), with faults *)

\* Solid Protocol 3.1, as docs/uri-space.md states it: "/box" and "/box/" are
\* two names and only one of them may exist, for a target and for every
\* container a deep write materializes.
NoSlashPair ==
  \A u \in present \ {Root} : slash_counterpart(u) \notin present

\* A document is never lost from its container's listing: the link is written
\* before the document, a container with members is not deleted, and a
\* container PUT writes the members back.  Holds at every await of every
\* request, failed ones included.
DocumentIsLinked ==
  \A u \in present : ~u.slash =>
    /\ parent(u) \in present
    /\ u \in contains[parent(u)]

\* The effective modes of an agent on a URL, from the store alone.
Effective(agent, u) ==
  decide_from(Chain(u), [v \in marked |-> doc[v]], agent, 1)

\* An ACL goes only by the hand of an agent its subject grants Control,
\* directly or in the cascade of a DELETE on the subject ("a narrowing ACL must
\* not be removable by someone holding merely Write").
PolicyNeedsControl ==
  [][\A u \in marked : u \notin marked' =>
       \E r \in Reqs : /\ pc[r] # "idle" /\ op[r].target = u
                       /\ "Control" \in Effective(op[r].agent, u)]_vars

\* A container gains members only from an agent it grants Append (or Write),
\* the containers a deep write creates on the way included.
MemberNeedsAppend ==
  [][\A c \in Containers : contains'[c] \ contains[c] # {} =>
       \E r \in Reqs : /\ pc[r] = "link"
                       /\ allows(Effective(op[r].agent, c), "Append")]_vars

\* Nothing is removed but by an agent who may write both the resource and the
\* container that lists it.
RemovalNeedsWrite ==
  [][\A u \in present : u \notin present' =>
       \E r \in Reqs : /\ pc[r] = "delete" /\ op[r].target = u
                       /\ "Write" \in Effective(op[r].agent, u)
                       /\ "Write" \in Effective(op[r].agent, parent(u))]_vars

-----------------------------------------------------------------------------
(* Properties: one request at a time, without faults *)

Quiescent == \A r \in Reqs : pc[r] = "idle"

\* Between requests the listing is exact: everything there is listed by its
\* parent, everything listed is there, and containers carry their types.
ListingIsExact ==
  Quiescent =>
    /\ \A u \in present \ {Root} :
         parent(u) \in present /\ u \in contains[parent(u)]
    /\ \A c \in Containers : contains[c] \subseteq present
    /\ present \cap Containers = typed

\* A POST creates and never overwrites: the name it settles on, the slug's or
\* the fresh one that replaces a taken slug, is nobody's when it is written.
PostIsFresh ==
  [][\A r \in Reqs :
       /\ op[r].method = "POST"
       /\ pc[r] \in {"write", "replace"} /\ pc'[r] # pc[r]
       => op[r].target \notin present]_vars

\* Every request that arrives is answered, by every path through its handler:
\* the ancestor walk ends and a taken name is replaced once.
Answered == \A r \in Reqs : pc[r] # "idle" ~> pc[r] = "idle"

-----------------------------------------------------------------------------
(* What a comment of the repository says, and the code does not keep under
   the interleavings it is exposed to. *)

\* src/src/aux.rs, put: the check after the update answers "did my write land"
\* and "survives every interleaving".
AckedPolicyLanded ==
  \A r \in Reqs :
    op[r].method = "PUT_acl" /\ reply[r] = "ok" => landed[r]
=============================================================================
