------------------------------- MODULE Events -------------------------------
(***************************************************************************)
(* What the write path tells its watchers (notify.rs: emit_put, emit_post, *)
(* emit_patch and emit_delete).  A handler takes what it will report from  *)
(* the guard before materialize consumes it, writes, and emits once, after *)
(* the last store call and before it answers.  Pod's steps are taken as    *)
(* they are; every topic has a subscriber, so that Bus::live withholds     *)
(* nothing.  How events reach their readers is module Bus's.               *)
(***************************************************************************)
EXTENDS Pod, SequencesExt

VARIABLES
  facts,      \* existence, Materialized and present_auxes, as a handler holds them
  published,  \* the events its request has published, in order
  was         \* history: the store when the request arrived

eventVars == <<vars, facts, published, was>>

\* Materialized: what the walk creates, nearest first, and links where.
Materialized == [created : Seq(Urls), linked : Seq(Containers \X Urls)]
NothingMaterialized == [created |-> <<>>, linked |-> <<>>]
NoFacts == [existed |-> FALSE, materialized |-> NothingMaterialized, auxes |-> {}]

\* The ancestors the walk finds missing: it ends at the first that is there.
Missing(o, seen) ==
  LET walked == SubSeq(ancestors(o.target), 1, Levels(o, seen))
  IN IF walked # <<>> /\ Last(walked) \in seen.present THEN Front(walked) ELSE walked

\* Every step of the walk records a child, but the first one of a target that is
\* there already or is nobody's member.
materialized(o, seen) ==
  LET recorded == SubSeq(Plan(o, seen), IF IsMember(o, seen) THEN 1 ELSE 2, Levels(o, seen))
  IN [created |-> (IF IsMember(o, seen) THEN <<o.target>> ELSE <<>>) \o Missing(o, seen),
      linked |-> [i \in DOMAIN recorded |-> <<recorded[i].at, recorded[i].child>>]]

\* What a handler holds once the guard has decided: an ACL's own presence is
\* among the probed, and a PATCH of one only reports when it was there.
Facts(r) ==
  [existed |-> IF op[r].method = "PATCH_acl" THEN TRUE
               ELSE IF IsAux(op[r]) THEN op[r].target \in snap[r].acls
               ELSE op[r].target \in snap[r].present,
   materialized |-> IF Creating(r) THEN materialized(op[r], snap[r]) ELSE NothingMaterialized,
   auxes |-> IF op[r].method = "DELETE" THEN snap[r].acls \cap {op[r].target} ELSE {}]

-----------------------------------------------------------------------------
(* Event: topic, activity, object and, for containment, target *)

NoTarget == [url |-> NoUrl, acl |-> FALSE]
Of(u) == [url |-> u, acl |-> FALSE]
AclOf(u) == [url |-> u, acl |-> TRUE]

Event(topic, activity, object, target) ==
  [topic |-> topic, activity |-> activity, object |-> object, target |-> target]

publish_own(topic, activity) == Event(topic, activity, topic, NoTarget)

Member(activity, container, child) ==
  Event(Of(container), activity, Of(child), Of(container))

\* Fault: the target, which publish_own has reported, is reported again.
ReportTargetTwice(target, m) ==
  [i \in DOMAIN m.created |-> publish_own(Of(m.created[i]), "Create")]
  \o [i \in DOMAIN m.linked |-> Member("Add", m.linked[i][1], m.linked[i][2])]

\* The target is created at most once, and skipped.
publish_containment(target, m) ==
  LET others == RemoveFirst(m.created, target)
  IN [i \in DOMAIN others |-> publish_own(Of(others[i]), "Create")]
     \o [i \in DOMAIN m.linked |-> Member("Add", m.linked[i][1], m.linked[i][2])]

Topic(o) == IF IsAux(o) THEN AclOf(o.target) ELSE Of(o.target)

\* emit_put, and emit_patch: the same events from the same facts.
emit_put(o, f) ==
  <<publish_own(Topic(o), IF f.existed THEN "Update" ELSE "Create")>>
  \o publish_containment(o.target, f.materialized)

\* emit_post: the child is new by construction.
emit_post(o, f) ==
  <<publish_own(Of(o.target), "Create")>> \o publish_containment(o.target, f.materialized)

\* emit_delete: the target, the auxiliaries the cascade took, and the parent's
\* loss of a member; an auxiliary is nobody's member.
emit_delete(o, f) ==
  <<publish_own(Topic(o), "Delete")>>
  \o (IF f.auxes = {} THEN <<>> ELSE <<publish_own(AclOf(o.target), "Delete")>>)
  \o (IF IsAux(o) \/ o.target = Root THEN <<>>
      ELSE <<Member("Remove", parent(o.target), o.target)>>)

\* The one emit of each handler, for a status that is a success.
Emitted(o, f) ==
  CASE o.method \in {"PUT", "PUT_acl", "PATCH", "PATCH_acl"} -> emit_put(o, f)
    [] o.method = "POST" -> emit_post(o, f)
    [] o.method \in {"DELETE", "DELETE_acl"} -> emit_delete(o, f)

-----------------------------------------------------------------------------
Deciding(r) == pc[r] \in {"acls", "child_acls"}
Succeeds(r) == pc'[r] = "replied" /\ reply'[r] = "ok"

\* What a step of the handler adds to Pod's: the facts are taken when the guard
\* decides, and the emit follows the store call that settles the answer.
Emit(r) ==
  /\ facts' = [facts EXCEPT ![r] = IF Deciding(r) THEN Facts(r) ELSE @]
  /\ published' = [published EXCEPT ![r] =
                     IF pc[r] = "replied" THEN <<>>
                     ELSE IF Succeeds(r) THEN Emitted(op[r], facts[r]) ELSE @]
  /\ UNCHANGED was

Here == [present |-> present, contains |-> contains, marked |-> marked]

EventInit ==
  /\ Init
  /\ facts = [r \in Reqs |-> NoFacts]
  /\ published = [r \in Reqs |-> <<>>]
  /\ was = [r \in Reqs |-> Here]

Arrive(r) ==
  /\ Start(r)
  /\ was' = [was EXCEPT ![r] = Here]
  /\ facts' = [facts EXCEPT ![r] = NoFacts]
  /\ UNCHANGED published

Handle(r) == Step(r) /\ Emit(r)

EventNext == \E r \in Reqs : Arrive(r) \/ Handle(r)

EventSpec ==
  EventInit /\ [][EventNext]_eventVars /\ \A r \in Reqs : WF_eventVars(Handle(r))

-----------------------------------------------------------------------------
\* What became of presence, containment and ACLs between two states, as events.
Changes(old, new) ==
  {Event(Of(u), "Create", Of(u), NoTarget) : u \in new.present \ old.present}
  \cup {Event(Of(u), "Delete", Of(u), NoTarget) : u \in old.present \ new.present}
  \cup {Event(AclOf(u), "Create", AclOf(u), NoTarget) : u \in new.marked \ old.marked}
  \cup {Event(AclOf(u), "Delete", AclOf(u), NoTarget) : u \in old.marked \ new.marked}
  \cup (UNION {{Event(Of(c), "Add", Of(u), Of(c)) : u \in new.contains[c] \ old.contains[c]} : c \in Containers})
  \cup (UNION {{Event(Of(c), "Remove", Of(u), Of(c)) : u \in old.contains[c] \ new.contains[c]} : c \in Containers})

\* A write of what was there before leaves no trace in presence: an Update says it.
Updates(o, old, new) ==
  LET Kept(before, after) == o.target \in before /\ o.target \in after
  IN IF IF IsAux(o) THEN Kept(old.marked, new.marked) ELSE Kept(old.present, new.present)
     THEN {Event(Topic(o), "Update", Topic(o), NoTarget)} ELSE {}

\* One request at a time, without faults, watchers are told the truth, all of it
\* and once: a success publishes one event for each thing its request brought
\* into being, removed, linked, unlinked or overwrote, ancestors and the ACL of a
\* cascade included, although nothing is compared and the handlers report from
\* what the guard saw before the write; a failure publishes nothing and has
\* changed nothing.
EventsTellTheChange ==
  \A r \in Reqs : pc[r] = "replied" =>
    /\ \A i, j \in DOMAIN published[r] : published[r][i] = published[r][j] => i = j
    /\ ToSet(published[r]) =
         IF reply[r] = "ok"
         THEN Changes(was[r], Here) \cup Updates(op[r], was[r], Here)
         ELSE {}
    /\ reply[r] # "ok" => was[r] = Here
=============================================================================
