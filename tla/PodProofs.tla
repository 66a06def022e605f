----------------------------- MODULE PodProofs -----------------------------
(***************************************************************************)
(* Pod for every URI space, every set of agents, documents and patches and *)
(* any number of requests at once, with every fault: its types, and the    *)
(* four guarantees that hold at every await, each an invariant or a step   *)
(* property that pod_concurrent checks on three URLs and two requests.     *)
(***************************************************************************)
EXTENDS Pod, SequenceTheorems, WellFoundedInduction, TLAPS

\* What the labels say of a request's locals: the walk has a step left, the
\* step being linked has a child, and a container's write has a container.
Fits(r) ==
  /\ pc[r] \in {"ensure", "link"} => plan[r] # <<>>
  /\ pc[r] = "link" => Head(plan[r]).child \in Urls
  /\ pc[r] \in {"members", "replace", "type"} => op[r].target \in Containers

Fitting == \A r \in Reqs : Fits(r)

IInv == TypeOK /\ Fitting

\* The labels at which Fits asks for nothing.
Free == Labels \ {"ensure", "link", "members", "replace", "type"}

-----------------------------------------------------------------------------
(* URLs and plans *)

\* Every ancestor of a URL of the pod is a container of the pod.
LEMMA AncestorsAreContainers ==
  ASSUME NEW u \in Urls
  PROVE  /\ Len(u.segs) \in Nat
         /\ DOMAIN ancestors(u) = 1..Len(u.segs)
         /\ Len(ancestors(u)) = Len(u.segs)
         /\ \A i \in 1..Len(u.segs) : ancestors(u)[i] \in Containers
<1>1. u.segs \in Seq(Segments) /\ Len(u.segs) \in Nat
  BY SpaceAssumption DEF Url
<1>2. DOMAIN ancestors(u) = 1..Len(u.segs) /\ Len(ancestors(u)) = Len(u.segs)
  BY <1>1 DEF ancestors
<1>3. ASSUME NEW i \in 1..Len(u.segs) PROVE ancestors(u)[i] \in Containers
  <2>1. ancestors(u)[i] \in Urls
    BY SpaceAssumption
  <2>2. ancestors(u)[i].slash
    BY <1>1 DEF ancestors
  <2> QED BY <2>1, <2>2 DEF Containers
<1> QED BY <1>1, <1>2, <1>3

\* Every URL of the pod but the root has its parent in the pod.
LEMMA ParentIsThere ==
  ASSUME NEW u \in Urls \ {Root}
  PROVE  parent(u) \in Urls
<1>1. u.segs \in Seq(Segments) /\ u = [segs |-> u.segs, slash |-> u.slash] /\ u.slash \in BOOLEAN
  BY SpaceAssumption DEF Url
<1>2. Len(u.segs) # 0
  <2>1. ASSUME Len(u.segs) = 0 PROVE FALSE
    <3>1. u.segs = <<>>
      BY <1>1, <2>1, EmptySeq
    <3>2. u = Root \/ u = NoUrl
      BY <1>1, <3>1 DEF Root, NoUrl
    <3> QED BY <3>2, SpaceAssumption
  <2> QED BY <2>1
<1>3. 1 \in 1..Len(u.segs)
  BY <1>1, <1>2
<1>4. ancestors(u)[1] = parent(u)
  BY <1>1, <1>3 DEF ancestors, parent
<1> QED BY <1>3, <1>4, SpaceAssumption

\* A non-empty set of naturals has a least element.
LEMMA LeastExists ==
  ASSUME NEW S, S \subseteq Nat, S # {}
  PROVE  \E i \in S : \A j \in S : i <= j
<1>1. PICK i \in S : \A j \in S : ~(<<j, i>> \in OpToRel(<, Nat))
  BY NatLessThanWellFounded, WFMin
<1>2. \A j \in S : ~(j < i)
  BY <1>1 DEF OpToRel
<1> QED BY <1>2

\* The walk of materialize climbs no further than the root.
LEMMA LevelsBounded ==
  ASSUME NEW o \in Operation, NEW seen
  PROVE  Levels(o, seen) \in 0..Len(o.target.segs)
<1>1. o.target \in Urls
  BY DEF Operation
<1> DEFINE anc == ancestors(o.target)
           there == {i \in DOMAIN anc : anc[i] \in seen.present}
           stop == IF there = {} THEN Len(anc)
                   ELSE CHOOSE i \in there : \A j \in there : i <= j
<1>2. Levels(o, seen) = IF 1 \in there /\ ~IsMember(o, seen) THEN 0 ELSE stop
  BY DEF Levels
<1>3. Len(anc) = Len(o.target.segs) /\ Len(o.target.segs) \in Nat
      /\ DOMAIN anc = 1..Len(o.target.segs)
  BY <1>1, AncestorsAreContainers
<1>4. stop \in 0..Len(o.target.segs)
  <2>1. CASE there = {}
    BY <1>3, <2>1
  <2>2. CASE there # {}
    <3>1. there \subseteq Nat
      BY <1>3
    <3>2. \E i \in there : \A j \in there : i <= j
      BY <2>2, <3>1, LeastExists
    <3>3. stop \in there
      BY <2>2, <3>2
    <3> QED BY <1>3, <3>3
  <2> QED BY <2>1, <2>2
<1> HIDE DEF stop, there, anc
<1> QED BY <1>2, <1>3, <1>4

\* The plan of materialize is a list of steps, one per level.
LEMMA PlanIsPlan ==
  ASSUME NEW o \in Operation, NEW seen
  PROVE  /\ Plan(o, seen) \in Seq(PlanStep)
         /\ Len(Plan(o, seen)) = Levels(o, seen)
         /\ Levels(o, seen) \in Nat
<1>1. o.target \in Urls
  BY DEF Operation
<1>2. Levels(o, seen) \in 0..Len(o.target.segs) /\ Len(o.target.segs) \in Nat
  BY <1>1, LevelsBounded, AncestorsAreContainers
<1>3. ASSUME NEW i \in 1..Levels(o, seen)
      PROVE  [at |-> ancestors(o.target)[i],
              child |-> IF i > 1 THEN ancestors(o.target)[i - 1]
                        ELSE IF IsMember(o, seen) THEN o.target ELSE NoUrl] \in PlanStep
  <2>1. ancestors(o.target)[i] \in Containers
    BY <1>1, <1>2, AncestorsAreContainers
  <2>2. i > 1 => ancestors(o.target)[i - 1] \in Urls
    BY <1>1, <1>2, AncestorsAreContainers DEF Containers
  <2> QED BY <1>1, <2>1, <2>2 DEF PlanStep
<1>4. Levels(o, seen) \in Nat
  BY <1>2
<1> QED BY <1>3, <1>4 DEF Plan

-----------------------------------------------------------------------------
(* Types *)

\* The store's half of TypeOK.
StoreOK ==
  /\ present \in SUBSET Urls
  /\ contains \in [Containers -> SUBSET Urls]
  /\ typed \in SUBSET Containers
  /\ marked \in SUBSET Urls
  /\ doc \in [Urls -> Docs]

\* The requests' half, the operation and the history variable aside.
LocalOK ==
  /\ pc \in [Reqs -> Labels]
  /\ snap \in [Reqs -> [present : SUBSET Urls, acls : SUBSET Urls]]
  /\ plan \in [Reqs -> Seq(PlanStep)]
  /\ kept \in [Reqs -> SUBSET Urls]
  /\ saw \in [Reqs -> BOOLEAN]
  /\ reply \in [Reqs -> Replies]

\* TypeOK in halves.
LEMMA Halves ==
  TypeOK <=> /\ StoreOK /\ LocalOK
             /\ op \in [Reqs -> Operation] /\ landed \in [Reqs -> BOOLEAN]
BY DEF TypeOK, StoreOK, LocalOK

\* A request that holds nothing more than its operation is well typed.
LEMMA BlankTypes ==
  ASSUME IInv, NEW r \in Reqs, Blank(r)
  PROVE  /\ snap' \in [Reqs -> [present : SUBSET Urls, acls : SUBSET Urls]]
         /\ plan' \in [Reqs -> Seq(PlanStep)]
         /\ kept' \in [Reqs -> SUBSET Urls]
         /\ saw' \in [Reqs -> BOOLEAN]
         /\ \A q \in Reqs \ {r} : plan'[q] = plan[q]
<1>1. NoSnap \in [present : SUBSET Urls, acls : SUBSET Urls]
  BY DEF NoSnap
<1>2. <<>> \in Seq(PlanStep)
  OBVIOUS
<1> QED BY <1>1, <1>2 DEF Blank, IInv, TypeOK

\* A handler that returns leaves well-typed locals.
LEMMA AnswerTypes ==
  ASSUME IInv, NEW r \in Reqs, NEW what \in Replies, Answer(r, what), op' = op
  PROVE  LocalOK' /\ Fitting'
<1>1. Blank(r) /\ pc' = [pc EXCEPT ![r] = "replied"] /\ reply' = [reply EXCEPT ![r] = what]
  BY DEF Answer, Goto
<1>2. pc' \in [Reqs -> Labels] /\ reply' \in [Reqs -> Replies]
  BY <1>1 DEF IInv, TypeOK, Labels
<1>3. LocalOK'
  BY <1>1, <1>2, BlankTypes DEF LocalOK
<1>4. ASSUME NEW q \in Reqs PROVE Fits(q)'
  <2>1. CASE q = r
    BY <1>1, <2>1 DEF Fits, IInv, TypeOK
  <2>2. CASE q # r
    <3>1. plan'[q] = plan[q] /\ pc'[q] = pc[q]
      BY <1>1, <2>2, BlankTypes DEF IInv, TypeOK
    <3> QED BY <3>1 DEF Fits, Fitting, IInv
  <2> QED BY <2>1, <2>2
<1> QED BY <1>3, <1>4 DEF Fitting

\* So does one that goes on with nothing but its operation.
LEMMA ProceedTypes ==
  ASSUME IInv, NEW r \in Reqs, NEW l \in Labels, Proceed(r, l),
         l \in Free \/ (l = "type" /\ op'[r].target \in Containers),
         \A q \in Reqs \ {r} : op'[q] = op[q]
  PROVE  LocalOK' /\ Fitting'
<1>1. Blank(r) /\ pc' = [pc EXCEPT ![r] = l] /\ reply' = reply
  BY DEF Proceed, Goto
<1>2. pc' \in [Reqs -> Labels] /\ reply' \in [Reqs -> Replies]
  BY <1>1 DEF IInv, TypeOK
<1>3. LocalOK'
  BY <1>1, <1>2, BlankTypes DEF LocalOK
<1>4. ASSUME NEW q \in Reqs PROVE Fits(q)'
  <2>1. CASE q = r
    BY <1>1, <2>1 DEF Fits, Free, IInv, TypeOK
  <2>2. CASE q # r
    <3>1. plan'[q] = plan[q] /\ pc'[q] = pc[q] /\ op'[q] = op[q]
      BY <1>1, <2>2, BlankTypes DEF IInv, TypeOK
    <3> QED BY <3>1 DEF Fits, Fitting, IInv
  <2> QED BY <2>1, <2>2
<1> QED BY <1>3, <1>4 DEF Fitting

\* So does one that only moves to another store call.
LEMMA GotoTypes ==
  ASSUME IInv, NEW r \in Reqs, NEW l \in Free, Goto(r, l),
         plan' = plan, \A q \in Reqs \ {r} : op'[q] = op[q]
  PROVE  pc' \in [Reqs -> Labels] /\ Fitting'
<1>1. pc' = [pc EXCEPT ![r] = l] /\ l \in Labels
  BY DEF Goto, Free
<1>2. pc' \in [Reqs -> Labels]
  BY <1>1 DEF IInv, TypeOK
<1>3. ASSUME NEW q \in Reqs PROVE Fits(q)'
  <2>1. CASE q = r
    BY <1>1, <2>1 DEF Fits, Free, IInv, TypeOK
  <2>2. CASE q # r
    BY <1>1, <2>2 DEF Fits, Fitting, IInv, TypeOK
  <2> QED BY <2>1, <2>2
<1> QED BY <1>2, <1>3 DEF Fitting

\* The write after the walk has the target its label promises.
LEMMA WriteLabelFits ==
  ASSUME NEW o \in Operation
  PROVE  /\ WriteLabel(o) \in Labels \ {"ensure", "link", "type"}
         /\ WriteLabel(o) \in {"members", "replace"} => o.target \in Containers
<1>1. o.target \in Urls
  BY DEF Operation
<1>2. CASE IsAux(o)
  BY <1>2 DEF WriteLabel, Labels
<1>3. CASE ~IsAux(o) /\ ~o.target.slash
  BY <1>3 DEF WriteLabel, Labels
<1>4. CASE ~IsAux(o) /\ o.target.slash
  <2>1. o.target \in Containers
    BY <1>1, <1>4 DEF Containers
  <2> QED BY <1>4, <2>1 DEF WriteLabel, Labels
<1> QED BY <1>2, <1>3, <1>4

\* The walk moves on to its next step or to the write.
LEMMA AdvanceTypes ==
  ASSUME IInv, NEW r \in Reqs, plan[r] # <<>>, Advance(r), op' = op
  PROVE  /\ pc' \in [Reqs -> Labels]
         /\ plan' \in [Reqs -> Seq(PlanStep)]
         /\ Fitting'
<1> DEFINE l == IF Len(plan[r]) = 1 THEN WriteLabel(op[r]) ELSE "ensure"
<1>1. /\ pc' = [pc EXCEPT ![r] = l]
      /\ plan' = [plan EXCEPT ![r] = Tail(plan[r])]
  BY DEF Advance, Goto
<1>2. op[r] \in Operation /\ plan[r] \in Seq(PlanStep)
  BY DEF IInv, TypeOK
<1>3. Tail(plan[r]) \in Seq(PlanStep) /\ Len(Tail(plan[r])) = Len(plan[r]) - 1
  BY <1>2, HeadTailProperties
<1>4. Len(plan[r]) # 1 => Tail(plan[r]) # <<>>
  <2>1. Len(<<>>) = 0
    BY EmptySeq
  <2>2. Len(plan[r]) \in Nat
    BY <1>2, LenProperties
  <2>3. Len(plan[r]) # 1 => Len(plan[r]) - 1 # 0
    BY <2>2
  <2>4. Len(plan[r]) # 1 => Len(Tail(plan[r])) # Len(<<>>)
    BY <1>3, <2>1, <2>3, Zenon
  <2> QED BY <2>4, Zenon
<1>5. /\ l \in Labels \ {"link", "type"}
      /\ l = "ensure" => Tail(plan[r]) # <<>>
      /\ l \in {"members", "replace"} => op[r].target \in Containers
  BY <1>2, <1>4, WriteLabelFits DEF Labels
<1> HIDE DEF l
<1>6. pc' \in [Reqs -> Labels] /\ plan' \in [Reqs -> Seq(PlanStep)]
  BY <1>1, <1>3, <1>5 DEF IInv, TypeOK
<1>7. ASSUME NEW q \in Reqs PROVE Fits(q)'
  <2>1. CASE q = r
    BY <1>1, <1>5, <2>1 DEF Fits, IInv, TypeOK
  <2>2. CASE q # r
    BY <1>1, <2>2 DEF Fits, Fitting, IInv, TypeOK
  <2> QED BY <2>1, <2>2
<1> QED BY <1>6, <1>7 DEF Fitting

\* The operation a request starts with, or is renamed to, is an operation.
LEMMA RequestsAreOperations == Requests \subseteq Operation
<1> SUFFICES ASSUME NEW o \in Requests PROVE o \in Operation
  OBVIOUS
<1>1. CASE o \in SubjectRequests
  <2>1. \A u \in Urls \ {Root} : parent(u) \in Urls
    BY ParentIsThere
  <2>2. {} \in Docs /\ {} \in SUBSET Parts
    BY DEF Docs
  <2>3. ASSUME NEW m \in {"PUT", "DELETE"}, NEW u \in Urls, NEW a \in Callers,
               o = [method |-> m, target |-> u, slug |-> u, agent |-> a,
                    parts |-> {}, add |-> {}, del |-> {}]
        PROVE  o \in Operation
    BY <2>2, <2>3, PodAssumption DEF Operation, SubjectMethods
  <2>4. ASSUME NEW u \in Urls \ {Root}, NEW a \in Callers,
               o = [method |-> "POST", target |-> parent(u), slug |-> u, agent |-> a,
                    parts |-> {}, add |-> {}, del |-> {}]
        PROVE  o \in Operation
    BY <2>1, <2>2, <2>4, PodAssumption DEF Operation, SubjectMethods
  <2>5. ASSUME NEW u \in Urls, NEW a \in Callers, NEW n \in PatchParts,
               o = [method |-> "PATCH", target |-> u, slug |-> u, agent |-> a,
                    parts |-> n, add |-> {}, del |-> {}]
        PROVE  o \in Operation
    BY <2>2, <2>5, PodAssumption DEF Operation, SubjectMethods
  <2> QED BY <1>1, <2>3, <2>4, <2>5 DEF SubjectRequests
<1>2. CASE o \in AclRequests
  <2>1. \A d \in AclDocs : d \in Docs
    BY PodAssumption DEF Docs
  <2>2. \A p \in AclPatches : p.add \in Docs /\ p.del \in Docs
    BY PodAssumption DEF Docs
  <2>3. {} \in Docs /\ {} \in SUBSET Parts
    BY DEF Docs
  <2>4. ASSUME NEW u \in AclUrls, NEW a \in Callers, NEW d \in AclDocs,
               o = [method |-> "PUT_acl", target |-> u, slug |-> u, agent |-> a,
                    parts |-> {}, add |-> d, del |-> {}]
        PROVE  o \in Operation
    BY <2>1, <2>3, <2>4, PodAssumption DEF Operation, AuxMethods
  <2>5. ASSUME NEW u \in AclUrls, NEW a \in Callers, NEW p \in AclPatches,
               o = [method |-> "PATCH_acl", target |-> u, slug |-> u, agent |-> a,
                    parts |-> {}, add |-> p.add, del |-> p.del]
        PROVE  o \in Operation
    BY <2>2, <2>3, <2>5, PodAssumption DEF Operation, AuxMethods
  <2>6. ASSUME NEW u \in AclUrls, NEW a \in Callers,
               o = [method |-> "DELETE_acl", target |-> u, slug |-> u, agent |-> a,
                    parts |-> {}, add |-> {}, del |-> {}]
        PROVE  o \in Operation
    BY <2>3, <2>6, PodAssumption DEF Operation, AuxMethods
  <2> QED BY <1>2, <2>4, <2>5, <2>6 DEF AclRequests
<1> QED BY <1>1, <1>2 DEF Requests

\* What a slot is left with between requests.
LEMMA NoOpIsOperation == NoOp \in Operation
BY SpaceAssumption DEF NoOp, Operation, SubjectMethods, Agents, Docs, Parts

\* A slot that forgets its request is well typed.
LEMMA ForgetTypes ==
  ASSUME IInv, NEW r \in Reqs, Forget(r)
  PROVE  /\ LocalOK' /\ Fitting'
         /\ op' \in [Reqs -> Operation] /\ landed' \in [Reqs -> BOOLEAN]
<1>1. /\ Blank(r) /\ pc' = [pc EXCEPT ![r] = "idle"]
      /\ reply' = [reply EXCEPT ![r] = "none"]
      /\ op' = [op EXCEPT ![r] = NoOp]
      /\ landed' = [landed EXCEPT ![r] = FALSE]
  BY DEF Forget, Goto
<1>2. pc' \in [Reqs -> Labels] /\ reply' \in [Reqs -> Replies]
  BY <1>1 DEF IInv, TypeOK, Labels, Replies
<1>3. LocalOK'
  BY <1>1, <1>2, BlankTypes DEF LocalOK
<1>4. op' \in [Reqs -> Operation] /\ landed' \in [Reqs -> BOOLEAN]
  BY <1>1, NoOpIsOperation DEF IInv, TypeOK
<1>5. ASSUME NEW q \in Reqs PROVE Fits(q)'
  <2>1. CASE q = r
    BY <1>1, <2>1 DEF Fits, IInv, TypeOK
  <2>2. CASE q # r
    <3>1. plan'[q] = plan[q] /\ pc'[q] = pc[q] /\ op'[q] = op[q]
      BY <1>1, <2>2, BlankTypes DEF IInv, TypeOK
    <3> QED BY <3>1 DEF Fits, Fitting, IInv
  <2> QED BY <2>1, <2>2
<1> QED BY <1>3, <1>4, <1>5 DEF Fitting

\* The calls that only read, the refusals and the ends of a request leave the
\* store alone and their locals well typed.
LEMMA ReadsKeepTypes ==
  ASSUME IInv, NEW r \in Reqs,
         \/ ProbeMarkers(r) \/ Deny(r) \/ Refuse(r) \/ ReadMembers(r)
         \/ DecidePatch(r) \/ DecidePost(r) \/ Rename(r) \/ Confirm(r)
         \/ DecideAux(r) \/ AclThere(r) \/ AskDeletions(r) \/ AclFound(r)
         \/ DecideDelete(r) \/ IsEmpty(r) \/ Found(r) \/ Close(r) \/ Fail(r)
         \/ Start(r)
  PROVE  IInv'
<1>0. op[r] \in Operation /\ op[r].target \in Urls /\ pc[r] \in Labels
  BY DEF IInv, TypeOK, Operation
<1>s. UNCHANGED store => StoreOK'
  BY DEF IInv, TypeOK, StoreOK, store
<1>o. UNCHANGED <<op, landed>> =>
        op' \in [Reqs -> Operation] /\ landed' \in [Reqs -> BOOLEAN]
  BY DEF IInv, TypeOK
<1> USE DEF Replies
<1>1. CASE ProbeMarkers(r)
  <2> DEFINE l == IF pc[r] = "markers" THEN "acls" ELSE "child_acls"
  <2>1. l \in Free
    BY DEF Free, Labels
  <2>2. /\ Goto(r, l) /\ UNCHANGED <<store, op, plan, kept, saw, landed, reply>>
        /\ snap' = [snap EXCEPT ![r] =
                [present |-> present \cap Probed(op[r].target),
                 acls |-> marked \cap ChainSet(op[r].target)]]
    BY <1>1 DEF ProbeMarkers
  <2>3. snap' \in [Reqs -> [present : SUBSET Urls, acls : SUBSET Urls]]
    BY <2>2 DEF IInv, TypeOK
  <2> HIDE DEF l
  <2>4. pc' \in [Reqs -> Labels] /\ Fitting'
    BY <2>1, <2>2, GotoTypes
  <2>5. LocalOK'
    BY <2>2, <2>3, <2>4 DEF LocalOK, IInv, TypeOK
  <2> QED BY <1>s, <1>o, <2>2, <2>4, <2>5, Halves DEF IInv, TypeOK, StoreOK, LocalOK
<1>2. CASE Deny(r) \/ Refuse(r) \/ Confirm(r)
  <2>1. /\ \E what \in Replies : Answer(r, what)
        /\ UNCHANGED <<store, op, landed>>
    BY <1>2 DEF Deny, Refuse, Confirm
  <2>2. LocalOK' /\ Fitting'
    BY <2>1, AnswerTypes
  <2> QED BY <1>s, <1>o, <2>1, <2>2 DEF IInv, TypeOK, StoreOK, LocalOK
<1>3. CASE DecidePatch(r) \/ DecideAux(r) \/ AclThere(r) \/ DecideDelete(r) \/ IsEmpty(r)
  <2>1. /\ \/ \E what \in Replies : Answer(r, what)
           \/ \E l \in {"patch", "acl_there", "acl_found", "acl_ask", "empty", "found"} :
                Proceed(r, l)
        /\ UNCHANGED <<store, op, landed>>
    BY <1>3 DEF DecidePatch, DecideAux, AclThere, DecideDelete, IsEmpty
  <2>2. CASE \E what \in Replies : Answer(r, what)
    BY <1>s, <1>o, <2>1, <2>2, AnswerTypes DEF IInv, TypeOK, StoreOK, LocalOK
  <2>3. CASE \E l \in {"patch", "acl_there", "acl_found", "acl_ask", "empty", "found"} :
                Proceed(r, l)
    <3>1. PICK l \in Free : Proceed(r, l)
      BY <2>3 DEF Free, Labels
    <3>2. LocalOK' /\ Fitting'
      BY <2>1, <3>1, ProceedTypes DEF Free
    <3> QED BY <1>s, <1>o, <2>1, <3>2 DEF IInv, TypeOK, StoreOK, LocalOK
  <2> QED BY <2>1, <2>2, <2>3
<1>4. CASE DecidePost(r) \/ Rename(r)
  <2>1. PICK u \in Urls : op' = [op EXCEPT ![r].target = u]
    BY <1>0, <1>4, PodAssumption DEF DecidePost, Rename, Operation
  <2>2. Proceed(r, "child_markers") /\ UNCHANGED <<store, landed>>
    BY <1>4 DEF DecidePost, Rename
  <2>3. op' \in [Reqs -> Operation] /\ \A q \in Reqs \ {r} : op'[q] = op[q]
    BY <2>1 DEF IInv, TypeOK, Operation
  <2>4. "child_markers" \in Free /\ "child_markers" \in Labels
    BY DEF Free, Labels
  <2>5. LocalOK' /\ Fitting'
    BY <2>2, <2>3, <2>4, ProceedTypes
  <2> QED BY <1>s, <2>2, <2>3, <2>5 DEF IInv, TypeOK, StoreOK, LocalOK
<1>5. CASE AskDeletions(r)
  <2>1. UNCHANGED <<store, op, landed>>
    BY <1>5 DEF AskDeletions
  <2>2. CASE \E what \in Replies : Answer(r, what)
    BY <1>s, <1>o, <2>1, <2>2, AnswerTypes DEF IInv, TypeOK, StoreOK, LocalOK
  <2>3. CASE /\ saw' = [saw EXCEPT ![r] = op[r].del \subseteq doc[op[r].target]]
             /\ Goto(r, "patch_acl") /\ UNCHANGED <<snap, plan, kept, reply>>
    <3>1. "patch_acl" \in Free
      BY DEF Free, Labels
    <3>2. pc' \in [Reqs -> Labels] /\ Fitting'
      BY <2>1, <2>3, <3>1, GotoTypes
    <3>3. saw' \in [Reqs -> BOOLEAN]
      BY <2>3 DEF IInv, TypeOK
    <3> QED BY <1>s, <1>o, <2>1, <2>3, <3>2, <3>3 DEF IInv, TypeOK, StoreOK
  <2> QED BY <1>5, <2>2, <2>3 DEF AskDeletions
<1>6. CASE AclFound(r) \/ Found(r)
  <2>1. /\ UNCHANGED <<store, op, snap, plan, kept, landed, reply>>
        /\ Goto(r, "delete_acl") \/ Goto(r, "delete")
    BY <1>6 DEF AclFound, Found
  <2>2. saw' \in [Reqs -> BOOLEAN]
    <3>1. CASE saw' = [saw EXCEPT ![r] = op[r].target \in marked]
      BY <3>1 DEF IInv, TypeOK
    <3>2. CASE saw' = [saw EXCEPT ![r] = op[r].target \in present]
      BY <3>2 DEF IInv, TypeOK
    <3> QED BY <1>6, <3>1, <3>2 DEF AclFound, Found
  <2>3. "delete_acl" \in Free /\ "delete" \in Free
    BY DEF Free, Labels
  <2>4. pc' \in [Reqs -> Labels] /\ Fitting'
    BY <2>1, <2>3, GotoTypes
  <2> QED BY <1>s, <1>o, <2>1, <2>2, <2>4 DEF IInv, TypeOK, StoreOK
<1>7. CASE ReadMembers(r)
  <2>1. /\ UNCHANGED <<store, op, snap, plan, saw, landed, reply>>
        /\ pc[r] = "members" /\ pc' = [pc EXCEPT ![r] = "replace"]
    BY <1>7 DEF ReadMembers, Goto
  <2>2. op[r].target \in Containers
    BY <2>1 DEF IInv, Fitting, Fits
  <2>3. kept' \in [Reqs -> SUBSET Urls]
    BY <1>7, <2>2 DEF ReadMembers, IInv, TypeOK
  <2>4. pc' \in [Reqs -> Labels]
    BY <2>1 DEF IInv, TypeOK, Labels
  <2>5. Fitting'
    BY <2>1, <2>2 DEF IInv, TypeOK, Fitting, Fits
  <2> QED BY <1>s, <1>o, <2>1, <2>3, <2>4, <2>5 DEF IInv, TypeOK, StoreOK
<1>8. CASE Close(r) \/ Fail(r)
  <2>1. Forget(r) /\ UNCHANGED store
    BY <1>8 DEF Close, Fail
  <2> QED BY <1>s, <2>1, ForgetTypes DEF IInv, TypeOK, StoreOK, LocalOK
<1>9. CASE Start(r)
  <2>1. PICK o \in Operation : op' = [op EXCEPT ![r] = o]
    BY <1>9, RequestsAreOperations DEF Start
  <2>2. Goto(r, "markers") /\ UNCHANGED <<store, snap, plan, kept, saw, landed, reply>>
    BY <1>9 DEF Start, scratch
  <2>3. op' \in [Reqs -> Operation] /\ \A q \in Reqs \ {r} : op'[q] = op[q]
    BY <2>1 DEF IInv, TypeOK
  <2>4. "markers" \in Free
    BY DEF Free, Labels
  <2>5. pc' \in [Reqs -> Labels] /\ Fitting'
    BY <2>2, <2>3, <2>4, GotoTypes
  <2> QED BY <1>s, <2>2, <2>3, <2>5 DEF IInv, TypeOK, StoreOK
<1> QED BY <1>1, <1>2, <1>3, <1>4, <1>5, <1>6, <1>7, <1>8, <1>9

\* Planning the walk leaves a plan with a step for every level, or none to walk.
LEMMA MaterializeKeepsTypes ==
  ASSUME IInv, NEW r \in Reqs, Materialize(r)
  PROVE  IInv'
<1>0. op[r] \in Operation
  BY DEF IInv, TypeOK
<1>1. UNCHANGED <<store, op, landed>>
  BY DEF Materialize
<1>2. CASE Answer(r, "denied")
  BY <1>1, <1>2, AnswerTypes DEF IInv, TypeOK, LocalOK, Replies, store
<1>3. CASE /\ plan' = [plan EXCEPT ![r] = Plan(op[r], snap[r])]
           /\ Goto(r, IF Levels(op[r], snap[r]) = 0 THEN WriteLabel(op[r]) ELSE "ensure")
           /\ snap' = [snap EXCEPT ![r] = NoSnap]
           /\ UNCHANGED <<kept, saw, reply>>
  <2> DEFINE p == Plan(op[r], snap[r])
             l == IF Levels(op[r], snap[r]) = 0 THEN WriteLabel(op[r]) ELSE "ensure"
  <2>1. p \in Seq(PlanStep) /\ (Levels(op[r], snap[r]) # 0 => p # <<>>)
    <3>1. /\ p \in Seq(PlanStep) /\ Len(p) = Levels(op[r], snap[r])
      BY <1>0, PlanIsPlan
    <3>2. Len(<<>>) = 0
      BY EmptySeq
    <3> QED BY <3>1, <3>2, Zenon
  <2>2. /\ l \in Labels \ {"link", "type"}
        /\ l = "ensure" => p # <<>>
        /\ l \in {"members", "replace"} => op[r].target \in Containers
    BY <1>0, <2>1, WriteLabelFits DEF Labels
  <2>3. pc' = [pc EXCEPT ![r] = l] /\ plan' = [plan EXCEPT ![r] = p]
    BY <1>3 DEF Goto
  <2>4. NoSnap \in [present : SUBSET Urls, acls : SUBSET Urls]
    BY DEF NoSnap
  <2> HIDE DEF p, l
  <2>5. TypeOK'
    BY <1>1, <1>3, <2>1, <2>2, <2>3, <2>4 DEF IInv, TypeOK, store
  <2>6. ASSUME NEW q \in Reqs PROVE Fits(q)'
    <3>1. CASE q = r
      BY <1>1, <2>2, <2>3, <3>1 DEF Fits, IInv, TypeOK
    <3>2. CASE q # r
      BY <1>1, <2>3, <3>2 DEF Fits, Fitting, IInv, TypeOK
    <3> QED BY <3>1, <3>2
  <2> QED BY <2>5, <2>6 DEF IInv, Fitting
<1> QED BY <1>2, <1>3 DEF Materialize

\* Every update leaves a well-typed store.
LEMMA WritesKeepTypes ==
  ASSUME IInv, NEW r \in Reqs,
         \/ EnsureAncestor(r) \/ LinkChild(r) \/ WriteResource(r)
         \/ ReplaceContainer(r) \/ TypeContainer(r) \/ PatchExisting(r)
         \/ WriteAcl(r) \/ PatchAcl(r) \/ DeleteAcl(r) \/ DeleteSubject(r)
  PROVE  IInv'
<1>0. op[r] \in Operation /\ op[r].target \in Urls /\ op[r].add \in Docs /\ op[r].del \in Docs
  BY DEF IInv, TypeOK, Operation
<1>h. pc[r] \in {"ensure", "link"} =>
        plan[r] # <<>> /\ Head(plan[r]).at \in Containers
  <2>1. ASSUME pc[r] \in {"ensure", "link"}
        PROVE  plan[r] # <<>> /\ Head(plan[r]).at \in Containers
    <3>1. plan[r] # <<>> /\ plan[r] \in Seq(PlanStep)
      BY <2>1 DEF IInv, TypeOK, Fitting, Fits
    <3>2. Head(plan[r]) \in PlanStep
      BY <3>1, HeadTailProperties
    <3> QED BY <3>1, <3>2 DEF PlanStep
  <2> QED BY <2>1
<1>u. Containers \subseteq Urls
  BY DEF Containers
<1>1. CASE EnsureAncestor(r)
  <2>1. Head(plan[r]).at \in Containers /\ plan[r] # <<>> /\ pc[r] = "ensure"
    BY <1>1, <1>h DEF EnsureAncestor
  <2>2. present' \in SUBSET Urls /\ typed' \in SUBSET Containers
    BY <1>1, <1>u, <2>1 DEF EnsureAncestor, IInv, TypeOK
  <2>3. UNCHANGED <<contains, marked, doc, op, snap, kept, saw, landed, reply>>
    BY <1>1 DEF EnsureAncestor
  <2>4. /\ pc' \in [Reqs -> Labels]
        /\ plan' \in [Reqs -> Seq(PlanStep)]
        /\ Fitting'
    <3>1. CASE Advance(r)
      BY <2>1, <2>3, <3>1, AdvanceTypes
    <3>2. CASE Head(plan[r]).child # NoUrl /\ Goto(r, "link") /\ UNCHANGED plan
      <4>1. Head(plan[r]).child \in Urls
        <5>1. plan[r] \in Seq(PlanStep)
          BY DEF IInv, TypeOK
        <5>2. Head(plan[r]) \in PlanStep
          BY <2>1, <5>1, HeadTailProperties
        <5> QED BY <3>2, <5>2 DEF PlanStep
      <4>2. pc' = [pc EXCEPT ![r] = "link"]
        BY <3>2 DEF Goto
      <4>3. ASSUME NEW q \in Reqs PROVE Fits(q)'
        <5>1. CASE q = r
          BY <2>1, <2>3, <3>2, <4>1, <4>2, <5>1 DEF Fits, IInv, TypeOK
        <5>2. CASE q # r
          BY <2>3, <3>2, <4>2, <5>2 DEF Fits, Fitting, IInv, TypeOK
        <5> QED BY <5>1, <5>2
      <4> QED BY <3>2, <4>2, <4>3 DEF IInv, TypeOK, Fitting, Labels
    <3> QED BY <1>1, <3>1, <3>2 DEF EnsureAncestor
  <2> QED BY <2>2, <2>3, <2>4 DEF IInv, TypeOK
<1>2. CASE LinkChild(r)
  <2>1. /\ Head(plan[r]).at \in Containers /\ plan[r] # <<>> /\ pc[r] = "link"
        /\ Head(plan[r]).child \in Urls
    BY <1>2, <1>h DEF LinkChild, IInv, Fitting, Fits
  <2>2. present' \in SUBSET Urls
    BY <1>2, <1>u, <2>1 DEF LinkChild, IInv, TypeOK
  <2>3. contains' \in [Containers -> SUBSET Urls]
    <3>1. contains[Head(plan[r]).at] \cup {Head(plan[r]).child} \in SUBSET Urls
      BY <2>1 DEF IInv, TypeOK
    <3> QED BY <1>2, <3>1 DEF LinkChild, IInv, TypeOK
  <2>4. Advance(r) /\ UNCHANGED <<typed, marked, doc, op, snap, kept, saw, landed, reply>>
    BY <1>2 DEF LinkChild
  <2>5. /\ pc' \in [Reqs -> Labels]
        /\ plan' \in [Reqs -> Seq(PlanStep)]
        /\ Fitting'
    BY <2>1, <2>4, AdvanceTypes
  <2> QED BY <2>2, <2>3, <2>4, <2>5 DEF IInv, TypeOK
<1>3. CASE WriteResource(r)
  <2>1. Answer(r, "ok") /\ UNCHANGED <<contains, typed, marked, doc, op, landed>>
        /\ present' = present \cup {op[r].target}
    BY <1>3 DEF WriteResource
  <2>2. LocalOK' /\ Fitting'
    BY <2>1, AnswerTypes DEF Replies
  <2> QED BY <1>0, <2>1, <2>2 DEF IInv, TypeOK, LocalOK
<1>4. CASE ReplaceContainer(r)
  <2>1. /\ pc[r] = "replace" /\ pc' = [pc EXCEPT ![r] = "type"]
        /\ UNCHANGED <<marked, doc, op, snap, plan, kept, landed, reply>>
        /\ saw' = [saw EXCEPT ![r] = TRUE]
    BY <1>4 DEF ReplaceContainer, Goto
  <2>2. op[r].target \in Containers
    BY <2>1 DEF IInv, Fitting, Fits
  <2>3. /\ present' \in SUBSET Urls /\ typed' \in SUBSET Containers
        /\ contains' \in [Containers -> SUBSET Urls]
    BY <1>0, <1>4, <2>2 DEF ReplaceContainer, IInv, TypeOK
  <2>4. pc' \in [Reqs -> Labels]
    BY <2>1 DEF IInv, TypeOK, Labels
  <2>5. Fitting'
    BY <2>1, <2>2 DEF IInv, TypeOK, Fitting, Fits
  <2>6. saw' \in [Reqs -> BOOLEAN]
    BY <2>1 DEF IInv, TypeOK
  <2> QED BY <2>1, <2>3, <2>4, <2>5, <2>6 DEF IInv, TypeOK
<1>5. CASE TypeContainer(r)
  <2>1. op[r].target \in Containers
    BY <1>5 DEF TypeContainer, IInv, Fitting, Fits
  <2>2. /\ UNCHANGED <<contains, marked, doc, op, landed>>
        /\ \E what \in Replies : Answer(r, what)
        /\ present' = present \cup {op[r].target} /\ typed' = typed \cup {op[r].target}
    BY <1>5 DEF TypeContainer, Replies
  <2>3. LocalOK' /\ Fitting'
    BY <2>2, AnswerTypes
  <2> QED BY <1>0, <2>1, <2>2, <2>3 DEF IInv, TypeOK, LocalOK
<1>6. CASE PatchExisting(r)
  <2>1. UNCHANGED <<present, contains, marked, doc, op, landed>>
    BY <1>6 DEF PatchExisting
  <2>2. CASE op[r].target.slash
    <3>1. op[r].target \in Containers
      BY <1>0, <2>2 DEF Containers
    <3>2. PICK applied \in BOOLEAN :
            /\ typed' \in IF applied THEN {typed, typed \ {op[r].target}, typed \cup {op[r].target}}
                          ELSE {typed}
            /\ saw' = [saw EXCEPT ![r] = applied]
            /\ Goto(r, "type")
            /\ UNCHANGED <<snap, plan, kept, reply>>
      BY <1>6, <2>2, Zenon DEF PatchExisting
    <3>3. typed' \in SUBSET Containers
      BY <3>1, <3>2 DEF IInv, TypeOK
    <3>4. saw' \in [Reqs -> BOOLEAN]
      BY <3>2 DEF IInv, TypeOK
    <3>5. pc' = [pc EXCEPT ![r] = "type"]
      BY <3>2 DEF Goto
    <3>6. pc' \in [Reqs -> Labels]
      BY <3>5 DEF IInv, TypeOK, Labels
    <3>7. Fitting'
      BY <2>1, <3>1, <3>2, <3>5 DEF IInv, TypeOK, Fitting, Fits
    <3> QED BY <2>1, <3>2, <3>3, <3>4, <3>6, <3>7 DEF IInv, TypeOK
  <2>3. CASE ~op[r].target.slash
    <3>1. /\ \E what \in Replies : Answer(r, what)
          /\ UNCHANGED typed
      BY <1>6, <2>3 DEF PatchExisting, Replies
    <3>2. LocalOK' /\ Fitting'
      BY <2>1, <3>1, AnswerTypes
    <3> QED BY <2>1, <3>1, <3>2 DEF IInv, TypeOK, LocalOK
  <2> QED BY <2>2, <2>3
<1>7. CASE WriteAcl(r) \/ PatchAcl(r)
  <2>1. /\ UNCHANGED <<present, contains, typed, op, snap, plan, kept, saw, reply>>
        /\ Goto(r, "confirm")
    BY <1>7 DEF WriteAcl, PatchAcl, scratch
  <2>2. marked' \in SUBSET Urls
    BY <1>0, <1>7 DEF WriteAcl, PatchAcl, IInv, TypeOK
  <2>3. doc' \in [Urls -> Docs]
    <3>1. CASE \E d \in Docs : doc' = [doc EXCEPT ![op[r].target] = d]
      BY <3>1 DEF IInv, TypeOK
    <3>2. (doc[op[r].target] \ op[r].del) \cup op[r].add \in Docs
      BY <1>0 DEF IInv, TypeOK, Docs
    <3> QED BY <1>0, <1>7, <3>1, <3>2 DEF WriteAcl, PatchAcl, IInv, TypeOK
  <2>4. landed' \in [Reqs -> BOOLEAN]
    <3>1. CASE WriteAcl(r)
      BY <3>1 DEF WriteAcl, IInv, TypeOK
    <3>2. CASE PatchAcl(r)
      BY <3>2 DEF PatchAcl, IInv, TypeOK
    <3> QED BY <1>7, <3>1, <3>2
  <2>5. "confirm" \in Free
    BY DEF Free, Labels
  <2>6. pc' \in [Reqs -> Labels] /\ Fitting'
    BY <2>1, <2>5, GotoTypes
  <2> QED BY <2>1, <2>2, <2>3, <2>4, <2>6 DEF IInv, TypeOK
<1>8. CASE DeleteAcl(r)
  <2>1. /\ UNCHANGED <<present, contains, typed, op, landed>>
        /\ \E what \in Replies : Answer(r, what)
        /\ marked' = marked \ {op[r].target}
        /\ doc' = [doc EXCEPT ![op[r].target] = {}]
    BY <1>8 DEF DeleteAcl, Replies
  <2>2. LocalOK' /\ Fitting'
    BY <2>1, AnswerTypes
  <2> QED BY <2>1, <2>2 DEF IInv, TypeOK, LocalOK, Docs
<1>9. CASE DeleteSubject(r)
  <2>1. /\ UNCHANGED <<op, landed>>
        /\ \E what \in Replies : Answer(r, what)
        /\ present' = present \ {op[r].target} /\ typed' = typed \ {op[r].target}
        /\ contains' = Unlinked(op[r].target)
        /\ marked' = marked \ {op[r].target}
        /\ doc' = [doc EXCEPT ![op[r].target] = {}]
    BY <1>9 DEF DeleteSubject, Replies
  <2>2. LocalOK' /\ Fitting'
    BY <2>1, AnswerTypes
  <2>3. contains' \in [Containers -> SUBSET Urls]
    BY <2>1 DEF Unlinked, IInv, TypeOK
  <2> QED BY <2>1, <2>2, <2>3 DEF IInv, TypeOK, LocalOK, Docs
<1> QED BY <1>1, <1>2, <1>3, <1>4, <1>5, <1>6, <1>7, <1>8, <1>9

\* A restart finds the store as it was and provisions the root.
LEMMA RestartKeepsTypes ==
  ASSUME IInv, Restart
  PROVE  IInv'
<1>1. /\ Root \in Containers /\ Root \in Urls /\ OwnerDoc \in Docs
  BY SpaceAssumption, PodAssumption DEF Containers, Root, Docs
<1>2. /\ present' \in SUBSET Urls /\ typed' \in SUBSET Containers
      /\ marked' \in SUBSET Urls /\ doc' \in [Urls -> Docs]
      /\ contains' \in [Containers -> SUBSET Urls]
  BY <1>1 DEF Restart, IInv, TypeOK
<1>3. /\ NoSnap \in [present : SUBSET Urls, acls : SUBSET Urls]
      /\ <<>> \in Seq(PlanStep) /\ NoOp \in Operation
      /\ "idle" \in Labels /\ "none" \in Replies
  BY NoOpIsOperation DEF NoSnap, Labels, Replies
<1>4. TypeOK'
  BY <1>2, <1>3 DEF Restart, TypeOK
<1>5. Fitting'
  BY DEF Restart, Fitting, Fits
<1> QED BY <1>4, <1>5 DEF IInv

\* Every step preserves the inductive invariant.
LEMMA StepPreserves == IInv /\ [Next]_vars => IInv'
<1> SUFFICES ASSUME IInv, [Next]_vars PROVE IInv'
  OBVIOUS
<1>1. CASE \E r \in Reqs : Start(r) \/ Step(r) \/ Fail(r)
  <2>1. PICK r \in Reqs : Start(r) \/ Step(r) \/ Fail(r)
    BY <1>1
  <2> QED BY <2>1, ReadsKeepTypes, WritesKeepTypes, MaterializeKeepsTypes DEF Step
<1>2. CASE Restart
  BY <1>2, RestartKeepsTypes
<1>3. CASE UNCHANGED vars
  BY <1>3 DEF vars, IInv, TypeOK, Fitting, Fits
<1> QED BY <1>1, <1>2, <1>3 DEF Next

\* A pod just provisioned satisfies it.
LEMMA InitTypes == Init => IInv
<1> SUFFICES ASSUME Init PROVE IInv
  OBVIOUS
<1>1. /\ Root \in Containers /\ Root \in Urls /\ OwnerDoc \in Docs /\ {} \in Docs
  BY SpaceAssumption, PodAssumption DEF Containers, Root, Docs
<1>2. /\ NoSnap \in [present : SUBSET Urls, acls : SUBSET Urls]
      /\ <<>> \in Seq(PlanStep) /\ NoOp \in Operation
      /\ "idle" \in Labels /\ "none" \in Replies
  BY NoOpIsOperation DEF NoSnap, Labels, Replies
<1>3. TypeOK
  BY <1>1, <1>2 DEF Init, TypeOK
<1>4. Fitting
  BY DEF Init, Fitting, Fits
<1> QED BY <1>3, <1>4 DEF IInv

\* Type correctness of the write path: no interleaving of requests and faults
\* takes the store or a request outside its types; the walk of materialize never
\* runs out of steps, and a container's update never names a document.
THEOREM TypeCorrect == Spec => []TypeOK
<1>1. IInv => TypeOK
  BY DEF IInv
<1> QED BY <1>1, InitTypes, StepPreserves, PTL DEF Spec

-----------------------------------------------------------------------------
(* What may change the store *)

\* The ten updates of the handlers and a restart are all that touches the store.
LEMMA StoreSteps ==
  ASSUME IInv, [Next]_vars
  PROVE  \/ UNCHANGED store
         \/ Restart
         \/ \E r \in Reqs :
              \/ EnsureAncestor(r) \/ LinkChild(r) \/ WriteResource(r)
              \/ ReplaceContainer(r) \/ TypeContainer(r) \/ PatchExisting(r)
              \/ WriteAcl(r) \/ PatchAcl(r) \/ DeleteAcl(r) \/ DeleteSubject(r)
<1>1. ASSUME NEW r \in Reqs,
             \/ Start(r) \/ ProbeMarkers(r) \/ Deny(r) \/ Refuse(r) \/ Materialize(r)
             \/ ReadMembers(r) \/ DecidePatch(r) \/ DecidePost(r) \/ Rename(r)
             \/ Confirm(r) \/ DecideAux(r) \/ AclThere(r) \/ AskDeletions(r)
             \/ AclFound(r) \/ DecideDelete(r) \/ IsEmpty(r) \/ Found(r)
             \/ Close(r) \/ Fail(r)
      PROVE  UNCHANGED store
  BY <1>1 DEF Start, ProbeMarkers, Deny, Refuse, Materialize, ReadMembers, DecidePatch,
     DecidePost, Rename, Confirm, DecideAux, AclThere, AskDeletions, AclFound,
     DecideDelete, IsEmpty, Found, Close, Fail
<1>2. UNCHANGED vars => UNCHANGED store
  BY DEF vars, store
<1> QED BY <1>1, <1>2 DEF Next, Step

\* Only the cascade takes a subject's marker away.
LEMMA OnlyDeleteRemoves ==
  ASSUME IInv, [Next]_vars, NEW u \in present, u \notin present'
  PROVE  \E r \in Reqs : DeleteSubject(r) /\ op[r].target = u
<1>1. ASSUME NEW r \in Reqs,
             \/ EnsureAncestor(r) \/ LinkChild(r) \/ WriteResource(r)
             \/ ReplaceContainer(r) \/ TypeContainer(r) \/ PatchExisting(r)
             \/ WriteAcl(r) \/ PatchAcl(r) \/ DeleteAcl(r)
      PROVE  present \subseteq present'
  BY <1>1 DEF EnsureAncestor, LinkChild, WriteResource, ReplaceContainer, TypeContainer,
     PatchExisting, WriteAcl, PatchAcl, DeleteAcl
<1>2. Restart \/ UNCHANGED store => present \subseteq present'
  BY DEF Restart, store
<1>3. PICK r \in Reqs : DeleteSubject(r)
  BY <1>1, <1>2, StoreSteps
<1> QED BY <1>3 DEF DeleteSubject

\* Only an ACL write to a subject that is there, or a restart at the root, marks
\* an ACL present.
LEMMA OnlyAclWriteMarks ==
  ASSUME IInv, [Next]_vars, NEW u \in marked', u \notin marked
  PROVE  \/ \E r \in Reqs : WriteAcl(r) /\ op[r].target = u /\ u \in present
         \/ Restart /\ u = Root
<1>1. ASSUME NEW r \in Reqs,
             \/ EnsureAncestor(r) \/ LinkChild(r) \/ WriteResource(r)
             \/ ReplaceContainer(r) \/ TypeContainer(r) \/ PatchExisting(r)
             \/ PatchAcl(r) \/ DeleteAcl(r) \/ DeleteSubject(r)
      PROVE  marked' \subseteq marked
  BY <1>1 DEF EnsureAncestor, LinkChild, WriteResource, ReplaceContainer, TypeContainer,
     PatchExisting, PatchAcl, DeleteAcl, DeleteSubject
<1>2. UNCHANGED store => marked' \subseteq marked
  BY DEF store
<1>3. Restart \/ \E r \in Reqs : WriteAcl(r)
  BY <1>1, <1>2, StoreSteps
<1>4. CASE Restart
  BY <1>4 DEF Restart
<1>5. CASE \E r \in Reqs : WriteAcl(r)
  BY <1>5 DEF WriteAcl
<1> QED BY <1>3, <1>4, <1>5

\* The cascade takes the ACL, its content and the members along.
LEMMA CascadeTakesPolicy ==
  ASSUME IInv, NEW r \in Reqs, DeleteSubject(r)
  PROVE  /\ op[r].target \notin marked' /\ doc'[op[r].target] = {}
         /\ present' = present \ {op[r].target} /\ marked' = marked \ {op[r].target}
         /\ \A c \in Containers : contains'[c] \subseteq contains[c]
         /\ op[r].target \in Containers => contains'[op[r].target] = {}
<1>1. op[r].target \in Urls
  BY DEF IInv, TypeOK, Operation
<1>2. /\ doc' = [doc EXCEPT ![op[r].target] = {}] /\ contains' = Unlinked(op[r].target)
      /\ present' = present \ {op[r].target} /\ marked' = marked \ {op[r].target}
  BY DEF DeleteSubject
<1>3. doc'[op[r].target] = {}
  BY <1>1, <1>2 DEF IInv, TypeOK
<1> QED BY <1>2, <1>3 DEF Unlinked

-----------------------------------------------------------------------------
(* The guarantees *)

\* Every step keeps a policy with its subject.
LEMMA PoliciesKeepSubject == IInv /\ AuxHasSubject /\ [Next]_vars => AuxHasSubject'
<1> SUFFICES ASSUME IInv, AuxHasSubject, [Next]_vars, NEW u \in marked'
             PROVE  u \in present'
  BY DEF AuxHasSubject
<1>1. CASE u \in present
  BY <1>1, OnlyDeleteRemoves, CascadeTakesPolicy
<1>2. CASE Restart /\ u = Root
  BY <1>2 DEF Restart
<1>3. u \in present \/ (Restart /\ u = Root)
  BY OnlyAclWriteMarks DEF AuxHasSubject
<1> QED BY <1>1, <1>2, <1>3

\* No orphaned policy, however requests race and wherever they stop: aux::put
\* writes only under the subject's marker and delete_subject drops both at once.
THEOREM NoOrphanedPolicy == Spec => []AuxHasSubject
<1>1. Init => AuxHasSubject
  BY DEF Init, AuxHasSubject
<1> QED BY <1>1, PoliciesKeepSubject, InitTypes, StepPreserves, PTL DEF Spec

\* Every step keeps the members of a container under its marker.
LEMMA MembersStayMarked == IInv /\ MembersHaveMarker /\ [Next]_vars => MembersHaveMarker'
<1> SUFFICES ASSUME IInv, MembersHaveMarker, [Next]_vars,
                    NEW c \in Containers, contains'[c] # {}
             PROVE  c \in present'
  BY DEF MembersHaveMarker
<1>1. CASE contains[c] # {}
  <2>1. c \in present
    BY <1>1 DEF MembersHaveMarker
  <2> QED BY <2>1, OnlyDeleteRemoves, CascadeTakesPolicy
<1>2. CASE contains[c] = {}
  <2>1. \E r \in Reqs : LinkChild(r) \/ ReplaceContainer(r)
    <3>1. ASSUME NEW r \in Reqs,
                 \/ EnsureAncestor(r) \/ WriteResource(r) \/ TypeContainer(r)
                 \/ PatchExisting(r) \/ WriteAcl(r) \/ PatchAcl(r) \/ DeleteAcl(r)
          PROVE  FALSE
      BY <1>2, <3>1 DEF EnsureAncestor, WriteResource, TypeContainer, PatchExisting,
         WriteAcl, PatchAcl, DeleteAcl
    <3>2. ~(Restart \/ UNCHANGED store)
      BY <1>2 DEF Restart, store
    <3>3. \A r \in Reqs : ~DeleteSubject(r)
      BY <1>2, CascadeTakesPolicy
    <3> QED BY <3>1, <3>2, <3>3, StoreSteps
  <2>2. ASSUME NEW r \in Reqs, LinkChild(r) PROVE c \in present'
    BY <1>2, <2>2 DEF LinkChild, IInv, TypeOK
  <2>3. ASSUME NEW r \in Reqs, ReplaceContainer(r) PROVE c \in present'
    BY <1>2, <2>3 DEF ReplaceContainer, IInv, TypeOK
  <2> QED BY <2>1, <2>2, <2>3
<1> QED BY <1>1, <1>2

\* Members only where there is a container, at every await: add_containment and
\* put_rdf set the marker in the update that writes the members, and
\* delete_subject clears them in the update that takes it.
THEOREM MembersAreReachable == Spec => []MembersHaveMarker
<1>1. Init => MembersHaveMarker
  BY DEF Init, MembersHaveMarker
<1> QED BY <1>1, MembersStayMarked, InitTypes, StepPreserves, PTL DEF Spec

\* No stale policy under a name used again: the one update that takes a subject
\* away takes its ACL, marker and content, whatever the request's probe had seen.
THEOREM PolicyIsNotResurrected == Spec => PolicyDiesWithSubject
<1>1. IInv /\ [Next]_vars =>
        [\A u \in Urls : u \in present /\ u \notin present' =>
           u \notin marked' /\ doc'[u] = {}]_vars
  BY OnlyDeleteRemoves, CascadeTakesPolicy
<1> QED BY <1>1, InitTypes, StepPreserves, PTL DEF Spec, PolicyDiesWithSubject

\* A policy comes into force whole: aux::put clears the graph in the update that
\* marks it, so what a patch left in an unmarked graph is never part of it.
THEOREM PolicyInForceIsWhole == Spec => PolicyIsWhole
<1>1. IInv /\ [Next]_vars =>
        [\A u \in Urls : u \in marked' /\ u \notin marked =>
           \/ \E r \in Reqs : /\ pc[r] = "write_acl"
                              /\ op[r].target = u /\ doc'[u] = op[r].add
           \/ u = Root /\ doc'[u] = OwnerDoc]_vars
  <2> SUFFICES ASSUME IInv, [Next]_vars, NEW u \in Urls, u \in marked', u \notin marked
               PROVE  \/ \E r \in Reqs : /\ pc[r] = "write_acl"
                                         /\ op[r].target = u /\ doc'[u] = op[r].add
                      \/ u = Root /\ doc'[u] = OwnerDoc
    OBVIOUS
  <2>1. CASE Restart /\ u = Root
    <3>1. doc' = [doc EXCEPT ![Root] = OwnerDoc]
      BY <2>1 DEF Restart
    <3> QED BY <2>1, <3>1 DEF IInv, TypeOK
  <2>2. ASSUME NEW r \in Reqs, WriteAcl(r), op[r].target = u, u \in present
        PROVE  pc[r] = "write_acl" /\ doc'[u] = op[r].add
    BY <2>2 DEF WriteAcl, IInv, TypeOK
  <2> QED BY <2>1, <2>2, OnlyAclWriteMarks
<1> QED BY <1>1, InitTypes, StepPreserves, PTL DEF Spec, PolicyIsWhole
=============================================================================
