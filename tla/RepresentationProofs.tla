------------------------ MODULE RepresentationProofs ------------------------
(***************************************************************************)
(* Representation for every set of graph names, media types, bodies and    *)
(* patches and any number of requests at once, with faults: its types, and *)
(* that an RDF resource is always one client's dataset; and, as long as no *)
(* two requests overlap, what the two stores say of each other, that named *)
(* graphs are not discarded unseen and that a read meets the register.     *)
(***************************************************************************)
EXTENDS Representation, TLAPS

DatasetLabels == {"check_there", "check_registry", "check_shelves",
                  "dataset_registry", "dataset_update", "dataset_object"}
BlobLabels == {"blob_registry", "blob_object", "blob_update"}
PatchLabels == {"patch_kind", "patch_update"}

\* A request carries the body its label needs.
Fits(r) ==
  /\ pc[r] \in DatasetLabels =>
       \E d \in Datasets : body[r] = [kind |-> "dataset", dataset |-> d]
  /\ pc[r] \in BlobLabels =>
       \E b \in Blobs : body[r] = [kind |-> "blob", blob |-> b]
  /\ pc[r] \in PatchLabels =>
       \E p \in Patches : body[r] = [kind |-> "patch", patch |-> p]

Fitting == \A r \in Reqs : Fits(r)

IInv == TypeOK /\ Fitting

\* The request's half of the invariant, for a step that moves r to l with body b
\* and leaves the others alone.
LEMMA MoveFits ==
  ASSUME IInv, NEW r \in Reqs, NEW l \in Labels, NEW b \in Bodies,
         pc' = [pc EXCEPT ![r] = l], body' = [body EXCEPT ![r] = b],
         l \in DatasetLabels =>
           \E d \in Datasets : b = [kind |-> "dataset", dataset |-> d],
         l \in BlobLabels => \E d \in Blobs : b = [kind |-> "blob", blob |-> d],
         l \in PatchLabels => \E d \in Patches : b = [kind |-> "patch", patch |-> d]
  PROVE  pc' \in [Reqs -> Labels] /\ body' \in [Reqs -> Bodies] /\ Fitting'
<1>1. pc' \in [Reqs -> Labels] /\ body' \in [Reqs -> Bodies]
  BY DEF IInv, TypeOK
<1>2. ASSUME NEW q \in Reqs PROVE Fits(q)'
  <2>1. CASE q = r
    <3>1. pc'[q] = l /\ body'[q] = b
      BY <2>1 DEF IInv, TypeOK
    <3> QED BY <3>1 DEF Fits
  <2>2. CASE q # r
    <3>1. pc'[q] = pc[q] /\ body'[q] = body[q]
      BY <2>2 DEF IInv, TypeOK
    <3>2. Fits(q)
      BY DEF IInv, Fitting
    <3> QED BY <3>1, <3>2 DEF Fits
  <2> QED BY <2>1, <2>2
<1> QED BY <1>1, <1>2 DEF Fitting

\* A handler that ends leaves an idle slot.
LEMMA FinishFits ==
  ASSUME IInv, NEW r \in Reqs, Finish(r)
  PROVE  /\ pc' \in [Reqs -> Labels] /\ body' \in [Reqs -> Bodies] /\ Fitting'
         /\ listed' \in [Reqs -> SUBSET Names]
<1>1. /\ pc' = [pc EXCEPT ![r] = "idle"] /\ body' = [body EXCEPT ![r] = NoBody]
      /\ listed' = [listed EXCEPT ![r] = {}]
  BY DEF Finish, Goto
<1>2. "idle" \in Labels /\ "idle" \notin DatasetLabels \cup BlobLabels \cup PatchLabels
  BY DEF Labels, DatasetLabels, BlobLabels, PatchLabels
<1>3. NoBody \in Bodies
  BY DEF Bodies
<1>4. pc' \in [Reqs -> Labels] /\ body' \in [Reqs -> Bodies] /\ Fitting'
  BY <1>1, <1>2, <1>3, MoveFits
<1> QED BY <1>1, <1>4 DEF IInv, TypeOK

\* A request that goes on with the body it has still fits.
LEMMA GotoFits ==
  ASSUME IInv, NEW r \in Reqs, NEW l \in Labels, Goto(r, l), body' = body,
         l \in DatasetLabels => pc[r] \in DatasetLabels,
         l \in BlobLabels => pc[r] \in BlobLabels,
         l \in PatchLabels => pc[r] \in PatchLabels
  PROVE  pc' \in [Reqs -> Labels] /\ body' \in [Reqs -> Bodies] /\ Fitting'
<1>1. pc' = [pc EXCEPT ![r] = l]
  BY DEF Goto
<1>2. body[r] \in Bodies /\ body' = [body EXCEPT ![r] = body[r]] /\ Fits(r)
  BY DEF IInv, TypeOK, Fitting
<1> QED BY <1>1, <1>2, MoveFits DEF Fits

\* The bodies the labels promise are of the types the assumption gives.
LEMMA CarriedBodies ==
  ASSUME IInv, NEW r \in Reqs
  PROVE  /\ pc[r] \in DatasetLabels => body[r].dataset \in Datasets
         /\ pc[r] \in BlobLabels => body[r].blob \in Blobs
         /\ pc[r] \in PatchLabels => body[r].patch \in Patches
<1>1. Fits(r)
  BY DEF IInv, Fitting
<1>2. ASSUME pc[r] \in DatasetLabels PROVE body[r].dataset \in Datasets
  <2>1. PICK x \in Datasets : body[r] = [kind |-> "dataset", dataset |-> x]
    BY <1>1, <1>2 DEF Fits
  <2> QED BY <2>1
<1>3. ASSUME pc[r] \in BlobLabels PROVE body[r].blob \in Blobs
  <2>1. PICK x \in Blobs : body[r] = [kind |-> "blob", blob |-> x]
    BY <1>1, <1>3 DEF Fits
  <2> QED BY <2>1
<1>4. ASSUME pc[r] \in PatchLabels PROVE body[r].patch \in Patches
  <2>1. PICK x \in Patches : body[r] = [kind |-> "patch", patch |-> x]
    BY <1>1, <1>4 DEF Fits
  <2> QED BY <2>1
<1> QED BY <1>2, <1>3, <1>4

\* A request that arrives brings a body that fits.
LEMMA BeginFits ==
  ASSUME IInv, NEW r \in Reqs,
         Arrive(r)
  PROVE  IInv'
<1>1. ASSUME NEW l \in Labels, NEW b \in Bodies, Begin(r, l, b),
             l \in DatasetLabels =>
               \E d \in Datasets : b = [kind |-> "dataset", dataset |-> d],
             l \in BlobLabels => \E d \in Blobs : b = [kind |-> "blob", blob |-> d],
             l \in PatchLabels => \E d \in Patches : b = [kind |-> "patch", patch |-> d]
      PROVE  IInv'
  <2>1. /\ pc' = [pc EXCEPT ![r] = l] /\ body' = [body EXCEPT ![r] = b]
        /\ UNCHANGED <<sys, graph, shelf, object, listed>>
        /\ overlapped' \in BOOLEAN
    BY <1>1 DEF Begin, Goto, stores, IInv, TypeOK
  <2>2. pc' \in [Reqs -> Labels] /\ body' \in [Reqs -> Bodies] /\ Fitting'
    BY <1>1, <2>1, MoveFits
  <2> QED BY <2>1, <2>2 DEF IInv, TypeOK
<1>2. CASE StartDataset(r) \/ StartCreate(r)
  <2>1. PICK d \in Datasets, l \in {"check_there", "dataset_registry"} :
          Begin(r, l, DatasetBody(d))
    BY <1>2 DEF StartDataset, StartCreate
  <2>2. DatasetBody(d) \in Bodies /\ DatasetBody(d) = [kind |-> "dataset", dataset |-> d]
    BY DEF DatasetBody, Bodies
  <2>3. l \in Labels /\ l \notin BlobLabels \cup PatchLabels
    BY DEF Labels, BlobLabels, PatchLabels
  <2> QED BY <1>1, <2>1, <2>2, <2>3
<1>3. CASE StartBlob(r)
  <2>1. PICK b \in Blobs : Begin(r, "blob_registry", [kind |-> "blob", blob |-> b])
    BY <1>3 DEF StartBlob
  <2>2. [kind |-> "blob", blob |-> b] \in Bodies
    BY DEF Bodies
  <2>3. /\ "blob_registry" \in Labels
        /\ "blob_registry" \notin DatasetLabels \cup PatchLabels
    BY DEF Labels, DatasetLabels, PatchLabels
  <2> QED BY <1>1, <2>1, <2>2, <2>3
<1>4. CASE StartDelete(r)
  <2>1. NoBody \in Bodies
    BY DEF Bodies
  <2>2. /\ "delete_registry" \in Labels
        /\ "delete_registry" \notin DatasetLabels \cup BlobLabels \cup PatchLabels
    BY DEF Labels, DatasetLabels, BlobLabels, PatchLabels
  <2> QED BY <1>1, <1>4, <2>1, <2>2 DEF StartDelete
<1>5. CASE StartPatch(r)
  <2>1. PICK p \in Patches : Begin(r, "patch_kind", [kind |-> "patch", patch |-> p])
    BY <1>5 DEF StartPatch
  <2>2. [kind |-> "patch", patch |-> p] \in Bodies
    BY DEF Bodies
  <2>3. /\ "patch_kind" \in Labels
        /\ "patch_kind" \notin DatasetLabels \cup BlobLabels
    BY DEF Labels, DatasetLabels, BlobLabels
  <2> QED BY <1>1, <2>1, <2>2, <2>3
<1> QED BY <1>2, <1>3, <1>4, <1>5 DEF Arrive

\* The checks, the registry reads and the ends of a request leave the stores
\* alone.
LEMMA ReadsFit ==
  ASSUME IInv, NEW r \in Reqs,
         \/ CheckThere(r) \/ CheckRegistry(r) \/ CheckShelves(r)
         \/ ReadRegistry(r) \/ CheckKind(r) \/ Fail(r),
         UNCHANGED overlapped
  PROVE  IInv' /\ UNCHANGED stores
<1>0. UNCHANGED stores
  BY DEF CheckThere, CheckRegistry, CheckShelves, ReadRegistry, CheckKind, Fail
<1>1. listed' \in [Reqs -> SUBSET Names]
  <2>1. sys.names \in SUBSET Names
    BY DEF IInv, TypeOK, SysGraph
  <2>2. CASE Finish(r)
    BY <2>2, FinishFits
  <2>3. CASE \E s \in SUBSET Names : listed' = [listed EXCEPT ![r] = s]
    BY <2>3 DEF IInv, TypeOK
  <2>4. CASE listed' = listed
    BY <2>4 DEF IInv, TypeOK
  <2>5. \A n : listed[r] \ {n} \in SUBSET Names
    BY DEF IInv, TypeOK
  <2> QED BY <2>1, <2>2, <2>3, <2>4, <2>5 DEF CheckThere, CheckRegistry, CheckShelves,
            ReadRegistry, CheckKind, Fail
<1>2. pc' \in [Reqs -> Labels] /\ body' \in [Reqs -> Bodies] /\ Fitting'
  <2>1. CASE Finish(r)
    BY <2>1, FinishFits
  <2>2. CASE UNCHANGED <<pc, body>>
    BY <2>2 DEF IInv, TypeOK, Fitting, Fits
  <2>3. CASE body' = body /\ pc[r] \in DatasetLabels
             /\ \E l \in DatasetLabels : Goto(r, l)
    <3>1. PICK l \in DatasetLabels : Goto(r, l)
      BY <2>3
    <3>2. l \in Labels /\ l \notin BlobLabels \cup PatchLabels
      BY DEF Labels, DatasetLabels, BlobLabels, PatchLabels
    <3> QED BY <2>3, <3>1, <3>2, GotoFits
  <2>4. CASE body' = body /\ pc[r] = "blob_registry" /\ Goto(r, "blob_object")
    <3>1. /\ "blob_object" \in Labels /\ "blob_object" \notin DatasetLabels \cup PatchLabels
          /\ pc[r] \in BlobLabels
      BY <2>4 DEF Labels, DatasetLabels, BlobLabels, PatchLabels
    <3> QED BY <2>4, <3>1, GotoFits
  <2>5. CASE body' = body /\ pc[r] = "delete_registry" /\ Goto(r, "delete_update")
    <3>1. /\ "delete_update" \in Labels
          /\ "delete_update" \notin DatasetLabels \cup BlobLabels \cup PatchLabels
      BY DEF Labels, DatasetLabels, BlobLabels, PatchLabels
    <3> QED BY <2>5, <3>1, GotoFits
  <2>6. CASE body' = body /\ pc[r] = "patch_kind" /\ Goto(r, "patch_update")
    <3>1. /\ "patch_update" \in Labels /\ "patch_update" \notin DatasetLabels \cup BlobLabels
          /\ pc[r] \in PatchLabels
      BY <2>6 DEF Labels, DatasetLabels, BlobLabels, PatchLabels
    <3> QED BY <2>6, <3>1, GotoFits
  <2>7. CASE CheckThere(r) \/ CheckRegistry(r)
    BY <2>3, <2>7 DEF CheckThere, CheckRegistry, DatasetLabels
  <2>8. CASE CheckShelves(r)
    BY <2>1, <2>2, <2>3, <2>8 DEF CheckShelves, DatasetLabels
  <2>9. CASE ReadRegistry(r)
    BY <2>3, <2>4, <2>5, <2>9 DEF ReadRegistry, DatasetLabels
  <2>10. CASE CheckKind(r) \/ Fail(r)
    BY <2>1, <2>6, <2>10 DEF CheckKind, Fail
  <2> QED BY <2>7, <2>8, <2>9, <2>10
<1> QED BY <1>0, <1>1, <1>2 DEF IInv, TypeOK, stores

\* Every write leaves well-typed stores.
LEMMA WritesFit ==
  ASSUME IInv, NEW r \in Reqs,
         \/ DatasetUpdate(r) \/ DeleteObject(r) \/ PutObject(r) \/ BlobUpdate(r)
         \/ DeleteUpdate(r) \/ PatchUpdate(r),
         UNCHANGED overlapped
  PROVE  IInv'
<1>1. CASE DatasetUpdate(r)
  <2>1. pc[r] = "dataset_update" /\ pc[r] \in DatasetLabels
    BY <1>1 DEF DatasetUpdate, DatasetLabels
  <2>2. body[r].dataset \in Datasets /\ body[r].dataset \in Dataset
    BY <2>1, CarriedBodies, RepresentationAssumption
  <2>3. sys' \in SysGraph /\ graph' \in SUBSET Facts /\ shelf' \in [Names -> SUBSET Facts]
    BY <1>1, <2>2 DEF DatasetUpdate, Dataset, SysGraph, IInv, TypeOK
  <2>4. /\ "dataset_object" \in Labels /\ "dataset_object" \notin BlobLabels \cup PatchLabels
    BY DEF Labels, BlobLabels, PatchLabels
  <2>5. Goto(r, "dataset_object") /\ UNCHANGED <<object, body, listed>>
    BY <1>1 DEF DatasetUpdate
  <2>6. pc' \in [Reqs -> Labels] /\ body' \in [Reqs -> Bodies] /\ Fitting'
    BY <2>1, <2>4, <2>5, GotoFits
  <2> QED BY <2>3, <2>5, <2>6 DEF IInv, TypeOK
<1>2. CASE DeleteObject(r)
  BY <1>2, FinishFits DEF DeleteObject, IInv, TypeOK
<1>3. CASE PutObject(r)
  <2>1. pc[r] = "blob_object" /\ pc[r] \in BlobLabels
    BY <1>3 DEF PutObject, BlobLabels
  <2>2. body[r].blob \in Blob
    BY <2>1, CarriedBodies, RepresentationAssumption
  <2>3. object' \in SUBSET Facts
    BY <1>3, <2>2 DEF PutObject, Blob
  <2>4. /\ "blob_update" \in Labels /\ "blob_update" \notin DatasetLabels \cup PatchLabels
    BY DEF Labels, DatasetLabels, PatchLabels
  <2>5. Goto(r, "blob_update") /\ UNCHANGED <<sys, graph, shelf, body, listed>>
    BY <1>3 DEF PutObject
  <2>6. pc' \in [Reqs -> Labels] /\ body' \in [Reqs -> Bodies] /\ Fitting'
    BY <2>1, <2>4, <2>5, GotoFits
  <2> QED BY <2>3, <2>5, <2>6 DEF IInv, TypeOK
<1>4. CASE BlobUpdate(r)
  <2>1. pc[r] \in BlobLabels
    BY <1>4 DEF BlobUpdate, BlobLabels
  <2>2. body[r].blob \in Blob
    BY <2>1, CarriedBodies, RepresentationAssumption
  <2>3. sys' \in SysGraph /\ graph' \in SUBSET Facts /\ shelf' \in [Names -> SUBSET Facts]
    BY <1>4, <2>2 DEF BlobUpdate, Blob, SysGraph, IInv, TypeOK
  <2> QED BY <1>4, <2>3, FinishFits DEF BlobUpdate, IInv, TypeOK
<1>5. CASE DeleteUpdate(r)
  <2>1. sys' \in SysGraph /\ graph' \in SUBSET Facts /\ shelf' \in [Names -> SUBSET Facts]
    BY <1>5 DEF DeleteUpdate, NoMarker, SysGraph, IInv, TypeOK
  <2>2. /\ "delete_object" \in Labels
        /\ "delete_object" \notin DatasetLabels \cup BlobLabels \cup PatchLabels
    BY DEF Labels, DatasetLabels, BlobLabels, PatchLabels
  <2>3. Goto(r, "delete_object") /\ UNCHANGED <<object, body, listed>>
    BY <1>5 DEF DeleteUpdate
  <2>4. pc' \in [Reqs -> Labels] /\ body' \in [Reqs -> Bodies] /\ Fitting'
    BY <2>2, <2>3, GotoFits
  <2> QED BY <2>1, <2>3, <2>4 DEF IInv, TypeOK
<1>6. CASE PatchUpdate(r)
  <2>1. pc[r] \in PatchLabels
    BY <1>6 DEF PatchUpdate, PatchLabels
  <2>2. body[r].patch \in PatchBody
    BY <2>1, CarriedBodies, RepresentationAssumption
  <2>3. graph' \in SUBSET Facts
    BY <1>6, <2>2 DEF PatchUpdate, PatchBody, IInv, TypeOK
  <2> QED BY <1>6, <2>3, FinishFits DEF PatchUpdate, IInv, TypeOK
<1> QED BY <1>1, <1>2, <1>3, <1>4, <1>5, <1>6

\* Every step preserves the types and the fit of bodies to labels.
LEMMA StepPreserves == IInv /\ [Next]_vars => IInv'
<1> SUFFICES ASSUME IInv, [Next]_vars PROVE IInv'
  OBVIOUS
<1>1. CASE UNCHANGED vars
  BY <1>1 DEF vars, IInv, TypeOK, Fitting, Fits
<1>2. CASE Next
  BY <1>2, BeginFits, ReadsFit, WritesFit DEF Next, Work
<1> QED BY <1>1, <1>2

\* They hold of an absent resource.
LEMMA InitFits == Init => IInv
<1> SUFFICES ASSUME Init PROVE IInv
  OBVIOUS
<1>1. NoMarker \in SysGraph /\ NoBody \in Bodies /\ "idle" \in Labels
  BY DEF NoMarker, SysGraph, Bodies, Labels
<1>2. TypeOK
  BY <1>1 DEF Init, TypeOK
<1>3. Fitting
  BY DEF Init, Fitting, Fits, DatasetLabels, BlobLabels, PatchLabels
<1> QED BY <1>2, <1>3 DEF IInv

\* Type correctness: no race or failure takes the stores or a request outside
\* their types, and every update finds the body it was given.
THEOREM TypeCorrect == Spec => []TypeOK
<1>1. IInv => TypeOK
  BY DEF IInv
<1> QED BY <1>1, InitFits, StepPreserves, PTL DEF Spec

-----------------------------------------------------------------------------
\* The updates keep one client's dataset whole: put_dataset's writes everything
\* WholeDataset speaks of, put_blob's and delete_subject's end it, and a patch
\* adds no fact of a PUT body.
LEMMA DatasetStaysWhole == IInv /\ WholeDataset /\ [Next]_vars => WholeDataset'
<1> SUFFICES ASSUME IInv, WholeDataset, [Next]_vars, sys'.marked, ~sys'.binary
             PROVE  \E d \in Datasets :
                      /\ sys'.mt = d.mt /\ sys'.names = d.names
                      /\ \A n \in d.names : shelf'[n] = {d.fact}
                      /\ graph' \cap {e.fact : e \in Datasets} \subseteq {d.fact}
  BY DEF WholeDataset
<1> DEFINE Is(d) == /\ sys.mt = d.mt /\ sys.names = d.names
                    /\ \A n \in d.names : shelf[n] = {d.fact}
                    /\ graph \cap {e.fact : e \in Datasets} \subseteq {d.fact}
<1>0. sys.marked /\ ~sys.binary => \E d \in Datasets : Is(d)
  BY DEF WholeDataset
<1>1. CASE UNCHANGED <<sys, graph, shelf>>
  BY <1>0, <1>1
<1>2. ASSUME NEW r \in Reqs, DatasetUpdate(r)
      PROVE  \E d \in Datasets :
               /\ sys'.mt = d.mt /\ sys'.names = d.names
               /\ \A n \in d.names : shelf'[n] = {d.fact}
               /\ graph' \cap {e.fact : e \in Datasets} \subseteq {d.fact}
  <2> DEFINE d == body[r].dataset
  <2>1. pc[r] \in DatasetLabels
    BY <1>2 DEF DatasetUpdate, DatasetLabels
  <2>2. d \in Datasets /\ d.names \subseteq Names
    BY <2>1, CarriedBodies, RepresentationAssumption DEF Dataset
  <2>3. /\ sys' = [marked |-> TRUE, binary |-> FALSE, mt |-> d.mt, names |-> d.names]
        /\ graph' = {d.fact}
        /\ shelf' = [n \in Names |-> IF n \in d.names THEN {d.fact}
                                     ELSE IF n \in listed[r] THEN {}
                                     ELSE shelf[n]]
    BY <1>2 DEF DatasetUpdate
  <2> HIDE DEF d
  <2> QED BY <2>2, <2>3
<1>3. ASSUME NEW r \in Reqs, PatchUpdate(r)
      PROVE  \E d \in Datasets :
               /\ sys'.mt = d.mt /\ sys'.names = d.names
               /\ \A n \in d.names : shelf'[n] = {d.fact}
               /\ graph' \cap {e.fact : e \in Datasets} \subseteq {d.fact}
  <2> DEFINE p == body[r].patch
  <2>1. pc[r] \in PatchLabels
    BY <1>3 DEF PatchUpdate, PatchLabels
  <2>2. \A e \in Datasets : e.fact \notin p.add
    BY <2>1, CarriedBodies, RepresentationAssumption
  <2>3. /\ UNCHANGED <<sys, shelf>>
        /\ graph' \subseteq graph \cup p.add
    BY <1>3 DEF PatchUpdate
  <2>4. PICK d \in Datasets : Is(d)
    BY <1>0, <2>3
  <2> HIDE DEF p
  <2> QED BY <2>2, <2>3, <2>4
<1>4. ASSUME NEW r \in Reqs, BlobUpdate(r) \/ DeleteUpdate(r) PROVE FALSE
  BY <1>4 DEF BlobUpdate, DeleteUpdate, NoMarker
<1>5. ASSUME NEW r \in Reqs,
             \/ StartDataset(r) \/ StartCreate(r) \/ StartBlob(r) \/ StartDelete(r)
             \/ StartPatch(r) \/ CheckThere(r) \/ CheckRegistry(r) \/ CheckShelves(r)
             \/ ReadRegistry(r) \/ CheckKind(r) \/ Fail(r) \/ DeleteObject(r)
             \/ PutObject(r)
      PROVE  UNCHANGED <<sys, graph, shelf>>
  BY <1>5 DEF StartDataset, StartCreate, StartBlob, StartDelete, StartPatch, Begin,
     CheckThere, CheckRegistry, CheckShelves, ReadRegistry, CheckKind, Fail,
     DeleteObject, PutObject, stores
<1>6. UNCHANGED vars => UNCHANGED <<sys, graph, shelf>>
  BY DEF vars
<1> HIDE DEF Is
<1> QED BY <1>1, <1>2, <1>3, <1>4, <1>5, <1>6 DEF Next, Arrive, Work

\* However PUTs, PATCHes and DELETEs of one resource race, and wherever they are
\* cut off, an RDF resource is one client's dataset: the registry a writer read
\* may be stale, but its update writes every shelf it then lists.
THEOREM DatasetIsWhole == Spec => []WholeDataset
<1>1. Init => WholeDataset
  BY DEF Init, WholeDataset, NoMarker
<1> QED BY <1>1, InitFits, StepPreserves, DatasetStaysWhole, PTL DEF Spec

-----------------------------------------------------------------------------
(***************************************************************************)
(* One request at a time, with faults.  What WholeDataset leaves open: a   *)
(* request cut off anywhere leaves the stores in a state the next request  *)
(* can start from (Settled), and until then what a request has read or     *)
(* written is still so (Alone).                                            *)
(***************************************************************************)
Settled ==
  /\ ~sys.marked \/ sys.binary => sys.names = {}
  /\ sys.marked /\ sys.binary => object # {} /\ \E t \in Blobs : sys.mt = t.mt
  /\ \A n \in Names : shelf[n] # {} => sys.marked /\ n \in sys.names

ListingLabels == {"check_shelves", "dataset_update", "blob_object", "blob_update",
                  "delete_update"}

Alone(r) ==
  /\ pc[r] \in ListingLabels => listed[r] = sys.names
  /\ pc[r] \in {"dataset_registry", "dataset_update"} =>
       (body[r].dataset.mt \in GraphTypes /\ sys.marked => sys.names = {})
  /\ pc[r] = "blob_update" => object = {body[r].blob.bytes}
  /\ pc[r] \in {"dataset_object", "delete_object"} => ~(sys.marked /\ sys.binary)
  /\ pc[r] \in PatchLabels => sys.marked
  /\ pc[r] = "patch_update" => ~sys.binary

OneAtATime == \A q, r \in Reqs : pc[q] # "idle" /\ pc[r] # "idle" => q = r

SoloInv == ~overlapped => OneAtATime /\ Settled /\ \A r \in Reqs : Alone(r)

\* The step of one request, the others being idle, moves only that one.
LEMMA OnlyOneMoves ==
  ASSUME IInv, SoloInv, ~overlapped', NEW r \in Reqs,
         Arrive(r) \/ (Work(r) /\ UNCHANGED overlapped)
  PROVE  /\ ~overlapped
         /\ \E l \in Labels : pc' = [pc EXCEPT ![r] = l]
         /\ \A q \in Reqs : q # r => pc[q] = "idle"
<1>1. pc \in [Reqs -> Labels]
  BY DEF IInv, TypeOK
<1>2. CASE Arrive(r)
  <2>1. PICK l \in Labels : \E b : Begin(r, l, b)
    BY <1>2 DEF Arrive, StartDataset, StartCreate, StartBlob, StartDelete, StartPatch, Labels
  <2>2. ~overlapped /\ Busy = {} /\ pc' = [pc EXCEPT ![r] = l]
    BY <2>1 DEF Begin, Goto
  <2> QED BY <2>2 DEF Busy
<1>3. CASE Work(r) /\ UNCHANGED overlapped
  <2>1. ~overlapped /\ OneAtATime
    BY <1>3 DEF SoloInv
  <2>2. pc[r] # "idle"
    BY <1>3 DEF Work, CheckThere, CheckRegistry, CheckShelves, ReadRegistry, DatasetUpdate,
       DeleteObject, PutObject, BlobUpdate, DeleteUpdate, CheckKind, PatchUpdate, Fail
  <2>3. CASE \E l \in Labels : Goto(r, l)
    BY <2>3, <2>1, <2>2, <1>1 DEF Goto, OneAtATime
  <2>4. CASE pc' = pc
    <3>1. pc' = [pc EXCEPT ![r] = pc[r]] /\ pc[r] \in Labels
      BY <1>1, <2>4
    <3> QED BY <3>1, <2>1, <2>2 DEF OneAtATime
  <2>5. Finish(r) => \E l \in Labels : Goto(r, l)
    BY DEF Finish, Labels
  <2>6. (\E l \in Labels : Goto(r, l)) \/ pc' = pc
    BY <1>3, <2>5 DEF Work, CheckThere, CheckRegistry, CheckShelves, ReadRegistry, DatasetUpdate,
       DeleteObject, PutObject, BlobUpdate, DeleteUpdate, CheckKind, PatchUpdate, Fail, Labels
  <2> QED BY <2>3, <2>4, <2>6
<1> QED BY <1>2, <1>3

\* So the invariant is kept if what it says of the stores and that request is.
LEMMA SoloStep ==
  ASSUME IInv, NEW r \in Reqs, NEW l \in Labels, pc' = [pc EXCEPT ![r] = l],
         \A q \in Reqs : q # r => pc[q] = "idle",
         Settled', Alone(r)'
  PROVE  SoloInv'
<1>1. \A q \in Reqs : q # r => pc'[q] = "idle"
  BY DEF IInv, TypeOK
<1>2. \A q \in Reqs : q # r => Alone(q)'
  BY <1>1 DEF Alone, ListingLabels, PatchLabels
<1> QED BY <1>1, <1>2 DEF SoloInv, OneAtATime

\* A request that arrives finds the stores settled and has read nothing.
LEMMA ArriveAlone ==
  ASSUME IInv, Settled, NEW r \in Reqs, Arrive(r)
  PROVE  Settled' /\ Alone(r)'
<1>1. UNCHANGED <<sys, graph, shelf, object, listed>>
  BY DEF Arrive, StartDataset, StartCreate, StartBlob, StartDelete, StartPatch, Begin, stores
<1>2. Settled'
  BY <1>1 DEF Settled
<1>3. Alone(r)'
  <2>1. CASE StartDataset(r) \/ StartCreate(r)
    <3>1. PICK d \in Datasets, l \in {"check_there", "dataset_registry"} :
            /\ Begin(r, l, DatasetBody(d))
            /\ l = "dataset_registry" => d.mt \notin GraphTypes \/ ~sys.marked
      BY <2>1 DEF StartDataset, StartCreate
    <3>2. pc'[r] = l /\ body'[r] = DatasetBody(d)
      BY <3>1 DEF Begin, Goto, IInv, TypeOK
    <3>3. body'[r].dataset = d
      BY <3>2 DEF DatasetBody
    <3> QED BY <1>1, <3>1, <3>2, <3>3 DEF Alone, ListingLabels, PatchLabels
  <2>2. CASE StartBlob(r) \/ StartDelete(r)
    <3>1. pc'[r] \in {"blob_registry", "delete_registry"}
      BY <2>2 DEF StartBlob, StartDelete, Begin, Goto, IInv, TypeOK
    <3> QED BY <3>1 DEF Alone, ListingLabels, PatchLabels
  <2>3. CASE StartPatch(r)
    <3>1. pc'[r] = "patch_kind" /\ sys'.marked
      BY <1>1, <2>3 DEF StartPatch, Begin, Goto, IInv, TypeOK
    <3> QED BY <3>1 DEF Alone, ListingLabels, PatchLabels
  <2> QED BY <2>1, <2>2, <2>3 DEF Arrive
<1> QED BY <1>2, <1>3

\* A request that ends has nothing left to be so.
LEMMA FinishAlone ==
  ASSUME IInv, NEW r \in Reqs, Finish(r)
  PROVE  Alone(r)'
<1>1. pc'[r] = "idle"
  BY DEF Finish, Goto, IInv, TypeOK
<1> QED BY <1>1 DEF Alone, ListingLabels, PatchLabels

\* The checks and registry reads of a request on its own: every shelf its
\* check comes to holds something, so only a resource without named graphs
\* passes it.
LEMMA ReadsAlone ==
  ASSUME IInv, WholeDataset, Settled, NEW r \in Reqs, Alone(r),
         \/ CheckThere(r) \/ CheckRegistry(r) \/ CheckShelves(r)
         \/ ReadRegistry(r) \/ CheckKind(r) \/ Fail(r)
  PROVE  Settled' /\ Alone(r)'
<1>1. UNCHANGED <<sys, graph, shelf, object>>
  BY DEF CheckThere, CheckRegistry, CheckShelves, ReadRegistry, CheckKind, Fail, stores
<1>2. Settled'
  BY <1>1 DEF Settled
<1> SUFFICES Alone(r)'
  BY <1>2
<1>3. CASE Finish(r)
  BY <1>3, FinishAlone
<1>4. CASE CheckThere(r)
  <2>1. body' = body /\ pc'[r] = IF sys.marked THEN "check_registry" ELSE "dataset_registry"
    BY <1>4 DEF CheckThere, Goto, IInv, TypeOK
  <2> QED BY <1>1, <2>1 DEF Alone, ListingLabels, PatchLabels
<1>5. CASE CheckRegistry(r)
  <2>1. pc'[r] = "check_shelves" /\ listed'[r] = sys.names
    BY <1>5 DEF CheckRegistry, Goto, IInv, TypeOK
  <2> QED BY <1>1, <2>1 DEF Alone, ListingLabels, PatchLabels
<1>6. CASE CheckShelves(r) /\ ~Finish(r)
  <2>1. pc[r] = "check_shelves" /\ listed[r] = sys.names /\ sys.names \subseteq Names
    BY <1>6 DEF CheckShelves, Alone, ListingLabels, IInv, TypeOK, SysGraph
  <2>2. \A n \in sys.names : shelf[n] # {}
    BY DEF WholeDataset, Settled
  <2>3. listed[r] = {} /\ Goto(r, "dataset_registry")
    BY <1>6, <2>1, <2>2 DEF CheckShelves
  <2>4. pc'[r] = "dataset_registry" /\ sys.names = {}
    BY <2>1, <2>3 DEF Goto, IInv, TypeOK
  <2> QED BY <1>1, <2>4 DEF Alone, ListingLabels, PatchLabels
<1>7. CASE ReadRegistry(r)
  <2>1. body' = body /\ listed'[r] = sys.names
    BY <1>7 DEF ReadRegistry, IInv, TypeOK
  <2>2. \/ pc[r] = "dataset_registry" /\ pc'[r] = "dataset_update"
        \/ pc'[r] \in {"blob_object", "delete_update"}
    BY <1>7 DEF ReadRegistry, Goto, IInv, TypeOK
  <2> QED BY <1>1, <2>1, <2>2 DEF Alone, ListingLabels, PatchLabels
<1>8. CASE CheckKind(r) /\ ~Finish(r)
  <2>1. pc[r] = "patch_kind" /\ pc'[r] = "patch_update" /\ ~(sys.marked /\ sys.binary)
    BY <1>8 DEF CheckKind, Goto, IInv, TypeOK
  <2> QED BY <1>1, <2>1 DEF Alone, ListingLabels, PatchLabels
<1> QED BY <1>3, <1>4, <1>5, <1>6, <1>7, <1>8 DEF Fail

\* The writes of a request on its own: the registry it read is the registry its
\* update replaces, and the object its update speaks of is its own.
LEMMA WritesAlone ==
  ASSUME IInv, Settled, NEW r \in Reqs, Alone(r),
         \/ DatasetUpdate(r) \/ DeleteObject(r) \/ PutObject(r) \/ BlobUpdate(r)
         \/ DeleteUpdate(r) \/ PatchUpdate(r)
  PROVE  Settled' /\ Alone(r)'
<1>1. CASE DatasetUpdate(r)
  <2> DEFINE d == body[r].dataset
  <2>1. pc[r] = "dataset_update" /\ listed[r] = sys.names
    BY <1>1 DEF DatasetUpdate, Alone, ListingLabels
  <2>2. d \in Datasets /\ d.names \subseteq Names
    BY <2>1, CarriedBodies, RepresentationAssumption DEF Dataset, DatasetLabels
  <2>3. /\ sys' = [marked |-> TRUE, binary |-> FALSE, mt |-> d.mt, names |-> d.names]
        /\ shelf' = [n \in Names |-> IF n \in d.names THEN {d.fact}
                                     ELSE IF n \in sys.names THEN {}
                                     ELSE shelf[n]]
        /\ pc'[r] = "dataset_object"
    BY <1>1, <2>1 DEF DatasetUpdate, Goto, IInv, TypeOK
  <2> HIDE DEF d
  <2>4. Settled'
    BY <2>2, <2>3 DEF Settled
  <2> QED BY <2>3, <2>4 DEF Alone, ListingLabels, PatchLabels
<1>2. CASE DeleteObject(r)
  <2>1. ~(sys.marked /\ sys.binary) /\ UNCHANGED <<sys, shelf>> /\ Finish(r)
    BY <1>2 DEF DeleteObject, Alone
  <2> QED BY <2>1, FinishAlone DEF Settled
<1>3. CASE PutObject(r)
  <2>1. pc[r] = "blob_object" /\ listed[r] = sys.names
    BY <1>3 DEF PutObject, Alone, ListingLabels
  <2>2. /\ UNCHANGED <<sys, shelf, body, listed>> /\ object' = {body[r].blob.bytes}
        /\ pc'[r] = "blob_update"
    BY <1>3 DEF PutObject, Goto, IInv, TypeOK
  <2> QED BY <2>1, <2>2 DEF Settled, Alone, ListingLabels, PatchLabels
<1>4. CASE BlobUpdate(r)
  <2>1. pc[r] = "blob_update" /\ listed[r] = sys.names /\ object = {body[r].blob.bytes}
    BY <1>4 DEF BlobUpdate, Alone, ListingLabels
  <2>2. body[r].blob \in Blobs
    BY <2>1, CarriedBodies DEF BlobLabels
  <2>3. /\ sys' = [marked |-> TRUE, binary |-> TRUE, mt |-> body[r].blob.mt, names |-> {}]
        /\ shelf' = [n \in Names |-> IF n \in sys.names THEN {} ELSE shelf[n]]
        /\ object' = object /\ Finish(r)
    BY <1>4, <2>1 DEF BlobUpdate
  <2>4. Settled'
    BY <2>1, <2>2, <2>3 DEF Settled
  <2> QED BY <2>3, <2>4, FinishAlone
<1>5. CASE DeleteUpdate(r)
  <2>1. pc[r] = "delete_update" /\ listed[r] = sys.names
    BY <1>5 DEF DeleteUpdate, Alone, ListingLabels
  <2>2. /\ sys' = NoMarker
        /\ shelf' = [n \in Names |-> IF n \in sys.names THEN {} ELSE shelf[n]]
        /\ pc'[r] = "delete_object"
    BY <1>5, <2>1 DEF DeleteUpdate, Goto, IInv, TypeOK
  <2>3. Settled'
    BY <2>2 DEF Settled, NoMarker
  <2> QED BY <2>2, <2>3 DEF Alone, ListingLabels, PatchLabels, NoMarker
<1>6. CASE PatchUpdate(r)
  <2>1. UNCHANGED <<sys, shelf, object>> /\ Finish(r)
    BY <1>6 DEF PatchUpdate
  <2> QED BY <2>1, FinishAlone DEF Settled
<1> QED BY <1>1, <1>2, <1>3, <1>4, <1>5, <1>6

\* As long as requests come one at a time, every step keeps the stores settled
\* and what its request knows true.
LEMMA SoloPreserved == IInv /\ WholeDataset /\ SoloInv /\ [Next]_vars => SoloInv'
<1> SUFFICES ASSUME IInv, WholeDataset, SoloInv, [Next]_vars, ~overlapped' PROVE SoloInv'
  BY DEF SoloInv
<1>1. CASE UNCHANGED vars
  BY <1>1 DEF vars, SoloInv, OneAtATime, Settled, Alone
<1>2. ASSUME NEW r \in Reqs, Arrive(r) \/ (Work(r) /\ UNCHANGED overlapped)
      PROVE  SoloInv'
  <2>1. /\ ~overlapped
        /\ \E l \in Labels : pc' = [pc EXCEPT ![r] = l]
        /\ \A q \in Reqs : q # r => pc[q] = "idle"
    BY <1>2, OnlyOneMoves
  <2>2. Settled /\ Alone(r)
    BY <2>1 DEF SoloInv
  <2>3. Settled' /\ Alone(r)'
    BY <1>2, <2>2, ArriveAlone, ReadsAlone, WritesAlone DEF Work
  <2> QED BY <2>1, <2>3, SoloStep
<1> QED BY <1>1, <1>2 DEF Next

\* It holds of the empty stores.
LEMMA InitSolo == Init => SoloInv
BY DEF Init, SoloInv, OneAtATime, Settled, Alone, NoMarker, ListingLabels, PatchLabels

\* What the sequential results rest on.
SeqInv == IInv /\ WholeDataset /\ SoloInv

\* And of every state there is.
LEMMA SeqInvariant == Spec => []SeqInv
<1>1. Init => SeqInv
  BY InitFits, InitSolo DEF SeqInv, Init, WholeDataset, NoMarker
<1>2. SeqInv /\ [Next]_vars => SeqInv'
  BY StepPreserves, DatasetStaysWhole, SoloPreserved DEF SeqInv
<1> QED BY <1>1, <1>2, PTL DEF Spec

\* Wherever a request is cut off, a resource that says it is bytes has bytes,
\* until two requests overlap: put_blob writes the object before the marker,
\* and the object goes only once the marker no longer speaks of it.
THEOREM BytesAreThere == Spec => []BinaryHasObject
<1>1. SeqInv => BinaryHasObject
  BY DEF SeqInv, SoloInv, Settled, BinaryHasObject, BlobHasObject
<1> QED BY <1>1, SeqInvariant, PTL

\* No named graph outlives its registration, wherever a request is cut off,
\* until two requests overlap: the registry an update acts on is the registry
\* it replaces.
THEOREM ShelvesAreRegistered == Spec => []NoOrphanShelf
<1>1. SeqInv => NoOrphanShelf
  BY DEF SeqInv, SoloInv, Settled, NoOrphanShelf
<1> QED BY <1>1, SeqInvariant, PTL

\* The steps that write the system graph, and what every other one leaves.
LEMMA OnlyUpdatesWrite ==
  ASSUME NEW r \in Reqs, Arrive(r) \/ Work(r)
  PROVE  \/ UNCHANGED <<sys, graph, shelf, object>>
         \/ DatasetUpdate(r) \/ DeleteObject(r) \/ PutObject(r) \/ BlobUpdate(r)
         \/ DeleteUpdate(r) \/ PatchUpdate(r)
BY DEF Arrive, Work, StartDataset, StartCreate, StartBlob, StartDelete, StartPatch, Begin,
   CheckThere, CheckRegistry, CheckShelves, ReadRegistry, CheckKind, Fail, stores

\* Until two requests overlap, named graphs are never discarded unseen: a body
\* in a format that carries none gets past get_dataset's shelves only where
\* there is none, and nothing is registered between that check and the update.
THEOREM NamedGraphsAreSeen == Spec => NoSilentDiscard
<1> DEFINE Seen == ~overlapped /\ sys.marked /\ sys.names # {} /\ sys' # sys =>
                     ~sys'.marked \/ sys'.binary \/ sys'.mt \notin GraphTypes
<1>1. SeqInv /\ [Next]_vars => [Seen]_vars
  <2> SUFFICES ASSUME SeqInv, Next, ~overlapped, sys.marked, sys.names # {}, sys' # sys
               PROVE  ~sys'.marked \/ sys'.binary \/ sys'.mt \notin GraphTypes
    OBVIOUS
  <2>1. PICK r \in Reqs : Arrive(r) \/ Work(r)
    BY DEF Next
  <2>2. DatasetUpdate(r) \/ BlobUpdate(r) \/ DeleteUpdate(r)
    BY <2>1, OnlyUpdatesWrite DEF DeleteObject, PutObject, PatchUpdate
  <2>3. CASE DatasetUpdate(r)
    <3>1. pc[r] = "dataset_update" /\ sys'.mt = body[r].dataset.mt
      BY <2>3 DEF DatasetUpdate
    <3> QED BY <3>1 DEF SeqInv, SoloInv, Alone
  <2>4. CASE BlobUpdate(r) \/ DeleteUpdate(r)
    BY <2>4 DEF BlobUpdate, DeleteUpdate, NoMarker
  <2> QED BY <2>2, <2>3, <2>4
<1> QED BY <1>1, SeqInvariant, PTL DEF Spec, NoSilentDiscard

-----------------------------------------------------------------------------
(* The register Representation implements. *)

Value == IF overlapped THEN Absent ELSE Served

\* A write of a request on its own replaces, amends or removes the whole of
\* what a read finds, or is not seen by one.
LEMMA WriteIsRegisterStep ==
  ASSUME SeqInv, ~overlapped, ~overlapped', NEW r \in Reqs,
         \/ DatasetUpdate(r) \/ DeleteObject(r) \/ PutObject(r) \/ BlobUpdate(r)
         \/ DeleteUpdate(r) \/ PatchUpdate(r)
  PROVE  \/ \E d \in Datasets : Served' = AsServed(d)
         \/ \E t \in Blobs, b \in Blobs : Served' = BytesServed(t, b)
         \/ Served # Absent /\ \E p \in Patches : Served' = Patched(Served, p)
         \/ Served' = Absent
         \/ Served' = Served
<1>0. IInv /\ Settled /\ Alone(r)
  BY DEF SeqInv, SoloInv
<1>1. CASE DatasetUpdate(r)
  <2> DEFINE d == body[r].dataset
  <2>1. d \in Datasets /\ d.names \subseteq Names
    BY <1>0, <1>1, CarriedBodies, RepresentationAssumption DEF DatasetUpdate, DatasetLabels, Dataset
  <2>2. /\ sys' = [marked |-> TRUE, binary |-> FALSE, mt |-> d.mt, names |-> d.names]
        /\ graph' = {d.fact}
        /\ \A n \in d.names : shelf'[n] = {d.fact}
    BY <1>1, <2>1 DEF DatasetUpdate
  <2> HIDE DEF d
  <2>3. [n \in d.names |-> shelf'[n]] = [n \in d.names |-> {d.fact}]
    BY <2>2
  <2>4. Served' = AsServed(d)
    BY <2>2, <2>3 DEF Served, AsServed
  <2> QED BY <2>1, <2>4
<1>2. CASE DeleteObject(r)
  <2>1. ~(sys.marked /\ sys.binary) /\ UNCHANGED <<sys, graph, shelf>>
    BY <1>0, <1>2 DEF DeleteObject, Alone
  <2> QED BY <2>1 DEF Served
<1>3. CASE PutObject(r)
  <2>1. body[r].blob \in Blobs
    BY <1>0, <1>3, CarriedBodies DEF PutObject, BlobLabels
  <2>2. UNCHANGED <<sys, graph, shelf>> /\ object' = {body[r].blob.bytes}
    BY <1>3 DEF PutObject
  <2>3. CASE sys.marked /\ sys.binary
    <3>1. PICK t \in Blobs : sys.mt = t.mt
      BY <1>0, <2>3 DEF Settled
    <3>2. Served' = BytesServed(t, body[r].blob)
      BY <2>2, <2>3, <3>1 DEF Served, BytesServed
    <3> QED BY <2>1, <3>2
  <2>4. CASE ~(sys.marked /\ sys.binary)
    BY <2>2, <2>4 DEF Served
  <2> QED BY <2>3, <2>4
<1>4. CASE BlobUpdate(r)
  <2>1. pc[r] = "blob_update" /\ object = {body[r].blob.bytes}
    BY <1>0, <1>4 DEF BlobUpdate, Alone
  <2>2. body[r].blob \in Blobs
    BY <1>0, <2>1, CarriedBodies DEF BlobLabels
  <2>3. /\ sys' = [marked |-> TRUE, binary |-> TRUE, mt |-> body[r].blob.mt, names |-> {}]
        /\ object' = {body[r].blob.bytes}
    BY <1>4, <2>1 DEF BlobUpdate
  <2>4. Served' = BytesServed(body[r].blob, body[r].blob)
    BY <2>3 DEF Served, BytesServed
  <2> QED BY <2>2, <2>4
<1>5. CASE DeleteUpdate(r)
  BY <1>5 DEF DeleteUpdate, NoMarker, Served
<1>6. CASE PatchUpdate(r)
  <2> DEFINE p == body[r].patch
             named == [n \in sys.names |-> shelf[n]]
  <2>1. pc[r] = "patch_update" /\ sys.marked /\ ~sys.binary
    BY <1>0, <1>6 DEF PatchUpdate, Alone, PatchLabels
  <2>2. p \in Patches
    BY <1>0, <2>1, CarriedBodies DEF PatchLabels
  <2>3. /\ UNCHANGED <<sys, shelf>>
        /\ graph' = IF p.del \subseteq graph THEN (graph \ p.del) \cup p.add ELSE graph
    BY <1>6 DEF PatchUpdate
  <2> HIDE DEF p
  <2>4. /\ Served = [kind |-> "rdf", mt |-> sys.mt, default |-> graph, named |-> named]
        /\ Served' = [kind |-> "rdf", mt |-> sys.mt, default |-> graph', named |-> named]
    BY <2>1, <2>3 DEF Served
  <2> HIDE DEF named
  <2>5. Served # Absent
    BY <2>4 DEF Absent
  <2>6. Served' = Patched(Served, p)
    BY <2>3, <2>4 DEF Patched
  <2> QED BY <2>2, <2>5, <2>6
<1> QED BY <1>1, <1>2, <1>3, <1>4, <1>5, <1>6

\* Representation implements the register: at every await of every write, and
\* wherever one is cut off, a read finds one whole representation a client
\* wrote, a patch of it, or none, until two requests overlap.
THEOREM RegisterIsImplemented == Spec => ReadsAreWhole
<1>1. Init => Contract!Init
  BY DEF Init, Contract!Init, Served, NoMarker
<1>2. SeqInv /\ [Next]_vars => [Contract!Next]_Value
  <2> SUFFICES ASSUME SeqInv, [Next]_vars, Value' # Value PROVE Contract!Next
    OBVIOUS
  <2>1. CASE overlapped'
    BY <2>1 DEF Value, Contract!Next, Contract!Remove
  <2>2. CASE ~overlapped'
    <3>1. Next
      BY DEF vars, Value, Served
    <3>2. PICK r \in Reqs : Arrive(r) \/ (Work(r) /\ UNCHANGED overlapped)
      BY <3>1 DEF Next
    <3>3. ~overlapped
      BY <2>2, <3>2, OnlyOneMoves DEF SeqInv
    <3>4. Value = Served /\ Value' = Served'
      BY <2>2, <3>3 DEF Value
    <3>5. \/ DatasetUpdate(r) \/ DeleteObject(r) \/ PutObject(r) \/ BlobUpdate(r)
          \/ DeleteUpdate(r) \/ PatchUpdate(r)
      <4>1. UNCHANGED <<sys, graph, shelf, object>> => Served' = Served
        BY DEF Served
      <4> QED BY <3>2, <3>4, <4>1, OnlyUpdatesWrite
    <3>6. \/ \E d \in Datasets : Served' = AsServed(d)
          \/ \E t \in Blobs, b \in Blobs : Served' = BytesServed(t, b)
          \/ Served # Absent /\ \E p \in Patches : Served' = Patched(Served, p)
          \/ Served' = Absent
      BY <2>2, <3>3, <3>4, <3>5, WriteIsRegisterStep
    <3> QED BY <2>2, <3>3, <3>6 DEF Contract!Next, Contract!Replace, Contract!Patch, Contract!Remove
  <2> QED BY <2>1, <2>2
<1> QED BY <1>1, <1>2, SeqInvariant, PTL DEF Spec, ReadsAreWhole, Contract!Spec, Value
=============================================================================
