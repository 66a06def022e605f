--------------------------- MODULE Representation ---------------------------
(***************************************************************************)
(* How one resource's representation is stored (src/src/resource.rs, the   *)
(* tail of aux.rs, blob.rs, shelf.rs): a system graph with the presence    *)
(* marker, the kind, the media type and the registry of named graphs; the  *)
(* default graph; one graph ("shelf") per named graph; and, for bytes, an  *)
(* object in a second store that no SPARQL update reaches.                 *)
(*                                                                         *)
(* A store call is one action, as in Pod.  A dataset write is a registry   *)
(* read, one update and an object delete; a blob write is a registry read, *)
(* an object write and one update.  Requests interleave between any two of *)
(* these and may stop for good at each.                                    *)
(***************************************************************************)
EXTENDS Naturals, FiniteSets

CONSTANTS
  Reqs,         \* request slots
  MaxInFlight,  \* bound: requests being served at once
  Names,        \* graph names; ShelfKey::of maps each to a shelf of its own
  Facts,        \* contents: a graph is a set of facts
  Types,        \* media types
  GraphTypes,   \* those of RDF formats that carry no named graphs
  Datasets,     \* RDF representations clients PUT
  Blobs,        \* byte representations clients PUT
  Patches,      \* N3 patches of the default graph
  Faults        \* TRUE iff a request may fail or be cut off

NoMarker == [marked |-> FALSE, binary |-> FALSE, mt |-> "none", names |-> {}]

\* The system graph: sys:present, the BinaryResource type, sys:mediaType and
\* the graph names the registry lists.
SysGraph == [marked : BOOLEAN, binary : BOOLEAN, mt : Types \cup {"none"},
             names : SUBSET Names]

Dataset == [mt : Types, fact : Facts, names : SUBSET Names]
Blob == [mt : Types, bytes : Facts]
PatchBody == [del : SUBSET Facts, add : SUBSET Facts]

ASSUME RepresentationAssumption ==
  /\ MaxInFlight \in Nat
  /\ Datasets \subseteq Dataset
  /\ \A d \in Datasets : d.mt \in GraphTypes => d.names = {}
  /\ Blobs \subseteq Blob
  /\ Patches \subseteq PatchBody
  /\ Faults \in BOOLEAN
  \* Patches speak of facts no PUT body holds, so that what is left of a body
  \* in a graph can be told from what was patched into it.
  /\ \A p \in Patches, d \in Datasets : d.fact \notin p.del \cup p.add

VARIABLES
  sys,      \* the system graph
  graph,    \* the default graph
  shelf,    \* graph name -> contents of its shelf
  object,   \* the blob store's object: {bytes}, or {} for none
  pc,       \* the store call a request makes next
  body,     \* the dataset, blob or patch it carries
  listed,   \* the shelves it read from the registry and has yet to treat
  overlapped \* history: whether two requests were ever in flight at once

vars == <<sys, graph, shelf, object, pc, body, listed, overlapped>>
stores == <<sys, graph, shelf, object>>

Labels == {"idle",
           "check_there", "check_registry", "check_shelves",
           "dataset_registry", "dataset_update", "dataset_object",
           "blob_registry", "blob_object", "blob_update",
           "delete_registry", "delete_update", "delete_object",
           "patch_kind", "patch_update"}

NoBody == [kind |-> "none"]

Bodies == {NoBody}
  \cup [kind : {"dataset"}, dataset : Datasets]
  \cup [kind : {"blob"}, blob : Blobs]
  \cup [kind : {"patch"}, patch : Patches]

TypeOK ==
  /\ sys \in SysGraph
  /\ graph \in SUBSET Facts
  /\ shelf \in [Names -> SUBSET Facts]
  /\ object \in SUBSET Facts
  /\ pc \in [Reqs -> Labels]
  /\ body \in [Reqs -> Bodies]
  /\ listed \in [Reqs -> SUBSET Names]
  /\ overlapped \in BOOLEAN

-----------------------------------------------------------------------------
Goto(r, l) == pc' = [pc EXCEPT ![r] = l]

\* The handler returns, or is dropped: its locals are gone.
Finish(r) ==
  /\ Goto(r, "idle")
  /\ body' = [body EXCEPT ![r] = NoBody]
  /\ listed' = [listed EXCEPT ![r] = {}]

Busy == {r \in Reqs : pc[r] # "idle"}

Begin(r, l, b) ==
  /\ pc[r] = "idle"
  /\ Cardinality(Busy) < MaxInFlight
  /\ Goto(r, l)
  /\ body' = [body EXCEPT ![r] = b]
  /\ overlapped' = (overlapped \/ Busy # {})
  /\ UNCHANGED <<stores, listed>>

DatasetBody(d) == [kind |-> "dataset", dataset |-> d]

\* put_write: a format that cannot carry named graphs is held to what is there.
StartDataset(r) ==
  \E d \in Datasets :
    Begin(r, IF d.mt \in GraphTypes THEN "check_there" ELSE "dataset_registry",
          DatasetBody(d))

\* post_impl and create_by_patch write where the guard found nothing, and check
\* nothing more.
StartCreate(r) ==
  /\ ~sys.marked
  /\ \E d \in Datasets : Begin(r, "dataset_registry", DatasetBody(d))

StartBlob(r) ==
  \E b \in Blobs : Begin(r, "blob_registry", [kind |-> "blob", blob |-> b])

StartDelete(r) == Begin(r, "delete_registry", NoBody)

\* patch_impl patches what the guard found present; an absent target is a
\* dataset write (create_by_patch).
StartPatch(r) ==
  /\ sys.marked
  /\ \E p \in Patches : Begin(r, "patch_kind", [kind |-> "patch", patch |-> p])

\* get_dataset, as far as the refusal to discard named graphs goes: exists ...
CheckThere(r) ==
  /\ pc[r] = "check_there"
  /\ Goto(r, IF sys.marked THEN "check_registry" ELSE "dataset_registry")
  /\ UNCHANGED <<stores, body, listed>>

\* ... then the registry ...
CheckRegistry(r) ==
  /\ pc[r] = "check_registry"
  /\ listed' = [listed EXCEPT ![r] = sys.names]
  /\ Goto(r, "check_shelves")
  /\ UNCHANGED <<stores, body>>

\* Fault: no graph format is refused.
DiscardAnyway(r) ==
  /\ pc[r] = "check_shelves"
  /\ Goto(r, "dataset_registry")
  /\ listed' = [listed EXCEPT ![r] = {}]
  /\ UNCHANGED <<stores, body>>

\* ... then shelf after shelf: one whose name is gone is an error, one that
\* holds anything a refusal, and only if there is none the write goes on.
CheckShelves(r) ==
  /\ pc[r] = "check_shelves"
  /\ \/ /\ listed[r] = {}
        /\ Goto(r, "dataset_registry")
        /\ UNCHANGED <<body, listed>>
     \/ \E n \in listed[r] :
          IF n \notin sys.names \/ shelf[n] # {}
          THEN Finish(r)
          ELSE /\ listed' = [listed EXCEPT ![r] = @ \ {n}]
               /\ UNCHANGED <<pc, body>>
  /\ UNCHANGED stores

\* resource::registered_shelves: read before the update that drops it.
ReadRegistry(r) ==
  /\ \/ pc[r] = "dataset_registry" /\ Goto(r, "dataset_update")
     \/ pc[r] = "blob_registry" /\ Goto(r, "blob_object")
     \/ pc[r] = "delete_registry" /\ Goto(r, "delete_update")
  /\ listed' = [listed EXCEPT ![r] = sys.names]
  /\ UNCHANGED <<stores, body>>

\* Fault: only what the registry listed is dropped before the insert.
DropListedOnly(r) ==
  /\ pc[r] = "dataset_update"
  /\ LET d == body[r].dataset
         Kept(n) == IF n \in listed[r] THEN {} ELSE shelf[n]
     IN /\ sys' = [marked |-> TRUE, binary |-> FALSE, mt |-> d.mt,
                   names |-> d.names]
        /\ graph' = {d.fact}
        /\ shelf' = [n \in Names |-> IF n \in d.names THEN Kept(n) \cup {d.fact}
                                     ELSE Kept(n)]
  /\ Goto(r, "dataset_object")
  /\ UNCHANGED <<object, body, listed>>

\* Fault: the system graph is amended, not dropped, and keeps its kind.
KeepKind(r) ==
  /\ pc[r] = "dataset_update"
  /\ LET d == body[r].dataset
     IN /\ sys' = [sys EXCEPT !.marked = TRUE, !.mt = d.mt, !.names = d.names]
        /\ graph' = {d.fact}
        /\ shelf' = [n \in Names |-> IF n \in d.names THEN {d.fact}
                                     ELSE IF n \in listed[r] THEN {}
                                     ELSE shelf[n]]
  /\ Goto(r, "dataset_object")
  /\ UNCHANGED <<object, body, listed>>

\* put_dataset's update: the shelves listed, those about to be written, the
\* resource's graph and its system graph are dropped; then all are written.
DatasetUpdate(r) ==
  /\ pc[r] = "dataset_update"
  /\ LET d == body[r].dataset
     IN /\ sys' = [marked |-> TRUE, binary |-> FALSE, mt |-> d.mt,
                   names |-> d.names]
        /\ graph' = {d.fact}
        /\ shelf' = [n \in Names |-> IF n \in d.names THEN {d.fact}
                                     ELSE IF n \in listed[r] THEN {}
                                     ELSE shelf[n]]
  /\ Goto(r, "dataset_object")
  /\ UNCHANGED <<object, body, listed>>

\* The superseded blob goes after the update, whether or not there is one.
DeleteObject(r) ==
  /\ pc[r] \in {"dataset_object", "delete_object"}
  /\ object' = {}
  /\ Finish(r)
  /\ UNCHANGED <<sys, graph, shelf>>

\* Fault: an object write that failed is taken for one that did not.
IgnoreObjectError(r) ==
  /\ pc[r] = "blob_object"
  /\ object' \in {object, {body[r].blob.bytes}}
  /\ Goto(r, "blob_update")
  /\ UNCHANGED <<sys, graph, shelf, body, listed>>

\* Fault: the media type is stored for the bytes.
StoreType(r) ==
  /\ pc[r] = "blob_object"
  /\ object' = {body[r].blob.mt}
  /\ Goto(r, "blob_update")
  /\ UNCHANGED <<sys, graph, shelf, body, listed>>

\* put_blob: the object first.
PutObject(r) ==
  /\ pc[r] = "blob_object"
  /\ object' = {body[r].blob.bytes}
  /\ Goto(r, "blob_update")
  /\ UNCHANGED <<sys, graph, shelf, body, listed>>

\* Fault: the shelves of the dataset it replaces stay.
KeepShelves(r) ==
  /\ pc[r] = "blob_update"
  /\ sys' = [marked |-> TRUE, binary |-> TRUE, mt |-> body[r].blob.mt,
             names |-> {}]
  /\ graph' = {}
  /\ Finish(r)
  /\ UNCHANGED <<shelf, object>>

\* Then its marker, kind and media type, in place of everything else.
BlobUpdate(r) ==
  /\ pc[r] = "blob_update"
  /\ sys' = [marked |-> TRUE, binary |-> TRUE, mt |-> body[r].blob.mt,
             names |-> {}]
  /\ graph' = {}
  /\ shelf' = [n \in Names |-> IF n \in listed[r] THEN {} ELSE shelf[n]]
  /\ Finish(r)
  /\ UNCHANGED object

\* aux::delete_subject, as far as one resource's representation goes.
DeleteUpdate(r) ==
  /\ pc[r] = "delete_update"
  /\ sys' = NoMarker
  /\ graph' = {}
  /\ shelf' = [n \in Names |-> IF n \in listed[r] THEN {} ELSE shelf[n]]
  /\ Goto(r, "delete_object")
  /\ UNCHANGED <<object, body, listed>>

\* patch_impl's kind_of: bytes are not patched.
CheckKind(r) ==
  /\ pc[r] = "patch_kind"
  /\ IF sys.marked /\ sys.binary
     THEN Finish(r)
     ELSE Goto(r, "patch_update") /\ UNCHANGED <<body, listed>>
  /\ UNCHANGED stores

\* patch_guarded's update: its WHERE is the deletion set.
PatchUpdate(r) ==
  /\ pc[r] = "patch_update"
  /\ LET p == body[r].patch
     IN graph' = IF p.del \subseteq graph THEN (graph \ p.del) \cup p.add
                 ELSE graph
  /\ Finish(r)
  /\ UNCHANGED <<sys, shelf, object>>

\* A store call fails or the handler is dropped: nothing after it runs.
Fail(r) ==
  /\ Faults
  /\ pc[r] # "idle"
  /\ Finish(r)
  /\ UNCHANGED stores

-----------------------------------------------------------------------------
Init ==
  /\ sys = NoMarker
  /\ graph = {}
  /\ shelf = [n \in Names |-> {}]
  /\ object = {}
  /\ pc = [r \in Reqs |-> "idle"]
  /\ body = [r \in Reqs |-> NoBody]
  /\ listed = [r \in Reqs |-> {}]
  /\ overlapped = FALSE

Arrive(r) ==
  \/ StartDataset(r) \/ StartCreate(r) \/ StartBlob(r) \/ StartDelete(r)
  \/ StartPatch(r)

Work(r) ==
  \/ CheckThere(r) \/ CheckRegistry(r) \/ CheckShelves(r)
  \/ ReadRegistry(r) \/ DatasetUpdate(r) \/ DeleteObject(r)
  \/ PutObject(r) \/ BlobUpdate(r) \/ DeleteUpdate(r)
  \/ CheckKind(r) \/ PatchUpdate(r) \/ Fail(r)

Next == \E r \in Reqs : Arrive(r) \/ (Work(r) /\ UNCHANGED overlapped)

Spec == Init /\ [][Next]_vars

-----------------------------------------------------------------------------
(* What a read finds in one state of the stores. *)

Absent == [kind |-> "absent"]

\* kind_of, then get_dataset or the object.
Served ==
  IF ~sys.marked THEN Absent
  ELSE IF sys.binary THEN [kind |-> "bytes", mt |-> sys.mt, object |-> object]
  ELSE [kind |-> "rdf", mt |-> sys.mt, default |-> graph,
        named |-> [n \in sys.names |-> shelf[n]]]

AsServed(d) == [kind |-> "rdf", mt |-> d.mt, default |-> {d.fact},
                named |-> [n \in d.names |-> {d.fact}]]

\* Bytes and their media type are in two stores: from an overwrite's object to
\* its update, or for good if it is cut off there, the new bytes are served
\* under the type of the blob they replace.
BytesServed(t, b) == [kind |-> "bytes", mt |-> t.mt, object |-> {b.bytes}]

Patched(v, p) ==
  IF v.kind = "rdf" /\ p.del \subseteq v.default
  THEN [v EXCEPT !.default = (@ \ p.del) \cup p.add]
  ELSE v

\* The register promises nothing once two requests overlapped: the object and the
\* system graph are two stores, and rep_blob_race shows what comes of it.
Contract == INSTANCE Register
  WITH Puts <- {AsServed(d) : d \in Datasets}
                 \cup {BytesServed(t, b) : t \in Blobs, b \in Blobs},
       Absent <- Absent, Amend <- Patched, Patches <- Patches,
       value <- IF overlapped THEN Absent ELSE Served

-----------------------------------------------------------------------------
(* Properties: any number of requests at once, with faults *)

\* An RDF resource is always one client's dataset: its media type, its registry,
\* every shelf the registry lists and what is left of the body in its default
\* graph come from one PUT, whatever raced it.  The registry a writer read may
\* be stale, but the update that replaces it also writes every shelf it lists.
WholeDataset ==
  sys.marked /\ ~sys.binary =>
    \E d \in Datasets :
      /\ sys.mt = d.mt /\ sys.names = d.names
      /\ \A n \in d.names : shelf[n] = {d.fact}
      /\ graph \cap {e.fact : e \in Datasets} \subseteq {d.fact}

-----------------------------------------------------------------------------
(* Properties: as long as requests come one at a time, with faults *)

\* A resource that says it is bytes has bytes: the object is written before its
\* marker and deleted after it.
BlobHasObject == sys.marked /\ sys.binary => object # {}

\* So it is, wherever a request was cut off, until two of them overlap.
BinaryHasObject == ~overlapped => BlobHasObject

\* No graph outlives its registration: shelves are dropped by every write that
\* no longer lists them, so none is left that no DELETE would find.
NoOrphanShelf ==
  ~overlapped =>
    \A n \in Names : shelf[n] # {} => sys.marked /\ n \in sys.names

\* Named graphs are never discarded unseen: what replaces a dataset that has
\* some is bytes, a delete, or a format its client could have read them in.
NoSilentDiscard ==
  [][~overlapped /\ sys.marked /\ sys.names # {} /\ sys' # sys =>
       ~sys'.marked \/ sys'.binary \/ sys'.mt \notin GraphTypes]_vars

\* Every state of the stores a read can meet, at any await of any write and
\* after any failure, is a whole representation some client wrote, a blob's
\* media type alone excepted (BytesServed).
ReadsAreWhole == Contract!Spec
=============================================================================
