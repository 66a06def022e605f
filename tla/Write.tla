------------------------------- MODULE Write -------------------------------
(***************************************************************************)
(* What stands between an authorized PUT and the store (http.rs,           *)
(* put_write's refusals in their order) and the shapes a container binds   *)
(* its members to (src/src/shapes.rs; enforce_shape, patch_shape_conflict  *)
(* and validate_view in http.rs; container.rs's server-managed triples).   *)
(*                                                                         *)
(* A container's ldp:constrainedBy objects are taken by what load tells    *)
(* apart: "literal", "elsewhere" (an IRI of another origin, one that       *)
(* begins with this pod's base included), "notResource" (a path of this    *)
(* pod that is no ordinary resource) and documents.                        *)
(*                                                                         *)
(* The SHACL engine is external.  What it is given is a text that it reads *)
(* as SHACL or does not; a shape is what it is asked about: predicates the *)
(* graph must have and must not have, at sh:Violation, and predicates it   *)
(* should have, at sh:Warning or sh:Info.  The store and the engine may    *)
(* fail: an operator that calls on them is told the step that fails.       *)
(***************************************************************************)
EXTENDS Serve

Contains_ == Iri("contains")
TypePred == Iri("type")
Self == Iri("self")
ContainerTypes == {Iri("Container"), Iri("BasicContainer")}

-----------------------------------------------------------------------------
\* A shape is a set of constraints, and the text of a document one or no SHACL.
Constraint ==
  [on : {"needs", "bans"}, path : Atoms, severity : {"Violation", "Warning", "Info"}]
ShapeTexts == [shacl : BOOLEAN, constraints : SUBSET Constraint]
NoText == [shacl |-> FALSE, constraints |-> {}]

\* The steps that can fail, in order: load's reads of the binding, of the
\* document's kind and of its content, and its writing out; ?validate's reads of
\* the target's kind and of its content; validate's handing over of the data, and
\* all it does once the shapes are read; and the writing of ?validate's answer.
LoadSteps == {"binding", "kind", "content", "text"}
EngineSteps == {"data", "report"}
Steps == LoadSteps \cup {"targetKind", "target"} \cup EngineSteps \cup {"answer"}
NoStep == "none"

\* shapes::load's answer: nothing, a shape, or an error.
Unconstrained == [kind |-> "none", shape |-> NoText]
ShapeError(e) == [kind |-> e, shape |-> NoText]

\* Fault: a document that went away between the two reads is an empty shape.
LoadOrEmpty(bound, doc, fails) ==
  IF fails = "binding" THEN ShapeError("Resource")
  ELSE IF "literal" \in bound THEN ShapeError("Unsupported")
  ELSE IF bound = {} THEN Unconstrained
  ELSE IF Cardinality(bound) > 1 \/ bound \cap {"elsewhere", "notResource"} # {}
    THEN ShapeError("Unsupported")
  ELSE IF fails = "kind" THEN ShapeError("Resource")
  ELSE IF doc.kind = "absent" THEN ShapeError("Missing")
  ELSE IF doc.kind = "binary" THEN ShapeError("Unsupported")
  ELSE IF doc.gone THEN [kind |-> "shape", shape |-> [shacl |-> TRUE, constraints |-> {}]]
  ELSE IF doc.sparql THEN ShapeError("Unsupported")
  ELSE [kind |-> "shape", shape |-> doc.shape]

\* shapes::load: doc is the bound document as kind_of finds it, and whether it
\* is gone by the time get_rdf reads it; sparql is mentions_shacl_sparql.
load(bound, doc, fails) ==
  IF fails = "binding" THEN ShapeError("Resource")
  ELSE IF "literal" \in bound THEN ShapeError("Unsupported")
  ELSE IF bound = {} THEN Unconstrained
  ELSE IF Cardinality(bound) > 1 \/ bound \cap {"elsewhere", "notResource"} # {}
    THEN ShapeError("Unsupported")
  ELSE IF fails = "kind" THEN ShapeError("Resource")
  ELSE IF doc.kind = "absent" THEN ShapeError("Missing")
  ELSE IF doc.kind = "binary" THEN ShapeError("Unsupported")
  ELSE IF fails = "content" THEN ShapeError("Resource")
  ELSE IF doc.gone THEN ShapeError("Missing")
  ELSE IF doc.sparql THEN ShapeError("Unsupported")
  ELSE IF fails = "text" THEN ShapeError("Unparsable")
  ELSE [kind |-> "shape", shape |-> doc.shape]

Has(d, p) == \E q \in d : q.p = p

Breaks(c, d) == IF c.on = "needs" THEN ~Has(d, c.path) ELSE Has(d, c.path)

\* The severities of the results a shape has for a body's default graph.
Severities(constraints, d) ==
  {c.severity : c \in {x \in constraints : Breaks(x, default_graph_only(d))}}

\* shapes::validate's answer: a report of results, or an error.
Report(results) == [kind |-> "report", results |-> results]
NoReport(e) == [kind |-> e, results |-> {}]

\* Fault: a document the engine cannot read as SHACL has nothing to say.
SilentIfBroken(shape, d, fails) ==
  IF fails \in EngineSteps THEN NoReport("Engine") ELSE Report(Severities(shape.constraints, d))

\* shapes::validate: the data goes in before the shapes are read.
validate(shape, d, fails) ==
  IF fails = "data" THEN NoReport("Engine")
  ELSE IF ~shape.shacl THEN NoReport("Unparsable")
  ELSE IF fails = "report" THEN NoReport("Engine")
  ELSE Report(Severities(shape.constraints, d))

\* Report::refuses: a violation and nothing less.
refuses(report) == "Violation" \in report.results

\* shape_status: put_status has 500 for a store that fails.
shape_status(e) == IF e \in {"Engine", "Resource"} THEN 500 ELSE 409

\* enforce_shape: the status that refuses the write, or 0, and whether there are
\* findings to link to.  The root alone has no parent.
Verdict(status, findings) == [status |-> status, findings |-> findings]
enforce_shape(target, loaded, d, fails) ==
  LET report == validate(loaded.shape, d, fails) IN
  IF target \in {"aux", "root"} \/ loaded.kind = "none" THEN Verdict(0, FALSE)
  ELSE IF loaded.kind # "shape" THEN Verdict(shape_status(loaded.kind), FALSE)
  ELSE IF report.kind # "report" THEN Verdict(shape_status(report.kind), FALSE)
  ELSE IF refuses(report) THEN Verdict(422, FALSE)
  ELSE Verdict(0, report.results # {})

\* patch_shape_conflict
patch_shape_conflict(target, loaded) ==
  IF target \in {"aux", "root"} \/ loaded.kind = "none" THEN 0
  ELSE IF loaded.kind = "shape" THEN 409 ELSE shape_status(loaded.kind)

-----------------------------------------------------------------------------
\* container::body_sets_containment, over the triples of every graph.
body_sets_containment(d) == \E q \in d : q.p = Contains_

\* The PUT's own container keeps its members and is typed again.
ServerTriples(members) ==
  {Quad(Self, Contains_, Obj(m), DefaultGraph) : m \in members}
  \cup {Quad(Self, TypePred, Obj(c), DefaultGraph) : c \in ContainerTypes}

StoredAs(target, d, members) ==
  IF target \in {"root", "container"} THEN default_graph_only(d) \cup ServerTriples(members) ELSE d

\* Fault: the members are left in.
TypesOnly(d) ==
  {q \in d : ~(q.p = TypePred /\ q.s = Self /\ q.o \in {Obj(c) : c \in ContainerTypes})}

\* container::without_server_managed
without_server_managed(d) ==
  {q \in d : /\ q.p # Contains_
             /\ ~(q.p = TypePred /\ q.s = Self /\ q.o \in {Obj(c) : c \in ContainerTypes})}

\* validate_view, past the guard: the status, and the report if it is 200.  A kind
\* that cannot be read is taken for none, and the target read as a dataset.
NoView(status) == [status |-> status, results |-> {}]
validate_view(target, loaded, stored, fails, accept) ==
  LET own == IF target = "container" THEN without_server_managed(stored.quads) ELSE stored.quads
      report == validate(loaded.shape, deskolemize(own), fails)
  IN IF target \in {"aux", "root"} \/ loaded.kind = "none" THEN NoView(404)
     ELSE IF loaded.kind # "shape" THEN NoView(shape_status(loaded.kind))
     ELSE IF target = "resource" /\ stored.kind = "binary" /\ fails # "targetKind" THEN NoView(404)
     ELSE IF fails = "target" THEN NoView(500)
     ELSE IF stored.kind = "absent" THEN NoView(404)
     ELSE IF report.kind # "report" THEN NoView(shape_status(report.kind))
     ELSE IF negotiate(accept, "Graph", NoFormat).fmt = NoFormat THEN NoView(406)
     ELSE IF fails = "answer" THEN NoView(500)
     ELSE [status |-> 200, results |-> report.results]

-----------------------------------------------------------------------------
Nobody == [there |-> FALSE, quads |-> {}]

\* Fault: the version a client declared is not held against what is there.
AnyVersion(target, d, fmt, declared, existing) ==
  IF uses_reserved_namespace(d) THEN 400
  ELSE IF has_named_graphs(d) /\ target # "resource" THEN 400
  ELSE IF target \in {"root", "container"} /\ body_sets_containment(d) THEN 409
  ELSE IF target # "resource" \/ ~existing.there THEN 0
  ELSE IF ~carries_dataset(fmt) /\ has_named_graphs(existing.quads) THEN 409
  ELSE 0

\* put_write, of a body classify_body took for RDF: its refusals up to the
\* preconditions.  existing is the stored dataset, ground.
put_refusal(target, d, fmt, declared, existing) ==
  IF uses_reserved_namespace(d) THEN 400
  ELSE IF has_named_graphs(d) /\ target # "resource" THEN 400
  ELSE IF target \in {"root", "container"} /\ body_sets_containment(d) THEN 409
  ELSE IF target # "resource" \/ ~existing.there THEN 0
  ELSE IF declared < rdf_version(deskolemize(existing.quads)) THEN 409
  ELSE IF ~carries_dataset(fmt) /\ has_named_graphs(existing.quads) THEN 409
  ELSE 0

\* check_conditionals: If-Match is a tag or NoTag; If-None-Match is "*" or not
\* given.
check_conditionals(existing, if_match, if_none_match_any) ==
  IF if_match # NoTag /\ ~(existing.there /\ IfMatchPasses(existing.quads, if_match)) THEN 412
  ELSE IF if_none_match_any /\ existing.there THEN 412
  ELSE 0

-----------------------------------------------------------------------------
\* A PUT replaces only what its client could have read: asked for in the format
\* and version it writes in, the resource comes whole.
ReplacesOnlyWhatItShows(d, fmt, declared, stored) ==
  put_refusal("resource", d, fmt, declared, [there |-> TRUE, quads |-> stored]) = 0 =>
    LET seen == get_impl(stored, <<Entry(fmt, 10, declared)>>, NoFormat, NoTag)
    IN seen.status = 200 /\ ~seen.partial /\ ~seen.alternate

\* A tag a read gave out is one a conditional write passes with, as long as
\* nothing changed.
TagIsCurrent(stored, accept, stored_type) ==
  LET r == get_impl(stored, accept, stored_type, NoTag) IN
  r.status = 200 => check_conditionals([there |-> TRUE, quads |-> stored], r.tag, FALSE) = 0

\* A container that states a binding, or cannot be asked for it, lets an RDF body
\* in only past the one document it names, as that document was read and as the
\* engine, which did not fail, understood it; a PATCH never.
FailsClosed(bound, doc, d, fails) ==
  LET loaded == load(bound, doc, fails) IN
  bound # {} \/ fails = "binding" =>
    /\ enforce_shape("resource", loaded, d, fails).status = 0 =>
         /\ fails \notin LoadSteps \cup EngineSteps
         /\ bound \subseteq {"document", "other"} /\ Cardinality(bound) = 1
         /\ doc.kind = "rdf" /\ ~doc.gone /\ ~doc.sparql /\ doc.shape.shacl
         /\ \A c \in doc.shape.constraints :
              c.severity = "Violation" => ~Breaks(c, default_graph_only(d))
    /\ patch_shape_conflict("resource", loaded) # 0

\* The report on what a PUT stored is the one the PUT was judged by: nothing it
\* let in is a violation afterwards, it linked to the report iff there is
\* something in it, and the link leads to a report unless something fails.  A body
\* that claims the container's own types is left out: they are taken for the
\* server's.
ReportAgrees(target, d, shape, members, minted, fails, accept) ==
  LET loaded == [kind |-> "shape", shape |-> shape]
      judged == enforce_shape(target, loaded, d, NoStep)
      stored == StoredAs(target, skolemize(d, minted), members)
      view == validate_view(target, loaded, [kind |-> "rdf", quads |-> stored], fails, accept)
  IN /\ put_refusal(target, d, JsonLd, Rdf12, Nobody) = 0
     /\ judged.status = 0
     /\ without_server_managed(d) = d
     => /\ view.status = 200 => /\ ~refuses(view)
                                /\ judged.findings <=> view.results # {}
        /\ judged.findings => view.status # 404
        /\ fails = NoStep /\ target \notin {"aux", "root"} => view.status \in {200, 406}
=============================================================================
