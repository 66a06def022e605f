------------------------------- MODULE Serve -------------------------------
(***************************************************************************)
(* The answer to a GET of an RDF resource, container or auxiliary once its *)
(* quads are read (http.rs, get_impl from the stored quads on, and         *)
(* legacy_graph_read), and the validators a conditional write compares     *)
(* with (current_tags, etag_candidates, check_conditionals).               *)
(***************************************************************************)
EXTENDS Dataset, Negotiate

Least(a, b) == IF a <= b THEN a ELSE b

\* Fault: the tag leaves the version out.
TagOfWhole(stored, fmt, requested) == etag(stored, fmt, Rdf11)

\* The tag a read answers with: of the version it serves, the lower of what is
\* asked for and what is held.
ServedTag(stored, fmt, requested) ==
  etag(stored, fmt, Least(requested, rdf_version(deskolemize(stored))))

\* Fault: only the graphs an IRI names are counted.
NamedByIri(fmt, stored) == ~carries_dataset(fmt) /\ named_graphs(deskolemize(stored)) # {}

\* Whether a format leaves some of the stored graphs out.
LeavesGraphsOut(fmt, stored) == ~carries_dataset(fmt) /\ has_named_graphs(stored)

\* get_impl: a response is its status, tag, body and what it says of the rest.
\* if_none_match is a tag or NoTag.
NoTag == [quads |-> {}, fmt |-> NoFormat, served |-> 0]

\* The response that carries a body, once the format and version are chosen.
Body(stored, visible, fmt, tag, held, served_version) ==
  [status |-> 200, tag |-> tag, fmt |-> fmt,
   body |-> project_to(IF carries_dataset(fmt) THEN visible ELSE default_graph_only(visible),
                       served_version),
   version |-> IF held > Rdf11 THEN served_version ELSE 0,
   alternate |-> served_version < held,
   partial |-> LeavesGraphsOut(fmt, stored),
   graphs |-> IF LeavesGraphsOut(fmt, stored) THEN named_graphs(visible) ELSE {}]

\* The responses that carry none: a 406, or a 304 with its tag.
Bodiless(status, fmt, tag) ==
  [status |-> status, tag |-> tag, fmt |-> fmt, body |-> {}, version |-> 0,
   alternate |-> FALSE, partial |-> FALSE, graphs |-> {}]

\* What is chosen is served unless nothing is, or the client has it.
Respond(stored, visible, held, chosen, if_none_match) ==
  IF chosen.fmt = NoFormat THEN Bodiless(406, NoFormat, NoTag)
  ELSE IF if_none_match = ServedTag(stored, chosen.fmt, chosen.version)
  THEN Bodiless(304, chosen.fmt, if_none_match)
  ELSE Body(stored, visible, chosen.fmt, ServedTag(stored, chosen.fmt, chosen.version),
            held, Least(chosen.version, held))

get_impl(stored, accept, stored_type, if_none_match) ==
  Respond(stored, deskolemize(stored), rdf_version(deskolemize(stored)),
          negotiate(accept, IF has_named_graphs(stored) THEN "Dataset" ELSE "Graph", stored_type),
          if_none_match)

\* legacy_graph_read: containers and auxiliaries have no stored media type and
\* no named graph.
legacy_graph_read(ground, accept, if_none_match) ==
  get_impl(ground, accept, NoFormat, if_none_match)

\* etag_candidates: every servable format, at RDF 1.1 and at the version held.
etag_candidates(stored) ==
  {etag(stored, f, v) : f \in Formats, v \in {Rdf11, rdf_version(deskolemize(stored))}}

\* check_conditionals, for a resource that is there: If-Match is met by any
\* current tag.
IfMatchPasses(stored, tag) == tag \in etag_candidates(stored)

-----------------------------------------------------------------------------
\* A client is told exactly when what it gets is not all there is: a named
\* graph it cannot be sent, or a term its version does not have; and the label
\* on what it gets is true.
SaysWhatIsMissing(stored, accept, stored_type) ==
  LET r == get_impl(stored, accept, stored_type, NoTag) IN
  r.status = 200 =>
    /\ r.body # deskolemize(stored) <=> r.partial \/ r.alternate
    /\ rdf_version(r.body) <= IF r.version = 0 THEN Rdf11 ELSE r.version

\* Two answers with one tag are one representation: a cache or a 304 never
\* stands in for different bytes.
OneTagOneBody(stored, a, b, stored_type) ==
  LET r == get_impl(stored, a, stored_type, NoTag)
      s == get_impl(stored, b, stored_type, NoTag)
  IN r.status = 200 /\ s.status = 200 /\ r.tag = s.tag =>
       /\ r = s
       /\ get_impl(stored, b, stored_type, r.tag).status = 304
=============================================================================
