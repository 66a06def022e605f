------------------------------- MODULE Patch -------------------------------
(***************************************************************************)
(* N3 patches: src/src/patch.rs reads the document and holds it to its     *)
(* shape, resource.rs (patch_guarded) applies it to a graph, http.rs       *)
(* decides what may be patched at all and creates an absent target.        *)
(*                                                                         *)
(* A document is the list of its quads as the N3 parser yields them; a     *)
(* formula is a blank node that names a graph.  A term is [k, n]: an       *)
(* "iri", one of the reserved namespace ("reserved" in a document,         *)
(* "skolem" in the store), a "literal", one with a direction ("dir"), a    *)
(* "var", a "blank" node or a "triple" term.  Pattern terms carry the      *)
(* index of a variable in i, and Ground otherwise.  Neither a SELECT nor an *)
(* update tells the order of its patterns, so a patch keeps sets of them.  *)
(***************************************************************************)
EXTENDS Integers, Sequences, SequencesExt

T(k, n) == [k |-> k, n |-> n]
Q(s, p, o, g) == [s |-> s, p |-> p, o |-> o, g |-> g]
DefaultG == T("default", "graph")

RdfType == T("iri", "type")
InsertDeletePatch == T("iri", "InsertDeletePatch")
LdpContains == T("iri", "contains")
Predicates == [where |-> T("iri", "where"), deletes |-> T("iri", "deletes"),
               inserts |-> T("iri", "inserts")]

\* A document for which no formula is found: its object is NoFormula.
NoFormula == T("none", "none")

Terms == [k : STRING, n : STRING]
Documents == {doc \in Seq([s : Terms, p : Terms, o : Terms, g : Terms]) :
                \A i \in DOMAIN doc : doc[i].g # NoFormula}

IsOne(S) == \E x \in S : S = {x}

-----------------------------------------------------------------------------
\* patch_subject
PatchSubjects(doc) ==
  {doc[i].s : i \in {j \in DOMAIN doc :
     doc[j].g = DefaultG /\ doc[j].p = RdfType /\ doc[j].o = InsertDeletePatch}}

\* formula and names_a_formula: where one formula predicate is used.
Uses(doc, subject, predicate) ==
  {i \in DOMAIN doc : doc[i].g = DefaultG /\ doc[i].s = subject /\ doc[i].p = predicate}

names_a_formula(doc, b) == b.k = "blank" /\ \E i \in DOMAIN doc : doc[i].g = b

FormulaOk(doc, subject, predicate) ==
  LET found == Uses(doc, subject, predicate)
  IN found = {} \/ (IsOne(found) /\ \A i \in found : names_a_formula(doc, doc[i].o))

formula(doc, subject, predicate) ==
  LET found == Uses(doc, subject, predicate)
  IN IF found = {} THEN NoFormula ELSE doc[CHOOSE i \in found : TRUE].o

\* Where the quads of a formula are.
Contents(doc, f) == {i \in DOMAIN doc : doc[i].g = f}

\* The terms of a quad in the order patterns walks them.
Slots == <<"s", "p", "o">>

\* Renumber's keys: a variable and a blank node of one spelling are two names.
IsName(t) == t.k \in {"var", "blank"}

\* Fault: one key for both.
SpellingOnly(t) == T("var", t.n)

Key(t) == t

\* Renumber::bind: the next free index for a name not met before.
bind(names, t) ==
  IF IsName(t) /\ Key(t) \notin ToSet(names) THEN Append(names, Key(t)) ELSE names

\* Renumber::lookup
Ground == -1
lookup(names, t) ==
  LET at == {i \in DOMAIN names : names[i] = Key(t)}
  IN IF at = {} THEN Ground ELSE (CHOOSE i \in at : TRUE) - 1

\* The names the conditions bind, in order of appearance.
BoundNames(doc, f) ==
  LET names[i \in 0..Len(doc)] ==
        IF i = 0 THEN <<>>
        ELSE IF doc[i].g # f THEN names[i - 1]
        ELSE bind(bind(bind(names[i - 1], doc[i].s), doc[i].p), doc[i].o)
  IN names[Len(doc)]

\* term and non_literal: what is wrong with one term, if anything.  Conditions
\* bind names, the other two formulae look them up.
TermError(t, slot, binding, bound) ==
  CASE t.k = "reserved" -> "Reserved"
    [] t.k \in {"dir", "triple"} -> "Rdf12Term"
    [] t.k = "literal" -> IF slot = "o" THEN "none" ELSE "Shape"
    [] t.k = "var" -> IF binding \/ Key(t) \in ToSet(bound) THEN "none" ELSE "Shape"
    [] t.k = "blank" -> IF binding THEN "none" ELSE "Shape"
    [] OTHER -> "none"

\* Fault: an insertion may name a variable of its own.
BindAnywhere(doc, f, binding, bound) ==
  {e \in {[at |-> 3 * i + j, err |-> TermError(doc[i][Slots[j]], Slots[j], TRUE, bound)] :
            i \in Contents(doc, f), j \in 1..3} : e.err # "none"}

\* patterns: the errors of one formula, each with the place it would be met at.
Errors(doc, f, binding, bound) ==
  {e \in {[at |-> 3 * i + j, err |-> TermError(doc[i][Slots[j]], Slots[j], binding, bound)] :
            i \in Contents(doc, f), j \in 1..3} : e.err # "none"}

First(errors) == (CHOOSE e \in errors : \A d \in errors : e.at <= d.at).err

\* What a pattern keeps of a term: the index of a name.
PatternTerm(t, bound) ==
  IF IsName(t) THEN [k |-> "var", n |-> "none", i |-> lookup(bound, t)]
  ELSE [k |-> t.k, n |-> t.n, i |-> Ground]

Pattern(q, bound) == [s |-> PatternTerm(q.s, bound), p |-> PatternTerm(q.p, bound),
                      o |-> PatternTerm(q.o, bound)]

PatternsOf(doc, f, bound) == {Pattern(doc[i], bound) : i \in Contents(doc, f)}

Invalid(err) == [err |-> err, conditions |-> {}, deletions |-> {}, insertions |-> {},
                 variables |-> 0]

\* Patch::parse, of what the N3 parser accepted.
parse(doc) ==
  LET subject == CHOOSE s \in PatchSubjects(doc) : TRUE
      where == formula(doc, subject, Predicates["where"])
      deletes == formula(doc, subject, Predicates["deletes"])
      inserts == formula(doc, subject, Predicates["inserts"])
      bound == BoundNames(doc, where)
      inConditions == Errors(doc, where, TRUE, bound)
      inDeletions == Errors(doc, deletes, FALSE, bound)
      inInsertions == Errors(doc, inserts, FALSE, bound)
  IN IF ~IsOne(PatchSubjects(doc)) THEN Invalid("Shape")
     ELSE IF \E f \in DOMAIN Predicates : ~FormulaOk(doc, subject, Predicates[f])
       THEN Invalid("Shape")
     ELSE IF inConditions # {} THEN Invalid(First(inConditions))
     ELSE IF inDeletions # {} THEN Invalid(First(inDeletions))
     ELSE IF inInsertions # {} THEN Invalid(First(inInsertions))
     ELSE [err |-> "none", conditions |-> PatternsOf(doc, where, bound),
           deletions |-> PatternsOf(doc, deletes, bound),
           insertions |-> PatternsOf(doc, inserts, bound), variables |-> Len(bound)]

\* Fault: deletions are taken to need no Read, conditions alone do.
WriteIsEnough(patch) ==
  (IF patch.conditions # {} THEN {"Read"} ELSE {})
  \cup (IF patch.insertions # {} THEN {"Append"} ELSE {})
  \cup (IF patch.deletions # {} THEN {"Write"} ELSE {})

\* Patch::required_modes
required_modes(patch) ==
  (IF patch.conditions # {} \/ patch.deletions # {} THEN {"Read"} ELSE {})
  \cup (IF patch.insertions # {} THEN {"Append"} ELSE {})
  \cup (IF patch.deletions # {} THEN {"Write"} ELSE {})

\* RequiredModes::satisfied_by: AccessModes::allows has Write stand for Append.
satisfied_by(modes, held) ==
  \A m \in modes : m \in held \/ (m = "Append" /\ "Write" \in held)

-----------------------------------------------------------------------------
\* A graph is a set of [s, p, o] of stored terms.
StoredTerm == [k : {"iri", "skolem", "literal", "dir", "triple"}, n : STRING]
StoredTriples == [s : StoredTerm, p : StoredTerm, o : StoredTerm]

\* Patterns with every variable by what it is bound to.
GroundTerm(t, binding) == IF t.k = "var" THEN binding[t.i] ELSE T(t.k, t.n)

GroundTriple(p, binding) ==
  [s |-> GroundTerm(p.s, binding), p |-> GroundTerm(p.p, binding), o |-> GroundTerm(p.o, binding)]

Instances(patterns, binding) == {GroundTriple(p, binding) : p \in patterns}

\* Fault: every stored term has a text.
RenderAny(t) == TRUE

\* render_bound: only an IRI or a literal can be sent to the store again.
render_bound(t) == t.k \in {"iri", "skolem", "literal", "dir"}

\* ground_term: whether a term can be sent, a variable by what it is bound to.
Rendered(t, binding) == t.k = "var" => render_bound(binding[t.i])

\* substitute: an error if one term cannot be sent.
substitute(patterns, binding) ==
  [ok |-> \A p \in patterns : /\ Rendered(p.s, binding) /\ Rendered(p.p, binding)
                              /\ Rendered(p.o, binding),
   triples |-> Instances(patterns, binding)]

StoredTerms(graph) == UNION {{t.s, t.p, t.o} : t \in graph}

\* The SELECT: every mapping of the variables that puts the conditions in the
\* graph.  LIMIT 2 tells none, one and several apart.
Solutions(patch, graph) ==
  {b \in [0..(patch.variables - 1) -> StoredTerms(graph)] :
     Instances(patch.conditions, b) \subseteq graph}

\* None, one or several.
CountMappings(solutions) ==
  IF solutions = {} THEN "NoMapping" ELSE IF IsOne(solutions) THEN "one" ELSE "SeveralMappings"

\* patch_guarded on a graph nobody else touches, with its guard met: the result
\* and the graph it leaves.  "Backend" is its one error that is not the store's.
patch_guarded(patch, graph) ==
  LET solutions == Solutions(patch, graph)
      counted == IF patch.conditions = {} THEN "one" ELSE CountMappings(solutions)
      binding == CHOOSE b \in solutions : TRUE
      deletions == substitute(patch.deletions, binding)
      insertions == substitute(patch.insertions, binding)
  IN IF counted # "one" THEN [result |-> counted, graph |-> graph]
     ELSE IF ~deletions.ok \/ ~insertions.ok THEN [result |-> "Backend", graph |-> graph]
     ELSE IF deletions.triples \subseteq graph
       THEN [result |-> "Applied", graph |-> (graph \ deletions.triples) \cup insertions.triples]
     ELSE [result |-> "DeletionMissing", graph |-> graph]

\* Patch::ground_insertions has an answer iff nothing is to be matched.
ground_insertions_ok(patch) == patch.conditions = {}

\* Fault: there is nothing to delete, so nothing is missing.
DeletionsIgnored(patch) ==
  IF ~ground_insertions_ok(patch) THEN [result |-> "NoMapping", graph |-> {}]
  ELSE [result |-> "Applied", graph |-> Instances(patch.insertions, <<>>)]

\* create_by_patch: an absent target.
create_by_patch(patch) ==
  IF ~ground_insertions_ok(patch) THEN [result |-> "NoMapping", graph |-> {}]
  ELSE IF patch.deletions # {} THEN [result |-> "DeletionMissing", graph |-> {}]
  ELSE [result |-> "Applied", graph |-> Instances(patch.insertions, <<>>)]

\* Fault: only the insertions are looked at.
InsertionsOnly(patch) ==
  \E q \in patch.insertions : q.p.k = "var" \/ q.p.n = LdpContains.n

\* patch_sets_containment: the refusal to patch a container's members.
patch_sets_containment(patch) ==
  \E q \in patch.insertions \cup patch.deletions : q.p.k = "var" \/ q.p.n = LdpContains.n

-----------------------------------------------------------------------------
(* Reference: the document read as the specification words it. *)

\* The contents of the one formula a predicate of the one patch names.
PartOf(doc, f) ==
  {q \in ToSet(doc) : \E r \in ToSet(doc) :
     r.g = DefaultG /\ r.s \in PatchSubjects(doc) /\ r.p = Predicates[f] /\ r.o = q.g}

TermsOf(quads) == UNION {{q.s, q.p, q.o} : q \in quads}
NamesIn(quads) == {t \in TermsOf(quads) : IsName(t)}

\* What the client's own names stand for puts its conditions in the graph.
ReadAs(t, m) == IF IsName(t) THEN m[t] ELSE t
ReadQuads(quads, m) ==
  {[s |-> ReadAs(q.s, m), p |-> ReadAs(q.p, m), o |-> ReadAs(q.o, m)] : q \in quads}

Mappings(doc, graph) ==
  {m \in [NamesIn(PartOf(doc, "where")) -> StoredTerms(graph)] :
     ReadQuads(PartOf(doc, "where"), m) \subseteq graph}

\* Literals stay out of subjects and predicates: what a SPARQL engine makes of
\* one that a variable carries there is its own affair.
WellFormed(triples) ==
  \A t \in triples : {t.s.k, t.p.k} \cap {"literal", "dir"} = {}

\* A document is refused iff it breaks the shape, names the reserved namespace
\* or carries an RDF 1.2 term, in the formulae of its one patch.
ParseIsExact(doc) ==
  LET parts == PartOf(doc, "where") \cup PartOf(doc, "deletes") \cup PartOf(doc, "inserts")
      written == PartOf(doc, "deletes") \cup PartOf(doc, "inserts")
      uses(f) == {i \in DOMAIN doc : doc[i].g = DefaultG /\ doc[i].s \in PatchSubjects(doc)
                                       /\ doc[i].p = Predicates[f]}
  IN parse(doc).err = "none" <=>
       /\ IsOne(PatchSubjects(doc))
       /\ \A f \in DOMAIN Predicates : \A i \in uses(f) :
            uses(f) = {i} /\ doc[i].o.k = "blank" /\ PartOf(doc, f) # {}
       /\ \A t \in TermsOf(parts) : t.k \notin {"reserved", "dir", "triple"}
       /\ \A q \in parts : q.s.k # "literal" /\ q.p.k # "literal"
       /\ \A t \in NamesIn(written) : t.k = "var" /\ t \in NamesIn(PartOf(doc, "where"))

\* A patch does to a graph what its document says of the client's own names,
\* though none of them is ever sent to the store: with exactly one mapping and
\* every deletion there, the deletions go and the insertions come; otherwise
\* nothing changes.  A name that stands for a triple term may be matched and not
\* written: the patch then fails and changes nothing.
AppliesAsWritten(doc, graph) ==
  LET patch == parse(doc)
      done == patch_guarded(patch, graph)
      mappings == Mappings(doc, graph)
      m == CHOOSE x \in mappings : TRUE
      deletions == ReadQuads(PartOf(doc, "deletes"), m)
      insertions == ReadQuads(PartOf(doc, "inserts"), m)
      matched == PartOf(doc, "where") = {} \/ IsOne(mappings)
      written == PartOf(doc, "deletes") \cup PartOf(doc, "inserts")
      sayable == \A t \in NamesIn(written) : m[t].k # "triple"
  IN patch.err = "none" /\ (matched => WellFormed(deletions \cup insertions)) =>
       IF matched /\ sayable /\ deletions \subseteq graph
       THEN done = [result |-> "Applied", graph |-> (graph \ deletions) \cup insertions]
       ELSE done.result # "Applied" /\ done.graph = graph

\* Creating a resource by a patch is patching an empty one.
CreatesAsFromEmpty(doc) ==
  LET patch == parse(doc) IN
  patch.err = "none" => create_by_patch(patch) = patch_guarded(patch, {})

\* A patch a container accepts never changes its members, whatever its
\* variables bind.
MembersUntouched(doc, graph) ==
  LET patch == parse(doc)
      Members(g) == {t \in g : t.p = LdpContains}
  IN patch.err = "none" /\ ~patch_sets_containment(patch) =>
       Members(patch_guarded(patch, graph).graph) = Members(graph)

\* An agent without Read learns nothing of the graph from the answer, one
\* without Append or Write adds nothing, one without Write removes nothing.
NeedsWhatItDoes(doc, graph, held) ==
  LET patch == parse(doc)
      done == patch_guarded(patch, graph)
  IN patch.err = "none" /\ satisfied_by(required_modes(patch), held) =>
       /\ "Read" \notin held => done.result = patch_guarded(patch, {}).result
       /\ {"Append", "Write"} \cap held = {} => done.graph \subseteq graph
       /\ "Write" \notin held => graph \subseteq done.graph
=============================================================================
