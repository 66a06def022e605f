------------------------------ MODULE Dataset ------------------------------
(***************************************************************************)
(* Datasets as clients write and read them and as the store holds them     *)
(* (src/src/dataset.rs): blank nodes become server-minted IRIs on the way  *)
(* in and blank nodes again on the way out; RDF versions and projections;  *)
(* the validator.                                                          *)
(*                                                                         *)
(* An atom is [ns, n]: a client's IRI, a "skolem" IRI of the server's      *)
(* namespace, a blank node, a plain or a directional literal, or the name  *)
(* of the default graph.  Only objects nest (RDF 1.2 triple terms), so an  *)
(* object is a spine of (subject, predicate) pairs and the atom they end   *)
(* in; an ordinary object has no spine.  A dataset is a set of quads: the  *)
(* store keeps no order and no duplicates.                                 *)
(***************************************************************************)
EXTENDS Naturals, Sequences, FiniteSets

Atom(ns, n) == [ns |-> ns, n |-> n]
Iri(n) == Atom("iri", n)
Skolem(u) == Atom("skolem", u)
Blank(b) == Atom("blank", b)
DefaultGraph == Atom("default", "graph")

Obj(leaf) == [spine |-> <<>>, leaf |-> leaf]
TripleTerm(s, p, o) == [spine |-> <<[s |-> s, p |-> p]>> \o o.spine, leaf |-> o.leaf]
Quad(s, p, o, g) == [s |-> s, p |-> p, o |-> o, g |-> g]

\* Any atom, any quad.
Atoms == [ns : STRING, n : STRING]
Quads == [s : Atoms, p : Atoms, g : Atoms, o : [spine : Seq([s : Atoms, p : Atoms]), leaf : Atoms]]

\* RdfVersion, in the order the enum derives.
Rdf11 == 1
Rdf12Basic == 2
Rdf12 == 3
Versions == {Rdf11, Rdf12Basic, Rdf12}

-----------------------------------------------------------------------------
\* Every atom of a quad but its predicates, which are IRIs in both types.
QuadAtoms(q) ==
  {q.s, q.g, q.o.leaf} \cup {q.o.spine[i].s : i \in DOMAIN q.o.spine}

DatasetAtoms(d) == UNION {QuadAtoms(q) : q \in d}

\* The same change made to every such atom, at every depth.
MapQuad(F(_), q) ==
  [s |-> F(q.s), p |-> q.p, g |-> F(q.g),
   o |-> [spine |-> [i \in DOMAIN q.o.spine |-> [q.o.spine[i] EXCEPT !.s = F(@)]],
          leaf |-> F(q.o.leaf)]]

MapDataset(F(_), d) == {MapQuad(F, q) : q \in d}

BlankLabels(d) == {a.n : a \in {b \in DatasetAtoms(d) : b.ns = "blank"}}

-----------------------------------------------------------------------------
\* is_reserved_iri
is_reserved_iri(a) == a.ns = "skolem"

\* Dataset::uses_reserved_namespace: the four positions of the quad itself.
uses_reserved_namespace(d) ==
  \E q \in d : \/ is_reserved_iri(q.s) \/ is_reserved_iri(q.p) \/ is_reserved_iri(q.g)
               \/ q.o.spine = <<>> /\ is_reserved_iri(q.o.leaf)

\* Dataset::has_named_graphs and Dataset::named_graphs: the second lists the
\* graphs an IRI names.
has_named_graphs(d) == \E q \in d : q.g # DefaultGraph
named_graphs(d) == {q.g : q \in {r \in d : r.g.ns = "iri"}}

\* Dataset::default_graph_only
default_graph_only(d) == {q \in d : q.g = DefaultGraph}

QuadVersion(q) ==
  IF q.o.spine # <<>> THEN Rdf12
  ELSE IF q.o.leaf.ns = "directional" THEN Rdf12Basic ELSE Rdf11

\* Dataset::rdf_version
rdf_version(d) ==
  CHOOSE v \in Versions : /\ \A q \in d : QuadVersion(q) <= v
                          /\ v = Rdf11 \/ \E q \in d : QuadVersion(q) = v

\* Fault: triple terms are dropped, directions are left on.
KeepDirections(d, target) ==
  IF rdf_version(d) <= target THEN d
  ELSE {q \in d : target >= Rdf12 \/ q.o.spine = <<>>}

\* Dataset::project_to
project_to(d, target) ==
  IF rdf_version(d) <= target THEN d
  ELSE {IF target < Rdf12Basic /\ q.o.leaf.ns = "directional"
        THEN [q EXCEPT !.o.leaf.ns = "literal"] ELSE q :
          q \in {r \in d : target >= Rdf12 \/ r.o.spine = <<>>}}

-----------------------------------------------------------------------------
\* Fault: the blank nodes of a triple term are left as they are.
ShallowSkolemize(d, minted) ==
  {LET G(a) == IF a.ns = "blank" THEN Skolem(minted[a.n]) ELSE a
   IN [q EXCEPT !.s = G(q.s), !.g = G(q.g),
                !.o.leaf = IF q.o.spine = <<>> THEN G(@) ELSE @] : q \in d}

\* Skolemized::skolemize: minted names one fresh uuid per blank node.
skolemize(d, minted) ==
  LET ground(a) == IF a.ns = "blank" THEN Skolem(minted[a.n]) ELSE a
  IN MapDataset(ground, d)

\* Skolemized::from_store has an answer iff no blank node is left.
from_store_ok(d) == \A a \in DatasetAtoms(d) : a.ns # "blank"

\* Skolemized::deskolemize: the label is derived from the uuid.
deskolemize(d) ==
  LET blank_for(a) == IF a.ns = "skolem" THEN Blank(a.n) ELSE a
  IN MapDataset(blank_for, d)

\* Skolemized::etag.  SHA-256 is taken to be injective.
etag(d, fmt, served) == [quads |-> d, fmt |-> fmt, served |-> served]

-----------------------------------------------------------------------------
Injective(f) == \A x, y \in DOMAIN f : f[x] = f[y] => x = y

\* Renaming blank nodes one to one is all that separates the two.
Isomorphic(d, e) ==
  LET D == BlankLabels(d)
      E == BlankLabels(e)
  IN \E f \in [D -> E] :
       LET rename(a) == IF a.ns = "blank" THEN Blank(f[a.n]) ELSE a
       IN /\ Injective(f) /\ \A y \in E : \E x \in D : f[x] = y
          /\ MapDataset(rename, d) = e

\* No reserved IRI hides in a triple term, where uses_reserved_namespace does
\* not look.
NoneInTripleTerms(d) ==
  \A q \in d : q.o.spine # <<>> =>
    /\ ~is_reserved_iri(q.o.leaf)
    /\ \A i \in DOMAIN q.o.spine : ~is_reserved_iri(q.o.spine[i].s)

\* What is stored is ground, and what a client reads back is what was written,
\* up to the names of blank nodes; a graph named by a blank node counts as one
\* throughout.
ComesBack(d, minted) ==
  ~uses_reserved_namespace(d) /\ NoneInTripleTerms(d) =>
    LET stored == skolemize(d, minted)
    IN /\ from_store_ok(stored)
       /\ Isomorphic(d, deskolemize(stored))
       /\ has_named_graphs(stored) = has_named_graphs(d)

\* A projection fits its version, and every quad of it is one of the original
\* with at most a literal's direction taken off; a quad that fits is never lost.
ProjectsFaithfully(d, target) ==
  LET e == project_to(d, target)
      Plain(q) == IF q.o.leaf.ns = "directional" THEN [q EXCEPT !.o.leaf.ns = "literal"] ELSE q
  IN /\ rdf_version(e) <= target
     /\ \A q \in e : \E r \in d : q \in {r, Plain(r)}
     /\ \A r \in d : QuadVersion(r) <= target => r \in e
     /\ \A r \in d : r.o.spine = <<>> => r \in e \/ Plain(r) \in e
=============================================================================
