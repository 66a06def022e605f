----------------------------- MODULE Negotiate -----------------------------
(***************************************************************************)
(* Content negotiation and the advertisements of a response: src/src/rdf.rs *)
(* (Format, RdfVersion, ranked_accept, accept_allows, negotiate) and, from *)
(* http.rs, classify_body's media types, allowed_methods, accept_write and *)
(* wac_allow_value.                                                        *)
(*                                                                         *)
(* An Accept header is the list of its entries: a media range, a quality   *)
(* (0 is q=0) and the version parameter, 0 for a label nobody knows.       *)
(* Turtle stands for the graph formats, JSON-LD and TriG for the ones that *)
(* carry datasets; N-Triples and N-Quads are to them what Turtle and TriG  *)
(* are.  "image/png" is a type the server stores and cannot parse.         *)
(***************************************************************************)
EXTENDS Naturals, Sequences, FiniteSets

Turtle == "turtle"
JsonLd == "jsonld"
TriG == "trig"
Formats == {Turtle, JsonLd, TriG}
NoFormat == "none"

Wildcards == {"any", "textAny", "applicationAny"}
Ranges == Formats \cup Wildcards \cup {"png"}

UnknownVersion == 0

Entry(r, q, v) == [range |-> r, q |-> q, version |-> v]

\* Format::carries_dataset
carries_dataset(f) == f # Turtle

\* Format::from_content_type, of a range that is no wildcard.
from_content_type(r) == IF r \in Formats THEN r ELSE NoFormat

-----------------------------------------------------------------------------
\* Any Accept header.
Accepts == Seq([range : Ranges, q : Nat, version : 0..3])

\* ranked_accept, by its order: quality first, then position.
ranked_accept(accept, i, j) ==
  accept[i].q > accept[j].q \/ (accept[i].q = accept[j].q /\ i <= j)

\* The first it has of some entries.
FirstRanked(accept, found) ==
  CHOOSE i \in found : \A j \in found : ranked_accept(accept, i, j)

\* The first of a sequence that is no NoFormat.
FirstFormat(s) ==
  LET found == {i \in DOMAIN s : s[i] # NoFormat}
  IN IF found = {} THEN NoFormat ELSE s[CHOOSE i \in found : \A j \in found : i <= j]

\* Option::filter: a format, if it is among those that pass.
Filtered(f, ok) == IF f \in ok THEN f ELSE NoFormat

\* The two formats the server offers of its own accord, in order.
Fallback(ok) == FirstFormat(<<Filtered(Turtle, ok), Filtered(JsonLd, ok)>>)

\* The named types at q=0.
Rejected(accept) ==
  {accept[i].range : i \in {j \in DOMAIN accept : accept[j].q = 0 /\ accept[j].range \notin Wildcards}}

\* One arm of negotiate's match: what a range resolves to among the formats
\* that pass; a named type is held to its own test.
Candidate(range, stored, ok, okNamed) ==
  CASE range = "any" -> FirstFormat(<<Filtered(stored, ok), Fallback(ok)>>)
    [] range = "textAny" -> Filtered(Turtle, ok)
    [] range = "applicationAny" -> Fallback(ok)
    [] OTHER -> Filtered(from_content_type(range), okNamed)

\* What an entry is answered with in one pass over the list.
Answer(e, stored, ok, okNamed) ==
  [fmt |-> IF e.q = 0 \/ e.version = UnknownVersion THEN NoFormat
           ELSE Candidate(e.range, stored, ok, okNamed),
   version |-> e.version]

\* One pass over the ranked list.
Pass(accept, stored, ok, okNamed) ==
  LET found == {i \in DOMAIN accept : Answer(accept[i], stored, ok, okNamed).fmt # NoFormat}
  IN IF found = {} THEN [fmt |-> NoFormat, version |-> UnknownVersion]
     ELSE Answer(accept[FirstRanked(accept, found)], stored, ok, okNamed)

\* The formats that serve a resource of some shape whole.
Usable(shape) == {f \in Formats : shape = "Graph" \/ carries_dataset(f)}

\* Fault: the first recognised entry wins, lossy or not.
FirstRecognised(accept, shape, stored) ==
  IF accept = <<>>
  THEN [fmt |-> IF stored # NoFormat THEN stored ELSE Turtle, version |-> 1]
  ELSE Pass(accept, stored, Formats \ Rejected(accept), Formats \ Rejected(accept))

\* negotiate: a pass for the formats that serve the resource whole, then one
\* for those that serve a part of it.
negotiate(accept, shape, stored) ==
  LET usable == Usable(shape)
      notRejected == Formats \ Rejected(accept)
      whole == Pass(accept, stored, usable \cap notRejected, usable)
  IN IF accept = <<>>
       THEN [fmt |-> Candidate("any", stored, usable, {}), version |-> 1]
     ELSE IF whole.fmt # NoFormat THEN whole
     ELSE Pass(accept, stored, notRejected, notRejected)

\* accept_allows, for the one representation of type ty/sub: "png" is an image
\* type, so of the wildcards only */* covers it.
Specificity(range, essence) ==
  IF range = essence THEN 3
  ELSE IF range = "textAny" /\ essence = Turtle THEN 2
  ELSE IF range = "applicationAny" /\ essence \in {JsonLd, TriG} THEN 2
  ELSE IF range = "any" THEN 1 ELSE 0

\* Fault: the highest-ranked range that covers the type decides.
FirstMatch(accept, essence) ==
  LET matching == {i \in DOMAIN accept : Specificity(accept[i].range, essence) > 0}
  IN accept = <<>> \/ (matching # {} /\ accept[FirstRanked(accept, matching)].q > 0)

\* The first of the most specific ranges that cover the type decides.
accept_allows(accept, essence) ==
  LET specificity(i) == Specificity(accept[i].range, essence)
      best == {i \in DOMAIN accept : /\ specificity(i) > 0
                                     /\ \A j \in DOMAIN accept : specificity(j) <= specificity(i)}
  IN accept = <<>> \/ (best # {} /\ accept[FirstRanked(accept, best)].q > 0)

-----------------------------------------------------------------------------
(***************************************************************************)
(* What a response to a read or an OPTIONS advertises.  A target is        *)
(* "root", "container", "resource" or "aux".                               *)
(***************************************************************************)
TargetKinds == {"root", "container", "resource", "aux"}

allowed_methods(target) ==
  {"GET", "HEAD", "PUT", "PATCH", "OPTIONS"}
  \cup (IF target \in {"root", "container"} THEN {"POST"} ELSE {})
  \cup (IF target = "root" THEN {} ELSE {"DELETE"})

\* Fault: a PUT of any type is advertised wherever a PUT is allowed.
BlobsAnywhere(target, method, version) ==
  IF method = "POST" /\ target \in {"resource", "aux"} THEN {}
  ELSE {<<f, v>> : f \in Formats, v \in {1, version}} \cup {<<"*/*", 1>>}

\* accept_write: the media types, "*/*" for those a blob may have, or nothing
\* where the method is refused.
accept_write(target, method, version) ==
  IF method = "POST" /\ target \in {"resource", "aux"} THEN {}
  ELSE {<<f, 1>> : f \in Formats} \cup {<<f, version>> : f \in Formats}
       \cup (IF \/ method = "POST"
                \/ method = "PUT" /\ target = "resource"
             THEN {<<"*/*", 1>>} ELSE {})

(***************************************************************************)
(* classify_body: what a body is taken for, or the status it is refused    *)
(* with.  type is the Content-Type ("absent", "malformed", a format, or    *)
(* "png"), declared its version parameter, found the version its terms     *)
(* need and parses whether the parser of its format accepts it.            *)
(***************************************************************************)
Refuse(status) == [repr |-> "refused", status |-> status]

classify_body(body, target, store_version) ==
  CASE body.type = "absent" -> Refuse(IF body.empty THEN 415 ELSE 400)
    [] body.type \in Formats ->
         IF body.declared = UnknownVersion \/ body.declared > store_version THEN Refuse(415)
         ELSE IF ~body.parses \/ body.found > body.declared THEN Refuse(400)
         ELSE [repr |-> "rdf", status |-> 0]
    [] body.type = "malformed" -> Refuse(415)
    [] OTHER ->
         CASE target = "aux" -> Refuse(415)
           [] target \in {"root", "container"} -> Refuse(400)
           [] OTHER -> [repr |-> "blob", status |-> 0]

-----------------------------------------------------------------------------
\* The ranges a format falls under.  "application/*" admits the server's own
\* default, Turtle, as its tests pin.
Under(range, f, stored) ==
  \/ range = f
  \/ range = "any" /\ f \in {stored, Turtle, JsonLd}
  \/ range = "textAny" /\ f = Turtle
  \/ range = "applicationAny" /\ f \in {Turtle, JsonLd}

\* What a header leaves the server to choose from: entries it may serve with
\* the formats they admit.
Choices(accept, shape, stored, partly) ==
  {c \in (DOMAIN accept) \X Formats :
     LET e == accept[c[1]]
         f == c[2]
     IN /\ e.q > 0 /\ e.version # UnknownVersion
        /\ Under(e.range, f, stored)
        /\ f \notin Rejected(accept) \/ (e.range = f /\ ~partly)
        /\ partly \/ shape = "Graph" \/ carries_dataset(f)}

\* The answer to an Accept header is one of the choices it leaves, of the
\* highest quality there is, whole rather than in part; and there is no answer
\* only if there is no choice.
ServesTheBest(accept, shape, stored) ==
  accept # <<>> =>
    LET answer == negotiate(accept, shape, stored)
        whole == Choices(accept, shape, stored, FALSE)
        choices == IF whole # {} THEN whole ELSE Choices(accept, shape, stored, TRUE)
    IN IF choices = {} THEN answer.fmt = NoFormat
       ELSE \E c \in choices :
              /\ answer = [fmt |-> c[2], version |-> accept[c[1]].version]
              /\ \A o \in choices : accept[c[1]].q >= accept[o[1]].q

\* A stored blob is served iff the most specific range that covers its type
\* does not reject it.
MostSpecificDecides(accept, essence) ==
  accept # <<>> =>
    LET S == {Specificity(accept[i].range, essence) : i \in DOMAIN accept}
        top == CHOOSE s \in S : \A t \in S : t <= s
    IN accept_allows(accept, essence) <=>
         /\ top > 0
         /\ \E i \in DOMAIN accept :
              Specificity(accept[i].range, essence) = top /\ accept[i].q > 0

\* What a response advertises is what a write is accepted with: a good body of
\* some type passes classify_body, for the target itself or the child a POST
\* creates, iff Accept-Put or Accept-Post names its type.
AdvertisesWhatItAccepts(target, method, store_version) ==
  \A type \in Formats \cup {"png"}, declared \in 1..3 :
    LET body == [type |-> type, declared |-> declared, found |-> 1, parses |-> TRUE, empty |-> FALSE]
        types == accept_write(target, method, store_version)
        onto == IF method = "POST" THEN "resource" ELSE target
    IN method \in allowed_methods(target) /\ classify_body(body, onto, store_version).repr # "refused"
       <=> \/ \E t \in types : t[1] = type /\ declared <= t[2]
           \/ type = "png" /\ <<"*/*", 1>> \in types
=============================================================================
