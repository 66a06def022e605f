------------------------------- MODULE Paths -------------------------------
(***************************************************************************)
(* What a request path names: the router, StorageSpace::resolve and        *)
(* classify, the target URL a DPoP proof is held to (auth/middleware.rs,   *)
(* auth/dpop.rs) and the names a POST allocates (http.rs).                 *)
(*                                                                         *)
(* A path is the list of what stands between its slashes: "/" is one empty *)
(* segment, "/a" is <<a>>, "/a/" is a and an empty one, "/a//" two empty   *)
(* ones.  A segment is a text followed by the suffix ".acl" any number of  *)
(* times, so "..acl" is "dot" with one suffix.  "hash" stands for a text   *)
(* with "#" in it, "broken" for one that is no IRI, "longer" for a text    *)
(* that merely begins with a reserved one.                                 *)
(***************************************************************************)
EXTENDS Naturals, Sequences, SequencesExt

Texts == {"empty", "dot", "dotdot", "aux", "wellknown", "longer", "hash", "broken", "a", "b", "uuid"}

Seg(t) == [text |-> t, acl |-> 0]

\* Segments as a handler sees them, as the wire carries them, and a Slug.
Segs == [text : Texts, acl : Nat]
RawSegs == [text : Texts \cup {"aslashb"}, acl : Nat, esc : BOOLEAN]
Slugs == [text : Texts \cup {"aslashb"}, acl : Nat]

Empty == Seg("empty")
Dots == {Seg("dot"), Seg("dotdot")}

\* A path a handler passes on is rooted: it puts the leading "/" there itself.
IsPath(p) == Len(p) > 0
PathsOf(segs) == {p \in Seq(segs) : IsPath(p)}

-----------------------------------------------------------------------------
\* StorageSpace::is_normalization_stable
is_normalization_stable(p) ==
  /\ \A i \in 1..Len(p) : p[i].text # "hash"
  /\ \A i \in 1..(Len(p) - 1) : p[i] # Empty /\ p[i] \notin Dots
  /\ Last(p) \notin Dots

\* StorageSpace::segment_remainder: the whole first segment, or nothing.
HasFirst(p, t) == p[1] = Seg(t)

\* StorageSpace::reserved_segment
reserved_segment(p) == HasFirst(p, "aux") \/ HasFirst(p, "wellknown")

\* AuxKind::split_suffix, of what follows "/.aux".
SplitsSuffix(rest) == rest # <<>> /\ Last(rest).acl > 0
split_suffix(rest) == Append(Front(rest), [Last(rest) EXCEPT !.acl = @ - 1])

\* NamedNode::new over base and path.
IsIri(p) == \A i \in 1..Len(p) : p[i].text # "broken"

Refused(why) == [kind |-> why, path |-> <<>>]
Named(kind, p) == [kind |-> kind, path |-> p]

\* Fault: an auxiliary's subject is not held to the reservation.
ResolveNested(p) ==
  IF ~is_normalization_stable(p) THEN Refused("notNormalized")
  ELSE IF HasFirst(p, "wellknown") THEN Refused("reserved")
  ELSE IF HasFirst(p, "aux")
    THEN LET rest == Tail(p) IN
         IF ~SplitsSuffix(rest) THEN Refused("reserved")
         ELSE IF ~IsIri(p) THEN Refused("invalid") ELSE Named("aux", split_suffix(rest))
  ELSE IF ~IsIri(p) THEN Refused("invalid")
  ELSE IF Last(p) = Empty THEN Named("container", p) ELSE Named("resource", p)

\* StorageSpace::resolve.  The path of an auxiliary target is its subject's.
resolve(p) ==
  IF ~is_normalization_stable(p) THEN Refused("notNormalized")
  ELSE IF HasFirst(p, "wellknown") THEN Refused("reserved")
  ELSE IF HasFirst(p, "aux")
    THEN LET rest == Tail(p)
             subject == split_suffix(rest)
         IN IF ~SplitsSuffix(rest) \/ reserved_segment(subject) THEN Refused("reserved")
            ELSE IF ~is_normalization_stable(subject) THEN Refused("notNormalized")
            ELSE IF ~IsIri(p) THEN Refused("invalid")
            ELSE Named("aux", subject)
  ELSE IF ~IsIri(p) THEN Refused("invalid")
  ELSE IF Last(p) = Empty THEN Named("container", p)
  ELSE Named("resource", p)

IsTarget(t) == t.kind \in {"aux", "container", "resource"}

\* graph_iri of a target: its own path, or what ResourceUrl::aux puts around
\* its subject's.
GraphPath(t) ==
  IF t.kind = "aux"
  THEN <<Seg("aux")>> \o Append(Front(t.path), [Last(t.path) EXCEPT !.acl = @ + 1])
  ELSE t.path

\* classify: what a handler answers for a path that names nothing.
classify(p) ==
  LET t == resolve(p) IN
  IF IsTarget(t) THEN 0 ELSE IF t.kind = "reserved" THEN 404 ELSE 400

\* BlobKey::of: a container has none; Path::from leaves empty segments out.
\* Keys beyond the length limits are left to the caller's 414.
NoKey == <<>>
KeySegments(p) ==
  LET kept[i \in 0..Len(p)] ==
        IF i = 0 THEN <<>>
        ELSE IF p[i] = Empty THEN kept[i - 1] ELSE Append(kept[i - 1], p[i])
  IN kept[Len(p)]

blob_key(t) == IF t.kind # "resource" THEN NoKey ELSE KeySegments(t.path)

\* container::child_name: what is left of a Slug once every character outside
\* the alphabet is dropped, or a fresh name.
Cleaned(slug) ==
  CASE slug.text \in {"hash", "broken"} -> [slug EXCEPT !.text = "a"]
    [] slug.text = "aslashb" -> [slug EXCEPT !.text = "b"]
    [] OTHER -> slug

Fresh == Seg("uuid")

\* Fault: the Slug is used as it came.
SlugAsIs(slug) == slug

child_name(slug) ==
  LET cleaned == Cleaned(slug)
  IN IF cleaned = Empty \/ cleaned \in Dots THEN Fresh ELSE cleaned

\* post_impl: the child's path, and the one it moves to when that is taken.
ChildPath(parentPath, name, wantsContainer) ==
  Front(parentPath) \o <<name>> \o (IF wantsContainer THEN <<Empty>> ELSE <<>>)

-----------------------------------------------------------------------------
(***************************************************************************)
(* The wire.  A raw segment may have characters percent-escaped; "aslashb" *)
(* is "a%2Fb", which is one segment on the wire and two once decoded.      *)
(***************************************************************************)
Raw(t, e) == [text |-> t, acl |-> 0, esc |-> e]

\* axum decodes what the route captures.
DecodeSeg(s) ==
  IF s.text = "aslashb" THEN <<Seg("a"), Seg("b")>>
  ELSE <<[text |-> s.text, acl |-> s.acl]>>

Decode(raw) ==
  LET decoded[i \in 0..Len(raw)] ==
        IF i = 0 THEN <<>> ELSE decoded[i - 1] \o DecodeSeg(raw[i])
  IN decoded[Len(raw)]

\* router: /.well-known and everything under it, as spelled on the wire, has
\* routes of its own; everything else is decoded and resolved.
Unescaped(s, t) == s = Raw(t, FALSE)
RoutedToWellKnown(raw) == Unescaped(raw[1], "wellknown")

\* What a handler is given to work on.
Handled(raw) ==
  IF RoutedToWellKnown(raw) THEN Refused("wellknown") ELSE resolve(Decode(raw))

(***************************************************************************)
(* Url::parse(..).path(): dot segments are resolved, escaped ones too, the *)
(* last one leaving a slash behind; empty segments stay and escapes stay.  *)
(***************************************************************************)
IsDot(s) == s.text = "dot" /\ s.acl = 0
IsDotDot(s) == s.text = "dotdot" /\ s.acl = 0

WirePath(raw) ==
  LET n == Len(raw)
      \* the segments kept of the first i
      kept[i \in 0..n] ==
        IF i = 0 THEN <<>>
        ELSE LET before == kept[i - 1]
                 shorter == IF before = <<>> THEN <<>> ELSE Front(before)
                 slash == IF i = n THEN <<Raw("empty", FALSE)>> ELSE <<>>
             IN IF IsDot(raw[i]) THEN before \o slash
                ELSE IF IsDotDot(raw[i]) THEN shorter \o slash
                ELSE Append(before, raw[i])
  IN kept[n]

\* dpop_verifier::uri::normalize_htu drops the empty segments as well.
normalize_htu(raw) == SelectSeq(WirePath(raw), LAMBDA s : s.text # "empty" \/ s.acl > 0)

\* derive_htu: the configured base and the path as it came.
derive_htu(raw) == raw

\* Fault: the exact comparison is left to the normalizing one.
NormalizedOnly(proof, expected) == TRUE

\* htu_names_the_same_resource, after the verifier's own comparison.
htu_names_the_same_resource(proof, expected) == WirePath(proof) = WirePath(expected)

HtuAccepted(proof, raw) ==
  /\ normalize_htu(proof) = normalize_htu(derive_htu(raw))
  /\ htu_names_the_same_resource(proof, derive_htu(raw))

-----------------------------------------------------------------------------
\* The name a target is stored under is the path it was reached by, so no two
\* paths share a graph, and no two resources an object; an auxiliary's subject
\* is a target of its own that is not an auxiliary.
KeepsItsName(p) ==
  LET t == resolve(p) IN
  IsTarget(t) => /\ GraphPath(t) = p
                 /\ t.kind = "aux" => resolve(t.path).kind \in {"resource", "container"}
                 /\ ~reserved_segment(t.path)
                 /\ blob_key(t) = IF t.kind = "resource" THEN p ELSE NoKey

\* Whatever the Slug, a POST names a member of the container it addresses, of
\* the kind it asked for; only a reserved name is refused, and a second attempt
\* never is.
ChildIsMember(p, slug, wantsContainer) ==
  resolve(p).kind = "container" =>
    LET name == child_name(slug)
        child == resolve(ChildPath(p, name, wantsContainer))
        kind == IF wantsContainer THEN "container" ELSE "resource"
        InParent(t) == /\ t.kind = kind
                       /\ SubSeq(t.path, 1, Len(p) - 1) = Front(p)
                       /\ Len(t.path) = Len(p) + (IF wantsContainer THEN 1 ELSE 0)
    IN /\ InParent(child) \/ (child.kind = "reserved" /\ Len(p) = 1)
       /\ InParent(resolve(ChildPath(p, Fresh, wantsContainer)))

\* The argument of htu_names_the_same_resource's documentation: a proof signed
\* for one request is accepted for another only if both name one resource, or
\* the first names none.
NamesOneResource(proof, raw) ==
  /\ HtuAccepted(proof, raw)
  /\ IsTarget(Handled(proof))
  /\ IsTarget(Handled(raw))
  => Handled(proof) = Handled(raw)
=============================================================================
