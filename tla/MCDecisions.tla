---------------------------- MODULE MCDecisions ----------------------------
(***************************************************************************)
(* Instances of Decisions for TLC: the inputs of every question, chosen so *)
(* that each branch of the code they reach is taken on some of them.       *)
(***************************************************************************)
EXTENDS Decisions, Integers, Sequences

CONSTANT owner

UpTo(n, S) == UNION {[1..k -> S] : k \in 1..n}
Small(n, S) == {{}} \cup {{x} : x \in S} \cup (IF n > 1 THEN {{x, y} : x, y \in S} ELSE {})

-----------------------------------------------------------------------------
(* Paths *)
PathSegs == [text : P!Texts \ {"b", "uuid"}, acl : 0..2]
RawDots == {P!Raw("empty", FALSE), P!Raw("dotdot", FALSE), P!Raw("dotdot", TRUE)}
RawSegs == RawDots \cup {P!Raw("a", FALSE), P!Raw("a", TRUE), P!Raw("aslashb", TRUE)}
RawMore == RawSegs \cup {P!Raw("dot", FALSE), P!Raw("dot", TRUE), P!Raw("wellknown", FALSE),
                         P!Raw("wellknown", TRUE)}

PathInputs == [path : UpTo(3, PathSegs)]
ChildInputs ==
  [path : {Append(p, P!Empty) : p \in {<<>>} \cup UpTo(1, PathSegs)},
   slug : [text : P!Texts \cup {"aslashb"}, acl : 0..1], container : BOOLEAN]
HtuInputs == [proof : UpTo(3, RawSegs), raw : UpTo(3, RawSegs)]
             \cup [proof : UpTo(2, RawMore), raw : UpTo(2, RawMore)]

-----------------------------------------------------------------------------
(* Datasets: blank nodes in every position a parser yields one. *)
Pred == W!Iri("p")
Objects ==
  {W!Obj(x) : x \in {W!Iri("a"), W!Skolem("u"), W!Blank("x"), W!Atom("literal", "l"),
                     W!Atom("directional", "l")}}
  \cup {W!TripleTerm(W!Blank("x"), Pred, W!Obj(W!Blank("y"))),
        W!TripleTerm(W!Iri("a"), Pred, W!TripleTerm(W!Blank("y"), Pred, W!Obj(W!Atom("directional", "l")))),
        W!TripleTerm(W!Skolem("u"), Pred, W!Obj(W!Iri("a")))}
Quads == {W!Quad(s, Pred, o, g) : s \in {W!Iri("a"), W!Skolem("u"), W!Blank("x"), W!Blank("y")},
                                  o \in Objects,
                                  g \in {W!DefaultGraph, W!Iri("g"), W!Blank("x")}}
Minted == [x |-> "u1", y |-> "u2"]
Bodies == Small(2, Quads)

\* What is stored, ground.
Q(s, p, o, g) == W!Quad(W!Iri(s), W!Iri(p), o, g)
Lit == W!Obj(W!Atom("literal", "l"))
Dir == W!Obj(W!Atom("directional", "l"))
Triple == W!TripleTerm(W!Skolem("u"), Pred, W!Obj(W!Iri("a")))
Here == W!DefaultGraph
There == W!Iri("g")
Hidden == W!Skolem("v")
StoredSets ==
  {{}, {Q("a", "p", Lit, Here)}, {Q("a", "p", Dir, Here)}, {Q("a", "p", Triple, Here)},
   {Q("a", "p", Lit, Here), Q("a", "p", Dir, Here)}, {Q("a", "p", Dir, Here), Q("a", "p", Triple, Here)},
   {Q("a", "p", Lit, There)}, {Q("a", "p", Lit, Here), Q("b", "p", Lit, There)},
   {Q("a", "p", Lit, Here), Q("b", "p", Dir, There)}, {Q("a", "p", Lit, Here), Q("b", "p", Triple, There)},
   {Q("a", "p", Lit, Here), Q("b", "p", Lit, Hidden)}, {Q("b", "p", Triple, Hidden)}}

-----------------------------------------------------------------------------
(* Accept headers *)
Entries(ranges, qs, versions) == [range : ranges, q : qs, version : versions]
Shapes == {"Graph", "Dataset"}
Types == W!Formats \cup {W!NoFormat}
AcceptInputs ==
  [accept : {<<>>} \cup UpTo(2, Entries(W!Ranges, {0, 5, 10}, {0, 1, 3})), shape : Shapes, stored : Types]
  \cup [accept : [1..3 -> Entries({"turtle", "jsonld", "any", "applicationAny"}, {0, 5, 10}, {1})],
        shape : Shapes, stored : Types]
BlobInputs ==
  [accept : {<<>>} \cup UpTo(2, Entries(W!Ranges, {0, 5, 10}, {1})), essence : {"png", "turtle", "jsonld"}]
AdvertiseInputs == [target : W!TargetKinds, method : {"PUT", "POST"}, version : W!Versions]

Asks == {<<e>> : e \in Entries(W!Formats, {10}, W!Versions)}
        \cup {<<>>, <<W!Entry("any", 10, 1)>>, <<W!Entry("textAny", 10, 3)>>, <<W!Entry("png", 10, 1)>>,
              <<W!Entry("turtle", 5, 3), W!Entry("jsonld", 10, 1)>>}
GetInputs == [stored : StoredSets, a : Asks, b : Asks, type : Types]

-----------------------------------------------------------------------------
(* Writes and shapes *)
Claim == Q("self", "type", W!Obj(W!Iri("Container")), Here)
NewBodies ==
  {{}, {Q("a", "p", Lit, Here)}, {Q("a", "q", Lit, Here)}, {Q("a", "p", Lit, There)},
   {Q("a", "p", Lit, Here), Q("a", "q", Lit, There)}, {Q("self", "contains", W!Obj(W!Iri("a")), Here)},
   {Q("a", "p", Lit, Here), Claim}, {W!Quad(W!Blank("x"), W!Iri("q"), W!Obj(W!Blank("y")), Here)}}
PutInputs == [quads : NewBodies, fmt : W!Formats, declared : W!Versions, stored : StoredSets]

Constraints == [on : {"needs", "bans"}, path : {W!Iri("p"), W!Iri("contains"), W!Iri("type")},
                severity : {"Violation", "Warning"}]
NotShacl == [shacl |-> FALSE, constraints |-> {}]
Texts(shapes) == {NotShacl} \cup [shacl : {TRUE}, constraints : shapes]
AnyStep == W!Steps \cup {W!NoStep}
BindInputs ==
  [bound : SUBSET {"literal", "elsewhere", "notResource", "document", "other"},
   doc : [kind : {"absent", "binary", "rdf"}, gone : BOOLEAN, sparql : BOOLEAN, shape : Texts(Small(1, Constraints))],
   quads : {{Q("a", "p", Lit, Here)}, {Q("a", "p", Lit, There)}}, fails : AnyStep]
ValidateInputs ==
  [target : W!TargetKinds, quads : NewBodies, shape : Texts(Small(2, Constraints)),
   members : {{}, {W!Iri("m")}}, minted : {Minted}, fails : AnyStep, accept : {<<>>}]
  \cup [target : W!TargetKinds, quads : NewBodies, shape : Texts(Small(1, Constraints)),
        members : {{}}, minted : {Minted}, fails : {W!NoStep}, accept : {<<W!Entry("png", 10, 1)>>}]

-----------------------------------------------------------------------------
(* Patches: a document is written as its formulae, or broken on purpose. *)
Var(n) == N!T("var", n)
Node(n) == N!T("blank", n)
I(n) == N!T("iri", n)
L == N!T("literal", "l")
Tri(s, p, o) == [s |-> s, p |-> p, o |-> o]

Wheres == {<<>>, <<Tri(Var("x"), I("p"), I("a"))>>, <<Tri(Var("x"), I("p"), Var("y"))>>,
           <<Tri(Var("x"), I("p"), Node("x"))>>, <<Tri(I("a"), Var("x"), Var("y"))>>,
           <<Tri(Var("x"), I("p"), Var("y")), Tri(Var("y"), I("p"), Var("x"))>>}
Deletes == {<<>>, <<Tri(Var("x"), I("p"), I("a"))>>, <<Tri(Var("x"), I("p"), Var("y"))>>,
            <<Tri(I("a"), N!LdpContains, Var("y"))>>, <<Tri(I("a"), Var("x"), Var("y"))>>,
            <<Tri(Node("x"), I("p"), I("a"))>>, <<Tri(I("a"), I("p"), I("a"))>>}
Inserts == {<<>>, <<Tri(Var("y"), I("p"), Var("x"))>>, <<Tri(I("a"), N!LdpContains, I("a"))>>,
            <<Tri(I("a"), Var("x"), I("b"))>>, <<Tri(I("a"), I("p"), L)>>, <<Tri(L, I("p"), I("a"))>>,
            <<Tri(N!T("reserved", "r"), I("p"), I("a"))>>,
            <<Tri(I("a"), I("p"), N!T("dir", "l")), Tri(Var("z"), I("p"), I("a"))>>}

In(g, triples) == [i \in DOMAIN triples |-> N!Q(triples[i].s, triples[i].p, triples[i].o, Node(g))]
Names(f, g, triples) ==
  IF triples = <<>> THEN <<>> ELSE <<N!Q(I("patch"), N!Predicates[f], Node(g), N!DefaultG)>>
Typed(s) == N!Q(I(s), N!RdfType, N!InsertDeletePatch, N!DefaultG)

Document(where, del, ins) ==
  <<Typed("patch")>> \o Names("where", "f1", where) \o Names("deletes", "f2", del)
    \o Names("inserts", "f3", ins) \o In("f1", where) \o In("f2", del) \o In("f3", ins)

Good == Document(<<Tri(Var("x"), I("p"), I("a"))>>, <<Tri(Var("x"), I("p"), I("a"))>>, <<>>)
Broken ==
  {<<>>, Tail(Good), Append(Good, Typed("other")), Append(Good, Typed("patch")),
   Append(Good, N!Q(I("patch"), N!Predicates["where"], Node("f2"), N!DefaultG)),
   Append(Good, N!Q(I("patch"), N!Predicates["inserts"], I("a"), N!DefaultG)),
   Append(Good, N!Q(I("patch"), N!Predicates["inserts"], Node("f9"), N!DefaultG)),
   Append(Good, N!Q(I("other"), N!Predicates["inserts"], Node("f9"), N!DefaultG)),
   Append(Good, N!Q(I("a"), I("p"), I("a"), I("g")))}

Edge(s, p, o) == Tri(I(s), I(p), I(o))
PatchGraphs ==
  {{}, {Edge("a", "p", "a")}, {Edge("a", "p", "b")}, {Edge("a", "p", "b"), Edge("b", "p", "a")},
   {Edge("a", "p", "a"), Edge("b", "p", "a")}, {Edge("a", "contains", "b")},
   {Edge("a", "contains", "b"), Edge("b", "p", "a")}, {Tri(I("a"), I("p"), L)},
   {Tri(I("a"), I("p"), N!T("triple", "t"))}, {Tri(N!T("skolem", "u"), I("p"), N!T("dir", "l"))}}
PatchInputs ==
  [doc : {Document(w, d, i) : w \in Wheres, d \in Deletes, i \in Inserts} \cup Broken,
   graph : PatchGraphs, held : SUBSET {"Read", "Append", "Write"}]

-----------------------------------------------------------------------------
(* Fetches *)
Loopback6 == F!Literal(F!V6(<<0, 0, 0, 0, 0, 0, 0, 1>>))
Private6 == F!Literal(F!V6(<<64768, 0, 0, 0, 0, 0, 0, 1>>))
HostEntry(form, host, port, splits) == [form |-> form, host |-> host, port |-> port, splits |-> splits]
HostEntries ==
  {HostEntry("name", F!Name("h"), port, FALSE) : port \in {F!AnyPort, F!BadPort, 80, 3001}}
  \cup {HostEntry("adorned", F!Name("h"), F!AnyPort, FALSE), HostEntry("blank", F!Name("h"), F!AnyPort, FALSE),
        HostEntry("bare6", Private6, F!AnyPort, TRUE), HostEntry("bare6", Private6, F!AnyPort, FALSE),
        HostEntry("bracketed", Private6, 80, FALSE), HostEntry("bracketed", Loopback6, F!AnyPort, FALSE)}
Public4 == F!V4(8, 8, 8, 8)
Private4 == F!V4(10, 0, 0, 1)
Answers == {{}, {Public4}, {Private4}, {Public4, Private4}}
FetchInputs ==
  [entries : Small(2, HostEntries),
   url : [scheme : {"https", "http", "ftp"}, host : {F!Name("h"), F!Name("o"), Private6, Loopback6},
          port : {80, 3001}],
   first : Answers, second : Answers]
AddressInputs ==
  [ip : {F!V4(a, b, 0, d) : a \in {0, 8, 10, 100, 127, 169, 172, 192},
                            b \in {0, 15, 16, 31, 32, 63, 64, 127, 128, 168, 254}, d \in {0, 1}}]
BodyInputs == [declared : -1..3, chunks : {<<>>} \cup UpTo(3, 0..3)]

-----------------------------------------------------------------------------
(* Requests and keys *)
Key(id, kid, kty, curve, alg, use, d) ==
  [id |-> id, kid |-> kid, kty |-> kty, curve |-> curve, alg |-> alg, use |-> use, verifies |-> TRUE, d |-> d]
EcKey == Key(1, "k1", "EC", "P-256", A!Absent, A!Absent, FALSE)
RsaKey == Key(2, "k2", "RSA", A!Absent, "RS256", A!Absent, FALSE)
OddKey == Key(3, "k1", "OKP", A!Absent, A!Absent, A!Absent, FALSE)

Worlds ==
  [jwks : [{"idp", "idpSlash", "other"} -> {<<EcKey, RsaKey>>, <<RsaKey, EcKey>>, <<OddKey, EcKey>>}],
   profiles : {{<<"alice", "idp">>}, {<<"alice", "other">>}}, seen : {{}}, now : {0}]
GoodWorld == [jwks |-> [i \in {"idp", "idpSlash", "other"} |-> <<EcKey, RsaKey>>],
              profiles |-> {<<"alice", "idp">>}, seen |-> {}, now |-> 0]
Settings == [trusted : {{}, {"idp"}}, audience : {A!Absent, "solid"}]

GoodToken == [compact |-> TRUE, iss |-> "idp", kid |-> "k1", alg |-> "ES256", by |-> 1, exp |-> 1,
              webid |-> "alice", jkt |-> 7, aud |-> {"solid"}]
GoodProof == [compact |-> TRUE, typ |-> TRUE, alg |-> "RS256", jwk |-> "RSA", key |-> 7, by |-> 7,
              jti |-> "j", jtiTooLong |-> FALSE, htm |-> "same", htu |-> "same", iat |-> 0]
Request(scheme, hasProof, token, proof) ==
  [scheme |-> scheme, hasProof |-> hasProof, token |-> token, proof |-> proof]

Tokens ==
  [compact : {TRUE}, iss : {"idp", "idpSlash", "other"}, kid : {A!Absent, "k1", "k2"},
   alg : {"ES256", "RS256", "none"}, by : 1..3, exp : {0, 1}, webid : {"alice"}, jkt : {7}, aud : {{}, {"solid"}}]
  \cup {[GoodToken EXCEPT !.compact = FALSE], [GoodToken EXCEPT !.webid = A!Absent],
        [GoodToken EXCEPT !.jkt = 0], [GoodToken EXCEPT !.jkt = 8], GoodToken}
\* No test can tell a missing iss from an unknown issuer by the keys alone: both
\* have none here.
Proofs ==
  [compact : {TRUE}, typ : BOOLEAN, alg : {"RS256", "ES256", "none"}, jwk : {"RSA", "EC", "private"},
   key : {7, 8}, by : {7, 8}, jti : {"j"}, jtiTooLong : BOOLEAN, htm : {"same", "other"},
   htu : {"same", "sameNormalized", "other"}, iat : {-4, -3, 1, 2}]
  \cup [compact : {TRUE}, typ : {TRUE}, alg : {"RS256"}, jwk : {"RSA"}, key : {7}, by : {7}, jti : {"j"},
        jtiTooLong : {FALSE}, htm : {"same"}, htu : {"same"}, iat : A!MinTime..MaxTime]

RequestInputs ==
  [req : {Request("dpop", TRUE, t, GoodProof) : t \in Tokens}, cfg : Settings,
   world : {w \in Worlds : w.jwks["idp"] = w.jwks["idpSlash"]}]
  \cup [req : {Request("dpop", TRUE, GoodToken, p) : p \in Proofs}, cfg : {[trusted |-> {}, audience |-> A!Absent]},
        world : {GoodWorld, [GoodWorld EXCEPT !.seen = {"j"}], [GoodWorld EXCEPT !.now = -7]}]
  \cup [req : {Request(s, h, t, GoodProof) : s \in {A!Absent, "dpop", "bearer"}, h \in BOOLEAN,
                                              t \in {GoodToken, [GoodToken EXCEPT !.iss = "other"]}},
        cfg : Settings, world : {GoodWorld}]

FileKeys ==
  {Key(1, kid, kty, curve, alg, use, d) :
     kid \in {A!Absent, "k1"}, kty \in {"EC", "RSA", "OKP"}, curve \in {A!Absent, "P-256", "P-384"},
     alg \in {A!Absent, "ES256", "RS256", "RS512"}, use \in {A!Absent, "enc"}, d \in BOOLEAN}
KeyFiles ==
  {[state |-> "missing", keys |-> <<>>], [state |-> "torn", keys |-> <<>>], [state |-> "there", keys |-> <<>>]}
  \cup {[state |-> "there", keys |-> <<k>>] : k \in FileKeys}
  \cup {[state |-> "there", keys |-> <<k, [m EXCEPT !.id = 2]>>] :
          k \in {f \in FileKeys : f.d /\ f.use = A!Absent /\ f.kty # "OKP"}, m \in {f \in FileKeys : f.kid # A!Absent}}
MintInputs == [file : KeyFiles, now : {0, 5}]
RestartInputs == [file : KeyFiles, crash : {"no", "beforeCreate", "beforeWrite"}]

-----------------------------------------------------------------------------
(* Configuration *)
Flags == [owner : {<<>>, <<"flag">>, <<"bad">>}, listen : {<<>>, <<"flag">>, <<"worse">>},
          issuers : {<<>>, <<"i", "j">>}]
Environment == [owner : {<<>>, <<"env">>}, listen : {<<>>, <<"bad">>}, issuers : {<<>>, <<"k">>, <<"blank">>}]
InFile == [owner : {<<>>, <<"file">>}, listen : {<<>>, <<"bad">>, <<"file">>}, issuers : {<<>>, <<"m", "n">>}]
AFile(readable, toml, unknownKey, values) ==
  [readable |-> readable, toml |-> toml, unknownKey |-> unknownKey, values |-> values]
TwoFiles(f) == [p \in {"f", "g"} |-> IF p = "f" THEN f ELSE AFile(TRUE, TRUE, FALSE, C!Default)]
LoadInputs ==
  [argv : [configs : {<<>>, <<"f">>}, flags : Flags, unknown : {FALSE}],
   env : [config : {C!NoPath, "f"}, values : Environment],
   files : {TwoFiles(AFile(TRUE, TRUE, FALSE, v)) : v \in InFile}]
  \cup [argv : [configs : {<<"f">>, <<"g">>, <<"f", "g">>, <<"f", "f">>},
                flags : {[owner |-> <<"flag">>, listen |-> <<>>, issuers |-> <<>>]}, unknown : BOOLEAN],
        env : [config : {C!NoPath, "g"}, values : {C!Nothing}],
        files : {TwoFiles(AFile(r, t, u, [C!Default EXCEPT !["owner"] = <<"file">>])) :
                   r, t, u \in BOOLEAN}]
StartInputs ==
  [cfg : [blobs : {"memory", "local", "typo"}, rdf : {"memory", "rocksdb", "typo"}, op : BOOLEAN, basePath : BOOLEAN],
   hostsOk : BOOLEAN, keys : {"loaded", "failed", "cutShort"}, storesOpen : BOOLEAN,
   fails : {"none", "root", "acl", "bind"}]

-----------------------------------------------------------------------------
(* ACLs: "/", "/a/", "/a/x": a container with a document in it, inside another. *)
MCUrls ==
  {Root, [segs |-> <<"a">>, slash |-> TRUE], [segs |-> <<"a", "x">>, slash |-> FALSE]}

\* Every agent form, alone and not at all; every scope; a mode the server knows
\* and one it does not.
MCAuthorizations ==
  [who : {{}, {owner}, {"foafAgent"}, {"authenticated"}},
   accessTo : SUBSET MCUrls, default : SUBSET MCUrls,
   modes : {{}, {"Control"}, {"Other"}}]

Halves == {x \in MCAuthorizations : x.who = {} \/ x.modes = {}}

\* One authorization, or two that only together would make a grant.
MCDocuments ==
  {{}} \cup {{x} : x \in MCAuthorizations}
  \cup {{x, y} : x \in {h \in Halves : h.modes = {} /\ h.who \in {{owner}, {"foafAgent"}} /\ h.default = h.accessTo},
                 y \in {h \in Halves : h.who = {} /\ h.default = h.accessTo}}
AclInputs == [subject : MCUrls, acl : MCDocuments]

-----------------------------------------------------------------------------
MCInputs ==
  [resolve |-> PathInputs, child |-> ChildInputs, htu |-> HtuInputs,
   store |-> [quads : Bodies, minted : {Minted}],
   project |-> [quads : Bodies, target : W!Versions],
   accept |-> AcceptInputs, blob |-> BlobInputs, advertise |-> AdvertiseInputs, get |-> GetInputs,
   put |-> PutInputs, bind |-> BindInputs, validate |-> ValidateInputs, patch |-> PatchInputs,
   fetch |-> FetchInputs, address |-> AddressInputs, body |-> BodyInputs,
   request |-> RequestInputs, mint |-> MintInputs, restart |-> RestartInputs,
   load |-> LoadInputs, start |-> StartInputs, acl |-> AclInputs]

\* Reads alone.
GetsOnly == [what \in DOMAIN MCInputs |-> IF what = "get" THEN GetInputs ELSE {}]
=============================================================================
