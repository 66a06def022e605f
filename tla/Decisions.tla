----------------------------- MODULE Decisions -----------------------------
(***************************************************************************)
(* The decisions the server takes from what it is given alone: what a path *)
(* names, what a header asks for, what a body becomes in the store and     *)
(* comes back as, what a patch does to a graph, where a fetch may go, whom *)
(* a request is from, what a start runs with, when an ACL deserves a       *)
(* warning.  Each is a question put to the operators of its module, in any *)
(* order and over all the inputs of the instance.                          *)
(***************************************************************************)
EXTENDS Wac, Integers

CONSTANTS
  Inputs,                 \* question -> the inputs it is asked with
  MaxBodyBytes,           \* the cap on a fetched body
  MaxTime,                \* the last second an i64 counts
  MAX_AGE_SECONDS,        \* how old and
  FUTURE_SKEW_SECONDS     \* how far ahead a proof may be

VARIABLE asked     \* the question and its input, or Nothing

P == INSTANCE Paths
W == INSTANCE Write
N == INSTANCE Patch
F == INSTANCE SafeFetch
A == INSTANCE Auth
C == INSTANCE Config

\* The limits are what the code's are to each other.
ASSUME LimitsAssumption ==
  /\ MaxBodyBytes \in Nat
  /\ MaxTime \in Nat
  /\ MAX_AGE_SECONDS \in 0..(MaxTime - 1)
  /\ FUTURE_SKEW_SECONDS \in 0..(MaxTime - 1)

\* Every container has room for a name.
ASSUME RoomAssumption ==
  \A c \in Containers : \E u \in Urls : u # c /\ c \in ChainSet(u)

\* The inputs are of the types the code's own give them.  A WebID is none of the
\* two words the model keeps for other outcomes, and no token asks for an
\* algorithm by the word it keeps for none.  skolemize mints a uuid for every blank
\* node, none twice.
ASSUME InputsAssumption ==
  /\ \A x \in Inputs["resolve"] : x.path \in P!PathsOf(P!Segs)
  /\ \A x \in Inputs["child"] :
       x.path \in P!PathsOf(P!Segs) /\ x.slug \in P!Slugs /\ x.container \in BOOLEAN
  /\ \A x \in Inputs["htu"] : x.proof \in P!PathsOf(P!RawSegs) /\ x.raw \in P!PathsOf(P!RawSegs)
  /\ \A x \in Inputs["store"] : /\ x.quads \subseteq W!Quads
                                /\ W!BlankLabels(x.quads) \subseteq DOMAIN x.minted
                                /\ W!Injective(x.minted)
  /\ \A x \in Inputs["project"] : x.quads \subseteq W!Quads /\ x.target \in W!Versions
  /\ Inputs["accept"] \subseteq
       [accept : W!Accepts, shape : {"Graph", "Dataset"}, stored : W!Formats \cup {W!NoFormat}]
  /\ \A x \in Inputs["blob"] : x.accept \in W!Accepts
  /\ Inputs["advertise"] \subseteq
       [target : W!TargetKinds, method : {"PUT", "POST"}, version : W!Versions]
  /\ Inputs["get"] \subseteq
       [stored : SUBSET W!Quads, a : W!Accepts, b : W!Accepts,
        type : W!Formats \cup {W!NoFormat}]
  /\ \A x \in Inputs["put"] :
       x.stored \subseteq W!Quads /\ x.fmt \in W!Formats /\ x.declared \in W!Versions
  /\ Inputs["bind"] \subseteq
       [bound : SUBSET {"literal", "elsewhere", "notResource", "document", "other"},
        doc : [kind : {"absent", "binary", "rdf"}, gone : BOOLEAN, sparql : BOOLEAN,
               shape : W!ShapeTexts],
        quads : SUBSET W!Quads, fails : W!Steps \cup {W!NoStep}]
  /\ \A x \in Inputs["validate"] :
       /\ x.target \in W!TargetKinds /\ x.quads \subseteq W!Quads /\ x.shape \in W!ShapeTexts
       /\ x.fails \in W!Steps \cup {W!NoStep}
  /\ \A x \in Inputs["patch"] : x.doc \in N!Documents /\ x.graph \subseteq N!StoredTriples
  /\ \A x \in Inputs["fetch"] : x.entries \subseteq F!HostEntries
  /\ Inputs["address"] \subseteq [ip : [family : {4}, words : [1..4 -> 0..255]]]
  /\ Inputs["body"] \subseteq [declared : Int, chunks : Seq(Nat)]
  /\ \A x \in Inputs["request"] :
       /\ x.req.token.webid \notin {"Public", "refused"}
       /\ x.req.token.alg # A!NoVerifier
       /\ x.req.proof.iat \in Int /\ x.world.now \in Int
       /\ x.world.jwks[x.req.token.iss] \in Seq(A!Jwk)
  /\ \A x \in Inputs["mint"] :
       x.now \in Int /\ x.file.keys \in Seq({k \in A!Jwk : k.id \in 1..3})
  /\ \A x \in Inputs["load"] :
       /\ x.argv.configs \in Seq(STRING)
       /\ x.argv.flags \in [C!Args -> Seq(STRING)]
       /\ x.env.values \in [C!Args -> Seq(STRING)]
       /\ \A path \in DOMAIN x.files : x.files[path].values \in [C!Args -> Seq(STRING)]
       /\ C!config_path_from(x.argv, x.env) \in DOMAIN x.files \cup {C!NoPath}
  /\ Inputs["acl"] \subseteq [subject : Urls, acl : SUBSET Authorization]

Nothing == [what |-> "nothing"]

Init == asked = Nothing

Ask(what) ==
  /\ asked.what = "nothing"
  /\ \E x \in Inputs[what] : asked' = [what |-> what, x |-> x]

Resolve == Ask("resolve")            \* space.rs: a path
NameChild == Ask("child")            \* http.rs: a POST's Slug
CheckHtu == Ask("htu")               \* auth/dpop.rs: a proof's target
Store == Ask("store")                \* dataset.rs: a body on its way in and out
Project == Ask("project")            \* dataset.rs: a version asked for
NegotiateRdf == Ask("accept")        \* rdf.rs: an Accept header
NegotiateBlob == Ask("blob")         \* rdf.rs: an Accept header for a blob
Advertise == Ask("advertise")        \* http.rs: Allow, Accept-Put, Accept-Post
Get == Ask("get")                    \* http.rs: two reads of one resource
Put == Ask("put")                    \* http.rs: a PUT over what is there
Bind == Ask("bind")                  \* shapes.rs: a container's shape
Validate == Ask("validate")          \* http.rs: ?validate after a PUT
Patch == Ask("patch")                \* patch.rs, resource.rs: an N3 patch
Fetch == Ask("fetch")                \* auth/safe_fetch.rs: a URL
Judge == Ask("address")              \* auth/safe_fetch.rs: an address
Receive == Ask("body")               \* auth/safe_fetch.rs: a response
Authenticate == Ask("request")       \* auth/authenticate.rs: a request
Mint == Ask("mint")                  \* op/mint.rs: a token of the pod's own
Restart == Ask("restart")            \* op/keys.rs: two starts on one key file
Load == Ask("load")                  \* config.rs: flags, environment and file
Start == Ask("start")                \* main.rs: a configuration
Warn == Ask("acl")                   \* http.rs: an ACL just written

Forget == asked.what # "nothing" /\ asked' = Nothing

Next ==
  \/ Resolve \/ NameChild \/ CheckHtu
  \/ Store \/ Project \/ NegotiateRdf \/ NegotiateBlob \/ Advertise \/ Get
  \/ Put \/ Bind \/ Validate \/ Patch
  \/ Fetch \/ Judge \/ Receive \/ Authenticate \/ Mint \/ Restart
  \/ Load \/ Start \/ Warn
  \/ Forget

Spec == Init /\ [][Next]_asked

-----------------------------------------------------------------------------
(***************************************************************************)
(* warn_if_acl_grants_nothing, over the guard's own operators: the ACL of  *)
(* a container says nothing to anybody.                                    *)
(***************************************************************************)
warn_if_acl_grants_nothing(subject, acl) == ~grants_anything(acl, subject)

\* Somebody may do something to the subject or to what it contains, as far as
\* this ACL decides it: the guard's own walk, with this ACL as the only one.
ReachesSomeone(subject, acl) ==
  \E a \in Agents, u \in Urls :
    /\ subject \in ChainSet(u)
    /\ decide_from(Chain(u), [v \in {subject} |-> acl], a, 1) # {}

-----------------------------------------------------------------------------
\* The name a target is stored under is the path it was reached by, whatever
\* StorageSpace::resolve took apart: no two paths share a graph, no two
\* resources an object, and an auxiliary's subject is no auxiliary.
KeepsItsName == asked.what = "resolve" => P!KeepsItsName(asked.x.path)

\* Whatever the Slug, post_impl names a member of the container it addresses,
\* of the kind asked for; only a reserved name is refused, and never the second
\* attempt's.
ChildIsMember ==
  asked.what = "child" => P!ChildIsMember(asked.x.path, asked.x.slug, asked.x.container)

\* A DPoP proof signed for one request is accepted for another only if both
\* name one resource or one of them none, although the verifier normalizes,
\* the router decodes and the resolver does neither.
NamesOneResource == asked.what = "htu" => P!NamesOneResource(asked.x.proof, asked.x.raw)

\* What a client reads back is what it wrote, up to the names of its blank
\* nodes, at every depth and in graph names, through skolemize and deskolemize.
ComesBack == asked.what = "store" => W!ComesBack(asked.x.quads, asked.x.minted)

\* project_to fits its version, adds nothing and loses nothing that fits.
ProjectsFaithfully == asked.what = "project" => W!ProjectsFaithfully(asked.x.quads, asked.x.target)

\* negotiate answers with one of the choices a header leaves, of the highest
\* quality, whole before partial, and with none only if it leaves none.
ServesTheBest ==
  asked.what = "accept" => W!ServesTheBest(asked.x.accept, asked.x.shape, asked.x.stored)

\* accept_allows serves a blob iff the most specific range covering its type
\* does not reject it.
MostSpecificDecides ==
  asked.what = "blob" => W!MostSpecificDecides(asked.x.accept, asked.x.essence)

\* Allow, Accept-Put and Accept-Post name exactly what classify_body takes.
AdvertisesWhatItAccepts ==
  asked.what = "advertise" =>
    W!AdvertisesWhatItAccepts(asked.x.target, asked.x.method, asked.x.version)

\* A read says so exactly when its body is not all that is stored, and labels
\* it with a version its terms fit.
SaysWhatIsMissing ==
  asked.what = "get" => W!SaysWhatIsMissing(asked.x.stored, asked.x.a, asked.x.type)

\* Two reads answered with one ETag are one representation, so a 304 never
\* stands for other bytes.
OneTagOneBody ==
  asked.what = "get" => W!OneTagOneBody(asked.x.stored, asked.x.a, asked.x.b, asked.x.type)

\* "Every validator this stored state could legitimately have been served
\* with" (etag_candidates): a tag a read gave out passes If-Match as long as
\* nothing changed.
TagIsCurrent ==
  asked.what = "get" => W!TagIsCurrent(asked.x.stored, asked.x.a, asked.x.type)

\* A PUT is let over a resource only by a client that would have been shown all
\* of it in the format and version it writes in.
ReplacesOnlyWhatItShows ==
  asked.what = "put" =>
    W!ReplacesOnlyWhatItShows(asked.x.quads, asked.x.fmt, asked.x.declared, asked.x.stored)

\* A container that states a shape binding lets an RDF body in only past the one
\* document it names, as that was read and understood, with neither the store nor
\* the engine failing on the way; a PATCH never.
FailsClosed ==
  asked.what = "bind" => W!FailsClosed(asked.x.bound, asked.x.doc, asked.x.quads, asked.x.fails)

\* The ?validate report on what a PUT stored agrees with what the PUT was
\* judged by, and the link a PUT with findings gives leads to one.
ReportAgrees ==
  asked.what = "validate" =>
    W!ReportAgrees(asked.x.target, asked.x.quads, asked.x.shape, asked.x.members, asked.x.minted,
                   asked.x.fails, asked.x.accept)

\* Patch::parse refuses exactly the documents that break the patch's form.
ParseIsExact == asked.what = "patch" => N!ParseIsExact(asked.x.doc)

\* A patch does what its document says of the client's own variables and blank
\* nodes, although they are renumbered before anything is sent to the store, and
\* nothing where a name it writes stands for a term that cannot be sent.
AppliesAsWritten == asked.what = "patch" => N!AppliesAsWritten(asked.x.doc, asked.x.graph)

\* Creating a resource by a patch is patching an empty one.
CreatesAsFromEmpty == asked.what = "patch" => N!CreatesAsFromEmpty(asked.x.doc)

\* A patch a container accepts never touches its members, whatever a variable
\* in predicate position is bound to.
MembersUntouched == asked.what = "patch" => N!MembersUntouched(asked.x.doc, asked.x.graph)

\* The modes a patch is held to cover what it reads, adds and removes, the
\* answer's own information included.
NeedsWhatItDoes ==
  asked.what = "patch" => N!NeedsWhatItDoes(asked.x.doc, asked.x.graph, asked.x.held)

\* A pod that starts speaks plain http only to a host and port its operator named
\* and reaches private addresses only of a host its operator named; on a port that
\* was not named, only if guarded_get's own lookup showed nothing private.
ReachesOnlyVouched ==
  asked.what = "fetch" =>
    F!ReachesOnlyVouched(asked.x.entries, asked.x.url, asked.x.first, asked.x.second)

\* An IPv4 address is judged alike however an IPv6 address carries it.
JudgedByWhatItReaches == asked.what = "address" => F!JudgedByWhatItReaches(asked.x.ip)

\* guarded_get never holds a body beyond the cap, whatever length is declared.
NeverBeyondTheCap == asked.what = "body" => F!NeverBeyondTheCap(asked.x.declared, asked.x.chunks)

\* authenticate believes a request to be from a WebID iff its token, profile
\* and proof all bear it out.
BelievedIffProven ==
  asked.what = "request" => A!BelievedIffProven(asked.x.req, asked.x.cfg, asked.x.world)

\* Until then it asks only trusted issuers for keys, fetches profiles only for
\* signed tokens and records nothing.
ActsOnlyOnTrust ==
  asked.what = "request" => A!ActsOnlyOnTrust(asked.x.req, asked.x.cfg, asked.x.world)

\* verify_access_token accepts what mint_access_token makes, from the keys the
\* pod publishes and under an algorithm it advertises.
OwnTokensVerify == asked.what = "mint" => A!OwnTokensVerify(asked.x.file, asked.x.now)

\* load_or_generate never rewrites a key file, and two starts have one key set,
\* a crash in the first included.
KeysOutliveRestarts ==
  asked.what = "restart" => A!KeysOutliveRestarts(asked.x.file, asked.x.crash)

\* Every value a pod runs with is the whole of what the highest of flag,
\* environment, file and default says, from the one file clap agrees on.
RunsAsConfigured ==
  asked.what = "load" => C!RunsAsConfigured(asked.x.argv, asked.x.env, asked.x.files)

\* blame_file names the file only for a value the file gave.
BlamesTheCulprit ==
  asked.what = "load" => C!BlamesTheCulprit(asked.x.argv, asked.x.env, asked.x.files)

\* main refuses a configuration before it has made anything, signing keys
\* included (a key file whose writing fails is left empty), and otherwise runs on
\* exactly the backends it was told.
ServesOrLeavesNothing ==
  asked.what = "start" =>
    C!ServesOrLeavesNothing(asked.x.cfg, asked.x.hostsOk, asked.x.keys, asked.x.storesOpen,
                            asked.x.fails)

\* For a container the warning is exact: it is given for precisely the ACLs
\* under which the guard denies everyone everything, at the container and
\* below it, although warn_if_acl_grants_nothing never asks the guard.
WarningIsExact ==
  asked.what = "acl" /\ asked.x.subject.slash =>
    (warn_if_acl_grants_nothing(asked.x.subject, asked.x.acl)
       <=> ~ReachesSomeone(asked.x.subject, asked.x.acl))

-----------------------------------------------------------------------------
(* The parts above by the promise they make together. *)

\* One name, one resource: resolve, the Slug of a POST and the htu of a proof
\* agree on what a path denotes, although each takes it apart by itself.
NamesAgree == KeepsItsName /\ ChildIsMember /\ NamesOneResource

\* Accept and Content-Type are answered as RFC 9110 ranks them: the best of what
\* the header leaves is served, and what is advertised is what is taken.
NegotiatesAsAsked == ServesTheBest /\ MostSpecificDecides /\ AdvertisesWhatItAccepts

\* Nothing is lost unseen between a write, a read and the next write: what is
\* stored comes back, a read that leaves something out says so and has a tag of
\* its own, and only a client that would be shown everything may replace it.
NothingLostUnseen ==
  /\ ComesBack /\ ProjectsFaithfully
  /\ SaysWhatIsMissing /\ OneTagOneBody
  /\ ReplacesOnlyWhatItShows

\* A bound shape is never passed by: enforce_shape fails closed, and ?validate
\* agrees with it afterwards.
ShapesHold == FailsClosed /\ ReportAgrees

\* An N3 patch does what its document says, on a resource that is there and on
\* one it creates, never to a listing, and only with the modes it takes.
PatchesAsWritten ==
  ParseIsExact /\ AppliesAsWritten /\ CreatesAsFromEmpty /\ MembersUntouched /\ NeedsWhatItDoes

\* Outbound requests leave public https only for hosts the operator named and
\* bring back no more than the cap, whatever name servers and hosts answer.
FetchesOnlyVouched == ReachesOnlyVouched /\ JudgedByWhatItReaches /\ NeverBeyondTheCap

\* An agent is a WebID exactly when everything bears it out, nothing is fetched
\* or recorded on the word of an unproven token, and the pod's own tokens pass.
IdentityIsProven == BelievedIffProven /\ ActsOnlyOnTrust /\ OwnTokensVerify

\* A start runs with what it was told or leaves nothing behind, and keeps the
\* signing keys of the start before it, a crash included.
StartsAsTold ==
  RunsAsConfigured /\ BlamesTheCulprit /\ ServesOrLeavesNothing /\ KeysOutliveRestarts
=============================================================================
