-------------------------------- MODULE Wac --------------------------------
(***************************************************************************)
(* Web Access Control decisions (src/src/wac): the pure policy decision    *)
(* point (pdp.rs), the access modes (mod.rs) and the walk of Guard that    *)
(* picks the governing ACL (guard.rs, decide_from).                        *)
(*                                                                         *)
(* An ACL document is a set of authorizations.  An authorization is what   *)
(* pdp::by_subject collects under one subject: the agents it names, the    *)
(* IRIs it points acl:accessTo and acl:default at, and its acl:mode        *)
(* objects, the unrecognized ones included.                                *)
(***************************************************************************)
EXTENDS Space

CONSTANTS
  WebIds,     \* verified agents
  Public      \* the anonymous agent, Agent::Public

Agents == WebIds \cup {Public}

Modes == {"Read", "Write", "Append", "Control"}

\* acl:mode objects: the four pdp::recognized_mode knows and any other IRI.
ModeIris == Modes \cup {"Other"}

\* acl:agentClass foaf:Agent and acl:agentClass acl:AuthenticatedAgent.
Classes == {"foafAgent", "authenticated"}

Authorization ==
  [who : SUBSET (WebIds \cup Classes), accessTo : SUBSET Urls,
   default : SUBSET Urls, modes : SUBSET ModeIris]

ASSUME WacAssumption ==
  /\ WebIds # {}
  /\ Public \notin WebIds
  /\ WebIds \cap Classes = {}

\* pdp::matches_agent
matches_agent(auth, agent) ==
  \/ "foafAgent" \in auth.who
  \/ /\ agent # Public
     /\ "authenticated" \in auth.who \/ agent \in auth.who

\* pdp::decide: acl:default for an inherited ACL, acl:accessTo for the
\* resource's own; the two never cross over.
InScope(auth, governed, inherited) ==
  IF inherited THEN governed \in auth.default ELSE governed \in auth.accessTo

decide(acl, agent, governed, inherited) ==
  UNION {auth.modes \cap Modes :
           auth \in {a \in acl : /\ InScope(a, governed, inherited)
                                 /\ matches_agent(a, agent)}}

\* AccessModes::allows: Write subsumes Append, nothing else implies another.
allows(held, mode) == mode \in held \/ (mode = "Append" /\ "Write" \in held)

\* Fault: the form added to matches_agent and forgotten here.
ForgetAuthenticated(auth) ==
  "foafAgent" \in auth.who \/ auth.who \cap WebIds # {}

\* pdp::names_someone and pdp::has_recognized_mode
names_someone(auth) ==
  \/ "foafAgent" \in auth.who
  \/ "authenticated" \in auth.who
  \/ auth.who \cap WebIds # {}

has_recognized_mode(auth) == auth.modes \cap Modes # {}

\* pdp::grants_anything, what warn_if_acl_grants_nothing asks of a new ACL.
grants_anything(acl, governed) ==
  \E auth \in acl : /\ governed \in auth.accessTo \/ governed \in auth.default
                    /\ names_someone(auth)
                    /\ has_recognized_mode(auth)

-----------------------------------------------------------------------------
(***************************************************************************)
(* Guard::decide_from: the nearest ACL at or above chain[start] decides    *)
(* alone.  acls maps the governed URLs the probe found an ACL for to the   *)
(* documents it read; start counts from 1, the subject.                    *)
(***************************************************************************)
Governing(chain, acls, start) ==
  {i \in start..Len(chain) :
     /\ chain[i] \in DOMAIN acls
     /\ \A j \in start..(i - 1) : chain[j] \notin DOMAIN acls}

decide_from(chain, acls, agent, start) ==
  UNION {decide(acls[chain[i]], agent, chain[i], i > start) :
           i \in Governing(chain, acls, start)}
=============================================================================
