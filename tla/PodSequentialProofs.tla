------------------------ MODULE PodSequentialProofs ------------------------
(***************************************************************************)
(* Pod for every URI space, every set of agents, documents and patches,    *)
(* when requests come one at a time: what holds at every await although a  *)
(* request may fail anywhere and the pod restart (NoSlashPair,             *)
(* DocumentIsLinked and the three access properties), what holds between   *)
(* requests that run to their end (ListingIsExact), and what watchers are  *)
(* told of such requests (EventsTellTheChange).                            *)
(***************************************************************************)
EXTENDS PodProofs, FiniteSetTheorems, Events

\* The containers above a URL.
Above(t) == {ancestors(t)[i] : i \in 1..Len(t.segs)}

\* A URL its parent lists.
Linked(t) == parent(t) \in present /\ t \in contains[parent(t)]

\* What a probe of t finds now.
Probe(t) == [present |-> present \cap Probed(t), acls |-> marked \cap ChainSet(t)]

Walking == {"ensure", "link"}
Writing == {"write", "members", "replace"}
Deleting == {"empty", "found", "delete"}

\* The step of materialize that records the target.
FirstStep(t) == [at |-> parent(t), child |-> t]

(* With faults: what a request knows of the store is still so. *)

\* The walk still to do: it keeps below the target, links what it lists to its
\* parent, makes no slash pair and is allowed by the containers it fills.
WalkOK(r) ==
  \A i \in DOMAIN plan[r] :
    /\ plan[r][i].at \in Above(op[r].target)
    /\ plan[r][i].child # NoUrl =>
         plan[r][i].child # Root /\ plan[r][i].at = parent(plan[r][i].child)
    /\ plan[r][i].at # Root => slash_counterpart(plan[r][i].at) \notin present
    /\ allows(Effective(op[r].agent, plan[r][i].at), "Append")

\* The target of the write to come: it makes no slash pair, is listed or about
\* to be, and a POST's is nobody's.
TargetOK(r) ==
  /\ op[r].target # Root => slash_counterpart(op[r].target) \notin present
  /\ op[r].method = "POST" => op[r].target \notin present
  /\ ~op[r].target.slash =>
       Linked(op[r].target) \/ (pc[r] \in Walking /\ Head(plan[r]) = FirstStep(op[r].target))
  /\ op[r].target.slash /\ (pc[r] \in Walking => op[r].method # "PUT") /\ pc[r] # "members" =>
       contains[op[r].target] = kept[r]

\* Who a DELETE is from.
DeleteOK(r) ==
  /\ op[r].target # Root
  /\ "Write" \in Effective(op[r].agent, op[r].target)
  /\ "Write" \in Effective(op[r].agent, parent(op[r].target))
  /\ op[r].target \in marked => "Control" \in Effective(op[r].agent, op[r].target)
  /\ pc[r] # "empty" /\ op[r].target.slash => contains[op[r].target] = {}

Alone(r) ==
  /\ pc[r] \notin {"replace", "type"} => kept[r] = {}
  /\ pc[r] \in {"acls", "child_acls"} => snap[r] = Probe(op[r].target)
  /\ pc[r] \in {"markers", "acls"} => op[r].slug # Root \/ op[r].method # "POST"
  /\ pc[r] \in {"child_markers", "child_acls"} =>
       /\ op[r].method = "POST" /\ op[r].target # Root /\ op[r].slug # Root
       /\ op[r].slug # op[r].target => op[r].target \notin present
  /\ pc[r] \in Walking => WalkOK(r)
  /\ pc[r] \in Walking /\ ~IsAux(op[r]) => TargetOK(r)
  /\ pc[r] \in Writing => TargetOK(r)
  /\ pc[r] = "patch" => op[r].target \in present
  /\ pc[r] = "type" /\ op[r].target # Root => slash_counterpart(op[r].target) \notin present
  /\ pc[r] \in Deleting => DeleteOK(r)
  /\ pc[r] \in {"acl_found", "delete_acl"} => "Control" \in Effective(op[r].agent, op[r].target)

\* What a request leaves wherever it stops.
Tree ==
  /\ NoSlashPair /\ DocumentIsLinked
  /\ Root \in present
  /\ \A c \in Containers : \A u \in contains[c] : u # Root /\ c = parent(u)

Sound == Tree /\ MembersHaveMarker

OneAtATime == \A q, r \in Reqs : pc[q] # "idle" /\ pc[r] # "idle" => q = r

SeqInv == IInv /\ OneAtATime /\ Sound /\ \A r \in Reqs : Alone(r)

(* Without faults: how far the listing is from exact. *)
Exact ==
  /\ \A u \in present \ {Root} : Linked(u)
  /\ \A c \in Containers : contains[c] \subseteq present
  /\ present \cap Containers = typed

\* The URL a request lists before it writes it, and the containers it writes
\* before it lists them or before it types them.
Ahead(r) == IF pc[r] \in Writing \/ (pc[r] \in Walking /\ ~IsAux(op[r])) THEN {op[r].target} ELSE {}
Behind(r) == IF pc[r] \in Walking THEN {plan[r][i].child : i \in DOMAIN plan[r]} ELSE {}
Untyped(r) == IF pc[r] = "type" THEN {op[r].target} ELSE {}

Listing(r) ==
  /\ \A u \in present \ {Root} : Linked(u) \/ u \in Behind(r)
  /\ \A c \in Containers : contains[c] \subseteq present \cup Ahead(r)
  /\ (present \cap Containers) \ Untyped(r) = typed \ Untyped(r)

QuietWalk(r) ==
  /\ Head(plan[r]).child \in present \cup Ahead(r) \cup {NoUrl}
  /\ \A i \in 1..(Len(plan[r]) - 1) : plan[r][i + 1].child = plan[r][i].at
  /\ plan[r][Len(plan[r])].at \in present
  /\ pc[r] = "link" => Head(plan[r]).at \in present
  /\ IsAux(op[r]) \/ Linked(op[r].target) \/ Head(plan[r]) = FirstStep(op[r].target)

Quiet(r) ==
  /\ pc[r] # "idle" => Listing(r)
  /\ pc[r] \in Walking => QuietWalk(r)
  /\ pc[r] \in Writing \cup {"type"} => op[r].target = Root \/ Linked(op[r].target)
  /\ pc[r] = "write" => ~op[r].target.slash

QuietInv == (Quiescent => Exact) /\ \A r \in Reqs : Quiet(r)

(* With events: how far the store is from what the request will report. *)

\* What the guard saw of the target of o and above it: the first n of the chain
\* are missing, the next one is there, and it is the n that f will report.
Foreseen(o, f, old, n) ==
  LET ch == Chain(o.target)
      m == f.materialized
  IN /\ n \in 0..Len(o.target.segs)
     /\ m.created \in Seq(Urls) /\ Len(m.created) = n
     /\ DOMAIN m.linked = 1..n
     /\ \A i \in 1..n : /\ m.created[i] = ch[i] /\ m.linked[i] = <<ch[i + 1], ch[i]>>
                        /\ ch[i] \notin old.present /\ ch[i] \notin old.contains[ch[i + 1]]
     /\ ch[n + 1] \in old.present
     /\ f.existed = (n = 0)

\* The store has gained the URLs at the places I of the chain, and the links of
\* its first k.
Gained(o, old, new, I, k) ==
  LET ch == Chain(o.target)
  IN /\ new.present = old.present \cup {ch[i] : i \in I}
     /\ new.contains = [c \in Containers |-> old.contains[c] \cup
                                             {ch[i] : i \in {j \in 1..k : ch[j + 1] = c}}]
     /\ new.marked = old.marked

\* The walk with its first k steps done.
Walked(r, n, k) ==
  LET ch == Chain(op[r].target)
  IN /\ k + Len(plan[r]) = n
     /\ \A i \in 1..Len(plan[r]) : plan[r][i] = [at |-> ch[k + i + 1], child |-> ch[k + i]]
     /\ Gained(op[r], was[r], Here, 2..(IF pc[r] = "link" THEN k + 2 ELSE k + 1), k)

\* The labels before the first write.
Unwritten == {"markers", "acls", "child_markers", "child_acls", "write_acl", "patch",
              "acl_there", "acl_ask", "patch_acl", "empty", "found", "delete",
              "acl_found", "delete_acl"}

\* What EventsTellTheChange asks of the events of a success.
Tells(events, o, old, new) ==
  /\ \A i, j \in DOMAIN events : events[i] = events[j] => i = j
  /\ ToSet(events) = Changes(old, new) \cup Updates(o, old, new)

\* What it asks of a request that has been answered.
Accounts(r) ==
  IF reply[r] = "ok" THEN Tells(published[r], op[r], was[r], Here)
  ELSE published[r] = <<>> /\ was[r] = Here

\* A write of a resource or container past the guard: n of the chain are to be
\* created, or have been.
Grows(r) ==
  /\ op[r].method \in {"PUT", "POST", "PATCH"}
  /\ \E n \in Nat :
       /\ Foreseen(op[r], facts[r], was[r], n) /\ (op[r].method = "POST" => n # 0)
       /\ pc[r] \in Walking => \E k \in Nat : Walked(r, n, k)
       /\ pc[r] \in Writing => Gained(op[r], was[r], Here, 2..(n + 1), n)
       /\ pc[r] = "type" => Gained(op[r], was[r], Here, 1..n, n) /\ (~saw[r] => n = 0)
       /\ pc[r] = "patch" => n = 0

\* A request for an ACL past the guard: what it will say, and what it has done.
WritesAcl(r) ==
  /\ facts[r].materialized = NothingMaterialized
  /\ \/ /\ op[r].method = "PUT_acl" /\ op[r].target \in present
        /\ facts[r].existed = (op[r].target \in was[r].marked)
        /\ pc[r] \in {"write_acl", "confirm"}
        /\ pc[r] = "confirm" => /\ present = was[r].present /\ contains = was[r].contains
                               /\ marked = was[r].marked \cup {op[r].target}
     \/ /\ op[r].method = "PATCH_acl" /\ facts[r].existed = TRUE
        /\ pc[r] # "write_acl"
        /\ Here = was[r]

\* A removal past the guard.
Removes(r) ==
  /\ pc[r] \in Deleting => op[r].method = "DELETE" /\ facts[r].auxes = marked \cap {op[r].target}
  /\ pc[r] = "delete" => saw[r] = (op[r].target \in present)
  /\ pc[r] \in {"acl_found", "delete_acl"} => op[r].method = "DELETE_acl" /\ facts[r].auxes = {}
  /\ pc[r] = "delete_acl" => saw[r] = (op[r].target \in marked)

AclLabels == {"write_acl", "acl_there", "acl_ask", "patch_acl", "confirm"}

\* Where a request is on the way from what it saw to what it will say.
Told(r) ==
  /\ pc[r] # "replied" => published[r] = <<>>
  /\ pc[r] = "replied" => Accounts(r)
  /\ pc[r] \in Unwritten => Here = was[r]
  /\ pc[r] \in Walking \cup Writing \cup {"type", "patch"} => Grows(r)
  /\ pc[r] # "idle" /\ op[r].method = "PUT_acl" => op[r].del = {}
  /\ pc[r] \in AclLabels => WritesAcl(r)
  /\ Removes(r)

EventTypes ==
  /\ DOMAIN facts = Reqs /\ DOMAIN published = Reqs
  /\ was \in [Reqs -> [present : SUBSET Urls, contains : [Containers -> SUBSET Urls],
                       marked : SUBSET Urls]]

EventInv == EventTypes /\ AuxHasSubject /\ \A r \in Reqs : Told(r)

-----------------------------------------------------------------------------
(* URLs *)

\* A URL is its segments and its slash, and only the root has no segment.
LEMMA UrlShape ==
  ASSUME NEW u \in Urls
  PROVE  /\ u.segs \in Seq(Segments) /\ u.slash \in BOOLEAN /\ Len(u.segs) \in Nat
         /\ u = [segs |-> u.segs, slash |-> u.slash]
         /\ u # Root => Len(u.segs) >= 1
         /\ u # NoUrl
<1>1. u.segs \in Seq(Segments) /\ u = [segs |-> u.segs, slash |-> u.slash] /\ u.slash \in BOOLEAN
  BY SpaceAssumption DEF Url
<1>2. ASSUME Len(u.segs) = 0, u # Root PROVE FALSE
  <2>1. u.segs = <<>>
    BY <1>1, <1>2, EmptySeq
  <2>2. u = Root \/ u = NoUrl
    BY <1>1, <2>1 DEF Root, NoUrl
  <2> QED BY <1>2, <2>2, SpaceAssumption
<1>3. Len(u.segs) \in Nat
  BY <1>1, LenProperties
<1> QED BY <1>1, <1>2, <1>3, SpaceAssumption

\* A prefix of a prefix is a prefix.
LEMMA PrefixOfPrefix ==
  ASSUME NEW S, NEW s \in Seq(S), NEW m \in 0..Len(s), NEW k \in 0..m
  PROVE  /\ SubSeq(s, 1, m) \in Seq(S) /\ Len(SubSeq(s, 1, m)) = m
         /\ SubSeq(SubSeq(s, 1, m), 1, k) = SubSeq(s, 1, k)
<1>1. SubSeq(s, 1, m) \in Seq(S) /\ Len(SubSeq(s, 1, m)) = m
      /\ \A i \in 1..m : SubSeq(s, 1, m)[i] = s[i]
  OBVIOUS
<1>2. SubSeq(s, 1, k) \in Seq(S) /\ Len(SubSeq(s, 1, k)) = k
      /\ \A i \in 1..k : SubSeq(s, 1, k)[i] = s[i]
  OBVIOUS
<1> DEFINE p == SubSeq(s, 1, m)
<1>3. SubSeq(p, 1, k) \in Seq(S) /\ Len(SubSeq(p, 1, k)) = k
      /\ \A i \in 1..k : SubSeq(p, 1, k)[i] = p[i]
  BY <1>1
<1>4. SubSeq(p, 1, k) = SubSeq(s, 1, k)
  BY <1>1, <1>2, <1>3, SeqEqual
<1> QED BY <1>1, <1>4

\* Every URL a chain names is in the pod; the ones above it are shorter, end in
\* a slash, and have the rest of the chain above them.
LEMMA AncestorFacts ==
  ASSUME NEW t \in Urls, NEW i \in 1..Len(t.segs)
  PROVE  /\ ancestors(t)[i] \in Containers /\ ancestors(t)[i] \in Urls
         /\ ancestors(t)[i].slash = TRUE
         /\ ancestors(t)[i].segs = SubSeq(t.segs, 1, Len(t.segs) - i)
         /\ Len(ancestors(t)[i].segs) = Len(t.segs) - i
         /\ \A j \in 1..(Len(t.segs) - i) : ancestors(ancestors(t)[i])[j] = ancestors(t)[i + j]
<1> DEFINE n == Len(t.segs)
           a == ancestors(t)[i]
<1>1. t.segs \in Seq(Segments) /\ n \in Nat
  BY UrlShape
<1>2. a = [segs |-> SubSeq(t.segs, 1, n - i), slash |-> TRUE]
  BY <1>1 DEF ancestors
<1>3. a \in Containers /\ a \in Urls
  BY <1>1, AncestorsAreContainers DEF Containers
<1>4. n - i \in 0..n
  BY <1>1
<1>5. Len(a.segs) = n - i
  BY <1>1, <1>2, <1>4, PrefixOfPrefix
<1>6. ASSUME NEW j \in 1..(n - i) PROVE ancestors(a)[j] = ancestors(t)[i + j]
  <2>1. ancestors(a)[j] = [segs |-> SubSeq(a.segs, 1, Len(a.segs) - j), slash |-> TRUE]
    BY <1>1, <1>5 DEF ancestors
  <2>2. i + j \in 1..n /\ (n - i) - j \in 0..(n - i) /\ (n - i) - j = n - (i + j)
    BY <1>1
  <2>3. ancestors(t)[i + j] = [segs |-> SubSeq(t.segs, 1, n - (i + j)), slash |-> TRUE]
    BY <2>2 DEF ancestors
  <2>4. SubSeq(SubSeq(t.segs, 1, n - i), 1, (n - i) - j) = SubSeq(t.segs, 1, (n - i) - j)
    BY <1>1, <1>4, <2>2, PrefixOfPrefix
  <2> HIDE DEF n, a
  <2> QED BY <1>2, <1>5, <2>1, <2>2, <2>3, <2>4
<1>7. a.slash = TRUE /\ a.segs = SubSeq(t.segs, 1, n - i)
  BY <1>2
<1> QED BY <1>3, <1>5, <1>6, <1>7, Zenon

\* The parent is the first of the chain, and the last is the root.
LEMMA ChainEnds ==
  ASSUME NEW t \in Urls, t # Root
  PROVE  /\ 1 \in 1..Len(t.segs) /\ Len(t.segs) \in 1..Len(t.segs)
         /\ parent(t) = ancestors(t)[1] /\ parent(t) \in Containers /\ parent(t) \in Urls
         /\ Len(parent(t).segs) = Len(t.segs) - 1
         /\ ancestors(t)[Len(t.segs)] = Root
<1>1. Len(t.segs) \in Nat /\ Len(t.segs) >= 1 /\ t.segs \in Seq(Segments)
  BY UrlShape
<1>2. 1 \in 1..Len(t.segs) /\ Len(t.segs) \in 1..Len(t.segs)
  BY <1>1
<1>3. parent(t) = ancestors(t)[1]
  BY <1>2 DEF parent, ancestors
<1>4. parent(t) \in Containers /\ parent(t) \in Urls /\ Len(parent(t).segs) = Len(t.segs) - 1
  <2> DEFINE a == ancestors(t)[1]
  <2>1. a \in Containers /\ a \in Urls /\ Len(a.segs) = Len(t.segs) - 1
    BY <1>2, AncestorFacts
  <2> QED BY <1>3, <2>1, Zenon
<1>5. ancestors(t)[Len(t.segs)] = Root
  <2> DEFINE a == ancestors(t)[Len(t.segs)]
  <2>1. a \in Urls /\ Len(a.segs) = Len(t.segs) - Len(t.segs)
    BY <1>2, AncestorFacts
  <2>2. Len(a.segs) = 0
    BY <1>1, <2>1
  <2> QED BY <2>1, <2>2, UrlShape
<1> QED BY <1>2, <1>3, <1>4, <1>5

\* In the walk above t, each is the parent of the one before it.
LEMMA ParentOfAncestor ==
  ASSUME NEW t \in Urls, NEW i \in 1..Len(t.segs), i > 1
  PROVE  /\ i - 1 \in 1..Len(t.segs)
         /\ ancestors(t)[i - 1] # Root
         /\ ancestors(t)[i] = parent(ancestors(t)[i - 1])
<1>1. Len(t.segs) \in Nat
  BY UrlShape
<1>2. i - 1 \in 1..Len(t.segs) /\ 1 \in 1..(Len(t.segs) - (i - 1)) /\ (i - 1) + 1 = i
  BY <1>1
<1> DEFINE a == ancestors(t)[i - 1]
<1>3. a \in Urls /\ Len(a.segs) = Len(t.segs) - (i - 1) /\ ancestors(a)[1] = ancestors(t)[(i - 1) + 1]
  BY <1>2, AncestorFacts
<1>4. a # Root
  <2>1. Len(a.segs) # 0
    BY <1>1, <1>3
  <2>2. Len(Root.segs) = 0
    BY EmptySeq DEF Root
  <2> QED BY <2>1, <2>2
<1>5. parent(a) = ancestors(a)[1]
  BY <1>3, <1>4, ChainEnds
<1> QED BY <1>2, <1>3, <1>4, <1>5

\* What is above a URL is neither it nor its slash counterpart.
LEMMA AboveIsOther ==
  ASSUME NEW t \in Urls, NEW a \in Above(t)
  PROVE  /\ a \in Containers /\ a \in Urls /\ a.slash
         /\ a # t /\ a # slash_counterpart(t)
         /\ a \in ChainSet(t)
<1>1. PICK i \in 1..Len(t.segs) : a = ancestors(t)[i]
  BY DEF Above
<1>2. a \in Containers /\ a \in Urls /\ a.slash /\ Len(a.segs) = Len(t.segs) - i
  BY <1>1, AncestorFacts
<1>3. Len(t.segs) \in Nat
  BY UrlShape
<1>4. Len(a.segs) # Len(t.segs)
  BY <1>2, <1>3
<1>5. slash_counterpart(t).segs = t.segs
  BY UrlShape DEF slash_counterpart
<1> QED BY <1>1, <1>2, <1>4, <1>5 DEF ChainSet

\* slash_counterpart is another URL, and its own inverse.
LEMMA Counterparts ==
  ASSUME NEW t \in Urls
  PROVE  /\ slash_counterpart(t) # t
         /\ slash_counterpart(t) = [segs |-> t.segs, slash |-> ~t.slash]
         /\ slash_counterpart(slash_counterpart(t)) = t
<1>1. slash_counterpart(t) = [segs |-> t.segs, slash |-> ~t.slash]
  BY SpaceAssumption DEF Url, slash_counterpart
<1> DEFINE c == [segs |-> t.segs, slash |-> ~t.slash]
<1>2. t.slash \in BOOLEAN /\ t = [segs |-> t.segs, slash |-> t.slash]
  BY UrlShape
<1>3. c.slash = ~t.slash /\ c.segs = t.segs
  OBVIOUS
<1>4. c # t
  BY <1>2, <1>3, Zenon
<1>5. [c EXCEPT !.slash = ~c.slash] = [segs |-> c.segs, slash |-> ~c.slash]
  OBVIOUS
<1>6. ~c.slash = t.slash
  BY <1>2, <1>3
<1> HIDE DEF c
<1>7. slash_counterpart(c) = t
  BY <1>2, <1>3, <1>5, <1>6 DEF slash_counterpart
<1> QED BY <1>1, <1>4, <1>7 DEF c

\* A container is nobody's counterpart but a document's.
LEMMA CounterpartOfContainer ==
  ASSUME NEW u \in Urls, NEW c \in Containers, slash_counterpart(u) = c
  PROVE  ~u.slash
BY Counterparts, UrlShape DEF Containers

-----------------------------------------------------------------------------
(* The guard's walk *)

\* A chain is the URL and what is above it.
LEMMA ChainShape ==
  ASSUME NEW t \in Urls
  PROVE  /\ Chain(t) \in Seq(Urls) /\ Len(Chain(t)) = Len(t.segs) + 1
         /\ Chain(t)[1] = t
         /\ \A i \in 1..Len(t.segs) : Chain(t)[i + 1] = ancestors(t)[i]
         /\ \A i \in 1..(Len(t.segs) + 1) : Chain(t)[i] \in ChainSet(t)
<1> DEFINE n == Len(t.segs)
<1>1. n \in Nat /\ ancestors(t) \in Seq(Urls) /\ Len(ancestors(t)) = n
  <2>1. n \in Nat /\ Len(ancestors(t)) = n
    BY AncestorsAreContainers
  <2>2. \A i \in 1..n : ancestors(t)[i] \in Urls
    BY AncestorFacts
  <2> DEFINE a == ancestors(t)
  <2>3. DOMAIN a = 1..n /\ a = [i \in DOMAIN a |-> a[i]]
    BY <2>1 DEF ancestors
  <2> HIDE DEF a, n
  <2>4. [i \in 1..n |-> a[i]] \in Seq(Urls)
    BY <2>1, <2>2 DEF a
  <2> QED BY <2>1, <2>3, <2>4 DEF a
<1>2. <<t>> \in Seq(Urls) /\ Len(<<t>>) = 1 /\ <<t>>[1] = t
  OBVIOUS
<1>3. /\ Chain(t) \in Seq(Urls) /\ Len(Chain(t)) = n + 1
      /\ Chain(t)[1] = t
      /\ \A i \in 1..n : Chain(t)[i + 1] = ancestors(t)[i]
  BY <1>1, <1>2 DEF Chain
<1>4. ASSUME NEW i \in 1..(n + 1) PROVE Chain(t)[i] \in ChainSet(t)
  <2>1. CASE i = 1
    BY <1>3, <2>1 DEF ChainSet
  <2>2. CASE i # 1
    <3>1. i - 1 \in 1..n /\ (i - 1) + 1 = i
      BY <1>1, <2>2
    <3>2. Chain(t)[i] = ancestors(t)[i - 1]
      BY <1>3, <3>1
    <3> QED BY <3>1, <3>2 DEF ChainSet
  <2> QED BY <2>1, <2>2
<1> QED BY <1>3, <1>4

\* The chain of what is above t is the rest of the chain of t.
LEMMA ChainFrom ==
  ASSUME NEW t \in Urls, NEW k \in 0..Len(t.segs)
  PROVE  /\ Chain(t)[k + 1] \in Urls
         /\ Len(Chain(Chain(t)[k + 1])) = Len(t.segs) - k + 1
         /\ \A j \in 1..(Len(t.segs) - k + 1) :
              Chain(Chain(t)[k + 1])[j] = Chain(t)[k + j]
<1> DEFINE n == Len(t.segs)
           c == Chain(t)[k + 1]
<1>0. n \in Nat
  BY UrlShape
<1>1. CASE k = 0
  <2>1. c = t /\ n - k + 1 = n + 1 /\ \A j \in 1..(n + 1) : k + j = j
    BY <1>0, <1>1, ChainShape
  <2>2. Len(Chain(t)) = n + 1
    BY ChainShape
  <2> HIDE DEF n, c
  <2>3. c \in Urls /\ Len(Chain(c)) = n - k + 1
    BY <2>1, <2>2
  <2>4. ASSUME NEW j \in 1..(n - k + 1) PROVE Chain(c)[j] = Chain(t)[k + j]
    BY <2>1
  <2> QED BY <2>3, <2>4 DEF n, c
<1>2. CASE k # 0
  <2>0. k \in 1..n
    BY <1>0, <1>2
  <2>1. c = ancestors(t)[k]
    BY <2>0, ChainShape
  <2>2. /\ ancestors(t)[k] \in Urls /\ Len(ancestors(t)[k].segs) = n - k
        /\ \A j \in 1..(n - k) : ancestors(ancestors(t)[k])[j] = ancestors(t)[k + j]
    BY <2>0, AncestorFacts
  <2> HIDE DEF c
  <2>3. c \in Urls /\ Len(c.segs) = n - k /\ \A j \in 1..(n - k) : ancestors(c)[j] = ancestors(t)[k + j]
    BY <2>1, <2>2
  <2>4. /\ Len(Chain(c)) = n - k + 1 /\ Chain(c)[1] = c
        /\ \A j \in 1..(n - k) : Chain(c)[j + 1] = ancestors(c)[j]
    BY <2>3, ChainShape
  <2>5. ASSUME NEW j \in 1..(n - k + 1) PROVE Chain(c)[j] = Chain(t)[k + j]
    <3>1. CASE j = 1
      BY <2>4, <3>1 DEF c
    <3>2. CASE j # 1
      <4>1. j - 1 \in 1..(n - k) /\ (j - 1) + 1 = j /\ k + (j - 1) \in 1..n
            /\ (k + (j - 1)) + 1 = k + j
        BY <1>0, <2>0, <3>2
      <4>2. Chain(c)[j] = ancestors(t)[k + (j - 1)]
        BY <2>3, <2>4, <4>1
      <4>3. Chain(t)[(k + (j - 1)) + 1] = ancestors(t)[k + (j - 1)]
        BY <4>1, ChainShape
      <4> QED BY <4>1, <4>2, <4>3
    <3> QED BY <3>1, <3>2
  <2> QED BY <2>3, <2>4, <2>5 DEF c
<1> QED BY <1>1, <1>2

\* decide_from, one mode at a time.
LEMMA DecideFrom ==
  ASSUME NEW chain, NEW acls, NEW agent, NEW start, NEW m
  PROVE  m \in decide_from(chain, acls, agent, start) <=>
           \E i \in Governing(chain, acls, start) :
             m \in decide(acls[chain[i]], agent, chain[i], i > start)
BY DEF decide_from

\* What the guard decides for the target, or from its k-th ancestor on, out of
\* the ACLs its probe found is what the store alone says of that URL.
LEMMA GuardSeesStore ==
  ASSUME NEW t \in Urls, NEW k \in 0..Len(t.segs), NEW agent
  PROVE  decide_from(Chain(t), [u \in marked \cap ChainSet(t) |-> doc[u]], agent, k + 1)
           = Effective(agent, Chain(t)[k + 1])
<1> DEFINE n == Len(t.segs)
           c == Chain(t)[k + 1]
           seen == [u \in marked \cap ChainSet(t) |-> doc[u]]
           all == [v \in marked |-> doc[v]]
<1>0. n \in Nat /\ k \in Nat /\ k <= n
  BY UrlShape
<1>1. Len(Chain(t)) = n + 1 /\ Len(Chain(c)) = n - k + 1
  BY ChainShape, ChainFrom
<1>2. \A j \in 1..(n - k + 1) : Chain(c)[j] = Chain(t)[k + j]
  BY ChainFrom
<1>3. \A i \in 1..(n + 1) : Chain(t)[i] \in ChainSet(t)
  BY ChainShape
<1>4. \A x \in ChainSet(t) : (x \in DOMAIN seen <=> x \in DOMAIN all)
                             /\ (x \in DOMAIN seen => seen[x] = all[x])
  OBVIOUS
<1> HIDE DEF n, c, seen, all
<1>5. ASSUME NEW i \in Int, NEW j \in Int, i = k + j
      PROVE  /\ i \in Governing(Chain(t), seen, k + 1) <=> j \in Governing(Chain(c), all, 1)
             /\ i > k + 1 <=> j > 1
             /\ i \in Governing(Chain(t), seen, k + 1) =>
                  /\ Chain(t)[i] = Chain(c)[j]
                  /\ seen[Chain(t)[i]] = all[Chain(c)[j]]
  <2>1. i \in (k + 1)..(n + 1) <=> j \in 1..(n - k + 1)
    BY <1>0, <1>5
  <2>2. i > k + 1 <=> j > 1
    BY <1>0, <1>5
  <2>3. ASSUME i \in (k + 1)..(n + 1)
        PROVE  (\A a \in (k + 1)..(i - 1) : Chain(t)[a] \notin DOMAIN seen)
                 <=> (\A b \in 1..(j - 1) : Chain(c)[b] \notin DOMAIN all)
    <3>1. ASSUME \A a \in (k + 1)..(i - 1) : Chain(t)[a] \notin DOMAIN seen,
                 NEW b \in 1..(j - 1)
          PROVE  Chain(c)[b] \notin DOMAIN all
      <4>1. k + b \in (k + 1)..(i - 1) /\ b \in 1..(n - k + 1) /\ k + b \in 1..(n + 1)
        BY <1>0, <1>5, <2>3
      <4>2. Chain(c)[b] = Chain(t)[k + b] /\ Chain(t)[k + b] \in ChainSet(t)
        BY <1>2, <1>3, <4>1
      <4> QED BY <1>4, <3>1, <4>1, <4>2
    <3>2. ASSUME \A b \in 1..(j - 1) : Chain(c)[b] \notin DOMAIN all,
                 NEW a \in (k + 1)..(i - 1)
          PROVE  Chain(t)[a] \notin DOMAIN seen
      <4>1. a - k \in 1..(j - 1) /\ a - k \in 1..(n - k + 1) /\ a \in 1..(n + 1) /\ k + (a - k) = a
        BY <1>0, <1>5, <2>3
      <4>2. Chain(c)[a - k] = Chain(t)[a] /\ Chain(t)[a] \in ChainSet(t)
        BY <1>2, <1>3, <4>1
      <4> QED BY <1>4, <3>2, <4>1, <4>2
    <3> QED BY <3>1, <3>2
  <2>4. ASSUME i \in (k + 1)..(n + 1)
        PROVE  Chain(t)[i] = Chain(c)[j] /\ Chain(t)[i] \in ChainSet(t)
    <3>1. i \in 1..(n + 1) /\ j \in 1..(n - k + 1)
      BY <1>0, <2>1, <2>4
    <3> QED BY <1>2, <1>3, <1>5, <3>1
  <2>5. i \in Governing(Chain(t), seen, k + 1) <=>
          /\ i \in (k + 1)..(n + 1) /\ Chain(t)[i] \in DOMAIN seen
          /\ \A a \in (k + 1)..(i - 1) : Chain(t)[a] \notin DOMAIN seen
    BY <1>1 DEF Governing
  <2>6. j \in Governing(Chain(c), all, 1) <=>
          /\ j \in 1..(n - k + 1) /\ Chain(c)[j] \in DOMAIN all
          /\ \A b \in 1..(j - 1) : Chain(c)[b] \notin DOMAIN all
    BY <1>1 DEF Governing
  <2> QED BY <1>4, <2>1, <2>2, <2>3, <2>4, <2>5, <2>6
<1>6. Governing(Chain(t), seen, k + 1) \subseteq Int /\ Governing(Chain(c), all, 1) \subseteq Int
  BY <1>0, <1>1 DEF Governing
<1>7. ASSUME NEW m
      PROVE  m \in decide_from(Chain(t), seen, agent, k + 1)
               <=> m \in decide_from(Chain(c), all, agent, 1)
  <2>1. ASSUME m \in decide_from(Chain(t), seen, agent, k + 1)
        PROVE  m \in decide_from(Chain(c), all, agent, 1)
    <3>1. PICK i \in Governing(Chain(t), seen, k + 1) :
            m \in decide(seen[Chain(t)[i]], agent, Chain(t)[i], i > k + 1)
      BY <2>1, DecideFrom
    <3>2. PICK j \in Int : i = k + j /\ i \in Int
      <4>1. i \in Int /\ i - k \in Int /\ i = k + (i - k)
        BY <1>0, <1>6
      <4> QED BY <4>1
    <3>3. /\ j \in Governing(Chain(c), all, 1)
          /\ Chain(t)[i] = Chain(c)[j] /\ seen[Chain(t)[i]] = all[Chain(c)[j]]
      BY <1>5, <3>1, <3>2
    <3>4. (i > k + 1) = (j > 1)
      BY <1>0, <3>2
    <3> QED BY <3>1, <3>3, <3>4, DecideFrom
  <2>2. ASSUME m \in decide_from(Chain(c), all, agent, 1)
        PROVE  m \in decide_from(Chain(t), seen, agent, k + 1)
    <3>1. PICK j \in Governing(Chain(c), all, 1) :
            m \in decide(all[Chain(c)[j]], agent, Chain(c)[j], j > 1)
      BY <2>2, DecideFrom
    <3>2. j \in Int /\ k + j \in Int
      BY <1>0, <1>6
    <3>3. /\ k + j \in Governing(Chain(t), seen, k + 1) /\ (k + j > k + 1) = (j > 1)
          /\ Chain(t)[k + j] = Chain(c)[j] /\ seen[Chain(t)[k + j]] = all[Chain(c)[j]]
      BY <1>5, <3>1, <3>2
    <3> QED BY <3>1, <3>3, DecideFrom
  <2> QED BY <2>1, <2>2
<1>8. decide_from(Chain(t), seen, agent, k + 1) = decide_from(Chain(c), all, agent, 1)
  BY <1>7
<1> QED BY <1>8 DEF Effective, seen, all, c

-----------------------------------------------------------------------------
(* Steps that leave the tree alone *)

\* The tree is in the markers and the members.
LEMMA TreeStays ==
  ASSUME Tree, present' = present, contains' = contains
  PROVE  Tree'
BY DEF Tree, NoSlashPair, DocumentIsLinked

\* A request that has returned knows nothing.
LEMMA AnswerAlone ==
  ASSUME IInv, NEW r \in Reqs, NEW what, Answer(r, what)
  PROVE  Alone(r)'
<1>1. pc'[r] = "replied" /\ kept'[r] = {}
  BY DEF Answer, Goto, Blank, IInv, TypeOK
<1> QED BY <1>1 DEF Alone, Walking, Writing, Deleting

\* Nor does a slot without one.
LEMMA ForgetAlone ==
  ASSUME IInv, NEW r \in Reqs, Forget(r)
  PROVE  Alone(r)'
<1>1. pc'[r] = "idle" /\ kept'[r] = {}
  BY DEF Forget, Goto, Blank, IInv, TypeOK
<1> QED BY <1>1 DEF Alone, Walking, Writing, Deleting

\* A request's operation is one the pod knows.
LEMMA OpTypes ==
  ASSUME IInv, NEW r \in Reqs
  PROVE  /\ op[r] \in Operation /\ op[r].target \in Urls /\ op[r].slug \in Urls
         /\ op[r].target.slash \in BOOLEAN
         /\ op[r].target.slash => op[r].target \in Containers
BY UrlShape DEF IInv, TypeOK, Operation, Containers

\* What the guard holds for the target and above it is what the store grants.
LEMMA HeldIsEffective ==
  ASSUME IInv, NEW r \in Reqs, snap[r] = Probe(op[r].target),
         NEW k \in 0..Len(op[r].target.segs)
  PROVE  Held(r, k + 1) = Effective(op[r].agent, Chain(op[r].target)[k + 1])
<1>1. snap[r].acls = marked \cap ChainSet(op[r].target)
  BY DEF Probe
<1> QED BY <1>1, OpTypes, GuardSeesStore DEF Held, Acls

\* The target's own modes, and its parent's.
LEMMA HeldHere ==
  ASSUME IInv, NEW r \in Reqs, snap[r] = Probe(op[r].target)
  PROVE  /\ Held(r, 1) = Effective(op[r].agent, op[r].target)
         /\ op[r].target # Root => Held(r, 2) = Effective(op[r].agent, parent(op[r].target))
<1> DEFINE t == op[r].target
<1>0. t \in Urls /\ Len(t.segs) \in Nat
  BY OpTypes, UrlShape
<1>1. 0 \in 0..Len(t.segs) /\ 0 + 1 = 1 /\ 1 + 1 = 2
  BY <1>0
<1>2. Held(r, 1) = Effective(op[r].agent, t)
  <2>1. Held(r, 0 + 1) = Effective(op[r].agent, Chain(t)[0 + 1])
    BY <1>1, HeldIsEffective
  <2>2. Chain(t)[1] = t
    BY <1>0, ChainShape
  <2> HIDE DEF t
  <2> QED BY <1>1, <2>1, <2>2
<1>3. ASSUME t # Root PROVE Held(r, 2) = Effective(op[r].agent, parent(t))
  <2>1. 1 \in 1..Len(t.segs) /\ parent(t) = ancestors(t)[1]
    BY <1>0, <1>3, ChainEnds
  <2>2. 1 \in 0..Len(t.segs)
    BY <1>0, <2>1
  <2>3. Held(r, 1 + 1) = Effective(op[r].agent, Chain(t)[1 + 1])
    BY <2>2, HeldIsEffective
  <2>4. Chain(t)[1 + 1] = ancestors(t)[1]
    BY <1>0, <2>1, ChainShape
  <2> HIDE DEF t
  <2> QED BY <1>1, <2>1, <2>3, <2>4
<1> QED BY <1>2, <1>3

\* The labels at which Alone asks only that nothing be kept.
Plain == Labels \ ({"replace", "type", "markers", "acls", "child_markers", "child_acls",
                    "patch", "acl_found", "delete_acl"} \cup Walking \cup Writing \cup Deleting)

\* A request that goes there knows nothing.
LEMMA PlainAlone ==
  ASSUME NEW r \in Reqs, pc'[r] \in Plain, kept'[r] = {}
  PROVE  Alone(r)'
BY DEF Alone, Plain, Walking, Writing, Deleting

\* Every call before the first write, and every one that only reads, keeps what
\* the request knows.
LEMMA ReadsAlone ==
  ASSUME IInv, Sound, NEW r \in Reqs, Alone(r),
         \/ ProbeMarkers(r) \/ Deny(r) \/ Refuse(r) \/ ReadMembers(r)
         \/ DecidePatch(r) \/ DecidePost(r) \/ Rename(r) \/ Confirm(r)
         \/ DecideAux(r) \/ AclThere(r) \/ AskDeletions(r) \/ AclFound(r)
         \/ DecideDelete(r) \/ IsEmpty(r) \/ Found(r) \/ Close(r) \/ Fail(r)
         \/ Start(r)
  PROVE  UNCHANGED store /\ Alone(r)'
<1> DEFINE t == op[r].target
<1>0. /\ op[r] \in Operation /\ t \in Urls /\ op[r].slug \in Urls /\ t.slash \in BOOLEAN
      /\ t.slash => t \in Containers
  BY OpTypes
<1>t. /\ pc \in [Reqs -> Labels] /\ op \in [Reqs -> Operation] /\ kept \in [Reqs -> SUBSET Urls]
      /\ snap \in [Reqs -> [present : SUBSET Urls, acls : SUBSET Urls]]
  BY DEF IInv, TypeOK
<1>s. UNCHANGED store
  BY DEF Start, ProbeMarkers, Deny, Refuse, ReadMembers, DecidePatch,
     DecidePost, Rename, Confirm, DecideAux, AclThere, AskDeletions, AclFound,
     DecideDelete, IsEmpty, Found, Close, Fail
<1>e. ASSUME op' = op, NEW u
      PROVE  Effective(op[r].agent, u)' = Effective(op[r].agent, u)
  BY <1>s, <1>e DEF Effective, store
<1>f. ASSUME NEW l, Proceed(r, l)
      PROVE  pc'[r] = l /\ kept'[r] = {}
  BY <1>t, <1>f DEF Proceed, Goto, Blank
<1>1. CASE ProbeMarkers(r)
  <2>1. /\ pc[r] \in {"markers", "child_markers"} /\ op' = op /\ kept' = kept
        /\ pc'[r] = IF pc[r] = "markers" THEN "acls" ELSE "child_acls"
        /\ snap'[r] = Probe(t)
    BY <1>1, <1>t DEF ProbeMarkers, Goto, Probe
  <2>2. kept[r] = {}
    BY <2>1 DEF Alone
  <2>3. present' = present /\ snap'[r] = Probe(op[r].target)'
    BY <1>s, <2>1 DEF store, Probe
  <2>4. CASE pc[r] = "markers"
    BY <1>s, <2>1, <2>2, <2>3, <2>4 DEF Alone, Walking, Writing, Deleting
  <2>5. CASE pc[r] = "child_markers"
    BY <1>s, <2>1, <2>2, <2>3, <2>5 DEF Alone, Walking, Writing, Deleting
  <2> QED BY <1>s, <2>1, <2>4, <2>5
<1>2. CASE Deny(r) \/ Refuse(r) \/ Confirm(r)
  <2>1. \E what : Answer(r, what)
    BY <1>2 DEF Deny, Refuse, Confirm
  <2> QED BY <1>s, <2>1, AnswerAlone
<1>3. CASE Close(r) \/ Fail(r)
  <2>1. Forget(r)
    BY <1>3 DEF Close, Fail
  <2> QED BY <1>s, <2>1, ForgetAlone
<1>4. CASE ReadMembers(r)
  <2>1. /\ pc[r] = "members" /\ pc'[r] = "replace" /\ op' = op
        /\ kept'[r] = IF t \in present THEN contains[t] ELSE {}
        /\ present' = present /\ contains' = contains
    BY <1>4, <1>t DEF ReadMembers, Goto, store
  <2>2. TargetOK(r) /\ t \in Containers
    BY <2>1 DEF Alone, Writing, IInv, Fitting, Fits
  <2>3. contains'[t] = kept'[r]
    BY <2>1, <2>2 DEF Sound, MembersHaveMarker
  <2>4. TargetOK(r)'
    <3>1. pc[r] \notin Walking /\ pc'[r] \notin Walking
      BY <2>1 DEF Walking
    <3> QED BY <2>1, <2>2, <2>3, <3>1 DEF TargetOK, Linked
  <2>5. Alone(r)'
    BY <2>1, <2>4 DEF Alone, Walking, Writing, Deleting
  <2> QED BY <1>s, <2>5
<1>5. CASE DecidePatch(r)
  <2>1. CASE Answer(r, "refused")
    BY <1>s, <2>1, AnswerAlone
  <2>2. CASE Proceed(r, "patch") /\ t \in snap[r].present
    <3>1. pc[r] = "acls" /\ op' = op /\ present' = present
      BY <1>s, <1>5 DEF DecidePatch, store
    <3>2. t \in present
      BY <2>2, <3>1 DEF Alone, Probe
    <3>3. Alone(r)'
      BY <1>f, <2>2, <3>1, <3>2 DEF Alone, Walking, Writing, Deleting
    <3> QED BY <1>s, <3>3
  <2> QED BY <1>5, <2>1, <2>2 DEF DecidePatch
<1>6. CASE DecidePost(r)
  <2>1. /\ pc[r] = "acls" /\ op[r].method = "POST" /\ Proceed(r, "child_markers")
        /\ op' = [op EXCEPT ![r].target = op[r].slug]
    BY <1>6 DEF DecidePost
  <2>2. op'[r].target = op[r].slug /\ op'[r].slug = op[r].slug /\ op'[r].method = "POST"
    BY <1>0, <1>t, <2>1 DEF Operation
  <2>3. op[r].slug # Root
    BY <2>1 DEF Alone
  <2>4. Alone(r)'
    BY <1>f, <2>1, <2>2, <2>3 DEF Alone, Walking, Writing, Deleting
  <2> QED BY <1>s, <2>4
<1>7. CASE Rename(r)
  <2>1. PICK u \in FreshNames : u \notin present /\ op' = [op EXCEPT ![r].target = u]
    BY <1>7 DEF Rename, Unused
  <2>2. pc[r] = "child_acls" /\ Proceed(r, "child_markers")
    BY <1>7 DEF Rename, IsTaken
  <2>3. op'[r].target = u /\ op'[r].slug = op[r].slug /\ op'[r].method = op[r].method
    BY <1>0, <1>t, <2>1 DEF Operation
  <2>4. op[r].method = "POST" /\ op[r].slug # Root /\ u # Root /\ u \notin present'
    BY <1>s, <2>1, <2>2, PodAssumption DEF Alone, store
  <2>5. Alone(r)'
    BY <1>f, <2>2, <2>3, <2>4 DEF Alone, Walking, Writing, Deleting
  <2> QED BY <1>s, <2>5
<1>8. CASE DecideAux(r)
  <2>1. pc[r] = "acls" /\ op' = op /\ op[r].method \in {"PATCH_acl", "DELETE_acl"} /\ Authorized(r)
    BY <1>8 DEF DecideAux
  <2>2. "Control" \in Held(r, 1)
    BY <2>1 DEF Authorized, authorize, allows
  <2>3. "Control" \in Effective(op[r].agent, t)
    BY <2>1, <2>2, HeldHere DEF Alone
  <2>4. "Control" \in Effective(op[r].agent, t)'
    BY <1>e, <2>1, <2>3
  <2>5. pc'[r] \in {"acl_there", "acl_found"} /\ kept'[r] = {}
    BY <1>8, <1>f DEF DecideAux
  <2>6. Alone(r)'
    BY <2>1, <2>4, <2>5 DEF Alone, Walking, Writing, Deleting
  <2> QED BY <1>s, <2>6
<1>9. CASE AclThere(r) \/ AskDeletions(r)
  <2>1. CASE \E what : Answer(r, what)
    BY <1>s, <2>1, AnswerAlone
  <2>2. CASE pc'[r] \in Plain /\ kept'[r] = {}
    BY <1>s, <2>2, PlainAlone
  <2>3. ASSUME ~(\E what : Answer(r, what)) PROVE pc'[r] \in Plain /\ kept'[r] = {}
    <3>1. CASE AclThere(r)
      BY <1>f, <2>3, <3>1 DEF AclThere, Plain, Labels, Walking, Writing, Deleting
    <3>2. CASE AskDeletions(r)
      <4>1. pc[r] = "acl_ask" /\ pc' = [pc EXCEPT ![r] = "patch_acl"] /\ kept' = kept
        BY <2>3, <3>2 DEF AskDeletions, Goto
      <4>2. kept[r] = {}
        BY <4>1 DEF Alone
      <4> QED BY <1>t, <4>1, <4>2 DEF Plain, Labels, Walking, Writing, Deleting
    <3> QED BY <1>9, <3>1, <3>2
  <2> QED BY <2>1, <2>2, <2>3
<1>10. CASE AclFound(r)
  <2>1. pc[r] = "acl_found" /\ pc'[r] = "delete_acl" /\ op' = op /\ kept' = kept
    BY <1>10, <1>t DEF AclFound, Goto
  <2>2. kept[r] = {} /\ "Control" \in Effective(op[r].agent, t)
    BY <2>1 DEF Alone
  <2>3. "Control" \in Effective(op[r].agent, t)'
    BY <1>e, <2>1, <2>2
  <2>4. Alone(r)'
    BY <2>1, <2>2, <2>3 DEF Alone, Walking, Writing, Deleting
  <2> QED BY <1>s, <2>4
<1>11. CASE DecideDelete(r)
  <2>1. CASE Answer(r, "refused")
    BY <1>s, <2>1, AnswerAlone
  <2>2. CASE t # Root
    <3>1. /\ pc[r] = "acls" /\ op' = op /\ op[r].method = "DELETE" /\ Authorized(r)
          /\ Proceed(r, IF t.slash THEN "empty" ELSE "found")
      BY <1>11, <2>2 DEF DecideDelete
    <3>2. snap[r] = Probe(t)
      BY <3>1 DEF Alone
    <3>3. /\ "Write" \in Held(r, 1) /\ "Write" \in Held(r, 2)
          /\ t \in snap[r].acls => "Control" \in Held(r, 1)
      BY <2>2, <3>1 DEF Authorized, authorize, authorize_parent, authorize_aux, allows
    <3>4. t \in marked => t \in snap[r].acls
      BY <3>2 DEF Probe, ChainSet
    <3>5. /\ "Write" \in Effective(op[r].agent, t)
          /\ "Write" \in Effective(op[r].agent, parent(t))
          /\ t \in marked => "Control" \in Effective(op[r].agent, t)
      BY <2>2, <3>2, <3>3, <3>4, HeldHere
    <3>6. pc'[r] = (IF t.slash THEN "empty" ELSE "found") /\ kept'[r] = {}
      BY <1>f, <3>1
    <3>7. marked' = marked
      BY <1>s DEF store
    <3>8. DeleteOK(r)'
      BY <1>0, <1>e, <2>2, <3>1, <3>5, <3>6, <3>7 DEF DeleteOK
    <3>9. Alone(r)'
      BY <1>0, <3>6, <3>8 DEF Alone, Walking, Writing, Deleting
    <3> QED BY <1>s, <3>9
  <2> QED BY <1>11, <2>1, <2>2 DEF DecideDelete
<1>12. CASE IsEmpty(r)
  <2>1. CASE Answer(r, "refused")
    BY <1>s, <2>1, AnswerAlone
  <2>2. CASE Proceed(r, "found") /\ contains[t] = {}
    <3>1. pc[r] = "empty" /\ op' = op
      BY <1>12 DEF IsEmpty
    <3>2. marked' = marked /\ contains' = contains
      BY <1>s DEF store
    <3>3. DeleteOK(r)
      BY <3>1 DEF Alone, Deleting
    <3>4. DeleteOK(r)'
      BY <1>e, <1>f, <2>2, <3>1, <3>2, <3>3 DEF DeleteOK
    <3>5. Alone(r)'
      BY <1>f, <2>2, <3>4 DEF Alone, Walking, Writing, Deleting
    <3> QED BY <1>s, <3>5
  <2> QED BY <1>12, <2>1, <2>2 DEF IsEmpty
<1>13. CASE Found(r)
  <2>1. pc[r] = "found" /\ pc'[r] = "delete" /\ op' = op /\ kept' = kept
    BY <1>13, <1>t DEF Found, Goto
  <2>2. marked' = marked /\ contains' = contains
    BY <1>s DEF store
  <2>3. DeleteOK(r) /\ kept[r] = {}
    BY <2>1 DEF Alone, Deleting
  <2>4. DeleteOK(r)'
    BY <1>e, <2>1, <2>2, <2>3 DEF DeleteOK
  <2>5. Alone(r)'
    BY <2>1, <2>3, <2>4 DEF Alone, Walking, Writing, Deleting
  <2> QED BY <1>s, <2>5
<1>14. CASE Start(r)
  <2>1. PICK o \in Requests : op' = [op EXCEPT ![r] = o]
    BY <1>14 DEF Start
  <2>2. pc[r] = "idle" /\ pc'[r] = "markers" /\ kept' = kept
    BY <1>14, <1>t DEF Start, Goto, scratch
  <2>3. op'[r] = o /\ kept[r] = {}
    BY <1>t, <2>1, <2>2 DEF Alone
  <2>4. o.slug # Root \/ o.method # "POST"
    BY <2>1 DEF Requests, SubjectRequests, AclRequests
  <2>5. Alone(r)'
    BY <2>2, <2>3, <2>4 DEF Alone, Walking, Writing, Deleting
  <2> QED BY <1>s, <2>5
<1> QED BY <1>1, <1>2, <1>3, <1>4, <1>5, <1>6, <1>7, <1>8, <1>9, <1>10, <1>11, <1>12,
           <1>13, <1>14

-----------------------------------------------------------------------------
(* Steps that write *)

\* The tree may grow by a marker whose counterpart is not there and which, if it
\* is a document's, its parent lists, and by members below their parent.
LEMMA GrowthKeepsTree ==
  ASSUME IInv, Tree, NEW u \in Urls, present' = present \cup {u},
         \A c \in Containers : contains[c] \subseteq contains'[c],
         \A c \in Containers : \A v \in contains'[c] : v # Root /\ c = parent(v),
         u # Root => slash_counterpart(u) \notin present,
         ~u.slash => Linked(u)
  PROVE  Tree'
<1>t. present \subseteq Urls /\ NoUrl \notin Urls /\ Root \in Urls
  BY SpaceAssumption DEF IInv, TypeOK
<1>1. ASSUME NEW v \in present', v # Root PROVE slash_counterpart(v) \notin present'
  <2>1. v \in Urls /\ slash_counterpart(v) # v /\ slash_counterpart(slash_counterpart(v)) = v
    BY <1>t, <1>1, Counterparts
  <2>2. CASE v = u
    BY <1>1, <2>1, <2>2
  <2>3. CASE v # u
    <3>1. v \in present /\ slash_counterpart(v) \notin present
      BY <1>1, <2>3 DEF Tree, NoSlashPair
    <3>2. ASSUME slash_counterpart(v) = u PROVE FALSE
      <4>1. u # Root
        <5>1. ASSUME u = Root PROVE FALSE
          <6>1. v = slash_counterpart(Root)
            BY <2>1, <3>2, <5>1
          <6>2. slash_counterpart(Root) = [segs |-> Root.segs, slash |-> ~Root.slash]
            BY <1>t, Counterparts
          <6>3. slash_counterpart(Root) = NoUrl
            BY <6>2 DEF Root, NoUrl
          <6> QED BY <1>t, <2>1, <6>1, <6>3
        <5> QED BY <5>1
      <4>2. slash_counterpart(u) = v
        BY <2>1, <3>2
      <4> QED BY <3>1, <4>1, <4>2
    <3> QED BY <3>1, <3>2
  <2> QED BY <2>2, <2>3
<1>2. NoSlashPair'
  BY <1>1 DEF NoSlashPair
<1>3. ASSUME NEW v \in present', ~v.slash
      PROVE  parent(v) \in present' /\ v \in contains'[parent(v)]
  <2>1. parent(v) \in present /\ v \in contains[parent(v)]
    BY <1>3 DEF Tree, DocumentIsLinked, Linked
  <2>2. v \in Urls /\ v # Root
    BY <1>t, <1>3 DEF Root
  <2>3. parent(v) \in Containers
    BY <2>2, ChainEnds
  <2> QED BY <2>1, <2>3
<1>4. DocumentIsLinked'
  BY <1>3 DEF DocumentIsLinked
<1> QED BY <1>2, <1>4 DEF Tree

\* In particular by the marker alone.
LEMMA MarkerKeepsTree ==
  ASSUME IInv, Tree, NEW u \in Urls, present' = present \cup {u}, contains' = contains,
         u # Root => slash_counterpart(u) \notin present,
         ~u.slash => Linked(u)
  PROVE  Tree'
<1>1. \A c \in Containers : \A v \in contains'[c] : v # Root /\ c = parent(v)
  BY DEF Tree
<1>2. \A c \in Containers : contains[c] \subseteq contains'[c]
  OBVIOUS
<1> QED BY <1>1, <1>2, GrowthKeepsTree

\* The updates of the target's own graph.
LEMMA TargetWritesAlone ==
  ASSUME IInv, Sound, NEW r \in Reqs, Alone(r),
         \/ WriteResource(r) \/ ReplaceContainer(r) \/ TypeContainer(r) \/ PatchExisting(r)
  PROVE  Tree' /\ Alone(r)'
<1> DEFINE t == op[r].target
<1>0. op[r] \in Operation /\ t \in Urls /\ t.slash \in BOOLEAN /\ (t.slash => t \in Containers)
  BY OpTypes
<1>t. pc \in [Reqs -> Labels] /\ kept \in [Reqs -> SUBSET Urls]
      /\ contains \in [Containers -> SUBSET Urls]
  BY DEF IInv, TypeOK
<1>1. CASE WriteResource(r)
  <2>1. pc[r] = "write" /\ present' = present \cup {t} /\ contains' = contains /\ Answer(r, "ok")
    BY <1>1 DEF WriteResource
  <2>2. TargetOK(r) /\ pc[r] \notin Walking
    BY <2>1 DEF Alone, Writing, Walking
  <2>3. t # Root => slash_counterpart(t) \notin present
    BY <2>2 DEF TargetOK
  <2>4. ~t.slash => Linked(t)
    BY <2>2 DEF TargetOK
  <2>5. Tree'
    BY <1>0, <2>1, <2>3, <2>4, MarkerKeepsTree DEF Sound
  <2> QED BY <2>1, <2>5, AnswerAlone
<1>2. CASE ReplaceContainer(r)
  <2>1. /\ pc[r] = "replace" /\ pc'[r] = "type" /\ op' = op /\ present' = present \cup {t}
        /\ contains' = [contains EXCEPT ![t] = kept[r]]
    BY <1>2, <1>t DEF ReplaceContainer, Goto
  <2>2. TargetOK(r) /\ pc[r] \notin Walking /\ t \in Containers
    BY <2>1 DEF Alone, Writing, Walking, IInv, Fitting, Fits
  <2>3. t.slash
    BY <2>2 DEF Containers
  <2>4. contains[t] = kept[r] /\ (t # Root => slash_counterpart(t) \notin present)
    BY <2>1, <2>2, <2>3 DEF TargetOK
  <2>5. contains' = contains
    BY <1>t, <2>1, <2>4
  <2>6. Tree'
    BY <1>0, <2>1, <2>3, <2>4, <2>5, MarkerKeepsTree DEF Sound
  <2>7. t # Root => slash_counterpart(t) \notin present'
    BY <1>0, <2>1, <2>4, Counterparts
  <2>8. Alone(r)'
    BY <2>1, <2>7 DEF Alone, Walking, Writing, Deleting
  <2> QED BY <2>6, <2>8
<1>3. CASE TypeContainer(r)
  <2>1. /\ pc[r] = "type" /\ present' = present \cup {t} /\ contains' = contains
        /\ \E what : Answer(r, what)
    BY <1>3 DEF TypeContainer
  <2>2. t \in Containers /\ (t # Root => slash_counterpart(t) \notin present)
    BY <2>1 DEF Alone, IInv, Fitting, Fits
  <2>3. t.slash
    BY <2>2 DEF Containers
  <2>4. Tree'
    BY <1>0, <2>1, <2>2, <2>3, MarkerKeepsTree DEF Sound
  <2> QED BY <2>1, <2>4, AnswerAlone
<1>4. CASE PatchExisting(r)
  <2>1. pc[r] = "patch" /\ present' = present /\ contains' = contains /\ op' = op
    BY <1>4 DEF PatchExisting
  <2>2. Tree'
    BY <2>1, TreeStays DEF Sound
  <2>3. t \in present
    BY <2>1 DEF Alone
  <2>4. CASE \E what : Answer(r, what)
    BY <2>2, <2>4, AnswerAlone
  <2>5. CASE Goto(r, "type")
    <3>1. pc'[r] = "type"
      BY <1>t, <2>5 DEF Goto
    <3>2. t # Root => slash_counterpart(t) \notin present
      BY <2>3 DEF Sound, Tree, NoSlashPair
    <3>3. Alone(r)'
      BY <2>1, <3>1, <3>2 DEF Alone, Walking, Writing, Deleting
    <3> QED BY <2>2, <3>3
  <2> QED BY <1>4, <2>4, <2>5 DEF PatchExisting
<1> QED BY <1>1, <1>2, <1>3, <1>4

\* The updates of an ACL.
LEMMA AclWritesAlone ==
  ASSUME IInv, Sound, NEW r \in Reqs, Alone(r),
         WriteAcl(r) \/ PatchAcl(r) \/ DeleteAcl(r)
  PROVE  Tree' /\ Alone(r)'
<1>1. Tree'
  BY TreeStays DEF Sound, WriteAcl, PatchAcl, DeleteAcl
<1>2. CASE DeleteAcl(r)
  <2>1. \E what : Answer(r, what)
    BY <1>2 DEF DeleteAcl
  <2> QED BY <1>1, <2>1, AnswerAlone
<1>3. CASE WriteAcl(r) \/ PatchAcl(r)
  <2>1. pc[r] \in {"write_acl", "patch_acl"} /\ pc' = [pc EXCEPT ![r] = "confirm"] /\ kept' = kept
    BY <1>3 DEF WriteAcl, PatchAcl, Goto, scratch
  <2>2. kept[r] = {}
    BY <2>1 DEF Alone
  <2>3. pc'[r] \in Plain
    BY <2>1 DEF IInv, TypeOK, Plain, Labels, Walking, Writing, Deleting
  <2>4. Alone(r)'
    BY <2>1, <2>2, <2>3, PlainAlone
  <2> QED BY <1>1, <2>4
<1> QED BY <1>2, <1>3

\* The cascade takes no document's container: it was asked for its members.
LEMMA DeleteAlone ==
  ASSUME IInv, Sound, NEW r \in Reqs, Alone(r), DeleteSubject(r)
  PROVE  Tree' /\ Alone(r)'
<1> DEFINE t == op[r].target
<1>0. t \in Urls /\ t.slash \in BOOLEAN /\ (t.slash => t \in Containers)
  BY OpTypes
<1>1. /\ pc[r] = "delete" /\ present' = present \ {t} /\ contains' = Unlinked(t)
      /\ \E what : Answer(r, what)
  BY DEF DeleteSubject
<1>2. t # Root /\ (t.slash => contains[t] = {})
  BY <1>1 DEF Alone, Deleting, DeleteOK
<1>3. \A c \in Containers : contains'[c] \subseteq contains[c]
  BY <1>1 DEF Unlinked
<1>4. NoSlashPair'
  BY <1>1 DEF Sound, Tree, NoSlashPair
<1>5. ASSUME NEW u \in present', ~u.slash
      PROVE  parent(u) \in present' /\ u \in contains'[parent(u)]
  <2>1. u \in present /\ u # t /\ u \in Urls
    BY <1>1 DEF IInv, TypeOK
  <2>2. parent(u) \in present /\ u \in contains[parent(u)]
    BY <1>5, <2>1 DEF Sound, Tree, DocumentIsLinked
  <2>3. parent(u) \in Containers /\ parent(u).slash
    <3>1. u # Root
      BY <1>5 DEF Root
    <3> QED BY <2>1, <3>1, ChainEnds DEF Containers
  <2>4. parent(u) # t
    BY <1>2, <2>2, <2>3
  <2> QED BY <1>1, <2>1, <2>2, <2>3, <2>4 DEF Unlinked
<1>6. DocumentIsLinked'
  BY <1>5 DEF DocumentIsLinked
<1>7. Tree'
  BY <1>1, <1>2, <1>3, <1>4, <1>6 DEF Sound, Tree
<1> QED BY <1>1, <1>7, AnswerAlone

-----------------------------------------------------------------------------
(* The walk *)

\* The step a walk is at, and the ones after it.
LEMMA WalkFacts ==
  ASSUME IInv, NEW r \in Reqs, pc[r] \in Walking
  PROVE  /\ plan[r] \in Seq(PlanStep) /\ Len(plan[r]) \in Nat /\ Len(plan[r]) >= 1
         /\ DOMAIN plan[r] = 1..Len(plan[r])
         /\ Head(plan[r]) = plan[r][1]
         /\ Tail(plan[r]) \in Seq(PlanStep)
         /\ DOMAIN Tail(plan[r]) = 1..(Len(plan[r]) - 1)
         /\ \A i \in 1..(Len(plan[r]) - 1) : Tail(plan[r])[i] = plan[r][i + 1]
<1>1. plan[r] \in Seq(PlanStep) /\ plan[r] # <<>>
  BY DEF IInv, TypeOK, Fitting, Fits, Walking
<1>2. Len(plan[r]) \in Nat /\ Len(plan[r]) # 0
  BY <1>1, EmptySeq, LenProperties
<1> DEFINE p == plan[r]
<1>3. /\ DOMAIN p = 1..Len(p) /\ Head(p) = p[1] /\ Tail(p) \in Seq(PlanStep)
      /\ DOMAIN Tail(p) = 1..(Len(p) - 1)
      /\ \A i \in 1..(Len(p) - 1) : Tail(p)[i] = p[i + 1]
  BY <1>1, <1>2
<1> QED BY <1>1, <1>2, <1>3

\* The container the walk is at is above the target, makes no slash pair and
\* allows the agent to append.
LEMMA WalkHead ==
  ASSUME IInv, NEW r \in Reqs, pc[r] \in Walking, Alone(r)
  PROVE  LET t == op[r].target
             s == Head(plan[r])
         IN /\ WalkOK(r) /\ kept[r] = {}
            /\ s.at \in Above(t) /\ s.at \in Containers /\ s.at \in Urls /\ s.at.slash
            /\ s.at # t /\ s.at # slash_counterpart(t)
            /\ s.at # Root => slash_counterpart(s.at) \notin present
            /\ s.child # NoUrl => s.child # Root /\ s.at = parent(s.child)
            /\ allows(Effective(op[r].agent, s.at), "Append")
<1>1. WalkOK(r) /\ kept[r] = {}
  BY DEF Alone, Walking
<1>2. Head(plan[r]) = plan[r][1] /\ 1 \in DOMAIN plan[r]
  BY WalkFacts
<1>3. op[r].target \in Urls
  BY OpTypes
<1> DEFINE s == plan[r][1]
<1>4. /\ s.at \in Above(op[r].target)
      /\ s.at # Root => slash_counterpart(s.at) \notin present
      /\ s.child # NoUrl => s.child # Root /\ s.at = parent(s.child)
      /\ allows(Effective(op[r].agent, s.at), "Append")
  BY <1>1, <1>2 DEF WalkOK
<1>5. /\ s.at \in Containers /\ s.at \in Urls /\ s.at.slash
      /\ s.at # op[r].target /\ s.at # slash_counterpart(op[r].target)
  BY <1>3, <1>4, AboveIsOther
<1> HIDE DEF s
<1> QED BY <1>1, <1>2, <1>4, <1>5 DEF s

\* What is left of the walk is as it was: a new container is no counterpart of
\* another and has no policy.
LEMMA WalkStays ==
  ASSUME IInv, NEW r \in Reqs, pc[r] \in Walking, Alone(r),
         op' = op, marked' = marked, doc' = doc,
         present' = present \cup {Head(plan[r]).at},
         plan' = plan \/ plan' = [plan EXCEPT ![r] = Tail(plan[r])]
  PROVE  WalkOK(r)'
<1> DEFINE a == Head(plan[r]).at
<1>1. WalkOK(r) /\ a \in Containers
  BY WalkHead
<1>2. ASSUME NEW i \in DOMAIN plan'[r]
      PROVE  \E j \in DOMAIN plan[r] : plan'[r][i] = plan[r][j]
  <2>1. CASE plan' = plan
    BY <2>1
  <2>2. CASE plan' = [plan EXCEPT ![r] = Tail(plan[r])]
    <3>1. plan'[r] = Tail(plan[r])
      BY <2>2 DEF IInv, TypeOK
    <3>2. i \in 1..(Len(plan[r]) - 1) /\ Tail(plan[r])[i] = plan[r][i + 1]
      BY <1>2, <3>1, WalkFacts
    <3>3. i + 1 \in DOMAIN plan[r]
      BY <3>2, WalkFacts
    <3> QED BY <3>1, <3>2, <3>3
  <2> QED BY <2>1, <2>2
<1>3. ASSUME NEW st, \E j \in DOMAIN plan[r] : st = plan[r][j]
      PROVE  /\ st.at \in Above(op[r].target)
             /\ st.child # NoUrl => st.child # Root /\ st.at = parent(st.child)
             /\ st.at # Root => slash_counterpart(st.at) \notin present'
             /\ allows(Effective(op[r].agent, st.at)', "Append")
  <2>1. /\ st.at \in Above(op[r].target)
        /\ st.child # NoUrl => st.child # Root /\ st.at = parent(st.child)
        /\ st.at # Root => slash_counterpart(st.at) \notin present
        /\ allows(Effective(op[r].agent, st.at), "Append")
    BY <1>1, <1>3 DEF WalkOK
  <2>2. st.at \in Urls /\ st.at.slash
    BY <2>1, AboveIsOther, OpTypes
  <2>3. slash_counterpart(st.at) # a
    BY <1>1, <2>2, CounterpartOfContainer
  <2>4. Effective(op[r].agent, st.at)' = Effective(op[r].agent, st.at)
    BY DEF Effective
  <2>5. st.at # Root => slash_counterpart(st.at) \notin present'
    BY <2>1, <2>3
  <2> QED BY <2>1, <2>4, <2>5
<1> HIDE DEF a
<1> QED BY <1>2, <1>3 DEF WalkOK

\* The label after a walk says what is to be written.
LEMMA WriteLabelCases ==
  ASSUME NEW o \in Operation
  PROVE  /\ WriteLabel(o) \in {"write_acl", "write", "members", "replace"}
         /\ WriteLabel(o) = "write_acl" <=> IsAux(o)
         /\ WriteLabel(o) = "write" => ~o.target.slash
         /\ WriteLabel(o) = "replace" => o.method # "PUT"
<1>1. o.target.slash \in BOOLEAN
  BY UrlShape DEF Operation
<1>2. CASE IsAux(o)
  BY <1>2 DEF WriteLabel
<1>3. CASE ~IsAux(o) /\ ~o.target.slash
  BY <1>3 DEF WriteLabel
<1>4. CASE ~IsAux(o) /\ o.target.slash /\ o.method = "PUT"
  BY <1>4 DEF WriteLabel
<1>5. CASE ~IsAux(o) /\ o.target.slash /\ o.method # "PUT"
  BY <1>5 DEF WriteLabel
<1> QED BY <1>1, <1>2, <1>3, <1>4, <1>5

\* The walk goes on, or ends in a write whose target is still as it was.
LEMMA AdvanceAlone ==
  ASSUME IInv, NEW r \in Reqs, pc[r] \in Walking, Alone(r), Advance(r),
         op' = op, kept' = kept, marked' = marked, doc' = doc,
         present' = present \cup {Head(plan[r]).at},
         op[r].target.slash => contains'[op[r].target] = contains[op[r].target],
         ~IsAux(op[r]) /\ ~op[r].target.slash =>
           parent(op[r].target) \in present' /\ op[r].target \in contains'[parent(op[r].target)]
  PROVE  Alone(r)'
<1> DEFINE t == op[r].target
           a == Head(plan[r]).at
           l == IF Len(plan[r]) = 1 THEN WriteLabel(op[r]) ELSE "ensure"
<1>1. op[r] \in Operation /\ t \in Urls /\ t.slash \in BOOLEAN
  BY OpTypes
<1>2. pc'[r] = l /\ plan' = [plan EXCEPT ![r] = Tail(plan[r])]
  BY DEF Advance, Goto, IInv, TypeOK
<1>3. kept[r] = {} /\ a # t /\ a # slash_counterpart(t)
  BY WalkHead
<1>4. WalkOK(r)'
  BY <1>2, WalkStays
<1>5. ASSUME ~IsAux(op[r]) PROVE TargetOK(r)'
  <2>1. TargetOK(r)
    BY <1>5 DEF Alone
  <2>2. /\ t # Root => slash_counterpart(t) \notin present'
        /\ op[r].method = "POST" => t \notin present'
    BY <1>3, <2>1 DEF TargetOK
  <2>3. ~t.slash => Linked(t)'
    BY <1>5 DEF Linked
  <2>4. ASSUME t.slash, pc'[r] \in Walking => op[r].method # "PUT", pc'[r] # "members"
        PROVE  contains'[t] = kept'[r]
    <3>1. pc[r] # "members" /\ op[r].method # "PUT"
      BY <1>1, <1>2, <1>5, <2>4, WriteLabelCases DEF Walking
    <3> QED BY <2>1, <2>4, <3>1 DEF TargetOK
  <2> HIDE DEF l, a, t
  <2> QED BY <2>2, <2>3, <2>4 DEF TargetOK, t
<1>6. CASE l = "ensure"
  <2>1. pc'[r] = "ensure"
    BY <1>2, <1>6
  <2>2. IsAux(op[r])' <=> IsAux(op[r])
    BY DEF IsAux
  <2> QED BY <1>3, <1>4, <1>5, <2>1, <2>2 DEF Alone, Walking, Writing, Deleting
<1>7. CASE l # "ensure"
  <2>1. l = WriteLabel(op[r])
    BY <1>7
  <2>2. l = "write_acl" \/ (l \in Writing /\ ~IsAux(op[r]))
    BY <1>1, <2>1, WriteLabelCases DEF Writing
  <2>3. CASE l = "write_acl"
    BY <1>2, <1>3, <2>3 DEF Alone, Walking, Writing, Deleting
  <2>4. CASE l \in Writing /\ ~IsAux(op[r])
    BY <1>2, <1>3, <1>5, <2>4 DEF Alone, Walking, Writing, Deleting
  <2> QED BY <2>2, <2>3, <2>4
<1> QED BY <1>6, <1>7

\* A target on the way of a walk that records it is listed when its step is done.
LEMMA TargetInWalk ==
  ASSUME IInv, NEW r \in Reqs, pc[r] \in Walking, Alone(r), ~IsAux(op[r]), ~op[r].target.slash
  PROVE  Linked(op[r].target) \/ Head(plan[r]) = FirstStep(op[r].target)
<1>1. TargetOK(r)
  BY DEF Alone
<1> QED BY <1>1 DEF TargetOK

\* ensure_container on an ancestor.
LEMMA EnsureAlone ==
  ASSUME IInv, Sound, NEW r \in Reqs, Alone(r), EnsureAncestor(r)
  PROVE  Tree' /\ Alone(r)'
<1> DEFINE t == op[r].target
           a == Head(plan[r]).at
<1>1. /\ pc[r] = "ensure" /\ pc[r] \in Walking /\ present' = present \cup {a}
      /\ contains' = contains /\ marked' = marked /\ doc' = doc
      /\ op' = op /\ kept' = kept
  BY DEF EnsureAncestor, Walking
<1>2. /\ a \in Urls /\ a.slash /\ a # t /\ a # slash_counterpart(t) /\ kept[r] = {}
      /\ a # Root => slash_counterpart(a) \notin present
  BY <1>1, WalkHead
<1>3. Tree'
  BY <1>1, <1>2, MarkerKeepsTree DEF Sound
<1>4. CASE Head(plan[r]).child = NoUrl
  <2>1. Advance(r)
    BY <1>4 DEF EnsureAncestor
  <2>2. ASSUME ~IsAux(op[r]), ~t.slash PROVE Linked(t)
    <3>1. FirstStep(t).child = t /\ t # NoUrl
      BY OpTypes, UrlShape DEF FirstStep
    <3> QED BY <1>1, <1>4, <2>2, <3>1, TargetInWalk
  <2>3. Alone(r)'
    BY <1>1, <2>1, <2>2, AdvanceAlone DEF Linked
  <2> QED BY <1>3, <2>3
<1>5. CASE Head(plan[r]).child # NoUrl
  <2>1. pc'[r] = "link" /\ plan' = plan
    BY <1>5 DEF EnsureAncestor, Goto, IInv, TypeOK
  <2>2. WalkOK(r)'
    BY <1>1, <2>1, WalkStays
  <2>3. ASSUME ~IsAux(op[r]) PROVE TargetOK(r)'
    <3>1. TargetOK(r)
      BY <1>1, <2>3 DEF Alone
    <3>2. /\ t # Root => slash_counterpart(t) \notin present'
          /\ op[r].method = "POST" => t \notin present'
      BY <1>1, <1>2, <3>1 DEF TargetOK
    <3>3. Linked(t) => Linked(t)'
      BY <1>1 DEF Linked
    <3>4. ~t.slash => Linked(t)' \/ Head(plan'[r]) = FirstStep(t)
      BY <1>1, <2>1, <3>1, <3>3 DEF TargetOK
    <3>5. t.slash /\ op[r].method # "PUT" => contains'[t] = kept'[r]
      BY <1>1, <3>1 DEF TargetOK
    <3>6. FirstStep(t)' = FirstStep(t) /\ pc'[r] \in Walking
      BY <1>1, <2>1 DEF FirstStep, Walking
    <3> HIDE DEF t, a
    <3> QED BY <1>1, <2>1, <3>2, <3>4, <3>5, <3>6 DEF TargetOK, t
  <2>4. IsAux(op[r])' <=> IsAux(op[r])
    BY <1>1 DEF IsAux
  <2>5. Alone(r)'
    BY <1>1, <1>2, <2>1, <2>2, <2>3, <2>4 DEF Alone, Walking, Writing, Deleting
  <2> QED BY <1>3, <2>5
<1> QED BY <1>4, <1>5

\* add_containment.
LEMMA LinkAlone ==
  ASSUME IInv, Sound, NEW r \in Reqs, Alone(r), LinkChild(r)
  PROVE  Tree' /\ Alone(r)'
<1> DEFINE t == op[r].target
           a == Head(plan[r]).at
           c == Head(plan[r]).child
<1>1. /\ pc[r] = "link" /\ pc[r] \in Walking /\ present' = present \cup {a}
      /\ contains' = [contains EXCEPT ![a] = @ \cup {c}] /\ marked' = marked /\ doc' = doc
      /\ op' = op /\ kept' = kept /\ Advance(r)
  BY DEF LinkChild, Walking
<1>2. /\ a \in Containers /\ a \in Urls /\ a.slash /\ a # t /\ kept[r] = {}
      /\ a # Root => slash_counterpart(a) \notin present
      /\ c # NoUrl => c # Root /\ a = parent(c)
  BY <1>1, WalkHead
<1>3. c \in Urls /\ c # NoUrl
  BY <1>1, SpaceAssumption DEF IInv, Fitting, Fits
<1>4. \A d \in Containers : contains'[d] = IF d = a THEN contains[d] \cup {c} ELSE contains[d]
  BY <1>1 DEF IInv, TypeOK
<1>5. Tree'
  <2>1. \A d \in Containers : contains[d] \subseteq contains'[d]
    BY <1>4
  <2>2. ASSUME NEW d \in Containers, NEW v \in contains'[d]
        PROVE  v # Root /\ d = parent(v)
    <3>1. v \in contains[d] \/ (d = a /\ v = c)
      BY <1>4
    <3>2. v \in contains[d] => v # Root /\ d = parent(v)
      BY DEF Sound, Tree
    <3> QED BY <1>2, <1>3, <3>1, <3>2
  <2> HIDE DEF a, c
  <2> QED BY <1>1, <1>2, <2>1, <2>2, GrowthKeepsTree DEF Sound
<1>6. ASSUME ~IsAux(op[r]), ~t.slash
      PROVE  parent(t) \in present' /\ t \in contains'[parent(t)]
  <2>1. parent(t) \in Containers
    <3>1. t \in Urls /\ t # Root
      BY <1>6, OpTypes DEF Root
    <3> QED BY <3>1, ChainEnds
  <2>2. CASE Linked(t)
    BY <1>1, <1>4, <2>1, <2>2 DEF Linked
  <2>3. CASE Head(plan[r]) = FirstStep(t)
    <3>1. a = parent(t) /\ c = t
      BY <2>3 DEF FirstStep
    <3> QED BY <1>1, <1>4, <2>1, <3>1
  <2> QED BY <1>1, <1>6, <2>2, <2>3, TargetInWalk
<1>7. t.slash => contains'[t] = contains[t]
  BY <1>2, <1>4, OpTypes
<1>8. Alone(r)'
  BY <1>1, <1>6, <1>7, AdvanceAlone
<1> QED BY <1>5, <1>8

-----------------------------------------------------------------------------
(* materialize *)

\* The walk has no step exactly when there is nothing to record and the nearest
\* ancestor is there; it ends at one that is there, or at the root.
LEMMA LevelsFacts ==
  ASSUME NEW o \in Operation, NEW seen
  PROVE  /\ Levels(o, seen) \in 0..Len(o.target.segs) /\ Len(o.target.segs) \in Nat
         /\ Levels(o, seen) = 0 =>
              o.target = Root \/ (~IsMember(o, seen) /\ parent(o.target) \in seen.present)
         /\ Levels(o, seen) # 0 =>
              /\ o.target # Root /\ Levels(o, seen) \in 1..Len(o.target.segs)
              /\ ancestors(o.target)[Levels(o, seen)] \in seen.present \cup {Root}
<1> DEFINE t == o.target
           n == Len(t.segs)
           anc == ancestors(t)
           there == {i \in DOMAIN anc : anc[i] \in seen.present}
           stop == IF there = {} THEN Len(anc)
                   ELSE CHOOSE i \in there : \A j \in there : i <= j
           L == Levels(o, seen)
<1>1. t \in Urls
  BY DEF Operation
<1>2. L \in 0..n /\ n \in Nat
  BY <1>1, LevelsBounded, UrlShape
<1>3. Len(anc) = n /\ DOMAIN anc = 1..n
  BY <1>1, AncestorsAreContainers
<1>4. L = IF 1 \in there /\ ~IsMember(o, seen) THEN 0 ELSE stop
  BY DEF Levels
<1>5. there # {} => stop \in there
  <2>1. there \subseteq Nat
    BY <1>3
  <2>2. there # {} => \E i \in there : \A j \in there : i <= j
    BY <2>1, LeastExists
  <2> QED BY <2>2
<1>6. there = {} => stop = n
  BY <1>3
<1>7. \A i \in there : i \in 1..n /\ anc[i] \in seen.present
  BY <1>3
<1>8. t = Root => n = 0
  BY EmptySeq DEF Root
<1>9. t # Root => n >= 1 /\ anc[n] = Root /\ parent(t) = anc[1]
  BY <1>1, ChainEnds
<1> HIDE DEF t, n, anc, there, stop, L
<1>10. L = 0 => t = Root \/ (~IsMember(o, seen) /\ parent(t) \in seen.present)
  <2>1. ASSUME L = 0, t # Root PROVE 1 \in there /\ ~IsMember(o, seen)
    <3>1. ASSUME stop = 0 PROVE FALSE
      <4>1. CASE there = {}
        BY <1>2, <1>6, <1>9, <2>1, <3>1, <4>1
      <4>2. CASE there # {}
        BY <1>2, <1>5, <1>7, <3>1, <4>2
      <4> QED BY <4>1, <4>2
    <3> QED BY <1>4, <2>1, <3>1
  <2> QED BY <1>7, <1>9, <2>1
<1>11. L # 0 => t # Root /\ L \in 1..n /\ anc[L] \in seen.present \cup {Root}
  <2>1. ASSUME L # 0 PROVE t # Root /\ L \in 1..n /\ L = stop
    BY <1>2, <1>4, <1>8, <2>1
  <2>2. ASSUME L # 0 PROVE anc[L] \in seen.present \cup {Root}
    <3>1. CASE there = {}
      BY <1>6, <1>9, <2>1, <2>2, <3>1
    <3>2. CASE there # {}
      BY <1>5, <1>7, <2>1, <2>2, <3>2
    <3> QED BY <3>1, <3>2
  <2> QED BY <2>1, <2>2
<1> QED BY <1>2, <1>10, <1>11 DEF t, n, anc, L

\* What the probe of t looks at.
LEMMA ProbedFacts ==
  ASSUME NEW t \in Urls, NEW u \in ChainSet(t)
  PROVE  /\ u \in Probed(t)
         /\ u # Root => slash_counterpart(u) \in Probed(t)
BY DEF Probed

\* Nothing the write needs makes a slash pair: it is there already, or it is
\* among the creations the guard checked.
LEMMA NoPairToCome ==
  ASSUME IInv, Sound, NEW r \in Reqs, snap[r] = Probe(op[r].target),
         ~SlashPair(op[r], snap[r]), NEW u \in Urls \ {Root},
         \/ u = op[r].target /\ ~IsAux(op[r])
         \/ \E i \in 1..Levels(op[r], snap[r]) : u = ancestors(op[r].target)[i]
  PROVE  slash_counterpart(u) \notin present
<1> DEFINE t == op[r].target
<1>0. t \in Urls /\ op[r] \in Operation
  BY OpTypes
<1>1. snap[r].present = present \cap Probed(t)
  BY DEF Probe
<1>2. u \in ChainSet(t)
  BY <1>0, LevelsFacts DEF ChainSet
<1>3. u \in Probed(t) /\ slash_counterpart(u) \in Probed(t)
  BY <1>0, <1>2, ProbedFacts
<1>4. CASE u \in present
  BY <1>4 DEF Sound, Tree, NoSlashPair
<1>5. CASE u \notin present
  <2>1. u \notin snap[r].present
    BY <1>1, <1>5
  <2>2. u \in Creations(op[r], snap[r])
    BY <2>1 DEF Creations, IsMember
  <2>3. slash_counterpart(u) \notin snap[r].present
    BY <2>2 DEF SlashPair
  <2> QED BY <1>1, <1>3, <2>3
<1> QED BY <1>4, <1>5

\* The walk the guard has just decided on.
LEMMA MaterializeWalk ==
  ASSUME IInv, Sound, NEW r \in Reqs, snap[r] = Probe(op[r].target), Materializable(r),
         NEW i \in 1..Levels(op[r], snap[r])
  PROVE  LET s == Plan(op[r], snap[r])[i]
         IN /\ s.at \in Above(op[r].target)
            /\ s.child # NoUrl => s.child # Root /\ s.at = parent(s.child)
            /\ s.at # Root => slash_counterpart(s.at) \notin present
            /\ allows(Effective(op[r].agent, s.at), "Append")
<1> DEFINE t == op[r].target
           n == Len(t.segs)
           L == Levels(op[r], snap[r])
           s == Plan(op[r], snap[r])[i]
<1>0. t \in Urls /\ op[r] \in Operation
  BY OpTypes
<1>1. L \in 0..n /\ n \in Nat /\ L # 0 /\ t # Root
  <2>1. L \in 0..n /\ n \in Nat
    BY <1>0, LevelsFacts
  <2>2. L # 0
    BY <2>1
  <2> QED BY <1>0, <2>1, <2>2, LevelsFacts
<1>2. i \in 1..n /\ i \in Nat
  BY <1>1
<1>3. /\ s.at = ancestors(t)[i]
      /\ s.child = IF i > 1 THEN ancestors(t)[i - 1]
                   ELSE IF IsMember(op[r], snap[r]) THEN t ELSE NoUrl
  BY DEF Plan
<1> HIDE DEF s
<1>4. s.at \in Urls /\ s.at \in Above(t)
  BY <1>0, <1>2, <1>3, AncestorFacts DEF Above
<1>5. ASSUME s.child # NoUrl PROVE s.child # Root /\ s.at = parent(s.child)
  <2>1. CASE i > 1
    <3>1. /\ ancestors(t)[i - 1] # Root
          /\ ancestors(t)[i] = parent(ancestors(t)[i - 1])
      BY <1>0, <1>2, <2>1, ParentOfAncestor
    <3> QED BY <1>3, <2>1, <3>1
  <2>2. CASE ~(i > 1)
    <3>1. i = 1 /\ s.child = t
      BY <1>2, <1>3, <1>5, <2>2
    <3>2. parent(t) = ancestors(t)[1]
      BY <1>0, <1>1, ChainEnds
    <3> QED BY <1>1, <1>3, <3>1, <3>2
  <2> QED BY <2>1, <2>2
<1>6. s.at # Root => slash_counterpart(s.at) \notin present
  <2>1. ~SlashPair(op[r], snap[r])
    BY DEF Materializable
  <2> QED BY <1>3, <1>4, <2>1, NoPairToCome
<1>7. allows(Effective(op[r].agent, s.at), "Append")
  <2>1. allows(Held(r, i + 1), "Append")
    BY DEF Materializable, AncestorsAllow
  <2>2. i \in 0..n
    BY <1>2
  <2>3. Held(r, i + 1) = Effective(op[r].agent, Chain(t)[i + 1])
    BY <2>2, HeldIsEffective
  <2>4. Chain(t)[i + 1] = ancestors(t)[i]
    BY <1>0, <1>2, ChainShape
  <2> HIDE DEF t
  <2> QED BY <1>3, <2>1, <2>3, <2>4
<1> QED BY <1>4, <1>5, <1>6, <1>7 DEF s

\* The guard lets through a walk and a write the store is ready for.
LEMMA MaterializeAlone ==
  ASSUME IInv, Sound, NEW r \in Reqs, Alone(r), Materialize(r)
  PROVE  UNCHANGED store /\ Alone(r)'
<1> DEFINE t == op[r].target
           L == Levels(op[r], snap[r])
<1>s. UNCHANGED store /\ op' = op
  BY DEF Materialize
<1>u. present' = present /\ contains' = contains /\ marked' = marked /\ doc' = doc
  BY <1>s DEF store
<1>1. CASE Answer(r, "denied")
  BY <1>s, <1>1, AnswerAlone
<1>2. CASE Materializable(r)
  <2>0. t \in Urls /\ op[r] \in Operation /\ t.slash \in BOOLEAN /\ (t.slash => t \in Containers)
    BY OpTypes
  <2>1. /\ pc[r] \in {"acls", "child_acls"} /\ kept' = kept
        /\ plan' = [plan EXCEPT ![r] = Plan(op[r], snap[r])]
        /\ pc' = [pc EXCEPT ![r] = IF L = 0 THEN WriteLabel(op[r]) ELSE "ensure"]
    BY <1>2 DEF Materialize, Creating, Goto
  <2>2. /\ plan'[r] = Plan(op[r], snap[r])
        /\ pc'[r] = IF L = 0 THEN WriteLabel(op[r]) ELSE "ensure"
    BY <2>1 DEF IInv, TypeOK
  <2>3. snap[r] = Probe(t) /\ kept[r] = {}
    BY <2>1 DEF Alone
  <2>4. L \in Nat /\ Len(plan'[r]) = L /\ DOMAIN plan'[r] = 1..L
    <3>1. /\ Plan(op[r], snap[r]) \in Seq(PlanStep) /\ Len(Plan(op[r], snap[r])) = L
          /\ L \in Nat
      BY <2>0, PlanIsPlan
    <3> QED BY <2>2, <3>1
  <2>5. \A a, u : Effective(a, u)' = Effective(a, u)
    BY <1>u DEF Effective
  <2>6. WalkOK(r)'
    <3>1. ASSUME NEW i \in 1..L, NEW s, s = plan'[r][i]
          PROVE  /\ s.at \in Above(t)
                 /\ s.child # NoUrl => s.child # Root /\ s.at = parent(s.child)
                 /\ s.at # Root => slash_counterpart(s.at) \notin present
                 /\ allows(Effective(op[r].agent, s.at), "Append")
      BY <1>2, <2>2, <2>3, <3>1, MaterializeWalk
    <3>2. ASSUME NEW i \in 1..L, NEW s, s = plan'[r][i]
          PROVE  allows(Effective(op[r].agent, s.at)', "Append")
      BY <1>s, <2>5, <3>1, <3>2
    <3> HIDE DEF L
    <3> QED BY <1>s, <1>u, <2>4, <3>1, <3>2 DEF WalkOK
  <2>7. t \in snap[r].present <=> t \in present
    BY <2>0, <2>3 DEF Probe, Probed, ChainSet
  <2>8. ASSUME ~IsAux(op[r]) PROVE TargetOK(r)'
    <3>1. t # Root => slash_counterpart(t) \notin present
      <4>1. ~SlashPair(op[r], snap[r])
        BY <1>2 DEF Materializable
      <4> QED BY <2>0, <2>3, <2>8, <4>1, NoPairToCome
    <3>2. \/ op[r].method = "PUT"
          \/ op[r].method \in {"PATCH", "POST"} /\ t \notin present
      <4>1. CASE pc[r] = "acls"
        <5>1. \/ op[r].method \in {"PUT", "PUT_acl"}
              \/ op[r].method = "PATCH" /\ t \notin snap[r].present
          BY <4>1 DEF Materialize, Creating
        <5> QED BY <2>7, <2>8, <5>1 DEF IsAux, AuxMethods
      <4>2. CASE pc[r] = "child_acls"
        <5>1. op[r].method = "POST" /\ (op[r].slug # t => t \notin present)
          BY <4>2 DEF Alone
        <5>2. op[r].slug = t => t \notin snap[r].present
          BY <4>2 DEF Materialize, IsTaken
        <5> QED BY <2>7, <5>1, <5>2
      <4> QED BY <2>1, <4>1, <4>2
    <3>3. ASSUME ~t.slash
          PROVE  Linked(t) \/ (pc'[r] = "ensure" /\ Head(plan'[r]) = FirstStep(t))
      <4>1. CASE t \in present
        BY <3>3, <4>1 DEF Sound, Tree, DocumentIsLinked, Linked
      <4>2. CASE t \notin present
        <5>1. t # Root /\ IsMember(op[r], snap[r])
          BY <2>7, <2>8, <3>3, <4>2 DEF Root, IsMember
        <5>2. L # 0
          BY <2>0, <5>1, LevelsFacts
        <5>3. 1 \in 1..L /\ ~(1 > 1)
          BY <2>4, <5>2
        <5>4. plan'[r][1] = [at |-> ancestors(t)[1], child |-> t]
          BY <2>2, <5>1, <5>3 DEF Plan
        <5>5. plan'[r][1] = FirstStep(t)
          BY <2>0, <5>1, <5>4, ChainEnds DEF FirstStep
        <5>6. Head(plan'[r]) = plan'[r][1]
          OBVIOUS
        <5> QED BY <2>2, <5>2, <5>5, <5>6
      <4> QED BY <4>1, <4>2
    <3>4. ASSUME t.slash, pc'[r] \in Walking => op[r].method # "PUT", pc'[r] # "members"
          PROVE  contains[t] = {}
      <4>1. CASE op[r].method = "PUT"
        <5>1. pc'[r] = WriteLabel(op[r])
          BY <2>2, <3>4, <4>1 DEF Walking
        <5> QED BY <2>0, <2>8, <3>4, <4>1, <5>1, WriteLabelCases
      <4>2. CASE op[r].method # "PUT"
        BY <2>0, <3>2, <3>4, <4>2 DEF Sound, MembersHaveMarker
      <4> QED BY <4>1, <4>2
    <3>5. FirstStep(t)' = FirstStep(t) /\ (Linked(t) => Linked(t)') /\ kept'[r] = {}
      BY <1>s, <1>u, <2>1, <2>3 DEF FirstStep, Linked
    <3>6. pc'[r] = "ensure" => pc'[r] \in Walking
      BY DEF Walking
    <3> HIDE DEF t, L
    <3>7. op[r].method = "POST" => t \notin present
      BY <3>2
    <3> QED BY <1>s, <1>u, <3>1, <3>3, <3>4, <3>5, <3>6, <3>7 DEF TargetOK, t
  <2>9. IsAux(op[r])' <=> IsAux(op[r])
    BY <1>s DEF IsAux
  <2>10. CASE L # 0
    <3>1. pc'[r] = "ensure" /\ kept'[r] = {}
      BY <2>1, <2>2, <2>3, <2>10
    <3>2. Alone(r)'
      BY <2>6, <2>8, <2>9, <3>1 DEF Alone, Walking, Writing, Deleting
    <3> QED BY <1>s, <3>2
  <2>11. CASE L = 0
    <3>1. pc'[r] = WriteLabel(op[r]) /\ kept'[r] = {}
      BY <2>1, <2>2, <2>3, <2>11
    <3>2. pc'[r] = "write_acl" \/ (pc'[r] \in Writing /\ ~IsAux(op[r]))
      BY <2>0, <3>1, WriteLabelCases DEF Writing
    <3>3. CASE pc'[r] = "write_acl"
      BY <1>s, <3>1, <3>3 DEF Alone, Walking, Writing, Deleting
    <3>4. CASE pc'[r] \in Writing /\ ~IsAux(op[r])
      BY <1>s, <2>8, <3>1, <3>4 DEF Alone, Walking, Writing, Deleting
    <3> QED BY <3>2, <3>3, <3>4
  <2> QED BY <2>10, <2>11
<1> QED BY <1>1, <1>2 DEF Materialize

-----------------------------------------------------------------------------
(* One request at a time *)

\* A step of a request moves no other.
LEMMA OthersStay ==
  ASSUME IInv, NEW r \in Reqs, Start(r) \/ Step(r) \/ Fail(r), NEW q \in Reqs, q # r
  PROVE  pc'[q] = pc[q] /\ kept'[q] = kept[q]
<1>t. pc \in [Reqs -> Labels] /\ kept \in [Reqs -> SUBSET Urls]
  BY DEF IInv, TypeOK
<1>g. ASSUME NEW l, Goto(r, l) PROVE pc'[q] = pc[q]
  BY <1>t, <1>g DEF Goto
<1>b. ASSUME Blank(r) PROVE kept'[q] = kept[q]
  BY <1>t, <1>b DEF Blank
<1>a. ASSUME (\E l : Proceed(r, l)) \/ (\E w : Answer(r, w)) \/ Forget(r)
      PROVE  pc'[q] = pc[q] /\ kept'[q] = kept[q]
  BY <1>a, <1>g, <1>b DEF Proceed, Answer, Forget
<1>k. ASSUME NEW l, Goto(r, l), kept' = kept PROVE pc'[q] = pc[q] /\ kept'[q] = kept[q]
  BY <1>k, <1>g
<1>1. CASE Start(r) \/ ProbeMarkers(r) \/ Found(r) \/ AclFound(r) \/ WriteAcl(r) \/ PatchAcl(r)
  <2>1. (\E l : Goto(r, l)) /\ kept' = kept
    BY <1>1 DEF Start, ProbeMarkers, Found, AclFound, WriteAcl, PatchAcl, scratch
  <2> QED BY <1>k, <2>1
<1>2. CASE \/ Deny(r) \/ Refuse(r) \/ DecidePatch(r) \/ DecidePost(r) \/ Rename(r) \/ Confirm(r)
           \/ DecideAux(r) \/ AclThere(r) \/ DecideDelete(r) \/ IsEmpty(r) \/ Close(r) \/ Fail(r)
           \/ WriteResource(r) \/ TypeContainer(r) \/ DeleteAcl(r) \/ DeleteSubject(r)
  <2>1. (\E l : Proceed(r, l)) \/ (\E w : Answer(r, w)) \/ Forget(r)
    BY <1>2 DEF Deny, Refuse, DecidePatch, DecidePost, Rename, Confirm, DecideAux, AclThere,
       DecideDelete, IsEmpty, Close, Fail, WriteResource, TypeContainer, DeleteAcl, DeleteSubject
  <2> QED BY <1>a, <2>1
<1>3. CASE EnsureAncestor(r) \/ LinkChild(r)
  <2>1. (\E l : Goto(r, l)) /\ kept' = kept
    BY <1>3 DEF EnsureAncestor, LinkChild, Advance
  <2> QED BY <1>k, <2>1
<1>4. CASE ReadMembers(r)
  BY <1>4, <1>t DEF ReadMembers, Goto
<1>5. CASE ReplaceContainer(r)
  BY <1>5, <1>t DEF ReplaceContainer, Goto
<1>6. CASE PatchExisting(r) \/ AskDeletions(r) \/ Materialize(r)
  <2>1. CASE \E w : Answer(r, w)
    BY <1>a, <2>1
  <2>2. CASE (\E l : Goto(r, l)) /\ kept' = kept
    BY <1>k, <2>2
  <2>3. CASE PatchExisting(r)
    BY <2>1, <2>2, <2>3 DEF PatchExisting
  <2>4. CASE AskDeletions(r)
    BY <2>1, <2>2, <2>4 DEF AskDeletions
  <2>5. CASE Materialize(r)
    BY <2>1, <2>2, <2>5 DEF Materialize
  <2> QED BY <1>6, <2>3, <2>4, <2>5
<1> QED BY <1>1, <1>2, <1>3, <1>4, <1>5, <1>6 DEF Step

\* Every step but an arrival is of a request that is there.
LEMMA OnlyServedStep ==
  ASSUME NEW r \in Reqs, Step(r) \/ Fail(r)
  PROVE  pc[r] # "idle"
<1>1. CASE \/ ProbeMarkers(r) \/ Deny(r) \/ Refuse(r) \/ Materialize(r) \/ EnsureAncestor(r)
           \/ LinkChild(r) \/ WriteResource(r) \/ ReadMembers(r) \/ ReplaceContainer(r)
           \/ TypeContainer(r) \/ DecidePatch(r) \/ PatchExisting(r) \/ DecidePost(r)
  BY <1>1 DEF ProbeMarkers, Deny, Refuse, Unfit, Materialize, Creating, EnsureAncestor, LinkChild,
     WriteResource, ReadMembers, ReplaceContainer, TypeContainer, DecidePatch, PatchExisting,
     DecidePost
<1>2. CASE \/ Rename(r) \/ WriteAcl(r) \/ Confirm(r) \/ DecideAux(r) \/ AclThere(r)
           \/ AskDeletions(r) \/ PatchAcl(r) \/ AclFound(r) \/ DeleteAcl(r) \/ DecideDelete(r)
           \/ IsEmpty(r) \/ Found(r) \/ DeleteSubject(r) \/ Close(r) \/ Fail(r)
  BY <1>2 DEF Rename, IsTaken, WriteAcl, Confirm, DecideAux, AclThere, AskDeletions, PatchAcl,
     AclFound, DeleteAcl, DecideDelete, IsEmpty, Found, DeleteSubject, Close, Fail
<1> QED BY <1>1, <1>2 DEF Step

\* With one request in flight at most, an arrival finds nobody there.
LEMMA ArrivesAlone ==
  ASSUME MaxInFlight = 1, NEW r \in Reqs, Start(r)
  PROVE  Quiescent
<1>1. IsFiniteSet(InFlight) /\ Cardinality(InFlight) \in Nat
  BY PodAssumption, FS_Subset, FS_CardinalityType DEF InFlight
<1>2. Cardinality(InFlight) = 0
  BY <1>1 DEF Start
<1>3. InFlight = {}
  BY <1>1, <1>2, FS_EmptySet
<1> QED BY <1>3 DEF InFlight, Quiescent

\* Every step of the one request keeps the tree and what the request knows.
LEMMA StepAlone ==
  ASSUME IInv, Sound, NEW r \in Reqs, Alone(r), Start(r) \/ Step(r) \/ Fail(r)
  PROVE  Tree' /\ Alone(r)'
<1>1. CASE UNCHANGED store /\ Alone(r)'
  <2>1. Tree'
    BY <1>1, TreeStays DEF store, Sound
  <2> QED BY <1>1, <2>1
<1>2. CASE \/ WriteResource(r) \/ ReplaceContainer(r) \/ TypeContainer(r) \/ PatchExisting(r)
  BY <1>2, TargetWritesAlone
<1>3. CASE WriteAcl(r) \/ PatchAcl(r) \/ DeleteAcl(r)
  BY <1>3, AclWritesAlone
<1>4. CASE EnsureAncestor(r) \/ LinkChild(r) \/ DeleteSubject(r)
  BY <1>4, EnsureAlone, LinkAlone, DeleteAlone
<1> QED BY <1>1, <1>2, <1>3, <1>4, ReadsAlone, MaterializeAlone DEF Step

\* SeqInv is inductive when requests come one at a time.
LEMMA SeqPreserved ==
  ASSUME MaxInFlight = 1, SeqInv, [Next]_vars
  PROVE  SeqInv'
<1>i. IInv /\ OneAtATime /\ Sound /\ Tree /\ (\A q \in Reqs : Alone(q))
  BY DEF SeqInv, Sound
<1>1. IInv' /\ MembersHaveMarker'
  BY <1>i, StepPreserves, MembersStayMarked DEF Sound
<1>2. CASE UNCHANGED vars
  <2>1. OneAtATime' /\ Sound'
    BY <1>i, <1>1, <1>2, TreeStays DEF vars, OneAtATime, Sound
  <2>2. ASSUME NEW q \in Reqs PROVE Alone(q)'
    BY <1>i, <1>2 DEF vars, Alone, WalkOK, TargetOK, DeleteOK, Probe, Effective, Linked, FirstStep,
       IsAux
  <2> QED BY <1>1, <2>1, <2>2 DEF SeqInv
<1>3. CASE Restart
  <2>1. present' = present /\ contains' = contains
    BY <1>i, <1>3 DEF Restart, Tree
  <2>2. \A q \in Reqs : pc'[q] = "idle" /\ kept'[q] = {}
    BY <1>3 DEF Restart
  <2>3. Tree' /\ OneAtATime'
    BY <1>i, <2>1, <2>2, TreeStays DEF OneAtATime
  <2>4. \A q \in Reqs : Alone(q)'
    BY <2>2 DEF Alone, Walking, Writing, Deleting
  <2> QED BY <1>1, <2>3, <2>4 DEF SeqInv, Sound
<1>4. ASSUME NEW r \in Reqs, Start(r) \/ Step(r) \/ Fail(r) PROVE SeqInv'
  <2>1. Tree' /\ Alone(r)'
    BY <1>i, <1>4, StepAlone
  <2>2. \A q \in Reqs \ {r} : pc[q] = "idle"
    <3>1. CASE Start(r)
      BY <3>1, ArrivesAlone DEF Quiescent
    <3>2. CASE Step(r) \/ Fail(r)
      BY <1>i, <3>2, OnlyServedStep DEF OneAtATime
    <3> QED BY <1>4, <3>1, <3>2
  <2>3. \A q \in Reqs \ {r} : pc'[q] = "idle" /\ kept'[q] = {}
    <3>1. \A q \in Reqs \ {r} : kept[q] = {}
      BY <1>i, <2>2 DEF Alone
    <3> QED BY <1>i, <1>4, <2>2, <3>1, OthersStay
  <2>4. OneAtATime'
    BY <2>3 DEF OneAtATime
  <2>5. \A q \in Reqs \ {r} : Alone(q)'
    BY <2>3 DEF Alone, Walking, Writing, Deleting
  <2>6. \A q \in Reqs : Alone(q)'
    BY <2>1, <2>5
  <2> QED BY <1>1, <2>1, <2>4, <2>6 DEF SeqInv, Sound
<1> QED BY <1>2, <1>3, <1>4 DEF Next

\* A pod just provisioned satisfies it.
LEMMA InitSeq == Init => SeqInv
<1> SUFFICES ASSUME Init PROVE SeqInv
  OBVIOUS
<1>1. IInv
  BY InitTypes
<1>2. OneAtATime /\ \A r \in Reqs : Alone(r)
  BY DEF Init, OneAtATime, Alone, Walking, Writing, Deleting
<1>3. NoSlashPair /\ DocumentIsLinked /\ Root \in present
  BY DEF Init, NoSlashPair, DocumentIsLinked, Root
<1>4. Sound
  BY <1>3 DEF Init, Sound, Tree, MembersHaveMarker
<1> QED BY <1>1, <1>2, <1>4 DEF SeqInv

\* What every moment of a pod that serves one request at a time satisfies.
LEMMA SeqInvariant ==
  ASSUME MaxInFlight = 1
  PROVE  Spec => []SeqInv
<1>1. SeqInv /\ [Next]_vars => SeqInv'
  BY SeqPreserved
<1> QED BY <1>1, InitSeq, PTL DEF Spec

-----------------------------------------------------------------------------
(* The guarantees *)

\* One name, one resource, at every await of every request, failed ones
\* included: what the guard's one probe saw of the slash counterparts of the
\* target and of every container on its way still holds when each is written.
THEOREM OneNameOneResource ==
  ASSUME MaxInFlight = 1
  PROVE  Spec => []NoSlashPair
<1>1. SeqInv => NoSlashPair
  BY DEF SeqInv, Sound, Tree
<1> QED BY <1>1, SeqInvariant, PTL

\* No document drops out of its container's listing, wherever a request stops:
\* the walk lists the target first, a container PUT writes back the members it
\* read, and no container with members is deleted.
THEOREM DocumentsStayListed ==
  ASSUME MaxInFlight = 1
  PROVE  Spec => []DocumentIsLinked
<1>1. SeqInv => DocumentIsLinked
  BY DEF SeqInv, Sound, Tree
<1> QED BY <1>1, SeqInvariant, PTL

\* A policy is removed only by an agent the policy in force grants Control:
\* authorize of the ACL handlers and authorize_aux of DELETE, decided on a probe,
\* still hold at the drop.
THEOREM PoliciesNeedControl ==
  ASSUME MaxInFlight = 1
  PROVE  Spec => PolicyNeedsControl
<1>1. SeqInv /\ [Next]_vars =>
        [\A u \in marked : u \notin marked' =>
           \E r \in Reqs : /\ pc[r] # "idle" /\ op[r].target = u
                           /\ "Control" \in Effective(op[r].agent, u)]_vars
  <2> SUFFICES ASSUME SeqInv, [Next]_vars, NEW u \in marked, u \notin marked'
               PROVE  \E r \in Reqs : /\ pc[r] # "idle" /\ op[r].target = u
                                      /\ "Control" \in Effective(op[r].agent, u)
    OBVIOUS
  <2>i. IInv /\ \A r \in Reqs : Alone(r)
    BY DEF SeqInv
  <2>1. ASSUME NEW r \in Reqs,
               \/ EnsureAncestor(r) \/ LinkChild(r) \/ WriteResource(r)
               \/ ReplaceContainer(r) \/ TypeContainer(r) \/ PatchExisting(r)
               \/ WriteAcl(r) \/ PatchAcl(r)
        PROVE  marked \subseteq marked'
    BY <2>1 DEF EnsureAncestor, LinkChild, WriteResource, ReplaceContainer, TypeContainer,
       PatchExisting, WriteAcl, PatchAcl
  <2>2. Restart \/ UNCHANGED store => marked \subseteq marked'
    BY DEF Restart, store
  <2>3. PICK r \in Reqs : DeleteAcl(r) \/ DeleteSubject(r)
    BY <2>i, <2>1, <2>2, StoreSteps
  <2>4. pc[r] \in {"delete_acl", "delete"} /\ op[r].target = u
    BY <2>3 DEF DeleteAcl, DeleteSubject
  <2>5. "Control" \in Effective(op[r].agent, u)
    BY <2>i, <2>4 DEF Alone, Deleting, DeleteOK
  <2> QED BY <2>4, <2>5
<1> QED BY <1>1, SeqInvariant, PTL DEF Spec, PolicyNeedsControl

\* A container gains a member only from an agent it grants Append: what the walk
\* was allowed on the probe, each container still allows when its turn comes.
THEOREM MembersNeedAppend ==
  ASSUME MaxInFlight = 1
  PROVE  Spec => MemberNeedsAppend
<1>1. SeqInv /\ [Next]_vars =>
        [\A c \in Containers : contains'[c] \ contains[c] # {} =>
           \E r \in Reqs : /\ pc[r] = "link"
                           /\ allows(Effective(op[r].agent, c), "Append")]_vars
  <2> SUFFICES ASSUME SeqInv, [Next]_vars, NEW c \in Containers, contains'[c] \ contains[c] # {}
               PROVE  \E r \in Reqs : /\ pc[r] = "link"
                                      /\ allows(Effective(op[r].agent, c), "Append")
    OBVIOUS
  <2>i. IInv /\ Sound /\ \A r \in Reqs : Alone(r)
    BY DEF SeqInv
  <2>1. ASSUME NEW r \in Reqs,
               \/ EnsureAncestor(r) \/ WriteResource(r) \/ TypeContainer(r) \/ PatchExisting(r)
               \/ WriteAcl(r) \/ PatchAcl(r) \/ DeleteAcl(r)
        PROVE  FALSE
    BY <2>1 DEF EnsureAncestor, WriteResource, TypeContainer, PatchExisting, WriteAcl, PatchAcl,
       DeleteAcl
  <2>2. ~(Restart \/ UNCHANGED store)
    BY DEF Restart, store
  <2>3. \A r \in Reqs : ~DeleteSubject(r)
    BY <2>i, CascadeTakesPolicy
  <2>4. ASSUME NEW r \in Reqs, ReplaceContainer(r) PROVE FALSE
    <3>1. /\ pc[r] = "replace" /\ op[r].target \in Containers
          /\ contains' = [contains EXCEPT ![op[r].target] = kept[r]]
      BY <2>i, <2>4 DEF ReplaceContainer, IInv, Fitting, Fits
    <3>2. contains[op[r].target] = kept[r]
      BY <2>i, <3>1 DEF Alone, Writing, Walking, TargetOK, Containers
    <3> QED BY <2>i, <3>1, <3>2 DEF IInv, TypeOK
  <2>5. PICK r \in Reqs : LinkChild(r)
    BY <2>i, <2>1, <2>2, <2>3, <2>4, StoreSteps
  <2>6. pc[r] = "link" /\ pc[r] \in Walking /\ c = Head(plan[r]).at
    BY <2>i, <2>5 DEF LinkChild, Walking, IInv, TypeOK
  <2>7. allows(Effective(op[r].agent, c), "Append")
    BY <2>i, <2>6, WalkHead
  <2> QED BY <2>6, <2>7
<1> QED BY <1>1, SeqInvariant, PTL DEF Spec, MemberNeedsAppend

\* A resource goes only by an agent who may write it and the container it is in:
\* what DELETE decided on its probe still holds at the cascade.
THEOREM RemovalsNeedWrite ==
  ASSUME MaxInFlight = 1
  PROVE  Spec => RemovalNeedsWrite
<1>1. SeqInv /\ [Next]_vars =>
        [\A u \in present : u \notin present' =>
           \E r \in Reqs : /\ pc[r] = "delete" /\ op[r].target = u
                           /\ "Write" \in Effective(op[r].agent, u)
                           /\ "Write" \in Effective(op[r].agent, parent(u))]_vars
  <2> SUFFICES ASSUME SeqInv, [Next]_vars, NEW u \in present, u \notin present'
               PROVE  \E r \in Reqs : /\ pc[r] = "delete" /\ op[r].target = u
                                      /\ "Write" \in Effective(op[r].agent, u)
                                      /\ "Write" \in Effective(op[r].agent, parent(u))
    OBVIOUS
  <2>i. IInv /\ \A r \in Reqs : Alone(r)
    BY DEF SeqInv
  <2>1. PICK r \in Reqs : DeleteSubject(r) /\ op[r].target = u
    BY <2>i, OnlyDeleteRemoves
  <2>2. pc[r] = "delete"
    BY <2>1 DEF DeleteSubject
  <2>3. "Write" \in Effective(op[r].agent, u) /\ "Write" \in Effective(op[r].agent, parent(u))
    BY <2>i, <2>1, <2>2 DEF Alone, Deleting, DeleteOK
  <2> QED BY <2>1, <2>2, <2>3
<1> QED BY <1>1, SeqInvariant, PTL DEF Spec, RemovalNeedsWrite

\* A POST overwrites nothing, with faults and restarts before it: the name the
\* probe found free, or the fresh one, is free when it is written.
THEOREM PostsAreFresh ==
  ASSUME MaxInFlight = 1
  PROVE  Spec => PostIsFresh
<1>1. SeqInv /\ [Next]_vars =>
        [\A r \in Reqs : /\ op[r].method = "POST"
                         /\ pc[r] \in {"write", "replace"} /\ pc'[r] # pc[r]
                         => op[r].target \notin present]_vars
  <2>1. ASSUME SeqInv, NEW r \in Reqs, op[r].method = "POST", pc[r] \in {"write", "replace"}
        PROVE  op[r].target \notin present
    BY <2>1 DEF SeqInv, Alone, Writing, TargetOK
  <2> QED BY <2>1
<1> QED BY <1>1, SeqInvariant, PTL DEF Spec, PostIsFresh

-----------------------------------------------------------------------------
(* Between requests *)

\* The labels at which the listing may be behind.
Busy == Walking \cup Writing \cup {"type"}

\* Everywhere else it is exact.
LEMMA RestIsExact ==
  ASSUME NEW r \in Reqs, pc[r] \notin Busy
  PROVE  Listing(r) <=> Exact
<1>1. Ahead(r) = {} /\ Behind(r) = {} /\ Untyped(r) = {}
  BY DEF Busy, Ahead, Behind, Untyped
<1> QED BY <1>1 DEF Listing, Exact

\* A step that ends outside them has made it so.
LEMMA RestsQuiet ==
  ASSUME NEW r \in Reqs, pc'[r] \notin Busy, Exact'
  PROVE  Quiet(r)'
<1>1. Ahead(r)' = {} /\ Behind(r)' = {} /\ Untyped(r)' = {}
  BY DEF Busy, Ahead, Behind, Untyped
<1>2. Listing(r)'
  BY <1>1 DEF Listing, Exact
<1> QED BY <1>2 DEF Quiet, Busy, Walking, Writing

\* The listing is in the markers, the members and the types.
LEMMA ExactStays ==
  ASSUME Exact, present' = present, contains' = contains, typed' = typed
  PROVE  Exact'
BY DEF Exact, Linked

\* The steps that leave all three alone and neither begin nor end a write.
LEMMA IdleStepsQuiet ==
  ASSUME IInv, NEW r \in Reqs, pc[r] \notin Busy, Exact,
         \/ Start(r) \/ ProbeMarkers(r) \/ Deny(r) \/ Refuse(r)
         \/ DecidePatch(r) \/ DecidePost(r) \/ Rename(r) \/ Confirm(r)
         \/ DecideAux(r) \/ AclThere(r) \/ AskDeletions(r) \/ AclFound(r)
         \/ DecideDelete(r) \/ IsEmpty(r) \/ Found(r) \/ Close(r)
         \/ WriteAcl(r) \/ PatchAcl(r) \/ DeleteAcl(r)
  PROVE  Exact' /\ Quiet(r)'
<1>1. present' = present /\ contains' = contains /\ typed' = typed
  BY DEF Start, ProbeMarkers, Deny, Refuse, DecidePatch, DecidePost, Rename, Confirm,
     DecideAux, AclThere, AskDeletions, AclFound, DecideDelete, IsEmpty, Found, Close,
     WriteAcl, PatchAcl, DeleteAcl, store
<1>2. Exact'
  BY <1>1, ExactStays
<1>t. pc \in [Reqs -> Labels]
  BY DEF IInv, TypeOK
<1>g. ASSUME NEW l, Goto(r, l), l \notin Busy PROVE pc'[r] \notin Busy
  BY <1>t, <1>g DEF Goto
<1>a. ASSUME NEW w, Answer(r, w) PROVE pc'[r] \notin Busy
  BY <1>g, <1>a DEF Answer, Busy, Walking, Writing
<1>p. ASSUME NEW l, Proceed(r, l), l \notin Busy PROVE pc'[r] \notin Busy
  BY <1>g, <1>p DEF Proceed
<1>3. pc'[r] \notin Busy
  <2>1. CASE \/ Start(r) \/ ProbeMarkers(r) \/ Close(r) \/ Found(r) \/ AclFound(r)
             \/ WriteAcl(r) \/ PatchAcl(r)
    BY <1>g, <2>1 DEF Start, ProbeMarkers, Close, Forget, Found, AclFound, WriteAcl, PatchAcl,
       Busy, Walking, Writing
  <2>2. CASE Deny(r) \/ Refuse(r) \/ Confirm(r) \/ DeleteAcl(r)
    BY <1>a, <2>2 DEF Deny, Refuse, Confirm, DeleteAcl
  <2>3. CASE DecidePatch(r) \/ DecidePost(r) \/ Rename(r) \/ DecideAux(r)
    <3>1. (\E w : Answer(r, w)) \/ Proceed(r, "patch") \/ Proceed(r, "child_markers")
          \/ Proceed(r, "acl_there") \/ Proceed(r, "acl_found")
      BY <2>3 DEF DecidePatch, DecidePost, Rename, DecideAux
    <3> QED BY <1>a, <1>p, <3>1 DEF Busy, Walking, Writing
  <2>4. CASE AclThere(r) \/ DecideDelete(r) \/ IsEmpty(r)
    <3>1. (\E w : Answer(r, w)) \/ Proceed(r, "acl_ask") \/ Proceed(r, "empty")
          \/ Proceed(r, "found")
      BY <2>4 DEF AclThere, DecideDelete, IsEmpty
    <3> QED BY <1>a, <1>p, <3>1 DEF Busy, Walking, Writing
  <2>5. CASE AskDeletions(r)
    BY <1>a, <1>g, <2>5 DEF AskDeletions, Busy, Walking, Writing
  <2> QED BY <2>1, <2>2, <2>3, <2>4, <2>5
<1> QED BY <1>2, <1>3, RestsQuiet

\* The writes of the target: what was listed ahead of it is there now.
LEMMA WritesQuiet ==
  ASSUME IInv, Sound, NEW r \in Reqs, Alone(r), Quiet(r),
         \/ WriteResource(r) \/ ReadMembers(r) \/ ReplaceContainer(r) \/ TypeContainer(r)
         \/ PatchExisting(r)
  PROVE  Quiet(r)'
<1> DEFINE t == op[r].target
<1>0. t \in Urls /\ t.slash \in BOOLEAN /\ (t.slash => t \in Containers)
  BY OpTypes
<1>t. /\ pc \in [Reqs -> Labels] /\ contains \in [Containers -> SUBSET Urls]
      /\ typed \subseteq Containers /\ present \subseteq Urls
  BY DEF IInv, TypeOK
<1>l. pc[r] # "idle" => Listing(r)
  BY DEF Quiet
<1>a. ASSUME NEW w, Answer(r, w), Exact' PROVE Quiet(r)'
  <2>1. pc'[r] = "replied"
    BY <1>t, <1>a DEF Answer, Goto
  <2> QED BY <1>a, <2>1, RestsQuiet DEF Busy, Walking, Writing
<1>1. CASE WriteResource(r)
  <2>1. /\ pc[r] = "write" /\ present' = present \cup {t} /\ contains' = contains
        /\ typed' = typed /\ Answer(r, "ok")
    BY <1>1 DEF WriteResource
  <2>2. (t = Root \/ Linked(t)) /\ ~t.slash
    BY <2>1 DEF Quiet, Writing
  <2>3. Ahead(r) = {t} /\ Behind(r) = {} /\ Untyped(r) = {}
    BY <2>1 DEF Ahead, Behind, Untyped, Writing, Walking
  <2>4. \A u \in present' \ {Root} : parent(u) \in present' /\ u \in contains'[parent(u)]
    BY <1>l, <2>1, <2>2, <2>3 DEF Listing, Linked
  <2>5. \A c \in Containers : contains'[c] \subseteq present'
    BY <1>l, <2>1, <2>3 DEF Listing
  <2>6. present' \cap Containers = typed'
    <3>1. t \notin Containers
      BY <2>2 DEF Containers
    <3>2. present \cap Containers = typed
      BY <1>l, <2>1, <2>3 DEF Listing
    <3> QED BY <2>1, <3>1, <3>2
  <2>7. Exact'
    BY <2>4, <2>5, <2>6 DEF Exact, Linked
  <2> QED BY <1>a, <2>1, <2>7
<1>2. CASE ReadMembers(r)
  <2>1. /\ pc[r] = "members" /\ pc'[r] = "replace" /\ op' = op
        /\ present' = present /\ contains' = contains /\ typed' = typed
    BY <1>2, <1>t DEF ReadMembers, Goto, store
  <2>2. t = Root \/ Linked(t)
    BY <2>1 DEF Quiet, Writing
  <2>3. Ahead(r) = {t} /\ Behind(r) = {} /\ Untyped(r) = {}
    BY <2>1 DEF Ahead, Behind, Untyped, Writing, Walking
  <2>4. Ahead(r)' = {t} /\ Behind(r)' = {} /\ Untyped(r)' = {}
    BY <2>1 DEF Ahead, Behind, Untyped, Writing, Walking
  <2>5. Listing(r)'
    BY <1>l, <2>1, <2>3, <2>4 DEF Listing, Linked
  <2> QED BY <2>1, <2>2, <2>5 DEF Quiet, Walking, Writing, Linked
<1>3. CASE ReplaceContainer(r)
  <2>1. /\ pc[r] = "replace" /\ pc'[r] = "type" /\ op' = op /\ present' = present \cup {t}
        /\ contains' = [contains EXCEPT ![t] = kept[r]]
        /\ typed' \ {t} = typed \ {t}
    BY <1>3, <1>t DEF ReplaceContainer, Goto
  <2>2. (t = Root \/ Linked(t)) /\ t \in Containers
    BY <2>1 DEF Quiet, Writing, IInv, Fitting, Fits
  <2>3. contains[t] = kept[r]
    BY <2>1, <2>2 DEF Alone, Writing, Walking, TargetOK, Containers
  <2>4. contains' = contains
    BY <1>t, <2>1, <2>3
  <2>5. Ahead(r) = {t} /\ Behind(r) = {} /\ Untyped(r) = {}
    BY <2>1 DEF Ahead, Behind, Untyped, Writing, Walking
  <2>6. Ahead(r)' = {} /\ Behind(r)' = {} /\ Untyped(r)' = {t}
    BY <2>1 DEF Ahead, Behind, Untyped, Writing, Walking
  <2>7. /\ \A u \in present' \ {Root} : Linked(u)'
        /\ \A c \in Containers : contains'[c] \subseteq present'
    BY <1>l, <2>1, <2>2, <2>4, <2>5 DEF Listing, Linked
  <2>8. (present' \cap Containers) \ {t} = typed' \ {t}
    BY <1>l, <2>1, <2>5 DEF Listing
  <2>9. Listing(r)'
    BY <2>6, <2>7, <2>8 DEF Listing
  <2> QED BY <2>1, <2>2, <2>4, <2>9 DEF Quiet, Walking, Writing, Linked
<1>4. CASE TypeContainer(r)
  <2>1. /\ pc[r] = "type" /\ present' = present \cup {t} /\ contains' = contains
        /\ typed' = typed \cup {t} /\ \E w : Answer(r, w)
    BY <1>4 DEF TypeContainer
  <2>2. (t = Root \/ Linked(t)) /\ t \in Containers
    BY <2>1 DEF Quiet, Writing, IInv, Fitting, Fits
  <2>3. Ahead(r) = {} /\ Behind(r) = {} /\ Untyped(r) = {t}
    BY <2>1 DEF Ahead, Behind, Untyped, Writing, Walking
  <2>4. /\ \A u \in present' \ {Root} : Linked(u)'
        /\ \A c \in Containers : contains'[c] \subseteq present'
    BY <1>l, <2>1, <2>2, <2>3 DEF Listing, Linked
  <2>5. present' \cap Containers = typed'
    BY <1>l, <1>t, <2>1, <2>2, <2>3 DEF Listing
  <2>6. Exact'
    BY <2>4, <2>5 DEF Exact
  <2> QED BY <1>a, <2>1, <2>6
<1>5. CASE PatchExisting(r)
  <2>1. /\ pc[r] = "patch" /\ op' = op /\ present' = present /\ contains' = contains
        /\ \/ (\E w : Answer(r, w)) /\ typed' = typed
           \/ pc'[r] = "type" /\ typed' \ {t} = typed \ {t}
    BY <1>5, <1>t DEF PatchExisting, Goto
  <2>2. Exact /\ t \in present
    BY <1>l, <2>1, RestIsExact DEF Alone, Busy, Walking, Writing
  <2>3. CASE (\E w : Answer(r, w)) /\ typed' = typed
    BY <1>a, <2>1, <2>2, <2>3, ExactStays
  <2>4. CASE pc'[r] = "type" /\ typed' \ {t} = typed \ {t}
    <3>1. Ahead(r)' = {} /\ Behind(r)' = {} /\ Untyped(r)' = {t}
      BY <2>1, <2>4 DEF Ahead, Behind, Untyped, Writing, Walking
    <3>2. /\ \A u \in present' \ {Root} : Linked(u)'
          /\ \A c \in Containers : contains'[c] \subseteq present'
      BY <2>1, <2>2 DEF Exact, Linked
    <3>3. (present' \cap Containers) \ {t} = typed' \ {t}
      BY <2>1, <2>2, <2>4 DEF Exact
    <3>4. Listing(r)'
      BY <3>1, <3>2, <3>3 DEF Listing
    <3>5. t = Root \/ Linked(t)'
      BY <2>1, <2>2, <3>2
    <3> QED BY <2>1, <2>4, <3>4, <3>5 DEF Quiet, Walking, Writing
  <2> QED BY <2>1, <2>3, <2>4
<1> QED BY <1>1, <1>2, <1>3, <1>4, <1>5

\* The cascade takes the one link to what it removes.
LEMMA DeleteQuiet ==
  ASSUME IInv, Sound, NEW r \in Reqs, Alone(r), Quiet(r), DeleteSubject(r)
  PROVE  Quiet(r)'
<1> DEFINE t == op[r].target
<1>0. t \in Urls /\ t.slash \in BOOLEAN /\ (t.slash => t \in Containers)
  BY OpTypes
<1>1. /\ pc[r] = "delete" /\ present' = present \ {t} /\ contains' = Unlinked(t)
      /\ typed' = typed \ {t} /\ \E w : Answer(r, w)
  BY DEF DeleteSubject
<1>2. t # Root /\ (t.slash => contains[t] = {})
  BY <1>1 DEF Alone, Deleting, DeleteOK
<1>3. Exact
  BY <1>1, RestIsExact DEF Quiet, Busy, Walking, Writing
<1>4. \A c \in Containers :
        contains'[c] = IF c = t THEN {} ELSE IF c = parent(t) THEN contains[c] \ {t} ELSE contains[c]
  BY <1>1 DEF Unlinked
<1>5. ASSUME NEW u \in present' \ {Root} PROVE Linked(u)'
  <2>1. u \in present /\ u # t /\ u \in Urls /\ Linked(u)
    BY <1>1, <1>3 DEF Exact, IInv, TypeOK
  <2>2. parent(u) \in Containers /\ parent(u).slash
    BY <2>1, ChainEnds DEF Containers
  <2>3. parent(u) # t
    BY <1>2, <2>1, <2>2 DEF Linked
  <2> QED BY <1>1, <1>4, <2>1, <2>2, <2>3 DEF Linked
<1>6. ASSUME NEW c \in Containers, NEW u \in contains'[c] PROVE u \in present'
  <2>1. u \in contains[c]
    BY <1>4
  <2>2. u \in present /\ c = parent(u)
    BY <1>3, <2>1 DEF Exact, Sound, Tree
  <2>3. u # t
    BY <1>4, <2>2
  <2> QED BY <1>1, <2>2, <2>3
<1>7. present' \cap Containers = typed'
  BY <1>1, <1>3 DEF Exact
<1>8. Exact'
  BY <1>5, <1>6, <1>7 DEF Exact
<1>9. pc'[r] = "replied"
  BY <1>1 DEF Answer, Goto, IInv, TypeOK
<1> QED BY <1>8, <1>9, RestsQuiet DEF Busy, Walking, Writing

\* The guard's walk begins at the target, climbs link by link, and ends at a
\* container that is there.
LEMMA MaterializeQuiet ==
  ASSUME IInv, Sound, NEW r \in Reqs, Alone(r), Quiet(r), Materialize(r)
  PROVE  Quiet(r)'
<1> DEFINE t == op[r].target
           L == Levels(op[r], snap[r])
<1>s. UNCHANGED store /\ op' = op
  BY DEF Materialize
<1>u. present' = present /\ contains' = contains /\ typed' = typed
  BY <1>s DEF store
<1>c. pc[r] \in {"acls", "child_acls"}
  BY DEF Materialize, Creating
<1>e. Exact
  BY <1>c, RestIsExact DEF Quiet, Busy, Walking, Writing
<1>1. CASE Answer(r, "denied")
  <2>1. pc'[r] = "replied"
    BY <1>1 DEF Answer, Goto, IInv, TypeOK
  <2> QED BY <1>u, <1>e, <2>1, ExactStays, RestsQuiet DEF Busy, Walking, Writing
<1>2. CASE Materializable(r)
  <2>0. t \in Urls /\ op[r] \in Operation /\ t.slash \in BOOLEAN
    BY OpTypes
  <2>1. /\ plan' = [plan EXCEPT ![r] = Plan(op[r], snap[r])]
        /\ pc' = [pc EXCEPT ![r] = IF L = 0 THEN WriteLabel(op[r]) ELSE "ensure"]
    BY <1>2 DEF Materialize, Goto
  <2>2. /\ plan'[r] = Plan(op[r], snap[r])
        /\ pc'[r] = IF L = 0 THEN WriteLabel(op[r]) ELSE "ensure"
    BY <2>1 DEF IInv, TypeOK
  <2>3. snap[r] = Probe(t)
    BY <1>c DEF Alone
  <2>4. t \in snap[r].present <=> t \in present
    BY <2>0, <2>3 DEF Probe, Probed, ChainSet
  <2>5. \A u \in present \ {Root} : Linked(u)
    BY <1>e DEF Exact
  <2>6. Untyped(r)' = {}
    BY <2>0, <2>2, WriteLabelCases DEF Untyped
  <2>7. Listing(r)'
    BY <1>u, <1>e, <2>6 DEF Listing, Exact, Linked
  <2>8. CASE L # 0
    <3>1. pc'[r] = "ensure"
      BY <2>2, <2>8
    <3>2. L \in Nat /\ L >= 1 /\ Len(plan'[r]) = L
      <4>1. /\ Len(Plan(op[r], snap[r])) = L /\ L \in Nat
        BY <2>0, PlanIsPlan
      <4> QED BY <2>2, <2>8, <4>1
    <3>3. /\ t # Root /\ ancestors(t)[L] \in snap[r].present \cup {Root}
      BY <2>0, <2>8, LevelsFacts
    <3>4. ancestors(t)[L] \in present
      BY <2>3, <3>3 DEF Probe, Sound, Tree
    <3>5. ASSUME NEW i \in 1..L
          PROVE  /\ plan'[r][i] = [at |-> ancestors(t)[i],
                                   child |-> IF i > 1 THEN ancestors(t)[i - 1]
                                     ELSE IF IsMember(op[r], snap[r]) THEN t ELSE NoUrl]
                 /\ plan'[r][i].at = ancestors(t)[i]
                 /\ i > 1 => plan'[r][i].child = ancestors(t)[i - 1]
      BY <2>2 DEF Plan
    <3> HIDE DEF L
    <3>6. plan'[r][L].at \in present
      <4>1. L \in 1..L
        BY <3>2
      <4>2. plan'[r][L].at = ancestors(t)[L]
        BY <3>5, <4>1
      <4> QED BY <3>4, <4>2
    <3>7. ASSUME NEW i \in 1..(L - 1) PROVE plan'[r][i + 1].child = plan'[r][i].at
      <4>1. i \in 1..L /\ i + 1 \in 1..L /\ i + 1 > 1 /\ (i + 1) - 1 = i
        BY <3>2
      <4>2. plan'[r][i].at = ancestors(t)[i]
        BY <3>5, <4>1
      <4>3. plan'[r][i + 1].child = ancestors(t)[(i + 1) - 1]
        BY <3>5, <4>1
      <4> QED BY <4>1, <4>2, <4>3
    <3>8. plan'[r][1] = [at |-> ancestors(t)[1], child |-> IF IsMember(op[r], snap[r]) THEN t ELSE NoUrl]
      <4>1. 1 \in 1..L /\ ~(1 > 1)
        BY <3>2
      <4> QED BY <3>5, <4>1
    <3>9. IsMember(op[r], snap[r]) => plan'[r][1] = FirstStep(t)
      BY <2>0, <3>3, <3>8, ChainEnds DEF FirstStep
    <3>10. Head(plan'[r]) = plan'[r][1]
      OBVIOUS
    <3>11. IsAux(op[r]) \/ Linked(t) \/ Head(plan'[r]) = FirstStep(t)
      BY <2>4, <2>5, <3>3, <3>9, <3>10 DEF IsMember
    <3>12. Head(plan'[r]).child = NoUrl \/ (Head(plan'[r]).child = t /\ ~IsAux(op[r]))
      BY <3>8, <3>10 DEF IsMember
    <3>13. ~IsAux(op[r]) => Ahead(r)' = {t}
      BY <1>s, <3>1 DEF Ahead, Walking, IsAux
    <3>14. /\ FirstStep(t)' = FirstStep(t) /\ (Linked(t) => Linked(t)')
           /\ IsAux(op[r])' <=> IsAux(op[r])
      BY <1>s, <1>u DEF FirstStep, Linked, IsAux
    <3>15. Head(plan'[r]).child \in present' \cup Ahead(r)' \cup {NoUrl}
      BY <3>12, <3>13
    <3>16. QuietWalk(r)'
      BY <1>s, <1>u, <3>1, <3>2, <3>6, <3>7, <3>11, <3>14, <3>15 DEF QuietWalk
    <3> QED BY <2>7, <3>1, <3>16 DEF Quiet, Walking, Writing
  <2>9. CASE L = 0
    <3>1. pc'[r] = WriteLabel(op[r])
      BY <2>2, <2>9
    <3>2. /\ pc'[r] \in {"write_acl", "write", "members", "replace"}
          /\ pc'[r] # "write_acl" => ~IsAux(op[r])
          /\ pc'[r] = "write" => ~t.slash
      BY <2>0, <3>1, WriteLabelCases
    <3>3. t = Root \/ ~IsMember(op[r], snap[r])
      BY <2>0, <2>9, LevelsFacts
    <3>4. ~IsAux(op[r]) => t = Root \/ Linked(t)
      BY <2>4, <2>5, <3>3 DEF IsMember
    <3>5. Linked(t) => Linked(t)'
      BY <1>s, <1>u DEF Linked
    <3> QED BY <1>s, <2>7, <3>2, <3>4, <3>5 DEF Quiet, Walking, Writing
  <2> QED BY <2>8, <2>9
<1> QED BY <1>1, <1>2 DEF Materialize

\* The write a walk was for, or the next step of it: what the step just done
\* leaves behind is what the rest of the walk lists.
LEMMA AdvanceQuiet ==
  ASSUME IInv, NEW r \in Reqs, pc[r] \in Walking, Alone(r), Quiet(r), Advance(r),
         op' = op, present' = present \cup {Head(plan[r]).at},
         \A c \in Containers : contains[c] \subseteq contains'[c],
         \A c \in Containers : contains'[c] \subseteq present' \cup Ahead(r),
         present' \cap Containers = typed',
         Head(plan[r]).child = NoUrl \/
           (parent(Head(plan[r]).child) \in present' /\
            Head(plan[r]).child \in contains'[parent(Head(plan[r]).child)])
  PROVE  Quiet(r)'
<1> DEFINE t == op[r].target
           p == plan[r]
           n == Len(plan[r])
           a == Head(plan[r]).at
           l == IF n = 1 THEN WriteLabel(op[r]) ELSE "ensure"
<1>0. t \in Urls /\ op[r] \in Operation /\ t.slash \in BOOLEAN
  BY OpTypes
<1>1. pc'[r] = l /\ plan'[r] = Tail(p)
  BY DEF Advance, Goto, IInv, TypeOK
<1>2. /\ p \in Seq(PlanStep) /\ n \in Nat /\ n >= 1 /\ DOMAIN p = 1..n /\ Head(p) = p[1]
      /\ DOMAIN Tail(p) = 1..(n - 1) /\ \A i \in 1..(n - 1) : Tail(p)[i] = p[i + 1]
      /\ Tail(p) \in Seq(PlanStep)
  BY WalkFacts
<1>n. n # 1 => 1 \in 1..(n - 1) /\ n - 1 \in 1..(n - 1) /\ (n - 1) + 1 = n
  <2>1. \A k \in Nat : k >= 1 /\ k # 1 =>
          1 \in 1..(k - 1) /\ k - 1 \in 1..(k - 1) /\ (k - 1) + 1 = k
    OBVIOUS
  <2> QED BY <1>2, <2>1
<1>w. QuietWalk(r) /\ Listing(r)
  BY DEF Quiet, Walking
<1>3. /\ Head(p).child \in present \cup Ahead(r) \cup {NoUrl}
      /\ \A i \in 1..(n - 1) : p[i + 1].child = p[i].at
      /\ p[n].at \in present
      /\ IsAux(op[r]) \/ Linked(t) \/ Head(p) = FirstStep(t)
  BY <1>w DEF QuietWalk
<1>4. Untyped(r) = {} /\ Behind(r) = {p[i].child : i \in 1..n}
  BY <1>2 DEF Untyped, Behind, Walking
<1>p. ASSUME NEW u \in present, u # Root, Linked(u) PROVE Linked(u)'
  <2>1. u \in Urls
    BY <1>p DEF IInv, TypeOK
  <2>2. parent(u) \in Containers
    BY <1>p, <2>1, ChainEnds
  <2> QED BY <1>p, <2>2 DEF Linked
<1>q. Linked(t) /\ t # Root => parent(t) \in present' /\ t \in contains'[parent(t)]
  <2>1. t # Root => parent(t) \in Containers
    BY <1>0, ChainEnds
  <2> QED BY <2>1 DEF Linked
<1>5. \* Everything there is linked, or is the child of a step still to come.
      ASSUME NEW u \in present' \ {Root}
      PROVE  Linked(u)' \/ \E i \in 1..(n - 1) : u = p[i + 1].child
  <2>0. u \in Urls /\ u # NoUrl
    BY SpaceAssumption, WalkHead DEF IInv, TypeOK
  <2>1. CASE u \in present
    <3>1. CASE Linked(u)
      BY <1>p, <1>5, <2>1, <3>1
    <3>2. CASE u \in Behind(r)
      <4>1. PICK i \in 1..n : u = p[i].child
        BY <1>4, <3>2
      <4>2. CASE i = 1
        <5>1. u = Head(plan[r]).child
          BY <1>2, <4>1, <4>2
        <5>2. parent(u) \in present' /\ u \in contains'[parent(u)]
          BY <2>0, <5>1
        <5> QED BY <5>2 DEF Linked
      <4>3. CASE i # 1
        <5>1. i - 1 \in 1..(n - 1) /\ (i - 1) + 1 = i
          BY <1>2, <4>3
        <5> QED BY <4>1, <5>1
      <4> QED BY <4>2, <4>3
    <3> QED BY <1>w, <1>5, <2>1, <3>1, <3>2 DEF Listing
  <2>2. CASE u \notin present
    <3>1. u = a /\ n # 1
      BY <1>2, <1>3, <1>5, <2>2
    <3>2. 1 \in 1..(n - 1)
      BY <1>n, <3>1
    <3>3. p[1 + 1].child = p[1].at
      BY <1>3, <3>2
    <3> QED BY <1>2, <3>1, <3>2, <3>3
  <2> QED BY <2>1, <2>2
<1>6. \* The target is listed by now.
      ~IsAux(op[r]) => t = Root \/ (parent(t) \in present' /\ t \in contains'[parent(t)])
  <2>1. CASE Linked(t)
    BY <1>q, <2>1
  <2>2. CASE Head(p) = FirstStep(t)
    <3>1. Head(plan[r]).child = t /\ t # NoUrl
      BY <1>0, <2>2, UrlShape DEF FirstStep
    <3> QED BY <3>1
  <2> QED BY <1>3, <2>1, <2>2
<1>7. Untyped(r)' = {}
  BY <1>0, <1>1, WriteLabelCases DEF Untyped
<1>8. Ahead(r)' = Ahead(r)
  <2>1. IsAux(op[r])' <=> IsAux(op[r])
    BY DEF IsAux
  <2>2. CASE IsAux(op[r])
    <3>1. pc'[r] \notin Writing /\ pc[r] \notin Writing
      BY <1>0, <1>1, <2>2, WriteLabelCases DEF Writing, Walking
    <3> QED BY <2>1, <2>2, <3>1 DEF Ahead
  <2>3. CASE ~IsAux(op[r])
    <3>1. pc'[r] \in Writing \cup Walking
      BY <1>0, <1>1, <2>3, WriteLabelCases DEF Writing, Walking
    <3> QED BY <2>1, <2>3, <3>1 DEF Ahead
  <2> QED BY <2>2, <2>3
<1>9. CASE n = 1
  <2>1. pc'[r] = WriteLabel(op[r])
    BY <1>1, <1>9
  <2>2. /\ pc'[r] \in {"write_acl", "write", "members", "replace"}
        /\ pc'[r] # "write_acl" => ~IsAux(op[r])
        /\ pc'[r] = "write" => ~t.slash
    BY <1>0, <2>1, WriteLabelCases
  <2>3. \A u \in present' \ {Root} : Linked(u)'
    <3>1. 1..(n - 1) = {}
      BY <1>9
    <3> QED BY <1>5, <3>1
  <2>4. Listing(r)'
    BY <1>7, <1>8, <2>3 DEF Listing
  <2>5. pc'[r] # "write_acl" => t = Root \/ Linked(t)'
    BY <1>6, <2>2 DEF Linked
  <2> HIDE DEF t
  <2> QED BY <2>2, <2>4, <2>5 DEF Quiet, Walking, Writing, t
<1>10. CASE n # 1
  <2>1. pc'[r] = "ensure"
    BY <1>1, <1>10
  <2>2. Behind(r)' = {p[i + 1].child : i \in 1..(n - 1)}
    <3>1. Behind(r)' = {plan'[r][i].child : i \in 1..(n - 1)}
      BY <1>1, <1>2, <2>1 DEF Behind, Walking
    <3>2. \A i \in 1..(n - 1) : plan'[r][i].child = p[i + 1].child
      BY <1>1, <1>2
    <3> QED BY <3>1, <3>2
  <2>3. Listing(r)'
    <3>1. \A u \in present' \ {Root} : Linked(u)' \/ u \in Behind(r)'
      BY <1>5, <2>2
    <3> QED BY <1>7, <1>8, <3>1 DEF Listing
  <2>4. 1 \in 1..(n - 1) /\ n - 1 \in 1..(n - 1) /\ (n - 1) + 1 = n /\ Len(plan'[r]) = n - 1
    <3>1. Len(Tail(p)) = n - 1
      BY <1>2, <1>10, EmptySeq, HeadTailProperties
    <3> QED BY <1>1, <1>n, <1>10, <3>1
  <2>5. Head(plan'[r]) = plan'[r][1]
    OBVIOUS
  <2>6. Head(plan'[r]).child \in present'
    <3>1. plan'[r][1].child = p[1].at
      <4>1. plan'[r][1] = p[1 + 1] /\ p[1 + 1].child = p[1].at
        BY <1>1, <1>2, <1>3, <2>4
      <4> QED BY <4>1
    <3> QED BY <1>2, <2>5, <3>1
  <2>7. ASSUME NEW i \in 1..(Len(plan'[r]) - 1) PROVE plan'[r][i + 1].child = plan'[r][i].at
    <3>1. i \in 1..(n - 1) /\ i + 1 \in 1..(n - 1)
      BY <1>2, <2>4
    <3>2. plan'[r][i] = p[i + 1] /\ plan'[r][i + 1] = p[(i + 1) + 1]
      BY <1>1, <1>2, <3>1
    <3>3. p[(i + 1) + 1].child = p[i + 1].at
      BY <1>3, <3>1
    <3> QED BY <3>2, <3>3
  <2>8. plan'[r][Len(plan'[r])].at \in present'
    <3>1. plan'[r][n - 1] = p[n]
      BY <1>1, <1>2, <2>4
    <3> QED BY <1>3, <2>4, <3>1
  <2>9. IsAux(op[r])' \/ Linked(t)'
    <3>1. t # Root
      <4>1. a \in Above(t)
        BY WalkHead
      <4>2. t = Root => Len(t.segs) = 0
        BY EmptySeq DEF Root
      <4> QED BY <4>1, <4>2 DEF Above
    <3> QED BY <1>6, <3>1 DEF Linked, IsAux
  <2>10. QuietWalk(r)'
    <3> HIDE DEF t, p, n, a, l
    <3> QED BY <2>1, <2>6, <2>7, <2>8, <2>9 DEF QuietWalk, t
  <2> QED BY <2>1, <2>3, <2>10 DEF Quiet, Walking, Writing
<1> QED BY <1>9, <1>10

\* ensure_container: the new container is the child of the next step.
LEMMA EnsureQuiet ==
  ASSUME IInv, Sound, NEW r \in Reqs, Alone(r), Quiet(r), EnsureAncestor(r)
  PROVE  Quiet(r)'
<1> DEFINE t == op[r].target
           p == plan[r]
           n == Len(plan[r])
           a == Head(plan[r]).at
<1>1. /\ pc[r] = "ensure" /\ pc[r] \in Walking /\ present' = present \cup {a}
      /\ contains' = contains /\ typed' = typed \cup {a} /\ op' = op
  BY DEF EnsureAncestor, Walking
<1>2. a \in Containers
  BY <1>1, WalkHead
<1>w. QuietWalk(r) /\ Listing(r)
  BY <1>1 DEF Quiet
<1>3. Untyped(r) = {}
  BY <1>1 DEF Untyped
<1>4. present' \cap Containers = typed'
  BY <1>1, <1>2, <1>3, <1>w DEF Listing
<1>5. \A c \in Containers : contains'[c] \subseteq present' \cup Ahead(r)
  BY <1>1, <1>w DEF Listing
<1>6. CASE Head(plan[r]).child = NoUrl
  <2>1. Advance(r)
    BY <1>6 DEF EnsureAncestor
  <2> QED BY <1>1, <1>4, <1>5, <1>6, <2>1, AdvanceQuiet
<1>7. CASE Head(plan[r]).child # NoUrl
  <2>1. pc'[r] = "link" /\ plan' = plan
    BY <1>7 DEF EnsureAncestor, Goto, IInv, TypeOK
  <2>2. /\ Ahead(r)' = Ahead(r) /\ Behind(r)' = Behind(r) /\ Untyped(r)' = {}
        /\ IsAux(op[r])' <=> IsAux(op[r])
    BY <1>1, <2>1 DEF Ahead, Behind, Untyped, Walking, Writing, IsAux
  <2>3. /\ n \in Nat /\ n >= 1 /\ DOMAIN p = 1..n /\ Head(p) = p[1]
    BY <1>1, WalkFacts
  <2>4. /\ Head(p).child \in present \cup Ahead(r) \cup {NoUrl}
        /\ \A i \in 1..(n - 1) : p[i + 1].child = p[i].at
        /\ p[n].at \in present
        /\ IsAux(op[r]) \/ Linked(t) \/ Head(p) = FirstStep(t)
    BY <1>w DEF QuietWalk
  <2>5. a \notin present => a \in Behind(r)
    <3>1. ASSUME a \notin present PROVE 1 \in 1..(n - 1) /\ 1 + 1 \in 1..n
      BY <2>3, <2>4, <3>1
    <3>2. ASSUME a \notin present PROVE a = p[1 + 1].child
      BY <2>3, <2>4, <3>1, <3>2
    <3> QED BY <1>1, <2>3, <3>1, <3>2 DEF Behind
  <2>6. \A u \in present' \ {Root} : Linked(u)' \/ u \in Behind(r)
    BY <1>1, <1>w, <2>5 DEF Listing, Linked
  <2>7. Listing(r)'
    BY <1>4, <1>5, <2>2, <2>6 DEF Listing
  <2>8. FirstStep(t)' = FirstStep(t) /\ (Linked(t) => Linked(t)')
    BY <1>1 DEF FirstStep, Linked
  <2>9. QuietWalk(r)'
    BY <1>1, <2>1, <2>2, <2>4, <2>8 DEF QuietWalk
  <2> QED BY <2>1, <2>7, <2>9 DEF Quiet, Walking, Writing
<1> QED BY <1>6, <1>7

\* add_containment: the child of this step is behind no longer.
LEMMA LinkQuiet ==
  ASSUME IInv, Sound, NEW r \in Reqs, Alone(r), Quiet(r), LinkChild(r)
  PROVE  Quiet(r)'
<1> DEFINE a == Head(plan[r]).at
           c == Head(plan[r]).child
<1>1. /\ pc[r] = "link" /\ pc[r] \in Walking /\ present' = present \cup {a}
      /\ contains' = [contains EXCEPT ![a] = @ \cup {c}] /\ typed' = typed
      /\ op' = op /\ Advance(r)
  BY DEF LinkChild, Walking
<1>2. a \in Containers /\ (c # NoUrl => a = parent(c))
  BY <1>1, WalkHead
<1>3. c # NoUrl
  BY <1>1, SpaceAssumption DEF IInv, Fitting, Fits
<1>w. QuietWalk(r) /\ Listing(r)
  BY <1>1 DEF Quiet, Walking
<1>4. a \in present /\ c \in present \cup Ahead(r)
  BY <1>1, <1>3, <1>w DEF QuietWalk
<1>5. Untyped(r) = {}
  BY <1>1 DEF Untyped
<1>6. \A d \in Containers : contains'[d] = IF d = a THEN contains[d] \cup {c} ELSE contains[d]
  BY <1>1 DEF IInv, TypeOK
<1>7. present' \cap Containers = typed'
  BY <1>1, <1>4, <1>5, <1>w DEF Listing
<1>8. ASSUME NEW d \in Containers
      PROVE  contains[d] \subseteq contains'[d] /\ contains'[d] \subseteq present' \cup Ahead(r)
  <2>1. contains[d] \subseteq present \cup Ahead(r)
    BY <1>w DEF Listing
  <2> HIDE DEF a, c
  <2> QED BY <1>1, <1>4, <1>6, <2>1
<1>9. parent(c) \in present' /\ c \in contains'[parent(c)]
  BY <1>1, <1>2, <1>3, <1>6
<1> QED BY <1>1, <1>7, <1>8, <1>9, AdvanceQuiet

\* Every step of the one request, faults aside.
LEMMA StepQuiet ==
  ASSUME IInv, Sound, NEW r \in Reqs, Alone(r), Quiet(r), Quiescent => Exact,
         (Start(r) /\ Quiescent) \/ Step(r)
  PROVE  Quiet(r)' /\ (pc'[r] = "idle" => Exact')
<1>t. pc \in [Reqs -> Labels]
  BY DEF IInv, TypeOK
<1>1. CASE \/ WriteResource(r) \/ ReadMembers(r) \/ ReplaceContainer(r) \/ TypeContainer(r)
           \/ PatchExisting(r)
  <2>1. Quiet(r)'
    BY <1>1, WritesQuiet
  <2>2. pc'[r] # "idle"
    BY <1>1, <1>t DEF WriteResource, ReadMembers, ReplaceContainer, TypeContainer, PatchExisting,
       Answer, Goto
  <2> QED BY <2>1, <2>2
<1>2. CASE Materialize(r) \/ DeleteSubject(r)
  <2>1. Quiet(r)'
    BY <1>2, MaterializeQuiet, DeleteQuiet
  <2>2. CASE DeleteSubject(r)
    BY <1>t, <2>1, <2>2 DEF DeleteSubject, Answer, Goto
  <2>3. CASE Materialize(r)
    <3>1. op[r] \in Operation
      BY OpTypes
    <3>2. WriteLabel(op[r]) # "idle"
      BY <3>1, WriteLabelCases
    <3>3. pc'[r] # "idle"
      BY <1>t, <2>3, <3>2 DEF Materialize, Answer, Goto
    <3> QED BY <2>1, <3>3
  <2> QED BY <1>2, <2>2, <2>3
<1>3. CASE EnsureAncestor(r) \/ LinkChild(r)
  <2>1. Quiet(r)'
    BY <1>3, EnsureQuiet, LinkQuiet
  <2>2. op[r] \in Operation
    BY OpTypes
  <2>3. WriteLabel(op[r]) # "idle"
    BY <2>2, WriteLabelCases
  <2>4. pc'[r] # "idle"
    BY <1>t, <1>3, <2>3 DEF EnsureAncestor, LinkChild, Advance, Goto
  <2> QED BY <2>1, <2>4
<1>4. CASE Start(r) /\ Quiescent
  <2>1. pc[r] \notin Busy /\ Exact
    BY <1>4 DEF Quiescent, Busy, Walking, Writing
  <2> QED BY <1>4, <2>1, IdleStepsQuiet
<1>5. CASE \/ ProbeMarkers(r) \/ Deny(r) \/ Refuse(r)
           \/ DecidePatch(r) \/ DecidePost(r) \/ Rename(r) \/ Confirm(r)
           \/ DecideAux(r) \/ AclThere(r) \/ AskDeletions(r) \/ AclFound(r)
           \/ DecideDelete(r) \/ IsEmpty(r) \/ Found(r) \/ Close(r)
           \/ WriteAcl(r) \/ PatchAcl(r) \/ DeleteAcl(r)
  <2>1. pc[r] \notin Busy
    BY <1>5 DEF ProbeMarkers, Deny, Refuse, Unfit, DecidePatch, DecidePost, Rename, IsTaken, Confirm,
       DecideAux, AclThere, AskDeletions, AclFound, DecideDelete, IsEmpty, Found, Close,
       WriteAcl, PatchAcl, DeleteAcl, Busy, Walking, Writing
  <2>2. Exact
    BY <1>5, <2>1, OnlyServedStep, RestIsExact DEF Quiet, Step
  <2> QED BY <1>5, <2>1, <2>2, IdleStepsQuiet
<1> QED BY <1>1, <1>2, <1>3, <1>4, <1>5 DEF Step

\* QuietInv is inductive beside SeqInv when no request fails and no process dies.
LEMMA QuietPreserved ==
  ASSUME MaxInFlight = 1, ~Faults, SeqInv, QuietInv, [Next]_vars
  PROVE  QuietInv'
<1>i. /\ IInv /\ Sound /\ OneAtATime /\ (\A q \in Reqs : Alone(q))
      /\ (Quiescent => Exact) /\ (\A q \in Reqs : Quiet(q))
  BY DEF SeqInv, QuietInv
<1>1. CASE UNCHANGED vars
  <2>1. Quiescent' => Exact'
    BY <1>i, <1>1 DEF vars, Quiescent, Exact, Linked
  <2>2. ASSUME NEW q \in Reqs PROVE Quiet(q)'
    BY <1>i, <1>1 DEF vars, Quiet, Listing, QuietWalk, Ahead, Behind, Untyped, Linked, FirstStep,
       IsAux
  <2> QED BY <2>1, <2>2 DEF QuietInv
<1>2. ASSUME NEW r \in Reqs, Start(r) \/ Step(r) PROVE QuietInv'
  <2>1. Start(r) => Quiescent
    BY ArrivesAlone
  <2>2. Quiet(r)' /\ (pc'[r] = "idle" => Exact')
    BY <1>i, <1>2, <2>1, StepQuiet
  <2>3. \A q \in Reqs \ {r} : pc[q] = "idle"
    BY <1>i, <1>2, <2>1, OnlyServedStep DEF OneAtATime, Quiescent
  <2>4. \A q \in Reqs \ {r} : pc'[q] = "idle"
    BY <1>i, <1>2, <2>3, OthersStay
  <2>5. \A q \in Reqs \ {r} : Quiet(q)'
    BY <2>4 DEF Quiet, Walking, Writing
  <2>6. Quiescent' => Exact'
    BY <2>2 DEF Quiescent
  <2> QED BY <2>2, <2>5, <2>6 DEF QuietInv
<1>3. ~Restart /\ \A r \in Reqs : ~Fail(r)
  BY DEF Restart, Fail
<1> QED BY <1>1, <1>2, <1>3 DEF Next

\* A pod just provisioned has an exact listing.
LEMMA InitQuiet == Init => QuietInv
<1> SUFFICES ASSUME Init PROVE QuietInv
  OBVIOUS
<1>1. Exact
  <2>1. Root.slash
    BY DEF Root
  <2>2. Root \in Containers
    BY <2>1, SpaceAssumption DEF Containers
  <2>3. present \cap Containers = typed
    BY <2>2 DEF Init
  <2> QED BY <2>3 DEF Init, Exact
<1>2. \A r \in Reqs : Quiet(r)
  BY DEF Init, Quiet, Walking, Writing
<1> QED BY <1>1, <1>2 DEF QuietInv

\* Between requests that run to their end the listing is exact, whatever they
\* were and whatever came before: every container on the way of a deep write is
\* listed and typed by the time its last step is done, a failed precondition
\* leaves nothing behind, and a DELETE takes the link with the resource.
THEOREM ListingsAreExact ==
  ASSUME MaxInFlight = 1, ~Faults
  PROVE  Spec => []ListingIsExact
<1>1. SeqInv /\ QuietInv /\ [Next]_vars => QuietInv'
  BY QuietPreserved
<1>2. QuietInv => ListingIsExact
  BY DEF QuietInv, Exact, ListingIsExact, Linked
<1> QED BY <1>1, <1>2, SeqInvariant, InitQuiet, PTL DEF Spec

-----------------------------------------------------------------------------
(* Chains *)

\* In a chain each URL is the parent of the one before it, and only the last is
\* the root.
LEMMA ChainSteps ==
  ASSUME NEW t \in Urls, NEW i \in 1..Len(t.segs)
  PROVE  /\ Chain(t)[i] \in Urls /\ Chain(t)[i] # Root
         /\ Chain(t)[i + 1] \in Containers /\ Chain(t)[i + 1] \in Urls
         /\ Chain(t)[i + 1] = parent(Chain(t)[i])
<1> DEFINE n == Len(t.segs)
<1>0. n \in Nat /\ Chain(t)[1] = t /\ \A j \in 1..n : Chain(t)[j + 1] = ancestors(t)[j]
  BY UrlShape, ChainShape
<1>1. Chain(t)[i + 1] = ancestors(t)[i] /\ ancestors(t)[i] \in Containers /\ ancestors(t)[i] \in Urls
  BY <1>0, AncestorFacts
<1>2. CASE i = 1
  <2>1. t # Root
    BY <1>0, EmptySeq DEF Root
  <2> QED BY <1>0, <1>1, <1>2, <2>1, ChainEnds
<1>3. CASE i # 1
  <2>1. i > 1 /\ i - 1 \in 1..n /\ (i - 1) + 1 = i
    BY <1>0, <1>3
  <2>2. Chain(t)[i] = ancestors(t)[i - 1]
    BY <1>0, <2>1
  <2>3. ancestors(t)[i - 1] # Root /\ ancestors(t)[i] = parent(ancestors(t)[i - 1])
    BY <2>1, ParentOfAncestor
  <2>4. ancestors(t)[i - 1] \in Urls
    BY <2>1, AncestorFacts
  <2> QED BY <1>1, <2>2, <2>3, <2>4
<1> QED BY <1>2, <1>3

\* No URL comes twice in it.
LEMMA ChainDistinct ==
  ASSUME NEW t \in Urls, NEW i \in 1..(Len(t.segs) + 1), NEW j \in 1..(Len(t.segs) + 1),
         Chain(t)[i] = Chain(t)[j]
  PROVE  i = j
<1> DEFINE n == Len(t.segs)
<1>0. n \in Nat /\ Chain(t)[1] = t /\ \A k \in 1..n : Chain(t)[k + 1] = ancestors(t)[k]
  BY UrlShape, ChainShape
<1>1. ASSUME NEW k \in 1..(n + 1) PROVE Len(Chain(t)[k].segs) = n - (k - 1)
  <2>1. CASE k = 1
    BY <1>0, <2>1
  <2>2. CASE k # 1
    <3>1. k - 1 \in 1..n /\ (k - 1) + 1 = k
      BY <1>0, <2>2
    <3>2. Chain(t)[k] = ancestors(t)[k - 1]
      BY <1>0, <3>1
    <3>3. Len(ancestors(t)[k - 1].segs) = n - (k - 1)
      BY <3>1, AncestorFacts
    <3> QED BY <3>2, <3>3
  <2> QED BY <2>1, <2>2
<1>2. n - (i - 1) = n - (j - 1)
  BY <1>1
<1> QED BY <1>0, <1>2

-----------------------------------------------------------------------------
(* The events of a growth *)

\* publish_containment skips the target, the first of what was created.
LEMMA TargetIsSkipped ==
  ASSUME NEW S, NEW s \in Seq(S), NEW t, Len(s) > 0, s[1] = t,
         \A i \in 1..Len(s) : s[i] = t => i = 1
  PROVE  /\ RemoveFirst(s, t) \in Seq(S) /\ Len(RemoveFirst(s, t)) = Len(s) - 1
         /\ \A i \in 1..(Len(s) - 1) : RemoveFirst(s, t)[i] = s[i + 1]
<1>0. Len(s) \in Nat /\ 1 \in 1..Len(s)
  BY LenProperties
<1> DEFINE at == SelectInSeq(s, LAMBDA v : v = t)
           I == {i \in 1..Len(s) : s[i] = t}
<1>1. I = {1}
  BY <1>0
<1>2. Min(I) = 1
  BY <1>1 DEF Min
<1>3. at = IF I # {} THEN Min(I) ELSE 0
  BY DEF SelectInSeq
<1>4. at = 1
  BY <1>1, <1>2, <1>3
<1>5. RemoveFirst(s, t) = RemoveAt(s, at)
  BY <1>0 DEF RemoveFirst
<1> HIDE DEF at
<1>6. RemoveFirst(s, t) = SubSeq(s, 1, 0) \o SubSeq(s, 2, Len(s))
  BY <1>4, <1>5 DEF RemoveAt
<1>7. SubSeq(s, 1, 0) = <<>>
  BY SubSeqEmpty
<1>8. /\ SubSeq(s, 2, Len(s)) \in Seq(S) /\ Len(SubSeq(s, 2, Len(s))) = Len(s) - 1
      /\ \A i \in 1..(Len(s) - 1) : SubSeq(s, 2, Len(s))[i] = s[i + 1]
  <2>1. 2 \in Int /\ Len(s) \in Int /\ \A i \in 2..Len(s) : s[i] \in S
    BY <1>0, ElementOfSeq
  <2>2. /\ SubSeq(s, 2, Len(s)) \in Seq(S)
        /\ Len(SubSeq(s, 2, Len(s))) = IF 2 <= Len(s) THEN Len(s) - 2 + 1 ELSE 0
        /\ \A i \in 1..(Len(s) - 2 + 1) : SubSeq(s, 2, Len(s))[i] = s[2 + i - 1]
    BY <2>1, SubSeqProperties
  <2>3. /\ Len(s) - 2 + 1 = Len(s) - 1 /\ \A i \in 1..(Len(s) - 1) : 2 + i - 1 = i + 1
        /\ ~(2 <= Len(s)) => Len(s) - 1 = 0
    <3>1. \A k \in Nat : 1 \in 1..k =>
            /\ k - 2 + 1 = k - 1 /\ \A i \in 1..(k - 1) : 2 + i - 1 = i + 1
            /\ ~(2 <= k) => k - 1 = 0
      OBVIOUS
    <3> QED BY <1>0, <3>1
  <2> QED BY <2>2, <2>3
<1>9. <<>> \o SubSeq(s, 2, Len(s)) = SubSeq(s, 2, Len(s))
  BY <1>8, ConcatEmptySeq
<1> QED BY <1>6, <1>7, <1>8, <1>9

\* An event of a grown chain.
CreateOf(u) == Event(Of(u), "Create", Of(u), NoTarget)
AddOf(c, u) == Event(Of(c), "Add", Of(u), Of(c))

\* What emit_put says of a target and ancestors that were not there: their
\* creation, then their links, nearest first.
LEMMA GrowthEvents ==
  ASSUME NEW o, ~IsAux(o), o.target \in Urls, NEW f, NEW n \in 1..Len(o.target.segs),
         f.materialized.created \in Seq(Urls), Len(f.materialized.created) = n,
         DOMAIN f.materialized.linked = 1..n,
         \A i \in 1..n : /\ f.materialized.created[i] = Chain(o.target)[i]
                         /\ f.materialized.linked[i] = <<Chain(o.target)[i + 1], Chain(o.target)[i]>>,
         f.existed = FALSE
  PROVE  /\ emit_post(o, f) = emit_put(o, f)
         /\ DOMAIN emit_put(o, f) = 1..(n + n)
         /\ \A i \in 1..n : emit_put(o, f)[i] = CreateOf(Chain(o.target)[i])
         /\ \A i \in 1..n : emit_put(o, f)[n + i] = AddOf(Chain(o.target)[i + 1], Chain(o.target)[i])
<1> DEFINE t == o.target
           ch == Chain(t)
           m == f.materialized
           others == RemoveFirst(m.created, t)
           C == [i \in DOMAIN others |-> publish_own(Of(others[i]), "Create")]
           A == [i \in DOMAIN m.linked |-> Member("Add", m.linked[i][1], m.linked[i][2])]
           own == publish_own(Of(t), "Create")
           E == emit_put(o, f)
<1>t. t \in Urls /\ n \in 1..Len(t.segs) /\ m.created \in Seq(Urls) /\ Len(m.created) = n
  OBVIOUS
<1>0. Len(t.segs) \in Nat /\ n \in Nat /\ n >= 1 /\ ch[1] = t
  <2>1. Len(t.segs) \in Nat /\ ch[1] = t
    BY <1>t, UrlShape, ChainShape
  <2> QED BY <1>t, <2>1
<1>1. ASSUME NEW i \in 1..Len(m.created), m.created[i] = t PROVE i = 1
  <2>1. ch[i] = ch[1] /\ i \in 1..(Len(t.segs) + 1) /\ 1 \in 1..(Len(t.segs) + 1)
    BY <1>0, <1>1
  <2> QED BY <2>1, ChainDistinct
<1>2. m.created[1] = t /\ Len(m.created) > 0
  <2>1. 1 \in 1..n
    BY <1>0
  <2> QED BY <1>0, <2>1
<1>3. /\ others \in Seq(Urls) /\ Len(others) = n - 1
      /\ \A i \in 1..(n - 1) : others[i] = m.created[i + 1]
  <2> DEFINE c == m.created
  <2>1. c \in Seq(Urls) /\ Len(c) > 0 /\ c[1] = t /\ (\A i \in 1..Len(c) : c[i] = t => i = 1)
    BY <1>t, <1>1, <1>2
  <2> HIDE DEF c
  <2>2. /\ RemoveFirst(c, t) \in Seq(Urls) /\ Len(RemoveFirst(c, t)) = Len(c) - 1
        /\ \A i \in 1..(Len(c) - 1) : RemoveFirst(c, t)[i] = c[i + 1]
    BY <2>1, TargetIsSkipped
  <2> QED BY <1>t, <2>2 DEF c
<1>4. DOMAIN others = 1..(n - 1)
  BY <1>0, <1>3, LenProperties
<1>5. \A i \in 1..(n - 1) : others[i] = ch[i + 1]
  <2>1. ASSUME NEW i \in 1..(n - 1) PROVE i + 1 \in 1..n
    BY <1>0
  <2> QED BY <1>3, <2>1
<1>6. E = <<own>> \o (C \o A)
  BY DEF emit_put, publish_containment, Topic, IsAux
<1>7. emit_post(o, f) = E
  BY DEF emit_post, emit_put, Topic, IsAux
<1>8. C = [i \in 1..(n - 1) |-> CreateOf(ch[i + 1])]
  <2> HIDE DEF others, ch
  <2> QED BY <1>4, <1>5 DEF publish_own, CreateOf
<1>9. A = [i \in 1..n |-> AddOf(ch[i + 1], ch[i])]
  <2>1. ASSUME NEW i \in 1..n PROVE m.linked[i][1] = ch[i + 1] /\ m.linked[i][2] = ch[i]
    OBVIOUS
  <2> HIDE DEF ch
  <2> QED BY <2>1 DEF Member, AddOf
<1>10. own = CreateOf(t)
  BY DEF publish_own, CreateOf
<1> DEFINE V == {CreateOf(ch[i]) : i \in 1..n} \cup {AddOf(ch[i + 1], ch[i]) : i \in 1..n}
<1>11. own \in V
  BY <1>0, <1>10
<1>12. C \in Seq(V) /\ Len(C) = n - 1 /\ \A i \in 1..(n - 1) : C[i] = CreateOf(ch[i + 1])
  <2>1. ASSUME NEW i \in 1..(n - 1) PROVE CreateOf(ch[i + 1]) \in V
    <3>1. i + 1 \in 1..n
      BY <1>0
    <3> QED BY <3>1
  <2> DEFINE D == [i \in 1..(n - 1) |-> CreateOf(ch[i + 1])]
  <2> HIDE DEF V, C, ch
  <2>2. n - 1 \in Nat
    BY <1>0
  <2>3. D \in Seq(V) /\ Len(D) = n - 1 /\ \A i \in 1..(n - 1) : D[i] = CreateOf(ch[i + 1])
    BY <2>1, <2>2
  <2> QED BY <1>8, <2>3
<1>13. A \in Seq(V) /\ Len(A) = n /\ \A i \in 1..n : A[i] = AddOf(ch[i + 1], ch[i])
  <2>1. ASSUME NEW i \in 1..n PROVE AddOf(ch[i + 1], ch[i]) \in V
    OBVIOUS
  <2> DEFINE D == [i \in 1..n |-> AddOf(ch[i + 1], ch[i])]
  <2> HIDE DEF V, A, ch
  <2>3. D \in Seq(V) /\ Len(D) = n /\ \A i \in 1..n : D[i] = AddOf(ch[i + 1], ch[i])
    BY <1>0, <2>1
  <2> QED BY <1>9, <2>3
<1> HIDE DEF V, C, A, own, ch, t, E, others, m
<1>14. /\ C \o A \in Seq(V) /\ Len(C \o A) = (n - 1) + n
       /\ \A i \in 1..(n - 1) : (C \o A)[i] = C[i]
       /\ \A i \in 1..n : (C \o A)[(n - 1) + i] = A[i]
  <2>1. /\ C \o A \in Seq(V) /\ Len(C \o A) = Len(C) + Len(A)
        /\ \A i \in 1..(Len(C) + Len(A)) :
             (C \o A)[i] = IF i <= Len(C) THEN C[i] ELSE A[i - Len(C)]
    BY <1>12, <1>13, ConcatProperties
  <2>2. /\ \A i \in 1..(n - 1) : i \in 1..((n - 1) + n) /\ i <= n - 1
        /\ \A i \in 1..n : /\ (n - 1) + i \in 1..((n - 1) + n) /\ ~((n - 1) + i <= n - 1)
                            /\ ((n - 1) + i) - (n - 1) = i
    BY <1>0
  <2>3. /\ C \o A \in Seq(V) /\ Len(C \o A) = (n - 1) + n
        /\ \A i \in 1..((n - 1) + n) :
             (C \o A)[i] = IF i <= n - 1 THEN C[i] ELSE A[i - (n - 1)]
    BY <1>12, <1>13, <2>1
  <2> DEFINE B == C \o A
  <2> HIDE DEF B
  <2>4. \A i \in 1..(n - 1) : B[i] = C[i]
    BY <2>2, <2>3, Zenon DEF B
  <2>5. ASSUME NEW i \in 1..n PROVE B[(n - 1) + i] = A[i]
    <3>1. B[(n - 1) + i] = A[((n - 1) + i) - (n - 1)]
      BY <2>2, <2>3, Zenon DEF B
    <3> QED BY <2>2, <3>1
  <2> QED BY <2>3, <2>4, <2>5 DEF B
<1>15. /\ E \in Seq(V) /\ Len(E) = 1 + ((n - 1) + n) /\ E[1] = own
       /\ \A i \in 1..((n - 1) + n) : E[1 + i] = (C \o A)[i]
  <2> DEFINE B == C \o A
  <2> HIDE DEF B
  <2>1. B \in Seq(V) /\ Len(B) \in Nat
    BY <1>14, LenProperties DEF B
  <2>2. /\ <<own>> \o B \in Seq(V) /\ Len(<<own>> \o B) = 1 + Len(B) /\ (<<own>> \o B)[1] = own
        /\ \A i \in 1..Len(B) : (<<own>> \o B)[1 + i] = B[i]
    BY <1>11, <2>1
  <2>3. E = <<own>> \o B /\ Len(B) = (n - 1) + n
    BY <1>6, <1>14 DEF B
  <2>4. \A i \in 1..((n - 1) + n) : E[1 + i] = B[i]
    BY <2>2, <2>3
  <2> QED BY <2>2, <2>3, <2>4 DEF B
<1>16. DOMAIN E = 1..(n + n)
  <2>1. 1 + ((n - 1) + n) = n + n /\ n + n \in Nat
    BY <1>0
  <2> QED BY <1>15, <2>1, LenProperties
<1>17. ASSUME NEW i \in 1..n PROVE E[i] = CreateOf(ch[i])
  <2>1. CASE i = 1
    BY <1>0, <1>10, <1>15, <2>1 DEF t
  <2>2. CASE i # 1
    <3>1. i - 1 \in 1..(n - 1) /\ i - 1 \in 1..((n - 1) + n) /\ 1 + (i - 1) = i /\ (i - 1) + 1 = i
      BY <1>0, <2>2
    <3>2. E[1 + (i - 1)] = (C \o A)[i - 1] /\ (C \o A)[i - 1] = C[i - 1]
      BY <1>14, <1>15, <3>1
    <3>3. C[i - 1] = CreateOf(ch[(i - 1) + 1])
      BY <1>12, <3>1
    <3> QED BY <3>1, <3>2, <3>3
  <2> QED BY <2>1, <2>2
<1>18. ASSUME NEW i \in 1..n PROVE E[n + i] = AddOf(ch[i + 1], ch[i])
  <2>1. (n - 1) + i \in 1..((n - 1) + n) /\ 1 + ((n - 1) + i) = n + i
    BY <1>0
  <2>2. E[1 + ((n - 1) + i)] = (C \o A)[(n - 1) + i]
    BY <1>15, <2>1
  <2>3. (C \o A)[(n - 1) + i] = A[i]
    BY <1>14
  <2> QED BY <1>13, <2>1, <2>2, <2>3
<1> QED BY <1>7, <1>16, <1>17, <1>18 DEF E, ch, t

\* What a growth changes: each URL of it comes into being, each is linked.
LEMMA GrowthChanges ==
  ASSUME NEW o, o.target \in Urls, NEW f, NEW old, NEW new, NEW n,
         Foreseen(o, f, old, n), Gained(o, old, new, 1..n, n)
  PROVE  Changes(old, new) =
           {CreateOf(Chain(o.target)[i]) : i \in 1..n}
           \cup {AddOf(Chain(o.target)[i + 1], Chain(o.target)[i]) : i \in 1..n}
<1> DEFINE t == o.target
           ch == Chain(t)
<1>0. /\ n \in 0..Len(t.segs) /\ Len(t.segs) \in Nat /\ n \in Nat
      /\ \A i \in 1..n : ch[i] \notin old.present /\ ch[i] \notin old.contains[ch[i + 1]]
  <2>1. /\ n \in 0..Len(t.segs)
        /\ \A i \in 1..n : ch[i] \notin old.present /\ ch[i] \notin old.contains[ch[i + 1]]
    BY DEF Foreseen
  <2>2. Len(t.segs) \in Nat
    BY UrlShape
  <2> QED BY <2>1, <2>2
<1>1. \A i \in 1..n : ch[i + 1] \in Containers
  <2>1. ASSUME NEW i \in 1..n PROVE i \in 1..Len(t.segs)
    BY <1>0
  <2> QED BY <2>1, ChainSteps
<1> DEFINE Links(c) == {ch[i] : i \in {j \in 1..n : ch[j + 1] = c}}
<1>2. /\ new.present = old.present \cup {ch[i] : i \in 1..n}
      /\ \A c \in Containers : new.contains[c] = old.contains[c] \cup Links(c)
      /\ new.marked = old.marked
  BY DEF Gained
<1> HIDE DEF ch
<1>3. /\ new.present \ old.present = {ch[i] : i \in 1..n} /\ old.present \ new.present = {}
      /\ new.marked \ old.marked = {} /\ old.marked \ new.marked = {}
  BY <1>0, <1>2
<1>4. \A c \in Containers : /\ new.contains[c] \ old.contains[c] = Links(c)
                            /\ old.contains[c] \ new.contains[c] = {}
  BY <1>0, <1>2
<1> HIDE DEF Links
<1> DEFINE New == {Event(Of(u), "Create", Of(u), NoTarget) : u \in new.present \ old.present}
           Add == UNION {{Event(Of(c), "Add", Of(u), Of(c)) : u \in new.contains[c] \ old.contains[c]} : c \in Containers}
<1>5. New = {CreateOf(ch[i]) : i \in 1..n}
  BY <1>3 DEF CreateOf
<1>6. Add = {AddOf(ch[i + 1], ch[i]) : i \in 1..n}
  <2>1. Add = UNION {{AddOf(c, u) : u \in Links(c)} : c \in Containers}
    BY <1>4 DEF AddOf
  <2>2. ASSUME NEW e \in Add PROVE e \in {AddOf(ch[i + 1], ch[i]) : i \in 1..n}
    <3>1. PICK c \in Containers : \E u \in Links(c) : e = AddOf(c, u)
      BY <2>1, <2>2
    <3> QED BY <3>1 DEF Links
  <2>3. ASSUME NEW i \in 1..n PROVE AddOf(ch[i + 1], ch[i]) \in Add
    BY <1>1, <2>1 DEF Links
  <2> QED BY <2>2, <2>3
<1> DEFINE Gone == {Event(Of(u), "Delete", Of(u), NoTarget) : u \in old.present \ new.present}
           Acl == {Event(AclOf(u), "Create", AclOf(u), NoTarget) : u \in new.marked \ old.marked}
           NoAcl == {Event(AclOf(u), "Delete", AclOf(u), NoTarget) : u \in old.marked \ new.marked}
           Rem == UNION {{Event(Of(c), "Remove", Of(u), Of(c)) : u \in old.contains[c] \ new.contains[c]} : c \in Containers}
<1>7. Gone = {} /\ Acl = {} /\ NoAcl = {} /\ Rem = {}
  BY <1>3, <1>4
<1>8. Changes(old, new) = New \cup Gone \cup Acl \cup NoAcl \cup Add \cup Rem
  BY Zenon DEF Changes
<1> HIDE DEF New, Gone, Acl, NoAcl, Add, Rem
<1> QED BY <1>5, <1>6, <1>7, <1>8 DEF ch

\* A write that creates its target tells what it changed, once.
LEMMA CreationIsTold ==
  ASSUME NEW o, ~IsAux(o), o.target \in Urls, NEW f, NEW old, NEW new, NEW n, n # 0,
         Foreseen(o, f, old, n), Gained(o, old, new, 1..n, n)
  PROVE  Tells(emit_put(o, f), o, old, new) /\ emit_post(o, f) = emit_put(o, f)
<1> DEFINE t == o.target
           ch == Chain(t)
           E == emit_put(o, f)
<1>0. /\ n \in 1..Len(t.segs) /\ n \in Nat /\ Len(t.segs) \in Nat /\ f.existed = FALSE
      /\ t \notin old.present
  <2>1. n \in 0..Len(t.segs) /\ Len(t.segs) \in Nat /\ f.existed = FALSE
    BY UrlShape DEF Foreseen
  <2>2. n \in 1..Len(t.segs) /\ n \in Nat /\ 1 \in 1..n
    BY <2>1
  <2>3. ch[1] = t /\ ch[1] \notin old.present
    BY <2>2, ChainShape DEF Foreseen
  <2> QED BY <2>1, <2>2, <2>3
<1>1. /\ emit_post(o, f) = E /\ DOMAIN E = 1..(n + n)
      /\ \A i \in 1..n : E[i] = CreateOf(ch[i])
      /\ \A i \in 1..n : E[n + i] = AddOf(ch[i + 1], ch[i])
  <2>1. /\ f.materialized.created \in Seq(Urls) /\ Len(f.materialized.created) = n
        /\ DOMAIN f.materialized.linked = 1..n
        /\ \A i \in 1..n : /\ f.materialized.created[i] = ch[i]
                           /\ f.materialized.linked[i] = <<ch[i + 1], ch[i]>>
    BY DEF Foreseen
  <2>2. ~IsAux(o) /\ o.target \in Urls /\ n \in 1..Len(o.target.segs) /\ f.existed = FALSE
    BY <1>0
  <2> HIDE DEF E, t, ch
  <2>3. /\ emit_post(o, f) = emit_put(o, f)
        /\ DOMAIN emit_put(o, f) = 1..(n + n)
        /\ \A i \in 1..n : emit_put(o, f)[i] = CreateOf(Chain(o.target)[i])
        /\ \A i \in 1..n : emit_put(o, f)[n + i] = AddOf(Chain(o.target)[i + 1], Chain(o.target)[i])
    <3>1. \A i \in 1..n : /\ f.materialized.created[i] = Chain(o.target)[i]
                          /\ f.materialized.linked[i] = <<Chain(o.target)[i + 1], Chain(o.target)[i]>>
      BY <2>1 DEF ch, t
    <3> QED BY <2>1, <2>2, <3>1, GrowthEvents
  <2> QED BY <2>3 DEF E, ch, t
<1>2. Changes(old, new) = {CreateOf(ch[i]) : i \in 1..n} \cup {AddOf(ch[i + 1], ch[i]) : i \in 1..n}
  BY GrowthChanges
<1>3. Updates(o, old, new) = {}
  BY <1>0 DEF Updates
<1>4. ASSUME NEW i \in 1..n, NEW j \in 1..n, ch[i] = ch[j] PROVE i = j
  <2>1. i \in 1..(Len(t.segs) + 1) /\ j \in 1..(Len(t.segs) + 1)
    BY <1>0
  <2> QED BY <1>4, <2>1, ChainDistinct
<1>5. /\ \A u, v : CreateOf(u) = CreateOf(v) => u = v
      /\ \A c, d, u, v : AddOf(c, u) = AddOf(d, v) => u = v
      /\ \A c, u, v : CreateOf(u) # AddOf(c, v)
  BY DEF CreateOf, AddOf, Event, Of
<1> HIDE DEF E, ch
<1>6. ASSUME NEW i \in 1..(n + n)
      PROVE  i \in 1..n \/ \E k \in 1..n : i = n + k
  <2>1. CASE i <= n
    BY <1>0, <2>1
  <2>2. CASE ~(i <= n)
    <3>1. i - n \in 1..n /\ i = n + (i - n)
      BY <1>0, <2>2
    <3> QED BY <3>1
  <2> QED BY <2>1, <2>2
<1>7. \A i, j \in 1..(n + n) : E[i] = E[j] => i = j
  <2> SUFFICES ASSUME NEW i \in 1..(n + n), NEW j \in 1..(n + n), E[i] = E[j] PROVE i = j
    OBVIOUS
  <2>1. CASE i \in 1..n /\ j \in 1..n
    BY <1>1, <1>4, <1>5, <2>1
  <2>2. CASE i \in 1..n /\ \E k \in 1..n : j = n + k
    BY <1>1, <1>5, <2>2
  <2>3. CASE j \in 1..n /\ \E k \in 1..n : i = n + k
    BY <1>1, <1>5, <2>3
  <2>4. CASE (\E k \in 1..n : i = n + k) /\ (\E k \in 1..n : j = n + k)
    BY <1>1, <1>4, <1>5, <2>4
  <2> QED BY <1>6, <2>1, <2>2, <2>3, <2>4
<1>8. ToSet(E) = {CreateOf(ch[i]) : i \in 1..n} \cup {AddOf(ch[i + 1], ch[i]) : i \in 1..n}
  <2>1. ToSet(E) = {E[i] : i \in 1..(n + n)}
    BY <1>1 DEF ToSet
  <2>2. \A i \in 1..n : i \in 1..(n + n) /\ n + i \in 1..(n + n)
    BY <1>0
  <2> QED BY <1>1, <1>6, <2>1, <2>2
<1>9. Tells(E, o, old, new)
  BY <1>1, <1>2, <1>3, <1>7, <1>8 DEF Tells
<1> QED BY <1>1, <1>9 DEF E

\* With nothing to create there is one event.
LEMMA NothingToCreate ==
  ASSUME NEW o, NEW f, f.materialized = NothingMaterialized
  PROVE  emit_put(o, f) = <<publish_own(Topic(o), IF f.existed THEN "Update" ELSE "Create")>>
<1> DEFINE m == f.materialized
           others == RemoveFirst(m.created, o.target)
           C == [i \in DOMAIN others |-> publish_own(Of(others[i]), "Create")]
           A == [i \in DOMAIN m.linked |-> Member("Add", m.linked[i][1], m.linked[i][2])]
           own == publish_own(Topic(o), IF f.existed THEN "Update" ELSE "Create")
<1>1. m.created = <<>> /\ m.linked = <<>>
  BY DEF NothingMaterialized
<1>2. others = <<>>
  BY <1>1 DEF RemoveFirst
<1>3. C = <<>> /\ A = <<>>
  BY <1>1, <1>2
<1>4. emit_put(o, f) = <<own>> \o (C \o A)
  BY DEF emit_put, publish_containment
<1> HIDE DEF C, A, own
<1> QED BY <1>3, <1>4 DEF own

\* A list of one event says nothing twice.
LEMMA OneEvent ==
  ASSUME NEW e, NEW o, NEW old, NEW new, Changes(old, new) \cup Updates(o, old, new) = {e}
  PROVE  Tells(<<e>>, o, old, new)
<1>1. DOMAIN <<e>> = {1} /\ <<e>>[1] = e
  OBVIOUS
<1>2. ToSet(<<e>>) = {e}
  BY <1>1 DEF ToSet
<1> QED BY <1>1, <1>2 DEF Tells

\* A store that stays as it was has not changed.
LEMMA NothingChanges ==
  ASSUME NEW old, NEW new, new.present = old.present, new.marked = old.marked,
         \A c \in Containers : new.contains[c] = old.contains[c]
  PROVE  Changes(old, new) = {}
BY DEF Changes

\* A write of what was there is an Update.
LEMMA UpdateIsTold ==
  ASSUME NEW o, ~IsAux(o), o.target \in Urls, NEW f, NEW old, NEW new,
         Foreseen(o, f, old, 0), Gained(o, old, new, 1..0, 0)
  PROVE  Tells(emit_put(o, f), o, old, new)
<1> DEFINE t == o.target
<1>1. t \in old.present /\ f.existed = TRUE
  <2>1. Chain(t)[1] = t
    BY ChainShape
  <2>2. Chain(t)[0 + 1] \in old.present /\ 0 + 1 = 1
    BY DEF Foreseen
  <2>3. f.existed = TRUE
    BY DEF Foreseen
  <2> QED BY <2>1, <2>2, <2>3
<1>2. /\ new.present = old.present /\ new.marked = old.marked
      /\ \A c \in Containers : new.contains[c] = old.contains[c]
  BY DEF Gained
<1>3. Changes(old, new) = {}
  BY <1>2, NothingChanges
<1>4. Updates(o, old, new) = {Event(Topic(o), "Update", Topic(o), NoTarget)}
  BY <1>1, <1>2 DEF Updates
<1>5. f.materialized.created = <<>> /\ DOMAIN f.materialized.linked = {}
  <2>1. f.materialized.created \in Seq(Urls) /\ Len(f.materialized.created) = 0
        /\ DOMAIN f.materialized.linked = 1..0
    BY DEF Foreseen
  <2> QED BY <2>1, EmptySeq
<1>6. emit_put(o, f) = <<publish_own(Topic(o), "Update")>>
  <2> DEFINE m == f.materialized
             others == RemoveFirst(m.created, t)
             C == [i \in DOMAIN others |-> publish_own(Of(others[i]), "Create")]
             A == [i \in DOMAIN m.linked |-> Member("Add", m.linked[i][1], m.linked[i][2])]
             own == publish_own(Topic(o), "Update")
  <2>1. others = <<>>
    BY <1>5 DEF RemoveFirst
  <2>2. C = <<>> /\ A = <<>>
    BY <1>5, <2>1
  <2>3. emit_put(o, f) = <<own>> \o (C \o A)
    BY <1>1 DEF emit_put, publish_containment
  <2> HIDE DEF C, A, own
  <2> QED BY <2>2, <2>3 DEF own
<1> QED BY <1>3, <1>4, <1>6, OneEvent DEF publish_own

\* An ACL written or patched is created or updated.
LEMMA AclWriteIsTold ==
  ASSUME NEW o, IsAux(o), NEW f, f.materialized = NothingMaterialized, NEW old, NEW new,
         f.existed = (o.target \in old.marked), new.present = old.present,
         new.contains = old.contains, new.marked = old.marked \cup {o.target}
  PROVE  Tells(emit_put(o, f), o, old, new)
<1> DEFINE t == o.target
           a == AclOf(t)
<1>0. Topic(o) = a
  BY DEF Topic
<1>1. emit_put(o, f) = <<publish_own(a, IF f.existed THEN "Update" ELSE "Create")>>
  BY <1>0, NothingToCreate
<1>2. CASE t \in old.marked
  <2>1. new.marked = old.marked
    BY <1>2
  <2>2. Changes(old, new) = {}
    BY <2>1, NothingChanges
  <2>3. Updates(o, old, new) = {Event(a, "Update", a, NoTarget)}
    BY <1>0, <1>2, <2>1 DEF Updates
  <2>4. emit_put(o, f) = <<Event(a, "Update", a, NoTarget)>>
    BY <1>1, <1>2 DEF publish_own
  <2> QED BY <2>2, <2>3, <2>4, OneEvent
<1>3. CASE t \notin old.marked
  <2>1. new.marked \ old.marked = {t} /\ old.marked \ new.marked = {}
    BY <1>3
  <2>2. Changes(old, new) = {Event(a, "Create", a, NoTarget)}
    BY <2>1 DEF Changes
  <2>3. Updates(o, old, new) = {}
    BY <1>3 DEF Updates
  <2>4. emit_put(o, f) = <<Event(a, "Create", a, NoTarget)>>
    BY <1>1, <1>3 DEF publish_own
  <2> QED BY <2>2, <2>3, <2>4, OneEvent
<1> QED BY <1>2, <1>3

\* An ACL removed by itself is nobody's member.
LEMMA AclRemovalIsTold ==
  ASSUME NEW o, o.method = "DELETE_acl", NEW f, f.auxes = {}, NEW old, NEW new,
         o.target \in old.marked, new.present = old.present,
         new.contains = old.contains, new.marked = old.marked \ {o.target}
  PROVE  Tells(emit_delete(o, f), o, old, new)
<1> DEFINE t == o.target
           a == AclOf(t)
<1>0. Topic(o) = a /\ IsAux(o)
  BY DEF Topic, IsAux, AuxMethods
<1>1. new.marked \ old.marked = {} /\ old.marked \ new.marked = {t} /\ t \notin new.marked
  OBVIOUS
<1>2. Changes(old, new) = {Event(a, "Delete", a, NoTarget)}
  BY <1>1 DEF Changes
<1>3. Updates(o, old, new) = {}
  BY <1>0, <1>1 DEF Updates
<1>4. emit_delete(o, f) = <<Event(a, "Delete", a, NoTarget)>>
  <2> DEFINE e == Event(a, "Delete", a, NoTarget)
  <2>1. emit_delete(o, f) = <<e>> \o <<>> \o <<>>
    BY <1>0 DEF emit_delete, publish_own
  <2> HIDE DEF e
  <2> QED BY <2>1 DEF e
<1> QED BY <1>2, <1>3, <1>4, OneEvent

\* One event after others.
LEMMA OneMore ==
  ASSUME NEW V, NEW D \in Seq(V), NEW c \in V
  PROVE  /\ D \o <<c>> \in Seq(V) /\ DOMAIN (D \o <<c>>) = 1..(Len(D) + 1)
         /\ \A i \in 1..Len(D) : (D \o <<c>>)[i] = D[i]
         /\ (D \o <<c>>)[Len(D) + 1] = c
<1> DEFINE C == <<c>>
           E == D \o C
<1>0. Len(D) \in Nat
  BY LenProperties
<1>1. C \in Seq(V) /\ Len(C) = 1 /\ C[1] = c
  OBVIOUS
<1> HIDE DEF C
<1>2. /\ E \in Seq(V) /\ Len(E) = Len(D) + Len(C)
      /\ \A i \in 1..(Len(D) + Len(C)) : E[i] = IF i <= Len(D) THEN D[i] ELSE C[i - Len(D)]
  BY <1>1, ConcatProperties
<1>3. DOMAIN E = 1..(Len(D) + 1)
  BY <1>1, <1>2, LenProperties
<1> QED BY <1>0, <1>1, <1>2, <1>3 DEF C

\* A resource removed goes with its ACL and its link.
LEMMA RemovalIsTold ==
  ASSUME NEW o, o.method = "DELETE", o.target \in Urls, o.target # Root, NEW f, NEW old, NEW new,
         f.auxes = old.marked \cap {o.target}, o.target \in old.present,
         o.target \in old.contains[parent(o.target)],
         o.target \in Containers => old.contains[o.target] = {},
         new.present = old.present \ {o.target}, new.marked = old.marked \ {o.target},
         \A c \in Containers :
           new.contains[c] = IF c = o.target THEN {}
                             ELSE IF c = parent(o.target) THEN old.contains[c] \ {o.target}
                             ELSE old.contains[c]
  PROVE  Tells(emit_delete(o, f), o, old, new)
<1> DEFINE t == o.target
           p == parent(t)
           gone == Event(Of(t), "Delete", Of(t), NoTarget)
           acl == Event(AclOf(t), "Delete", AclOf(t), NoTarget)
           rem == Event(Of(p), "Remove", Of(t), Of(p))
<1>0. Topic(o) = Of(t) /\ ~IsAux(o)
  BY DEF Topic, IsAux, AuxMethods
<1>1. p \in Containers /\ p # t
  <2>1. p \in Containers /\ Len(p.segs) = Len(t.segs) - 1 /\ Len(t.segs) \in Nat
    BY ChainEnds, UrlShape
  <2> QED BY <2>1
<1>2. /\ new.present \ old.present = {} /\ old.present \ new.present = {t}
      /\ new.marked \ old.marked = {} /\ old.marked \ new.marked = old.marked \cap {t}
      /\ t \notin new.present
  OBVIOUS
<1>3. \A c \in Containers : /\ new.contains[c] \ old.contains[c] = {}
                            /\ old.contains[c] \ new.contains[c] = IF c = p THEN {t} ELSE {}
  BY <1>1
<1> DEFINE New == {Event(Of(u), "Create", Of(u), NoTarget) : u \in new.present \ old.present}
           Gone == {Event(Of(u), "Delete", Of(u), NoTarget) : u \in old.present \ new.present}
           Acl == {Event(AclOf(u), "Create", AclOf(u), NoTarget) : u \in new.marked \ old.marked}
           NoAcl == {Event(AclOf(u), "Delete", AclOf(u), NoTarget) : u \in old.marked \ new.marked}
           Add == UNION {{Event(Of(c), "Add", Of(u), Of(c)) : u \in new.contains[c] \ old.contains[c]} : c \in Containers}
           Rem == UNION {{Event(Of(c), "Remove", Of(u), Of(c)) : u \in old.contains[c] \ new.contains[c]} : c \in Containers}
<1>4. Changes(old, new) = New \cup Gone \cup Acl \cup NoAcl \cup Add \cup Rem
  BY Zenon DEF Changes
<1>5. New = {} /\ Acl = {} /\ Add = {} /\ Gone = {gone}
  BY <1>2, <1>3
<1>6. NoAcl = IF t \in old.marked THEN {acl} ELSE {}
  BY <1>2
<1>7. Rem = {rem}
  BY <1>1, <1>3
<1>8. Updates(o, old, new) = {}
  BY <1>0, <1>2 DEF Updates
<1>9. emit_delete(o, f) = <<gone>> \o (IF t \in old.marked THEN <<acl>> ELSE <<>>) \o <<rem>>
  BY <1>0 DEF emit_delete, publish_own, Member
<1>10. gone # acl /\ gone # rem /\ acl # rem
  BY DEF Event, Of, AclOf
<1> HIDE DEF New, Gone, Acl, NoAcl, Add, Rem, gone, acl, rem, t, p
<1> DEFINE E == emit_delete(o, f)
           V == {gone, acl, rem}
<1>11. CASE t \in old.marked
  <2> DEFINE D == <<gone>> \o <<acl>>
  <2>1. <<gone>> \in Seq(V) /\ Len(<<gone>>) = 1 /\ gone \in V /\ acl \in V /\ rem \in V
    OBVIOUS
  <2>2. D \in Seq(V) /\ Len(D) = 2 /\ D[1] = gone /\ D[2] = acl
    <3>1. /\ D \in Seq(V) /\ DOMAIN D = 1..(1 + 1)
          /\ (\A i \in 1..1 : D[i] = <<gone>>[i]) /\ D[1 + 1] = acl
      <4> HIDE DEF V
      <4> QED BY <2>1, OneMore
    <3> QED BY <3>1, LenProperties
  <2>3. E = D \o <<rem>>
    BY <1>9, <1>11
  <2> HIDE DEF D, V, E
  <2>4. DOMAIN E = 1..3 /\ E[1] = gone /\ E[2] = acl /\ E[3] = rem
    <3>1. /\ DOMAIN (D \o <<rem>>) = 1..(Len(D) + 1)
          /\ \A i \in 1..Len(D) : (D \o <<rem>>)[i] = D[i]
          /\ (D \o <<rem>>)[Len(D) + 1] = rem
      <4>1. D \in Seq(V) /\ rem \in V
        BY <2>1, <2>2
      <4> QED BY <4>1, OneMore
    <3>2. DOMAIN E = 1..(2 + 1) /\ (\A i \in 1..2 : E[i] = D[i]) /\ E[2 + 1] = rem
      BY <2>2, <2>3, <3>1
    <3> QED BY <2>2, <3>2
  <2>5. Changes(old, new) \cup Updates(o, old, new) = {gone, acl, rem}
    BY <1>4, <1>5, <1>6, <1>7, <1>8, <1>11
  <2>6. DOMAIN E = {1, 2, 3}
    BY <2>4
  <2>7. ToSet(E) = {gone, acl, rem}
    BY <2>4, <2>6 DEF ToSet
  <2> QED BY <1>10, <2>4, <2>5, <2>6, <2>7 DEF Tells, E
<1>12. CASE t \notin old.marked
  <2> DEFINE D == <<gone>> \o <<>>
  <2>1. gone \in V /\ rem \in V /\ D \in Seq(V) /\ Len(D) = 1 /\ D[1] = gone
    OBVIOUS
  <2>3. E = D \o <<rem>>
    BY <1>9, <1>12
  <2> HIDE DEF D, V, E
  <2>4. DOMAIN E = 1..2 /\ E[1] = gone /\ E[2] = rem
    <3>1. /\ DOMAIN (D \o <<rem>>) = 1..(Len(D) + 1)
          /\ \A i \in 1..Len(D) : (D \o <<rem>>)[i] = D[i]
          /\ (D \o <<rem>>)[Len(D) + 1] = rem
      <4>1. D \in Seq(V) /\ rem \in V
        BY <2>1
      <4> QED BY <4>1, OneMore
    <3>2. DOMAIN E = 1..(1 + 1) /\ (\A i \in 1..1 : E[i] = D[i]) /\ E[1 + 1] = rem
      BY <2>1, <2>3, <3>1
    <3> QED BY <2>1, <3>2
  <2>5. Changes(old, new) \cup Updates(o, old, new) = {gone, rem}
    BY <1>4, <1>5, <1>6, <1>7, <1>8, <1>12
  <2>6. DOMAIN E = {1, 2}
    BY <2>4
  <2>7. ToSet(E) = {gone, rem}
    BY <2>4, <2>6 DEF ToSet
  <2> QED BY <1>10, <2>4, <2>5, <2>6, <2>7 DEF Tells, E
<1> QED BY <1>11, <1>12 DEF E

-----------------------------------------------------------------------------
(* One request and its events *)

\* What a step adds to Pod's.
LEMMA EmitFrame ==
  ASSUME EventTypes, NEW r \in Reqs, Emit(r)
  PROVE  /\ EventTypes' /\ was' = was
         /\ facts'[r] = IF Deciding(r) THEN Facts(r) ELSE facts[r]
         /\ published'[r] = IF pc[r] = "replied" THEN <<>>
                            ELSE IF Succeeds(r) THEN Emitted(op[r], facts[r]) ELSE published[r]
         /\ \A q \in Reqs \ {r} : published'[q] = published[q]
BY DEF EventTypes, Emit

\* A step that goes on with the request says nothing yet.
LEMMA GoesOn ==
  ASSUME EventTypes, NEW r \in Reqs, Emit(r), Told(r), pc[r] \notin {"idle", "replied"},
         pc'[r] \notin {"idle", "replied"},
         pc'[r] \in Unwritten => Here' = was[r],
         pc'[r] \in Walking \cup Writing \cup {"type", "patch"} => Grows(r)',
         op'[r].method = "PUT_acl" => op[r].method = "PUT_acl" /\ op'[r].del = op[r].del,
         pc'[r] \in AclLabels => WritesAcl(r)',
         Removes(r)'
  PROVE  Told(r)'
<1>1. was' = was /\ published'[r] = published[r]
  BY EmitFrame DEF Succeeds
<1>2. published[r] = <<>> /\ (op[r].method = "PUT_acl" => op[r].del = {})
  BY DEF Told
<1> QED BY <1>1, <1>2 DEF Told

\* Where a request asks for nothing yet but the guard.
LEMMA AsksOn ==
  ASSUME EventTypes, NEW r \in Reqs, Emit(r), Told(r), pc[r] \notin {"idle", "replied"},
         pc'[r] \in {"markers", "acls", "child_markers", "child_acls"}, Here' = was[r],
         op'[r].method = "PUT_acl" => op[r].method = "PUT_acl" /\ op'[r].del = op[r].del
  PROVE  Told(r)'
<1>1. /\ pc'[r] \notin {"idle", "replied"} /\ pc'[r] \notin AclLabels
      /\ pc'[r] \notin Walking \cup Writing \cup {"type", "patch"}
  BY DEF AclLabels, Walking, Writing
<1>2. Removes(r)'
  BY DEF Removes, Deleting
<1> QED BY <1>1, <1>2, GoesOn

\* An answer's label.
LEMMA AnswerLabels ==
  ASSUME IInv, NEW r \in Reqs, NEW w, Answer(r, w)
  PROVE  pc'[r] = "replied" /\ reply'[r] = w
BY DEF Answer, Goto, IInv, TypeOK

\* At the answer there is nothing left to do.
LEMMA AnswerRests ==
  ASSUME NEW r \in Reqs, pc'[r] = "replied", Accounts(r)',
         op'[r].method = "PUT_acl" => op'[r].del = {}
  PROVE  Told(r)'
<1>1. /\ pc'[r] \notin AclLabels /\ pc'[r] \notin Unwritten
      /\ pc'[r] \notin Walking \cup Writing \cup {"type", "patch"}
  BY DEF AclLabels, Unwritten, Walking, Writing
<1>2. Removes(r)'
  BY DEF Removes, Deleting
<1> QED BY <1>1, <1>2 DEF Told

\* A failure that changed nothing says nothing.
LEMMA FailureTold ==
  ASSUME IInv, EventTypes, NEW r \in Reqs, Emit(r), Told(r), pc[r] \notin {"idle", "replied"},
         NEW w, w # "ok", Answer(r, w), op' = op, Here' = was[r]
  PROVE  Told(r)'
<1>1. pc'[r] = "replied" /\ reply'[r] = w
  BY AnswerLabels
<1>2. was' = was /\ published'[r] = published[r]
  BY <1>1, EmitFrame DEF Succeeds
<1>3. published[r] = <<>> /\ (op[r].method = "PUT_acl" => op[r].del = {})
  BY DEF Told
<1>4. Accounts(r)'
  BY <1>1, <1>2, <1>3 DEF Accounts
<1> QED BY <1>1, <1>3, <1>4, AnswerRests

\* A success says what the emit says.
LEMMA SuccessTold ==
  ASSUME IInv, EventTypes, NEW r \in Reqs, Emit(r), Told(r), pc[r] \notin {"idle", "replied"},
         Answer(r, "ok"), op' = op, Tells(Emitted(op[r], facts[r]), op[r], was[r], Here')
  PROVE  Told(r)'
<1>1. pc'[r] = "replied" /\ reply'[r] = "ok"
  BY AnswerLabels
<1>2. was' = was /\ published'[r] = Emitted(op[r], facts[r])
  BY <1>1, EmitFrame DEF Succeeds
<1>3. op[r].method = "PUT_acl" => op[r].del = {}
  BY DEF Told
<1>4. Accounts(r)'
  BY <1>1, <1>2 DEF Accounts, Tells, Changes, Updates
<1> QED BY <1>1, <1>3, <1>4, AnswerRests

\* The store as the events see it.
LEMMA HereStays ==
  ASSUME present' = present, contains' = contains, marked' = marked
  PROVE  Here' = Here
BY DEF Here

\* The labels of the guard, and those a failure leaves from.
LEMMA AskingLabels ==
  ASSUME NEW r \in Reqs, Told(r), pc[r] \in Unwritten
  PROVE  pc[r] \notin {"idle", "replied"} /\ Here = was[r]
BY DEF Told, Unwritten

\* The guard's queries and its refusals.
LEMMA GuardTold ==
  ASSUME IInv, EventTypes, NEW r \in Reqs, Alone(r), Told(r), Emit(r),
         ProbeMarkers(r) \/ Deny(r) \/ Refuse(r) \/ DecidePost(r) \/ Rename(r)
  PROVE  Told(r)'
<1>t. pc \in [Reqs -> Labels] /\ op \in [Reqs -> Operation]
  BY DEF IInv, TypeOK
<1>1. pc[r] \in Unwritten /\ present' = present /\ contains' = contains /\ marked' = marked
  BY DEF ProbeMarkers, Deny, Refuse, Unfit, DecidePost, Rename, IsTaken, store, Unwritten
<1>2. pc[r] \notin {"idle", "replied"} /\ Here' = was[r]
  BY <1>1, AskingLabels, HereStays
<1>3. CASE ProbeMarkers(r)
  <2>1. pc'[r] \in {"acls", "child_acls"} /\ op' = op
    BY <1>3, <1>t DEF ProbeMarkers, Goto
  <2> QED BY <1>2, <2>1, AsksOn
<1>4. CASE Deny(r) \/ Refuse(r)
  <2>1. op' = op /\ \E w \in {"denied", "refused"} : Answer(r, w)
    BY <1>4 DEF Deny, Refuse
  <2> QED BY <1>2, <2>1, FailureTold
<1>5. CASE DecidePost(r) \/ Rename(r)
  <2>1. pc'[r] = "child_markers" /\ \E u : op' = [op EXCEPT ![r].target = u]
    BY <1>5, <1>t DEF DecidePost, Rename, Proceed, Goto
  <2>2. PICK u : op' = [op EXCEPT ![r].target = u]
    BY <2>1
  <2>3. op'[r] = [op[r] EXCEPT !.target = u]
    BY <1>t, <2>2
  <2>4. op'[r].method = op[r].method /\ op'[r].del = op[r].del
    BY <1>t, <2>3 DEF Operation
  <2> QED BY <1>2, <2>1, <2>4, AsksOn
<1> QED BY <1>3, <1>4, <1>5

\* The facts of a request that creates nothing.
LEMMA PlainFacts ==
  ASSUME EventTypes, NEW r \in Reqs, Emit(r), Alone(r), IInv, pc[r] = "acls", ~Creating(r)
  PROVE  LET t == op[r].target
         IN /\ facts'[r].materialized = NothingMaterialized
            /\ facts'[r].existed = IF op[r].method = "PATCH_acl" THEN TRUE
                                   ELSE IF IsAux(op[r]) THEN t \in marked ELSE t \in present
            /\ facts'[r].auxes = IF op[r].method = "DELETE" THEN marked \cap {t} ELSE {}
<1> DEFINE t == op[r].target
<1>1. facts'[r] = Facts(r)
  BY EmitFrame DEF Deciding
<1>2. snap[r] = Probe(t) /\ t \in Urls
  BY OpTypes DEF Alone
<1>3. t \in ChainSet(t)
  BY DEF ChainSet
<1>4. (t \in snap[r].present <=> t \in present) /\ (t \in snap[r].acls <=> t \in marked)
  BY <1>2, <1>3 DEF Probe, Probed
<1>5. snap[r].acls \cap {t} = marked \cap {t}
  BY <1>4
<1>6. /\ facts'[r].materialized = NothingMaterialized
      /\ facts'[r].existed = IF op[r].method = "PATCH_acl" THEN TRUE
                             ELSE IF IsAux(op[r]) THEN t \in snap[r].acls ELSE t \in snap[r].present
      /\ facts'[r].auxes = IF op[r].method = "DELETE" THEN snap[r].acls \cap {t} ELSE {}
  BY <1>1 DEF Facts
<1>7. (t \in snap[r].present) = (t \in present) /\ (t \in snap[r].acls) = (t \in marked)
  BY <1>4
<1> QED BY <1>5, <1>6, <1>7, Zenon

\* The steps of a request for an ACL, up to its one write.
LEMMA AclAsksTold ==
  ASSUME IInv, EventTypes, NEW r \in Reqs, Alone(r), Told(r), Emit(r),
         DecideAux(r) \/ AclThere(r) \/ AskDeletions(r) \/ AclFound(r)
  PROVE  Told(r)'
<1> DEFINE t == op[r].target
<1>t. pc \in [Reqs -> Labels] /\ saw \in [Reqs -> BOOLEAN]
  BY DEF IInv, TypeOK
<1>1. /\ pc[r] \in Unwritten /\ present' = present /\ contains' = contains /\ marked' = marked
      /\ op' = op
  BY DEF DecideAux, AclThere, AskDeletions, AclFound, store, Unwritten
<1>2. pc[r] \notin {"idle", "replied"} /\ Here' = was[r] /\ was' = was
  BY <1>1, AskingLabels, HereStays, EmitFrame
<1>f. ASSUME NEW w, w # "ok", Answer(r, w) PROVE Told(r)'
  BY <1>1, <1>2, <1>f, FailureTold
<1>p. ASSUME pc'[r] \in {"acl_there", "acl_ask", "patch_acl"}, op[r].method = "PATCH_acl",
             facts'[r].materialized = NothingMaterialized, facts'[r].existed = TRUE
      PROVE  Told(r)'
  <2>1. WritesAcl(r)'
    BY <1>1, <1>2, <1>p DEF WritesAcl
  <2>2. Removes(r)'
    BY <1>p DEF Removes, Deleting
  <2> QED BY <1>1, <1>2, <1>p, <2>1, <2>2, GoesOn DEF Walking, Writing
<1>d. ASSUME pc'[r] \in {"acl_found", "delete_acl"}, op[r].method = "DELETE_acl",
             facts'[r].auxes = {}, pc'[r] = "delete_acl" => saw'[r] = (t \in marked)
      PROVE  Told(r)'
  <2>1. Removes(r)'
    BY <1>1, <1>d DEF Removes, Deleting
  <2> QED BY <1>1, <1>2, <1>d, <2>1, GoesOn DEF Walking, Writing, AclLabels
<1>3. CASE DecideAux(r)
  <2>1. /\ pc[r] = "acls" /\ op[r].method \in {"PATCH_acl", "DELETE_acl"} /\ ~Creating(r)
        /\ pc'[r] = IF op[r].method = "PATCH_acl" THEN "acl_there" ELSE "acl_found"
    BY <1>3, <1>t DEF DecideAux, Proceed, Goto, Creating
  <2>2. /\ facts'[r].materialized = NothingMaterialized
        /\ op[r].method = "PATCH_acl" => facts'[r].existed = TRUE
        /\ op[r].method = "DELETE_acl" => facts'[r].auxes = {}
    BY <2>1, PlainFacts
  <2> QED BY <1>p, <1>d, <2>1, <2>2
<1>4. CASE AclThere(r) \/ AskDeletions(r)
  <2>1. /\ pc[r] \in {"acl_there", "acl_ask"}
        /\ \/ pc'[r] \in {"acl_ask", "patch_acl"}
           \/ \E w \in {"not_found", "refused"} : Answer(r, w)
    BY <1>4, <1>t DEF AclThere, AskDeletions, Proceed, Goto
  <2>2. facts'[r] = facts[r] /\ WritesAcl(r)
    BY <2>1, EmitFrame DEF Deciding, Told, AclLabels
  <2>3. /\ op[r].method = "PATCH_acl" /\ facts[r].materialized = NothingMaterialized
        /\ facts[r].existed = TRUE
    BY <2>1, <2>2 DEF WritesAcl
  <2> QED BY <1>f, <1>p, <2>1, <2>2, <2>3
<1>5. CASE AclFound(r)
  <2>1. pc[r] = "acl_found" /\ pc'[r] = "delete_acl" /\ saw'[r] = (t \in marked)
    BY <1>5, <1>t DEF AclFound, Goto
  <2>2. facts'[r] = facts[r] /\ op[r].method = "DELETE_acl" /\ facts[r].auxes = {}
    BY <2>1, EmitFrame DEF Deciding, Told, Removes
  <2> QED BY <1>d, <2>1, <2>2
<1> QED BY <1>3, <1>4, <1>5

\* A DELETE up to its one write.
LEMMA DeleteAsksTold ==
  ASSUME IInv, EventTypes, NEW r \in Reqs, Alone(r), Told(r), Emit(r),
         DecideDelete(r) \/ IsEmpty(r) \/ Found(r)
  PROVE  Told(r)'
<1> DEFINE t == op[r].target
<1>t. pc \in [Reqs -> Labels] /\ saw \in [Reqs -> BOOLEAN]
  BY DEF IInv, TypeOK
<1>1. /\ pc[r] \in Unwritten /\ present' = present /\ contains' = contains /\ marked' = marked
      /\ op' = op
  BY DEF DecideDelete, IsEmpty, Found, store, Unwritten
<1>2. pc[r] \notin {"idle", "replied"} /\ Here' = was[r] /\ was' = was
  BY <1>1, AskingLabels, HereStays, EmitFrame
<1>f. ASSUME NEW w, w # "ok", Answer(r, w) PROVE Told(r)'
  BY <1>1, <1>2, <1>f, FailureTold
<1>d. ASSUME pc'[r] \in Deleting, op[r].method = "DELETE",
             facts'[r].auxes = marked \cap {t}, pc'[r] = "delete" => saw'[r] = (t \in present)
      PROVE  Told(r)'
  <2>1. Removes(r)'
    BY <1>1, <1>d DEF Removes, Deleting
  <2> QED BY <1>1, <1>2, <1>d, <2>1, GoesOn DEF Walking, Writing, AclLabels, Deleting
<1>3. CASE DecideDelete(r)
  <2>1. /\ pc[r] = "acls" /\ op[r].method = "DELETE" /\ ~Creating(r)
        /\ Answer(r, "refused") \/ pc'[r] \in {"empty", "found"}
    BY <1>3, <1>t DEF DecideDelete, Proceed, Goto, Creating
  <2>2. facts'[r].auxes = marked \cap {t}
    BY <2>1, PlainFacts
  <2> QED BY <1>f, <1>d, <2>1, <2>2 DEF Deleting
<1>4. CASE IsEmpty(r) \/ Found(r)
  <2>1. /\ pc[r] \in {"empty", "found"}
        /\ Answer(r, "refused") \/ pc'[r] = "found" \/ (pc'[r] = "delete" /\ saw'[r] = (t \in present))
    BY <1>4, <1>t DEF IsEmpty, Found, Proceed, Goto
  <2>2. facts'[r] = facts[r] /\ op[r].method = "DELETE" /\ facts[r].auxes = marked \cap {t}
    BY <2>1, EmitFrame DEF Deciding, Told, Removes, Deleting
  <2> QED BY <1>f, <1>d, <2>1, <2>2 DEF Deleting
<1> QED BY <1>3, <1>4

\* The writes of an ACL: marked by a PUT, only patched by a PATCH.
LEMMA AclWritesTold ==
  ASSUME IInv, EventTypes, NEW r \in Reqs, Told(r), Emit(r), WriteAcl(r) \/ PatchAcl(r)
  PROVE  Told(r)'
<1> DEFINE t == op[r].target
<1>1. /\ pc[r] \in {"write_acl", "patch_acl"} /\ pc'[r] = "confirm" /\ op' = op
      /\ present' = present /\ contains' = contains
  BY DEF WriteAcl, PatchAcl, Goto, IInv, TypeOK
<1>2. /\ Here = was[r] /\ was' = was /\ facts'[r] = facts[r] /\ WritesAcl(r)
  BY <1>1, EmitFrame DEF Told, Unwritten, Deciding, AclLabels
<1>h. was[r].present = present /\ was[r].contains = contains /\ was[r].marked = marked
  BY <1>2 DEF Here
<1>3. WritesAcl(r)'
  <2>1. CASE WriteAcl(r)
    <3>1. pc[r] = "write_acl" /\ (t \in present => marked' = marked \cup {t})
      BY <2>1 DEF WriteAcl
    <3>2. op[r].method = "PUT_acl" /\ t \in present /\ facts[r].existed = (t \in was[r].marked)
      BY <1>2, <3>1 DEF WritesAcl
    <3>3. facts'[r].existed = (t \in was[r].marked)
      BY <1>2, <3>2
    <3> QED BY <1>1, <1>2, <1>h, <3>1, <3>2, <3>3 DEF WritesAcl
  <2>2. CASE PatchAcl(r)
    <3>1. pc[r] = "patch_acl" /\ marked' = marked
      BY <2>2 DEF PatchAcl
    <3>2. op[r].method = "PATCH_acl" /\ facts[r].existed = TRUE
      BY <1>2, <3>1 DEF WritesAcl
    <3>3. Here' = Here
      BY <1>1, <3>1, HereStays
    <3> QED BY <1>1, <1>2, <3>2, <3>3 DEF WritesAcl
  <2> QED BY <2>1, <2>2
<1>4. Removes(r)'
  BY <1>1 DEF Removes, Deleting
<1> QED BY <1>1, <1>3, <1>4, GoesOn DEF Walking, Writing, Unwritten

\* The look at the ACL that settles the answer: a PUT finds it, and a PATCH
\* that finds it and removed what it was to remove has updated it.
LEMMA ConfirmTold ==
  ASSUME IInv, EventTypes, NEW r \in Reqs, Told(r), Emit(r), Confirm(r)
  PROVE  Told(r)'
<1> DEFINE t == op[r].target
           o == op[r]
           w == IF t \notin marked THEN "not_found"
                ELSE IF o.del # {} /\ ~saw[r] THEN "refused" ELSE "ok"
<1>1. /\ pc[r] = "confirm" /\ Answer(r, w) /\ op' = op
      /\ present' = present /\ contains' = contains /\ marked' = marked
  BY DEF Confirm, store
<1>2. WritesAcl(r) /\ (o.method = "PUT_acl" => o.del = {}) /\ Here' = Here
  BY <1>1, HereStays DEF Told, AclLabels
<1>3. /\ facts[r].materialized = NothingMaterialized
      /\ o.method \in {"PUT_acl", "PATCH_acl"} /\ IsAux(o) /\ Emitted(o, facts[r]) = emit_put(o, facts[r])
  <2>1. facts[r].materialized = NothingMaterialized /\ o.method \in {"PUT_acl", "PATCH_acl"}
    BY <1>2 DEF WritesAcl
  <2>2. IsAux(o)
    BY <2>1 DEF IsAux, AuxMethods
  <2>3. Emitted(o, facts[r]) = emit_put(o, facts[r])
    BY <2>1 DEF Emitted
  <2> QED BY <2>1, <2>2, <2>3
<1>4. /\ Here'.present = present /\ Here'.contains = contains /\ Here'.marked = marked
  BY <1>1 DEF Here
<1>5. CASE o.method = "PUT_acl"
  <2>1. /\ facts[r].existed = (t \in was[r].marked) /\ present = was[r].present
        /\ contains = was[r].contains /\ marked = was[r].marked \cup {t}
    BY <1>1, <1>2, <1>5 DEF WritesAcl
  <2>2. w = "ok"
    BY <1>2, <1>5, <2>1
  <2> DEFINE new == Here'
  <2> HIDE DEF new
  <2>3. new.present = was[r].present /\ new.contains = was[r].contains /\ new.marked = was[r].marked \cup {t}
    BY <1>4, <2>1 DEF new
  <2>4. Tells(emit_put(o, facts[r]), o, was[r], new)
    BY <1>3, <2>1, <2>3, AclWriteIsTold
  <2> QED BY <1>1, <1>3, <2>2, <2>4, SuccessTold DEF new
<1>6. CASE o.method = "PATCH_acl"
  <2>1. facts[r].existed = TRUE /\ Here = was[r]
    BY <1>2, <1>6 DEF WritesAcl
  <2>2. CASE w # "ok"
    <3> HIDE DEF w
    <3> QED BY <1>1, <1>2, <2>1, <2>2, FailureTold
  <2>3. CASE w = "ok"
    <3> DEFINE new == Here'
    <3>1. t \in marked
      BY <2>3
    <3> HIDE DEF new
    <3>2. was[r].present = present /\ was[r].contains = contains /\ was[r].marked = marked
      BY <2>1 DEF Here
    <3>3. /\ new.present = was[r].present /\ new.contains = was[r].contains
          /\ new.marked = was[r].marked \cup {t} /\ facts[r].existed = (t \in was[r].marked)
      BY <1>4, <2>1, <3>1, <3>2 DEF new
    <3>4. Tells(emit_put(o, facts[r]), o, was[r], new)
      BY <1>3, <3>3, AclWriteIsTold
    <3> QED BY <1>1, <1>3, <2>3, <3>4, SuccessTold DEF new
  <2> QED BY <2>2, <2>3
<1> QED BY <1>3, <1>5, <1>6

\* An ACL removed by itself.
LEMMA DeleteAclTold ==
  ASSUME IInv, EventTypes, NEW r \in Reqs, Told(r), Emit(r), DeleteAcl(r)
  PROVE  Told(r)'
<1> DEFINE t == op[r].target
           o == op[r]
           w == IF saw[r] THEN "ok" ELSE "not_found"
<1>1. /\ pc[r] = "delete_acl" /\ Answer(r, w) /\ op' = op
      /\ present' = present /\ contains' = contains /\ marked' = marked \ {t}
  BY DEF DeleteAcl
<1>2. /\ Here = was[r] /\ o.method = "DELETE_acl" /\ facts[r].auxes = {}
      /\ saw[r] = (t \in marked)
  BY <1>1 DEF Told, Removes, Unwritten
<1>h. was[r].present = present /\ was[r].contains = contains /\ was[r].marked = marked
  BY <1>2 DEF Here
<1>3. CASE t \in marked
  <2> DEFINE new == Here'
  <2>1. new.present = was[r].present /\ new.contains = was[r].contains /\ new.marked = was[r].marked \ {t}
    BY <1>1, <1>h DEF Here
  <2> HIDE DEF new
  <2>2. Tells(emit_delete(o, facts[r]), o, was[r], new)
    BY <1>2, <1>3, <1>h, <2>1, AclRemovalIsTold
  <2>3. w = "ok" /\ Emitted(o, facts[r]) = emit_delete(o, facts[r])
    BY <1>2, <1>3 DEF Emitted
  <2> QED BY <1>1, <2>2, <2>3, SuccessTold DEF new
<1>4. CASE t \notin marked
  <2>1. w = "not_found" /\ marked' = marked
    BY <1>1, <1>2, <1>4
  <2>2. Here' = was[r]
    BY <1>1, <1>2, <2>1, HereStays
  <2> QED BY <1>1, <2>1, <2>2, FailureTold
<1> QED BY <1>3, <1>4

\* The cascade: a resource that is there goes with its ACL and its link; one
\* that is not leaves nothing to take.
LEMMA DeleteTold ==
  ASSUME IInv, Sound, AuxHasSubject, EventTypes, NEW r \in Reqs, Alone(r), Quiet(r), Told(r),
         Emit(r), DeleteSubject(r)
  PROVE  Told(r)'
<1> DEFINE t == op[r].target
           o == op[r]
           w == IF saw[r] THEN "ok" ELSE "not_found"
<1>0. t \in Urls /\ (t.slash => t \in Containers) /\ contains \in [Containers -> SUBSET Urls]
  BY OpTypes DEF IInv, TypeOK
<1>1. /\ pc[r] = "delete" /\ Answer(r, w) /\ op' = op
      /\ present' = present \ {t} /\ contains' = Unlinked(t) /\ marked' = marked \ {t}
  BY DEF DeleteSubject
<1>2. /\ Here = was[r] /\ o.method = "DELETE" /\ facts[r].auxes = marked \cap {t}
      /\ saw[r] = (t \in present)
  BY <1>1 DEF Told, Removes, Unwritten, Deleting
<1>h. was[r].present = present /\ was[r].contains = contains /\ was[r].marked = marked
  BY <1>2 DEF Here
<1>3. t # Root /\ (t.slash => contains[t] = {})
  BY <1>1 DEF Alone, Deleting, DeleteOK
<1>4. Exact
  BY <1>1, RestIsExact DEF Quiet, Busy, Walking, Writing
<1>5. \A c \in Containers : contains'[c] = IF c = t THEN {}
                                          ELSE IF c = parent(t) THEN contains[c] \ {t}
                                          ELSE contains[c]
  BY <1>1 DEF Unlinked
<1>6. t \in Containers => contains[t] = {}
  BY <1>3 DEF Containers
<1>7. CASE t \in present
  <2>1. t \in contains[parent(t)]
    BY <1>3, <1>4, <1>7 DEF Exact, Linked
  <2> DEFINE new == Here'
  <2>2. new.present = present \ {t} /\ new.contains = contains' /\ new.marked = marked \ {t}
    BY <1>1 DEF Here
  <2> HIDE DEF new
  <2>3. /\ \A c \in Containers :
             new.contains[c] = IF c = t THEN {}
                               ELSE IF c = parent(t) THEN was[r].contains[c] \ {t}
                               ELSE was[r].contains[c]
        /\ new.present = was[r].present \ {t} /\ new.marked = was[r].marked \ {t}
    BY <1>5, <1>h, <2>2
  <2>4. /\ facts[r].auxes = was[r].marked \cap {t} /\ t \in was[r].present
        /\ t \in was[r].contains[parent(t)] /\ (t \in Containers => was[r].contains[t] = {})
    BY <1>2, <1>h, <1>6, <1>7, <2>1
  <2>5. Tells(emit_delete(o, facts[r]), o, was[r], new)
    BY <1>0, <1>2, <1>3, <2>3, <2>4, RemovalIsTold
  <2>6. w = "ok" /\ Emitted(o, facts[r]) = emit_delete(o, facts[r])
    BY <1>2, <1>7 DEF Emitted
  <2> QED BY <1>1, <2>5, <2>6, SuccessTold DEF new
<1>8. CASE t \notin present
  <2>1. w = "not_found" /\ marked' = marked /\ present' = present
    BY <1>1, <1>2, <1>8 DEF AuxHasSubject
  <2>2. \A c \in Containers : t \notin contains[c]
    BY <1>4, <1>8 DEF Exact
  <2>3. \A c \in Containers : contains'[c] = contains[c]
    BY <1>5, <1>6, <2>2
  <2>4. contains' = contains
    BY <1>0, <1>1, <2>3 DEF Unlinked
  <2>5. Here' = was[r]
    BY <1>2, <2>1, <2>4, HereStays
  <2> QED BY <1>1, <2>1, <2>5, FailureTold
<1> QED BY <1>7, <1>8

\* A slot without a request has nothing to say.
LEMMA CloseTold ==
  ASSUME IInv, EventTypes, NEW r \in Reqs, Emit(r), Close(r)
  PROVE  Told(r)'
<1>1. pc[r] = "replied" /\ pc'[r] = "idle"
  BY DEF Close, Forget, Goto, IInv, TypeOK
<1>2. published'[r] = <<>>
  BY <1>1, EmitFrame
<1>3. Removes(r)'
  BY <1>1 DEF Removes, Deleting
<1> QED BY <1>1, <1>2, <1>3 DEF Told, AclLabels, Unwritten, Walking, Writing

-----------------------------------------------------------------------------
(* What the guard foresees *)

\* With nothing to record and the nearest ancestor there, there is no walk.
LEMMA NoWalk ==
  ASSUME NEW o \in Operation, NEW seen, ~IsMember(o, seen),
         o.target = Root \/ parent(o.target) \in seen.present
  PROVE  Levels(o, seen) = 0 /\ materialized(o, seen) = NothingMaterialized
<1> DEFINE t == o.target
           n == Len(t.segs)
           anc == ancestors(t)
           there == {i \in DOMAIN anc : anc[i] \in seen.present}
<1>0. t \in Urls
  BY DEF Operation
<1>1. Levels(o, seen) = 0
  <2>1. CASE t = Root
    <3>1. n = 0
      BY <2>1, EmptySeq DEF Root
    <3>2. Levels(o, seen) \in 0..0
      BY <3>1, LevelsFacts
    <3> QED BY <3>2
  <2>2. CASE t # Root
    <3>1. 1 \in there
      BY <1>0, <2>2, ChainEnds, AncestorsAreContainers
    <3> QED BY <3>1 DEF Levels
  <2> QED BY <2>1, <2>2
<1>2. Plan(o, seen) = <<>>
  <2>1. 1..0 = {}
    OBVIOUS
  <2> QED BY <1>1, <2>1 DEF Plan
<1>3. SubSeq(ancestors(t), 1, 0) = <<>> /\ SubSeq(<<>>, 2, 0) = <<>>
  BY SubSeqEmpty
<1>4. Missing(o, seen) = <<>>
  BY <1>1, <1>3 DEF Missing
<1>5. materialized(o, seen).created = <<>> /\ materialized(o, seen).linked = <<>>
  BY <1>1, <1>2, <1>3, <1>4 DEF materialized
<1>6. materialized(o, seen) = [created |-> materialized(o, seen).created,
                               linked |-> materialized(o, seen).linked]
  BY DEF materialized
<1> QED BY <1>1, <1>5, <1>6 DEF NothingMaterialized

\* The walk ends at the first ancestor that is there.
LEMMA WalkIsMissing ==
  ASSUME NEW o \in Operation, NEW seen, IsMember(o, seen), NEW i \in 1..Levels(o, seen),
         i # Levels(o, seen)
  PROVE  ancestors(o.target)[i] \notin seen.present
<1> DEFINE t == o.target
           n == Len(t.segs)
           anc == ancestors(t)
           there == {j \in DOMAIN anc : anc[j] \in seen.present}
           stop == IF there = {} THEN Len(anc)
                   ELSE CHOOSE j \in there : \A k \in there : j <= k
           L == Levels(o, seen)
<1>1. t \in Urls
  BY DEF Operation
<1>2. L \in 0..n /\ n \in Nat /\ DOMAIN anc = 1..n
  BY <1>1, LevelsFacts, AncestorsAreContainers
<1>3. L = stop
  BY DEF Levels
<1>4. there # {} => stop \in there /\ \A k \in there : stop <= k
  <2>1. there \subseteq Nat
    BY <1>2
  <2>2. there # {} => \E j \in there : \A k \in there : j <= k
    BY <2>1, LeastExists
  <2> QED BY <2>2
<1>5. i \in DOMAIN anc /\ i < L
  BY <1>2
<1>6. ASSUME i \in there PROVE FALSE
  <2>1. there # {}
    BY <1>6
  <2> HIDE DEF there, stop, L
  <2>2. L <= i
    BY <1>3, <1>4, <1>6, <2>1
  <2> QED BY <1>2, <1>5, <2>2
<1> QED BY <1>5, <1>6

\* What the walk of an absent target creates and links: the chain up to the
\* first that is there.
LEMMA WalkOfChain ==
  ASSUME NEW o \in Operation, NEW seen, IsMember(o, seen), NEW n \in 1..Len(o.target.segs),
         n = Levels(o, seen), ancestors(o.target)[n] \in seen.present
  PROVE  LET ch == Chain(o.target)
             m == materialized(o, seen)
         IN /\ m.created \in Seq(Urls) /\ Len(m.created) = n /\ DOMAIN m.linked = 1..n
            /\ \A i \in 1..n : m.created[i] = ch[i] /\ m.linked[i] = <<ch[i + 1], ch[i]>>
            /\ Plan(o, seen) \in Seq(PlanStep) /\ Len(Plan(o, seen)) = n
            /\ \A i \in 1..n : Plan(o, seen)[i] = [at |-> ch[i + 1], child |-> ch[i]]
<1> DEFINE t == o.target
           anc == ancestors(t)
           ch == Chain(t)
           m == materialized(o, seen)
           walked == SubSeq(anc, 1, n)
           p == Plan(o, seen)
<1>0. t \in Urls /\ Len(t.segs) \in Nat /\ n \in Nat /\ n >= 1
  BY UrlShape DEF Operation
<1>1. Len(anc) = Len(t.segs) /\ anc \in Seq(Urls) /\ ch[1] = t
      /\ \A i \in 1..Len(t.segs) : ch[i + 1] = anc[i] /\ anc[i] \in Urls
  <2>1. Len(anc) = Len(t.segs) /\ DOMAIN anc = 1..Len(t.segs)
    BY <1>0, AncestorsAreContainers
  <2>2. ch[1] = t /\ \A i \in 1..Len(t.segs) : ch[i + 1] = anc[i] /\ anc[i] \in Urls
    BY <1>0, ChainShape, AncestorFacts
  <2>3. anc = [i \in 1..Len(t.segs) |-> anc[i]]
    BY <2>1 DEF ancestors
  <2> HIDE DEF anc
  <2>4. [i \in 1..Len(t.segs) |-> anc[i]] \in Seq(Urls)
    BY <1>0, <2>2
  <2> QED BY <2>1, <2>2, <2>3, <2>4
<1>2. p \in Seq(PlanStep) /\ Len(p) = n
  BY PlanIsPlan
<1>3. ASSUME NEW i \in 1..n PROVE ch[i + 1] = anc[i] /\ ch[i] = IF i > 1 THEN anc[i - 1] ELSE t
  <2>1. ch[i + 1] = anc[i]
    BY <1>0, <1>1
  <2>2. CASE i > 1
    <3>1. i - 1 \in 1..Len(t.segs) /\ (i - 1) + 1 = i
      BY <1>0, <2>2
    <3>2. ch[(i - 1) + 1] = anc[i - 1]
      BY <1>1, <3>1
    <3> QED BY <2>1, <2>2, <3>1, <3>2
  <2>3. CASE ~(i > 1)
    BY <1>1, <2>1, <2>3
  <2> QED BY <2>2, <2>3
<1>4. ASSUME NEW i \in 1..n PROVE p[i] = [at |-> ch[i + 1], child |-> ch[i]]
  <2>1. p[i] = [at |-> anc[i], child |-> IF i > 1 THEN anc[i - 1] ELSE t]
    BY DEF Plan
  <2> QED BY <1>3, <2>1
<1>5. SubSeq(p, 1, n) = p
  BY <1>2
<1>6. m.linked = [i \in DOMAIN p |-> <<p[i].at, p[i].child>>]
  <2> HIDE DEF p
  <2> QED BY <1>5 DEF materialized, p
<1>7. DOMAIN p = 1..n
  BY <1>2, LenProperties
<1>8. DOMAIN m.linked = 1..n /\ \A i \in 1..n : m.linked[i] = <<ch[i + 1], ch[i]>>
  BY <1>4, <1>6, <1>7
<1>9. walked \in Seq(Urls) /\ Len(walked) = n /\ \A i \in 1..n : walked[i] = anc[i]
  BY <1>0, <1>1
<1>10. Missing(o, seen) = SubSeq(walked, 1, n - 1)
  <2> HIDE DEF walked
  <2>1. walked # <<>> /\ Last(walked) = anc[n] /\ Front(walked) = SubSeq(walked, 1, n - 1)
    BY <1>0, <1>9, EmptySeq DEF Last, Front
  <2> QED BY <2>1 DEF Missing, walked
<1> DEFINE q == SubSeq(walked, 1, n - 1)
<1>11. q \in Seq(Urls) /\ Len(q) = n - 1 /\ \A i \in 1..(n - 1) : q[i] = anc[i]
  <2> HIDE DEF walked
  <2> QED BY <1>0, <1>9
<1>12. m.created = <<t>> \o q
  BY <1>10 DEF materialized
<1> HIDE DEF q, m, walked, anc, ch
<1>13. /\ <<t>> \o q \in Seq(Urls) /\ Len(<<t>> \o q) = 1 + (n - 1)
       /\ (<<t>> \o q)[1] = t /\ \A i \in 1..(n - 1) : (<<t>> \o q)[1 + i] = q[i]
  BY <1>0, <1>11
<1>14. m.created \in Seq(Urls) /\ Len(m.created) = n
  BY <1>0, <1>12, <1>13
<1>15. ASSUME NEW i \in 1..n PROVE m.created[i] = ch[i]
  <2>1. CASE i > 1
    <3>1. i - 1 \in 1..(n - 1) /\ 1 + (i - 1) = i
      BY <1>0, <2>1
    <3>2. m.created[1 + (i - 1)] = anc[i - 1]
      BY <1>11, <1>12, <1>13, <3>1
    <3> QED BY <1>3, <2>1, <3>1, <3>2
  <2>2. CASE ~(i > 1)
    BY <1>0, <1>3, <1>12, <1>13, <2>2
  <2> QED BY <2>1, <2>2
<1> QED BY <1>2, <1>4, <1>8, <1>14, <1>15 DEF m, ch

-----------------------------------------------------------------------------
(* A growing tree *)

\* Nothing gained is nothing changed.
LEMMA NothingGained ==
  ASSUME EventTypes, NEW r \in Reqs, NEW o, NEW I, I = {}
  PROVE  Gained(o, was[r], Here, I, 0) <=> Here = was[r]
<1> DEFINE old == was[r]
<1>1. old \in [present : SUBSET Urls, contains : [Containers -> SUBSET Urls], marked : SUBSET Urls]
  BY DEF EventTypes
<1>2. /\ old = [present |-> old.present, contains |-> old.contains, marked |-> old.marked]
      /\ old.contains = [c \in Containers |-> old.contains[c]]
  <2> HIDE DEF old
  <2> QED BY <1>1
<1>3. /\ Here.present = present /\ Here.contains = contains /\ Here.marked = marked
      /\ Here = [present |-> present, contains |-> contains, marked |-> marked]
  BY DEF Here
<1>4. \A c \in Containers : {Chain(o.target)[i] : i \in {j \in 1..0 : Chain(o.target)[j + 1] = c}} = {}
  OBVIOUS
<1>5. {Chain(o.target)[i] : i \in I} = {}
  OBVIOUS
<1>6. Gained(o, old, Here, I, 0) <=>
        /\ present = old.present /\ contains = [c \in Containers |-> old.contains[c]]
        /\ marked = old.marked
  BY <1>3, <1>4, <1>5 DEF Gained
<1> HIDE DEF old
<1>7. (present = old.present /\ contains = old.contains /\ marked = old.marked) <=> Here = old
  BY <1>2, <1>3
<1> QED BY <1>2, <1>6, <1>7 DEF old

\* The write of the target is the last thing the tree gains.
LEMMA TargetGained ==
  ASSUME NEW o, o.target \in Urls, NEW f, NEW old, NEW mid, NEW new, NEW n,
         Foreseen(o, f, old, n), Gained(o, old, mid, 2..(n + 1), n),
         new.present = mid.present \cup {o.target}, new.contains = mid.contains,
         new.marked = mid.marked
  PROVE  Gained(o, old, new, 1..n, n)
<1> DEFINE ch == Chain(o.target)
<1>0. n \in Nat /\ ch[1] = o.target /\ ch[n + 1] \in old.present
  <2>1. n \in 0..Len(o.target.segs) /\ Len(o.target.segs) \in Nat /\ ch[n + 1] \in old.present
    BY UrlShape DEF Foreseen
  <2> QED BY <2>1, ChainShape
<1>1. mid.present = old.present \cup {ch[i] : i \in 2..(n + 1)}
  BY DEF Gained
<1>2. 2..(n + 1) \cup {1} = 1..n \cup {n + 1}
  BY <1>0
<1>3. new.present = old.present \cup {ch[i] : i \in 1..n}
  <2> HIDE DEF ch
  <2> QED BY <1>0, <1>1, <1>2
<1> QED BY <1>3 DEF Gained

\* And its ensure_container adds nothing.
LEMMA TargetIsThere ==
  ASSUME NEW o, o.target \in Urls, NEW f, NEW old, NEW new, NEW n,
         Foreseen(o, f, old, n), Gained(o, old, new, 1..n, n)
  PROVE  o.target \in new.present
<1> DEFINE ch == Chain(o.target)
<1>0. n \in Nat /\ ch[1] = o.target /\ ch[n + 1] \in old.present
  <2>1. n \in 0..Len(o.target.segs) /\ Len(o.target.segs) \in Nat /\ ch[n + 1] \in old.present
    BY UrlShape DEF Foreseen
  <2> QED BY <2>1, ChainShape
<1>1. new.present = old.present \cup {ch[i] : i \in 1..n}
  BY DEF Gained
<1>2. CASE n = 0
  BY <1>0, <1>1, <1>2
<1>3. CASE n # 0
  <2>1. 1 \in 1..n
    BY <1>0, <1>3
  <2> QED BY <1>0, <1>1, <2>1
<1> QED BY <1>2, <1>3

\* A write that has grown the tree as it foresaw tells it.
LEMMA GrowthIsTold ==
  ASSUME NEW o, o.method \in {"PUT", "POST", "PATCH"}, o.target \in Urls, NEW f, NEW old, NEW new,
         NEW n, Foreseen(o, f, old, n), Gained(o, old, new, 1..n, n), o.method = "POST" => n # 0
  PROVE  Tells(Emitted(o, f), o, old, new)
<1>0. ~IsAux(o)
  BY DEF IsAux, AuxMethods
<1>1. Emitted(o, f) = IF o.method = "POST" THEN emit_post(o, f) ELSE emit_put(o, f)
  BY DEF Emitted
<1>2. CASE n = 0
  <2>1. Foreseen(o, f, old, 0) /\ Gained(o, old, new, 1..0, 0)
    BY <1>2
  <2>2. Tells(emit_put(o, f), o, old, new)
    BY <1>0, <2>1, UpdateIsTold
  <2> QED BY <1>1, <1>2, <2>2
<1>3. CASE n # 0
  <2>1. Tells(emit_put(o, f), o, old, new) /\ emit_post(o, f) = emit_put(o, f)
    BY <1>0, <1>3, CreationIsTold
  <2> QED BY <1>1, <2>1
<1> QED BY <1>2, <1>3

\* Where a growing request goes on.
LEMMA GrowsOn ==
  ASSUME EventTypes, NEW r \in Reqs, Emit(r), Told(r), pc[r] \notin {"idle", "replied"},
         pc'[r] \in Walking \cup Writing \cup {"type"}, op' = op, Grows(r)'
  PROVE  Told(r)'
<1>1. /\ pc'[r] \notin {"idle", "replied"} /\ pc'[r] \notin Unwritten /\ pc'[r] \notin AclLabels
  BY DEF Walking, Writing, Unwritten, AclLabels
<1>2. Removes(r)'
  BY DEF Removes, Deleting, Walking, Writing
<1> QED BY <1>1, <1>2, GoesOn

\* The writes of the target.
LEMMA TargetWritesTold ==
  ASSUME IInv, EventTypes, NEW r \in Reqs, Alone(r), Told(r), Emit(r),
         WriteResource(r) \/ ReadMembers(r) \/ ReplaceContainer(r) \/ TypeContainer(r)
  PROVE  Told(r)'
<1> DEFINE t == op[r].target
           o == op[r]
<1>t. /\ pc \in [Reqs -> Labels] /\ saw \in [Reqs -> BOOLEAN]
      /\ contains \in [Containers -> SUBSET Urls] /\ t \in Urls
  BY OpTypes DEF IInv, TypeOK
<1>1. pc[r] \in Writing \cup {"type"} /\ op' = op /\ marked' = marked
  BY DEF WriteResource, ReadMembers, ReplaceContainer, TypeContainer, Writing, store
<1>2. pc[r] \notin {"idle", "replied"} /\ Grows(r) /\ was' = was /\ facts'[r] = facts[r]
  BY <1>1, EmitFrame DEF Told, Writing, Deciding
<1>3. o.method \in {"PUT", "POST", "PATCH"}
  BY <1>2 DEF Grows
<1>4. PICK n \in Nat :
        /\ Foreseen(o, facts[r], was[r], n) /\ (o.method = "POST" => n # 0)
        /\ pc[r] \in Writing => Gained(o, was[r], Here, 2..(n + 1), n)
        /\ pc[r] = "type" => Gained(o, was[r], Here, 1..n, n) /\ (~saw[r] => n = 0)
  BY <1>2 DEF Grows
<1>h. /\ Here.present = present /\ Here.contains = contains /\ Here.marked = marked
      /\ Here'.present = present' /\ Here'.contains = contains' /\ Here'.marked = marked'
  BY DEF Here
<1>g. ASSUME pc'[r] \in Writing \cup {"type"},
             pc'[r] \in Writing => Gained(o, was[r], Here', 2..(n + 1), n),
             pc'[r] = "type" => Gained(o, was[r], Here', 1..n, n) /\ (~saw'[r] => n = 0)
      PROVE  Told(r)'
  <2>1. pc'[r] \notin Walking /\ pc'[r] # "patch"
    BY <1>g DEF Walking, Writing
  <2>2. Foreseen(op'[r], facts'[r], was'[r], n)
    BY <1>1, <1>2, <1>4
  <2>3. Grows(r)'
    BY <1>1, <1>2, <1>3, <1>4, <1>g, <2>1, <2>2 DEF Grows
  <2> QED BY <1>1, <1>2, <1>g, <2>3, GrowsOn
<1>5. CASE WriteResource(r)
  <2>1. pc[r] \in Writing /\ present' = present \cup {t} /\ contains' = contains /\ Answer(r, "ok")
    BY <1>5 DEF WriteResource, Writing
  <2> DEFINE old == Here
             new == Here'
  <2>2. /\ Gained(o, was[r], old, 2..(n + 1), n) /\ new.present = old.present \cup {t}
        /\ new.contains = old.contains /\ new.marked = old.marked
    BY <1>1, <1>4, <1>h, <2>1
  <2> HIDE DEF old, new
  <2>3. Gained(o, was[r], new, 1..n, n)
    BY <1>t, <1>4, <2>2, TargetGained
  <2>4. Tells(Emitted(o, facts[r]), o, was[r], new)
    BY <1>t, <1>3, <1>4, <2>3, GrowthIsTold
  <2> QED BY <1>1, <1>2, <2>1, <2>4, SuccessTold DEF new
<1>6. CASE ReadMembers(r)
  <2>1. /\ pc[r] \in Writing /\ pc'[r] = "replace" /\ present' = present /\ contains' = contains
    BY <1>6, <1>t DEF ReadMembers, Goto, Writing, store
  <2>2. Here' = Here
    BY <1>1, <2>1, HereStays
  <2> QED BY <1>4, <1>g, <2>1, <2>2 DEF Writing
<1>7. CASE ReplaceContainer(r)
  <2>1. /\ pc[r] = "replace" /\ pc'[r] = "type" /\ present' = present \cup {t} /\ saw'[r] = TRUE
        /\ contains' = [contains EXCEPT ![t] = kept[r]]
    BY <1>7, <1>t DEF ReplaceContainer, Goto
  <2>2. t \in Containers
    BY <2>1 DEF IInv, Fitting, Fits
  <2>3. contains[t] = kept[r]
    BY <2>1, <2>2 DEF Alone, Writing, Walking, TargetOK, Containers
  <2>4. contains' = contains
    BY <1>t, <2>1, <2>3
  <2> DEFINE old == Here
             new == Here'
  <2>5. /\ Gained(o, was[r], old, 2..(n + 1), n) /\ new.present = old.present \cup {t}
        /\ new.contains = old.contains /\ new.marked = old.marked
    BY <1>1, <1>4, <1>h, <2>1, <2>4 DEF Writing
  <2> HIDE DEF old, new
  <2>6. Gained(o, was[r], new, 1..n, n)
    BY <1>t, <1>4, <2>5, TargetGained
  <2> QED BY <1>g, <2>1, <2>6 DEF new, Writing
<1>8. CASE TypeContainer(r)
  <2>1. /\ pc[r] = "type" /\ present' = present \cup {t} /\ contains' = contains
        /\ Answer(r, IF saw[r] THEN "ok" ELSE "refused")
    BY <1>8 DEF TypeContainer
  <2>2. Gained(o, was[r], Here, 1..n, n) /\ (~saw[r] => n = 0)
    BY <1>4, <2>1
  <2>3. t \in present
    <3> DEFINE old == Here
    <3>1. Gained(o, was[r], old, 1..n, n)
      BY <2>2
    <3> HIDE DEF old
    <3>2. t \in old.present
      BY <1>t, <1>4, <3>1, TargetIsThere
    <3> QED BY <1>h, <3>2 DEF old
  <2>4. present' = present
    BY <2>1, <2>3
  <2>5. Here' = Here
    BY <1>1, <2>1, <2>4, HereStays
  <2>6. CASE saw[r]
    <3> DEFINE new == Here'
    <3>1. Gained(o, was[r], new, 1..n, n)
      BY <2>2, <2>5
    <3> HIDE DEF new
    <3>2. Tells(Emitted(o, facts[r]), o, was[r], new)
      BY <1>t, <1>3, <1>4, <3>1, GrowthIsTold
    <3> QED BY <1>1, <1>2, <2>1, <2>6, <3>2, SuccessTold DEF new
  <2>7. CASE ~saw[r]
    <3>1. n = 0 /\ 1..n = {}
      BY <2>2, <2>7
    <3>2. Gained(o, was[r], Here, 1..n, 0)
      BY <2>2, <3>1
    <3>3. Here = was[r]
      BY <3>1, <3>2, NothingGained
    <3> QED BY <1>1, <1>2, <2>1, <2>5, <2>7, <3>3, FailureTold
  <2> QED BY <2>6, <2>7
<1> QED BY <1>5, <1>6, <1>7, <1>8

\* A PATCH of what is there.
LEMMA PatchTold ==
  ASSUME IInv, EventTypes, NEW r \in Reqs, Alone(r), Told(r), Emit(r),
         DecidePatch(r) \/ PatchExisting(r)
  PROVE  Told(r)'
<1> DEFINE t == op[r].target
           o == op[r]
<1>t. pc \in [Reqs -> Labels] /\ saw \in [Reqs -> BOOLEAN] /\ t \in Urls
  BY OpTypes DEF IInv, TypeOK
<1>1. /\ pc[r] \in Unwritten /\ op' = op
      /\ present' = present /\ contains' = contains /\ marked' = marked
  BY DEF DecidePatch, PatchExisting, Unwritten, store
<1>2. pc[r] \notin {"idle", "replied"} /\ Here' = was[r] /\ Here = was[r] /\ was' = was
  BY <1>1, AskingLabels, HereStays, EmitFrame
<1>f. ASSUME NEW w, w # "ok", Answer(r, w) PROVE Told(r)'
  BY <1>1, <1>2, <1>f, FailureTold
<1>e. Gained(o, was[r], Here, 1..0, 0)
  <2>1. 1..0 = {}
    OBVIOUS
  <2> QED BY <1>2, <2>1, NothingGained
<1>3. CASE DecidePatch(r)
  <2>1. /\ pc[r] = "acls" /\ o.method = "PATCH" /\ ~Creating(r) /\ snap[r] = Probe(t)
        /\ Answer(r, "refused") \/ (t \in snap[r].present /\ pc'[r] = "patch")
    BY <1>3, <1>t DEF DecidePatch, Proceed, Goto, Alone
  <2>2. CASE t \in snap[r].present /\ pc'[r] = "patch"
    <3>1. t \in present /\ was[r].present = present
      BY <1>2, <2>1, <2>2 DEF Probe, Here
    <3>2. facts'[r].materialized = NothingMaterialized /\ facts'[r].existed = TRUE
      BY <2>1, <3>1, PlainFacts DEF IsAux, AuxMethods
    <3>3. Foreseen(o, facts'[r], was[r], 0)
      <4>0. Len(t.segs) \in Nat /\ Chain(t)[1] = t
        <5>1. Len(t.segs) \in Nat
          BY <1>t, UrlShape
        <5>2. Chain(t)[1] = t
          BY <1>t, ChainShape
        <5> QED BY <5>1, <5>2
      <4>1. Len(t.segs) \in Nat /\ Chain(t)[0 + 1] = t
        BY <4>0
      <4>2. /\ facts'[r].materialized.created = <<>> /\ facts'[r].materialized.linked = <<>>
        BY <3>2 DEF NothingMaterialized
      <4>3. facts'[r].existed = (0 = 0)
        BY <3>2
      <4> HIDE DEF t
      <4> QED BY <3>1, <4>1, <4>2, <4>3 DEF Foreseen, t
    <3>4. Grows(r)'
      BY <1>1, <1>2, <2>1, <2>2, <3>3 DEF Grows, Walking, Writing
    <3>5. Removes(r)'
      BY <2>2 DEF Removes, Deleting
    <3> QED BY <1>1, <1>2, <2>2, <3>4, <3>5, GoesOn DEF AclLabels
  <2> QED BY <1>f, <2>1, <2>2
<1>4. CASE PatchExisting(r)
  <2>1. /\ pc[r] = "patch"
        /\ \/ Answer(r, "ok") \/ Answer(r, "refused")
           \/ pc'[r] = "type"
    BY <1>4, <1>t DEF PatchExisting, Goto
  <2>2. Grows(r) /\ facts'[r] = facts[r]
    BY <2>1, EmitFrame DEF Told, Deciding
  <2>3. Foreseen(o, facts[r], was[r], 0) /\ o.method \in {"PUT", "PATCH"}
    BY <2>1, <2>2 DEF Grows
  <2>4. CASE Answer(r, "ok")
    <3>1. Tells(Emitted(o, facts[r]), o, was[r], Here)
      <4> DEFINE new == Here
      <4>1. Gained(o, was[r], new, 1..0, 0)
        BY <1>e
      <4> HIDE DEF new
      <4>2. Tells(Emitted(o, facts[r]), o, was[r], new)
        BY <1>t, <2>3, <4>1, GrowthIsTold
      <4> QED BY <4>2 DEF new
    <3> QED BY <1>1, <1>2, <2>4, <3>1, SuccessTold
  <2>5. CASE pc'[r] = "type"
    <3>1. Gained(op'[r], was'[r], Here', 1..0, 0)
      BY <1>1, <1>2, <1>e
    <3>2. Foreseen(op'[r], facts'[r], was'[r], 0)
      BY <1>1, <1>2, <2>2, <2>3
    <3>3. Grows(r)'
      BY <1>1, <2>3, <2>5, <3>1, <3>2 DEF Grows, Walking, Writing
    <3> QED BY <1>1, <1>2, <2>5, <3>3, GrowsOn
  <2> QED BY <1>f, <2>1, <2>4, <2>5
<1> QED BY <1>3, <1>4

\* What the walk does next: its step is the next link of the chain.
LEMMA WalkedStep ==
  ASSUME IInv, NEW r \in Reqs, pc[r] \in Walking, NEW n, NEW k \in Nat,
         Foreseen(op[r], facts[r], was[r], n), Walked(r, n, k)
  PROVE  LET ch == Chain(op[r].target)
             s == Head(plan[r])
         IN /\ n \in Nat /\ n \in 0..Len(op[r].target.segs) /\ k + Len(plan[r]) = n
            /\ k + 1 \in 1..n /\ k + 1 \in 1..Len(op[r].target.segs)
            /\ s.at = ch[k + 2] /\ s.child = ch[k + 1]
            /\ s.at \in Containers /\ s.child # NoUrl
<1> DEFINE t == op[r].target
           ch == Chain(t)
           p == plan[r]
<1>0. t \in Urls /\ Len(t.segs) \in Nat /\ n \in 0..Len(t.segs)
  BY OpTypes, UrlShape DEF Foreseen
<1>1. Len(p) \in Nat /\ Len(p) >= 1 /\ Head(p) = p[1]
  BY WalkFacts
<1>2. k + Len(p) = n /\ \A i \in 1..Len(p) : p[i] = [at |-> ch[k + i + 1], child |-> ch[k + i]]
  BY DEF Walked
<1>3. n \in Nat /\ k + 1 \in 1..n /\ k + 1 \in 1..Len(t.segs)
  <2> HIDE DEF t, p, ch
  <2> QED BY <1>0, <1>1, <1>2
<1>4. p[1] = [at |-> ch[k + 1 + 1], child |-> ch[k + 1]]
  <2>1. 1 \in 1..Len(p)
    BY <1>1
  <2> QED BY <1>2, <2>1
<1>5. ch[(k + 1) + 1] \in Containers /\ ch[k + 1] \in Urls
  BY <1>0, <1>3, ChainSteps
<1>6. k + 1 + 1 = k + 2
  OBVIOUS
<1> HIDE DEF t, p, ch
<1>7. Head(p).at = ch[k + 2] /\ Head(p).child = ch[k + 1] /\ ch[k + 2] \in Containers
  BY <1>1, <1>4, <1>5, <1>6
<1>8. ch[k + 1] # NoUrl
  BY <1>5, SpaceAssumption
<1> QED BY <1>0, <1>2, <1>3, <1>7, <1>8 DEF t, p, ch

\* ensure_container: the next container is there.
LEMMA EnsureTold ==
  ASSUME IInv, EventTypes, NEW r \in Reqs, Told(r), Emit(r), EnsureAncestor(r)
  PROVE  Told(r)'
<1> DEFINE t == op[r].target
           ch == Chain(t)
           o == op[r]
<1>t. pc \in [Reqs -> Labels]
  BY DEF IInv, TypeOK
<1>1. /\ pc[r] = "ensure" /\ pc[r] \in Walking /\ op' = op /\ contains' = contains
      /\ marked' = marked /\ present' = present \cup {Head(plan[r]).at}
  BY DEF EnsureAncestor, Walking
<1>2. Grows(r) /\ was' = was /\ facts'[r] = facts[r]
  BY <1>1, EmitFrame DEF Told, Deciding
<1>3. PICK n \in Nat : /\ Foreseen(o, facts[r], was[r], n) /\ (o.method = "POST" => n # 0)
                       /\ \E k \in Nat : Walked(r, n, k)
  BY <1>1, <1>2 DEF Grows
<1>4. PICK k \in Nat : Walked(r, n, k)
  BY <1>3
<1>5. /\ Head(plan[r]).at = ch[k + 2] /\ Head(plan[r]).child # NoUrl
  BY <1>1, <1>3, <1>4, WalkedStep
<1>6. pc'[r] = "link" /\ plan' = plan
  BY <1>5, <1>t DEF EnsureAncestor, Goto
<1>7. /\ k + Len(plan[r]) = n
      /\ \A i \in 1..Len(plan[r]) : plan[r][i] = [at |-> ch[k + i + 1], child |-> ch[k + i]]
      /\ Gained(o, was[r], Here, 2..(k + 1), k)
  BY <1>1, <1>4 DEF Walked
<1>8. Gained(o, was[r], Here', 2..(k + 2), k)
  <2>1. 2..(k + 2) = 2..(k + 1) \cup {k + 2}
    OBVIOUS
  <2>2. present = was[r].present \cup {ch[i] : i \in 2..(k + 1)}
    BY <1>7 DEF Gained, Here
  <2>3. present' = was[r].present \cup {ch[i] : i \in 2..(k + 2)}
    <3> HIDE DEF ch
    <3> QED BY <1>1, <1>5, <2>1, <2>2
  <2>4. /\ Here'.present = present' /\ Here'.contains = Here.contains /\ Here'.marked = Here.marked
    BY <1>1 DEF Here
  <2> DEFINE old == Here
             new == Here'
  <2>5. /\ Gained(o, was[r], old, 2..(k + 1), k) /\ new.contains = old.contains
        /\ new.marked = old.marked /\ new.present = was[r].present \cup {ch[i] : i \in 2..(k + 2)}
    BY <1>7, <2>3, <2>4
  <2> HIDE DEF old, new
  <2>6. Gained(o, was[r], new, 2..(k + 2), k)
    BY <2>5 DEF Gained
  <2> QED BY <2>6 DEF new
<1>9. Walked(r, n, k)'
  BY <1>1, <1>2, <1>6, <1>7, <1>8 DEF Walked
<1>10. Grows(r)'
  BY <1>1, <1>2, <1>3, <1>6, <1>9 DEF Grows, Writing
<1> QED BY <1>1, <1>6, <1>10, GrowsOn DEF Walking

\* add_containment: one link more.
LEMMA LinkTold ==
  ASSUME IInv, EventTypes, NEW r \in Reqs, Told(r), Emit(r), LinkChild(r)
  PROVE  Told(r)'
<1> DEFINE t == op[r].target
           ch == Chain(t)
           o == op[r]
           p == plan[r]
<1>t. /\ pc \in [Reqs -> Labels] /\ plan \in [Reqs -> Seq(PlanStep)] /\ o \in Operation
      /\ contains \in [Containers -> SUBSET Urls]
  BY OpTypes DEF IInv, TypeOK
<1>1. /\ pc[r] = "link" /\ pc[r] \in Walking /\ op' = op /\ marked' = marked
      /\ contains' = [contains EXCEPT ![Head(p).at] = @ \cup {Head(p).child}]
      /\ present' = present \cup {Head(p).at}
      /\ pc'[r] = (IF Len(p) = 1 THEN WriteLabel(o) ELSE "ensure") /\ plan'[r] = Tail(p)
  BY <1>t DEF LinkChild, Walking, Advance, Goto
<1>2. Grows(r) /\ was' = was /\ facts'[r] = facts[r]
  BY <1>1, EmitFrame DEF Told, Deciding
<1>3. PICK n \in Nat : /\ Foreseen(o, facts[r], was[r], n) /\ (o.method = "POST" => n # 0)
                       /\ \E k \in Nat : Walked(r, n, k)
  BY <1>1, <1>2 DEF Grows
<1>m. o.method \in {"PUT", "POST", "PATCH"} /\ ~IsAux(o)
  BY <1>2 DEF Grows, IsAux, AuxMethods
<1>4. PICK k \in Nat : Walked(r, n, k)
  BY <1>3
<1>5. Head(p).at = ch[k + 2] /\ Head(p).child = ch[k + 1] /\ ch[k + 2] \in Containers
  BY <1>1, <1>3, <1>4, WalkedStep
<1>6. /\ Len(p) \in Nat /\ Len(p) >= 1 /\ Tail(p) \in Seq(PlanStep)
      /\ DOMAIN Tail(p) = 1..(Len(p) - 1)
      /\ \A i \in 1..(Len(p) - 1) : Tail(p)[i] = p[i + 1]
  BY <1>1, WalkFacts
<1>7. /\ k + Len(p) = n
      /\ \A i \in 1..Len(p) : p[i] = [at |-> ch[k + i + 1], child |-> ch[k + i]]
      /\ Gained(o, was[r], Here, 2..(k + 2), k)
  BY <1>1, <1>4 DEF Walked
<1> HIDE DEF ch, p
<1>8. Gained(o, was[r], Here', 2..((k + 1) + 1), k + 1)
  <2> DEFINE Links(c, i) == {ch[j] : j \in {l \in 1..i : ch[l + 1] = c}}
  <2>1. /\ present = was[r].present \cup {ch[i] : i \in 2..(k + 2)}
        /\ contains = [c \in Containers |-> was[r].contains[c] \cup Links(c, k)]
        /\ marked = was[r].marked
    BY <1>7 DEF Gained, Here, ch
  <2>2. ch[k + 2] \in present /\ (k + 1) + 1 = k + 2
    BY <2>1
  <2>3. present' = present
    BY <1>1, <1>5, <2>2
  <2>4. ASSUME NEW c \in Containers
        PROVE  Links(c, k + 1) = Links(c, k) \cup (IF c = ch[k + 2] THEN {ch[k + 1]} ELSE {})
    <3>1. 1..(k + 1) = 1..k \cup {k + 1}
      OBVIOUS
    <3> QED BY <2>2, <3>1
  <2>5. \A c \in Containers : contains[c] = was[r].contains[c] \cup Links(c, k)
    BY <2>1
  <2> HIDE DEF Links
  <2>6. contains' = [c \in Containers |-> was[r].contains[c] \cup Links(c, k + 1)]
    <3>1. contains' = [c \in Containers |-> IF c = ch[k + 2] THEN contains[c] \cup {ch[k + 1]} ELSE contains[c]]
      BY <1>t, <1>1, <1>5
    <3>2. ASSUME NEW c \in Containers
          PROVE  (IF c = ch[k + 2] THEN contains[c] \cup {ch[k + 1]} ELSE contains[c])
                   = was[r].contains[c] \cup Links(c, k + 1)
      BY <2>4, <2>5
    <3> QED BY <3>1, <3>2
  <2>7. Here'.present = present' /\ Here'.contains = contains' /\ Here'.marked = marked'
    BY DEF Here
  <2> DEFINE new == Here'
  <2>8. /\ new.present = was[r].present \cup {ch[i] : i \in 2..((k + 1) + 1)}
        /\ new.contains = [c \in Containers |-> was[r].contains[c] \cup Links(c, k + 1)]
        /\ new.marked = was[r].marked
    BY <1>1, <2>1, <2>2, <2>3, <2>6, <2>7
  <2> HIDE DEF new
  <2>9. Gained(o, was[r], new, 2..((k + 1) + 1), k + 1)
    BY <2>8 DEF Gained, ch, Links
  <2> QED BY <2>9 DEF new
<1>9. CASE Len(p) = 1
  <2>1. pc'[r] \in Writing
    BY <1>t, <1>1, <1>m, <1>9, WriteLabelCases DEF Writing, p
  <2>2. k + 1 = n /\ (k + 1) + 1 = n + 1
    BY <1>7, <1>9
  <2>3. Gained(o, was[r], Here', 2..(n + 1), n)
    BY <1>8, <2>2
  <2>4. Grows(r)'
    BY <1>1, <1>2, <1>3, <1>m, <2>1, <2>3 DEF Grows, Walking, Writing
  <2> QED BY <1>1, <2>1, <2>4, GrowsOn DEF Writing
<1>10. CASE Len(p) # 1
  <2>1. pc'[r] = "ensure" /\ plan'[r] = Tail(p)
    BY <1>1, <1>10 DEF p
  <2>2. Len(Tail(p)) = Len(p) - 1 /\ (k + 1) + (Len(p) - 1) = n
    BY <1>6, <1>7, LenProperties
  <2>3. ASSUME NEW i \in 1..(Len(p) - 1)
        PROVE  Tail(p)[i] = [at |-> ch[(k + 1) + i + 1], child |-> ch[(k + 1) + i]]
    <3>1. i + 1 \in 1..Len(p) /\ k + (i + 1) + 1 = (k + 1) + i + 1 /\ k + (i + 1) = (k + 1) + i
      BY <1>6
    <3>2. p[i + 1] = [at |-> ch[k + (i + 1) + 1], child |-> ch[k + (i + 1)]]
      BY <1>7, <3>1
    <3> QED BY <1>6, <3>1, <3>2
  <2>4. Walked(r, n, k + 1)'
    BY <1>1, <1>2, <1>8, <2>1, <2>2, <2>3 DEF Walked, ch
  <2>5. k + 1 \in Nat
    OBVIOUS
  <2>6. Grows(r)'
    BY <1>1, <1>2, <1>3, <1>m, <2>1, <2>4, <2>5 DEF Grows, Writing
  <2> QED BY <1>1, <2>1, <2>6, GrowsOn DEF Walking
<1> QED BY <1>9, <1>10

\* The guard lets the write through: what it will report is what is missing.
LEMMA MaterializeTold ==
  ASSUME IInv, Sound, EventTypes, NEW r \in Reqs, Alone(r), Quiet(r), Told(r), Emit(r),
         Materialize(r)
  PROVE  Told(r)'
<1> DEFINE t == op[r].target
           ch == Chain(t)
           o == op[r]
           seen == snap[r]
           L == Levels(op[r], snap[r])
<1>t. /\ pc \in [Reqs -> Labels] /\ plan \in [Reqs -> Seq(PlanStep)] /\ o \in Operation
      /\ t \in Urls /\ present \subseteq Urls
  BY OpTypes DEF IInv, TypeOK
<1>1. /\ pc[r] \in {"acls", "child_acls"} /\ pc[r] \in Unwritten /\ op' = op /\ Creating(r)
      /\ present' = present /\ contains' = contains /\ marked' = marked /\ ~IsTaken(r)
  BY DEF Materialize, Creating, Unwritten, store
<1>2. /\ pc[r] \notin {"idle", "replied"} /\ Here' = was[r] /\ Here = was[r] /\ was' = was
      /\ facts'[r] = Facts(r)
  BY <1>1, AskingLabels, HereStays, EmitFrame DEF Deciding
<1>3. Exact
  BY <1>1, RestIsExact DEF Quiet, Busy, Walking, Writing
<1>4. seen = Probe(t)
  BY <1>1 DEF Alone
<1>h. was[r].present = present /\ was[r].contains = contains /\ was[r].marked = marked
  BY <1>2 DEF Here
<1>5. \A u \in ChainSet(t) : (u \in seen.present <=> u \in present) /\ (u \in seen.acls <=> u \in marked)
  BY <1>4 DEF Probe, Probed
<1>6. t \in ChainSet(t) /\ (t # Root => parent(t) \in ChainSet(t))
  <2>1. t # Root => 1 \in 1..Len(t.segs) /\ parent(t) = ancestors(t)[1]
    BY <1>t, ChainEnds
  <2> QED BY <2>1 DEF ChainSet
<1>7. /\ o.method \in {"PUT", "POST", "PATCH", "PUT_acl"} /\ (IsAux(o) <=> o.method = "PUT_acl")
      /\ o.method = "POST" => t \notin present
  <2>1. pc[r] = "child_acls" => o.method = "POST" /\ (o.slug # t => t \notin present)
    BY DEF Alone
  <2>2. o.method \in {"PUT", "POST", "PATCH", "PUT_acl"} /\ (o.method = "POST" => pc[r] = "child_acls")
    BY <1>1, <2>1 DEF Creating
  <2>3. o.method = "POST" => t \notin present
    BY <1>1, <1>5, <1>6, <2>1, <2>2 DEF IsTaken
  <2> QED BY <2>2, <2>3 DEF IsAux, AuxMethods
<1>8. /\ facts'[r].materialized = materialized(o, seen)
      /\ facts'[r].existed = IF IsAux(o) THEN t \in seen.acls ELSE t \in seen.present
  <2>1. Facts(r).materialized = materialized(o, seen)
    BY <1>1 DEF Facts
  <2>2. Facts(r).existed = IF o.method = "PATCH_acl" THEN TRUE
                           ELSE IF IsAux(o) THEN t \in seen.acls ELSE t \in seen.present
    BY DEF Facts
  <2>3. o.method # "PATCH_acl"
    BY <1>7
  <2> QED BY <1>2, <2>1, <2>2, <2>3, Zenon
<1>f. ASSUME Answer(r, "denied") PROVE Told(r)'
  BY <1>1, <1>2, <1>f, FailureTold
<1>9. CASE Materializable(r)
  <2>1. /\ plan'[r] = Plan(o, seen) /\ pc'[r] = IF L = 0 THEN WriteLabel(o) ELSE "ensure"
        /\ IsAux(o) => t \in seen.present
    BY <1>9, <1>t DEF Materialize, Goto, Materializable
  <2>2. CASE ~IsMember(o, seen)
    <3>1. t \in present /\ t \in seen.present
      BY <1>5, <1>6, <2>1, <2>2 DEF IsMember
    <3>2. t = Root \/ parent(t) \in seen.present
      BY <1>3, <1>5, <1>6, <3>1 DEF Exact, Linked
    <3>3. L = 0 /\ materialized(o, seen) = NothingMaterialized
      BY <1>t, <2>2, <3>2, NoWalk
    <3>4. pc'[r] = WriteLabel(o)
      BY <2>1, <3>3
    <3>5. CASE IsAux(o)
      <4>1. pc'[r] = "write_acl" /\ o.method = "PUT_acl"
        BY <1>t, <1>7, <3>4, <3>5, WriteLabelCases
      <4>2. facts'[r].existed = (t \in was[r].marked)
        <5>1. (t \in seen.acls) = (t \in was[r].marked)
          BY <1>5, <1>6, <1>h
        <5>2. facts'[r].existed = (t \in seen.acls)
          BY <1>8, <3>5
        <5> QED BY <5>1, <5>2
      <4>3. WritesAcl(r)'
        BY <1>1, <1>2, <1>8, <3>1, <3>3, <4>1, <4>2 DEF WritesAcl
      <4>4. Removes(r)'
        BY <4>1 DEF Removes, Deleting
      <4> QED BY <1>1, <1>2, <4>1, <4>3, <4>4, GoesOn DEF Walking, Writing
    <3>6. CASE ~IsAux(o)
      <4>1. pc'[r] \in Writing
        BY <1>t, <3>4, <3>6, WriteLabelCases DEF Writing
      <4>2. Foreseen(o, facts'[r], was[r], 0)
        <5>1. Len(t.segs) \in Nat
          BY <1>t, UrlShape
        <5>2. ch[0 + 1] = t
          BY <1>t, ChainShape
        <5>3. facts'[r].materialized.created = <<>> /\ facts'[r].materialized.linked = <<>>
          BY <1>8, <3>3 DEF NothingMaterialized
        <5>4. facts'[r].existed = (0 = 0)
          BY <1>8, <3>1, <3>6
        <5>5. ch[0 + 1] \in was[r].present
          BY <1>h, <3>1, <5>2
        <5> HIDE DEF ch, t
        <5> QED BY <5>1, <5>3, <5>4, <5>5 DEF Foreseen, ch, t
      <4>3. Gained(o, was[r], Here, 2..(0 + 1), 0)
        <5>1. 2..(0 + 1) = {}
          OBVIOUS
        <5> QED BY <1>2, <5>1, NothingGained
      <4>4. o.method \in {"PUT", "PATCH"}
        BY <1>7, <3>1, <3>6
      <4>5. Foreseen(op'[r], facts'[r], was'[r], 0) /\ Gained(op'[r], was'[r], Here', 2..(0 + 1), 0)
        BY <1>1, <1>2, <4>2, <4>3
      <4>6. Grows(r)'
        BY <1>1, <4>1, <4>4, <4>5 DEF Grows, Walking, Writing
      <4> QED BY <1>1, <1>2, <4>1, <4>6, GrowsOn
    <3> QED BY <3>5, <3>6
  <2>3. CASE IsMember(o, seen)
    <3>1. t \notin present /\ ~IsAux(o) /\ t # Root /\ t \notin seen.present
      BY <1>5, <1>6, <2>3 DEF IsMember, Sound, Tree
    <3>2. /\ L # 0 /\ L \in 1..Len(t.segs) /\ Len(t.segs) \in Nat
          /\ ancestors(t)[L] \in seen.present \cup {Root}
      BY <1>t, <2>3, <3>1, LevelsFacts
    <3>3. /\ \A i \in 1..Len(t.segs) : ancestors(t)[i] \in ChainSet(t)
          /\ \A i \in 1..Len(t.segs) : ch[i + 1] = ancestors(t)[i]
          /\ ch[1] = t
      BY <1>t, ChainShape DEF ChainSet
    <3>4. ancestors(t)[L] \in present /\ ancestors(t)[L] \in seen.present
      BY <1>5, <3>2, <3>3 DEF Sound, Tree
    <3> DEFINE m == materialized(o, seen)
               p == Plan(o, seen)
    <3>5. /\ m.created \in Seq(Urls) /\ Len(m.created) = L /\ DOMAIN m.linked = 1..L
          /\ \A i \in 1..L : m.created[i] = ch[i] /\ m.linked[i] = <<ch[i + 1], ch[i]>>
          /\ p \in Seq(PlanStep) /\ Len(p) = L
          /\ \A i \in 1..L : p[i] = [at |-> ch[i + 1], child |-> ch[i]]
      BY <1>t, <2>3, <3>2, <3>4, WalkOfChain
    <3>6. ASSUME NEW i \in 1..L PROVE ch[i] \notin present /\ ch[i] \notin contains[ch[i + 1]]
      <4>1. ch[i] \notin present
        <5>1. CASE i = 1
          BY <3>1, <3>3, <5>1
        <5>2. CASE i # 1
          <6>1. i - 1 \in 1..L /\ i - 1 # L /\ i - 1 \in 1..Len(t.segs) /\ (i - 1) + 1 = i
            <7> HIDE DEF L
            <7> QED BY <3>2, <5>2
          <6>2. ancestors(t)[i - 1] \notin seen.present
            BY <1>t, <2>3, <6>1, WalkIsMissing
          <6>3. ch[i] = ancestors(t)[i - 1] /\ ancestors(t)[i - 1] \in ChainSet(t)
            BY <3>3, <6>1
          <6> QED BY <1>5, <6>2, <6>3
        <5> QED BY <5>1, <5>2
      <4>2. i \in 1..Len(t.segs)
        BY <3>2
      <4>3. ch[i + 1] \in Containers
        BY <1>t, <4>2, ChainSteps
      <4> QED BY <1>3, <4>1, <4>3 DEF Exact
    <3>7. ch[L + 1] \in present
      BY <3>2, <3>3, <3>4
    <3>8. facts'[r].existed = (L = 0)
      <4>1. facts'[r].existed = (t \in seen.present)
        BY <1>8, <3>1
      <4> QED BY <3>1, <3>2, <4>1
    <3>9. Foreseen(o, facts'[r], was[r], L)
      <4>1. L \in 0..Len(t.segs)
        BY <3>2
      <4> HIDE DEF L, m, ch, t
      <4> QED BY <1>8, <1>h, <3>5, <3>6, <3>7, <3>8, <4>1 DEF Foreseen, m, ch, t
    <3>10. pc'[r] = "ensure"
      BY <2>1, <3>2
    <3>11. Gained(o, was[r], Here, 2..(0 + 1), 0)
      <4>1. 2..(0 + 1) = {}
        OBVIOUS
      <4> QED BY <1>2, <4>1, NothingGained
    <3> HIDE DEF L, m
    <3>n. PICK n : n = L
      OBVIOUS
    <3>12. Walked(r, n, 0)'
      <4>1. 0 + Len(plan'[r]) = L /\ plan'[r] = p /\ Len(p) = L
        BY <2>1, <3>2, <3>5
      <4>2. \A i \in 1..L : 0 + i + 1 = i + 1 /\ 0 + i = i
        BY <3>2
      <4>3. \A i \in 1..Len(plan'[r]) : plan'[r][i] = [at |-> ch[0 + i + 1], child |-> ch[0 + i]]
        BY <3>5, <4>1, <4>2
      <4>4. Gained(op'[r], was'[r], Here', 2..(0 + 1), 0)
        BY <1>1, <1>2, <3>11
      <4>5. pc'[r] # "link" /\ op'[r].target = t
        BY <1>1, <3>10
      <4> HIDE DEF ch, t, p
      <4> QED BY <3>n, <4>1, <4>3, <4>4, <4>5 DEF Walked, ch, t
    <3>13. Grows(r)'
      <4>1. o.method \in {"PUT", "POST", "PATCH"}
        BY <1>7, <3>1
      <4>2. Foreseen(op'[r], facts'[r], was'[r], n) /\ n \in Nat
        BY <1>1, <1>2, <3>2, <3>9, <3>n
      <4>3. /\ pc'[r] \notin Writing /\ pc'[r] # "type" /\ pc'[r] # "patch"
        BY <3>10 DEF Writing
      <4>4. \E k \in Nat : Walked(r, n, k)'
        BY <3>12
      <4>5. op'[r].method = o.method /\ n # 0
        BY <1>1, <3>2, <3>n
      <4> QED BY <4>1, <4>2, <4>3, <4>4, <4>5 DEF Grows
    <3> QED BY <1>1, <1>2, <3>10, <3>13, GrowsOn DEF Walking
  <2> QED BY <2>2, <2>3
<1> QED BY <1>f, <1>9 DEF Materialize

-----------------------------------------------------------------------------
(* What watchers are told *)

\* Every step of the one request keeps what it will say true.
LEMMA StepTold ==
  ASSUME IInv, Sound, AuxHasSubject, EventTypes, NEW r \in Reqs, Alone(r), Quiet(r), Told(r),
         Handle(r)
  PROVE  Told(r)'
<1>1. Step(r) /\ Emit(r)
  BY DEF Handle
<1>2. CASE ProbeMarkers(r) \/ Deny(r) \/ Refuse(r) \/ DecidePost(r) \/ Rename(r)
  BY <1>1, <1>2, GuardTold
<1>3. CASE DecideAux(r) \/ AclThere(r) \/ AskDeletions(r) \/ AclFound(r)
  BY <1>1, <1>3, AclAsksTold
<1>4. CASE DecideDelete(r) \/ IsEmpty(r) \/ Found(r)
  BY <1>1, <1>4, DeleteAsksTold
<1>5. CASE WriteAcl(r) \/ PatchAcl(r) \/ Confirm(r) \/ DeleteAcl(r)
  BY <1>1, <1>5, AclWritesTold, ConfirmTold, DeleteAclTold
<1>6. CASE DeleteSubject(r) \/ Close(r) \/ Materialize(r)
  BY <1>1, <1>6, DeleteTold, CloseTold, MaterializeTold
<1>7. CASE EnsureAncestor(r) \/ LinkChild(r)
  BY <1>1, <1>7, EnsureTold, LinkTold
<1>8. CASE WriteResource(r) \/ ReadMembers(r) \/ ReplaceContainer(r) \/ TypeContainer(r)
  BY <1>1, <1>8, TargetWritesTold
<1>9. CASE DecidePatch(r) \/ PatchExisting(r)
  BY <1>1, <1>9, PatchTold
<1> QED BY <1>1, <1>2, <1>3, <1>4, <1>5, <1>6, <1>7, <1>8, <1>9 DEF Step

\* A write of an ACL comes with a document, a patch of one with its two halves.
LEMMA AclWritesDeleteNothing ==
  ASSUME NEW o \in Requests, o.method = "PUT_acl"
  PROVE  o.del = {}
BY DEF Requests, SubjectRequests, AclRequests

\* A request that arrives has said nothing and changed nothing.
LEMMA ArriveTold ==
  ASSUME IInv, EventTypes, NEW r \in Reqs, Told(r), Arrive(r)
  PROVE  /\ Told(r)' /\ EventTypes'
         /\ \A q \in Reqs \ {r} : published'[q] = published[q]
<1>1. /\ pc[r] = "idle" /\ pc'[r] = "markers" /\ published' = published
      /\ present' = present /\ contains' = contains /\ marked' = marked
      /\ was' = [was EXCEPT ![r] = Here] /\ facts' = [facts EXCEPT ![r] = NoFacts]
  BY DEF Arrive, Start, Goto, store, IInv, TypeOK
<1>2. op'[r] \in Requests
  BY DEF Arrive, Start, IInv, TypeOK
<1>3. Here \in [present : SUBSET Urls, contains : [Containers -> SUBSET Urls], marked : SUBSET Urls]
  BY DEF Here, IInv, TypeOK
<1>4. EventTypes'
  BY <1>1, <1>3 DEF EventTypes
<1>5. Here' = was'[r]
  BY <1>1, HereStays DEF EventTypes
<1>6. published'[r] = <<>>
  BY <1>1 DEF Told
<1>7. Removes(r)'
  BY <1>1 DEF Removes, Deleting
<1>8. op'[r].method = "PUT_acl" => op'[r].del = {}
  BY <1>2, AclWritesDeleteNothing
<1>9. Told(r)'
  BY <1>1, <1>5, <1>6, <1>7, <1>8 DEF Told, Walking, Writing, AclLabels
<1> QED BY <1>1, <1>4, <1>9

\* Every step with events is one of Pod's.
LEMMA EventsArePods == [EventNext]_eventVars => [Next]_vars
<1>1. EventNext => Next
  BY DEF EventNext, Arrive, Handle, Next
<1>2. UNCHANGED eventVars => UNCHANGED vars
  BY DEF eventVars
<1> QED BY <1>1, <1>2

\* EventInv is inductive beside the two invariants of the request that is there.
LEMMA EventPreserved ==
  ASSUME MaxInFlight = 1, ~Faults, SeqInv, QuietInv, EventInv, [EventNext]_eventVars
  PROVE  EventInv'
<1>i. /\ IInv /\ Sound /\ OneAtATime /\ (\A q \in Reqs : Alone(q)) /\ (\A q \in Reqs : Quiet(q))
      /\ EventTypes /\ AuxHasSubject /\ (\A q \in Reqs : Told(q))
  BY DEF SeqInv, QuietInv, EventInv
<1>1. AuxHasSubject'
  BY <1>i, EventsArePods, PoliciesKeepSubject
<1>2. CASE UNCHANGED eventVars
  <2>1. EventTypes'
    BY <1>i, <1>2 DEF eventVars, EventTypes
  <2>2. ASSUME NEW q \in Reqs PROVE Told(q)'
    <3>1. /\ Here' = Here /\ Removes(q)' = Removes(q) /\ WritesAcl(q)' = WritesAcl(q)
          /\ Accounts(q)' = Accounts(q) /\ Grows(q)' = Grows(q)
      <4>1. UNCHANGED <<present, contains, marked, pc, op, plan, saw, reply, facts, published, was>>
        BY <1>2 DEF eventVars, vars
      <4>2. Here' = Here
        BY <4>1, HereStays
      <4>3. Removes(q)' = Removes(q)
        BY <4>1 DEF Removes
      <4>4. WritesAcl(q)' = WritesAcl(q)
        BY <4>1, <4>2 DEF WritesAcl
      <4>5. Accounts(q)' = Accounts(q)
        BY <4>1, <4>2 DEF Accounts
      <4>6. \A n, k : Walked(q, n, k)' = Walked(q, n, k)
        BY <4>1, <4>2 DEF Walked
      <4>7. Grows(q)' = Grows(q)
        BY <4>1, <4>2, <4>6 DEF Grows
      <4> QED BY <4>2, <4>3, <4>4, <4>5, <4>7
    <3>2. UNCHANGED <<pc, op, published, was>>
      BY <1>2 DEF eventVars, vars
    <3> QED BY <1>i, <3>1, <3>2 DEF Told
  <2> QED BY <1>1, <2>1, <2>2 DEF EventInv
<1>3. ASSUME NEW r \in Reqs, Arrive(r) \/ Handle(r) PROVE EventInv'
  <2>0. Start(r) \/ Step(r)
    BY <1>3 DEF Arrive, Handle
  <2>1. Told(r)' /\ EventTypes' /\ \A q \in Reqs \ {r} : published'[q] = published[q]
    <3>1. CASE Arrive(r)
      BY <1>i, <3>1, ArriveTold
    <3>2. CASE Handle(r)
      <4>1. Emit(r)
        BY <3>2 DEF Handle
      <4> QED BY <1>i, <3>2, <4>1, StepTold, EmitFrame
    <3> QED BY <1>3, <3>1, <3>2
  <2>2. \A q \in Reqs \ {r} : pc[q] = "idle"
    <3>1. CASE Start(r)
      BY <3>1, ArrivesAlone DEF Quiescent
    <3>2. CASE Step(r)
      BY <1>i, <3>2, OnlyServedStep DEF OneAtATime
    <3> QED BY <2>0, <3>1, <3>2
  <2>3. ASSUME NEW q \in Reqs \ {r} PROVE Told(q)'
    <3>1. pc'[q] = "idle"
      BY <1>i, <2>0, <2>2, OthersStay
    <3>2. published'[q] = <<>>
      BY <1>i, <2>1, <2>2 DEF Told
    <3>3. Removes(q)'
      BY <3>1 DEF Removes, Deleting
    <3> QED BY <3>1, <3>2, <3>3 DEF Told, Walking, Writing, AclLabels, Unwritten
  <2> QED BY <1>1, <2>1, <2>3 DEF EventInv
<1> QED BY <1>2, <1>3 DEF EventNext

\* A pod just provisioned has told nobody anything.
LEMMA InitEvents == EventInit => EventInv
<1> SUFFICES ASSUME EventInit PROVE EventInv
  OBVIOUS
<1>1. Init /\ IInv
  BY InitTypes DEF EventInit
<1>2. Here \in [present : SUBSET Urls, contains : [Containers -> SUBSET Urls], marked : SUBSET Urls]
  BY <1>1 DEF Here, IInv, TypeOK
<1>3. EventTypes
  BY <1>2 DEF EventInit, EventTypes
<1>4. AuxHasSubject
  BY <1>1 DEF Init, AuxHasSubject
<1>5. ASSUME NEW r \in Reqs PROVE Told(r)
  <2>1. pc[r] = "idle" /\ published[r] = <<>>
    BY <1>1 DEF Init, EventInit
  <2> QED BY <2>1 DEF Told, Removes, Deleting, Walking, Writing, AclLabels, Unwritten
<1> QED BY <1>3, <1>4, <1>5 DEF EventInv

\* Watchers are told the truth, all of it and once, for every tree, every chain
\* of missing ancestors and every request, one at a time and without faults:
\* although no handler compares the store before and after, what emit_put,
\* emit_post, emit_patch and emit_delete say from the guard's facts is exactly
\* what the request changed, and a failure has changed nothing.
THEOREM EventsAreTrue ==
  ASSUME MaxInFlight = 1, ~Faults
  PROVE  EventSpec => []EventsTellTheChange
<1>1. EventInit => SeqInv /\ QuietInv /\ EventInv
  BY InitSeq, InitQuiet, InitEvents DEF EventInit
<1>2. SeqInv /\ QuietInv /\ EventInv /\ [EventNext]_eventVars => (SeqInv /\ QuietInv /\ EventInv)'
  BY EventsArePods, SeqPreserved, QuietPreserved, EventPreserved
<1>3. EventInv => EventsTellTheChange
  <2> SUFFICES ASSUME EventInv, NEW r \in Reqs, pc[r] = "replied"
               PROVE  /\ \A i, j \in DOMAIN published[r] : published[r][i] = published[r][j] => i = j
                      /\ ToSet(published[r]) =
                           IF reply[r] = "ok"
                           THEN Changes(was[r], Here) \cup Updates(op[r], was[r], Here)
                           ELSE {}
                      /\ reply[r] # "ok" => was[r] = Here
    BY DEF EventsTellTheChange
  <2>1. Accounts(r)
    BY DEF EventInv, Told
  <2>2. CASE reply[r] = "ok"
    BY <2>1, <2>2 DEF Accounts, Tells
  <2>3. CASE reply[r] # "ok"
    <3>1. published[r] = <<>> /\ was[r] = Here
      BY <2>1, <2>3 DEF Accounts
    <3>2. DOMAIN published[r] = {}
      BY <3>1
    <3>3. ToSet(published[r]) = {}
      BY <3>2 DEF ToSet
    <3> QED BY <2>3, <3>1, <3>2, <3>3
  <2> QED BY <2>2, <2>3
<1> QED BY <1>1, <1>2, <1>3, PTL DEF EventSpec
=============================================================================
