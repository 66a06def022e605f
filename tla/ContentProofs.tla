--------------------------- MODULE ContentProofs ---------------------------
(***************************************************************************)
(* More of Decisions for every input of its type: what an Accept header is *)
(* answered with, what of a body is stored, served and replaced, which     *)
(* names stand for one resource, and what a patch does.                    *)
(***************************************************************************)
EXTENDS DecisionsProofs

-----------------------------------------------------------------------------
(* Ranking: rdf.rs *)

\* What ranked_accept would sort is there to be found: of any entries one comes
\* first.
LEMMA FirstExists ==
  ASSUME NEW accept \in W!Accepts, NEW found \in SUBSET (DOMAIN accept), found # {}
  PROVE  /\ W!FirstRanked(accept, found) \in found
         /\ \A j \in found : W!ranked_accept(accept, W!FirstRanked(accept, found), j)
<1> DEFINE n == Len(accept)
           q(i) == accept[i].q
           IsFirst(S, i) == i \in S /\ \A j \in S : W!ranked_accept(accept, i, j)
           Bad == {k \in 0..n : \E S \in SUBSET (1..k) : S # {} /\ ~\E i : IsFirst(S, i)}
<1>1. n \in Nat /\ DOMAIN accept = 1..n /\ \A i \in 1..n : q(i) \in Nat
  <2> DEFINE E == [range : W!Ranges, q : Nat, version : 0..3]
  <2>1. accept \in Seq(E)
    BY DEF W!Accepts
  <2>2. \A e \in E : e.q \in Nat
    OBVIOUS
  <2> HIDE DEF E
  <2>3. Len(accept) \in Nat /\ DOMAIN accept = 1..Len(accept)
        /\ \A i \in 1..Len(accept) : accept[i] \in E
    BY <2>1
  <2> QED BY <2>2, <2>3
<1>2. \A i, j : W!ranked_accept(accept, i, j) <=> q(i) > q(j) \/ (q(i) = q(j) /\ i <= j)
  BY DEF W!ranked_accept
<1> HIDE DEF n, q
<1>3. Bad = {}
  <2> SUFFICES ASSUME Bad # {} PROVE FALSE
    OBVIOUS
  <2>1. Bad \subseteq Nat
    OBVIOUS
  <2>2. PICK k \in Bad : \A j \in Bad : k <= j
    <3> HIDE DEF Bad
    <3> QED BY <2>1, LeastExists
  <2>3. PICK S \in SUBSET (1..k) : S # {} /\ ~\E i : IsFirst(S, i)
    BY <2>2
  <2>4. k \in 0..n /\ k # 0
    BY <1>1, <2>2, <2>3
  <2>5. k - 1 \in 0..n /\ k - 1 \notin Bad
    <3>1. k - 1 \in 0..n /\ ~(k <= k - 1)
      BY <1>1, <2>4
    <3> HIDE DEF Bad
    <3> QED BY <2>2, <3>1
  <2> DEFINE T == S \ {k}
  <2>6. T \in SUBSET (1..(k - 1)) /\ \A i \in S : i \in 1..n /\ i <= k
    <3>1. \A i \in S : i \in 1..k
      BY <2>3
    <3>2. \A i \in S : i \in 1..n /\ i <= k
      BY <1>1, <2>4, <3>1
    <3>3. \A i \in T : i \in 1..(k - 1)
      BY <1>1, <2>4, <3>1
    <3> QED BY <3>2, <3>3
  <2>7. CASE T = {}
    <3>1. S = {k}
      BY <2>3, <2>7
    <3>2. IsFirst(S, k)
      BY <1>1, <1>2, <2>4, <3>1
    <3> QED BY <2>3, <3>2
  <2>8. CASE T # {}
    <3>1. PICK i : IsFirst(T, i)
      BY <2>5, <2>6, <2>8
    <3>2. i \in S /\ i \in 1..n /\ i < k /\ \A j \in T : q(i) > q(j) \/ (q(i) = q(j) /\ i <= j)
      BY <1>2, <2>4, <2>6, <3>1
    <3>3. CASE k \in S /\ q(k) > q(i)
      <4>1. \A j \in S : q(k) > q(j) \/ (q(k) = q(j) /\ k <= j)
        <5> SUFFICES ASSUME NEW j \in S PROVE q(k) > q(j) \/ (q(k) = q(j) /\ k <= j)
          OBVIOUS
        <5>1. q(j) \in Nat /\ q(k) \in Nat /\ q(i) \in Nat
          BY <1>1, <2>6, <3>2, <3>3
        <5>2. CASE j = k
          BY <2>4, <5>1, <5>2
        <5>3. CASE j # k
          <6>1. q(i) >= q(j)
            BY <3>2, <5>1, <5>3
          <6> QED BY <3>3, <5>1, <6>1
        <5> QED BY <5>2, <5>3
      <4> QED BY <1>2, <2>3, <3>3, <4>1
    <3>4. CASE ~(k \in S /\ q(k) > q(i))
      <4>1. \A j \in S : q(i) > q(j) \/ (q(i) = q(j) /\ i <= j)
        <5> SUFFICES ASSUME NEW j \in S PROVE q(i) > q(j) \/ (q(i) = q(j) /\ i <= j)
          OBVIOUS
        <5>1. q(j) \in Nat /\ q(i) \in Nat /\ i \in Nat /\ k \in Nat
          BY <1>1, <2>4, <2>6, <3>2
        <5>2. CASE j = k
          BY <3>2, <3>4, <5>1, <5>2
        <5>3. CASE j # k
          BY <3>2, <5>3
        <5> QED BY <5>2, <5>3
      <4> QED BY <1>2, <2>3, <3>2, <4>1
    <3> QED BY <3>3, <3>4
  <2> QED BY <2>7, <2>8
<1>4. n \in 0..n /\ n \notin Bad
  <2> HIDE DEF Bad
  <2> QED BY <1>1, <1>3
<1>5. \E i : IsFirst(found, i)
  <2>1. found \in SUBSET (1..n)
    BY <1>1
  <2> QED BY <1>4, <2>1
<1> QED BY <1>5 DEF W!FirstRanked

-----------------------------------------------------------------------------
(* Negotiation: rdf.rs *)

\* The entries of a header.
LEMMA EntryTypes ==
  ASSUME NEW accept \in W!Accepts
  PROVE  /\ Len(accept) \in Nat /\ DOMAIN accept = 1..Len(accept)
         /\ \A i \in DOMAIN accept : /\ accept[i].range \in W!Ranges
                                     /\ accept[i].q \in Nat
                                     /\ accept[i].version \in 0..3
<1> DEFINE E == [range : W!Ranges, q : Nat, version : 0..3]
<1>1. accept \in Seq(E)
  BY DEF W!Accepts
<1>2. \A e \in E : e.range \in W!Ranges /\ e.q \in Nat /\ e.version \in 0..3
  OBVIOUS
<1> HIDE DEF E
<1>3. Len(accept) \in Nat /\ DOMAIN accept = 1..Len(accept)
      /\ \A i \in DOMAIN accept : accept[i] \in E
  BY <1>1
<1> QED BY <1>2, <1>3

\* The first of two formats.
LEMMA FirstOfTwo ==
  ASSUME NEW a, NEW b
  PROVE  W!FirstFormat(<<a, b>>) = IF a # W!NoFormat THEN a ELSE b
<1> DEFINE s == <<a, b>>
           found == {i \in DOMAIN s : s[i] # W!NoFormat}
<1>1. DOMAIN s = {1, 2} /\ s[1] = a /\ s[2] = b
  OBVIOUS
<1>2. W!FirstFormat(s) = IF found = {} THEN W!NoFormat
                         ELSE s[CHOOSE i \in found : \A j \in found : i <= j]
  BY Zenon DEF W!FirstFormat
<1> HIDE DEF s
<1>3. CASE a # W!NoFormat
  <2>1. 1 \in found /\ \A j \in found : 1 <= j
    BY <1>1, <1>3
  <2>2. \A i \in found : (\A j \in found : i <= j) => i = 1
    BY <1>1, <2>1
  <2>3. (CHOOSE i \in found : \A j \in found : i <= j) = 1
    BY <2>1, <2>2
  <2> QED BY <1>1, <1>2, <1>3, <2>1, <2>3 DEF s
<1>4. CASE a = W!NoFormat /\ b # W!NoFormat
  <2>1. found = {2}
    BY <1>1, <1>4
  <2>2. (CHOOSE i \in found : \A j \in found : i <= j) = 2
    BY <2>1
  <2> QED BY <1>1, <1>2, <1>4, <2>1, <2>2 DEF s
<1>5. CASE a = W!NoFormat /\ b = W!NoFormat
  <2>1. found = {}
    BY <1>1, <1>5
  <2> QED BY <1>2, <1>5, <2>1 DEF s
<1> QED BY <1>3, <1>4, <1>5

\* The formats a range may be answered with, some passing if it is a wildcard
\* and some if it names a type.
Open(range, f, stored, ok, okNamed) ==
  /\ W!Under(range, f, stored)
  /\ IF range \in W!Wildcards THEN f \in ok ELSE f \in okNamed

\* One arm of the match gives one of them, if there is one.
LEMMA CandidateIsOpen ==
  ASSUME NEW range \in W!Ranges, NEW stored \in W!Formats \cup {W!NoFormat},
         NEW ok \in SUBSET W!Formats, NEW okNamed \in SUBSET W!Formats
  PROVE  LET c == W!Candidate(range, stored, ok, okNamed)
         IN /\ c # W!NoFormat => c \in W!Formats /\ Open(range, c, stored, ok, okNamed)
            /\ c = W!NoFormat => \A f \in W!Formats : ~Open(range, f, stored, ok, okNamed)
<1> DEFINE c == W!Candidate(range, stored, ok, okNamed)
           Words == {"any", "textAny", "applicationAny"}
<1>1. /\ W!Formats = {"turtle", "jsonld", "trig"} /\ W!NoFormat = "none"
      /\ W!Turtle = "turtle" /\ W!JsonLd = "jsonld"
      /\ W!Wildcards = Words /\ W!Ranges = W!Formats \cup Words \cup {"png"}
  BY DEF W!Formats, W!NoFormat, W!Turtle, W!JsonLd, W!TriG, W!Wildcards, W!Ranges
<1>2. \A f : W!Filtered(f, ok) = IF f \in ok THEN f ELSE W!NoFormat
  BY DEF W!Filtered
<1>3. W!Fallback(ok) = IF "turtle" \in ok THEN "turtle"
                       ELSE IF "jsonld" \in ok THEN "jsonld" ELSE "none"
  <2>1. W!Fallback(ok) = W!FirstFormat(<<W!Filtered(W!Turtle, ok), W!Filtered(W!JsonLd, ok)>>)
    BY DEF W!Fallback
  <2> QED BY <1>1, <1>2, <2>1, FirstOfTwo
<1>4. CASE range = "any"
  <2>1. c = W!FirstFormat(<<W!Filtered(stored, ok), W!Fallback(ok)>>)
    BY <1>4 DEF W!Candidate
  <2>2. c = IF stored \in ok THEN stored ELSE W!Fallback(ok)
    <3> HIDE DEF c
    <3> QED BY <1>1, <1>2, <2>1, FirstOfTwo
  <2> HIDE DEF c
  <2>3. \A f : Open(range, f, stored, ok, okNamed) <=> f \in {stored, "turtle", "jsonld"} /\ f \in ok
    BY <1>1, <1>4 DEF Open, W!Under
  <2> QED BY <1>1, <1>3, <2>2, <2>3 DEF c
<1>5. CASE range = "textAny"
  <2>1. c = W!Filtered("turtle", ok)
    BY <1>1, <1>5 DEF W!Candidate
  <2> HIDE DEF c
  <2>2. \A f : Open(range, f, stored, ok, okNamed) <=> f = "turtle" /\ f \in ok
    BY <1>1, <1>5 DEF Open, W!Under
  <2> QED BY <1>1, <1>2, <2>1, <2>2 DEF c
<1>6. CASE range = "applicationAny"
  <2>1. c = W!Fallback(ok)
    BY <1>6 DEF W!Candidate
  <2> HIDE DEF c
  <2>2. \A f : Open(range, f, stored, ok, okNamed) <=> f \in {"turtle", "jsonld"} /\ f \in ok
    BY <1>1, <1>6 DEF Open, W!Under
  <2> QED BY <1>1, <1>3, <2>1, <2>2 DEF c
<1>7. CASE range \in W!Formats \cup {"png"}
  <2>0. range \notin Words
    BY <1>1, <1>7
  <2>1. c = W!Filtered(W!from_content_type(range), okNamed)
    BY <2>0 DEF W!Candidate
  <2>2. c = IF range \in W!Formats /\ range \in okNamed THEN range ELSE "none"
    BY <1>1, <2>1 DEF W!Filtered, W!from_content_type
  <2> HIDE DEF c
  <2>3. \A f : Open(range, f, stored, ok, okNamed) <=> f = range /\ f \in okNamed
    BY <1>1, <2>0 DEF Open, W!Under
  <2> QED BY <1>1, <2>2, <2>3 DEF c
<1> QED BY <1>1, <1>4, <1>5, <1>6, <1>7

\* The choices one pass has.
Offers(accept, stored, ok, okNamed) ==
  {c \in (DOMAIN accept) \X W!Formats :
     /\ accept[c[1]].q > 0 /\ accept[c[1]].version # W!UnknownVersion
     /\ Open(accept[c[1]].range, c[2], stored, ok, okNamed)}

\* A pass answers with one of the highest quality, and with none if there is none.
LEMMA PassServes ==
  ASSUME NEW accept \in W!Accepts, NEW stored \in W!Formats \cup {W!NoFormat},
         NEW ok \in SUBSET W!Formats, NEW okNamed \in SUBSET W!Formats
  PROVE  LET p == W!Pass(accept, stored, ok, okNamed)
             offers == Offers(accept, stored, ok, okNamed)
         IN /\ offers = {} => p.fmt = W!NoFormat
            /\ offers # {} =>
                 /\ p.fmt # W!NoFormat
                 /\ \E c \in offers : /\ p = [fmt |-> c[2], version |-> accept[c[1]].version]
                                      /\ \A o \in offers : accept[c[1]].q >= accept[o[1]].q
<1> DEFINE p == W!Pass(accept, stored, ok, okNamed)
           offers == Offers(accept, stored, ok, okNamed)
           ans(i) == W!Answer(accept[i], stored, ok, okNamed)
           cand(i) == W!Candidate(accept[i].range, stored, ok, okNamed)
           served(i) == accept[i].q > 0 /\ accept[i].version # W!UnknownVersion
           found == {i \in DOMAIN accept : ans(i).fmt # W!NoFormat}
           first == W!FirstRanked(accept, found)
<1>1. \A i \in DOMAIN accept : /\ accept[i].range \in W!Ranges
                               /\ accept[i].q \in Nat
  BY EntryTypes
<1>2. p = IF found = {} THEN [fmt |-> W!NoFormat, version |-> W!UnknownVersion] ELSE ans(first)
  BY Zenon DEF W!Pass
<1>3. W!NoFormat \notin W!Formats
  BY DEF W!Formats, W!NoFormat, W!Turtle, W!JsonLd, W!TriG
<1>4. \A i \in DOMAIN accept : ans(i) = [fmt |-> IF served(i) THEN cand(i) ELSE W!NoFormat,
                                         version |-> accept[i].version]
  <2> SUFFICES ASSUME NEW i \in DOMAIN accept
               PROVE  ans(i) = [fmt |-> IF served(i) THEN cand(i) ELSE W!NoFormat,
                                version |-> accept[i].version]
    OBVIOUS
  <2>1. served(i) <=> ~(accept[i].q = 0 \/ accept[i].version = W!UnknownVersion)
    BY <1>1
  <2> QED BY <2>1 DEF W!Answer
<1>5. \A i \in DOMAIN accept :
        /\ cand(i) # W!NoFormat =>
             cand(i) \in W!Formats /\ Open(accept[i].range, cand(i), stored, ok, okNamed)
        /\ cand(i) = W!NoFormat =>
             \A f \in W!Formats : ~Open(accept[i].range, f, stored, ok, okNamed)
  BY <1>1, CandidateIsOpen, Zenon
<1> HIDE DEF cand, ans, first
<1>6. \A c : c \in offers <=>
        \E i \in DOMAIN accept, f \in W!Formats :
          c = <<i, f>> /\ served(i) /\ Open(accept[i].range, f, stored, ok, okNamed)
  BY DEF Offers
<1> HIDE DEF served
<1>7. \A i \in found : /\ ans(i) = [fmt |-> cand(i), version |-> accept[i].version]
                       /\ <<i, cand(i)>> \in offers
  <2> SUFFICES ASSUME NEW i \in found
               PROVE  /\ ans(i) = [fmt |-> cand(i), version |-> accept[i].version]
                      /\ <<i, cand(i)>> \in offers
    OBVIOUS
  <2>1. i \in DOMAIN accept /\ ans(i).fmt # W!NoFormat
    OBVIOUS
  <2>2. served(i) /\ ans(i).fmt = cand(i)
    BY <1>4, <2>1
  <2>3. cand(i) \in W!Formats /\ Open(accept[i].range, cand(i), stored, ok, okNamed)
    BY <1>5, <2>1, <2>2
  <2> QED BY <1>4, <1>6, <2>1, <2>2, <2>3
<1>8. \A c \in offers : c[1] \in found
  <2> SUFFICES ASSUME NEW c \in offers PROVE c[1] \in found
    OBVIOUS
  <2>1. PICK i \in DOMAIN accept, f \in W!Formats :
          c = <<i, f>> /\ served(i) /\ Open(accept[i].range, f, stored, ok, okNamed)
    BY <1>6
  <2>2. cand(i) # W!NoFormat
    BY <1>5, <2>1
  <2>3. ans(i).fmt # W!NoFormat
    BY <1>4, <2>1, <2>2
  <2> QED BY <2>1, <2>3
<1> HIDE DEF offers
<1>9. CASE found = {}
  <2>1. offers = {}
    BY <1>8, <1>9
  <2>2. p.fmt = W!NoFormat
    BY <1>2, <1>9
  <2> QED BY <2>1, <2>2 DEF offers
<1>10. CASE found # {}
  <2> HIDE DEF found
  <2>1. found \in SUBSET DOMAIN accept
    BY DEF found
  <2>2. first \in found /\ \A j \in found : W!ranked_accept(accept, first, j)
    BY <1>10, <2>1, FirstExists DEF first
  <2>3. \A j \in found : accept[first].q >= accept[j].q
    <3> SUFFICES ASSUME NEW j \in found PROVE accept[first].q >= accept[j].q
      OBVIOUS
    <3>1. accept[first].q \in Nat /\ accept[j].q \in Nat
      BY <1>1, <2>1, <2>2
    <3> QED BY <2>2, <3>1 DEF W!ranked_accept
  <2> DEFINE c == <<first, cand(first)>>
  <2>4. c \in offers /\ c[1] = first /\ c[2] = cand(first)
    BY <1>7, <2>2
  <2>5. p = [fmt |-> c[2], version |-> accept[c[1]].version]
    BY <1>2, <1>7, <1>10, <2>2, <2>4
  <2>6. \A o \in offers : accept[c[1]].q >= accept[o[1]].q
    BY <1>8, <2>3, <2>4
  <2>7. p.fmt # W!NoFormat
    <3>1. cand(first) \in W!Formats
      BY <1>6, <2>4 DEF offers
    <3> QED BY <1>3, <2>4, <2>5, <3>1
  <2> HIDE DEF c, p
  <2>8. offers # {}
    BY <2>4
  <2>9. \E x \in offers : /\ p = [fmt |-> x[2], version |-> accept[x[1]].version]
                          /\ \A o \in offers : accept[x[1]].q >= accept[o[1]].q
    BY <2>4, <2>5, <2>6
  <2> QED BY <2>7, <2>8, <2>9 DEF p, offers
<1> QED BY <1>9, <1>10

\* The formats negotiate's two passes let by leave exactly the choices of a
\* header, whole and partial.
LEMMA ChoicesAreOffers ==
  ASSUME NEW accept \in W!Accepts, NEW shape, NEW stored
  PROVE  LET usable == W!Usable(shape)
             notRejected == W!Formats \ W!Rejected(accept)
         IN /\ W!Choices(accept, shape, stored, FALSE)
                 = Offers(accept, stored, usable \cap notRejected, usable)
            /\ W!Choices(accept, shape, stored, TRUE)
                 = Offers(accept, stored, notRejected, notRejected)
<1> DEFINE usable == W!Usable(shape)
           rejected == W!Rejected(accept)
           notRejected == W!Formats \ rejected
           under(c) == W!Under(accept[c[1]].range, c[2], stored)
           served(c) == accept[c[1]].q > 0 /\ accept[c[1]].version # W!UnknownVersion
           AllPairs == (DOMAIN accept) \X W!Formats
<1>1. \A c \in AllPairs : c[1] \in DOMAIN accept /\ c[2] \in W!Formats /\ accept[c[1]].range \in W!Ranges
  BY EntryTypes
<1>2. \A c \in AllPairs : c[2] \in usable <=> shape = "Graph" \/ W!carries_dataset(c[2])
  BY <1>1 DEF W!Usable
<1>3. \A c \in AllPairs : under(c) /\ accept[c[1]].range \notin W!Wildcards => accept[c[1]].range = c[2]
  BY DEF W!Under, W!Wildcards
<1>4. \A c \in AllPairs : accept[c[1]].range = c[2] => accept[c[1]].range \notin W!Wildcards
  BY <1>1 DEF W!Wildcards, W!Formats, W!Turtle, W!JsonLd, W!TriG
<1>5. W!Choices(accept, shape, stored, FALSE)
        = {c \in AllPairs : /\ served(c) /\ under(c)
                            /\ c[2] \notin rejected \/ accept[c[1]].range = c[2]
                            /\ shape = "Graph" \/ W!carries_dataset(c[2])}
  BY DEF W!Choices
<1>6. W!Choices(accept, shape, stored, TRUE)
        = {c \in AllPairs : served(c) /\ under(c) /\ c[2] \notin rejected}
  BY DEF W!Choices
<1>7. /\ Offers(accept, stored, usable \cap notRejected, usable)
           = {c \in AllPairs : /\ served(c) /\ under(c)
                               /\ IF accept[c[1]].range \in W!Wildcards
                                  THEN c[2] \in usable \cap notRejected ELSE c[2] \in usable}
      /\ Offers(accept, stored, notRejected, notRejected)
           = {c \in AllPairs : /\ served(c) /\ under(c)
                               /\ IF accept[c[1]].range \in W!Wildcards
                                  THEN c[2] \in notRejected ELSE c[2] \in notRejected}
  BY DEF Offers, Open
<1> HIDE DEF usable, rejected, under, served
<1>8. W!Choices(accept, shape, stored, FALSE) = Offers(accept, stored, usable \cap notRejected, usable)
  <2> DEFINE L(c) == /\ served(c) /\ under(c)
                     /\ c[2] \notin rejected \/ accept[c[1]].range = c[2]
                     /\ shape = "Graph" \/ W!carries_dataset(c[2])
             R(c) == /\ served(c) /\ under(c)
                     /\ IF accept[c[1]].range \in W!Wildcards
                        THEN c[2] \in usable \cap notRejected ELSE c[2] \in usable
  <2>1. \A c \in AllPairs : L(c) <=> R(c)
    <3> SUFFICES ASSUME NEW c \in AllPairs PROVE L(c) <=> R(c)
      OBVIOUS
    <3>1. c[2] \in notRejected <=> c[2] \notin rejected
      BY <1>1
    <3> QED BY <1>2, <1>3, <1>4, <3>1
  <2>2. Offers(accept, stored, usable \cap notRejected, usable) = {c \in AllPairs : R(c)}
    BY <1>7
  <2> HIDE DEF AllPairs, L, R
  <2>3. {c \in AllPairs : L(c)} = {c \in AllPairs : R(c)}
    BY <2>1
  <2> QED BY <1>5, <2>2, <2>3 DEF L
<1>9. W!Choices(accept, shape, stored, TRUE) = Offers(accept, stored, notRejected, notRejected)
  <2> DEFINE L(c) == served(c) /\ under(c) /\ c[2] \notin rejected
             R(c) == /\ served(c) /\ under(c)
                     /\ IF accept[c[1]].range \in W!Wildcards
                        THEN c[2] \in notRejected ELSE c[2] \in notRejected
  <2>1. \A c \in AllPairs : L(c) <=> R(c)
    <3> SUFFICES ASSUME NEW c \in AllPairs PROVE L(c) <=> R(c)
      OBVIOUS
    <3>1. c[2] \in notRejected <=> c[2] \notin rejected
      BY <1>1
    <3> QED BY <3>1
  <2>2. Offers(accept, stored, notRejected, notRejected) = {c \in AllPairs : R(c)}
    BY <1>7
  <2> HIDE DEF AllPairs, L, R
  <2>3. {c \in AllPairs : L(c)} = {c \in AllPairs : R(c)}
    BY <2>1
  <2> QED BY <1>6, <2>2, <2>3 DEF L
<1> QED BY <1>8, <1>9 DEF usable, rejected

\* negotiate serves the best of what a header leaves.
LEMMA BestIsServed ==
  ASSUME NEW accept \in W!Accepts, NEW shape, NEW stored \in W!Formats \cup {W!NoFormat}
  PROVE  W!ServesTheBest(accept, shape, stored)
<1> SUFFICES ASSUME accept # <<>> PROVE W!ServesTheBest(accept, shape, stored)
  BY DEF W!ServesTheBest
<1> DEFINE usable == W!Usable(shape)
           notRejected == W!Formats \ W!Rejected(accept)
           answer == W!negotiate(accept, shape, stored)
           whole == W!Choices(accept, shape, stored, FALSE)
           partial == W!Choices(accept, shape, stored, TRUE)
           first == W!Pass(accept, stored, usable \cap notRejected, usable)
           second == W!Pass(accept, stored, notRejected, notRejected)
           BestOf(p, S) == \E c \in S : /\ p = [fmt |-> c[2], version |-> accept[c[1]].version]
                                        /\ \A o \in S : accept[c[1]].q >= accept[o[1]].q
<1>1. answer = IF first.fmt # W!NoFormat THEN first ELSE second
  BY DEF W!negotiate
<1>2. usable \in SUBSET W!Formats /\ notRejected \in SUBSET W!Formats
      /\ usable \cap notRejected \in SUBSET W!Formats
  BY DEF W!Usable
<1>3. whole = Offers(accept, stored, usable \cap notRejected, usable)
      /\ partial = Offers(accept, stored, notRejected, notRejected)
  BY ChoicesAreOffers
<1> HIDE DEF usable, notRejected
<1>4. (whole = {} => first.fmt = W!NoFormat)
      /\ (whole # {} => first.fmt # W!NoFormat /\ BestOf(first, whole))
  <2> DEFINE ok == usable \cap notRejected
             offers == Offers(accept, stored, ok, usable)
  <2>1. ok \in SUBSET W!Formats
    BY <1>2
  <2> HIDE DEF ok
  <2>2. (offers = {} => W!Pass(accept, stored, ok, usable).fmt = W!NoFormat)
        /\ (offers # {} => /\ W!Pass(accept, stored, ok, usable).fmt # W!NoFormat
                           /\ BestOf(W!Pass(accept, stored, ok, usable), offers))
    BY <1>2, <2>1, PassServes
  <2> QED BY <1>3, <2>2, Zenon DEF ok
<1>5. (partial = {} => second.fmt = W!NoFormat)
      /\ (partial # {} => second.fmt # W!NoFormat /\ BestOf(second, partial))
  <2> DEFINE offers == Offers(accept, stored, notRejected, notRejected)
  <2>1. (offers = {} => second.fmt = W!NoFormat)
        /\ (offers # {} => second.fmt # W!NoFormat /\ BestOf(second, offers))
    BY <1>2, PassServes
  <2> QED BY <1>3, <2>1, Zenon
<1> HIDE DEF answer, whole, partial, first, second
<1>6. LET choices == IF whole # {} THEN whole ELSE partial
      IN IF choices = {} THEN answer.fmt = W!NoFormat ELSE BestOf(answer, choices)
  <2> HIDE DEF BestOf
  <2>1. CASE whole # {}
    BY <1>1, <1>4, <2>1
  <2>2. CASE whole = {}
    BY <1>1, <1>4, <1>5, <2>2
  <2> QED BY <2>1, <2>2
<1> QED BY <1>6 DEF W!ServesTheBest, answer, whole, partial

\* accept_allows lets the most specific range decide, the best-liked of several.
LEMMA SpecificRangeDecides ==
  ASSUME NEW accept \in W!Accepts, NEW essence
  PROVE  W!MostSpecificDecides(accept, essence)
<1> SUFFICES ASSUME accept # <<>> PROVE W!MostSpecificDecides(accept, essence)
  BY DEF W!MostSpecificDecides
<1> DEFINE sp(i) == W!Specificity(accept[i].range, essence)
           D == DOMAIN accept
           S == {sp(i) : i \in D}
           top == CHOOSE s \in S : \A t \in S : t <= s
           best == {i \in D : sp(i) > 0 /\ \A j \in D : sp(j) <= sp(i)}
           first == W!FirstRanked(accept, best)
<1>1. D # {} /\ \A i \in D : accept[i].q \in Nat
  <2>1. Len(accept) \in Nat /\ D = 1..Len(accept) /\ \A i \in D : accept[i].q \in Nat
    BY EntryTypes
  <2>2. Len(accept) # 0
    <3>1. accept \in Seq([range : W!Ranges, q : Nat, version : 0..3])
      BY DEF W!Accepts
    <3> HIDE DEF D
    <3> QED BY <3>1
  <2>3. 1 \in D
    BY <2>1, <2>2
  <2> QED BY <2>1, <2>3
<1>2. \A i \in D : sp(i) \in {0, 1, 2, 3}
  BY DEF W!Specificity
<1>3. W!accept_allows(accept, essence) <=> best # {} /\ accept[first].q > 0
  BY DEF W!accept_allows
<1> HIDE DEF sp, first, D
<1>4. S # {} /\ S \subseteq {0, 1, 2, 3}
  BY <1>1, <1>2
<1>5. \E s \in S : \A t \in S : t <= s
  <2> HIDE DEF S
  <2>1. CASE 3 \in S
    BY <1>4, <2>1
  <2>2. CASE 3 \notin S /\ 2 \in S
    BY <1>4, <2>2
  <2>3. CASE 3 \notin S /\ 2 \notin S /\ 1 \in S
    BY <1>4, <2>3
  <2>4. CASE 3 \notin S /\ 2 \notin S /\ 1 \notin S
    <3>1. S = {0}
      BY <1>4, <2>4
    <3> QED BY <3>1
  <2> QED BY <2>1, <2>2, <2>3, <2>4
<1>6. top \in S /\ \A t \in S : t <= top
  BY <1>5
<1> HIDE DEF top
<1>7. top \in {0, 1, 2, 3}
  BY <1>4, <1>6
<1>8. \A i \in D : (\A j \in D : sp(j) <= sp(i)) <=> sp(i) = top
  <2> SUFFICES ASSUME NEW i \in D PROVE (\A j \in D : sp(j) <= sp(i)) <=> sp(i) = top
    OBVIOUS
  <2>1. PICK k \in D : sp(k) = top
    BY <1>6
  <2>2. \A j \in D : sp(j) <= top
    BY <1>6
  <2>3. sp(i) \in Nat /\ top \in Nat /\ sp(i) <= top
    BY <1>2, <1>7, <2>2
  <2>4. top <= sp(i) => sp(i) = top
    BY <2>3
  <2> QED BY <2>1, <2>2, <2>4
<1>9. best = {i \in D : top > 0 /\ sp(i) = top}
  BY <1>8
<1> HIDE DEF best
<1>10. W!accept_allows(accept, essence) <=>
         top > 0 /\ \E i \in D : sp(i) = top /\ accept[i].q > 0
  <2>1. CASE best = {}
    BY <1>3, <1>9, <2>1
  <2>2. CASE best # {}
    <3>1. best \in SUBSET (DOMAIN accept)
      BY <1>9 DEF D
    <3>2. first \in best /\ \A j \in best : W!ranked_accept(accept, first, j)
      BY <2>2, <3>1, FirstExists DEF first
    <3>3. \A j \in best : accept[first].q >= accept[j].q
      <4> SUFFICES ASSUME NEW j \in best PROVE accept[first].q >= accept[j].q
        OBVIOUS
      <4>1. accept[first].q \in Nat /\ accept[j].q \in Nat
        BY <1>1, <1>9, <3>2
      <4> QED BY <3>2, <4>1 DEF W!ranked_accept
    <3>4. ASSUME NEW i \in D, sp(i) = top, accept[i].q > 0, top > 0
          PROVE  accept[first].q > 0
      <4>1. i \in best
        BY <1>9, <3>4
      <4>2. accept[first].q \in Nat /\ accept[i].q \in Nat /\ accept[first].q >= accept[i].q
        BY <1>1, <1>9, <3>2, <3>3, <4>1
      <4> QED BY <3>4, <4>2
    <3> QED BY <1>3, <1>9, <2>2, <3>2, <3>4
  <2> QED BY <2>1, <2>2
<1> QED BY <1>10 DEF W!MostSpecificDecides, top, S, sp, D

\* What Allow, Accept-Put and Accept-Post say is what classify_body does.
LEMMA AdvertisedIsAccepted ==
  ASSUME NEW target \in W!TargetKinds, NEW method \in {"PUT", "POST"}, NEW version \in W!Versions
  PROVE  W!AdvertisesWhatItAccepts(target, method, version)
<1> SUFFICES ASSUME NEW type \in W!Formats \cup {"png"}, NEW declared \in 1..3
             PROVE  LET body == [type |-> type, declared |-> declared, found |-> 1,
                                 parses |-> TRUE, empty |-> FALSE]
                        types == W!accept_write(target, method, version)
                        onto == IF method = "POST" THEN "resource" ELSE target
                    IN method \in W!allowed_methods(target)
                         /\ W!classify_body(body, onto, version).repr # "refused"
                       <=> \/ \E t \in types : t[1] = type /\ declared <= t[2]
                           \/ type = "png" /\ <<"*/*", 1>> \in types
  BY DEF W!AdvertisesWhatItAccepts
<1> DEFINE body == [type |-> type, declared |-> declared, found |-> 1, parses |-> TRUE, empty |-> FALSE]
           types == W!accept_write(target, method, version)
           onto == IF method = "POST" THEN "resource" ELSE target
           taken == W!classify_body(body, onto, version)
           Refusing == method = "POST" /\ target \in {"resource", "aux"}
           Blobs == method = "POST" \/ target = "resource"
<1>1. /\ target \in {"root", "container", "resource", "aux"} /\ version \in {1, 2, 3}
      /\ W!Formats = {"turtle", "jsonld", "trig"}
  BY DEF W!TargetKinds, W!Versions, W!Rdf11, W!Rdf12Basic, W!Rdf12, W!Formats, W!Turtle,
         W!JsonLd, W!TriG
<1>2. method \in W!allowed_methods(target) <=> ~Refusing
  BY <1>1 DEF W!allowed_methods
<1>3. types = IF Refusing THEN {}
              ELSE {<<f, 1>> : f \in W!Formats} \cup {<<f, version>> : f \in W!Formats}
                   \cup (IF Blobs THEN {<<"*/*", 1>>} ELSE {})
  BY DEF W!accept_write
<1>4. CASE type \in W!Formats
  <2>1. type # "png" /\ type \notin {"absent", "malformed", "*/*"}
    BY <1>1, <1>4
  <2>2. taken.repr # "refused" <=> declared <= version
    <3>1. taken = IF declared = W!UnknownVersion \/ declared > version THEN W!Refuse(415)
                  ELSE IF ~TRUE \/ 1 > declared THEN W!Refuse(400)
                  ELSE [repr |-> "rdf", status |-> 0]
      <4>1. /\ body.type = type /\ body.declared = declared /\ body.found = 1
            /\ body.parses = TRUE /\ body.empty = FALSE
        OBVIOUS
      <4> HIDE DEF body
      <4>2. body.type # "absent" /\ body.type # "malformed" /\ body.type \in W!Formats
        BY <1>4, <2>1, <4>1
      <4>3. taken = IF body.declared = W!UnknownVersion \/ body.declared > version THEN W!Refuse(415)
                    ELSE IF ~body.parses \/ body.found > body.declared THEN W!Refuse(400)
                    ELSE [repr |-> "rdf", status |-> 0]
        BY <4>2 DEF W!classify_body
      <4> HIDE DEF taken
      <4> QED BY <4>1, <4>3
    <3>2. W!Refuse(415).repr = "refused" /\ W!Refuse(400).repr = "refused"
      BY DEF W!Refuse
    <3>3. declared # W!UnknownVersion /\ ~(1 > declared)
      BY DEF W!UnknownVersion
    <3> HIDE DEF taken
    <3> QED BY <1>1, <3>1, <3>2, <3>3
  <2>3. ~Refusing => ((\E t \in types : t[1] = type /\ declared <= t[2]) <=> declared <= version)
    <3> SUFFICES ASSUME ~Refusing
                 PROVE  (\E t \in types : t[1] = type /\ declared <= t[2]) <=> declared <= version
      OBVIOUS
    <3>1. <<type, version>> \in types
      BY <1>3, <1>4
    <3>2. \A t \in types : t[1] = type => t[2] \in {1, version}
      BY <1>3, <2>1
    <3> HIDE DEF types
    <3> QED BY <1>1, <3>1, <3>2
  <2>4. Refusing => types = {}
    BY <1>3
  <2> HIDE DEF types, taken, Refusing
  <2> QED BY <1>2, <2>1, <2>2, <2>3, <2>4 DEF types, taken
<1>5. CASE type = "png"
  <2>1. taken = IF onto = "aux" THEN W!Refuse(415)
                ELSE IF onto \in {"root", "container"} THEN W!Refuse(400)
                ELSE [repr |-> "blob", status |-> 0]
    BY <1>1, <1>5 DEF W!classify_body
  <2>2. W!Refuse(415).repr = "refused" /\ W!Refuse(400).repr = "refused"
    BY DEF W!Refuse
  <2>3. taken.repr # "refused" <=> onto \notin {"aux", "root", "container"}
    <3> HIDE DEF taken
    <3> QED BY <2>1, <2>2
  <2>4. onto \notin {"aux", "root", "container"} <=> Blobs
    BY <1>1
  <2>5. <<"*/*", 1>> \in types <=> ~Refusing /\ Blobs
    <3>1. "*/*" \notin W!Formats
      BY <1>1
    <3> QED BY <1>3, <3>1
  <2>6. ~\E t \in types : t[1] = type
    <3>1. \A t \in types : t[1] \in W!Formats \cup {"*/*"}
      BY <1>3
    <3> HIDE DEF types
    <3> QED BY <1>1, <1>5, <3>1
  <2> HIDE DEF types, taken, Refusing, Blobs
  <2> QED BY <1>2, <1>5, <2>3, <2>4, <2>5, <2>6 DEF types, taken
<1> QED BY <1>4, <1>5

\* The server answers an Accept header as it ranks: the best of what it leaves,
\* a blob by the most specific range that covers it, and what is advertised is
\* what is taken.  For every header, every shape and every target.
THEOREM AnswersAreRanked == Spec => []NegotiatesAsAsked
<1>1. Asked => NegotiatesAsAsked
  <2> SUFFICES ASSUME Asked PROVE NegotiatesAsAsked
    OBVIOUS
  <2>1. ServesTheBest
    <3> SUFFICES ASSUME asked.what = "accept"
                 PROVE  W!ServesTheBest(asked.x.accept, asked.x.shape, asked.x.stored)
      BY DEF ServesTheBest
    <3>1. asked.x \in [accept : W!Accepts, shape : {"Graph", "Dataset"},
                       stored : W!Formats \cup {W!NoFormat}]
      BY InputsAssumption DEF Asked
    <3>2. asked.x.accept \in W!Accepts /\ asked.x.stored \in W!Formats \cup {W!NoFormat}
      BY <3>1
    <3> QED BY <3>2, BestIsServed
  <2>2. MostSpecificDecides
    BY InputsAssumption, SpecificRangeDecides DEF MostSpecificDecides, Asked
  <2>3. AdvertisesWhatItAccepts
    <3> SUFFICES ASSUME asked.what = "advertise"
                 PROVE  W!AdvertisesWhatItAccepts(asked.x.target, asked.x.method, asked.x.version)
      BY DEF AdvertisesWhatItAccepts
    <3>1. asked.x \in [target : W!TargetKinds, method : {"PUT", "POST"}, version : W!Versions]
      BY InputsAssumption DEF Asked
    <3>2. asked.x.target \in W!TargetKinds /\ asked.x.method \in {"PUT", "POST"}
          /\ asked.x.version \in W!Versions
      BY <3>1
    <3> QED BY <3>2, AdvertisedIsAccepted
  <2> QED BY <2>1, <2>2, <2>3 DEF NegotiatesAsAsked
<1> QED BY <1>1, AskedAlways, PTL

-----------------------------------------------------------------------------
(* Versions: dataset.rs *)

\* A dataset needs the highest version one of its quads needs, and there is one.
LEMMA VersionOf ==
  ASSUME NEW d
  PROVE  /\ W!rdf_version(d) \in {1, 2, 3}
         /\ \A q \in d : W!QuadVersion(q) <= W!rdf_version(d)
         /\ W!rdf_version(d) = 1 \/ \E q \in d : W!QuadVersion(q) = W!rdf_version(d)
<1> DEFINE Is(v) == /\ \A q \in d : W!QuadVersion(q) <= v
                    /\ v = 1 \/ \E q \in d : W!QuadVersion(q) = v
<1>1. \A q : W!QuadVersion(q) \in {1, 2, 3}
  BY DEF W!QuadVersion, W!Rdf11, W!Rdf12Basic, W!Rdf12
<1>2. W!rdf_version(d) = CHOOSE v \in {1, 2, 3} : Is(v)
  BY DEF W!rdf_version, W!Versions, W!Rdf11, W!Rdf12Basic, W!Rdf12
<1>3. \E v \in {1, 2, 3} : Is(v)
  <2>1. CASE \E q \in d : W!QuadVersion(q) = 3
    <3>1. \A q \in d : W!QuadVersion(q) <= 3
      BY <1>1
    <3> QED BY <2>1, <3>1
  <2>2. CASE ~(\E q \in d : W!QuadVersion(q) = 3) /\ \E q \in d : W!QuadVersion(q) = 2
    <3>1. \A q \in d : W!QuadVersion(q) <= 2
      BY <1>1, <2>2
    <3> QED BY <2>2, <3>1
  <2>3. CASE ~(\E q \in d : W!QuadVersion(q) = 3) /\ ~(\E q \in d : W!QuadVersion(q) = 2)
    <3>1. \A q \in d : W!QuadVersion(q) <= 1
      BY <1>1, <2>3
    <3> QED BY <3>1
  <2> QED BY <2>1, <2>2, <2>3
<1> HIDE DEF Is
<1>4. W!rdf_version(d) \in {1, 2, 3} /\ Is(W!rdf_version(d))
  BY <1>2, <1>3
<1> QED BY <1>4 DEF Is

\* So it fits a version iff all its quads do.
LEMMA FitsIff ==
  ASSUME NEW d, NEW v \in {1, 2, 3}
  PROVE  W!rdf_version(d) <= v <=> \A q \in d : W!QuadVersion(q) <= v
<1>1. \A q : W!QuadVersion(q) \in {1, 2, 3}
  BY DEF W!QuadVersion, W!Rdf11, W!Rdf12Basic, W!Rdf12
<1> DEFINE r == W!rdf_version(d)
<1>2. r \in {1, 2, 3} /\ (\A q \in d : W!QuadVersion(q) <= r)
      /\ (r = 1 \/ \E q \in d : W!QuadVersion(q) = r)
  BY VersionOf
<1> HIDE DEF r
<1>3. ASSUME r <= v, NEW q \in d PROVE W!QuadVersion(q) <= v
  <2>1. W!QuadVersion(q) <= r /\ W!QuadVersion(q) \in {1, 2, 3}
    BY <1>1, <1>2
  <2> QED BY <1>2, <1>3, <2>1
<1>4. ASSUME \A q \in d : W!QuadVersion(q) <= v PROVE r <= v
  <2>1. CASE r = 1
    BY <2>1
  <2>2. CASE r # 1
    BY <1>2, <1>4, <2>2
  <2> QED BY <2>1, <2>2
<1> QED BY <1>3, <1>4 DEF r

\* A quad as far as project_to takes it apart.
Shaped(q) ==
  /\ {"o", "g"} \subseteq DOMAIN q
  /\ {"spine", "leaf"} \subseteq DOMAIN q.o
  /\ "ns" \in DOMAIN q.o.leaf

\* The quads of a client have that shape, and so have those it is shown.
LEMMA QuadsAreShaped ==
  ASSUME NEW q \in W!Quads
  PROVE  Shaped(q) /\ Shaped(BlankQuad(q))
<1>1. /\ q = [s |-> q.s, p |-> q.p, g |-> q.g, o |-> q.o]
      /\ q.o = [spine |-> q.o.spine, leaf |-> q.o.leaf]
      /\ q.o.leaf \in W!Atoms
  BY DEF W!Quads
<1>2. \A a \in W!Atoms : "ns" \in DOMAIN a /\ "ns" \in DOMAIN Blanked(a)
  BY DEF W!Atoms, Blanked, W!Blank, W!Atom
<1>3. Shaped(q)
  <2>1. DOMAIN q = {"s", "p", "g", "o"} /\ DOMAIN q.o = {"spine", "leaf"}
    BY <1>1
  <2> QED BY <1>1, <1>2, <2>1 DEF Shaped
<1>4. Shaped(BlankQuad(q))
  <2>1. /\ DOMAIN BlankQuad(q) = {"s", "p", "g", "o"}
        /\ DOMAIN BlankQuad(q).o = {"spine", "leaf"}
        /\ BlankQuad(q).o.leaf = Blanked(q.o.leaf)
    BY DEF BlankQuad
  <2> QED BY <1>1, <1>2, <2>1 DEF Shaped
<1> QED BY <1>3, <1>4

\* A quad with its literal's direction taken off.
Plain(q) == [q EXCEPT !.o.leaf.ns = "literal"]

\* It is the quad but for that.
LEMMA PlainIsPlain ==
  ASSUME NEW q, Shaped(q)
  PROVE  /\ Plain(q).o.spine = q.o.spine
         /\ Plain(q).o.leaf.ns = "literal"
         /\ Plain(q).g = q.g
<1> DEFINE l == [q.o.leaf EXCEPT !.ns = "literal"]
           o == [q.o EXCEPT !.leaf = l]
<1>1. l.ns = "literal"
  BY DEF Shaped
<1>2. Plain(q) = [q EXCEPT !.o = o]
  BY DEF Plain
<1> HIDE DEF l
<1>3. o.spine = q.o.spine /\ o.leaf = l
  BY DEF Shaped
<1> HIDE DEF o
<1>4. Plain(q).o = o /\ Plain(q).g = q.g
  BY <1>2 DEF Shaped
<1> QED BY <1>1, <1>3, <1>4

\* What project_to makes of a quad it keeps when something has to go.
Kept(q, target) == IF target < 2 /\ q.o.leaf.ns = "directional" THEN Plain(q) ELSE q

\* project_to drops the triple terms and makes that of all else, if anything.
LEMMA ProjectedQuads ==
  ASSUME NEW d, NEW target \in {1, 2, 3}
  PROVE  /\ W!rdf_version(d) <= target => W!project_to(d, target) = d
         /\ ~(W!rdf_version(d) <= target) =>
              /\ target < 3
              /\ W!project_to(d, target) = {Kept(q, target) : q \in {r \in d : r.o.spine = <<>>}}
<1> DEFINE D == {r \in d : target >= W!Rdf12 \/ r.o.spine = <<>>}
<1>1. CASE W!rdf_version(d) <= target
  BY <1>1 DEF W!project_to
<1>2. CASE ~(W!rdf_version(d) <= target)
  <2>1. target < 3
    BY <1>2, VersionOf
  <2>2. D = {r \in d : r.o.spine = <<>>}
    BY <2>1 DEF W!Rdf12
  <2>3. W!project_to(d, target)
          = {IF target < W!Rdf12Basic /\ q.o.leaf.ns = "directional"
             THEN [q EXCEPT !.o.leaf.ns = "literal"] ELSE q : q \in D}
    BY <1>2 DEF W!project_to
  <2>4. W!project_to(d, target) = {Kept(q, target) : q \in D}
    BY <2>3, Zenon DEF Kept, Plain, W!Rdf12Basic
  <2> QED BY <1>2, <2>1, <2>2, <2>4
<1> QED BY <1>1, <1>2

\* A quad that is kept fits, is the original or that without its direction, and
\* is the original if that fits.
LEMMA KeptFits ==
  ASSUME NEW q, Shaped(q), NEW target \in {1, 2}, q.o.spine = <<>>
  PROVE  /\ W!QuadVersion(Kept(q, target)) <= target
         /\ W!QuadVersion(q) <= target => Kept(q, target) = q
         /\ Kept(q, target).g = q.g
         /\ Kept(q, target) = IF target < 2 /\ q.o.leaf.ns = "directional" THEN Plain(q) ELSE q
<1>1. CASE target = 1 /\ q.o.leaf.ns = "directional"
  <2>1. Kept(q, target) = Plain(q)
    BY <1>1 DEF Kept
  <2>2. Plain(q).o.spine = <<>> /\ Plain(q).o.leaf.ns = "literal" /\ Plain(q).g = q.g
    BY PlainIsPlain
  <2>3. W!QuadVersion(Plain(q)) = 1
    BY <2>2 DEF W!QuadVersion, W!Rdf11
  <2>4. W!QuadVersion(q) = 2
    BY <1>1 DEF W!QuadVersion, W!Rdf12Basic
  <2> QED BY <1>1, <2>1, <2>2, <2>3, <2>4 DEF Kept
<1>2. CASE ~(target = 1 /\ q.o.leaf.ns = "directional")
  <2>1. Kept(q, target) = q
    BY <1>2 DEF Kept
  <2>2. W!QuadVersion(q) <= target
    BY <1>2 DEF W!QuadVersion, W!Rdf11, W!Rdf12Basic
  <2> QED BY <2>1, <2>2 DEF Kept
<1> QED BY <1>1, <1>2

\* A projection fits the version it is made for; it is all there is exactly if
\* that fits; and it stays in the graphs it is made from.
LEMMA ProjectionFits ==
  ASSUME NEW d, \A q \in d : Shaped(q), NEW target \in {1, 2, 3}
  PROVE  LET e == W!project_to(d, target)
         IN /\ \A q \in e : W!QuadVersion(q) <= target
            /\ e = d <=> W!rdf_version(d) <= target
            /\ \A q \in e : \E r \in d : q.g = r.g
<1> DEFINE e == W!project_to(d, target)
<1>1. CASE W!rdf_version(d) <= target
  <2>1. e = d
    BY <1>1, ProjectedQuads
  <2>2. \A q \in d : W!QuadVersion(q) <= target
    BY <1>1, FitsIff
  <2> QED BY <1>1, <2>1, <2>2
<1>2. CASE ~(W!rdf_version(d) <= target)
  <2>1. target \in {1, 2} /\ e = {Kept(q, target) : q \in {r \in d : r.o.spine = <<>>}}
    BY <1>2, ProjectedQuads
  <2> HIDE DEF e
  <2>2. ASSUME NEW q \in e PROVE W!QuadVersion(q) <= target /\ \E r \in d : q.g = r.g
    <3>1. PICK r \in d : r.o.spine = <<>> /\ q = Kept(r, target)
      BY <2>1
    <3>2. Shaped(r)
      OBVIOUS
    <3> QED BY <2>1, <3>1, <3>2, KeptFits
  <2>3. e # d
    <3>1. PICK q \in d : ~(W!QuadVersion(q) <= target)
      BY <1>2, FitsIff
    <3> QED BY <2>2, <3>1
  <2> QED BY <1>2, <2>2, <2>3 DEF e
<1> QED BY <1>1, <1>2

\* A projection is faithful.
LEMMA ProjectionIsFaithful ==
  ASSUME NEW d, d \subseteq W!Quads, NEW target \in {1, 2, 3}
  PROVE  W!ProjectsFaithfully(d, target)
<1> DEFINE e == W!project_to(d, target)
           Off(q) == IF q.o.leaf.ns = "directional" THEN Plain(q) ELSE q
<1>1. \A q \in d : Shaped(q)
  BY QuadsAreShaped
<1>2. W!rdf_version(e) <= target
  <2>1. \A q \in e : W!QuadVersion(q) <= target
    BY <1>1, ProjectionFits
  <2> HIDE DEF e
  <2> QED BY <2>1, FitsIff
<1>3. /\ \A q \in e : \E r \in d : q \in {r, Off(r)}
      /\ \A r \in d : W!QuadVersion(r) <= target => r \in e
      /\ \A r \in d : r.o.spine = <<>> => r \in e \/ Off(r) \in e
  <2>1. CASE W!rdf_version(d) <= target
    <3>1. e = d
      BY <2>1, ProjectedQuads
    <3> HIDE DEF e
    <3> QED BY <3>1
  <2>2. CASE ~(W!rdf_version(d) <= target)
    <3>1. target \in {1, 2} /\ e = {Kept(q, target) : q \in {r \in d : r.o.spine = <<>>}}
      BY <2>2, ProjectedQuads
    <3> HIDE DEF e
    <3>2. \A r \in d : r.o.spine = <<>> => Kept(r, target) \in e /\ Kept(r, target) \in {r, Off(r)}
      BY <3>1 DEF Kept
    <3>3. \A q \in e : \E r \in d : q \in {r, Off(r)}
      BY <3>1, <3>2
    <3>4. ASSUME NEW r \in d, W!QuadVersion(r) <= target PROVE r \in e
      <4>1. r.o.spine = <<>>
        BY <3>1, <3>4 DEF W!QuadVersion, W!Rdf12
      <4>2. Kept(r, target) = r
        BY <1>1, <3>1, <3>4, <4>1, KeptFits
      <4> QED BY <3>2, <4>1, <4>2
    <3> QED BY <3>2, <3>3, <3>4
  <2> QED BY <2>1, <2>2
<1> HIDE DEF e
<1> QED BY <1>2, <1>3, Zenon DEF W!ProjectsFaithfully, Plain, e

-----------------------------------------------------------------------------
(* Reads and the writes that follow them: http.rs *)

\* What negotiate answers with is a format in a version the server knows.
LEMMA AnswerTypes ==
  ASSUME NEW accept \in W!Accepts, NEW shape \in {"Graph", "Dataset"},
         NEW stored \in W!Formats \cup {W!NoFormat},
         W!negotiate(accept, shape, stored).fmt # W!NoFormat
  PROVE  /\ W!negotiate(accept, shape, stored).fmt \in W!Formats
         /\ W!negotiate(accept, shape, stored).version \in {1, 2, 3}
<1> DEFINE answer == W!negotiate(accept, shape, stored)
<1>1. CASE accept = <<>>
  <2>1. answer = [fmt |-> W!Candidate("any", stored, W!Usable(shape), {}), version |-> 1]
    BY <1>1 DEF W!negotiate
  <2>2. "any" \in W!Ranges /\ W!Usable(shape) \in SUBSET W!Formats /\ {} \in SUBSET W!Formats
    BY DEF W!Ranges, W!Wildcards, W!Usable
  <2>3. answer.fmt = W!Candidate("any", stored, W!Usable(shape), {}) /\ answer.version = 1
    BY <2>1
  <2>4. answer.fmt \in W!Formats
    <3> HIDE DEF answer
    <3> QED BY <2>2, <2>3, CandidateIsOpen DEF answer
  <2> QED BY <2>3, <2>4
<1>2. CASE accept # <<>>
  <2> DEFINE whole == W!Choices(accept, shape, stored, FALSE)
             partial == W!Choices(accept, shape, stored, TRUE)
             choices == IF whole # {} THEN whole ELSE partial
  <2>1. IF choices = {} THEN answer.fmt = W!NoFormat
        ELSE \E c \in choices : answer = [fmt |-> c[2], version |-> accept[c[1]].version]
    <3>1. W!ServesTheBest(accept, shape, stored)
      BY BestIsServed
    <3> QED BY <1>2, <3>1 DEF W!ServesTheBest
  <2>2. \A c \in choices : /\ c[2] \in W!Formats /\ c[1] \in DOMAIN accept
                           /\ accept[c[1]].version # W!UnknownVersion
    BY DEF W!Choices
  <2> HIDE DEF answer, choices
  <2>3. PICK c \in choices : answer = [fmt |-> c[2], version |-> accept[c[1]].version]
    BY <2>1 DEF answer
  <2>4. accept[c[1]].version \in 0..3 /\ accept[c[1]].version # 0
    BY <2>2, EntryTypes DEF W!UnknownVersion
  <2> QED BY <2>2, <2>3, <2>4 DEF answer
<1> QED BY <1>1, <1>2

\* A named graph is stored and shown as one.
LEMMA GraphsAreShown ==
  ASSUME NEW stored
  PROVE  W!has_named_graphs(W!deskolemize(stored)) = W!has_named_graphs(stored)
<1>1. W!deskolemize(stored) = {BlankQuad(q) : q \in stored}
  BY QuadByQuad
<1>2. \A q : BlankQuad(q).g = W!DefaultGraph <=> q.g = W!DefaultGraph
  BY PredicatesAreKept
<1> QED BY <1>1, <1>2 DEF W!has_named_graphs

\* What a read that is answered with a body carries.
LEMMA ReadCarries ==
  ASSUME NEW stored, NEW accept \in W!Accepts, NEW type \in W!Formats \cup {W!NoFormat}
  PROVE  LET r == W!get_impl(stored, accept, type, W!NoTag)
             visible == W!deskolemize(stored)
             held == W!rdf_version(visible)
             chosen == W!negotiate(accept, IF W!has_named_graphs(stored) THEN "Dataset" ELSE "Graph",
                                   type)
         IN r.status = 200 =>
              /\ chosen.fmt \in W!Formats /\ chosen.version \in {1, 2, 3}
              /\ r = W!Body(stored, visible, chosen.fmt, W!etag(stored, chosen.fmt, W!Least(chosen.version, held)),
                            held, W!Least(chosen.version, held))
<1> DEFINE visible == W!deskolemize(stored)
           held == W!rdf_version(visible)
           shape == IF W!has_named_graphs(stored) THEN "Dataset" ELSE "Graph"
           chosen == W!negotiate(accept, shape, type)
           tag == W!ServedTag(stored, chosen.fmt, chosen.version)
           r == W!get_impl(stored, accept, type, W!NoTag)
<1>1. r = W!Respond(stored, visible, held, chosen, W!NoTag)
  BY DEF W!get_impl
<1>2. tag = W!etag(stored, chosen.fmt, W!Least(chosen.version, held))
  BY DEF W!ServedTag
<1>3. shape \in {"Graph", "Dataset"}
  OBVIOUS
<1>4. chosen.fmt # W!NoFormat => chosen.fmt \in W!Formats /\ chosen.version \in {1, 2, 3}
  <2> HIDE DEF shape
  <2> QED BY <1>3, AnswerTypes
<1> HIDE DEF chosen, tag, held, visible, shape
<1>5. r = IF chosen.fmt = W!NoFormat THEN W!Bodiless(406, W!NoFormat, W!NoTag)
          ELSE IF W!NoTag = tag THEN W!Bodiless(304, chosen.fmt, W!NoTag)
          ELSE W!Body(stored, visible, chosen.fmt, tag, held, W!Least(chosen.version, held))
  BY <1>1 DEF W!Respond, tag
<1>6. W!Bodiless(406, W!NoFormat, W!NoTag).status # 200
      /\ W!Bodiless(304, chosen.fmt, W!NoTag).status # 200
  BY DEF W!Bodiless
<1> HIDE DEF r
<1>7. r.status = 200 => /\ chosen.fmt # W!NoFormat
                        /\ r = W!Body(stored, visible, chosen.fmt, tag, held, W!Least(chosen.version, held))
  BY <1>5, <1>6
<1>8. r.status = 200 =>
        /\ chosen.fmt \in W!Formats /\ chosen.version \in {1, 2, 3}
        /\ r = W!Body(stored, visible, chosen.fmt, W!etag(stored, chosen.fmt, W!Least(chosen.version, held)),
                      held, W!Least(chosen.version, held))
  BY <1>2, <1>4, <1>7
<1> QED BY <1>8, Zenon DEF r, chosen, held, visible, shape

\* What is left out of a body is exactly what its response says, and the label
\* is true.
LEMMA MissingIsSaid ==
  ASSUME NEW stored, stored \subseteq W!Quads, NEW accept \in W!Accepts,
         NEW type \in W!Formats \cup {W!NoFormat}
  PROVE  W!SaysWhatIsMissing(stored, accept, type)
<1> DEFINE r == W!get_impl(stored, accept, type, W!NoTag)
           visible == W!deskolemize(stored)
           held == W!rdf_version(visible)
<1> SUFFICES ASSUME r.status = 200
             PROVE  /\ r.body # visible <=> r.partial \/ r.alternate
                    /\ W!rdf_version(r.body) <= IF r.version = 0 THEN W!Rdf11 ELSE r.version
  BY DEF W!SaysWhatIsMissing
<1>1. PICK f \in W!Formats, v \in {1, 2, 3} :
        r = W!Body(stored, visible, f, W!etag(stored, f, W!Least(v, held)), held, W!Least(v, held))
  <2> DEFINE shape == IF W!has_named_graphs(stored) THEN "Dataset" ELSE "Graph"
             chosen == W!negotiate(accept, shape, type)
  <2>1. /\ chosen.fmt \in W!Formats /\ chosen.version \in {1, 2, 3}
        /\ r = W!Body(stored, visible, chosen.fmt,
                      W!etag(stored, chosen.fmt, W!Least(chosen.version, held)),
                      held, W!Least(chosen.version, held))
    BY ReadCarries, Zenon
  <2> HIDE DEF chosen, r, visible, held
  <2> QED BY <2>1, Zenon
<1> DEFINE served == W!Least(v, held)
           base == IF W!carries_dataset(f) THEN visible ELSE W!default_graph_only(visible)
           partial == ~W!carries_dataset(f) /\ W!has_named_graphs(visible)
<1>2. held \in {1, 2, 3}
  BY VersionOf
<1>3. served \in {1, 2, 3} /\ served <= held
  <2> HIDE DEF held
  <2> QED BY <1>2 DEF W!Least
<1>4. /\ r.body = W!project_to(base, served)
      /\ r.alternate = (served < held)
      /\ r.partial = W!LeavesGraphsOut(f, stored)
      /\ r.version = IF held > 1 THEN served ELSE 0
  <2> HIDE DEF r, visible, held
  <2> QED BY <1>1 DEF W!Body, W!Rdf11
<1>5. r.partial <=> partial
  BY <1>4, GraphsAreShown DEF W!LeavesGraphsOut
<1>6. \A q \in visible : Shaped(q)
  <2>1. visible = {BlankQuad(q) : q \in stored}
    BY QuadByQuad
  <2> HIDE DEF visible
  <2> QED BY <2>1, QuadsAreShaped
<1> HIDE DEF r, visible, held, served
<1>7. base \subseteq visible
  BY DEF W!default_graph_only
<1>8. \A q \in base : Shaped(q)
  BY <1>6, <1>7
<1>9. /\ \A q \in r.body : W!QuadVersion(q) <= served
      /\ r.body = base <=> W!rdf_version(base) <= served
      /\ \A q \in r.body : \E b \in base : q.g = b.g
  <2> HIDE DEF base
  <2> QED BY <1>3, <1>4, <1>8, ProjectionFits
<1>10. W!rdf_version(r.body) <= served
  BY <1>3, <1>9, FitsIff
<1>11. W!rdf_version(r.body) <= IF r.version = 0 THEN W!Rdf11 ELSE r.version
  <2>1. held <= 1 => served = 1
    BY <1>2, <1>3
  <2> QED BY <1>2, <1>3, <1>4, <1>10, <2>1 DEF W!Rdf11
<1>12. CASE partial
  <2>1. PICK q \in visible : q.g # W!DefaultGraph
    BY <1>12 DEF W!has_named_graphs
  <2>2. \A b \in base : b.g = W!DefaultGraph
    BY <1>12 DEF W!default_graph_only
  <2>3. q \notin r.body
    BY <1>9, <2>1, <2>2
  <2> QED BY <1>5, <1>11, <1>12, <2>1, <2>3
<1>13. CASE ~partial
  <2>1. base = visible
    BY <1>13 DEF W!default_graph_only, W!has_named_graphs
  <2>2. r.alternate <=> ~(held <= served)
    <3>1. served < held <=> ~(held <= served)
      BY <1>2, <1>3
    <3> QED BY <1>4, <3>1, Zenon
  <2>3. r.body = visible <=> held <= served
    BY <1>9, <2>1 DEF held
  <2> QED BY <1>5, <1>11, <1>13, <2>2, <2>3
<1> QED BY <1>12, <1>13

\* Reads answered with one tag are one representation, and a client that has it
\* is told so.
LEMMA TagsAreDistinct ==
  ASSUME NEW stored, NEW a \in W!Accepts, NEW b \in W!Accepts,
         NEW type \in W!Formats \cup {W!NoFormat}
  PROVE  W!OneTagOneBody(stored, a, b, type)
<1> DEFINE r == W!get_impl(stored, a, type, W!NoTag)
           s == W!get_impl(stored, b, type, W!NoTag)
           visible == W!deskolemize(stored)
           held == W!rdf_version(visible)
           shape == IF W!has_named_graphs(stored) THEN "Dataset" ELSE "Graph"
           chosen == W!negotiate(b, shape, type)
           again == W!get_impl(stored, b, type, r.tag)
           Bodied(x, f, v) == x = W!Body(stored, visible, f, W!etag(stored, f, v), held, v)
<1> SUFFICES ASSUME r.status = 200, s.status = 200, r.tag = s.tag
             PROVE  r = s /\ again.status = 304
  BY DEF W!OneTagOneBody
<1>1. PICK f, v : Bodied(r, f, v)
  <2> DEFINE first == W!negotiate(a, shape, type)
  <2>1. Bodied(r, first.fmt, W!Least(first.version, held))
    BY ReadCarries, Zenon
  <2> HIDE DEF Bodied, first, r, held
  <2> QED BY <2>1, Zenon
<1>2. Bodied(s, chosen.fmt, W!Least(chosen.version, held)) /\ chosen.fmt # W!NoFormat
  <2>1. W!NoFormat \notin W!Formats
    BY DEF W!Formats, W!NoFormat, W!Turtle, W!JsonLd, W!TriG
  <2> QED BY <2>1, ReadCarries
<1> DEFINE g == chosen.fmt
           w == W!Least(chosen.version, held)
<1>3. again = IF g = W!NoFormat THEN W!Bodiless(406, W!NoFormat, W!NoTag)
              ELSE IF r.tag = W!ServedTag(stored, g, chosen.version)
              THEN W!Bodiless(304, g, r.tag)
              ELSE W!Body(stored, visible, g, W!ServedTag(stored, g, chosen.version), held, w)
  BY DEF W!get_impl, W!Respond
<1>4. W!ServedTag(stored, g, chosen.version) = W!etag(stored, g, w)
  BY DEF W!ServedTag
<1> HIDE DEF r, s, visible, held, chosen, again
<1>5. r.tag = W!etag(stored, f, v) /\ s.tag = W!etag(stored, g, w)
  <2>1. \A x, t, y : W!Body(stored, visible, x, t, held, y).tag = t
    BY DEF W!Body
  <2>2. r.tag = W!etag(stored, f, v)
    BY <1>1, <2>1
  <2>3. s.tag = W!etag(stored, g, w)
    BY <1>2, <2>1
  <2> QED BY <2>2, <2>3
<1>6. f = g /\ v = w
  <2> HIDE DEF g, w
  <2>1. W!etag(stored, f, v) = W!etag(stored, g, w)
    BY <1>5
  <2> QED BY <2>1 DEF W!etag
<1>7. r = s
  <2> HIDE DEF g, w
  <2> QED BY <1>1, <1>2, <1>6 DEF g, w
<1>8. again = W!Bodiless(304, g, r.tag)
  <2> HIDE DEF w
  <2> QED BY <1>2, <1>3, <1>4, <1>5
<1>9. again.status = 304
  BY <1>8 DEF W!Bodiless
<1> QED BY <1>7, <1>9

\* A PUT that is let over a resource is in a format and version that show all
\* of it.
LEMMA ShownIsReplaced ==
  ASSUME NEW d, NEW fmt \in W!Formats, NEW declared \in {1, 2, 3}, NEW stored
  PROVE  W!ReplacesOnlyWhatItShows(d, fmt, declared, stored)
<1> DEFINE there == [there |-> TRUE, quads |-> stored]
           accept == <<W!Entry(fmt, 10, declared)>>
           shape == IF W!has_named_graphs(stored) THEN "Dataset" ELSE "Graph"
           visible == W!deskolemize(stored)
           held == W!rdf_version(visible)
           seen == W!get_impl(stored, accept, W!NoFormat, W!NoTag)
           answer == W!negotiate(accept, shape, W!NoFormat)
           whole == W!Choices(accept, shape, W!NoFormat, FALSE)
<1> SUFFICES ASSUME W!put_refusal("resource", d, fmt, declared, there) = 0
             PROVE  seen.status = 200 /\ ~seen.partial /\ ~seen.alternate
  BY DEF W!ReplacesOnlyWhatItShows
<1>1. /\ ~(declared < held)
      /\ W!carries_dataset(fmt) \/ ~W!has_named_graphs(stored)
  BY DEF W!put_refusal
<1>2. fmt \in {"turtle", "jsonld", "trig"} /\ W!NoFormat = "none"
  BY DEF W!Formats, W!Turtle, W!JsonLd, W!TriG, W!NoFormat
<1>3. accept \in W!Accepts /\ DOMAIN accept = {1} /\ accept # <<>>
      /\ accept[1].range = fmt /\ accept[1].q = 10 /\ accept[1].version = declared
  <2> DEFINE E == [range : W!Ranges, q : Nat, version : 0..3]
             e == W!Entry(fmt, 10, declared)
  <2>1. e \in E /\ e.range = fmt /\ e.q = 10 /\ e.version = declared
    BY DEF W!Entry, W!Ranges
  <2> HIDE DEF E, e
  <2>2. <<e>> \in Seq(E) /\ DOMAIN <<e>> = {1} /\ <<e>> # <<>> /\ <<e>>[1] = e
    BY <2>1
  <2> QED BY <2>1, <2>2 DEF E, e, W!Accepts
<1> HIDE DEF accept
<1>4. <<1, fmt>> \in whole
  BY <1>1, <1>3 DEF W!Choices, W!Under, W!UnknownVersion
<1>5. \A c \in whole : c[1] = 1 /\ c[2] = fmt
  BY <1>2, <1>3 DEF W!Choices, W!Under
<1>6. answer = [fmt |-> fmt, version |-> declared]
  <2>1. W!ServesTheBest(accept, shape, W!NoFormat)
    BY <1>3, BestIsServed
  <2>2. \E c \in whole : answer = [fmt |-> c[2], version |-> accept[c[1]].version]
    BY <1>3, <1>4, <2>1 DEF W!ServesTheBest
  <2> HIDE DEF whole, answer
  <2> QED BY <1>3, <1>5, <2>2
<1> HIDE DEF whole
<1>7. held \in {1, 2, 3}
  BY VersionOf
<1> DEFINE tag == W!ServedTag(stored, fmt, declared)
<1>8. W!NoTag # tag
  <2>1. W!NoTag.fmt = "none" /\ tag.fmt = fmt
    BY <1>2 DEF W!NoTag, W!ServedTag, W!etag
  <2> HIDE DEF tag
  <2> QED BY <1>2, <2>1
<1>9. seen = W!Body(stored, visible, fmt, tag, held, W!Least(declared, held))
  <2>1. seen = W!Respond(stored, visible, held, answer, W!NoTag)
    BY DEF W!get_impl
  <2>2. answer.fmt = fmt /\ answer.version = declared
    BY <1>6
  <2> HIDE DEF answer, seen, visible, held
  <2>3. seen = IF fmt = W!NoFormat THEN W!Bodiless(406, W!NoFormat, W!NoTag)
               ELSE IF W!NoTag = tag THEN W!Bodiless(304, fmt, W!NoTag)
               ELSE W!Body(stored, visible, fmt, tag, held, W!Least(declared, held))
    BY <2>1, <2>2 DEF W!Respond
  <2> HIDE DEF tag
  <2> QED BY <1>2, <1>8, <2>3
<1> HIDE DEF seen, visible, held, tag
<1>10. seen.status = 200 /\ seen.partial = W!LeavesGraphsOut(fmt, stored)
       /\ seen.alternate = (W!Least(declared, held) < held)
  BY <1>9 DEF W!Body
<1>11. ~W!LeavesGraphsOut(fmt, stored)
  BY <1>1 DEF W!LeavesGraphsOut
<1>12. ~(W!Least(declared, held) < held)
  BY <1>1, <1>7 DEF W!Least
<1> QED BY <1>10, <1>11, <1>12

-----------------------------------------------------------------------------
(* Blank nodes: dataset.rs *)

\* The atoms of what skolemize makes of a quad are what it makes of the atoms,
\* and of what deskolemize makes of that likewise: none is passed over, at any
\* depth.
LEMMA AtomByAtom ==
  ASSUME NEW q \in W!Quads, NEW minted
  PROVE  /\ W!QuadAtoms(GroundQuad(q, minted)) = {Grounded(a, minted) : a \in W!QuadAtoms(q)}
         /\ W!QuadAtoms(BlankQuad(GroundQuad(q, minted)))
              = {Blanked(Grounded(a, minted)) : a \in W!QuadAtoms(q)}
<1> DEFINE G == GroundQuad(q, minted)
           B == BlankQuad(G)
           n == q.o.spine
           gr(a) == Grounded(a, minted)
<1>1. \A i \in DOMAIN n : "s" \in DOMAIN n[i]
  <2> DEFINE E == [s : W!Atoms, p : W!Atoms]
  <2>1. n \in Seq(E)
    BY DEF W!Quads
  <2>2. \A e \in E : "s" \in DOMAIN e
    OBVIOUS
  <2> HIDE DEF E
  <2>3. \A i \in DOMAIN n : n[i] \in E
    BY <2>1
  <2> QED BY <2>2, <2>3
<1>2. /\ G.s = gr(q.s) /\ G.g = gr(q.g) /\ G.o.leaf = gr(q.o.leaf)
      /\ G.o.spine = [i \in DOMAIN n |-> [n[i] EXCEPT !.s = Grounded(@, minted)]]
  BY DEF GroundQuad
<1> HIDE DEF G, gr, n
<1>3. /\ B.s = Blanked(G.s) /\ B.g = Blanked(G.g) /\ B.o.leaf = Blanked(G.o.leaf)
      /\ B.o.spine = [i \in DOMAIN G.o.spine |-> [G.o.spine[i] EXCEPT !.s = Blanked(@)]]
  BY DEF BlankQuad
<1> HIDE DEF B
<1>4. DOMAIN G.o.spine = DOMAIN n /\ DOMAIN B.o.spine = DOMAIN n
  BY <1>2, <1>3
<1>5. \A i \in DOMAIN n : G.o.spine[i].s = gr(n[i].s) /\ "s" \in DOMAIN G.o.spine[i]
  BY <1>1, <1>2 DEF gr
<1>6. \A i \in DOMAIN n : B.o.spine[i].s = Blanked(gr(n[i].s))
  BY <1>3, <1>4, <1>5
<1>7. W!QuadAtoms(q) = {q.s, q.g, q.o.leaf} \cup {n[i].s : i \in DOMAIN n}
  BY DEF W!QuadAtoms, n
<1>8. W!QuadAtoms(G) = {gr(q.s), gr(q.g), gr(q.o.leaf)} \cup {gr(n[i].s) : i \in DOMAIN n}
  <2>1. {G.o.spine[i].s : i \in DOMAIN G.o.spine} = {gr(n[i].s) : i \in DOMAIN n}
    BY <1>4, <1>5
  <2> QED BY <1>2, <2>1 DEF W!QuadAtoms
<1>9. W!QuadAtoms(B) = {Blanked(gr(q.s)), Blanked(gr(q.g)), Blanked(gr(q.o.leaf))}
                       \cup {Blanked(gr(n[i].s)) : i \in DOMAIN n}
  <2>1. {B.o.spine[i].s : i \in DOMAIN B.o.spine} = {Blanked(gr(n[i].s)) : i \in DOMAIN n}
    BY <1>4, <1>6
  <2> QED BY <1>2, <1>3, <2>1 DEF W!QuadAtoms
<1>10. W!QuadAtoms(G) = {gr(a) : a \in W!QuadAtoms(q)}
  BY <1>7, <1>8
<1>11. W!QuadAtoms(B) = {Blanked(gr(a)) : a \in W!QuadAtoms(q)}
  BY <1>7, <1>9
<1> QED BY <1>10, <1>11 DEF G, B, gr

\* What a blank node of the client's is once it comes back.
Renamed(a, minted) == IF a.ns = "blank" THEN W!Blank(minted[a.n]) ELSE a

RenamedQuad(q, minted) ==
  [s |-> Renamed(q.s, minted), p |-> q.p, g |-> Renamed(q.g, minted),
   o |-> [spine |-> [i \in DOMAIN q.o.spine |->
                       [q.o.spine[i] EXCEPT !.s = Renamed(@, minted)]],
          leaf |-> Renamed(q.o.leaf, minted)]]

\* There and back an atom is renamed, unless it is an IRI of the server's own.
LEMMA ThereAndBack ==
  ASSUME NEW a, a.ns # "skolem", NEW minted
  PROVE  /\ Blanked(Grounded(a, minted)) = Renamed(a, minted)
         /\ Grounded(a, minted).ns # "blank"
<1>1. \A u : W!Skolem(u).ns = "skolem" /\ W!Skolem(u).n = u
  BY DEF W!Skolem, W!Atom
<1> QED BY <1>1 DEF Blanked, Grounded, Renamed

\* And so is a quad.
LEMMA QuadThereAndBack ==
  ASSUME NEW q \in W!Quads, NEW minted, \A a \in W!QuadAtoms(q) : a.ns # "skolem"
  PROVE  BlankQuad(GroundQuad(q, minted)) = RenamedQuad(q, minted)
<1> DEFINE G == GroundQuad(q, minted)
           n == q.o.spine
           gr(a) == Grounded(a, minted)
           re(a) == Renamed(a, minted)
<1>1. \A i \in DOMAIN n : n[i] = [s |-> n[i].s, p |-> n[i].p]
  <2> DEFINE E == [s : W!Atoms, p : W!Atoms]
  <2>1. n \in Seq(E)
    BY DEF W!Quads
  <2>2. \A e \in E : e = [s |-> e.s, p |-> e.p]
    OBVIOUS
  <2> HIDE DEF E
  <2>3. \A i \in DOMAIN n : n[i] \in E
    BY <2>1
  <2> QED BY <2>2, <2>3
<1>2. \A a \in W!QuadAtoms(q) : Blanked(gr(a)) = re(a)
  BY ThereAndBack
<1>3. /\ Blanked(gr(q.s)) = re(q.s) /\ Blanked(gr(q.g)) = re(q.g)
      /\ Blanked(gr(q.o.leaf)) = re(q.o.leaf)
      /\ \A i \in DOMAIN n : Blanked(gr(n[i].s)) = re(n[i].s)
  <2> HIDE DEF gr, re
  <2> QED BY <1>2 DEF W!QuadAtoms
<1>4. /\ G.s = gr(q.s) /\ G.p = q.p /\ G.g = gr(q.g) /\ G.o.leaf = gr(q.o.leaf)
      /\ G.o.spine = [i \in DOMAIN n |-> [n[i] EXCEPT !.s = Grounded(@, minted)]]
  BY DEF GroundQuad
<1> HIDE DEF G, gr, n, re
<1>5. DOMAIN G.o.spine = DOMAIN n
      /\ \A i \in DOMAIN n : G.o.spine[i] = [s |-> gr(n[i].s), p |-> n[i].p]
  BY <1>1, <1>4 DEF gr
<1>6. [i \in DOMAIN G.o.spine |-> [G.o.spine[i] EXCEPT !.s = Blanked(@)]]
        = [i \in DOMAIN n |-> [s |-> re(n[i].s), p |-> n[i].p]]
  <2>1. ASSUME NEW i \in DOMAIN n
        PROVE  [G.o.spine[i] EXCEPT !.s = Blanked(@)] = [s |-> re(n[i].s), p |-> n[i].p]
    <3> DEFINE e == [s |-> gr(n[i].s), p |-> n[i].p]
    <3>1. G.o.spine[i] = e
      BY <1>5
    <3>2. [e EXCEPT !.s = Blanked(@)] = [s |-> Blanked(gr(n[i].s)), p |-> n[i].p]
      OBVIOUS
    <3> QED BY <1>3, <3>1, <3>2
  <2> QED BY <1>5, <2>1
<1>7. [i \in DOMAIN n |-> [n[i] EXCEPT !.s = Renamed(@, minted)]]
        = [i \in DOMAIN n |-> [s |-> re(n[i].s), p |-> n[i].p]]
  BY <1>1 DEF re
<1>8. BlankQuad(G) = [s |-> re(q.s), p |-> q.p, g |-> re(q.g),
                      o |-> [spine |-> [i \in DOMAIN n |-> [s |-> re(n[i].s), p |-> n[i].p]],
                             leaf |-> re(q.o.leaf)]]
  BY <1>3, <1>4, <1>6 DEF BlankQuad
<1>9. RenamedQuad(q, minted) = [s |-> re(q.s), p |-> q.p, g |-> re(q.g),
                      o |-> [spine |-> [i \in DOMAIN n |-> [s |-> re(n[i].s), p |-> n[i].p]],
                             leaf |-> re(q.o.leaf)]]
  BY <1>7 DEF RenamedQuad, re, n
<1> QED BY <1>8, <1>9 DEF G

\* What a client writes is stored without blank nodes and comes back as it was,
\* but for their names.
LEMMA WrittenComesBack ==
  ASSUME NEW d, d \subseteq W!Quads, NEW minted, W!BlankLabels(d) \subseteq DOMAIN minted,
         W!Injective(minted)
  PROVE  W!ComesBack(d, minted)
<1> DEFINE stored == W!skolemize(d, minted)
           back == W!deskolemize(stored)
           gr(a) == Grounded(a, minted)
           re(a) == Renamed(a, minted)
           D == W!BlankLabels(d)
           E == W!BlankLabels(back)
<1> SUFFICES ASSUME ~W!uses_reserved_namespace(d), W!NoneInTripleTerms(d)
             PROVE  /\ W!from_store_ok(stored)
                    /\ W!Isomorphic(d, back)
                    /\ W!has_named_graphs(stored) = W!has_named_graphs(d)
  BY DEF W!ComesBack
<1>1. \A q \in d : \A a \in W!QuadAtoms(q) : a.ns # "skolem"
  <2> SUFFICES ASSUME NEW q \in d, NEW a \in W!QuadAtoms(q) PROVE a.ns # "skolem"
    OBVIOUS
  <2>1. q.s.ns # "skolem" /\ q.g.ns # "skolem" /\ (q.o.spine = <<>> => q.o.leaf.ns # "skolem")
    BY DEF W!uses_reserved_namespace, W!is_reserved_iri
  <2>2. q.o.spine # <<>> => /\ q.o.leaf.ns # "skolem"
                            /\ \A i \in DOMAIN q.o.spine : q.o.spine[i].s.ns # "skolem"
    BY DEF W!NoneInTripleTerms, W!is_reserved_iri
  <2>3. q.o.spine = <<>> => DOMAIN q.o.spine = {}
    OBVIOUS
  <2>4. \A i \in DOMAIN q.o.spine : q.o.spine[i].s.ns # "skolem"
    BY <2>2, <2>3
  <2>5. a \in {q.s, q.g, q.o.leaf} \/ \E i \in DOMAIN q.o.spine : a = q.o.spine[i].s
    BY DEF W!QuadAtoms
  <2> QED BY <2>1, <2>2, <2>4, <2>5
<1>2. stored = {GroundQuad(q, minted) : q \in d} /\ back = {BlankQuad(r) : r \in stored}
  BY QuadByQuad
<1> HIDE DEF stored, back
<1>3. back = {RenamedQuad(q, minted) : q \in d}
  <2>1. \A q \in d : BlankQuad(GroundQuad(q, minted)) = RenamedQuad(q, minted)
    BY <1>1, QuadThereAndBack
  <2> QED BY <1>2, <2>1
<1>4. \A a : a \in W!DatasetAtoms(d) <=> \E q \in d : a \in W!QuadAtoms(q)
  BY DEF W!DatasetAtoms
<1>5. W!from_store_ok(stored)
  <2> SUFFICES ASSUME NEW a \in W!DatasetAtoms(stored) PROVE a.ns # "blank"
    BY DEF W!from_store_ok
  <2>1. PICK r \in stored : a \in W!QuadAtoms(r)
    BY DEF W!DatasetAtoms
  <2>2. PICK q \in d : r = GroundQuad(q, minted)
    BY <1>2
  <2>3. PICK b \in W!QuadAtoms(q) : a = Grounded(b, minted)
    BY <2>1, <2>2, AtomByAtom
  <2> QED BY <1>1, <2>3, ThereAndBack
<1>6. W!DatasetAtoms(back) = {re(a) : a \in W!DatasetAtoms(d)}
  <2>1. \A q \in d : W!QuadAtoms(RenamedQuad(q, minted)) = {re(a) : a \in W!QuadAtoms(q)}
    <3> SUFFICES ASSUME NEW q \in d
                 PROVE  W!QuadAtoms(RenamedQuad(q, minted)) = {re(a) : a \in W!QuadAtoms(q)}
      OBVIOUS
    <3>1. RenamedQuad(q, minted) = BlankQuad(GroundQuad(q, minted))
      BY <1>1, QuadThereAndBack
    <3>2. \A a \in W!QuadAtoms(q) : Blanked(Grounded(a, minted)) = re(a)
      BY <1>1, ThereAndBack
    <3>3. W!QuadAtoms(BlankQuad(GroundQuad(q, minted)))
            = {Blanked(Grounded(a, minted)) : a \in W!QuadAtoms(q)}
      BY AtomByAtom
    <3> HIDE DEF re
    <3> QED BY <3>1, <3>2, <3>3
  <2> HIDE DEF re
  <2>2. \A a : a \in W!DatasetAtoms(back) <=> \E q \in d : a \in W!QuadAtoms(RenamedQuad(q, minted))
    BY <1>3 DEF W!DatasetAtoms
  <2> QED BY <1>4, <2>1, <2>2
<1>7. E = {minted[x] : x \in D}
  <2>1. \A a : re(a).ns = "blank" <=> a.ns = "blank"
    BY DEF Renamed, W!Blank, W!Atom
  <2>2. \A a : a.ns = "blank" => re(a).n = minted[a.n]
    BY DEF Renamed, W!Blank, W!Atom
  <2>3. \A y : y \in E <=> \E a \in W!DatasetAtoms(d) : re(a).ns = "blank" /\ y = re(a).n
    <3> HIDE DEF re
    <3> QED BY <1>6 DEF W!BlankLabels
  <2>4. \A x : x \in D <=> \E a \in W!DatasetAtoms(d) : a.ns = "blank" /\ x = a.n
    BY DEF W!BlankLabels
  <2> HIDE DEF re, D, E
  <2> QED BY <2>1, <2>2, <2>3, <2>4
<1> DEFINE f == [x \in D |-> minted[x]]
           rename(a) == IF a.ns = "blank" THEN W!Blank(f[a.n]) ELSE a
<1>8. f \in [D -> E] /\ W!Injective(f) /\ \A y \in E : \E x \in D : f[x] = y
  <2>1. \A x \in D : x \in DOMAIN minted
    OBVIOUS
  <2> HIDE DEF D, E
  <2>2. f \in [D -> E] /\ \A y \in E : \E x \in D : f[x] = y
    BY <1>7
  <2>3. W!Injective(f)
    BY <2>1 DEF W!Injective
  <2> QED BY <2>2, <2>3
<1>9. \A q \in d : \A a \in W!QuadAtoms(q) : rename(a) = re(a)
  <2> SUFFICES ASSUME NEW q \in d, NEW a \in W!QuadAtoms(q), a.ns = "blank"
               PROVE  f[a.n] = minted[a.n]
    BY DEF Renamed
  <2>1. a.n \in D
    BY <1>4 DEF W!BlankLabels
  <2> HIDE DEF D
  <2> QED BY <2>1
<1>10. \A q \in d : W!MapQuad(rename, q) = RenamedQuad(q, minted)
  <2> SUFFICES ASSUME NEW q \in d PROVE W!MapQuad(rename, q) = RenamedQuad(q, minted)
    OBVIOUS
  <2> DEFINE n == q.o.spine
  <2>1. /\ rename(q.s) = re(q.s) /\ rename(q.g) = re(q.g) /\ rename(q.o.leaf) = re(q.o.leaf)
        /\ \A i \in DOMAIN n : rename(n[i].s) = re(n[i].s)
    <3> HIDE DEF rename, re
    <3> QED BY <1>9 DEF W!QuadAtoms
  <2>2. W!MapQuad(rename, q) =
          [s |-> rename(q.s), p |-> q.p, g |-> rename(q.g),
           o |-> [spine |-> [i \in DOMAIN n |-> [n[i] EXCEPT !.s = rename(n[i].s)]],
                  leaf |-> rename(q.o.leaf)]]
    BY DEF W!MapQuad
  <2>3. RenamedQuad(q, minted) =
          [s |-> re(q.s), p |-> q.p, g |-> re(q.g),
           o |-> [spine |-> [i \in DOMAIN n |-> [n[i] EXCEPT !.s = re(n[i].s)]],
                  leaf |-> re(q.o.leaf)]]
    BY DEF RenamedQuad
  <2> HIDE DEF rename, re, n
  <2>4. [i \in DOMAIN n |-> [n[i] EXCEPT !.s = rename(n[i].s)]]
          = [i \in DOMAIN n |-> [n[i] EXCEPT !.s = re(n[i].s)]]
    BY <2>1
  <2> QED BY <2>1, <2>2, <2>3, <2>4
<1>11. W!MapDataset(rename, d) = back
  <2>1. W!MapDataset(rename, d) = {W!MapQuad(rename, q) : q \in d}
    BY DEF W!MapDataset
  <2> HIDE DEF rename
  <2> QED BY <1>3, <1>10, <2>1
<1>12. W!Isomorphic(d, back)
  BY <1>8, <1>11, Zenon DEF W!Isomorphic
<1>13. W!has_named_graphs(stored) = W!has_named_graphs(d)
  <2>1. \A q : GroundQuad(q, minted).g = W!DefaultGraph <=> q.g = W!DefaultGraph
    BY PredicatesAreKept
  <2> QED BY <1>2, <2>1 DEF W!has_named_graphs
<1> QED BY <1>5, <1>12, <1>13

\* Between a write, a read and the next write nothing is lost without a word:
\* for every dataset, every header and every store's content.
THEOREM LossesAreSaid == Spec => []NothingLostUnseen
<1>1. Asked => NothingLostUnseen
  <2> SUFFICES ASSUME Asked PROVE NothingLostUnseen
    OBVIOUS
  <2>0. W!Versions = {1, 2, 3}
    BY DEF W!Versions, W!Rdf11, W!Rdf12Basic, W!Rdf12
  <2>1. ComesBack
    BY InputsAssumption, WrittenComesBack DEF ComesBack, Asked
  <2>2. ProjectsFaithfully
    BY <2>0, InputsAssumption, ProjectionIsFaithful DEF ProjectsFaithfully, Asked
  <2>3. asked.what = "get" =>
          /\ asked.x.stored \subseteq W!Quads
          /\ asked.x.a \in W!Accepts /\ asked.x.b \in W!Accepts
          /\ asked.x.type \in W!Formats \cup {W!NoFormat}
    <3> SUFFICES ASSUME asked.what = "get"
                 PROVE  /\ asked.x.stored \in SUBSET W!Quads
                        /\ asked.x.a \in W!Accepts /\ asked.x.b \in W!Accepts
                        /\ asked.x.type \in W!Formats \cup {W!NoFormat}
      OBVIOUS
    <3>1. asked.x \in [stored : SUBSET W!Quads, a : W!Accepts, b : W!Accepts,
                       type : W!Formats \cup {W!NoFormat}]
      BY InputsAssumption DEF Asked
    <3> QED BY <3>1
  <2>4. SaysWhatIsMissing
    BY <2>3, MissingIsSaid DEF SaysWhatIsMissing
  <2>5. OneTagOneBody
    BY <2>3, TagsAreDistinct DEF OneTagOneBody
  <2>6. ReplacesOnlyWhatItShows
    BY <2>0, InputsAssumption, ShownIsReplaced DEF ReplacesOnlyWhatItShows, Asked
  <2> QED BY <2>1, <2>2, <2>4, <2>5, <2>6 DEF NothingLostUnseen
<1> QED BY <1>1, AskedAlways, PTL

-----------------------------------------------------------------------------
(* Names: space.rs, http.rs, auth/dpop.rs *)

\* The segments BlobKey::of keeps, one after the other.
IsKept(p, f) ==
  f = [i \in 0..Len(p) |->
         IF i = 0 THEN <<>>
         ELSE IF p[i] = P!Empty THEN f[i - 1] ELSE Append(f[i - 1], p[i])]

\* A path without empty segments is its own key.
LEMMA KeyIsPath ==
  ASSUME NEW T, NEW p \in Seq(T), \A i \in 1..Len(p) : p[i] # P!Empty
  PROVE  P!KeySegments(p) = p
<1> DEFINE n == Len(p)
           g == CHOOSE f : IsKept(p, f)
           h == [i \in 0..n |-> SubSeq(p, 1, i)]
<1>1. n \in Nat /\ \A i \in 1..n : p[i] \in T
  OBVIOUS
<1>2. P!KeySegments(p) = g[n]
  BY Zenon DEF P!KeySegments, IsKept
<1>3. \A i \in 1..n : SubSeq(p, 1, i) = Append(SubSeq(p, 1, i - 1), p[i])
  OBVIOUS
<1>4. SubSeq(p, 1, 0) = <<>> /\ SubSeq(p, 1, n) = p
  OBVIOUS
<1>5. IsKept(p, h)
  <2>1. \A i \in 0..n : h[i] = IF i = 0 THEN <<>>
           ELSE IF p[i] = P!Empty THEN h[i - 1] ELSE Append(h[i - 1], p[i])
    BY <1>1, <1>3, <1>4
  <2> QED BY <2>1 DEF IsKept
<1>6. IsKept(p, g)
  BY <1>5, Zenon
<1> HIDE DEF g
<1>7. g[0] = <<>> /\ \A i \in 1..n : g[i] = Append(g[i - 1], p[i])
  <2>1. \A i \in 0..n : g[i] = IF i = 0 THEN <<>>
           ELSE IF p[i] = P!Empty THEN g[i - 1] ELSE Append(g[i - 1], p[i])
    BY <1>6 DEF IsKept
  <2>2. 0 \in 0..n /\ \A i \in 1..n : i \in 0..n /\ i # 0 /\ p[i] # P!Empty
    BY <1>1
  <2> HIDE DEF n
  <2> QED BY <2>1, <2>2, Zenon
<1> HIDE DEF n
<1>8. \A i \in 0..n : g[i] = SubSeq(p, 1, i)
  <2> DEFINE Bad == {i \in 0..n : g[i] # SubSeq(p, 1, i)}
  <2> SUFFICES ASSUME Bad # {} PROVE FALSE
    OBVIOUS
  <2>1. Bad \subseteq Nat
    OBVIOUS
  <2>2. PICK k \in Bad : \A j \in Bad : k <= j
    <3> HIDE DEF Bad
    <3> QED BY <2>1, LeastExists
  <2>3. k \in 0..n /\ g[k] # SubSeq(p, 1, k)
    BY <2>2
  <2>4. g[0] = SubSeq(p, 1, 0)
    BY <1>4, <1>7
  <2>5. k \in 1..n /\ k - 1 \in 0..n /\ ~(k <= k - 1)
    <3>1. k # 0
      BY <2>3, <2>4, Zenon
    <3> QED BY <1>1, <2>3, <3>1
  <2>6. g[k - 1] = SubSeq(p, 1, k - 1)
    BY <2>2, <2>5
  <2>7. g[k] = Append(g[k - 1], p[k])
    BY <1>7, <2>5
  <2>8. SubSeq(p, 1, k) = Append(SubSeq(p, 1, k - 1), p[k])
    BY <1>3, <2>5
  <2> HIDE DEF Bad
  <2> QED BY <2>3, <2>6, <2>7, <2>8, Zenon
<1> HIDE DEF h
<1>9. n \in 0..n
  BY <1>1
<1>10. g[n] = SubSeq(p, 1, n)
  BY <1>8, <1>9, Zenon
<1> QED BY <1>2, <1>4, <1>10, Zenon

\* A path and its parts: what Front, Last and Tail make of one.
LEMMA PathParts ==
  ASSUME NEW p \in P!PathsOf(P!Segs)
  PROVE  /\ Len(p) \in Nat \ {0}
         /\ \A i \in 1..Len(p) : p[i] \in P!Segs
         /\ P!Last(p) = p[Len(p)]
         /\ P!Front(p) \in Seq(P!Segs) /\ Len(P!Front(p)) = Len(p) - 1
         /\ \A i \in 1..(Len(p) - 1) : P!Front(p)[i] = p[i]
         /\ Tail(p) \in Seq(P!Segs) /\ Len(Tail(p)) = Len(p) - 1
         /\ \A i \in 1..(Len(p) - 1) : Tail(p)[i] = p[i + 1]
<1> DEFINE S == P!Segs
<1>1. p \in Seq(S) /\ Len(p) > 0
  BY DEF P!PathsOf, P!IsPath
<1> HIDE DEF S
<1>2. Len(p) \in Nat \ {0} /\ \A i \in 1..Len(p) : p[i] \in S
  BY <1>1
<1>3. P!Front(p) = SubSeq(p, 1, Len(p) - 1) /\ P!Last(p) = p[Len(p)]
  BY DEF P!Front, P!Last
<1>4. SubSeq(p, 1, Len(p) - 1) \in Seq(S) /\ Len(SubSeq(p, 1, Len(p) - 1)) = Len(p) - 1
  BY <1>1
<1>5. \A i \in 1..(Len(p) - 1) : SubSeq(p, 1, Len(p) - 1)[i] = p[i]
  BY <1>1
<1>6. Tail(p) \in Seq(S) /\ Len(Tail(p)) = Len(p) - 1
  BY <1>1
<1>7. \A i \in 1..(Len(p) - 1) : Tail(p)[i] = p[i + 1]
  BY <1>1
<1> QED BY <1>2, <1>3, <1>4, <1>5, <1>6, <1>7, Zenon DEF S

\* What a stable path is, segment by segment.
LEMMA StablePath ==
  ASSUME NEW p \in P!PathsOf(P!Segs)
  PROVE  P!is_normalization_stable(p) <=>
           /\ \A i \in 1..Len(p) : p[i].text # "hash" /\ p[i] \notin P!Dots
           /\ \A i \in 1..(Len(p) - 1) : p[i] # P!Empty
<1>1. Len(p) \in Nat \ {0} /\ P!Last(p) = p[Len(p)]
  BY PathParts, Zenon
<1>2. Len(p) \in 1..Len(p) /\ 1..(Len(p) - 1) \subseteq 1..Len(p)
      /\ \A i \in 1..Len(p) : i = Len(p) \/ i \in 1..(Len(p) - 1)
  BY <1>1
<1> QED BY <1>1, <1>2, Zenon DEF P!is_normalization_stable

\* What resolve answers, each answer with its condition.
LEMMA Resolved ==
  ASSUME NEW p
  PROVE  LET t == P!resolve(p)
             rest == Tail(p)
             subject == P!split_suffix(rest)
         IN /\ P!IsTarget(t) => P!is_normalization_stable(p) /\ P!IsIri(p) /\ ~P!HasFirst(p, "wellknown")
            /\ t.kind = "aux" => /\ P!HasFirst(p, "aux") /\ P!SplitsSuffix(rest)
                                 /\ ~P!reserved_segment(subject)
                                 /\ P!is_normalization_stable(subject)
                                 /\ t.path = subject
            /\ t.kind \in {"resource", "container"} =>
                 /\ ~P!HasFirst(p, "aux") /\ t.path = p
                 /\ t.kind = "container" <=> P!Last(p) = P!Empty
BY DEF P!resolve, P!Refused, P!Named, P!IsTarget

\* When resolve names a resource or a container.
LEMMA Resolves ==
  ASSUME NEW p, P!is_normalization_stable(p), P!IsIri(p), ~P!reserved_segment(p)
  PROVE  P!resolve(p) = P!Named(IF P!Last(p) = P!Empty THEN "container" ELSE "resource", p)
BY DEF P!resolve, P!Refused, P!Named, P!reserved_segment

\* A path is its front and its last segment.
LEMMA FrontLast ==
  ASSUME NEW p \in P!PathsOf(P!Segs)
  PROVE  Append(P!Front(p), P!Last(p)) = p
<1> DEFINE S == P!Segs
           f == P!Front(p)
           l == P!Last(p)
<1>1. /\ Len(p) \in Nat \ {0} /\ l = p[Len(p)] /\ l \in S
      /\ f \in Seq(S) /\ Len(f) = Len(p) - 1 /\ \A i \in 1..(Len(p) - 1) : f[i] = p[i]
  BY PathParts
<1>2. p \in Seq(S)
  BY DEF P!PathsOf
<1> HIDE DEF S, f, l
<1>3. Append(f, l) \in Seq(S) /\ Len(Append(f, l)) = Len(p)
  BY <1>1
<1>4. \A i \in 1..Len(p) : Append(f, l)[i] = p[i]
  BY <1>1
<1>5. Append(f, l) = p
  BY <1>2, <1>3, <1>4, SeqEqual
<1> QED BY <1>5 DEF f, l

\* Putting a last segment on a front, and taking it off again.
LEMMA AppendParts ==
  ASSUME NEW f \in Seq(P!Segs), NEW x \in P!Segs
  PROVE  /\ Append(f, x) \in P!PathsOf(P!Segs)
         /\ Len(Append(f, x)) = Len(f) + 1
         /\ P!Front(Append(f, x)) = f
         /\ P!Last(Append(f, x)) = x
<1> DEFINE S == P!Segs
           p == Append(f, x)
<1> HIDE DEF S
<1>1. f \in Seq(S) /\ x \in S
  BY DEF S
<1>2. p \in Seq(S) /\ Len(p) = Len(f) + 1 /\ p[Len(p)] = x /\ Len(p) > 0
  BY <1>1
<1>3. SubSeq(p, 1, Len(f)) = f
  BY <1>1
<1>4. Len(p) - 1 = Len(f)
  BY <1>1, <1>2
<1> QED BY <1>2, <1>3, <1>4 DEF P!PathsOf, P!IsPath, P!Front, P!Last, S

\* The same, of a segment alone.
LEMMA SuffixOff ==
  ASSUME NEW l \in P!Segs, l.acl > 0
  PROVE  LET m == [l EXCEPT !.acl = @ - 1]
         IN m \in P!Segs /\ m.text = l.text /\ [m EXCEPT !.acl = @ + 1] = l
<1> DEFINE m == [l EXCEPT !.acl = @ - 1]
<1>1. l = [text |-> l.text, acl |-> l.acl] /\ l.acl \in Nat \ {0} /\ l.text \in P!Texts
  <2> HIDE DEF m
  <2> QED BY DEF P!Segs
<1>2. m = [text |-> l.text, acl |-> l.acl - 1]
  BY <1>1
<1> HIDE DEF m
<1>3. [m EXCEPT !.acl = @ + 1] = [text |-> l.text, acl |-> (l.acl - 1) + 1]
  BY <1>2
<1>4. (l.acl - 1) + 1 = l.acl
  BY <1>1
<1>5. m \in P!Segs
  BY <1>1, <1>2 DEF P!Segs
<1> QED BY <1>1, <1>2, <1>3, <1>4, <1>5 DEF m

\* One suffix off the last segment, and on again: AuxKind::split_suffix and
\* ResourceUrl::aux undo each other.
LEMMA SubjectParts ==
  ASSUME NEW rest \in Seq(P!Segs), P!SplitsSuffix(rest)
  PROVE  LET subject == P!split_suffix(rest)
         IN /\ rest \in P!PathsOf(P!Segs) /\ subject \in P!PathsOf(P!Segs)
            /\ Len(subject) = Len(rest)
            /\ \A i \in 1..Len(rest) : subject[i].text = rest[i].text
            /\ Append(P!Front(subject), [P!Last(subject) EXCEPT !.acl = @ + 1]) = rest
<1> DEFINE S == P!Segs
           f == P!Front(rest)
           l == P!Last(rest)
           m == [l EXCEPT !.acl = @ - 1]
           subject == P!split_suffix(rest)
<1>1. rest # <<>> /\ l.acl > 0
  BY DEF P!SplitsSuffix
<1>2. rest \in P!PathsOf(P!Segs)
  <2> HIDE DEF S
  <2>1. rest \in Seq(S)
    BY DEF S
  <2>2. Len(rest) > 0
    BY <1>1, <2>1
  <2> QED BY <2>2 DEF P!PathsOf, P!IsPath
<1>3. /\ Len(rest) \in Nat \ {0} /\ l = rest[Len(rest)] /\ l \in S
      /\ f \in Seq(S) /\ Len(f) = Len(rest) - 1 /\ \A i \in 1..(Len(rest) - 1) : f[i] = rest[i]
  BY <1>2, PathParts
<1>4. m \in S /\ m.text = l.text /\ [m EXCEPT !.acl = @ + 1] = l
  BY <1>1, <1>3, SuffixOff
<1>5. subject = Append(f, m)
  BY DEF P!split_suffix
<1>6. Append(f, l) = rest
  BY <1>2, FrontLast
<1> HIDE DEF f, l, m, subject
<1>7. /\ subject \in P!PathsOf(S) /\ Len(subject) = Len(f) + 1
      /\ P!Front(subject) = f /\ P!Last(subject) = m
  BY <1>3, <1>4, <1>5, AppendParts
<1> HIDE DEF S
<1>8. Len(subject) = Len(rest)
  BY <1>3, <1>7
<1>9. \A i \in 1..Len(rest) : subject[i].text = rest[i].text
  <2> SUFFICES ASSUME NEW i \in 1..Len(rest) PROVE subject[i].text = rest[i].text
    OBVIOUS
  <2>1. CASE i = Len(rest)
    <3>1. subject[i] = m
      BY <1>3, <1>4, <1>5, <2>1
    <3> QED BY <1>3, <1>4, <2>1, <3>1, Zenon
  <2>2. CASE i # Len(rest)
    <3>1. i \in 1..(Len(rest) - 1)
      BY <1>3, <2>2
    <3>2. subject[i] = f[i]
      BY <1>3, <1>4, <1>5, <3>1
    <3> QED BY <1>3, <3>1, <3>2, Zenon
  <2> QED BY <2>1, <2>2
<1>10. Append(P!Front(subject), [P!Last(subject) EXCEPT !.acl = @ + 1]) = rest
  BY <1>4, <1>6, <1>7, Zenon
<1> QED BY <1>2, <1>7, <1>8, <1>9, <1>10, Zenon DEF S, subject

\* A target keeps the name it was reached by.
LEMMA NameIsKept ==
  ASSUME NEW p \in P!PathsOf(P!Segs)
  PROVE  P!KeepsItsName(p)
<1> DEFINE S == P!Segs
           t == P!resolve(p)
           rest == Tail(p)
           subject == P!split_suffix(rest)
<1> SUFFICES ASSUME P!IsTarget(t)
             PROVE  /\ P!GraphPath(t) = p
                    /\ t.kind = "aux" => P!resolve(t.path).kind \in {"resource", "container"}
                    /\ ~P!reserved_segment(t.path)
                    /\ P!blob_key(t) = IF t.kind = "resource" THEN p ELSE P!NoKey
  BY Zenon DEF P!KeepsItsName
<1>1. /\ P!is_normalization_stable(p) /\ P!IsIri(p) /\ ~P!HasFirst(p, "wellknown")
      /\ t.kind = "aux" => /\ P!HasFirst(p, "aux") /\ P!SplitsSuffix(rest)
                           /\ ~P!reserved_segment(subject)
                           /\ P!is_normalization_stable(subject)
                           /\ t.path = subject
      /\ t.kind \in {"resource", "container"} =>
           /\ ~P!HasFirst(p, "aux") /\ t.path = p
           /\ t.kind = "container" <=> P!Last(p) = P!Empty
  BY Resolved, Zenon
<1>2. t.kind \in {"aux", "container", "resource"}
  BY DEF P!IsTarget
<1>3. /\ Len(p) \in Nat \ {0} /\ P!Last(p) = p[Len(p)]
      /\ rest \in Seq(S) /\ Len(rest) = Len(p) - 1 /\ \A i \in 1..(Len(p) - 1) : rest[i] = p[i + 1]
  BY PathParts
<1> HIDE DEF t, rest, subject, S
<1>4. CASE t.kind = "aux"
  <2>1. /\ rest \in P!PathsOf(S) /\ subject \in P!PathsOf(S)
        /\ Len(subject) = Len(rest)
        /\ \A i \in 1..Len(rest) : subject[i].text = rest[i].text
        /\ Append(P!Front(subject), [P!Last(subject) EXCEPT !.acl = @ + 1]) = rest
    BY <1>1, <1>3, <1>4, SubjectParts, Zenon DEF S, subject
  <2>2. <<P!Seg("aux")>> \o rest = p
    <3>1. p \in Seq(S) /\ p # <<>> /\ p[1] = P!Seg("aux")
      BY <1>1, <1>3, <1>4 DEF S, P!PathsOf, P!HasFirst
    <3>2. <<p[1]>> \o Tail(p) = p
      <4>1. <<p[1]>> \o Tail(p) \in Seq(S) /\ Len(<<p[1]>> \o Tail(p)) = Len(p)
        BY <3>1, <1>3 DEF rest
      <4>2. \A i \in 1..Len(p) : (<<p[1]>> \o Tail(p))[i] = p[i]
        BY <3>1
      <4> QED BY <3>1, <4>1, <4>2, SeqEqual
    <3> QED BY <3>1, <3>2, Zenon DEF rest
  <2>3. P!GraphPath(t) = p
    BY <1>1, <1>4, <2>1, <2>2, Zenon DEF P!GraphPath
  <2>4. P!IsIri(subject)
    <3>1. \A i \in 1..Len(subject) : i \in 1..Len(rest) /\ i \in 1..(Len(p) - 1) /\ i + 1 \in 1..Len(p)
      BY <1>3, <2>1
    <3>2. \A i \in 1..Len(p) : p[i].text # "broken"
      BY <1>1, Zenon DEF P!IsIri
    <3> SUFFICES ASSUME NEW i \in 1..Len(subject) PROVE subject[i].text # "broken"
      BY Zenon DEF P!IsIri
    <3>3. subject[i].text = p[i + 1].text
      BY <1>3, <2>1, <3>1, Zenon
    <3> QED BY <3>1, <3>2, <3>3, Zenon
  <2>5. P!resolve(subject) = P!Named(IF P!Last(subject) = P!Empty THEN "container" ELSE "resource", subject)
    BY <1>1, <1>4, <2>4, Resolves, Zenon
  <2>6. P!resolve(subject).kind \in {"resource", "container"}
    BY <2>5 DEF P!Named
  <2>7. P!blob_key(t) = P!NoKey
    BY <1>4 DEF P!blob_key
  <2> QED BY <1>1, <1>4, <2>3, <2>6, <2>7
<1>5. CASE t.kind \in {"resource", "container"}
  <2>1. P!GraphPath(t) = p
    BY <1>1, <1>5 DEF P!GraphPath
  <2>2. ~P!reserved_segment(t.path)
    BY <1>1, <1>5, Zenon DEF P!reserved_segment
  <2>3. t.kind = "container" => P!blob_key(t) = P!NoKey
    BY DEF P!blob_key
  <2>4. ASSUME t.kind = "resource" PROVE P!blob_key(t) = p
    <3>1. \A i \in 1..(Len(p) - 1) : p[i] # P!Empty
      BY <1>1, StablePath, Zenon
    <3>2. p[Len(p)] # P!Empty
      BY <1>1, <1>3, <2>4
    <3>3. \A i \in 1..Len(p) : p[i] # P!Empty
      <4>1. \A i \in 1..Len(p) : i = Len(p) \/ i \in 1..(Len(p) - 1)
        BY <1>3
      <4> QED BY <3>1, <3>2, <4>1, Zenon
    <3>4. p \in Seq(S)
      BY DEF S, P!PathsOf
    <3>5. P!KeySegments(p) = p
      BY <3>3, <3>4, KeyIsPath, Zenon
    <3> QED BY <1>1, <1>5, <2>4, <3>5 DEF P!blob_key
  <2> QED BY <1>5, <2>1, <2>2, <2>3, <2>4
<1> QED BY <1>2, <1>4, <1>5

\* What child_name leaves of a Slug is a name a path may end in.
LEMMA NameIsClean ==
  ASSUME NEW slug \in P!Slugs
  PROVE  LET name == P!child_name(slug)
         IN /\ name \in P!Segs /\ name # P!Empty /\ name \notin P!Dots
            /\ name.text \notin {"hash", "broken"}
<1> DEFINE c == P!Cleaned(slug)
<1>0. slug = [text |-> slug.text, acl |-> slug.acl] /\ slug.acl \in Nat
      /\ slug.text \in P!Texts \cup {"aslashb"}
  BY DEF P!Slugs
<1>1. CASE slug.text \in {"hash", "broken"}
  <2>1. c = [text |-> "a", acl |-> slug.acl]
    BY <1>0, <1>1 DEF P!Cleaned
  <2> QED BY <1>0, <2>1 DEF P!child_name, P!Fresh, P!Empty, P!Dots, P!Seg, P!Segs, P!Texts
<1>2. CASE slug.text = "aslashb"
  <2>1. c = [text |-> "b", acl |-> slug.acl]
    BY <1>0, <1>2 DEF P!Cleaned
  <2> QED BY <1>0, <2>1 DEF P!child_name, P!Fresh, P!Empty, P!Dots, P!Seg, P!Segs, P!Texts
<1>3. CASE slug.text \notin {"hash", "broken", "aslashb"}
  <2>1. c = slug
    BY <1>3 DEF P!Cleaned
  <2>2. slug \in P!Segs
    BY <1>0, <1>3 DEF P!Segs
  <2> QED BY <1>3, <2>1, <2>2 DEF P!child_name, P!Fresh, P!Empty, P!Dots, P!Seg, P!Segs, P!Texts
<1> QED BY <1>1, <1>2, <1>3

\* A clean name in a container names a member of it, or is reserved at the root.
LEMMA ChildResolves ==
  ASSUME NEW p \in P!PathsOf(P!Segs), P!resolve(p).kind = "container",
         NEW name \in P!Segs, name # P!Empty, name \notin P!Dots,
         name.text \notin {"hash", "broken"}, NEW wants \in BOOLEAN
  PROVE  LET child == P!resolve(P!ChildPath(p, name, wants))
         IN \/ /\ child.kind = (IF wants THEN "container" ELSE "resource")
               /\ SubSeq(child.path, 1, Len(p) - 1) = P!Front(p)
               /\ Len(child.path) = Len(p) + (IF wants THEN 1 ELSE 0)
            \/ /\ child.kind = "reserved" /\ Len(p) = 1
               /\ name \in {P!Seg("aux"), P!Seg("wellknown")}
<1> DEFINE S == P!Segs
           f == P!Front(p)
           b == Append(f, name)
           c == P!ChildPath(p, name, wants)
           n == Len(p)
<1>1. P!is_normalization_stable(p) /\ P!IsIri(p) /\ ~P!HasFirst(p, "wellknown") /\ ~P!HasFirst(p, "aux")
  <2>1. P!IsTarget(P!resolve(p))
    BY DEF P!IsTarget
  <2> QED BY <2>1, Resolved
<1>2. /\ n \in Nat \ {0} /\ f \in Seq(S) /\ Len(f) = n - 1
      /\ \A i \in 1..(n - 1) : f[i] = p[i]
  BY PathParts
<1>3. P!Empty \in S
  BY DEF P!Empty, P!Seg, P!Segs, P!Texts
<1>4. c = IF wants THEN Append(b, P!Empty) ELSE b
  <2>1. f \o <<name>> = b /\ b \o <<>> = b /\ b \o <<P!Empty>> = Append(b, P!Empty)
    <3> HIDE DEF f, S
    <3> QED BY <1>2, <1>3 DEF S
  <2> QED BY <2>1 DEF P!ChildPath
<1>5. /\ b \in P!PathsOf(S) /\ Len(b) = n /\ P!Last(b) = name
      /\ \A i \in 1..(n - 1) : b[i] = p[i]
      /\ b[n] = name
  <2>1. b \in P!PathsOf(S) /\ Len(b) = Len(f) + 1 /\ P!Last(b) = name
    BY <1>2, AppendParts
  <2> HIDE DEF f
  <2>2. (\A i \in 1..(n - 1) : b[i] = p[i]) /\ b[n] = name
    BY <1>2
  <2> QED BY <1>2, <2>1, <2>2
<1> HIDE DEF c, f, b, n
<1>6. /\ c \in P!PathsOf(S) /\ Len(c) = n + (IF wants THEN 1 ELSE 0)
      /\ P!Last(c) = (IF wants THEN P!Empty ELSE name)
      /\ \A i \in 1..n : c[i] = b[i]
      /\ wants => c[n + 1] = P!Empty
      /\ b \in Seq(S)
  <2>0. b \in Seq(S)
    BY <1>5 DEF P!PathsOf
  <2>1. CASE wants
    <3>1. c = Append(b, P!Empty)
      BY <1>4, <2>1
    <3>2. c \in P!PathsOf(S) /\ Len(c) = Len(b) + 1 /\ P!Last(c) = P!Empty
      BY <1>3, <2>0, <3>1, AppendParts DEF S
    <3> HIDE DEF S
    <3>3. (\A i \in 1..n : c[i] = b[i]) /\ c[n + 1] = P!Empty
      BY <1>2, <1>3, <1>5, <2>0, <3>1
    <3> QED BY <1>2, <1>5, <2>0, <2>1, <3>2, <3>3
  <2>2. CASE ~wants
    BY <1>2, <1>4, <1>5, <2>0, <2>2
  <2> QED BY <2>1, <2>2
<1> HIDE DEF S
<1>7. \A i \in 1..Len(c) : \/ i \in 1..(n - 1) /\ c[i] = p[i]
                           \/ i = n /\ c[i] = name
                           \/ wants /\ i = n + 1 /\ c[i] = P!Empty
  <2> SUFFICES ASSUME NEW i \in 1..Len(c)
               PROVE  \/ i \in 1..(n - 1) /\ c[i] = p[i]
                      \/ i = n /\ c[i] = name
                      \/ wants /\ i = n + 1 /\ c[i] = P!Empty
    OBVIOUS
  <2>1. i \in 1..(n - 1) \/ i = n \/ (wants /\ i = n + 1)
    BY <1>2, <1>6
  <2>2. n \in 1..n /\ 1..(n - 1) \subseteq 1..n
    BY <1>2
  <2> QED BY <1>5, <1>6, <2>1, <2>2, Zenon
<1>8. P!is_normalization_stable(c)
  <2>1. /\ \A i \in 1..n : p[i].text # "hash" /\ p[i] \notin P!Dots
        /\ \A i \in 1..(n - 1) : p[i] # P!Empty
    BY <1>1, StablePath DEF n
  <2>2. P!Empty.text # "hash" /\ P!Empty \notin P!Dots
    BY DEF P!Empty, P!Dots, P!Seg
  <2>3. 1..(n - 1) \subseteq 1..n
    BY <1>2
  <2>4. ASSUME NEW i \in 1..Len(c) PROVE c[i].text # "hash" /\ c[i] \notin P!Dots
    BY <1>7, <2>1, <2>2, <2>3, Zenon
  <2>5. ASSUME NEW i \in 1..(Len(c) - 1) PROVE c[i] # P!Empty
    <3>1. i \in 1..Len(c) /\ i # n + 1
      BY <1>2, <1>6
    <3> QED BY <1>7, <2>1, <3>1, Zenon
  <2> QED BY <1>6, <2>4, <2>5, StablePath, Zenon DEF S
<1>9. P!IsIri(c)
  <2>1. \A i \in 1..n : p[i].text # "broken"
    BY <1>1 DEF P!IsIri, n
  <2>2. P!Empty.text # "broken"
    BY DEF P!Empty, P!Seg
  <2>3. 1..(n - 1) \subseteq 1..n
    BY <1>2
  <2>4. ASSUME NEW i \in 1..Len(c) PROVE c[i].text # "broken"
    BY <1>7, <2>1, <2>2, <2>3, Zenon
  <2> QED BY <2>4, Zenon DEF P!IsIri
<1>10. CASE ~P!reserved_segment(c)
  <2>1. P!resolve(c) = P!Named(IF P!Last(c) = P!Empty THEN "container" ELSE "resource", c)
    BY <1>8, <1>9, <1>10, Resolves, Zenon
  <2>2. P!resolve(c).kind = (IF wants THEN "container" ELSE "resource") /\ P!resolve(c).path = c
    BY <1>6, <2>1 DEF P!Named
  <2>3. SubSeq(c, 1, n - 1) = f
    <3>1. c \in Seq(S)
      BY <1>6 DEF P!PathsOf
    <3>2. SubSeq(c, 1, n - 1) \in Seq(S) /\ Len(SubSeq(c, 1, n - 1)) = n - 1
      BY <1>2, <1>6, <3>1
    <3>3. \A i \in 1..(n - 1) : SubSeq(c, 1, n - 1)[i] = c[i]
      BY <1>2, <1>6, <3>1
    <3>4. \A i \in 1..(n - 1) : i \in 1..n
      BY <1>2
    <3>5. \A i \in 1..(n - 1) : SubSeq(c, 1, n - 1)[i] = f[i]
      BY <1>2, <1>5, <1>6, <3>3, <3>4, Zenon
    <3> QED BY <1>2, <3>2, <3>5, SeqEqual
  <2> QED BY <1>6, <2>2, <2>3 DEF c, f, n
<1>11. CASE P!reserved_segment(c)
  <2>1. 1 \in 1..Len(c) /\ (1 \in 1..(n - 1) \/ n = 1)
    BY <1>2, <1>6
  <2>2. n = 1 /\ c[1] = name /\ n \in 1..n
    <3>1. ~(1 \in 1..(n - 1) /\ c[1] = p[1])
      BY <1>1, <1>11, Zenon DEF P!reserved_segment, P!HasFirst
    <3>2. n = 1 /\ n \in 1..n
      BY <1>5, <1>6, <1>7, <2>1, <3>1
    <3>3. c[n] = name
      BY <1>5, <1>6, <3>2, Zenon
    <3> QED BY <3>2, <3>3
  <2>3. CASE P!HasFirst(c, "wellknown")
    <3>1. P!resolve(c).kind = "reserved"
      BY <1>8, <2>3 DEF P!resolve, P!Refused
    <3> QED BY <2>2, <2>3, <3>1 DEF P!HasFirst, c, n
  <2>4. CASE P!HasFirst(c, "aux") /\ ~P!HasFirst(c, "wellknown")
    <3>1. ~P!SplitsSuffix(Tail(c))
      <4>1. /\ Tail(c) \in Seq(S) /\ Len(Tail(c)) = Len(c) - 1
            /\ \A i \in 1..(Len(c) - 1) : Tail(c)[i] = c[i + 1]
        BY <1>6, PathParts DEF S
      <4>2. CASE wants
        <5>1. Len(c) = 2 /\ Len(Tail(c)) = 1 /\ Tail(c)[1] = P!Empty
          <6>1. Len(c) = 2 /\ c[2] = P!Empty
            <7>1. Len(c) = n + 1 /\ c[n + 1] = P!Empty
              BY <1>6, <4>2
            <7> QED BY <2>2, <7>1
          <6>2. 1 \in 1..(Len(c) - 1) /\ 1 + 1 = 2 /\ Len(c) - 1 = 1
            BY <6>1
          <6> QED BY <4>1, <6>1, <6>2
        <5>2. P!Last(Tail(c)) = P!Empty
          BY <5>1 DEF P!Last
        <5>3. P!Empty.acl = 0
          BY DEF P!Empty, P!Seg
        <5> QED BY <5>2, <5>3 DEF P!SplitsSuffix
      <4>3. CASE ~wants
        <5>1. Tail(c) = <<>>
          <6>1. Len(c) = n + 0
            BY <1>6, <4>3
          <6>2. Len(Tail(c)) = 0
            BY <2>2, <4>1, <6>1
          <6> QED BY <4>1, <6>2, EmptySeq
        <5> QED BY <5>1 DEF P!SplitsSuffix
      <4> QED BY <4>2, <4>3
    <3>2. P!resolve(c).kind = "reserved"
      BY <1>8, <2>4, <3>1 DEF P!resolve, P!Refused
    <3> QED BY <2>2, <2>4, <3>2 DEF P!HasFirst, c, n
  <2> QED BY <1>11, <2>3, <2>4 DEF P!reserved_segment
<1> QED BY <1>10, <1>11

\* Whatever the Slug, a POST names a member of its container.
LEMMA SlugNamesMember ==
  ASSUME NEW p \in P!PathsOf(P!Segs), NEW slug \in P!Slugs, NEW wants \in BOOLEAN
  PROVE  P!ChildIsMember(p, slug, wants)
<1> SUFFICES ASSUME P!resolve(p).kind = "container"
             PROVE  P!ChildIsMember(p, slug, wants)
  BY Zenon DEF P!ChildIsMember
<1> DEFINE name == P!child_name(slug)
<1>1. /\ name \in P!Segs /\ name # P!Empty /\ name \notin P!Dots
      /\ name.text \notin {"hash", "broken"}
  BY NameIsClean, Zenon
<1>2. /\ P!Fresh \in P!Segs /\ P!Fresh # P!Empty /\ P!Fresh \notin P!Dots
      /\ P!Fresh.text \notin {"hash", "broken"}
      /\ P!Fresh \notin {P!Seg("aux"), P!Seg("wellknown")}
  BY DEF P!Fresh, P!Seg, P!Segs, P!Texts, P!Empty, P!Dots
<1> HIDE DEF name
<1> DEFINE InParent(child) ==
             /\ child.kind = (IF wants THEN "container" ELSE "resource")
             /\ SubSeq(child.path, 1, Len(p) - 1) = P!Front(p)
             /\ Len(child.path) = Len(p) + (IF wants THEN 1 ELSE 0)
           child == P!resolve(P!ChildPath(p, name, wants))
           second == P!resolve(P!ChildPath(p, P!Fresh, wants))
<1>3. \/ InParent(child)
      \/ /\ child.kind = "reserved" /\ Len(p) = 1
         /\ name \in {P!Seg("aux"), P!Seg("wellknown")}
  BY <1>1, ChildResolves, Zenon
<1>4. \/ InParent(second)
      \/ /\ second.kind = "reserved" /\ Len(p) = 1
         /\ P!Fresh \in {P!Seg("aux"), P!Seg("wellknown")}
  BY <1>2, ChildResolves, Zenon
<1> QED BY <1>2, <1>3, <1>4, Zenon DEF P!ChildIsMember, name

-----------------------------------------------------------------------------
\* What axum decodes, segment by segment.
IsDecoded(raw, f) ==
  f = [i \in 0..Len(raw) |-> IF i = 0 THEN <<>> ELSE f[i - 1] \o P!DecodeSeg(raw[i])]

\* One segment decodes to one or two.
LEMMA DecodedSeg ==
  ASSUME NEW s \in P!RawSegs
  PROVE  /\ P!DecodeSeg(s) \in Seq(P!Segs) /\ Len(P!DecodeSeg(s)) > 0
         /\ (P!IsDot(s) \/ P!IsDotDot(s)) =>
              1 \in 1..Len(P!DecodeSeg(s)) /\ P!DecodeSeg(s)[1] \in P!Dots
<1>1. s.text \in P!Texts \cup {"aslashb"} /\ s.acl \in Nat
  BY DEF P!RawSegs
<1>2. CASE s.text = "aslashb"
  <2>1. P!DecodeSeg(s) = <<P!Seg("a"), P!Seg("b")>>
    BY <1>2 DEF P!DecodeSeg
  <2>2. P!Seg("a") \in P!Segs /\ P!Seg("b") \in P!Segs
    BY DEF P!Seg, P!Segs, P!Texts
  <2>3. ~P!IsDot(s) /\ ~P!IsDotDot(s)
    BY <1>2 DEF P!IsDot, P!IsDotDot
  <2> QED BY <2>1, <2>2, <2>3
<1>3. CASE s.text # "aslashb"
  <2> DEFINE d == [text |-> s.text, acl |-> s.acl]
  <2>1. P!DecodeSeg(s) = <<d>>
    BY <1>3 DEF P!DecodeSeg
  <2>2. d \in P!Segs
    BY <1>1, <1>3 DEF P!Segs
  <2>3. P!IsDot(s) \/ P!IsDotDot(s) => d \in P!Dots
    BY DEF P!IsDot, P!IsDotDot, P!Dots, P!Seg
  <2> HIDE DEF d
  <2> QED BY <2>1, <2>2, <2>3
<1> QED BY <1>2, <1>3

\* Decoding a path yields one, and a dot segment stays one however it is spelled.
LEMMA DecodedPath ==
  ASSUME NEW raw \in P!PathsOf(P!RawSegs)
  PROVE  /\ P!Decode(raw) \in P!PathsOf(P!Segs)
         /\ \A i \in 1..Len(raw) : P!IsDot(raw[i]) \/ P!IsDotDot(raw[i]) =>
              \E j \in 1..Len(P!Decode(raw)) : P!Decode(raw)[j] \in P!Dots
<1> DEFINE n == Len(raw)
           S == Seq(P!Segs)
           Step == [i \in 1..n |-> [x \in S |-> x \o P!DecodeSeg(raw[i])]]
           g == CHOOSE f : IsDecoded(raw, f)
           IsDots(s) == P!IsDot(s) \/ P!IsDotDot(s)
           D == P!Segs
           Sound(k) == /\ g[k] \in Seq(D)
                       /\ k > 0 => Len(g[k]) > 0
                       /\ \A i \in 1..k : IsDots(raw[i]) => \E j \in 1..Len(g[k]) : g[k][j] \in P!Dots
<1>1. n \in Nat /\ n > 0 /\ \A i \in 1..n : raw[i] \in P!RawSegs
  <2> DEFINE R == P!RawSegs
  <2>1. raw \in Seq(R) /\ Len(raw) > 0
    BY DEF P!PathsOf, P!IsPath
  <2> HIDE DEF R
  <2>2. Len(raw) \in Nat /\ \A i \in 1..Len(raw) : raw[i] \in R
    BY <2>1
  <2> QED BY <2>1, <2>2 DEF R
<1>2. \A i \in 1..n : /\ P!DecodeSeg(raw[i]) \in Seq(D) /\ Len(P!DecodeSeg(raw[i])) > 0
                      /\ IsDots(raw[i]) => /\ 1 \in 1..Len(P!DecodeSeg(raw[i]))
                                           /\ P!DecodeSeg(raw[i])[1] \in P!Dots
  BY <1>1, DecodedSeg, Zenon
<1>3. P!Decode(raw) = g[n]
  BY Zenon DEF P!Decode, IsDecoded
<1>4. IsDecoded(raw, g)
  <2> HIDE DEF D, IsDots
  <2>1. Step \in [1..n -> [S -> S]] /\ <<>> \in S
    BY <1>2 DEF D
  <2>2. PICK f : Recursion(S, <<>>, n, Step, f)
    <3>1. n \in Nat
      BY <1>1
    <3> HIDE DEF n, S, Step
    <3> QED BY <2>1, <3>1, RecursionExists, Zenon
  <2>3. \A i \in 1..n : f[i] = f[i - 1] \o P!DecodeSeg(raw[i])
    <3> SUFFICES ASSUME NEW i \in 1..n PROVE f[i] = f[i - 1] \o P!DecodeSeg(raw[i])
      OBVIOUS
    <3>1. i - 1 \in 0..n
      BY <1>1
    <3>2. f[i - 1] \in S
      BY <2>2, <3>1 DEF Recursion
    <3> HIDE DEF S, n
    <3> QED BY <2>2, <3>2 DEF Recursion
  <2>4. f = [i \in 0..n |-> IF i = 0 THEN <<>> ELSE f[i - 1] \o P!DecodeSeg(raw[i])]
    <3>1. \A i \in 0..n : f[i] = IF i = 0 THEN <<>> ELSE f[i - 1] \o P!DecodeSeg(raw[i])
      <4>1. \A i \in 0..n : i = 0 \/ i \in 1..n
        BY <1>1
      <4> QED BY <2>2, <2>3, <4>1, Zenon DEF Recursion
    <3> HIDE DEF S, n, Step
    <3> QED BY <2>2, <3>1 DEF Recursion
  <2>5. IsDecoded(raw, f)
    BY <2>4, Zenon DEF IsDecoded
  <2> QED BY <2>5, Zenon
<1> HIDE DEF g, n
<1>5. g[0] = <<>> /\ \A i \in 1..n : g[i] = g[i - 1] \o P!DecodeSeg(raw[i])
  <2>1. \A i \in 0..n : g[i] = IF i = 0 THEN <<>> ELSE g[i - 1] \o P!DecodeSeg(raw[i])
    BY <1>4 DEF IsDecoded, n
  <2>2. 0 \in 0..n /\ \A i \in 1..n : i \in 0..n /\ i # 0
    BY <1>1
  <2> QED BY <2>1, <2>2, Zenon
<1> HIDE DEF D, IsDots
<1>6. \A k \in 0..n : Sound(k)
  <2> DEFINE Bad == {k \in 0..n : ~Sound(k)}
  <2> SUFFICES ASSUME Bad # {} PROVE FALSE
    OBVIOUS
  <2>1. Bad \subseteq Nat
    OBVIOUS
  <2>2. PICK k \in Bad : \A j \in Bad : k <= j
    <3> HIDE DEF Bad
    <3> QED BY <2>1, LeastExists
  <2>3. k \in 0..n /\ ~Sound(k)
    BY <2>2, Zenon
  <2>4. Sound(0)
    BY <1>5
  <2>5. k \in 1..n /\ k - 1 \in 0..n /\ ~(k <= k - 1)
    <3>1. k # 0
      BY <2>3, <2>4, Zenon
    <3> QED BY <1>1, <2>3, <3>1
  <2>6. Sound(k - 1)
    BY <2>2, <2>5
  <2> DEFINE a == g[k - 1]
             d == P!DecodeSeg(raw[k])
  <2>7. g[k] = a \o d
    BY <1>5, <2>5
  <2>8. a \in Seq(D) /\ d \in Seq(D) /\ Len(d) > 0
    BY <1>2, <2>5, <2>6
  <2> HIDE DEF Bad
  <2>9. /\ a \o d \in Seq(D) /\ Len(a \o d) = Len(a) + Len(d)
        /\ \A j \in 1..Len(a) : j \in 1..Len(a \o d) /\ (a \o d)[j] = a[j]
        /\ Len(a) + 1 \in 1..Len(a \o d) /\ (a \o d)[Len(a) + 1] = d[1]
    <3> HIDE DEF a, d
    <3> QED BY <2>8
  <2>10. ASSUME NEW i \in 1..k, IsDots(raw[i])
         PROVE  \E j \in 1..Len(g[k]) : g[k][j] \in P!Dots
    <3>1. CASE i = k
      <4>1. d[1] \in P!Dots
        BY <1>2, <2>5, <2>10, <3>1, Zenon
      <4> QED BY <2>7, <2>9, <4>1, Zenon
    <3>2. CASE i # k
      <4>1. i \in 1..(k - 1)
        BY <2>5, <3>2
      <4>2. PICK j \in 1..Len(a) : a[j] \in P!Dots
        BY <2>6, <2>10, <4>1, Zenon
      <4> QED BY <2>7, <2>9, <4>2, Zenon
    <3> QED BY <3>1, <3>2
  <2>11. Len(g[k]) > 0
    <3> HIDE DEF a, d
    <3> QED BY <2>7, <2>8, <2>9
  <2>12. g[k] \in Seq(D)
    BY <2>7, <2>9, Zenon
  <2> QED BY <2>3, <2>10, <2>11, <2>12, Zenon
<1>7. n \in 0..n
  BY <1>1
<1>8. Sound(n)
  BY <1>6, <1>7, Zenon
<1>9. g[n] \in P!PathsOf(D)
  BY <1>1, <1>8 DEF P!PathsOf, P!IsPath
<1> QED BY <1>3, <1>8, <1>9, Zenon DEF n, D, IsDots

-----------------------------------------------------------------------------
\* What Url::parse makes of a path, segment by segment.
IsWirePath(raw, f) ==
  f = [i \in 0..Len(raw) |->
         IF i = 0 THEN <<>>
         ELSE LET before == f[i - 1]
                  shorter == IF before = <<>> THEN <<>> ELSE P!Front(before)
                  slash == IF i = Len(raw) THEN <<P!Raw("empty", FALSE)>> ELSE <<>>
              IN IF P!IsDot(raw[i]) THEN before \o slash
                 ELSE IF P!IsDotDot(raw[i]) THEN shorter \o slash
                 ELSE Append(before, raw[i])]

\* A path without dot segments is its own normal form.
LEMMA WirePathIsPath ==
  ASSUME NEW T, NEW p \in Seq(T), \A i \in 1..Len(p) : ~P!IsDot(p[i]) /\ ~P!IsDotDot(p[i])
  PROVE  P!WirePath(p) = p
<1> DEFINE n == Len(p)
           g == CHOOSE f : IsWirePath(p, f)
           h == [i \in 0..n |-> SubSeq(p, 1, i)]
<1>1. n \in Nat /\ \A i \in 1..n : p[i] \in T
  OBVIOUS
<1>2. P!WirePath(p) = g[n]
  BY Zenon DEF P!WirePath, IsWirePath
<1>3. \A i \in 1..n : SubSeq(p, 1, i) = Append(SubSeq(p, 1, i - 1), p[i])
  OBVIOUS
<1>4. SubSeq(p, 1, 0) = <<>> /\ SubSeq(p, 1, n) = p
  OBVIOUS
<1> DEFINE Next2(f, i) ==
         IF i = 0 THEN <<>>
         ELSE LET before == f[i - 1]
                  shorter == IF before = <<>> THEN <<>> ELSE P!Front(before)
                  slash == IF i = Len(p) THEN <<P!Raw("empty", FALSE)>> ELSE <<>>
              IN IF P!IsDot(p[i]) THEN before \o slash
                 ELSE IF P!IsDotDot(p[i]) THEN shorter \o slash
                 ELSE Append(before, p[i])
<1>5. \A f : \A i \in 0..n : Next2(f, i) = IF i = 0 THEN <<>> ELSE Append(f[i - 1], p[i])
  <2> SUFFICES ASSUME NEW f, NEW i \in 0..n
               PROVE  Next2(f, i) = IF i = 0 THEN <<>> ELSE Append(f[i - 1], p[i])
    OBVIOUS
  <2>1. i = 0 \/ i \in 1..n
    BY <1>1
  <2> QED BY <2>1, Zenon
<1>6. IsWirePath(p, h)
  <2>1. \A i \in 0..n : h[i] = IF i = 0 THEN <<>> ELSE Append(h[i - 1], p[i])
    BY <1>1, <1>3, <1>4
  <2>2. \A i \in 0..n : h[i] = Next2(h, i)
    BY <1>5, <2>1, Zenon
  <2>3. h = [i \in 0..n |-> h[i]]
    OBVIOUS
  <2> HIDE DEF h
  <2>4. [i \in 0..n |-> h[i]] = [i \in 0..n |-> Next2(h, i)]
    BY <2>2, Zenon
  <2> QED BY <2>3, <2>4, Zenon DEF IsWirePath
<1>7. IsWirePath(p, g)
  BY <1>6, Zenon
<1> HIDE DEF g, h
<1>8. g[0] = <<>> /\ \A i \in 1..n : g[i] = Append(g[i - 1], p[i])
  <2>1. g = [i \in 0..n |-> Next2(g, i)]
    BY <1>7, Zenon DEF IsWirePath
  <2>2. \A i \in 0..n : g[i] = Next2(g, i)
    BY <2>1, Zenon
  <2>3. 0 \in 0..n /\ \A i \in 1..n : i \in 0..n /\ i # 0
    BY <1>1
  <2> HIDE DEF n, Next2
  <2> QED BY <1>5, <2>2, <2>3, Zenon
<1> HIDE DEF n, Next2
<1>9. \A i \in 0..n : g[i] = SubSeq(p, 1, i)
  <2> DEFINE Bad == {i \in 0..n : g[i] # SubSeq(p, 1, i)}
  <2> SUFFICES ASSUME Bad # {} PROVE FALSE
    OBVIOUS
  <2>1. Bad \subseteq Nat
    OBVIOUS
  <2>2. PICK k \in Bad : \A j \in Bad : k <= j
    <3> HIDE DEF Bad
    <3> QED BY <2>1, LeastExists
  <2>3. k \in 0..n /\ g[k] # SubSeq(p, 1, k)
    BY <2>2
  <2>4. g[0] = SubSeq(p, 1, 0)
    BY <1>4, <1>8
  <2>5. k \in 1..n /\ k - 1 \in 0..n /\ ~(k <= k - 1)
    <3>1. k # 0
      BY <2>3, <2>4, Zenon
    <3> QED BY <1>1, <2>3, <3>1
  <2>6. g[k - 1] = SubSeq(p, 1, k - 1)
    BY <2>2, <2>5
  <2>7. g[k] = Append(g[k - 1], p[k])
    BY <1>8, <2>5
  <2>8. SubSeq(p, 1, k) = Append(SubSeq(p, 1, k - 1), p[k])
    BY <1>3, <2>5
  <2> HIDE DEF Bad
  <2> QED BY <2>3, <2>6, <2>7, <2>8, Zenon
<1>10. n \in 0..n
  BY <1>1
<1> QED BY <1>2, <1>4, <1>9, <1>10, Zenon DEF n

\* Where a handler has a target, the wire path had no dot segment to resolve.
LEMMA HandledHasNoDots ==
  ASSUME NEW raw \in P!PathsOf(P!RawSegs), P!IsTarget(P!Handled(raw))
  PROVE  P!WirePath(raw) = raw
<1> DEFINE d == P!Decode(raw)
<1>1. P!Handled(raw) = P!resolve(d)
  <2>1. ~P!IsTarget(P!Refused("wellknown"))
    BY DEF P!IsTarget, P!Refused
  <2> QED BY <2>1, Zenon DEF P!Handled
<1>2. P!is_normalization_stable(d)
  BY <1>1, Resolved, Zenon
<1>3. /\ d \in P!PathsOf(P!Segs)
      /\ \A i \in 1..Len(raw) : P!IsDot(raw[i]) \/ P!IsDotDot(raw[i]) =>
           \E j \in 1..Len(d) : d[j] \in P!Dots
  BY DecodedPath, Zenon
<1> HIDE DEF d
<1>4. \A j \in 1..Len(d) : d[j] \notin P!Dots
  BY <1>2, <1>3, StablePath, Zenon
<1>5. \A i \in 1..Len(raw) : ~P!IsDot(raw[i]) /\ ~P!IsDotDot(raw[i])
  BY <1>3, <1>4, Zenon
<1>6. raw \in Seq(P!RawSegs)
  BY DEF P!PathsOf
<1> QED BY <1>5, <1>6, WirePathIsPath, Zenon

\* A proof for one target is accepted for another only if it is the same.
LEMMA HtuNamesOne ==
  ASSUME NEW proof \in P!PathsOf(P!RawSegs), NEW raw \in P!PathsOf(P!RawSegs)
  PROVE  P!NamesOneResource(proof, raw)
<1> SUFFICES ASSUME P!HtuAccepted(proof, raw), P!IsTarget(P!Handled(proof)),
                    P!IsTarget(P!Handled(raw))
             PROVE  P!Handled(proof) = P!Handled(raw)
  BY Zenon DEF P!NamesOneResource
<1>1. P!WirePath(proof) = P!WirePath(raw)
  BY Zenon DEF P!HtuAccepted, P!htu_names_the_same_resource, P!derive_htu
<1>2. P!WirePath(proof) = proof /\ P!WirePath(raw) = raw
  BY HandledHasNoDots, Zenon
<1> QED BY <1>1, <1>2, Zenon

\* The names agree: resolve keeps the name of a target, a POST names members of
\* its container, and a DPoP proof is good for one resource.
THEOREM NamesAgreeHold == Spec => []NamesAgree
<1>1. Asked => NamesAgree
  <2> SUFFICES ASSUME Asked PROVE NamesAgree
    OBVIOUS
  <2>1. ASSUME asked.what = "resolve" PROVE P!KeepsItsName(asked.x.path)
    <3>1. asked.x.path \in P!PathsOf(P!Segs)
      BY <2>1, InputsAssumption DEF Asked
    <3> QED BY <3>1, NameIsKept, Zenon
  <2>2. ASSUME asked.what = "child"
        PROVE  P!ChildIsMember(asked.x.path, asked.x.slug, asked.x.container)
    <3>1. /\ asked.x.path \in P!PathsOf(P!Segs) /\ asked.x.slug \in P!Slugs
          /\ asked.x.container \in BOOLEAN
      BY <2>2, InputsAssumption DEF Asked
    <3> QED BY <3>1, SlugNamesMember, Zenon
  <2>3. ASSUME asked.what = "htu" PROVE P!NamesOneResource(asked.x.proof, asked.x.raw)
    <3>1. asked.x.proof \in P!PathsOf(P!RawSegs) /\ asked.x.raw \in P!PathsOf(P!RawSegs)
      BY <2>3, InputsAssumption DEF Asked
    <3> QED BY <3>1, HtuNamesOne, Zenon
  <2> QED BY <2>1, <2>2, <2>3, Zenon DEF NamesAgree, KeepsItsName, ChildIsMember, NamesOneResource
<1> QED BY <1>1, AskedAlways, PTL

-----------------------------------------------------------------------------
(* Patches: patch.rs, resource.rs, http.rs *)

\* A quad of a document and its terms.
LEMMA DocumentParts ==
  ASSUME NEW doc \in N!Documents
  PROVE  /\ Len(doc) \in Nat /\ DOMAIN doc = 1..Len(doc)
         /\ \A i \in DOMAIN doc : /\ doc[i].s \in N!Terms /\ doc[i].p \in N!Terms
                                  /\ doc[i].o \in N!Terms /\ doc[i].g # N!NoFormula
<1> DEFINE Quad == [s : N!Terms, p : N!Terms, o : N!Terms, g : N!Terms]
<1>1. doc \in Seq(Quad) /\ \A i \in DOMAIN doc : doc[i].g # N!NoFormula
  BY DEF N!Documents
<1>2. \A q \in Quad : q.s \in N!Terms /\ q.p \in N!Terms /\ q.o \in N!Terms
  OBVIOUS
<1> HIDE DEF Quad
<1>3. Len(doc) \in Nat /\ DOMAIN doc = 1..Len(doc) /\ \A i \in 1..Len(doc) : doc[i] \in Quad
  BY <1>1
<1> QED BY <1>1, <1>2, <1>3

\* What substitute gives for patterns, whether or not it can be sent.
LEMMA Substituted ==
  ASSUME NEW X, NEW b
  PROVE  N!substitute(X, b).triples = N!Instances(X, b)
BY DEF N!substitute

\* A patch a container accepts leaves its members alone.
LEMMA MembersAreUntouched ==
  ASSUME NEW doc, NEW graph
  PROVE  N!MembersUntouched(doc, graph)
<1> DEFINE patch == N!parse(doc)
           done == N!patch_guarded(patch, graph)
           Members(g) == {t \in g : t.p = N!LdpContains}
<1> SUFFICES ASSUME ~N!patch_sets_containment(patch)
             PROVE  Members(done.graph) = Members(graph)
  BY Zenon DEF N!MembersUntouched
<1>1. ASSUME NEW X, X = patch.insertions \/ X = patch.deletions, NEW b
      PROVE  \A t \in N!Instances(X, b) : t.p # N!LdpContains
  <2> SUFFICES ASSUME NEW q \in X
               PROVE  N!GroundTriple(q, b).p # N!LdpContains
    BY DEF N!Instances
  <2>1. q.p.k # "var" /\ q.p.n # N!LdpContains.n
    BY <1>1, Zenon DEF N!patch_sets_containment
  <2>2. N!GroundTriple(q, b).p = N!T(q.p.k, q.p.n)
    BY <2>1 DEF N!GroundTriple, N!GroundTerm
  <2>3. N!T(q.p.k, q.p.n).n = q.p.n
    BY DEF N!T
  <2> QED BY <2>1, <2>2, <2>3
<1> DEFINE b == CHOOSE b \in N!Solutions(patch, graph) : TRUE
           D == N!Instances(patch.deletions, b)
           A0 == N!Instances(patch.insertions, b)
<1>2. done.graph = graph \/ done.graph = (graph \ D) \cup A0
  BY Substituted DEF N!patch_guarded
<1>3. (\A t \in D : t.p # N!LdpContains) /\ (\A t \in A0 : t.p # N!LdpContains)
  BY <1>1
<1> HIDE DEF done, D, A0, patch
<1> QED BY <1>2, <1>3

\* The quads of a part are those in the formula its predicate names.
LEMMA FormulaContents ==
  ASSUME NEW doc \in N!Documents, NEW s, N!PatchSubjects(doc) = {s},
         NEW f \in DOMAIN N!Predicates, N!FormulaOk(doc, s, N!Predicates[f])
  PROVE  N!PartOf(doc, f) = {doc[i] : i \in N!Contents(doc, N!formula(doc, s, N!Predicates[f]))}
<1> DEFINE found == N!Uses(doc, s, N!Predicates[f])
           c == N!formula(doc, s, N!Predicates[f])
<1>1. \A i \in DOMAIN doc : doc[i].g # N!NoFormula
  BY DocumentParts, Zenon
<1>2. found = {} \/ N!IsOne(found)
  BY Zenon DEF N!FormulaOk
<1>3. c = IF found = {} THEN N!NoFormula ELSE doc[CHOOSE i \in found : TRUE].o
  BY Zenon DEF N!formula
<1>4. \A q : q \in N!PartOf(doc, f) <=>
               \E j \in DOMAIN doc : q = doc[j] /\ \E i \in found : doc[i].o = q.g
  BY DEF N!PartOf, N!ToSet, N!Uses
<1> HIDE DEF found, c
<1>5. CASE found = {}
  <2>1. N!PartOf(doc, f) = {}
    BY <1>4, <1>5
  <2>2. N!Contents(doc, c) = {}
    BY <1>1, <1>3, <1>5 DEF N!Contents
  <2> QED BY <2>1, <2>2 DEF c
<1>6. CASE N!IsOne(found)
  <2>1. PICK k \in found : found = {k}
    BY <1>6, Zenon DEF N!IsOne
  <2>2. c = doc[k].o
    <3>1. (CHOOSE i \in found : TRUE) = k
      BY <2>1
    <3> QED BY <1>3, <2>1, <3>1
  <2>3. \A q : q \in N!PartOf(doc, f) <=> \E j \in DOMAIN doc : q = doc[j] /\ q.g = c
    BY <1>4, <2>1, <2>2
  <2> QED BY <2>3 DEF N!Contents, c
<1> QED BY <1>2, <1>5, <1>6

\* No name has two indices.
OneEach(names) == \A i, j \in DOMAIN names : names[i] = names[j] => i = j

\* Renumber::bind keeps an index for every name met, and one.
LEMMA BindKeeps ==
  ASSUME NEW names \in Seq(N!Terms), OneEach(names), NEW t \in N!Terms
  PROVE  /\ N!bind(names, t) \in Seq(N!Terms)
         /\ OneEach(N!bind(names, t))
         /\ N!ToSet(N!bind(names, t)) = N!ToSet(names) \cup {x \in {t} : N!IsName(x)}
<1> DEFINE S == N!Terms
           b == N!bind(names, t)
<1> HIDE DEF S
<1>1. names \in Seq(S) /\ t \in S
  BY DEF S
<1>2. CASE N!IsName(t) /\ t \notin N!ToSet(names)
  <2>1. b = Append(names, t)
    BY <1>2 DEF N!bind, N!Key
  <2>2. /\ Append(names, t) \in Seq(S) /\ Len(names) \in Nat /\ DOMAIN names = 1..Len(names)
        /\ DOMAIN Append(names, t) = 1..(Len(names) + 1)
        /\ \A i \in 1..Len(names) : Append(names, t)[i] = names[i]
        /\ Append(names, t)[Len(names) + 1] = t
    BY <1>1
  <2>3. \A i \in 1..(Len(names) + 1) : i \in 1..Len(names) \/ i = Len(names) + 1
    BY <2>2
  <2>4. \A i \in 1..Len(names) : i \in 1..(Len(names) + 1)
    BY <2>2
  <2>5. Len(names) + 1 \in 1..(Len(names) + 1)
    BY <2>2
  <2>6. \A i \in 1..Len(names) : names[i] # t
    BY <1>2, <2>2 DEF N!ToSet
  <2> DEFINE n == Len(names)
             m == Len(names) + 1
             a == Append(names, t)
  <2> HIDE DEF n, m, a
  <2>7. OneEach(a)
    <3> SUFFICES ASSUME NEW i \in 1..m, NEW j \in 1..m, a[i] = a[j] PROVE i = j
      BY <2>2, Zenon DEF OneEach, a, m
    <3>1. \A x \in 1..m : (x \in 1..n /\ a[x] = names[x]) \/ (x = m /\ a[x] = t)
      BY <2>2, <2>3, Zenon DEF n, m, a
    <3>2. \A x, y \in 1..n : names[x] = names[y] => x = y
      BY <2>2, Zenon DEF OneEach, n
    <3>3. \A x \in 1..n : names[x] # t
      BY <2>6, Zenon DEF n
    <3> QED BY <3>1, <3>2, <3>3, Zenon
  <2>8. N!ToSet(a) = N!ToSet(names) \cup {t}
    <3>1. ASSUME NEW x PROVE x \in N!ToSet(a) <=> x \in N!ToSet(names) \/ x = t
      <4>1. x \in N!ToSet(a) <=> \E i \in 1..m : a[i] = x
        BY <2>2 DEF N!ToSet, a, m
      <4>2. x \in N!ToSet(names) <=> \E i \in 1..n : names[i] = x
        BY <2>2 DEF N!ToSet, n
      <4>3. (\E i \in 1..m : a[i] = x) <=> (\E i \in 1..n : names[i] = x) \/ x = t
        BY <2>2, <2>3, <2>4, <2>5, Zenon DEF n, m, a
      <4> QED BY <4>1, <4>2, <4>3, Zenon
    <3> QED BY <3>1
  <2>9. {x \in {t} : N!IsName(x)} = {t}
    BY <1>2
  <2> QED BY <2>1, <2>2, <2>7, <2>8, <2>9 DEF a, S
<1>3. CASE ~(N!IsName(t) /\ t \notin N!ToSet(names))
  <2>1. b = names
    BY <1>3 DEF N!bind, N!Key
  <2>2. N!ToSet(names) \cup {x \in {t} : N!IsName(x)} = N!ToSet(names)
    BY <1>3
  <2> QED BY <2>1, <2>2
<1> QED BY <1>2, <1>3

\* The names met so far, one after the other.
IsBinding(doc, f, g) ==
  g = [i \in 0..Len(doc) |->
         IF i = 0 THEN <<>>
         ELSE IF doc[i].g # f THEN g[i - 1]
         ELSE N!bind(N!bind(N!bind(g[i - 1], doc[i].s), doc[i].p), doc[i].o)]

\* The terms of one quad.
QuadTerms(q) == {q.s, q.p, q.o}

\* Binding the names of a quad.
LEMMA BindQuad ==
  ASSUME NEW names \in Seq(N!Terms), OneEach(names),
         NEW q, q.s \in N!Terms, q.p \in N!Terms, q.o \in N!Terms
  PROVE  LET b == N!bind(N!bind(N!bind(names, q.s), q.p), q.o)
         IN /\ b \in Seq(N!Terms) /\ OneEach(b)
            /\ N!ToSet(b) = N!ToSet(names) \cup {x \in QuadTerms(q) : N!IsName(x)}
<1> DEFINE b1 == N!bind(names, q.s)
           b2 == N!bind(b1, q.p)
           b3 == N!bind(b2, q.o)
<1>1. /\ b1 \in Seq(N!Terms) /\ OneEach(b1)
      /\ N!ToSet(b1) = N!ToSet(names) \cup {x \in {q.s} : N!IsName(x)}
  BY BindKeeps, Zenon
<1> HIDE DEF b1
<1>2. /\ b2 \in Seq(N!Terms) /\ OneEach(b2)
      /\ N!ToSet(b2) = N!ToSet(b1) \cup {x \in {q.p} : N!IsName(x)}
  BY <1>1, BindKeeps, Zenon
<1> HIDE DEF b2
<1>3. /\ b3 \in Seq(N!Terms) /\ OneEach(b3)
      /\ N!ToSet(b3) = N!ToSet(b2) \cup {x \in {q.o} : N!IsName(x)}
  BY <1>2, BindKeeps, Zenon
<1> HIDE DEF b3
<1>4. N!ToSet(b3) = N!ToSet(names) \cup {x \in QuadTerms(q) : N!IsName(x)}
  BY <1>1, <1>2, <1>3 DEF QuadTerms
<1> QED BY <1>3, <1>4, Zenon DEF b1, b2, b3

\* The recursion of BoundNames has a solution.
LEMMA BindingExists ==
  ASSUME NEW doc \in N!Documents, NEW f
  PROVE  \E g : IsBinding(doc, f, g)
<1> DEFINE n == Len(doc)
           S == {names \in Seq(N!Terms) : OneEach(names)}
           b(x, i) == IF doc[i].g # f THEN x
                      ELSE N!bind(N!bind(N!bind(x, doc[i].s), doc[i].p), doc[i].o)
           Step == [i \in 1..n |-> [x \in S |-> b(x, i)]]
<1>1. n \in Nat /\ \A i \in 1..n : doc[i].s \in N!Terms /\ doc[i].p \in N!Terms /\ doc[i].o \in N!Terms
  BY DocumentParts
<1>2. \A i \in 1..n : \A x \in S : b(x, i) \in S
  <2> SUFFICES ASSUME NEW i \in 1..n, NEW x \in S, doc[i].g = f
               PROVE  N!bind(N!bind(N!bind(x, doc[i].s), doc[i].p), doc[i].o) \in S
    BY Zenon
  <2>1. x \in Seq(N!Terms) /\ OneEach(x)
    BY Zenon
  <2>2. doc[i].s \in N!Terms /\ doc[i].p \in N!Terms /\ doc[i].o \in N!Terms
    BY <1>1, Zenon
  <2>3. N!bind(N!bind(N!bind(x, doc[i].s), doc[i].p), doc[i].o) \in Seq(N!Terms)
        /\ OneEach(N!bind(N!bind(N!bind(x, doc[i].s), doc[i].p), doc[i].o))
    BY <2>1, <2>2, BindQuad, Zenon
  <2> QED BY <2>3, Zenon
<1>3. <<>> \in S
  BY DEF OneEach
<1> HIDE DEF S, b, n
<1>4. Step \in [1..n -> [S -> S]]
  BY <1>2
<1>5. PICK g : Recursion(S, <<>>, n, Step, g)
  <2>1. n \in Nat
    BY <1>1
  <2> HIDE DEF Step
  <2> QED BY <1>3, <1>4, <2>1, RecursionExists, Zenon
<1>6. /\ g \in [0..n -> S] /\ g[0] = <<>>
      /\ \A i \in 1..n : g[i] = Step[i][g[i - 1]]
  BY <1>5, Zenon DEF Recursion
<1>7. \A i \in 1..n : i - 1 \in 0..n
  BY <1>1
<1>8. \A i \in 1..n : g[i] = b(g[i - 1], i)
  BY <1>6, <1>7
<1>9. \A i \in 0..n : i = 0 \/ i \in 1..n
  BY <1>1
<1>10. \A i \in 0..n : g[i] = IF i = 0 THEN <<>> ELSE b(g[i - 1], i)
  BY <1>6, <1>8, <1>9, Zenon
<1>11. g = [i \in 0..n |-> IF i = 0 THEN <<>> ELSE b(g[i - 1], i)]
  BY <1>6, <1>10
<1> QED BY <1>11, Zenon DEF IsBinding, n, b

\* The names a formula uses.
NamesAt(doc, I) == {x \in UNION {QuadTerms(doc[i]) : i \in I} : N!IsName(x)}

\* Every name the conditions use has exactly one index.
LEMMA BoundIsNames ==
  ASSUME NEW doc \in N!Documents, NEW f
  PROVE  /\ N!BoundNames(doc, f) \in Seq(N!Terms)
         /\ OneEach(N!BoundNames(doc, f))
         /\ N!ToSet(N!BoundNames(doc, f)) = NamesAt(doc, N!Contents(doc, f))
<1> DEFINE n == Len(doc)
           g == CHOOSE h : IsBinding(doc, f, h)
           In(k) == {i \in 1..k : doc[i].g = f}
           Sound(k) == /\ g[k] \in Seq(N!Terms) /\ OneEach(g[k])
                       /\ N!ToSet(g[k]) = NamesAt(doc, In(k))
<1>1. /\ n \in Nat /\ DOMAIN doc = 1..n
      /\ \A i \in 1..n : doc[i].s \in N!Terms /\ doc[i].p \in N!Terms /\ doc[i].o \in N!Terms
  BY DocumentParts
<1>2. N!BoundNames(doc, f) = g[n]
  BY Zenon DEF N!BoundNames, IsBinding
<1>3. IsBinding(doc, f, g)
  BY BindingExists, Zenon
<1> HIDE DEF g, n
<1>4. /\ g[0] = <<>>
      /\ \A i \in 1..n : doc[i].g # f => g[i] = g[i - 1]
      /\ \A i \in 1..n : doc[i].g = f =>
           g[i] = N!bind(N!bind(N!bind(g[i - 1], doc[i].s), doc[i].p), doc[i].o)
  <2>1. \A i \in 0..n : g[i] = IF i = 0 THEN <<>>
                               ELSE IF doc[i].g # f THEN g[i - 1]
                               ELSE N!bind(N!bind(N!bind(g[i - 1], doc[i].s), doc[i].p), doc[i].o)
    <3>1. g = [i \in 0..n |->
                 IF i = 0 THEN <<>>
                 ELSE IF doc[i].g # f THEN g[i - 1]
                 ELSE N!bind(N!bind(N!bind(g[i - 1], doc[i].s), doc[i].p), doc[i].o)]
      BY <1>3, Zenon DEF IsBinding, n
    <3> QED BY <3>1, Zenon
  <2>2. 0 \in 0..n /\ \A i \in 1..n : i \in 0..n /\ i # 0
    BY <1>1
  <2> QED BY <2>1, <2>2, Zenon
<1>5. \A k \in 0..n : Sound(k)
  <2> DEFINE Bad == {k \in 0..n : ~Sound(k)}
  <2> SUFFICES ASSUME Bad # {} PROVE FALSE
    OBVIOUS
  <2>1. Bad \subseteq Nat
    OBVIOUS
  <2>2. PICK k \in Bad : \A j \in Bad : k <= j
    <3> HIDE DEF Bad
    <3> QED BY <2>1, LeastExists
  <2>3. k \in 0..n /\ ~Sound(k)
    BY <2>2, Zenon
  <2>4. Sound(0)
    <3>1. g[0] \in Seq(N!Terms) /\ OneEach(g[0])
      BY <1>4 DEF OneEach
    <3>2. N!ToSet(g[0]) = {}
      BY <1>4 DEF N!ToSet
    <3>3. NamesAt(doc, In(0)) = {}
      BY DEF NamesAt
    <3> QED BY <3>1, <3>2, <3>3, Zenon
  <2>5. k \in 1..n /\ k - 1 \in 0..n /\ ~(k <= k - 1)
    <3>1. k # 0
      BY <2>3, <2>4, Zenon
    <3> QED BY <1>1, <2>3, <3>1
  <2>6. Sound(k - 1)
    <3> HIDE DEF Sound
    <3> QED BY <2>2, <2>5
  <2> HIDE DEF Bad
  <2>7. \A i : i \in 1..k <=> i \in 1..(k - 1) \/ i = k
    BY <1>1, <2>5
  <2>8. CASE doc[k].g # f
    <3>1. In(k) = In(k - 1)
      BY <2>7, <2>8, Zenon
    <3>2. g[k] = g[k - 1]
      BY <1>4, <2>5, <2>8, Zenon
    <3> HIDE DEF In
    <3> QED BY <2>3, <2>6, <3>1, <3>2, Zenon
  <2>9. CASE doc[k].g = f
    <3>1. \A i : i \in In(k) <=> i \in In(k - 1) \/ i = k
      BY <2>7, <2>9, Zenon
    <3>2. NamesAt(doc, In(k)) = NamesAt(doc, In(k - 1)) \cup {x \in QuadTerms(doc[k]) : N!IsName(x)}
      <4> HIDE DEF In
      <4> QED BY <3>1 DEF NamesAt
    <3> DEFINE b == N!bind(N!bind(N!bind(g[k - 1], doc[k].s), doc[k].p), doc[k].o)
    <3>3. /\ b \in Seq(N!Terms) /\ OneEach(b)
          /\ N!ToSet(b) = N!ToSet(g[k - 1]) \cup {x \in QuadTerms(doc[k]) : N!IsName(x)}
      BY <1>1, <2>5, <2>6, BindQuad, Zenon
    <3>4. g[k] = b
      BY <1>4, <2>5, <2>9, Zenon
    <3> HIDE DEF b, In
    <3> QED BY <2>3, <2>6, <3>2, <3>3, <3>4, Zenon
  <2> QED BY <2>8, <2>9
<1>6. Sound(n) /\ In(n) = N!Contents(doc, f)
  <2>1. n \in 0..n
    BY <1>1
  <2>2. In(n) = N!Contents(doc, f)
    BY <1>1, Zenon DEF N!Contents
  <2> QED BY <1>5, <2>1, <2>2, Zenon
<1> QED BY <1>2, <1>6, Zenon

\* A term term and non_literal let pass: nothing reserved, nothing of RDF 1.2, no
\* literal but in the object, and where names are only looked up no blank node
\* and no variable that is not bound.
TermFits(t, slot) ==
  t.k \notin {"reserved", "dir", "triple"} /\ (t.k = "literal" => slot = "o")

\* What TermError lets pass.
LEMMA TermErrorNone ==
  ASSUME NEW t, NEW slot, NEW binding \in BOOLEAN, NEW bound
  PROVE  N!TermError(t, slot, binding, bound) = "none" <=>
           /\ TermFits(t, slot)
           /\ ~binding /\ N!IsName(t) => t.k = "var" /\ t \in N!ToSet(bound)
<1>1. CASE t.k = "reserved"
  BY <1>1 DEF N!TermError, TermFits, N!IsName, N!Key
<1>2. CASE t.k \in {"dir", "triple"}
  BY <1>2 DEF N!TermError, TermFits, N!IsName, N!Key
<1>3. CASE t.k = "literal"
  BY <1>3 DEF N!TermError, TermFits, N!IsName, N!Key
<1>4. CASE t.k = "var"
  BY <1>4 DEF N!TermError, TermFits, N!IsName, N!Key
<1>5. CASE t.k = "blank"
  BY <1>5 DEF N!TermError, TermFits, N!IsName, N!Key
<1>6. CASE t.k \notin {"reserved", "dir", "triple", "literal", "var", "blank"}
  BY <1>6 DEF N!TermError, TermFits, N!IsName, N!Key
<1> QED BY <1>1, <1>2, <1>3, <1>4, <1>5, <1>6

\* A quad patterns lets pass.
QuadFits(q, binding, bound) ==
  /\ TermFits(q.s, "s") /\ TermFits(q.p, "p") /\ TermFits(q.o, "o")
  /\ ~binding => \A t \in QuadTerms(q) : N!IsName(t) => t.k = "var" /\ t \in N!ToSet(bound)

\* patterns meets no error iff every quad of the formula passes.
LEMMA NoErrors ==
  ASSUME NEW doc, NEW f, NEW binding \in BOOLEAN, NEW bound
  PROVE  N!Errors(doc, f, binding, bound) = {} <=>
           \A i \in N!Contents(doc, f) : QuadFits(doc[i], binding, bound)
<1> DEFINE I == N!Contents(doc, f)
           E(q, slot) == N!TermError(q[slot], slot, binding, bound)
           e(i, j) == [at |-> 3 * i + j, err |-> E(doc[i], N!Slots[j])]
<1>1. \A q : QuadFits(q, binding, bound) <=>
               E(q, "s") = "none" /\ E(q, "p") = "none" /\ E(q, "o") = "none"
  <2> TAKE q
  <2>1. ASSUME NEW t, NEW slot
        PROVE  N!TermError(t, slot, binding, bound) = "none" <=>
                 /\ TermFits(t, slot)
                 /\ ~binding /\ N!IsName(t) => t.k = "var" /\ t \in N!ToSet(bound)
    BY TermErrorNone, Zenon
  <2> QED BY <2>1 DEF QuadFits, QuadTerms
<1>2. N!Slots[1] = "s" /\ N!Slots[2] = "p" /\ N!Slots[3] = "o"
  BY DEF N!Slots
<1>3. \A i, j : e(i, j).err = E(doc[i], N!Slots[j])
  OBVIOUS
<1>4. N!Errors(doc, f, binding, bound) = {x \in {e(i, j) : i \in I, j \in 1..3} : x.err # "none"}
  BY DEF N!Errors
<1> HIDE DEF I, e, E
<1>5. N!Errors(doc, f, binding, bound) = {} <=> \A i \in I, j \in 1..3 : e(i, j).err = "none"
  BY <1>4
<1>6. \A j : j \in 1..3 <=> j \in {1, 2, 3}
  OBVIOUS
<1>7. N!Errors(doc, f, binding, bound) = {} <=>
        \A i \in I : E(doc[i], "s") = "none" /\ E(doc[i], "p") = "none" /\ E(doc[i], "o") = "none"
  BY <1>2, <1>3, <1>5, <1>6
<1> QED BY <1>1, <1>7, Zenon DEF I

\* The first error is one.
LEMMA FirstIsError ==
  ASSUME NEW doc \in N!Documents, NEW f, NEW binding, NEW bound,
         N!Errors(doc, f, binding, bound) # {}
  PROVE  N!First(N!Errors(doc, f, binding, bound)) # "none"
<1> DEFINE X == N!Errors(doc, f, binding, bound)
           A0 == {e.at : e \in X}
<1>1. DOMAIN doc \subseteq Nat
  BY DocumentParts
<1>2. \A e \in X : e.at \in Nat /\ e.err # "none"
  <2>1. N!Contents(doc, f) \subseteq Nat
    BY <1>1 DEF N!Contents
  <2>2. \A i \in Nat : \A j \in 1..3 : 3 * i + j \in Nat
    OBVIOUS
  <2> QED BY <2>1, <2>2 DEF N!Errors
<1> HIDE DEF X
<1>3. A0 \subseteq Nat /\ A0 # {}
  BY <1>2 DEF X
<1>4. PICK a \in A0 : \A b \in A0 : a <= b
  <2> HIDE DEF A0
  <2> QED BY <1>3, LeastExists
<1>5. \E e \in X : \A d \in X : e.at <= d.at
  BY <1>4
<1>6. (CHOOSE e \in X : \A d \in X : e.at <= d.at) \in X
  BY <1>5
<1> QED BY <1>2, <1>6, Zenon DEF N!First, X

\* What parse makes of a document: the patch resource, its formulae, the names
\* its conditions bind.
Subject(doc) == CHOOSE s \in N!PatchSubjects(doc) : TRUE
FormulaOf(doc, f) == N!formula(doc, Subject(doc), N!Predicates[f])
Bound(doc) == N!BoundNames(doc, FormulaOf(doc, "where"))

\* Patch::parse refuses nothing.
Accepted(doc) ==
  /\ N!IsOne(N!PatchSubjects(doc))
  /\ \A f \in DOMAIN N!Predicates : N!FormulaOk(doc, Subject(doc), N!Predicates[f])
  /\ \A i \in N!Contents(doc, FormulaOf(doc, "where")) : QuadFits(doc[i], TRUE, Bound(doc))
  /\ \A f \in {"deletes", "inserts"} : \A i \in N!Contents(doc, FormulaOf(doc, f)) :
       QuadFits(doc[i], FALSE, Bound(doc))

\* parse has no error iff nothing is refused, and then the patterns of the three
\* formulae.
LEMMA ParsedIff ==
  ASSUME NEW doc \in N!Documents
  PROVE  /\ N!parse(doc).err = "none" <=> Accepted(doc)
         /\ N!parse(doc).err = "none" =>
              N!parse(doc) =
                [err |-> "none",
                 conditions |-> N!PatternsOf(doc, FormulaOf(doc, "where"), Bound(doc)),
                 deletions |-> N!PatternsOf(doc, FormulaOf(doc, "deletes"), Bound(doc)),
                 insertions |-> N!PatternsOf(doc, FormulaOf(doc, "inserts"), Bound(doc)),
                 variables |-> Len(Bound(doc))]
<1> DEFINE b == Bound(doc)
           E(f, binding) == N!Errors(doc, FormulaOf(doc, f), binding, b)
           ok == [err |-> "none",
                  conditions |-> N!PatternsOf(doc, FormulaOf(doc, "where"), b),
                  deletions |-> N!PatternsOf(doc, FormulaOf(doc, "deletes"), b),
                  insertions |-> N!PatternsOf(doc, FormulaOf(doc, "inserts"), b),
                  variables |-> Len(b)]
           shaped == /\ N!IsOne(N!PatchSubjects(doc))
                     /\ \A f \in DOMAIN N!Predicates : N!FormulaOk(doc, Subject(doc), N!Predicates[f])
<1>1. N!parse(doc) =
        IF ~N!IsOne(N!PatchSubjects(doc)) THEN N!Invalid("Shape")
        ELSE IF \E f \in DOMAIN N!Predicates : ~N!FormulaOk(doc, Subject(doc), N!Predicates[f])
          THEN N!Invalid("Shape")
        ELSE IF E("where", TRUE) # {} THEN N!Invalid(N!First(E("where", TRUE)))
        ELSE IF E("deletes", FALSE) # {} THEN N!Invalid(N!First(E("deletes", FALSE)))
        ELSE IF E("inserts", FALSE) # {} THEN N!Invalid(N!First(E("inserts", FALSE)))
        ELSE ok
  BY Zenon DEF N!parse, Subject, FormulaOf, Bound
<1>2. \A f, binding : E(f, binding) # {} => N!First(E(f, binding)) # "none"
  BY FirstIsError, Zenon
<1>3. \A e : N!Invalid(e).err = e
  BY DEF N!Invalid
<1>4. ok.err = "none"
  OBVIOUS
<1>5. Accepted(doc) <=> shaped /\ E("where", TRUE) = {} /\ E("deletes", FALSE) = {} /\ E("inserts", FALSE) = {}
  <2>1. \A f : \A binding \in BOOLEAN : E(f, binding) = {} <=>
          \A i \in N!Contents(doc, FormulaOf(doc, f)) : QuadFits(doc[i], binding, b)
    BY NoErrors, Zenon
  <2> HIDE DEF E, b
  <2>2. Accepted(doc) <=>
          /\ shaped
          /\ \A i \in N!Contents(doc, FormulaOf(doc, "where")) : QuadFits(doc[i], TRUE, b)
          /\ \A i \in N!Contents(doc, FormulaOf(doc, "deletes")) : QuadFits(doc[i], FALSE, b)
          /\ \A i \in N!Contents(doc, FormulaOf(doc, "inserts")) : QuadFits(doc[i], FALSE, b)
    BY Zenon DEF Accepted, b
  <2> QED BY <2>1, <2>2
<1> HIDE DEF E, ok
<1>6. "Shape" # "none"
  OBVIOUS
<1>7. CASE shaped /\ E("where", TRUE) = {} /\ E("deletes", FALSE) = {} /\ E("inserts", FALSE) = {}
  <2>1. N!parse(doc) = ok
    BY <1>1, <1>7, Zenon
  <2> QED BY <1>4, <1>5, <1>7, <2>1, Zenon DEF ok
<1>8. CASE ~(shaped /\ E("where", TRUE) = {} /\ E("deletes", FALSE) = {} /\ E("inserts", FALSE) = {})
  <2>1. \E e : e # "none" /\ N!parse(doc) = N!Invalid(e)
    BY <1>1, <1>2, <1>6, <1>8, Zenon
  <2>2. N!parse(doc).err # "none"
    BY <1>3, <2>1, Zenon
  <2> QED BY <1>5, <1>8, <2>2, Zenon
<1> QED BY <1>7, <1>8, Zenon

\* The three formula predicates.
LEMMA FormulaPredicates == DOMAIN N!Predicates = {"where", "deletes", "inserts"}
BY DEF N!Predicates

\* A part, of a document with one patch resource.
LEMMA PartMembers ==
  ASSUME NEW doc, NEW s, N!PatchSubjects(doc) = {s}, NEW f
  PROVE  \A q : q \in N!PartOf(doc, f) <=>
           \E j \in DOMAIN doc : /\ q = doc[j]
                                 /\ \E i \in N!Uses(doc, s, N!Predicates[f]) : doc[i].o = q.g
BY DEF N!PartOf, N!ToSet, N!Uses

\* The objects of a formula predicate are in order iff it is used at most once,
\* with a formula that is there.
LEMMA FormulaOkIff ==
  ASSUME NEW doc, NEW s, N!PatchSubjects(doc) = {s}, NEW f
  PROVE  N!FormulaOk(doc, s, N!Predicates[f]) <=>
           \A i \in N!Uses(doc, s, N!Predicates[f]) :
             /\ N!Uses(doc, s, N!Predicates[f]) = {i}
             /\ doc[i].o.k = "blank" /\ N!PartOf(doc, f) # {}
<1> DEFINE found == N!Uses(doc, s, N!Predicates[f])
<1>1. \A q : q \in N!PartOf(doc, f) <=>
             \E j \in DOMAIN doc : q = doc[j] /\ \E i \in found : doc[i].o = q.g
  BY PartMembers
<1>2. N!FormulaOk(doc, s, N!Predicates[f]) <=>
        found = {} \/ (N!IsOne(found) /\ \A i \in found : N!names_a_formula(doc, doc[i].o))
  BY Zenon DEF N!FormulaOk
<1>3. N!IsOne(found) <=> \E x \in found : found = {x}
  BY Zenon DEF N!IsOne
<1> HIDE DEF found
<1>4. ASSUME NEW i \in found, found = {i}
      PROVE  N!PartOf(doc, f) # {} <=> \E j \in DOMAIN doc : doc[j].g = doc[i].o
  <2>1. \A q : q \in N!PartOf(doc, f) <=> \E j \in DOMAIN doc : q = doc[j] /\ doc[i].o = q.g
    BY <1>1, <1>4
  <2> QED BY <2>1
<1>5. CASE found = {}
  BY <1>2, <1>5, Zenon DEF found
<1>6. CASE found # {}
  <2>1. ASSUME N!FormulaOk(doc, s, N!Predicates[f]), NEW i \in found
        PROVE  found = {i} /\ doc[i].o.k = "blank" /\ N!PartOf(doc, f) # {}
    <3>1. found = {i}
      BY <1>2, <1>3, <1>6, <2>1
    <3>2. N!names_a_formula(doc, doc[i].o)
      BY <1>2, <1>6, <2>1, Zenon
    <3> QED BY <1>4, <3>1, <3>2, Zenon DEF N!names_a_formula
  <2>2. ASSUME \A i \in found : found = {i} /\ doc[i].o.k = "blank" /\ N!PartOf(doc, f) # {}
        PROVE  N!FormulaOk(doc, s, N!Predicates[f])
    <3>1. N!IsOne(found)
      BY <1>3, <1>6, <2>2
    <3>2. ASSUME NEW i \in found PROVE N!names_a_formula(doc, doc[i].o)
      BY <1>4, <2>2, Zenon DEF N!names_a_formula
    <3> QED BY <1>2, <3>1, <3>2, Zenon
  <2> QED BY <2>1, <2>2, Zenon DEF found
<1> QED BY <1>5, <1>6

\* What parse keeps is what the document says, part by part.
LEMMA PartsOfDocument ==
  ASSUME NEW doc \in N!Documents, N!IsOne(N!PatchSubjects(doc)),
         \A f \in DOMAIN N!Predicates : N!FormulaOk(doc, Subject(doc), N!Predicates[f])
  PROVE  /\ \A f \in DOMAIN N!Predicates :
              N!PartOf(doc, f) = {doc[i] : i \in N!Contents(doc, FormulaOf(doc, f))}
         /\ Bound(doc) \in Seq(N!Terms) /\ OneEach(Bound(doc))
         /\ N!ToSet(Bound(doc)) = N!NamesIn(N!PartOf(doc, "where"))
<1>1. PICK s \in N!PatchSubjects(doc) : N!PatchSubjects(doc) = {s}
  BY Zenon DEF N!IsOne
<1>2. Subject(doc) = s
  BY <1>1 DEF Subject
<1>3. \A f \in DOMAIN N!Predicates :
        N!PartOf(doc, f) = {doc[i] : i \in N!Contents(doc, FormulaOf(doc, f))}
  BY <1>1, <1>2, FormulaContents, Zenon DEF FormulaOf
<1>4. /\ Bound(doc) \in Seq(N!Terms) /\ OneEach(Bound(doc))
      /\ N!ToSet(Bound(doc)) = NamesAt(doc, N!Contents(doc, FormulaOf(doc, "where")))
  BY BoundIsNames, Zenon DEF Bound
<1>5. N!PartOf(doc, "where") = {doc[i] : i \in N!Contents(doc, FormulaOf(doc, "where"))}
  BY <1>3, FormulaPredicates
<1>6. ASSUME NEW I, NEW X, X = {doc[i] : i \in I} PROVE NamesAt(doc, I) = N!NamesIn(X)
  BY <1>6 DEF NamesAt, QuadTerms, N!NamesIn, N!TermsOf
<1> QED BY <1>3, <1>4, <1>5, <1>6, Zenon

\* Patch::parse refuses exactly the documents that break the form.
LEMMA ParsesExactly ==
  ASSUME NEW doc \in N!Documents
  PROVE  N!ParseIsExact(doc)
<1> DEFINE part(f) == N!PartOf(doc, f)
           parts == part("where") \cup part("deletes") \cup part("inserts")
           written == part("deletes") \cup part("inserts")
           uses(f) == {i \in DOMAIN doc : /\ doc[i].g = N!DefaultG /\ doc[i].s \in N!PatchSubjects(doc)
                                          /\ doc[i].p = N!Predicates[f]}
           Formed == \A f \in DOMAIN N!Predicates : \A i \in uses(f) :
                       uses(f) = {i} /\ doc[i].o.k = "blank" /\ part(f) # {}
           Terms == \A t \in N!TermsOf(parts) : t.k \notin {"reserved", "dir", "triple"}
           Literals == \A q \in parts : q.s.k # "literal" /\ q.p.k # "literal"
           Names == \A t \in N!NamesIn(written) : t.k = "var" /\ t \in N!NamesIn(part("where"))
<1> SUFFICES Accepted(doc) <=> N!IsOne(N!PatchSubjects(doc)) /\ Formed /\ Terms /\ Literals /\ Names
  <2>1. N!parse(doc).err = "none" <=> Accepted(doc)
    BY ParsedIff, Zenon
  <2> QED BY <2>1 DEF N!ParseIsExact
<1>1. CASE ~N!IsOne(N!PatchSubjects(doc))
  BY <1>1, Zenon DEF Accepted
<1>2. CASE N!IsOne(N!PatchSubjects(doc))
  <2>1. PICK s \in N!PatchSubjects(doc) : N!PatchSubjects(doc) = {s}
    BY <1>2, Zenon DEF N!IsOne
  <2>2. Subject(doc) = s
    BY <2>1 DEF Subject
  <2>3. \A f : uses(f) = N!Uses(doc, s, N!Predicates[f])
    BY <2>1 DEF N!Uses
  <2>4. Formed <=> \A f \in DOMAIN N!Predicates : N!FormulaOk(doc, Subject(doc), N!Predicates[f])
    <3>1. \A f : N!FormulaOk(doc, s, N!Predicates[f]) <=>
             \A i \in N!Uses(doc, s, N!Predicates[f]) :
               /\ N!Uses(doc, s, N!Predicates[f]) = {i}
               /\ doc[i].o.k = "blank" /\ N!PartOf(doc, f) # {}
      BY <2>1, FormulaOkIff, Zenon
    <3> HIDE DEF uses
    <3> QED BY <2>2, <2>3, <3>1, Zenon
  <2> HIDE DEF Formed
  <2>5. CASE ~Formed
    BY <2>4, <2>5, Zenon DEF Accepted
  <2>6. CASE Formed
    <3>1. /\ \A f \in DOMAIN N!Predicates :
               part(f) = {doc[i] : i \in N!Contents(doc, FormulaOf(doc, f))}
          /\ N!ToSet(Bound(doc)) = N!NamesIn(part("where"))
      BY <1>2, <2>4, <2>6, PartsOfDocument, Zenon
    <3>2. /\ part("where") = {doc[i] : i \in N!Contents(doc, FormulaOf(doc, "where"))}
          /\ part("deletes") = {doc[i] : i \in N!Contents(doc, FormulaOf(doc, "deletes"))}
          /\ part("inserts") = {doc[i] : i \in N!Contents(doc, FormulaOf(doc, "inserts"))}
      BY <3>1, FormulaPredicates
    <3> DEFINE w == part("where")
               d == part("deletes")
               a == part("inserts")
               Fits(q) == TermFits(q.s, "s") /\ TermFits(q.p, "p") /\ TermFits(q.o, "o")
               Looked(q) == \A t \in QuadTerms(q) : N!IsName(t) =>
                              t.k = "var" /\ t \in N!NamesIn(part("where"))
    <3>3. Accepted(doc) <=> /\ \A q \in w : Fits(q)
                            /\ \A q \in d : Fits(q) /\ Looked(q)
                            /\ \A q \in a : Fits(q) /\ Looked(q)
      <4>1. \A q : /\ QuadFits(q, TRUE, Bound(doc)) <=> Fits(q)
                   /\ QuadFits(q, FALSE, Bound(doc)) <=> Fits(q) /\ Looked(q)
        BY <3>1 DEF QuadFits
      <4> HIDE DEF Fits, Looked, part
      <4>2. Accepted(doc) <=>
              /\ \A i \in N!Contents(doc, FormulaOf(doc, "where")) : Fits(doc[i])
              /\ \A i \in N!Contents(doc, FormulaOf(doc, "deletes")) : Fits(doc[i]) /\ Looked(doc[i])
              /\ \A i \in N!Contents(doc, FormulaOf(doc, "inserts")) : Fits(doc[i]) /\ Looked(doc[i])
        BY <1>2, <2>4, <2>6, <4>1, Zenon DEF Accepted
      <4> QED BY <3>2, <4>2
    <3>4. Terms /\ Literals <=> \A q \in parts : Fits(q)
      <4> HIDE DEF part
      <4>1. Terms <=> \A q \in parts : \A t \in QuadTerms(q) : t.k \notin {"reserved", "dir", "triple"}
        BY DEF N!TermsOf, QuadTerms
      <4>2. \A q : Fits(q) <=> /\ \A t \in QuadTerms(q) : t.k \notin {"reserved", "dir", "triple"}
                               /\ q.s.k # "literal" /\ q.p.k # "literal"
        BY DEF TermFits, QuadTerms
      <4> HIDE DEF parts, Fits, Terms
      <4> QED BY <4>1, <4>2, Zenon
    <3>5. Names <=> \A q \in written : Looked(q)
      <4> HIDE DEF part
      <4> QED BY DEF N!NamesIn, N!TermsOf, QuadTerms
    <3> HIDE DEF Fits, Looked, Names, Terms, Literals, part
    <3>6. (\A q \in parts : Fits(q)) <=>
            (\A q \in w : Fits(q)) /\ (\A q \in d : Fits(q)) /\ (\A q \in a : Fits(q))
      OBVIOUS
    <3>7. (\A q \in written : Looked(q)) <=> (\A q \in d : Looked(q)) /\ (\A q \in a : Looked(q))
      OBVIOUS
    <3> HIDE DEF parts, written, w, d, a
    <3> QED BY <1>2, <2>6, <3>3, <3>4, <3>5, <3>6, <3>7, Zenon
  <2> QED BY <2>5, <2>6
<1> QED BY <1>1, <1>2

\* A solution and a mapping say the same: what the one has at a name's index the
\* other has at the name.
Agree(bound, b, m) == \A i \in DOMAIN bound : m[bound[i]] = b[i - 1]

\* A term is read alike by its index and by its name.
LEMMA GroundIsRead ==
  ASSUME NEW bound \in Seq(N!Terms), OneEach(bound), NEW b, NEW m, Agree(bound, b, m),
         NEW t \in N!Terms, N!IsName(t) => t \in N!ToSet(bound)
  PROVE  N!GroundTerm(N!PatternTerm(t, bound), b) = N!ReadAs(t, m)
<1>1. CASE N!IsName(t)
  <2>1. PICK j \in DOMAIN bound : bound[j] = t
    BY <1>1 DEF N!ToSet
  <2>2. {i \in DOMAIN bound : bound[i] = t} = {j}
    BY <2>1 DEF OneEach
  <2>3. N!lookup(bound, t) = j - 1
    <3>1. (CHOOSE i \in {j} : TRUE) = j
      OBVIOUS
    <3> QED BY <2>2, <3>1 DEF N!lookup, N!Key
  <2>4. N!GroundTerm(N!PatternTerm(t, bound), b) = b[j - 1]
    BY <1>1, <2>3 DEF N!GroundTerm, N!PatternTerm
  <2>5. N!ReadAs(t, m) = m[t]
    BY <1>1 DEF N!ReadAs
  <2> QED BY <2>1, <2>4, <2>5, Zenon DEF Agree
<1>2. CASE ~N!IsName(t)
  <2>1. t = N!T(t.k, t.n)
    BY DEF N!Terms, N!T
  <2>2. t.k # "var"
    BY <1>2 DEF N!IsName
  <2>3. N!GroundTerm(N!PatternTerm(t, bound), b) = N!T(t.k, t.n)
    BY <1>2, <2>2 DEF N!GroundTerm, N!PatternTerm
  <2> QED BY <1>2, <2>1, <2>3, Zenon DEF N!ReadAs
<1> QED BY <1>1, <1>2

\* The quads of a formula.
QuadsAt(doc, f) == {doc[i] : i \in N!Contents(doc, f)}

\* A pattern's term can be sent iff what its name stands for can.
LEMMA RenderedIsRead ==
  ASSUME NEW bound \in Seq(N!Terms), OneEach(bound), NEW b, NEW m, Agree(bound, b, m),
         NEW t \in N!Terms, N!IsName(t) => t \in N!ToSet(bound)
  PROVE  N!Rendered(N!PatternTerm(t, bound), b) <=> (N!IsName(t) => N!render_bound(m[t]))
<1> DEFINE pt == N!PatternTerm(t, bound)
<1>1. CASE N!IsName(t)
  <2>1. pt.k = "var"
    BY <1>1 DEF N!PatternTerm
  <2>2. N!GroundTerm(pt, b) = N!ReadAs(t, m)
    BY GroundIsRead, Zenon
  <2> HIDE DEF pt
  <2>3. b[pt.i] = m[t]
    BY <1>1, <2>1, <2>2, Zenon DEF N!GroundTerm, N!ReadAs
  <2> QED BY <1>1, <2>1, <2>3, Zenon DEF N!Rendered, pt
<1>2. CASE ~N!IsName(t)
  <2>1. pt.k # "var"
    BY <1>2 DEF N!PatternTerm, N!IsName
  <2> HIDE DEF pt
  <2> QED BY <1>2, <2>1, Zenon DEF N!Rendered, pt
<1> QED BY <1>1, <1>2

\* Every name of some quads stands for a term that can be sent.
Sayable(quads, m) == \A t \in N!NamesIn(quads) : N!render_bound(m[t])

\* Patterns are substituted as their quads are read, and can be sent iff all that
\* their names stand for can.
LEMMA SubstituteIsRead ==
  ASSUME NEW bound \in Seq(N!Terms), OneEach(bound), NEW b, NEW m, Agree(bound, b, m),
         NEW doc \in N!Documents, NEW f, N!NamesIn(QuadsAt(doc, f)) \subseteq N!ToSet(bound)
  PROVE  /\ N!Instances(N!PatternsOf(doc, f, bound), b) = N!ReadQuads(QuadsAt(doc, f), m)
         /\ N!substitute(N!PatternsOf(doc, f, bound), b).ok <=> Sayable(QuadsAt(doc, f), m)
<1> DEFINE X == QuadsAt(doc, f)
           I == N!Contents(doc, f)
           r(q) == [s |-> N!ReadAs(q.s, m), p |-> N!ReadAs(q.p, m), o |-> N!ReadAs(q.o, m)]
<1>1. I \subseteq DOMAIN doc
  BY DEF N!Contents
<1>2. \A i \in I : N!GroundTriple(N!Pattern(doc[i], bound), b) = r(doc[i])
  <2> SUFFICES ASSUME NEW i \in I PROVE N!GroundTriple(N!Pattern(doc[i], bound), b) = r(doc[i])
    OBVIOUS
  <2>1. doc[i].s \in N!Terms /\ doc[i].p \in N!Terms /\ doc[i].o \in N!Terms
    BY <1>1, DocumentParts
  <2>2. \A t \in QuadTerms(doc[i]) : N!IsName(t) => t \in N!ToSet(bound)
    BY DEF N!NamesIn, N!TermsOf, QuadTerms, QuadsAt
  <2>3. /\ N!GroundTerm(N!PatternTerm(doc[i].s, bound), b) = N!ReadAs(doc[i].s, m)
        /\ N!GroundTerm(N!PatternTerm(doc[i].p, bound), b) = N!ReadAs(doc[i].p, m)
        /\ N!GroundTerm(N!PatternTerm(doc[i].o, bound), b) = N!ReadAs(doc[i].o, m)
    <3>1. doc[i].s \in QuadTerms(doc[i]) /\ doc[i].p \in QuadTerms(doc[i]) /\ doc[i].o \in QuadTerms(doc[i])
      BY DEF QuadTerms
    <3> QED BY <2>1, <2>2, <3>1, GroundIsRead, Zenon
  <2> QED BY <2>3 DEF N!GroundTriple, N!Pattern
<1>3. N!Instances(N!PatternsOf(doc, f, bound), b) = {N!GroundTriple(N!Pattern(doc[i], bound), b) : i \in I}
  BY DEF N!Instances, N!PatternsOf
<1>4. N!ReadQuads(X, m) = {r(doc[i]) : i \in I}
  BY DEF N!ReadQuads, QuadsAt
<1>5. N!Instances(N!PatternsOf(doc, f, bound), b) = N!ReadQuads(X, m)
  <2> HIDE DEF I, r
  <2> QED BY <1>2, <1>3, <1>4
<1> DEFINE Sent(t) == N!Rendered(N!PatternTerm(t, bound), b)
           Said(t) == N!IsName(t) => N!render_bound(m[t])
<1>6. \A i \in I : \A t \in QuadTerms(doc[i]) : Sent(t) <=> Said(t)
  <2> SUFFICES ASSUME NEW i \in I, NEW t \in QuadTerms(doc[i]) PROVE Sent(t) <=> Said(t)
    BY Zenon
  <2>1. t \in N!Terms
    <3>1. doc[i].s \in N!Terms /\ doc[i].p \in N!Terms /\ doc[i].o \in N!Terms
      BY <1>1, DocumentParts
    <3> QED BY <3>1 DEF QuadTerms
  <2>2. N!IsName(t) => t \in N!ToSet(bound)
    BY DEF N!NamesIn, N!TermsOf, QuadTerms, QuadsAt
  <2> QED BY <2>1, <2>2, RenderedIsRead, Zenon
<1>7. N!substitute(N!PatternsOf(doc, f, bound), b).ok <=>
        \A i \in I : \A t \in QuadTerms(doc[i]) : Sent(t)
  <2> DEFINE P0 == N!PatternsOf(doc, f, bound)
             Fine(p) == N!Rendered(p.s, b) /\ N!Rendered(p.p, b) /\ N!Rendered(p.o, b)
  <2>1. N!substitute(P0, b).ok <=> \A p \in P0 : Fine(p)
    BY DEF N!substitute
  <2>2. P0 = {N!Pattern(doc[i], bound) : i \in I}
    BY Zenon DEF N!PatternsOf
  <2>3. ASSUME NEW i \in I
        PROVE  Fine(N!Pattern(doc[i], bound)) <=> \A t \in QuadTerms(doc[i]) : Sent(t)
    <3>1. /\ N!Pattern(doc[i], bound).s = N!PatternTerm(doc[i].s, bound)
          /\ N!Pattern(doc[i], bound).p = N!PatternTerm(doc[i].p, bound)
          /\ N!Pattern(doc[i], bound).o = N!PatternTerm(doc[i].o, bound)
      BY DEF N!Pattern
    <3>2. \A t : t \in QuadTerms(doc[i]) <=> t = doc[i].s \/ t = doc[i].p \/ t = doc[i].o
      BY DEF QuadTerms
    <3> QED BY <3>1, <3>2, Zenon
  <2> HIDE DEF P0, Fine, I, Sent
  <2>4. (\A p \in P0 : Fine(p)) <=> \A i \in I : Fine(N!Pattern(doc[i], bound))
    BY <2>2, Zenon
  <2> QED BY <2>1, <2>3, <2>4, Zenon DEF P0
<1>8. Sayable(X, m) <=> \A i \in I : \A t \in QuadTerms(doc[i]) : Said(t)
  <2>1. \A t : t \in N!NamesIn(X) <=> N!IsName(t) /\ \E i \in I : t \in QuadTerms(doc[i])
    BY DEF N!NamesIn, N!TermsOf, QuadTerms, QuadsAt
  <2> HIDE DEF I, X
  <2> QED BY <2>1, Zenon DEF Sayable
<1> HIDE DEF Sent, Said, I
<1> QED BY <1>5, <1>6, <1>7, <1>8, Zenon

\* What an accepted document's patch does to a graph, in the client's own names,
\* part by part.
LEMMA PatchParts ==
  ASSUME NEW doc \in N!Documents, N!parse(doc).err = "none"
  PROVE  LET patch == N!parse(doc)
             bound == Bound(doc)
         IN /\ bound \in Seq(N!Terms) /\ OneEach(bound)
            /\ N!ToSet(bound) = N!NamesIn(N!PartOf(doc, "where"))
            /\ patch.variables = Len(bound)
            /\ patch.conditions = {} <=> N!PartOf(doc, "where") = {}
            /\ N!NamesIn(N!PartOf(doc, "deletes")) \subseteq N!ToSet(bound)
            /\ N!NamesIn(N!PartOf(doc, "inserts")) \subseteq N!ToSet(bound)
            /\ \A b, m : Agree(bound, b, m) =>
                 /\ N!Instances(patch.conditions, b) = N!ReadQuads(N!PartOf(doc, "where"), m)
                 /\ N!Instances(patch.deletions, b) = N!ReadQuads(N!PartOf(doc, "deletes"), m)
                 /\ N!Instances(patch.insertions, b) = N!ReadQuads(N!PartOf(doc, "inserts"), m)
                 /\ N!substitute(patch.deletions, b).ok <=> Sayable(N!PartOf(doc, "deletes"), m)
                 /\ N!substitute(patch.insertions, b).ok <=> Sayable(N!PartOf(doc, "inserts"), m)
<1> DEFINE bound == Bound(doc)
           patch == N!parse(doc)
           C0(f) == N!Contents(doc, FormulaOf(doc, f))
<1>1. Accepted(doc)
  BY ParsedIff, Zenon
<1>2. patch = [err |-> "none",
               conditions |-> N!PatternsOf(doc, FormulaOf(doc, "where"), bound),
               deletions |-> N!PatternsOf(doc, FormulaOf(doc, "deletes"), bound),
               insertions |-> N!PatternsOf(doc, FormulaOf(doc, "inserts"), bound),
               variables |-> Len(bound)]
  BY ParsedIff, Zenon
<1>3. /\ patch.conditions = N!PatternsOf(doc, FormulaOf(doc, "where"), bound)
      /\ patch.deletions = N!PatternsOf(doc, FormulaOf(doc, "deletes"), bound)
      /\ patch.insertions = N!PatternsOf(doc, FormulaOf(doc, "inserts"), bound)
      /\ patch.variables = Len(bound)
  <2> HIDE DEF patch, bound
  <2> QED BY <1>2
<1>4. /\ \A f \in DOMAIN N!Predicates : N!PartOf(doc, f) = {doc[i] : i \in C0(f)}
      /\ bound \in Seq(N!Terms) /\ OneEach(bound)
      /\ N!ToSet(bound) = N!NamesIn(N!PartOf(doc, "where"))
  BY <1>1, PartsOfDocument, Zenon DEF Accepted
<1>5. /\ N!PartOf(doc, "where") = {doc[i] : i \in C0("where")}
      /\ N!PartOf(doc, "deletes") = {doc[i] : i \in C0("deletes")}
      /\ N!PartOf(doc, "inserts") = {doc[i] : i \in C0("inserts")}
  BY <1>4, FormulaPredicates
<1>6. \A f \in {"deletes", "inserts"} : \A i \in C0(f) : \A t \in QuadTerms(doc[i]) :
        N!IsName(t) => t \in N!ToSet(bound)
  <2>1. \A f \in {"deletes", "inserts"} : \A i \in C0(f) : QuadFits(doc[i], FALSE, bound)
    BY <1>1, Zenon DEF Accepted
  <2> HIDE DEF bound, C0
  <2> QED BY <2>1 DEF QuadFits
<1> HIDE DEF bound, patch
<1>7. /\ N!NamesIn(N!PartOf(doc, "where")) \subseteq N!ToSet(bound)
      /\ N!NamesIn(N!PartOf(doc, "deletes")) \subseteq N!ToSet(bound)
      /\ N!NamesIn(N!PartOf(doc, "inserts")) \subseteq N!ToSet(bound)
  <2>1. ASSUME NEW f \in {"deletes", "inserts"}, NEW X, X = {doc[i] : i \in C0(f)}
        PROVE  N!NamesIn(X) \subseteq N!ToSet(bound)
    <3> DEFINE I == C0(f)
    <3>1. \A i \in I : \A t \in QuadTerms(doc[i]) : N!IsName(t) => t \in N!ToSet(bound)
      BY <1>6, Zenon
    <3> HIDE DEF I
    <3> QED BY <2>1, <3>1 DEF N!NamesIn, N!TermsOf, QuadTerms, I
  <2>2. "deletes" \in {"deletes", "inserts"} /\ "inserts" \in {"deletes", "inserts"}
    OBVIOUS
  <2> QED BY <1>4, <1>5, <2>1, <2>2, Zenon
<1>8. patch.conditions = {} <=> N!PartOf(doc, "where") = {}
  BY <1>3, <1>5 DEF N!PatternsOf
<1>9. ASSUME NEW b, NEW m, Agree(bound, b, m)
      PROVE  /\ N!Instances(patch.conditions, b) = N!ReadQuads(N!PartOf(doc, "where"), m)
             /\ N!Instances(patch.deletions, b) = N!ReadQuads(N!PartOf(doc, "deletes"), m)
             /\ N!Instances(patch.insertions, b) = N!ReadQuads(N!PartOf(doc, "inserts"), m)
             /\ N!substitute(patch.deletions, b).ok <=> Sayable(N!PartOf(doc, "deletes"), m)
             /\ N!substitute(patch.insertions, b).ok <=> Sayable(N!PartOf(doc, "inserts"), m)
  <2>1. bound \in Seq(N!Terms) /\ OneEach(bound)
    BY <1>4, Zenon
  <2>2. ASSUME NEW f, N!NamesIn(QuadsAt(doc, FormulaOf(doc, f))) \subseteq N!ToSet(bound)
        PROVE  /\ N!Instances(N!PatternsOf(doc, FormulaOf(doc, f), bound), b)
                    = N!ReadQuads(QuadsAt(doc, FormulaOf(doc, f)), m)
               /\ N!substitute(N!PatternsOf(doc, FormulaOf(doc, f), bound), b).ok
                    <=> Sayable(QuadsAt(doc, FormulaOf(doc, f)), m)
    BY <1>9, <2>1, <2>2, SubstituteIsRead, SMT
  <2>3. /\ N!PartOf(doc, "where") = QuadsAt(doc, FormulaOf(doc, "where"))
        /\ N!PartOf(doc, "deletes") = QuadsAt(doc, FormulaOf(doc, "deletes"))
        /\ N!PartOf(doc, "inserts") = QuadsAt(doc, FormulaOf(doc, "inserts"))
    BY <1>5, Zenon DEF QuadsAt
  <2> QED BY <1>3, <1>7, <2>2, <2>3, Zenon
<1> QED BY <1>3, <1>4, <1>7, <1>8, <1>9, Zenon DEF bound, patch

\* A patch without conditions has no name to stand for anything: it can be sent,
\* and its insertions are what they are.
LEMMA NothingBound ==
  ASSUME NEW doc \in N!Documents, N!parse(doc).err = "none", N!parse(doc).conditions = {}, NEW b
  PROVE  /\ N!substitute(N!parse(doc).deletions, b).ok
         /\ N!substitute(N!parse(doc).insertions, b).ok
         /\ N!Instances(N!parse(doc).insertions, b) = N!Instances(N!parse(doc).insertions, <<>>)
<1> DEFINE patch == N!parse(doc)
           bound == Bound(doc)
<1>1. /\ bound \in Seq(N!Terms)
      /\ N!ToSet(bound) = N!NamesIn(N!PartOf(doc, "where"))
      /\ N!PartOf(doc, "where") = {}
      /\ N!NamesIn(N!PartOf(doc, "deletes")) \subseteq N!ToSet(bound)
      /\ N!NamesIn(N!PartOf(doc, "inserts")) \subseteq N!ToSet(bound)
      /\ \A x, m : Agree(bound, x, m) =>
           /\ N!Instances(patch.insertions, x) = N!ReadQuads(N!PartOf(doc, "inserts"), m)
           /\ N!substitute(patch.deletions, x).ok <=> Sayable(N!PartOf(doc, "deletes"), m)
           /\ N!substitute(patch.insertions, x).ok <=> Sayable(N!PartOf(doc, "inserts"), m)
  BY PatchParts, Zenon
<1> HIDE DEF patch, bound
<1>2. N!ToSet(bound) = {}
  BY <1>1 DEF N!NamesIn, N!TermsOf
<1>3. DOMAIN bound = {}
  BY <1>2 DEF N!ToSet
<1>4. \A x, m : Agree(bound, x, m)
  BY <1>3, Zenon DEF Agree
<1>5. \A m : Sayable(N!PartOf(doc, "deletes"), m) /\ Sayable(N!PartOf(doc, "inserts"), m)
  BY <1>1, <1>2, Zenon DEF Sayable
<1> QED BY <1>1, <1>4, <1>5, Zenon DEF patch

\* Whoever lacks a mode neither learns nor does what it stands for.
LEMMA ModesAreNeeded ==
  ASSUME NEW doc \in N!Documents, NEW graph, NEW held
  PROVE  N!NeedsWhatItDoes(doc, graph, held)
<1> DEFINE patch == N!parse(doc)
           modes == N!required_modes(patch)
           Binding(g) == CHOOSE b \in N!Solutions(patch, g) : TRUE
           D(g) == N!Instances(patch.deletions, Binding(g))
           I(g) == N!Instances(patch.insertions, Binding(g))
           done(g) == N!patch_guarded(patch, g)
<1> SUFFICES ASSUME patch.err = "none", N!satisfied_by(modes, held)
             PROVE  /\ "Read" \notin held => done(graph).result = done({}).result
                    /\ {"Append", "Write"} \cap held = {} => done(graph).graph \subseteq graph
                    /\ "Write" \notin held => graph \subseteq done(graph).graph
  BY Zenon DEF N!NeedsWhatItDoes
<1>1. /\ "Read" \notin held => patch.conditions = {} /\ patch.deletions = {}
      /\ {"Append", "Write"} \cap held = {} => patch.insertions = {}
      /\ "Write" \notin held => patch.deletions = {}
  <2> HIDE DEF patch
  <2>1. \A m \in modes : m \in held \/ (m = "Append" /\ "Write" \in held)
    BY DEF N!satisfied_by
  <2> QED BY <2>1 DEF N!required_modes
<1>2. ASSUME NEW g
      PROVE  /\ done(g).graph = g \/ done(g).graph = (g \ D(g)) \cup I(g)
             /\ patch.conditions = {} /\ D(g) \subseteq g => done(g).result = "Applied"
  <2>1. done(g).graph = g \/ done(g).graph = (g \ D(g)) \cup I(g)
    BY Substituted DEF N!patch_guarded
  <2>2. ASSUME patch.conditions = {}, D(g) \subseteq g PROVE done(g).result = "Applied"
    <3>1. N!substitute(patch.deletions, Binding(g)).ok /\ N!substitute(patch.insertions, Binding(g)).ok
      BY <2>2, NothingBound, Zenon
    <3> QED BY <2>2, <3>1, Substituted DEF N!patch_guarded
  <2> QED BY <2>1, <2>2
<1>3. ASSUME NEW b PROVE N!Instances({}, b) = {}
  BY DEF N!Instances
<1> HIDE DEF done, patch
<1>4. "Read" \notin held => done(graph).result = done({}).result
  <2> SUFFICES ASSUME "Read" \notin held PROVE done(graph).result = done({}).result
    OBVIOUS
  <2>1. D(graph) = {} /\ D({}) = {} /\ patch.conditions = {}
    BY <1>1, <1>3, Zenon
  <2>2. D(graph) \subseteq graph /\ D({}) \subseteq {}
    BY <2>1, Zenon
  <2> HIDE DEF D, I
  <2>3. done(graph).result = "Applied" /\ done({}).result = "Applied"
    BY <1>2, <2>1, <2>2, Zenon
  <2> QED BY <2>3
<1>5. {"Append", "Write"} \cap held = {} => done(graph).graph \subseteq graph
  <2> SUFFICES ASSUME {"Append", "Write"} \cap held = {} PROVE done(graph).graph \subseteq graph
    OBVIOUS
  <2>1. I(graph) = {}
    BY <1>1, <1>3, Zenon
  <2> HIDE DEF D, I
  <2> QED BY <1>2, <2>1
<1>6. "Write" \notin held => graph \subseteq done(graph).graph
  <2> SUFFICES ASSUME "Write" \notin held PROVE graph \subseteq done(graph).graph
    OBVIOUS
  <2>1. D(graph) = {}
    BY <1>1, <1>3, Zenon
  <2> HIDE DEF D, I
  <2> QED BY <1>2, <2>1
<1> QED BY <1>4, <1>5, <1>6

\* Creating a resource by a patch is patching an empty one.
LEMMA CreatesFromEmpty ==
  ASSUME NEW doc \in N!Documents
  PROVE  N!CreatesAsFromEmpty(doc)
<1> DEFINE patch == N!parse(doc)
           sols == N!Solutions(patch, {})
           b == CHOOSE x \in sols : TRUE
           D == N!Instances(patch.deletions, b)
           A0 == N!Instances(patch.insertions, b)
<1> SUFFICES ASSUME patch.err = "none"
             PROVE  N!create_by_patch(patch) = N!patch_guarded(patch, {})
  BY Zenon DEF N!CreatesAsFromEmpty
<1>1. \A X, x : X # {} => N!Instances(X, x) # {}
  BY DEF N!Instances
<1>2. \A x : N!Instances({}, x) = {}
  BY DEF N!Instances
<1>3. CASE patch.conditions # {}
  <2>1. sols = {}
    <3>1. \A x \in sols : N!Instances(patch.conditions, x) \subseteq {}
      BY Zenon DEF N!Solutions
    <3> HIDE DEF patch, sols
    <3> QED BY <1>1, <1>3, <3>1
  <2>2. N!patch_guarded(patch, {}) = [result |-> "NoMapping", graph |-> {}]
    <3> HIDE DEF patch
    <3> QED BY <1>3, <2>1 DEF N!patch_guarded, N!CountMappings
  <2>3. N!create_by_patch(patch) = [result |-> "NoMapping", graph |-> {}]
    BY <1>3 DEF N!create_by_patch, N!ground_insertions_ok
  <2> QED BY <2>2, <2>3, Zenon
<1>4. CASE patch.conditions = {}
  <2>1. N!substitute(patch.deletions, b).ok /\ N!substitute(patch.insertions, b).ok
    BY <1>4, NothingBound, Zenon
  <2>2. N!substitute(patch.deletions, b).triples = D /\ N!substitute(patch.insertions, b).triples = A0
    BY Substituted, Zenon
  <2>3. A0 = N!Instances(patch.insertions, <<>>)
    BY <1>4, NothingBound, Zenon
  <2>4. N!patch_guarded(patch, {}) =
          IF D \subseteq {} THEN [result |-> "Applied", graph |-> ({} \ D) \cup A0]
          ELSE [result |-> "DeletionMissing", graph |-> {}]
    <3> HIDE DEF patch, D, A0
    <3> QED BY <1>4, <2>1, <2>2 DEF N!patch_guarded, b, sols
  <2>5. N!create_by_patch(patch) =
          IF patch.deletions # {} THEN [result |-> "DeletionMissing", graph |-> {}]
          ELSE [result |-> "Applied", graph |-> N!Instances(patch.insertions, <<>>)]
    BY <1>4, Zenon DEF N!create_by_patch, N!ground_insertions_ok
  <2>6. D = {} <=> patch.deletions = {}
    BY <1>1, <1>2, Zenon
  <2>7. D \subseteq {} <=> D = {}
    <3> HIDE DEF D
    <3> QED OBVIOUS
  <2>8. ({} \ D) \cup A0 = A0
    <3> HIDE DEF D, A0
    <3> QED OBVIOUS
  <2> HIDE DEF D, A0
  <2> QED BY <2>3, <2>4, <2>5, <2>6, <2>7, <2>8
<1> QED BY <1>3, <1>4

\* Solutions by index and mappings by name, of any terms, are one to one.
LEMMA SolutionsByName ==
  ASSUME NEW bound \in Seq(N!Terms), OneEach(bound), NEW S
  PROVE  LET B == [0..(Len(bound) - 1) -> S]
             M == [N!ToSet(bound) -> S]
         IN /\ \A b \in B : \E m \in M : Agree(bound, b, m)
            /\ \A m \in M : \E b \in B : Agree(bound, b, m)
            /\ \A b \in B : \A m, k \in M : Agree(bound, b, m) /\ Agree(bound, b, k) => m = k
            /\ \A m \in M : \A b, c \in B : Agree(bound, b, m) /\ Agree(bound, c, m) => b = c
<1> DEFINE n == Len(bound)
           names == N!ToSet(bound)
           B == [0..(n - 1) -> S]
           M == [names -> S]
           At(t) == CHOOSE i \in 1..n : bound[i] = t
<1>1. n \in Nat /\ DOMAIN bound = 1..n
  BY DEF N!Terms
<1>2. \A t : t \in names <=> \E i \in 1..n : bound[i] = t
  BY <1>1 DEF N!ToSet
<1>3. \A i \in 1..n : i - 1 \in 0..(n - 1)
  BY <1>1
<1>4. \A i \in 0..(n - 1) : i + 1 \in 1..n /\ (i + 1) - 1 = i
  BY <1>1
<1>5. \A b, m : Agree(bound, b, m) <=> \A i \in 1..n : m[bound[i]] = b[i - 1]
  BY <1>1, Zenon DEF Agree
<1>6. \A i, j \in 1..n : bound[i] = bound[j] => i = j
  BY <1>1, Zenon DEF OneEach
<1>7. \A i \in 1..n : At(bound[i]) = i
  BY <1>6
<1>8. \A t \in names : At(t) \in 1..n
  BY <1>2
<1> HIDE DEF n, names, At
<1>9. ASSUME NEW b \in B PROVE \E m \in M : Agree(bound, b, m)
  <2> DEFINE m == [t \in names |-> b[At(t) - 1]]
  <2>1. m \in M
    BY <1>3, <1>8
  <2>2. \A i \in 1..n : m[bound[i]] = b[i - 1]
    BY <1>2, <1>7
  <2> HIDE DEF m
  <2> QED BY <1>5, <2>1, <2>2, Zenon
<1>10. ASSUME NEW m \in M PROVE \E b \in B : Agree(bound, b, m)
  <2> DEFINE b == [i \in 0..(n - 1) |-> m[bound[i + 1]]]
  <2>1. b \in B
    BY <1>2, <1>4
  <2>2. \A i \in 1..n : b[i - 1] = m[bound[i]]
    <3>1. \A i \in 1..n : (i - 1) + 1 = i
      BY <1>1
    <3> QED BY <1>3, <3>1
  <2> HIDE DEF b
  <2> QED BY <1>5, <2>1, <2>2, Zenon
<1>11. ASSUME NEW b \in B, NEW m \in M, NEW k \in M, Agree(bound, b, m), Agree(bound, b, k)
       PROVE  m = k
  <2>1. \A t \in names : m[t] = k[t]
    <3> SUFFICES ASSUME NEW t \in names PROVE m[t] = k[t]
      OBVIOUS
    <3>1. PICK i \in 1..n : bound[i] = t
      BY <1>2, Zenon
    <3>2. m[bound[i]] = b[i - 1]
      BY <1>5, <1>11, Zenon
    <3>3. k[bound[i]] = b[i - 1]
      BY <1>5, <1>11, Zenon
    <3> QED BY <3>1, <3>2, <3>3, Zenon
  <2> QED BY <2>1
<1>12. ASSUME NEW m \in M, NEW b \in B, NEW c \in B, Agree(bound, b, m), Agree(bound, c, m)
       PROVE  b = c
  <2>1. \A i \in 0..(n - 1) : b[i] = c[i]
    <3> SUFFICES ASSUME NEW i \in 0..(n - 1) PROVE b[i] = c[i]
      OBVIOUS
    <3>1. b[(i + 1) - 1] = c[(i + 1) - 1]
      <4>1. i + 1 \in 1..n
        BY <1>4, Zenon
      <4>2. m[bound[i + 1]] = b[(i + 1) - 1]
        BY <1>5, <1>12, <4>1, Zenon
      <4>3. m[bound[i + 1]] = c[(i + 1) - 1]
        BY <1>5, <1>12, <4>1, Zenon
      <4> QED BY <4>2, <4>3, Zenon
    <3> QED BY <1>4, <3>1
  <2>2. b = [i \in 0..(n - 1) |-> b[i]] /\ c = [i \in 0..(n - 1) |-> c[i]]
    OBVIOUS
  <2>3. [i \in 0..(n - 1) |-> b[i]] = [i \in 0..(n - 1) |-> c[i]]
    BY <2>1, Zenon
  <2> QED BY <2>2, <2>3, Zenon
<1> QED BY <1>9, <1>10, <1>11, <1>12, Zenon DEF n, names

\* Solutions and mappings in correspondence are one or not together.
LEMMA OneTogether ==
  ASSUME NEW bound, NEW X, NEW Y,
         \A x \in X : \E y \in Y : Agree(bound, x, y),
         \A y \in Y : \E x \in X : Agree(bound, x, y),
         \A x \in X : \A y, z \in Y : Agree(bound, x, y) /\ Agree(bound, x, z) => y = z,
         \A y \in Y : \A x, z \in X : Agree(bound, x, y) /\ Agree(bound, z, y) => x = z
  PROVE  N!IsOne(X) <=> N!IsOne(Y)
<1>1. ASSUME NEW x \in X, X = {x} PROVE N!IsOne(Y)
  <2>1. PICK y \in Y : Agree(bound, x, y)
    BY Zenon
  <2>2. \A z \in Y : z = y
    BY <1>1, <2>1
  <2> QED BY <2>2 DEF N!IsOne
<1>2. ASSUME NEW y \in Y, Y = {y} PROVE N!IsOne(X)
  <2>1. PICK x \in X : Agree(bound, x, y)
    BY Zenon
  <2>2. \A z \in X : z = x
    BY <1>2, <2>1
  <2> QED BY <2>2 DEF N!IsOne
<1> QED BY <1>1, <1>2, Zenon DEF N!IsOne

\* A patch does what its document says of the client's own names.
LEMMA AppliedAsWritten ==
  ASSUME NEW doc \in N!Documents, NEW graph \in SUBSET N!StoredTriples
  PROVE  N!AppliesAsWritten(doc, graph)
<1> DEFINE patch == N!parse(doc)
           bound == Bound(doc)
           S == N!StoredTerms(graph)
           W0 == N!PartOf(doc, "where")
           B == [0..(Len(bound) - 1) -> S]
           M == [N!ToSet(bound) -> S]
           sols == N!Solutions(patch, graph)
           maps == N!Mappings(doc, graph)
           b == CHOOSE x \in sols : TRUE
           m == CHOOSE x \in maps : TRUE
           D(x) == N!Instances(patch.deletions, x)
           I(x) == N!Instances(patch.insertions, x)
           Ok(x) == N!substitute(patch.deletions, x).ok /\ N!substitute(patch.insertions, x).ok
           QD == N!PartOf(doc, "deletes")
           QI == N!PartOf(doc, "inserts")
           RD == N!ReadQuads(QD, m)
           RI == N!ReadQuads(QI, m)
           sayable == \A t \in N!NamesIn(QD \cup QI) : m[t].k # "triple"
           matched == W0 = {} \/ N!IsOne(maps)
           done == N!patch_guarded(patch, graph)
<1> SUFFICES ASSUME patch.err = "none"
             PROVE  IF matched /\ sayable /\ RD \subseteq graph
                    THEN done = [result |-> "Applied", graph |-> (graph \ RD) \cup RI]
                    ELSE done.result # "Applied" /\ done.graph = graph
  BY Zenon DEF N!AppliesAsWritten
<1>1. /\ bound \in Seq(N!Terms) /\ OneEach(bound)
      /\ N!ToSet(bound) = N!NamesIn(W0)
      /\ patch.variables = Len(bound)
      /\ patch.conditions = {} <=> W0 = {}
      /\ N!NamesIn(QD) \subseteq N!ToSet(bound) /\ N!NamesIn(QI) \subseteq N!ToSet(bound)
      /\ \A x, y : Agree(bound, x, y) =>
           /\ N!Instances(patch.conditions, x) = N!ReadQuads(W0, y)
           /\ D(x) = N!ReadQuads(QD, y) /\ I(x) = N!ReadQuads(QI, y)
           /\ Ok(x) <=> Sayable(QD, y) /\ Sayable(QI, y)
  BY PatchParts, Zenon
<1>2. sols = {x \in B : N!Instances(patch.conditions, x) \subseteq graph}
  BY <1>1, Zenon DEF N!Solutions
<1>3. maps = {y \in M : N!ReadQuads(W0, y) \subseteq graph}
  BY <1>1, Zenon DEF N!Mappings
<1>4. /\ \A x \in B : \E y \in M : Agree(bound, x, y)
      /\ \A y \in M : \E x \in B : Agree(bound, x, y)
      /\ \A x \in B : \A y, z \in M : Agree(bound, x, y) /\ Agree(bound, x, z) => y = z
      /\ \A y \in M : \A x, z \in B : Agree(bound, x, y) /\ Agree(bound, z, y) => x = z
  BY <1>1, SolutionsByName, Zenon
<1> HIDE DEF patch, bound, S, W0, QD, QI, B, M, sols, maps, Ok
<1>5. \A x, y : Agree(bound, x, y) /\ x \in B /\ y \in M => (x \in sols <=> y \in maps)
  BY <1>1, <1>2, <1>3, Zenon
<1>6. /\ \A x \in sols : \E y \in maps : Agree(bound, x, y)
      /\ \A y \in maps : \E x \in sols : Agree(bound, x, y)
      /\ \A x \in sols : \A y, z \in maps : Agree(bound, x, y) /\ Agree(bound, x, z) => y = z
      /\ \A y \in maps : \A x, z \in sols : Agree(bound, x, y) /\ Agree(bound, z, y) => x = z
  <2>1. sols \subseteq B /\ maps \subseteq M
    BY <1>2, <1>3, Zenon
  <2> QED BY <1>4, <1>5, <2>1, Zenon
<1>7. N!IsOne(sols) <=> N!IsOne(maps)
  BY <1>6, OneTogether, Zenon
<1>8. matched <=> patch.conditions = {} \/ N!IsOne(sols)
  BY <1>1, <1>7, Zenon
<1>9. \A y : (\A t \in N!NamesIn(QD \cup QI) : N!render_bound(y[t]))
                <=> Sayable(QD, y) /\ Sayable(QI, y)
  <2>1. \A t : t \in N!NamesIn(QD \cup QI) <=> t \in N!NamesIn(QD) \/ t \in N!NamesIn(QI)
    BY DEF N!NamesIn, N!TermsOf
  <2> QED BY <2>1, Zenon DEF Sayable
<1>10. \A y \in maps : \A t \in N!NamesIn(QD \cup QI) :
         N!render_bound(y[t]) <=> y[t].k # "triple"
  <2> SUFFICES ASSUME NEW y \in maps, NEW t \in N!NamesIn(QD \cup QI)
               PROVE  N!render_bound(y[t]) <=> y[t].k # "triple"
    BY Zenon
  <2>1. t \in N!NamesIn(QD) \/ t \in N!NamesIn(QI)
    BY DEF N!NamesIn, N!TermsOf
  <2>2. y \in [N!ToSet(bound) -> S]
    BY <1>3, Zenon DEF M
  <2>3. y[t] \in S
    BY <1>1, <2>1, <2>2
  <2>4. S \subseteq N!StoredTerm
    BY DEF S, N!StoredTerms, N!StoredTriples
  <2>5. y[t].k \in {"iri", "skolem", "literal", "dir", "triple"}
    BY <2>3, <2>4 DEF N!StoredTerm
  <2> QED BY <2>5 DEF N!render_bound
<1>11. ASSUME matched PROVE D(b) = RD /\ I(b) = RI /\ (Ok(b) <=> sayable)
  <2>1. CASE W0 = {}
    <3>1. N!ToSet(bound) = {}
      BY <1>1, <2>1 DEF N!NamesIn, N!TermsOf
    <3>2. DOMAIN bound = {}
      BY <3>1 DEF N!ToSet
    <3>3. Agree(bound, b, m)
      BY <3>2, Zenon DEF Agree
    <3>4. Ok(b) <=> Sayable(QD, m) /\ Sayable(QI, m)
      BY <1>1, <3>3, Zenon
    <3>5. N!NamesIn(QD \cup QI) = {}
      <4>1. N!NamesIn(QD) = {} /\ N!NamesIn(QI) = {}
        BY <1>1, <3>1
      <4> QED BY <4>1 DEF N!NamesIn, N!TermsOf
    <3>6. sayable /\ Ok(b)
      BY <1>9, <3>4, <3>5, Zenon
    <3> QED BY <1>1, <3>3, <3>6, Zenon
  <2>2. CASE N!IsOne(maps)
    <3>1. PICK x \in sols : sols = {x}
      BY <1>7, <2>2, Zenon DEF N!IsOne
    <3>2. PICK y \in maps : maps = {y}
      BY <2>2, Zenon DEF N!IsOne
    <3>3. b = x /\ m = y
      BY <3>1, <3>2
    <3>4. Agree(bound, b, m) /\ m \in maps
      BY <1>6, <3>1, <3>2, <3>3
    <3>5. Ok(b) <=> Sayable(QD, m) /\ Sayable(QI, m)
      BY <1>1, <3>4, Zenon
    <3>6. Ok(b) <=> sayable
      <4> HIDE DEF m
      <4> QED BY <1>9, <1>10, <3>4, <3>5, Zenon
    <3> QED BY <1>1, <3>4, <3>6, Zenon
  <2> QED BY <1>11, <2>1, <2>2
<1>12. CASE ~matched
  <2>1. patch.conditions # {} /\ ~N!IsOne(sols)
    BY <1>8, <1>12, Zenon
  <2>2. N!CountMappings(sols) \in {"NoMapping", "SeveralMappings"}
    BY <2>1 DEF N!CountMappings
  <2>3. done = [result |-> N!CountMappings(sols), graph |-> graph]
    BY <2>1, <2>2 DEF N!patch_guarded, sols
  <2>4. done.result # "Applied" /\ done.graph = graph
    BY <2>2, <2>3
  <2> QED BY <1>12, <2>4, Zenon
<1>13. CASE matched
  <2>1. done = IF ~Ok(b) THEN [result |-> "Backend", graph |-> graph]
               ELSE IF D(b) \subseteq graph
               THEN [result |-> "Applied", graph |-> (graph \ D(b)) \cup I(b)]
               ELSE [result |-> "DeletionMissing", graph |-> graph]
    <3>1. (IF patch.conditions = {} THEN "one" ELSE N!CountMappings(sols)) = "one"
      <4>1. N!IsOne(sols) => sols # {}
        BY DEF N!IsOne
      <4> QED BY <1>8, <1>13, <4>1 DEF N!CountMappings
    <3> QED BY <3>1, Substituted DEF N!patch_guarded, sols, Ok
  <2>2. done = IF ~sayable THEN [result |-> "Backend", graph |-> graph]
               ELSE IF RD \subseteq graph
               THEN [result |-> "Applied", graph |-> (graph \ RD) \cup RI]
               ELSE [result |-> "DeletionMissing", graph |-> graph]
    <3> HIDE DEF D, I, RD, RI, done, b, sayable
    <3> QED BY <1>11, <1>13, <2>1, Zenon
  <2> HIDE DEF RD, RI, done, matched, sayable
  <2>3. CASE sayable /\ RD \subseteq graph
    BY <1>13, <2>2, <2>3
  <2>4. CASE ~sayable
    BY <1>13, <2>2, <2>4
  <2>5. CASE sayable /\ ~(RD \subseteq graph)
    BY <1>13, <2>2, <2>5
  <2> QED BY <2>3, <2>4, <2>5
<1> QED BY <1>12, <1>13

\* An N3 patch does what its document says, is refused exactly when it breaks its
\* form, creates as it patches an empty resource, leaves a listing alone, and does
\* nothing the modes it is held to do not cover, for every graph of stored terms:
\* where a name it writes stands for a triple term it fails and changes nothing.
THEOREM PatchesAsWrittenHold == Spec => []PatchesAsWritten
<1>1. Asked => PatchesAsWritten
  <2> SUFFICES ASSUME Asked, asked.what = "patch"
               PROVE  /\ N!ParseIsExact(asked.x.doc)
                      /\ N!AppliesAsWritten(asked.x.doc, asked.x.graph)
                      /\ N!CreatesAsFromEmpty(asked.x.doc)
                      /\ N!MembersUntouched(asked.x.doc, asked.x.graph)
                      /\ N!NeedsWhatItDoes(asked.x.doc, asked.x.graph, asked.x.held)
    BY Zenon DEF PatchesAsWritten, ParseIsExact, AppliesAsWritten, CreatesAsFromEmpty,
       MembersUntouched, NeedsWhatItDoes
  <2>1. asked.x.doc \in N!Documents /\ asked.x.graph \in SUBSET N!StoredTriples
    BY InputsAssumption DEF Asked
  <2> QED BY <2>1, ParsesExactly, AppliedAsWritten, CreatesFromEmpty, MembersAreUntouched,
             ModesAreNeeded, Zenon
<1> QED BY <1>1, AskedAlways, PTL
=============================================================================
