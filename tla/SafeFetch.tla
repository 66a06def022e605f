----------------------------- MODULE SafeFetch -----------------------------
(***************************************************************************)
(* The outbound fetch (src/src/auth/safe_fetch.rs): which hosts the        *)
(* operator vouches for, which addresses may be contacted, and guarded_get *)
(* over a network whose two name lookups need not agree.                   *)
(*                                                                         *)
(* An address is its family and its words: four octets, or eight segments. *)
(* A host is a name or an address literal.  The operator's entries are     *)
(* taken apart by what the parser tells apart: form is "name" (with or     *)
(* without a port), "bracketed" (an IPv6 literal in brackets), "bare6" (an *)
(* IPv6 literal without them; splits says it can also be read as a shorter *)
(* address and a port), "blank" or "adorned" (a scheme, a path, a user, a  *)
(* query or a fragment in it).                                             *)
(***************************************************************************)
EXTENDS Integers, Sequences

CONSTANT MaxBodyBytes    \* MAX_BODY_BYTES

V4(a, b, c, d) == [family |-> 4, words |-> <<a, b, c, d>>]
V6(words) == [family |-> 6, words |-> words]

Name(n) == [name |-> n, ip |-> V4(0, 0, 0, 0)]
Literal(ip) == [name |-> "literal", ip |-> ip]
IsLiteral(host) == host.name = "literal"

AnyPort == -1
BadPort == -2

-----------------------------------------------------------------------------
is_cgnat(w) == w[1] = 100 /\ w[2] \div 64 = 1
is_unique_local(w) == w[1] \div 512 = 126          \* fc00::/7
is_link_local_v6(w) == w[1] \div 64 = 1018         \* fe80::/10

ForbiddenV4(w) ==
  \/ w[1] = 127
  \/ w = <<0, 0, 0, 0>>
  \/ w[1] = 10 \/ (w[1] = 172 /\ w[2] \div 16 = 1) \/ (w[1] = 192 /\ w[2] = 168)
  \/ w[1] = 169 /\ w[2] = 254
  \/ is_cgnat(w)

\* The octets of the last two segments.
Embedded(w) == <<w[7] \div 256, w[7] % 256, w[8] \div 256, w[8] % 256>>

Zeros(n) == [i \in 1..n |-> 0]

\* The first six segments of an address that carries an IPv4 one, in either way,
\* and the two addresses that look like the second and are not.
MappedPrefix == Append(Zeros(5), 65535)
CompatiblePrefix == Zeros(6)
LoopbackOrUnspecified == {Append(Zeros(7), 1), Zeros(8)}

\* Fault: an IPv4 address written as an IPv6 one is an IPv6 one.
SixIsSix(ip) ==
  IF ip.family = 4 THEN ForbiddenV4(ip.words)
  ELSE LET w == ip.words IN
       \/ w \in LoopbackOrUnspecified
       \/ is_unique_local(w) \/ is_link_local_v6(w)

is_forbidden_ip(ip) ==
  LET w == ip.words IN
  IF ip.family = 4 THEN ForbiddenV4(w)
  ELSE IF SubSeq(w, 1, 6) = MappedPrefix THEN ForbiddenV4(Embedded(w))
  ELSE IF SubSeq(w, 1, 6) = CompatiblePrefix /\ w \notin LoopbackOrUnspecified
    THEN ForbiddenV4(Embedded(w))
  ELSE \/ w \in LoopbackOrUnspecified
       \/ is_unique_local(w) \/ is_link_local_v6(w)

-----------------------------------------------------------------------------
\* What an operator may write: a bare IPv6 literal has no port of its own, and
\* only one of those can be read in two ways.
HostEntries ==
  {e \in [form : {"name", "bracketed", "bare6", "blank", "adorned"},
          host : [name : STRING, ip : [family : {4, 6}, words : Seq(Nat)]],
          port : Int, splits : BOOLEAN] :
     /\ e.form = "bare6" => e.port = AnyPort
     /\ e.splits => e.form = "bare6"}

NoEntry == [host |-> Name("none"), port |-> BadPort]

\* parse_insecure_host_entry.  A bare IPv6 literal has no port of its own.
parse_insecure_host_entry(entry) ==
  IF \/ entry.form \in {"blank", "adorned"}
     \/ entry.form = "bare6" /\ entry.splits
     \/ entry.port = BadPort
  THEN NoEntry
  ELSE [host |-> entry.host, port |-> IF entry.form = "bare6" THEN AnyPort ELSE entry.port]

\* try_fetch_policy drops blank entries; try_with_insecure_hosts keeps what it
\* understands and reports the rest.
Written(entries) == {e \in entries : e.form # "blank"}
Rejected_(entries) == {e \in Written(entries) : parse_insecure_host_entry(e) = NoEntry}
try_fetch_policy(entries) ==
  {parse_insecure_host_entry(e) : e \in Written(entries) \ Rejected_(entries)}

\* main refuses the start over one entry it does not understand.
Starts(entries) == Rejected_(entries) = {}

permits_insecure(policy, host, port) ==
  [host |-> host, port |-> AnyPort] \in policy \/ [host |-> host, port |-> port] \in policy

permits_insecure_host(policy, host) == \E p \in policy : p.host = host

-----------------------------------------------------------------------------
\* screen_addresses: all of them or none.
screen_addresses(resolved, allow_private) ==
  resolved # {} /\ (allow_private \/ \A ip \in resolved : ~is_forbidden_ip(ip))

\* resolve_allowed, of what the lookup answered; a literal is its own answer.
resolve_allowed(policy, url, answer) ==
  screen_addresses(IF IsLiteral(url.host) THEN {url.host.ip} ELSE answer,
                   permits_insecure(policy, url.host, url.port))

\* Fault: the connector resolves by itself.
SystemResolver(policy, host, answer) == answer

\* PolicyResolver::resolve: the addresses the connector is given.  It learns no
\* port.
PolicyResolver(policy, host, answer) ==
  IF screen_addresses(answer, permits_insecure_host(policy, host)) THEN answer ELSE {}

\* The addresses a request may be sent to.  reqwest resolves names alone.
Candidates(policy, url, answer) ==
  IF IsLiteral(url.host) THEN {url.host.ip} ELSE PolicyResolver(policy, url.host, answer)

\* Fault: the declared length is believed.
DeclaredOnly(declared, chunks) == declared <= MaxBodyBytes

\* guarded_get's buf.len() once it has taken so many chunks.
Buffered(chunks) ==
  LET buf[i \in 0..Len(chunks)] == IF i = 0 THEN 0 ELSE buf[i - 1] + chunks[i] IN buf

\* The two caps: on the length declared (-1 is none) and on every chunk.
SizeOk(declared, chunks) ==
  /\ declared <= MaxBodyBytes
  /\ \A i \in 1..Len(chunks) : Buffered(chunks)[i] <= MaxBodyBytes

\* guarded_get: first and second are what the lookups before and during the
\* connection answer.  No body without a connection.
guarded_get(policy, url, first, second, response) ==
  LET allowed == /\ url.scheme \in {"https", "http"}
                 /\ url.scheme = "http" => permits_insecure(policy, url.host, url.port)
                 /\ resolve_allowed(policy, url, first)
      reached == IF allowed THEN Candidates(policy, url, second) ELSE {}
      ok == /\ reached # {}
            /\ response.status = 200
            /\ SizeOk(response.declared, response.chunks)
            /\ response.utf8
  IN [reached |-> reached, ok |-> ok, body |-> IF ok THEN response.chunks ELSE <<>>]

-----------------------------------------------------------------------------
\* What the operator wrote of a host and a port, by any entry's own words: a
\* form that names a port vouches for that port alone.
Vouched(entries, host, port) ==
  \E e \in entries : /\ e.form \in {"name", "bracketed", "bare6"}
                     /\ e.host = host
                     /\ e.port = port \/ e.port = AnyPort
                     /\ ~e.splits

\* A pod that starts speaks plain http only to a host and port its operator
\* named, and reaches a private address only of a host its operator named,
\* whatever the two lookups answer; of a port that was not named, only if the
\* first lookup showed nothing private.
ReachesOnlyVouched(entries, url, first, second) ==
  LET r == guarded_get(try_fetch_policy(entries), url, first, second,
                       [status |-> 200, declared |-> 0, chunks |-> <<>>, utf8 |-> TRUE])
      private == {ip \in r.reached : is_forbidden_ip(ip)}
      named == \E port \in {e.port : e \in entries} \cup {url.port} : Vouched(entries, url.host, port)
  IN Starts(entries) /\ ~Vouched(entries, url.host, url.port) =>
       /\ r.reached # {} => url.scheme = "https"
       /\ private # {} => /\ named /\ ~IsLiteral(url.host)
                          /\ \A ip \in first : ~is_forbidden_ip(ip)

\* An IPv4 address is judged alike however IPv6 carries it.
JudgedByWhatItReaches(v4) ==
  LET tail == <<v4.words[1] * 256 + v4.words[2], v4.words[3] * 256 + v4.words[4]>>
  IN is_forbidden_ip(v4) =>
       /\ is_forbidden_ip(V6(MappedPrefix \o tail))
       /\ is_forbidden_ip(V6(CompatiblePrefix \o tail))

\* No body beyond the cap is ever held, whatever length was declared, and one
\* within it is the whole of what was sent.
NeverBeyondTheCap(declared, chunks) ==
  LET url == [scheme |-> "https", host |-> Name("issuer"), port |-> 443]
      public == {V4(8, 8, 8, 8)}
      r == guarded_get({}, url, public, public,
                       [status |-> 200, declared |-> declared, chunks |-> chunks, utf8 |-> TRUE])
      sent == Buffered(chunks)[Len(chunks)]
  IN r.ok <=> sent <= MaxBodyBytes /\ declared <= MaxBodyBytes
=============================================================================
