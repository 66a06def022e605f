-------------------------------- MODULE Auth --------------------------------
(***************************************************************************)
(* authenticate (src/src/auth): the order in which a request's headers are *)
(* looked at, what each look may fetch or record, and what is believed at  *)
(* the end; and the keys the pod signs with when it is an issuer itself    *)
(* (src/src/op), whose tokens the same pipeline has to accept.             *)
(*                                                                         *)
(* A key is [id, kid, kty, curve, alg, use, verifies, d]; d tells whether  *)
(* the private part is there.  What a key signed names its id, so a        *)
(* signature is good under that key alone.  The world a                    *)
(* request is judged in is [jwks, profiles, seen, now]: issuer -> the keys *)
(* it publishes (none when they cannot be had), the (webid, issuer) pairs  *)
(* profiles declare, the jtis held, the clock.  JOSE and the ES256 proof   *)
(* verifier are external.                                                  *)
(***************************************************************************)
EXTENDS Integers, Sequences, SequencesExt

Absent == "absent"
Jwk == [id : Nat, kid : STRING, kty : STRING, curve : STRING, alg : STRING, use : STRING,
        verifies : BOOLEAN, d : BOOLEAN]
NoKey == [id |-> 0, kid |-> Absent, kty |-> Absent, curve |-> Absent, alg |-> Absent,
          use |-> Absent, verifies |-> FALSE, d |-> FALSE]

CONSTANTS
  MaxTime,              \* the last i64
  MAX_AGE_SECONDS,
  FUTURE_SKEW_SECONDS

\* The first i64.
MinTime == -MaxTime - 1

saturating_sub(a, b) ==
  IF a - b > MaxTime THEN MaxTime ELSE IF a - b < MinTime THEN MinTime ELSE a - b

-----------------------------------------------------------------------------
\* Fault: the subtractions wrap around.
FreshWrapping(iat, now) ==
  LET wrap(n) == ((n - MinTime) % (2 * MaxTime + 2)) + MinTime
  IN wrap(iat - now) <= FUTURE_SKEW_SECONDS /\ wrap(now - iat) <= MAX_AGE_SECONDS

\* verify_dpop's two checks of the iat.
Fresh(iat, now) ==
  /\ saturating_sub(iat, now) <= FUTURE_SKEW_SECONDS
  /\ saturating_sub(now, iat) <= MAX_AGE_SECONDS

\* issuer_matches: a trailing slash is nothing.
Bare(iss) == IF iss = "idpSlash" THEN "idp" ELSE iss
issuer_matches(a, b) == Bare(a) = Bare(b)

\* The first key that passes, or NoKey.
FirstKey(keys, ok(_)) ==
  LET first == SelectInSeq(keys, ok) IN IF first = 0 THEN NoKey ELSE keys[first]

\* select_key
select_key(keys, kid) ==
  IF kid # Absent THEN FirstKey(keys, LAMBDA k : k.kid = kid)
  ELSE FirstKey(keys, LAMBDA k : k.use \in {Absent, "sig"} /\ k.verifies)

\* A key nothing can be verified against: no algorithm of a token is this, "none"
\* included.
NoVerifier == "unsupported"

\* Fault: ES256 whatever the key, as it once was.
AlwaysES256(key) ==
  IF key.kty = "EC" /\ key.alg \in {Absent, "ES256"} THEN "ES256" ELSE NoVerifier

\* verifier_for: by the key's type; JOSE refuses a key that declares another
\* algorithm or another use.
verifier_for(key) ==
  IF ~key.verifies \/ key.use \notin {Absent, "sig"} THEN NoVerifier
  ELSE IF key.kty = "RSA" /\ key.alg \in {Absent, "RS256"} THEN "RS256"
  ELSE IF key.kty = "EC" /\ key.curve = "P-256" /\ key.alg \in {Absent, "ES256"} THEN "ES256"
  ELSE NoVerifier

\* jwt::decode_with_verifier: the header's algorithm is the verifier's and the
\* signature is the key's.
SignatureOk(token, key) == verifier_for(key) = token.alg /\ token.by = key.id

\* verify_access_token, once the issuer's keys are there.
TokenOk(token, keys, now) ==
  LET key == select_key(keys, token.kid)
  IN /\ key # NoKey
     /\ SignatureOk(token, key)
     /\ token.exp > now
     /\ token.webid # Absent
     /\ token.jkt # 0

-----------------------------------------------------------------------------
\* verify_rs256_proof up to the claims; key is the id of the header's jwk.
verify_rs256_proof(proof) ==
  /\ proof.compact /\ proof.typ
  /\ proof.jwk = "RSA"
  /\ proof.by = proof.key
  /\ ~proof.jtiTooLong

\* dpop-verifier's own, for every other algorithm; it knows none but ES256.
EsProofOk(proof) ==
  /\ proof.compact /\ proof.typ
  /\ proof.alg = "ES256" /\ proof.jwk = "EC"
  /\ proof.by = proof.key
  /\ ~proof.jtiTooLong

\* verify_dpop without its last step: htm and htu are compared after
\* normalization by either verifier, htu then exactly.
ProofOk(proof, jkt, now) ==
  /\ IF proof.alg = "RS256" THEN verify_rs256_proof(proof) ELSE EsProofOk(proof)
  /\ proof.htm = "same"
  /\ proof.htu \in {"same", "sameNormalized"}
  /\ proof.htu = "same"
  /\ Fresh(proof.iat, now)
  /\ proof.key = jkt

Outcome(agent, fetched, profiled, recorded) ==
  [agent |-> agent, fetched |-> fetched, profiled |-> profiled, recorded |-> recorded]

\* The result of a request that is refused having fetched so much.
Refusal(fetched, profiled) == Outcome("refused", fetched, profiled, {})

\* Fault: the jti is recorded before the rest of the proof is judged.
RecordsFirst(proof, ok, seen) == {proof.jti} \ seen

\* record_or_reject, the last step: what a request records.
Records(proof, ok, seen) == IF ok THEN {proof.jti} \ seen ELSE {}

\* authenticate and, for what a 401 stands for, auth_layer.  cfg is AuthConfig:
\* trusted is a set of issuers, {} for none configured; audience a value or
\* Absent.
authenticate(req, cfg, world) ==
  LET token == req.token
      proof == req.proof
  IN IF req.scheme = Absent /\ ~req.hasProof THEN Outcome("Public", {}, {}, {})
     ELSE IF req.scheme # "dpop" \/ ~req.hasProof THEN Refusal({}, {})
     ELSE IF ~token.compact \/ token.iss = Absent THEN Refusal({}, {})
     ELSE IF cfg.trusted # {} /\ ~\E t \in cfg.trusted : issuer_matches(t, token.iss)
       THEN Refusal({}, {})
     ELSE IF ~TokenOk(token, world.jwks[token.iss], world.now) THEN Refusal({token.iss}, {})
     ELSE IF cfg.audience # Absent /\ cfg.audience \notin token.aud THEN Refusal({token.iss}, {})
     ELSE IF <<token.webid, Bare(token.iss)>> \notin world.profiles
       THEN Refusal({token.iss}, {token.webid})
     ELSE LET ok == ProofOk(proof, token.jkt, world.now)
          IN Outcome(IF ok /\ proof.jti \notin world.seen THEN token.webid ELSE "refused",
                     {token.iss}, {token.webid}, Records(proof, ok, world.seen))

-----------------------------------------------------------------------------
(***************************************************************************)
(* KeySet.  A file is [state, keys]: "missing", "torn" (a crash left it    *)
(* empty or cut short) or "there".                                         *)
(***************************************************************************)
GeneratedKey == [id |-> 9, kid |-> "thumb9", kty |-> "EC", curve |-> "P-256", alg |-> "ES256",
                 use |-> Absent, verifies |-> TRUE, d |-> TRUE]

Thumbprints == <<"thumb1", "thumb2", "thumb3">>
thumbprint(key) == IF key.id = 9 THEN "thumb9" ELSE Thumbprints[key.id]

\* JOSE's signer_from_jwk: the key's type, and its declared algorithm if any.
SignerBuilds(key, alg) ==
  /\ key.d /\ key.alg \in {Absent, alg} /\ key.use \in {Absent, "sig"}
  /\ IF alg = "RS256" THEN key.kty = "RSA" ELSE key.kty = "EC" /\ key.curve = "P-256"

\* signer_for
signer_for(key) == IF key.alg = "RS256" THEN "RS256" ELSE "ES256"

\* alg_of
alg_of(key) ==
  IF key.alg # Absent THEN key.alg
  ELSE IF key.kty = "EC" /\ key.curve = "P-256" THEN "ES256"
  ELSE IF key.kty = "RSA" THEN "RS256"
  ELSE Absent

WithKid(key) == IF key.kid = Absent THEN [key EXCEPT !.kid = thumbprint(key)] ELSE key

Started(keys, file) == [ok |-> TRUE, keys |-> keys, file |-> file]
NotStarted(file) == [ok |-> FALSE, keys |-> <<>>, file |-> file]

\* Fault: a file that cannot be read is made anew.
TornIsMissing(file) == file.state \in {"missing", "torn"}

IsMissing(file) == file.state = "missing"

\* KeySet::load_or_generate; crash says where a start that generates is cut
\* off: "no", before or after the file is created.
load_or_generate(file, crash) ==
  LET keys == [i \in DOMAIN file.keys |-> WithKid(file.keys[i])] IN
  IF IsMissing(file)
  THEN CASE crash = "beforeCreate" -> NotStarted(file)
         [] crash = "beforeWrite" -> NotStarted([state |-> "torn", keys |-> <<>>])
         [] OTHER -> Started(<<GeneratedKey>>, [state |-> "there", keys |-> <<GeneratedKey>>])
  ELSE IF \/ file.state = "torn"
          \/ \E i \in DOMAIN keys : keys[i].kty \notin {"EC", "RSA"}
          \/ keys = <<>>
          \/ ~SignerBuilds(keys[1], signer_for(keys[1]))
    THEN NotStarted(file)
  ELSE Started(keys, file)

\* KeySet::public_jwks keeps kid and alg, and nothing else but the public part.
public_jwks(keys) ==
  [i \in DOMAIN keys |-> [keys[i] EXCEPT !.use = Absent, !.verifies = TRUE, !.d = FALSE]]

\* KeySet::signing_algs, as the discovery document lists them.
signing_algs(keys) == {alg_of(keys[i]) : i \in DOMAIN keys} \ {Absent}

\* mint_access_token and sign_jwt: the first key signs, under its own kid.
ACCESS_TOKEN_TTL_SECS == 2
mint_access_token(keys, webid, jkt, now) ==
  [compact |-> TRUE, iss |-> "self", kid |-> keys[1].kid, alg |-> signer_for(keys[1]),
   by |-> keys[1].id, exp |-> now + ACCESS_TOKEN_TTL_SECS, webid |-> webid, jkt |-> jkt,
   aud |-> {"solid"}]

-----------------------------------------------------------------------------
(* What the pipeline promises. *)

\* A request is believed to be from a WebID iff everything about it is in
\* order: its issuer trusted and published the key that signed, the profile
\* names the issuer, the proof is the key holder's, of this request, of now,
\* and new.  (A token that names no key, or one of several of one name, is
\* judged by the first that fits and may be refused all the same.)
BelievedIffProven(req, cfg, world) ==
  LET token == req.token
      proof == req.proof
      signed == \E i \in DOMAIN world.jwks[token.iss] :
                  LET k == world.jwks[token.iss][i] IN
                  /\ k.id = token.by
                  /\ token.kid \in {Absent, k.kid}
                  /\ token.alg \in {"RS256", "ES256"} /\ verifier_for(k) = token.alg
      proven == /\ token.compact /\ token.iss # Absent
                /\ cfg.trusted = {} \/ \E t \in cfg.trusted : Bare(t) = Bare(token.iss)
                /\ signed
                /\ token.exp > world.now /\ token.webid # Absent
                /\ cfg.audience \in {Absent} \cup token.aud
                /\ <<token.webid, Bare(token.iss)>> \in world.profiles
                /\ proof.by = token.jkt /\ proof.key = token.jkt /\ token.jkt # 0
                /\ proof.compact /\ proof.typ /\ ~proof.jtiTooLong
                /\ <<proof.alg, proof.jwk>> \in {<<"RS256", "RSA">>, <<"ES256", "EC">>}
                /\ proof.htm = "same" /\ proof.htu = "same"
                /\ proof.iat - world.now <= FUTURE_SKEW_SECONDS
                /\ world.now - proof.iat <= MAX_AGE_SECONDS
                /\ proof.jti \notin world.seen
      named == /\ token.kid # Absent
               /\ \A i, j \in DOMAIN world.jwks[token.iss] :
                    /\ world.jwks[token.iss][i].kid = token.kid
                    /\ world.jwks[token.iss][j].kid = token.kid
                    => i = j
      result == authenticate(req, cfg, world)
  IN /\ result.agent = "Public" <=> req.scheme = Absent /\ ~req.hasProof
     /\ result.agent \notin {"Public", "refused"} =>
          req.scheme = "dpop" /\ req.hasProof /\ proven /\ result.agent = token.webid
     /\ req.scheme = "dpop" /\ req.hasProof /\ proven /\ named => result.agent = token.webid

\* What a request sets in motion before it is believed: an untrusted issuer is
\* never asked for keys, a profile is fetched only for a token its issuer
\* signed, and only an accepted proof uses up its jti.
ActsOnlyOnTrust(req, cfg, world) ==
  LET token == req.token
      result == authenticate(req, cfg, world)
  IN /\ result.fetched # {} => \/ cfg.trusted = {}
                               \/ \E t \in cfg.trusted : Bare(t) = Bare(token.iss)
     /\ result.profiled # {} => \E i \in DOMAIN world.jwks[token.iss] :
                                  world.jwks[token.iss][i].id = token.by
     /\ result.recorded # {} <=> result.agent \notin {"Public", "refused"}

\* A token the pod mints is one its own verifier accepts from the keys it
\* publishes, and is signed with an algorithm it advertises; nothing private is
\* published.
OwnTokensVerify(file, now) ==
  LET started == load_or_generate(file, "no")
      keys == started.keys
      token == mint_access_token(keys, "alice", 1, now)
  IN started.ok =>
       /\ TokenOk(token, public_jwks(keys), now)
       /\ \A i \in DOMAIN keys : ~public_jwks(keys)[i].d
       /\ token.alg \in signing_algs(keys)

\* Restarting never changes the keys the pod is known by: a file that is there
\* is never rewritten, whole or torn by a crash, and a start that comes up has
\* the keys of the one before it.
KeysOutliveRestarts(file, crash) ==
  LET first == load_or_generate(file, crash)
      second == load_or_generate(first.file, "no")
  IN /\ file.state # "missing" => first.file = file
     /\ first.file.state # "missing" => second.file = first.file
     /\ first.ok => second.ok /\ second.keys = first.keys
=============================================================================
