-------------------------- MODULE DecisionsProofs --------------------------
(***************************************************************************)
(* What Decisions checks on the inputs of an instance, for every input of  *)
(* its type: the warning on an ACL, the shapes of a container, where a     *)
(* fetch may go, whom a request is from and what a start runs with.  The   *)
(* state is only the question asked, so each invariant is a lemma about    *)
(* the operators of one module, applied to the input at hand.              *)
(***************************************************************************)
EXTENDS Decisions, NaturalsInduction, WellFoundedInduction, SequenceTheorems,
        FiniteSetTheorems, TLAPS

\* A question is asked with one of its inputs.
Asked == asked.what # "nothing" => asked.x \in Inputs[asked.what]

-----------------------------------------------------------------------------
(* The one state there is *)

\* Every step asks a question with one of its inputs or forgets the last.
LEMMA AskedStep == Asked /\ [Next]_asked => Asked'
<1> SUFFICES ASSUME Asked, [Next]_asked PROVE Asked'
  OBVIOUS
<1>1. ASSUME NEW what, Ask(what) PROVE Asked'
  BY <1>1 DEF Ask, Asked
<1>2. CASE UNCHANGED asked
  BY <1>2 DEF Asked
<1>3. CASE Forget
  BY <1>3 DEF Forget, Nothing, Asked
<1> QED
  BY <1>1, <1>2, <1>3 DEF Next, Resolve, NameChild, CheckHtu, Store, Project, NegotiateRdf,
     NegotiateBlob, Advertise, Get, Put, Bind, Validate, Patch, Fetch, Judge, Receive,
     Authenticate, Mint, Restart, Load, Start, Warn

\* In every reachable state the input is one of the question's.
LEMMA AskedAlways == Spec => []Asked
<1>1. Init => Asked
  BY DEF Init, Nothing, Asked
<1> QED BY <1>1, AskedStep, PTL DEF Spec

-----------------------------------------------------------------------------
(* Sequences *)

\* A non-empty set of naturals has a least element.
LEMMA LeastExists ==
  ASSUME NEW S, S \subseteq Nat, S # {}
  PROVE  \E x \in S : \A y \in S : x <= y
<1>1. PICK x \in S : \A y \in S : ~(<<y, x>> \in OpToRel(<, Nat))
  BY NatLessThanWellFounded, WFMin
<1>2. \A y \in S : ~(y < x)
  BY <1>1 DEF OpToRel
<1> QED BY <1>2

\* The values of a recursion on the naturals up to n: each follows from the one
\* before it.
Recursion(S, b, n, Step, f) ==
  /\ f \in [0..n -> S]
  /\ f[0] = b
  /\ \A i \in 1..n : f[i] = Step[i][f[i - 1]]

\* A recursion on the naturals has a solution.
LEMMA RecursionExists ==
  ASSUME NEW S, NEW b \in S, NEW n \in Nat, NEW Step \in [1..n -> [S -> S]]
  PROVE  \E f : Recursion(S, b, n, Step, f)
<1> DEFINE Solves(k, f) == f \in [0..k -> S] /\ f[0] = b /\ \A i \in 1..k : f[i] = Step[i][f[i - 1]]
           Bad == {k \in 0..n : ~\E f : Solves(k, f)}
<1>0. ASSUME Bad = {} PROVE \E f : Recursion(S, b, n, Step, f)
  <2>1. n \in 0..n
    OBVIOUS
  <2>2. PICK f : Solves(n, f)
    BY <1>0, <2>1, Zenon
  <2> QED BY <2>2, Zenon DEF Recursion
<1> SUFFICES ASSUME Bad # {} PROVE FALSE
  BY <1>0, Zenon
<1>1. Bad \subseteq Nat
  OBVIOUS
<1>2. PICK k \in Bad : \A j \in Bad : k <= j
  <2> HIDE DEF Bad
  <2> QED BY <1>1, LeastExists
<1>3. k \in 0..n /\ ~\E f : Solves(k, f)
  BY <1>2, Zenon
<1>4. k # 0
  <2> SUFFICES ASSUME k = 0 PROVE FALSE
    OBVIOUS
  <2> DEFINE f == [i \in 0..0 |-> b]
  <2>1. Solves(0, f)
    OBVIOUS
  <2> QED BY <1>3, <2>1, Zenon
<1>5. k - 1 \in 0..n /\ ~(k <= k - 1) /\ k \in 1..n
  BY <1>3, <1>4
<1>6. k - 1 \notin Bad
  <2> HIDE DEF Bad
  <2> QED BY <1>2, <1>5
<1>7. PICK g : Solves(k - 1, g)
  BY <1>5, <1>6, Zenon
<1>8. Step[k] \in [S -> S] /\ g[k - 1] \in S
  BY <1>5, <1>7
<1> DEFINE f == [i \in 0..k |-> IF i = k THEN Step[k][g[k - 1]] ELSE g[i]]
<1>9. f \in [0..k -> S]
  BY <1>5, <1>7, <1>8
<1>10. f[0] = b
  BY <1>5, <1>7
<1>11. ASSUME NEW i \in 1..k PROVE f[i] = Step[i][f[i - 1]]
  <2>1. CASE i = k
    BY <1>5, <2>1
  <2>2. CASE i # k
    <3>1. i \in 1..(k - 1) /\ i \in 0..k /\ i - 1 \in 0..k /\ i - 1 # k
      BY <1>5, <2>2
    <3>2. f[i] = g[i] /\ f[i - 1] = g[i - 1]
      BY <2>2, <3>1
    <3>3. g[i] = Step[i][g[i - 1]]
      BY <1>7, <3>1
    <3> HIDE DEF f
    <3> QED BY <3>2, <3>3
  <2> QED BY <2>1, <2>2
<1>12. Solves(k, f)
  <2> HIDE DEF f
  <2> QED BY <1>9, <1>10, <1>11
<1> QED BY <1>3, <1>12, Zenon

-----------------------------------------------------------------------------
(* Starting: config.rs, main.rs, op/keys.rs *)

\* main refuses before it makes anything, or runs on the backends it was told.
LEMMA StartIsClean ==
  ASSUME NEW cfg, NEW hostsOk, NEW keysLoad, NEW storesOpen, NEW fails
  PROVE  C!ServesOrLeavesNothing(cfg, hostsOk, keysLoad, storesOpen, fails)
BY DEF C!ServesOrLeavesNothing, C!main, C!Exit, C!Reach, C!op_keys, C!Backend

\* load_or_generate never rewrites a key file, and finds again what it made.
LEMMA KeysAreKept ==
  ASSUME NEW file, NEW crash
  PROVE  A!KeysOutliveRestarts(file, crash)
<1> DEFINE G == [state |-> "there", keys |-> <<A!GeneratedKey>>]
<1>1. CASE ~A!IsMissing(file)
  <2>1. /\ A!load_or_generate(file, crash).file = file
        /\ A!load_or_generate(file, "no") = A!load_or_generate(file, crash)
    BY <1>1 DEF A!load_or_generate, A!Started, A!NotStarted
  <2> QED BY <2>1 DEF A!KeysOutliveRestarts
<1>2. CASE A!IsMissing(file)
  <2>1. A!load_or_generate(G, "no") = A!Started(<<A!GeneratedKey>>, G)
    <3>1. [i \in DOMAIN G.keys |-> A!WithKid(G.keys[i])] = <<A!GeneratedKey>>
      BY DEF A!WithKid, A!GeneratedKey, A!Absent
    <3>2. /\ ~A!IsMissing(G) /\ G.state # "torn" /\ <<A!GeneratedKey>> # <<>>
          /\ DOMAIN <<A!GeneratedKey>> = {1} /\ <<A!GeneratedKey>>[1] = A!GeneratedKey
      BY DEF A!IsMissing
    <3>3. A!GeneratedKey.kty = "EC" /\ A!SignerBuilds(A!GeneratedKey, A!signer_for(A!GeneratedKey))
      BY DEF A!SignerBuilds, A!signer_for, A!GeneratedKey, A!Absent
    <3> HIDE DEF G
    <3> QED BY <3>1, <3>2, <3>3 DEF A!load_or_generate
  <2>2. CASE crash = "beforeCreate"
    BY <1>2, <2>2 DEF A!KeysOutliveRestarts, A!load_or_generate, A!NotStarted, A!IsMissing
  <2>3. CASE crash = "beforeWrite"
    <3>1. A!load_or_generate(file, crash) = A!NotStarted([state |-> "torn", keys |-> <<>>])
      BY <1>2, <2>3 DEF A!load_or_generate
    <3>2. A!load_or_generate([state |-> "torn", keys |-> <<>>], "no").file
            = [state |-> "torn", keys |-> <<>>]
      BY DEF A!load_or_generate, A!NotStarted, A!IsMissing
    <3> QED BY <1>2, <3>1, <3>2 DEF A!KeysOutliveRestarts, A!NotStarted, A!IsMissing
  <2>4. CASE crash \notin {"beforeCreate", "beforeWrite"}
    <3>1. A!load_or_generate(file, crash) = A!Started(<<A!GeneratedKey>>, G)
      BY <1>2, <2>4 DEF A!load_or_generate
    <3> QED BY <1>2, <2>1, <3>1 DEF A!KeysOutliveRestarts, A!Started, A!IsMissing
  <2> QED BY <2>2, <2>3, <2>4
<1> QED BY <1>1, <1>2

\* What the highest source that speaks says is a sequence.
LEMMA EffectiveType ==
  ASSUME NEW flags \in [C!Args -> Seq(STRING)], NEW env \in [C!Args -> Seq(STRING)],
         NEW file \in [C!Args -> Seq(STRING)], NEW a \in C!Args
  PROVE  C!Effective(flags, env, file, a) \in Seq(STRING \cup {"default"})
<1> DEFINE S == STRING \cup {"default"}
<1>1. <<>> \in Seq(S) /\ <<"default">> \in Seq(S)
  OBVIOUS
<1>2. C!Default[a] \in {<<>>, <<"default">>}
  BY DEF C!Default, C!Args
<1>3. Seq(STRING) \subseteq Seq(S)
  BY SeqMonotonic
<1> HIDE DEF S
<1>4. C!Effective(flags, env, file, a) \in Seq(S)
  BY <1>1, <1>2, <1>3 DEF C!Effective
<1> QED BY <1>4 DEF S

\* The first value of a sequence that is refused is one of it, and refused.
LEMMA FirstBad ==
  ASSUME NEW S, NEW s \in Seq(S), C!ToSet(s) \cap C!BadValues # {}
  PROVE  LET i == C!SelectInSeq(s, LAMBDA v : v \in C!BadValues)
         IN i \in 1..Len(s) /\ s[i] \in C!BadValues
<1> DEFINE I == {i \in 1..Len(s) : s[i] \in C!BadValues}
<1>1. I # {} /\ I \subseteq Nat
  BY DEF C!ToSet
<1>2. \E i \in I : \A j \in I : i <= j
  BY <1>1, LeastExists
<1>3. C!SelectInSeq(s, LAMBDA v : v \in C!BadValues) \in I
  BY <1>1, <1>2 DEF C!SelectInSeq, C!Min
<1> QED BY <1>3

\* A start that loads read the one file it names, and every value is the highest
\* source's.
LEMMA LoadIsWhole ==
  ASSUME NEW argv, NEW env, NEW files, argv.configs \in Seq(STRING)
  PROVE  C!RunsAsConfigured(argv, env, files)
<1> DEFINE cfg == C!try_load_from(argv, env, files)
           path == C!config_path_from(argv, env)
           file == IF cfg.path = C!NoPath THEN C!Nothing ELSE files[cfg.path].values
           sources == <<argv.flags, env.values, file, C!Default>>
           named == IF argv.configs # <<>> THEN C!ToSet(argv.configs) ELSE {env.config}
<1> SUFFICES ASSUME cfg.ok
             PROVE  /\ named = {cfg.path}
                    /\ \A a \in C!Args :
                         LET speaking == {i \in 1..4 : sources[i][a] # <<>>} IN
                         IF speaking = {} THEN cfg.values[a] = <<>>
                         ELSE \E i \in speaking : /\ \A j \in speaking : i <= j
                                                  /\ cfg.values[a] = sources[i][a]
  BY DEF C!RunsAsConfigured
<1>1. /\ ~(Len(argv.configs) > 1)
      /\ cfg.path = path
      /\ cfg.values = [a \in C!Args |-> C!Effective(argv.flags, env.values, file, a)]
  BY DEF C!try_load_from, C!NotLoaded
<1>2. named = {path}
  <2>1. CASE argv.configs = <<>>
    BY <2>1 DEF C!config_path_from
  <2>2. CASE argv.configs # <<>>
    <3>1. DOMAIN argv.configs = {1}
      BY <1>1, <2>2
    <3> QED BY <2>2, <3>1 DEF C!config_path_from, C!ToSet
  <2> QED BY <2>1, <2>2
<1>3. ASSUME NEW a \in C!Args
      PROVE  LET speaking == {i \in 1..4 : sources[i][a] # <<>>} IN
             IF speaking = {} THEN cfg.values[a] = <<>>
             ELSE \E i \in speaking : /\ \A j \in speaking : i <= j
                                      /\ cfg.values[a] = sources[i][a]
  <2> DEFINE speaking == {i \in 1..4 : sources[i][a] # <<>>}
             e == C!Effective(argv.flags, env.values, file, a)
  <2>1. cfg.values[a] = e
    BY <1>1
  <2>2. /\ sources[1][a] = argv.flags[a] /\ sources[2][a] = env.values[a]
        /\ sources[3][a] = file[a] /\ sources[4][a] = C!Default[a]
    OBVIOUS
  <2>3. 1..4 = {1, 2, 3, 4}
    OBVIOUS
  <2> HIDE DEF file, sources, cfg
  <2>4. CASE argv.flags[a] # <<>>
    <3>1. e = argv.flags[a] /\ 1 \in speaking
      BY <2>2, <2>4 DEF C!Effective
    <3> QED BY <2>1, <2>2, <3>1
  <2>5. CASE argv.flags[a] = <<>> /\ env.values[a] # <<>>
    <3>1. e = env.values[a] /\ 2 \in speaking /\ 1 \notin speaking
      BY <2>2, <2>5 DEF C!Effective
    <3> QED BY <2>1, <2>2, <3>1
  <2>6. CASE argv.flags[a] = <<>> /\ env.values[a] = <<>> /\ file[a] # <<>>
    <3>1. e = file[a] /\ 3 \in speaking /\ 1 \notin speaking /\ 2 \notin speaking
      BY <2>2, <2>6 DEF C!Effective
    <3> QED BY <2>1, <2>2, <3>1
  <2>7. CASE argv.flags[a] = <<>> /\ env.values[a] = <<>> /\ file[a] = <<>>
    <3>1. e = C!Default[a] /\ 3 \notin speaking /\ 1 \notin speaking /\ 2 \notin speaking
      BY <2>2, <2>7 DEF C!Effective
    <3>2. CASE C!Default[a] = <<>>
      BY <2>1, <2>2, <2>3, <3>1, <3>2
    <3>3. CASE C!Default[a] # <<>>
      BY <2>1, <2>2, <2>3, <3>1, <3>3
    <3> QED BY <3>2, <3>3
  <2> QED BY <2>4, <2>5, <2>6, <2>7
<1> QED BY <1>1, <1>2, <1>3

\* A file is blamed for being unreadable or for a value it gave.
LEMMA BlameIsFair ==
  ASSUME NEW argv, NEW env, NEW files,
         argv.flags \in [C!Args -> Seq(STRING)], env.values \in [C!Args -> Seq(STRING)],
         \A path \in DOMAIN files : files[path].values \in [C!Args -> Seq(STRING)],
         C!config_path_from(argv, env) \in DOMAIN files \cup {C!NoPath}
  PROVE  C!BlamesTheCulprit(argv, env, files)
<1> DEFINE path == C!config_path_from(argv, env)
           file == IF path = C!NoPath THEN C!Nothing ELSE files[path].values
           value == [a \in C!Args |-> C!Effective(argv.flags, env.values, file, a)]
           wrong == {a \in C!Args : C!ToSet(value[a]) \cap C!BadValues # {}}
           arg == CHOOSE x \in wrong : TRUE
           rejected == value[arg][C!SelectInSeq(value[arg], LAMBDA v : v \in C!BadValues)]
           cfg == C!try_load_from(argv, env, files)
<1> SUFFICES ASSUME NEW p \in cfg.blamed
             PROVE  \/ ~C!FileReads(files[p])
                    \/ \E a \in C!Args : \E v \in C!BadValues :
                         /\ C!Contains(files[p].values[a], v)
                         /\ C!Contains(C!Effective(argv.flags, env.values, files[p].values, a), v)
  BY DEF C!BlamesTheCulprit
<1>1. CASE path # C!NoPath /\ ~C!FileReads(files[path])
  BY <1>1 DEF C!try_load_from, C!NotLoaded
<1>2. CASE ~(path # C!NoPath /\ ~C!FileReads(files[path]))
  <2>1. /\ wrong # {} /\ p = path /\ path # C!NoPath /\ C!blame_file(arg, rejected, file)
    BY <1>2 DEF C!try_load_from, C!NotLoaded
  <2>2. arg \in wrong /\ file = files[path].values /\ file \in [C!Args -> Seq(STRING)]
    BY <2>1
  <2> HIDE DEF file, arg
  <2>3. value[arg] = C!Effective(argv.flags, env.values, file, arg) /\ value[arg] \in Seq(STRING \cup {"default"})
    BY <2>2, EffectiveType
  <2>4. C!ToSet(value[arg]) \cap C!BadValues # {}
    BY <2>2
  <2> HIDE DEF value
  <2>5. C!SelectInSeq(value[arg], LAMBDA v : v \in C!BadValues) \in 1..Len(value[arg])
        /\ rejected \in C!BadValues
    BY <2>3, <2>4, FirstBad
  <2>6. C!Contains(value[arg], rejected) /\ C!Contains(file[arg], rejected)
    BY <2>1, <2>5 DEF C!Contains, C!blame_file
  <2> QED BY <2>1, <2>2, <2>3, <2>5, <2>6
<1> QED BY <1>1, <1>2

\* A start runs with what it was told or leaves nothing behind, and a restart has
\* the keys of the start before it, whatever the flags, the environment, the
\* files and the point a crash cuts load_or_generate off at.
THEOREM StartsTrue == Spec => []StartsAsTold
<1>1. Asked => StartsAsTold
  <2> SUFFICES ASSUME Asked
               PROVE  RunsAsConfigured /\ BlamesTheCulprit /\ ServesOrLeavesNothing
                      /\ KeysOutliveRestarts
    BY DEF StartsAsTold
  <2>1. ASSUME asked.what = "load" PROVE asked.x \in Inputs["load"]
    BY <2>1 DEF Asked
  <2>2. RunsAsConfigured
    BY <2>1, LoadIsWhole, InputsAssumption DEF RunsAsConfigured
  <2>3. BlamesTheCulprit
    <3> SUFFICES ASSUME asked.what = "load"
                 PROVE  C!BlamesTheCulprit(asked.x.argv, asked.x.env, asked.x.files)
      BY DEF BlamesTheCulprit
    <3>1. /\ asked.x.argv.flags \in [C!Args -> Seq(STRING)]
          /\ asked.x.env.values \in [C!Args -> Seq(STRING)]
          /\ \A path \in DOMAIN asked.x.files :
               asked.x.files[path].values \in [C!Args -> Seq(STRING)]
          /\ C!config_path_from(asked.x.argv, asked.x.env) \in DOMAIN asked.x.files \cup {C!NoPath}
      BY <2>1, InputsAssumption
    <3> QED BY <3>1, BlameIsFair
  <2>4. ServesOrLeavesNothing
    BY StartIsClean DEF ServesOrLeavesNothing
  <2>5. KeysOutliveRestarts
    BY KeysAreKept DEF KeysOutliveRestarts
  <2> QED BY <2>2, <2>3, <2>4, <2>5
<1> QED BY <1>1, AskedAlways, PTL

-----------------------------------------------------------------------------
(* Requests: auth/authenticate.rs, access_token.rs, dpop.rs; op/mint.rs *)

\* select_key answers with one of the keys, of the name the token gives if it
\* gives one.
LEMMA SelectedKey ==
  ASSUME NEW S, NEW keys \in Seq(S), NEW kid, A!select_key(keys, kid) # A!NoKey
  PROVE  \E i \in DOMAIN keys : /\ A!select_key(keys, kid) = keys[i]
                                /\ kid \in {A!Absent, keys[i].kid}
<1>1. CASE kid # A!Absent
  <2> DEFINE I == {i \in 1..Len(keys) : keys[i].kid = kid}
             first == A!SelectInSeq(keys, LAMBDA k : k.kid = kid)
  <2>1. A!select_key(keys, kid) = IF first = 0 THEN A!NoKey ELSE keys[first]
    BY <1>1 DEF A!select_key, A!FirstKey
  <2>2. first = IF I # {} THEN A!Min(I) ELSE 0
    BY DEF A!SelectInSeq
  <2>3. I # {} /\ I \subseteq Nat
    BY <2>1, <2>2
  <2>4. \E x \in I : \A y \in I : x <= y
    <3> HIDE DEF I
    <3> QED BY <2>3, LeastExists
  <2>5. first \in I
    BY <2>2, <2>3, <2>4 DEF A!Min
  <2>6. first \in DOMAIN keys /\ first # 0 /\ keys[first].kid = kid
    BY <2>5
  <2> HIDE DEF first
  <2> QED BY <2>1, <2>6
<1>2. CASE kid = A!Absent
  <2> DEFINE ok(k) == k.use \in {A!Absent, "sig"} /\ k.verifies
             I == {i \in 1..Len(keys) : ok(keys[i])}
             first == A!SelectInSeq(keys, LAMBDA k : k.use \in {A!Absent, "sig"} /\ k.verifies)
  <2>1. A!select_key(keys, kid) = IF first = 0 THEN A!NoKey ELSE keys[first]
    BY <1>2 DEF A!select_key, A!FirstKey
  <2>2. first = IF I # {} THEN A!Min(I) ELSE 0
    BY DEF A!SelectInSeq
  <2>3. I # {} /\ I \subseteq Nat
    BY <2>1, <2>2
  <2>4. \E x \in I : \A y \in I : x <= y
    <3> HIDE DEF I
    <3> QED BY <2>3, LeastExists
  <2>5. first \in I
    BY <2>2, <2>3, <2>4 DEF A!Min
  <2>6. first \in DOMAIN keys /\ first # 0
    BY <2>5
  <2> HIDE DEF first
  <2> QED BY <1>2, <2>1, <2>6
<1> QED BY <1>1, <1>2

\* The first key of the token's name is the one selected.
LEMMA SelectedByName ==
  ASSUME NEW S, NEW keys \in Seq(S), NEW kid, kid # A!Absent,
         NEW i \in DOMAIN keys, keys[i].kid = kid,
         \A j \in DOMAIN keys : keys[j].kid = kid => i <= j
  PROVE  A!select_key(keys, kid) = keys[i]
<1> DEFINE I == {j \in 1..Len(keys) : keys[j].kid = kid}
           first == A!SelectInSeq(keys, LAMBDA k : k.kid = kid)
<1>1. A!select_key(keys, kid) = IF first = 0 THEN A!NoKey ELSE keys[first]
  BY DEF A!select_key, A!FirstKey
<1>2. first = IF I # {} THEN A!Min(I) ELSE 0
  BY DEF A!SelectInSeq
<1>3. i \in I /\ \A j \in I : i <= j
  OBVIOUS
<1>4. A!Min(I) \in I /\ \A j \in I : A!Min(I) <= j
  BY <1>3 DEF A!Min
<1>5. A!Min(I) = i
  BY <1>3, <1>4
<1> QED BY <1>1, <1>2, <1>3, <1>5

\* verify_dpop's saturating subtractions are as good as exact ones.
LEMMA FreshIsExact ==
  ASSUME NEW iat \in Int, NEW now \in Int
  PROVE  A!Fresh(iat, now) <=> /\ iat - now <= FUTURE_SKEW_SECONDS
                               /\ now - iat <= MAX_AGE_SECONDS
BY LimitsAssumption DEF A!Fresh, A!saturating_sub, A!MinTime

\* What verify_access_token takes for a token of its issuer's is signed by a key
\* the issuer publishes.
LEMMA SignedByIssuer ==
  ASSUME NEW S, NEW keys \in Seq(S), NEW token, NEW now, token.alg # A!NoVerifier,
         A!TokenOk(token, keys, now)
  PROVE  \E i \in DOMAIN keys : /\ keys[i].id = token.by
                                /\ token.kid \in {A!Absent, keys[i].kid}
                                /\ token.alg \in {"RS256", "ES256"}
                                /\ A!verifier_for(keys[i]) = token.alg
<1> DEFINE key == A!select_key(keys, token.kid)
<1>1. key # A!NoKey /\ A!verifier_for(key) = token.alg /\ token.by = key.id
  BY DEF A!TokenOk, A!SignatureOk
<1>2. PICK i \in DOMAIN keys : key = keys[i] /\ token.kid \in {A!Absent, keys[i].kid}
  BY <1>1, SelectedKey
<1>3. A!verifier_for(key) \in {"RS256", "ES256", A!NoVerifier}
  BY DEF A!verifier_for
<1> QED BY <1>1, <1>2, <1>3

\* And a token signed so by the only key of its name is taken.
LEMMA SignedIsTaken ==
  ASSUME NEW S, NEW keys \in Seq(S), NEW token, NEW now, token.kid # A!Absent,
         NEW i \in DOMAIN keys, keys[i].id = token.by, keys[i].kid = token.kid,
         A!verifier_for(keys[i]) = token.alg, token.alg # A!NoVerifier,
         \A j \in DOMAIN keys : keys[j].kid = token.kid => i <= j,
         token.exp > now, token.webid # A!Absent, token.jkt # 0
  PROVE  A!TokenOk(token, keys, now)
<1>1. A!select_key(keys, token.kid) = keys[i]
  BY SelectedByName
<1>2. keys[i] # A!NoKey
  BY DEF A!verifier_for, A!NoKey
<1> QED BY <1>1, <1>2 DEF A!TokenOk, A!SignatureOk

\* Everything authenticate looks at, in its order.
Stages(req, cfg, world) ==
  LET token == req.token IN
  /\ req.scheme = "dpop" /\ req.hasProof
  /\ token.compact /\ token.iss # A!Absent
  /\ cfg.trusted = {} \/ \E t \in cfg.trusted : A!issuer_matches(t, token.iss)
  /\ A!TokenOk(token, world.jwks[token.iss], world.now)
  /\ cfg.audience = A!Absent \/ cfg.audience \in token.aud
  /\ <<token.webid, A!Bare(token.iss)>> \in world.profiles
  /\ A!ProofOk(req.proof, token.jkt, world.now)
  /\ req.proof.jti \notin world.seen

\* A request is from a WebID iff it passes every stage, and anonymous iff it
\* carries nothing.
LEMMA BelievedIffPassed ==
  ASSUME NEW req, NEW cfg, NEW world, req.token.webid \notin {"Public", "refused"}
  PROVE  LET result == A!authenticate(req, cfg, world) IN
         /\ Stages(req, cfg, world) => result.agent = req.token.webid
         /\ result.agent \notin {"Public", "refused"} => Stages(req, cfg, world)
         /\ result.agent = "Public" <=> req.scheme = A!Absent /\ ~req.hasProof
BY DEF Stages, A!authenticate, A!Outcome, A!Refusal, A!Absent

\* An issuer is asked for its keys only if it is trusted, a profile fetched only
\* for a token its issuer signed, a jti recorded only by a request that is
\* believed.
LEMMA ActsInOrder ==
  ASSUME NEW req, NEW cfg, NEW world, req.token.webid \notin {"Public", "refused"}
  PROVE  LET result == A!authenticate(req, cfg, world)
             token == req.token
         IN /\ result.fetched # {} =>
                 cfg.trusted = {} \/ \E t \in cfg.trusted : A!issuer_matches(t, token.iss)
            /\ result.profiled # {} => A!TokenOk(token, world.jwks[token.iss], world.now)
            /\ result.recorded # {} <=> Stages(req, cfg, world)
BY DEF Stages, A!authenticate, A!Outcome, A!Refusal, A!Absent, A!Records

\* verify_dpop accepts exactly the proofs of the key the token is bound to, for
\* this request and for now.
LEMMA ProofIsExact ==
  ASSUME NEW proof, NEW jkt, NEW now \in Int, proof.iat \in Int
  PROVE  A!ProofOk(proof, jkt, now) <=>
           /\ proof.by = jkt /\ proof.key = jkt
           /\ proof.compact /\ proof.typ /\ ~proof.jtiTooLong
           /\ <<proof.alg, proof.jwk>> \in {<<"RS256", "RSA">>, <<"ES256", "EC">>}
           /\ proof.htm = "same" /\ proof.htu = "same"
           /\ proof.iat - now <= FUTURE_SKEW_SECONDS
           /\ now - proof.iat <= MAX_AGE_SECONDS
<1>1. A!Fresh(proof.iat, now) <=> /\ proof.iat - now <= FUTURE_SKEW_SECONDS
                                  /\ now - proof.iat <= MAX_AGE_SECONDS
  BY FreshIsExact
<1>2. <<proof.alg, proof.jwk>> \in {<<"RS256", "RSA">>, <<"ES256", "EC">>} <=>
        \/ proof.alg = "RS256" /\ proof.jwk = "RSA"
        \/ proof.alg = "ES256" /\ proof.jwk = "EC"
  OBVIOUS
<1> QED BY <1>1, <1>2 DEF A!ProofOk, A!verify_rs256_proof, A!EsProofOk

\* authenticate believes a request iff everything bears it out.
LEMMA BelievedIsProven ==
  ASSUME NEW req, NEW cfg, NEW world,
         req.token.webid \notin {"Public", "refused"}, req.token.alg # A!NoVerifier,
         req.proof.iat \in Int, world.now \in Int,
         world.jwks[req.token.iss] \in Seq(A!Jwk)
  PROVE  A!BelievedIffProven(req, cfg, world)
<1> DEFINE token == req.token
           proof == req.proof
           keys == world.jwks[token.iss]
           signed == \E i \in DOMAIN keys :
                       LET k == keys[i] IN
                       /\ k.id = token.by
                       /\ token.kid \in {A!Absent, k.kid}
                       /\ token.alg \in {"RS256", "ES256"} /\ A!verifier_for(k) = token.alg
           proven == /\ token.compact /\ token.iss # A!Absent
                     /\ cfg.trusted = {} \/ \E t \in cfg.trusted : A!Bare(t) = A!Bare(token.iss)
                     /\ signed
                     /\ token.exp > world.now /\ token.webid # A!Absent
                     /\ cfg.audience \in {A!Absent} \cup token.aud
                     /\ <<token.webid, A!Bare(token.iss)>> \in world.profiles
                     /\ proof.by = token.jkt /\ proof.key = token.jkt /\ token.jkt # 0
                     /\ proof.compact /\ proof.typ /\ ~proof.jtiTooLong
                     /\ <<proof.alg, proof.jwk>> \in {<<"RS256", "RSA">>, <<"ES256", "EC">>}
                     /\ proof.htm = "same" /\ proof.htu = "same"
                     /\ proof.iat - world.now <= FUTURE_SKEW_SECONDS
                     /\ world.now - proof.iat <= MAX_AGE_SECONDS
                     /\ proof.jti \notin world.seen
           named == /\ token.kid # A!Absent
                    /\ \A i, j \in DOMAIN keys :
                         keys[i].kid = token.kid /\ keys[j].kid = token.kid => i = j
           result == A!authenticate(req, cfg, world)
<1>1. Stages(req, cfg, world) => proven
  <2> SUFFICES ASSUME Stages(req, cfg, world) PROVE proven
    OBVIOUS
  <2>1. signed
    BY SignedByIssuer DEF Stages
  <2>2. /\ proof.by = token.jkt /\ proof.key = token.jkt
        /\ proof.compact /\ proof.typ /\ ~proof.jtiTooLong
        /\ <<proof.alg, proof.jwk>> \in {<<"RS256", "RSA">>, <<"ES256", "EC">>}
        /\ proof.htm = "same" /\ proof.htu = "same"
        /\ proof.iat - world.now <= FUTURE_SKEW_SECONDS
        /\ world.now - proof.iat <= MAX_AGE_SECONDS
    BY ProofIsExact DEF Stages
  <2>3. token.exp > world.now /\ token.webid # A!Absent /\ token.jkt # 0
    BY DEF Stages, A!TokenOk
  <2> HIDE DEF signed
  <2> QED BY <2>1, <2>2, <2>3 DEF Stages, A!issuer_matches
<1>2. req.scheme = "dpop" /\ req.hasProof /\ proven /\ named => Stages(req, cfg, world)
  <2> SUFFICES ASSUME req.scheme = "dpop", req.hasProof, proven, named
               PROVE  Stages(req, cfg, world)
    OBVIOUS
  <2>1. PICK i \in DOMAIN keys : /\ keys[i].id = token.by /\ token.kid \in {A!Absent, keys[i].kid}
                                 /\ A!verifier_for(keys[i]) = token.alg
    OBVIOUS
  <2>2. keys[i].kid = token.kid /\ \A j \in DOMAIN keys : keys[j].kid = token.kid => i <= j
    <3>1. keys[i].kid = token.kid
      BY <2>1
    <3>2. \A j \in DOMAIN keys : keys[j].kid = token.kid => i = j
      BY <3>1
    <3>3. i \in Nat
      OBVIOUS
    <3> QED BY <3>1, <3>2, <3>3
  <2>3. A!TokenOk(token, keys, world.now)
    BY <2>1, <2>2, SignedIsTaken
  <2>4. A!ProofOk(proof, token.jkt, world.now)
    BY ProofIsExact
  <2> QED BY <2>3, <2>4 DEF Stages, A!issuer_matches
<1>3. Stages(req, cfg, world) => req.scheme = "dpop" /\ req.hasProof
  BY DEF Stages
<1>4. /\ Stages(req, cfg, world) => result.agent = token.webid
      /\ result.agent \notin {"Public", "refused"} => Stages(req, cfg, world)
      /\ result.agent = "Public" <=> req.scheme = A!Absent /\ ~req.hasProof
  BY BelievedIffPassed
<1>5. /\ result.agent = "Public" <=> req.scheme = A!Absent /\ ~req.hasProof
      /\ result.agent \notin {"Public", "refused"} =>
           req.scheme = "dpop" /\ req.hasProof /\ proven /\ result.agent = token.webid
      /\ req.scheme = "dpop" /\ req.hasProof /\ proven /\ named => result.agent = token.webid
  <2> HIDE DEF proven, named, result, token
  <2> QED BY <1>1, <1>2, <1>3, <1>4
<1> QED BY <1>5 DEF A!BelievedIffProven

\* What authenticate fetches and records before it believes a request.
LEMMA TrustComesFirst ==
  ASSUME NEW req, NEW cfg, NEW world,
         req.token.webid \notin {"Public", "refused"}, req.token.alg # A!NoVerifier,
         world.jwks[req.token.iss] \in Seq(A!Jwk)
  PROVE  A!ActsOnlyOnTrust(req, cfg, world)
<1> DEFINE token == req.token
           result == A!authenticate(req, cfg, world)
<1>1. /\ result.fetched # {} =>
           cfg.trusted = {} \/ \E t \in cfg.trusted : A!issuer_matches(t, token.iss)
      /\ result.profiled # {} => A!TokenOk(token, world.jwks[token.iss], world.now)
      /\ result.recorded # {} <=> Stages(req, cfg, world)
  BY ActsInOrder
<1>2. Stages(req, cfg, world) <=> result.agent \notin {"Public", "refused"}
  BY BelievedIffPassed
<1>3. A!TokenOk(token, world.jwks[token.iss], world.now) =>
        \E i \in DOMAIN world.jwks[token.iss] : world.jwks[token.iss][i].id = token.by
  BY SignedByIssuer
<1> HIDE DEF result
<1> QED BY <1>1, <1>2, <1>3 DEF A!ActsOnlyOnTrust, A!issuer_matches, result

\* The fields of a key, whatever is in them.
IsKey(k) ==
  \E id, kid, kty, curve, alg, use, verifies, d :
    k = [id |-> id, kid |-> kid, kty |-> kty, curve |-> curve, alg |-> alg, use |-> use,
         verifies |-> verifies, d |-> d]

\* What is published of a key.
LEMMA PublicHalf ==
  ASSUME NEW k, IsKey(k),
         NEW q, q = [k EXCEPT !.use = A!Absent, !.verifies = TRUE, !.d = FALSE]
  PROVE  /\ q.id = k.id /\ q.kid = k.kid /\ q.kty = k.kty /\ q.curve = k.curve /\ q.alg = k.alg
         /\ q.use = A!Absent /\ q.verifies = TRUE /\ ~q.d
<1>1. PICK id, kid, kty, curve, alg, use, verifies, d :
        k = [id |-> id, kid |-> kid, kty |-> kty, curve |-> curve, alg |-> alg, use |-> use,
             verifies |-> verifies, d |-> d]
  BY DEF IsKey
<1>2. q = [id |-> id, kid |-> kid, kty |-> kty, curve |-> curve, alg |-> alg, use |-> A!Absent,
           verifies |-> TRUE, d |-> FALSE]
  BY <1>1
<1> QED BY <1>1, <1>2

\* Every key a start goes on with has a name.
LEMMA KeysAreNamed ==
  ASSUME NEW k \in A!Jwk, k.id \in 1..3
  PROVE  IsKey(A!WithKid(k)) /\ A!WithKid(k).kid # A!Absent
<1>1. CASE k.kid # A!Absent
  BY <1>1 DEF A!WithKid, A!Jwk, IsKey
<1>2. CASE k.kid = A!Absent
  <2>1. A!thumbprint(k) \in {"thumb1", "thumb2", "thumb3"}
    <3>1. k.id \in {1, 2, 3}
      OBVIOUS
    <3> QED BY <3>1 DEF A!thumbprint, A!Thumbprints
  <2>2. A!WithKid(k) = [k EXCEPT !.kid = A!thumbprint(k)]
    BY <1>2 DEF A!WithKid
  <2>3. A!WithKid(k).kid = A!thumbprint(k) /\ IsKey(A!WithKid(k))
    BY <2>2 DEF A!Jwk, IsKey
  <2> QED BY <2>1, <2>3 DEF A!Absent
<1> QED BY <1>1, <1>2

\* Keys a start goes on with sign what their published halves verify.
LEMMA OwnTokenPasses ==
  ASSUME NEW S, NEW keys \in Seq(S), keys # <<>>, keys[1].kid # A!Absent,
         \A i \in DOMAIN keys : IsKey(keys[i]),
         A!SignerBuilds(keys[1], A!signer_for(keys[1])), NEW now \in Int
  PROVE  LET token == A!mint_access_token(keys, "alice", 1, now) IN
         /\ A!TokenOk(token, A!public_jwks(keys), now)
         /\ \A i \in DOMAIN keys : ~A!public_jwks(keys)[i].d
         /\ token.alg \in A!signing_algs(keys)
<1> DEFINE token == A!mint_access_token(keys, "alice", 1, now)
           public == A!public_jwks(keys)
           key == keys[1]
           T == {public[i] : i \in DOMAIN public}
<1>1. /\ DOMAIN public = DOMAIN keys /\ 1 \in DOMAIN keys
      /\ public \in Seq(T)
  <2>1. public \in [1..Len(keys) -> T] /\ DOMAIN public = DOMAIN keys
    <3>1. DOMAIN public = DOMAIN keys /\ public = [i \in DOMAIN public |-> public[i]]
      BY DEF A!public_jwks
    <3>2. DOMAIN keys = 1..Len(keys)
      OBVIOUS
    <3> HIDE DEF public
    <3> QED BY <3>1, <3>2
  <2>2. 1 \in DOMAIN keys /\ Len(keys) \in Nat
    OBVIOUS
  <2> HIDE DEF public, T
  <2> QED BY <2>1, <2>2
<1>2. /\ public[1].id = key.id /\ public[1].kid = key.kid /\ public[1].kty = key.kty
      /\ public[1].curve = key.curve /\ public[1].alg = key.alg
      /\ public[1].use = A!Absent /\ public[1].verifies = TRUE
  <2>1. public[1] = [key EXCEPT !.use = A!Absent, !.verifies = TRUE, !.d = FALSE]
    BY <1>1 DEF A!public_jwks
  <2>2. IsKey(key)
    BY <1>1
  <2> HIDE DEF public, key
  <2>3. ASSUME NEW q, q = [key EXCEPT !.use = A!Absent, !.verifies = TRUE, !.d = FALSE]
        PROVE  /\ q.id = key.id /\ q.kid = key.kid /\ q.kty = key.kty
               /\ q.curve = key.curve /\ q.alg = key.alg
               /\ q.use = A!Absent /\ q.verifies = TRUE
    BY <2>2, <2>3, PublicHalf, Zenon
  <2> QED BY <2>1, <2>3, Zenon
<1>3. /\ token.kid = key.kid /\ token.by = key.id /\ token.alg = A!signer_for(key)
      /\ token.exp > now /\ token.webid # A!Absent /\ token.jkt # 0
  BY DEF A!mint_access_token, A!ACCESS_TOKEN_TTL_SECS, A!Absent
<1>4. A!verifier_for(public[1]) = token.alg /\ token.alg # A!NoVerifier
  BY <1>2, <1>3 DEF A!verifier_for, A!SignerBuilds, A!signer_for, A!NoVerifier, A!Absent
<1>5. A!TokenOk(token, public, now)
  <2>1. \A j \in DOMAIN public : public[j].kid = token.kid => 1 <= j
    BY <1>1
  <2>2. /\ 1 \in DOMAIN public /\ public[1].id = token.by /\ public[1].kid = token.kid
        /\ token.kid # A!Absent
    BY <1>1, <1>2, <1>3
  <2> HIDE DEF token, public, key, T
  <2> QED BY <1>1, <1>3, <1>4, <2>1, <2>2, SignedIsTaken
<1>6. token.alg \in A!signing_algs(keys)
  BY <1>1, <1>3 DEF A!signing_algs, A!alg_of, A!SignerBuilds, A!signer_for, A!Absent
<1>7. \A i \in DOMAIN keys : ~public[i].d
  <2> SUFFICES ASSUME NEW i \in DOMAIN keys PROVE ~public[i].d
    OBVIOUS
  <2>1. public[i] = [keys[i] EXCEPT !.use = A!Absent, !.verifies = TRUE, !.d = FALSE]
    BY DEF A!public_jwks
  <2> HIDE DEF public
  <2> QED BY <2>1, PublicHalf
<1> QED BY <1>5, <1>6, <1>7

\* verify_access_token accepts the tokens the pod mints with the keys of its file.
LEMMA OwnTokensPass ==
  ASSUME NEW file, NEW now \in Int, file.keys \in Seq({k \in A!Jwk : k.id \in 1..3})
  PROVE  A!OwnTokensVerify(file, now)
<1> DEFINE started == A!load_or_generate(file, "no")
           keys == started.keys
           read == [i \in DOMAIN file.keys |-> A!WithKid(file.keys[i])]
           token == A!mint_access_token(keys, "alice", 1, now)
<1> SUFFICES ASSUME started.ok
             PROVE  /\ A!TokenOk(token, A!public_jwks(keys), now)
                    /\ \A i \in DOMAIN keys : ~A!public_jwks(keys)[i].d
                    /\ token.alg \in A!signing_algs(keys)
  BY DEF A!OwnTokensVerify
<1>1. \/ keys = <<A!GeneratedKey>>
      \/ keys = read /\ read # <<>> /\ A!SignerBuilds(read[1], A!signer_for(read[1]))
  BY DEF A!load_or_generate, A!Started, A!NotStarted
<1>2. \A i \in DOMAIN file.keys : file.keys[i] \in A!Jwk /\ file.keys[i].id \in 1..3
  OBVIOUS
<1>3. \E S : keys \in Seq(S)
  <2>1. CASE keys = <<A!GeneratedKey>>
    <3>1. <<A!GeneratedKey>> \in Seq({A!GeneratedKey})
      OBVIOUS
    <3> QED BY <2>1, <3>1
  <2>2. CASE keys = read
    <3> DEFINE T == {A!WithKid(file.keys[i]) : i \in DOMAIN file.keys}
    <3>1. DOMAIN file.keys = 1..Len(file.keys) /\ Len(file.keys) \in Nat
      OBVIOUS
    <3>2. read \in [1..Len(file.keys) -> T]
      BY <3>1
    <3>3. read \in Seq(T)
      <4> HIDE DEF read, T
      <4> QED BY <3>1, <3>2
    <3> QED BY <2>2, <3>3
  <2> QED BY <1>1, <2>1, <2>2
<1>4. /\ keys # <<>> /\ keys[1].kid # A!Absent
      /\ \A i \in DOMAIN keys : IsKey(keys[i])
      /\ A!SignerBuilds(keys[1], A!signer_for(keys[1]))
  <2>1. CASE keys = <<A!GeneratedKey>>
    <3>1. /\ <<A!GeneratedKey>> # <<>> /\ <<A!GeneratedKey>>[1] = A!GeneratedKey
          /\ DOMAIN <<A!GeneratedKey>> = {1}
      OBVIOUS
    <3>2. /\ A!GeneratedKey.kid # A!Absent /\ IsKey(A!GeneratedKey)
          /\ A!SignerBuilds(A!GeneratedKey, A!signer_for(A!GeneratedKey))
      BY DEF A!SignerBuilds, A!signer_for, A!GeneratedKey, A!Absent, IsKey
    <3> HIDE DEF keys
    <3> QED BY <2>1, <3>1, <3>2
  <2>2. CASE keys # <<A!GeneratedKey>>
    <3>1. keys = read /\ read # <<>> /\ A!SignerBuilds(read[1], A!signer_for(read[1]))
      BY <1>1, <2>2
    <3>2. 1 \in DOMAIN file.keys
      BY <3>1
    <3>3. DOMAIN read = DOMAIN file.keys
          /\ \A i \in DOMAIN file.keys : read[i] = A!WithKid(file.keys[i])
      OBVIOUS
    <3>4. \A i \in DOMAIN file.keys : /\ A!WithKid(file.keys[i]).kid # A!Absent
                                      /\ IsKey(A!WithKid(file.keys[i]))
      BY <1>2, KeysAreNamed
    <3> HIDE DEF keys, read
    <3> QED BY <3>1, <3>2, <3>3, <3>4
  <2> QED BY <2>1, <2>2
<1> HIDE DEF keys
<1> QED BY <1>3, <1>4, OwnTokenPasses

\* An agent is a WebID exactly when token, profile and proof bear it out, nothing
\* is fetched or recorded before, and the pod's own tokens pass: whatever the
\* request, the configuration, the world it is judged in and the key file.
THEOREM IdentitiesAreProven == Spec => []IdentityIsProven
<1>1. Asked => IdentityIsProven
  <2> SUFFICES ASSUME Asked
               PROVE  BelievedIffProven /\ ActsOnlyOnTrust /\ OwnTokensVerify
    BY DEF IdentityIsProven
  <2>1. ASSUME asked.what = "request"
        PROVE  /\ asked.x.req.token.webid \notin {"Public", "refused"}
               /\ asked.x.req.token.alg # A!NoVerifier
               /\ asked.x.req.proof.iat \in Int /\ asked.x.world.now \in Int
               /\ asked.x.world.jwks[asked.x.req.token.iss] \in Seq(A!Jwk)
    BY <2>1, InputsAssumption DEF Asked
  <2>2. BelievedIffProven
    BY <2>1, BelievedIsProven DEF BelievedIffProven
  <2>3. ActsOnlyOnTrust
    BY <2>1, TrustComesFirst DEF ActsOnlyOnTrust
  <2>4. OwnTokensVerify
    <3> SUFFICES ASSUME asked.what = "mint" PROVE A!OwnTokensVerify(asked.x.file, asked.x.now)
      BY DEF OwnTokensVerify
    <3>1. /\ asked.x.now \in Int
          /\ asked.x.file.keys \in Seq({k \in A!Jwk : k.id \in 1..3})
      BY InputsAssumption DEF Asked
    <3> QED BY <3>1, OwnTokensPass
  <2> QED BY <2>2, <2>3, <2>4
<1> QED BY <1>1, AskedAlways, PTL

-----------------------------------------------------------------------------
(* Fetching: auth/safe_fetch.rs *)

\* Every entry of a policy stands for one its operator wrote, with a host, and
\* with the port it names or for all.
LEMMA PolicyIsWritten ==
  ASSUME NEW entries, entries \subseteq F!HostEntries, NEW p \in F!try_fetch_policy(entries)
  PROVE  \E e \in entries : /\ e.form \in {"name", "bracketed", "bare6"}
                            /\ e.host = p.host /\ e.port = p.port /\ ~e.splits
<1>1. PICK e \in entries : /\ p = F!parse_insecure_host_entry(e) /\ p # F!NoEntry
  BY DEF F!try_fetch_policy, F!Written, F!Rejected_
<1>2. e.form \notin {"blank", "adorned"} /\ ~(e.form = "bare6" /\ e.splits)
  BY <1>1 DEF F!parse_insecure_host_entry
<1>3. p = [host |-> e.host, port |-> IF e.form = "bare6" THEN F!AnyPort ELSE e.port]
  BY <1>1 DEF F!parse_insecure_host_entry
<1>4. /\ e.form \in {"name", "bracketed", "bare6", "blank", "adorned"}
      /\ e.form = "bare6" => e.port = F!AnyPort
      /\ e.splits => e.form = "bare6"
  BY DEF F!HostEntries
<1> QED BY <1>2, <1>3, <1>4

\* Without an entry for its host and port a URL is not fetched in the clear, and
\* a private address is reached only of a host some entry names.
LEMMA OnlyVouchedIsReached ==
  ASSUME NEW entries, entries \subseteq F!HostEntries, NEW url, NEW first, NEW second
  PROVE  F!ReachesOnlyVouched(entries, url, first, second)
<1> DEFINE policy == F!try_fetch_policy(entries)
           response == [status |-> 200, declared |-> 0, chunks |-> <<>>, utf8 |-> TRUE]
           r == F!guarded_get(policy, url, first, second, response)
           private == {ip \in r.reached : F!is_forbidden_ip(ip)}
           named == \E port \in {e.port : e \in entries} \cup {url.port} :
                      F!Vouched(entries, url.host, port)
<1> SUFFICES ASSUME ~F!Vouched(entries, url.host, url.port)
             PROVE  /\ r.reached # {} => url.scheme = "https"
                    /\ private # {} => /\ named /\ ~F!IsLiteral(url.host)
                                       /\ \A ip \in first : ~F!is_forbidden_ip(ip)
  BY DEF F!ReachesOnlyVouched
<1>1. ~F!permits_insecure(policy, url.host, url.port)
  <2> SUFFICES ASSUME NEW p \in policy, p.host = url.host, p.port \in {F!AnyPort, url.port}
               PROVE  FALSE
    BY DEF F!permits_insecure
  <2>1. PICK e \in entries : /\ e.form \in {"name", "bracketed", "bare6"}
                             /\ e.host = p.host /\ e.port = p.port /\ ~e.splits
    BY PolicyIsWritten
  <2> QED BY <2>1 DEF F!Vouched
<1>2. F!permits_insecure_host(policy, url.host) => named
  <2> SUFFICES ASSUME NEW p \in policy, p.host = url.host PROVE named
    BY DEF F!permits_insecure_host
  <2>1. PICK e \in entries : /\ e.form \in {"name", "bracketed", "bare6"}
                             /\ e.host = p.host /\ e.port = p.port /\ ~e.splits
    BY PolicyIsWritten
  <2>2. F!Vouched(entries, url.host, e.port)
    BY <2>1 DEF F!Vouched
  <2> QED BY <2>2
<1>3. ASSUME r.reached # {}
      PROVE  /\ url.scheme = "https"
             /\ F!resolve_allowed(policy, url, first)
             /\ r.reached = F!Candidates(policy, url, second)
  BY <1>1, <1>3 DEF F!guarded_get
<1>4. ASSUME private # {}
      PROVE  /\ ~F!IsLiteral(url.host)
             /\ F!permits_insecure_host(policy, url.host)
             /\ \A ip \in first : ~F!is_forbidden_ip(ip)
  <2>1. PICK ip \in r.reached : F!is_forbidden_ip(ip)
    BY <1>4
  <2> HIDE DEF r, policy, named
  <2>2. F!resolve_allowed(policy, url, first) /\ ip \in F!Candidates(policy, url, second)
    BY <1>3, <2>1
  <2>3. ~F!IsLiteral(url.host)
    BY <1>1, <2>1, <2>2 DEF F!resolve_allowed, F!Candidates, F!screen_addresses
  <2>4. \A a \in first : ~F!is_forbidden_ip(a)
    BY <1>1, <2>2, <2>3 DEF F!resolve_allowed, F!screen_addresses
  <2>5. F!permits_insecure_host(policy, url.host)
    BY <2>1, <2>2, <2>3 DEF F!Candidates, F!PolicyResolver, F!screen_addresses
  <2> QED BY <2>3, <2>4, <2>5
<1> QED BY <1>2, <1>3, <1>4

\* A run of zeros, as a sequence.
LEMMA ZerosType ==
  ASSUME NEW n \in Nat
  PROVE  F!Zeros(n) \in Seq(Nat) /\ Len(F!Zeros(n)) = n /\ \A i \in 1..n : F!Zeros(n)[i] = 0
<1>1. F!Zeros(n) \in [1..n -> Nat] /\ \A i \in 1..n : F!Zeros(n)[i] = 0
  BY DEF F!Zeros
<1> QED BY <1>1

\* Two words after six: what Embedded and the tests of the prefix read off.
LEMMA SixAndTwo ==
  ASSUME NEW six \in Seq(Nat), Len(six) = 6, NEW x \in Nat, NEW y \in Nat
  PROVE  LET w == six \o <<x, y>> IN
         /\ w \in Seq(Nat) /\ Len(w) = 8
         /\ SubSeq(w, 1, 6) = six
         /\ w[7] = x /\ w[8] = y
         /\ \A i \in 1..6 : w[i] = six[i]
<1> DEFINE w == six \o <<x, y>>
<1>1. <<x, y>> \in Seq(Nat) /\ Len(<<x, y>>) = 2
  OBVIOUS
<1>2. w \in Seq(Nat) /\ Len(w) = 8
  <2> HIDE DEF w
  <2>1. w \in Seq(Nat) /\ Len(w) = Len(six) + Len(<<x, y>>)
    BY <1>1, ConcatProperties, Zenon DEF w
  <2> QED BY <1>1, <2>1
<1>3. /\ \A i \in 1..6 : w[i] = six[i]
      /\ w[7] = x /\ w[8] = y
  BY <1>1, <1>2
<1> HIDE DEF w
<1>4. SubSeq(w, 1, 6) = six
  <2>1. SubSeq(w, 1, 6) \in Seq(Nat) /\ Len(SubSeq(w, 1, 6)) = 6
    <3>1. ASSUME NEW i \in 1..6 PROVE w[i] \in Nat
      <4>1. i \in 1..Len(w)
        BY <1>2
      <4> QED BY <1>2, <4>1, ElementOfSeq
    <3> QED BY <3>1, SubSeqProperties
  <2>2. \A i \in 1..6 : SubSeq(w, 1, 6)[i] = six[i]
    BY <1>2, <1>3
  <2> QED BY <2>1, <2>2, SeqEqual
<1> QED BY <1>2, <1>3, <1>4 DEF w

\* A word takes two octets and gives them back.
LEMMA Octets ==
  ASSUME NEW a \in 0..255, NEW b \in 0..255
  PROVE  (a * 256 + b) \div 256 = a /\ (a * 256 + b) % 256 = b
OBVIOUS

\* And is a number.
LEMMA TwoOctets ==
  ASSUME NEW a \in 0..255, NEW b \in 0..255
  PROVE  a * 256 + b \in Nat
OBVIOUS

\* The octets of the two words an IPv4 address is carried in are its own.
LEMMA EmbeddedIsItself ==
  ASSUME NEW v \in [1..4 -> 0..255], NEW w, w[7] = v[1] * 256 + v[2], w[8] = v[3] * 256 + v[4]
  PROVE  F!Embedded(w) = v
<1> DEFINE a == v[1]
           b == v[2]
           c == v[3]
           d == v[4]
<1>1. a \in 0..255 /\ b \in 0..255 /\ c \in 0..255 /\ d \in 0..255
  OBVIOUS
<1>2. w[7] = a * 256 + b /\ w[8] = c * 256 + d
  OBVIOUS
<1>3. v = <<a, b, c, d>>
  OBVIOUS
<1> HIDE DEF a, b, c, d
<1>4. (a * 256 + b) \div 256 = a /\ (a * 256 + b) % 256 = b
  BY <1>1, Octets
<1>5. (c * 256 + d) \div 256 = c /\ (c * 256 + d) % 256 = d
  BY <1>1, Octets
<1>6. F!Embedded(w) = <<a, b, c, d>>
  BY <1>2, <1>4, <1>5, Zenon DEF F!Embedded
<1> QED BY <1>3, <1>6

\* One word after five.
LEMMA FiveAndOne ==
  ASSUME NEW five \in Seq(Nat), Len(five) = 5, NEW x \in Nat
  PROVE  /\ Append(five, x) \in Seq(Nat)
         /\ Len(Append(five, x)) = 6
         /\ Append(five, x)[6] = x
<1>1. /\ Append(five, x) \in Seq(Nat)
      /\ Len(Append(five, x)) = Len(five) + 1
      /\ Append(five, x)[Len(five) + 1] = x
  BY AppendProperties, Zenon
<1>2. Len(five) + 1 = 6
  <2> DEFINE n == Len(five)
  <2>1. n = 5
    OBVIOUS
  <2> HIDE DEF n
  <2>2. n + 1 = 6
    BY <2>1
  <2> QED BY <2>2 DEF n
<1> QED BY <1>1, <1>2, Zenon

\* The two prefixes an IPv4 address is carried behind.
LEMMA Prefixes ==
  /\ F!MappedPrefix \in Seq(Nat) /\ Len(F!MappedPrefix) = 6
  /\ F!CompatiblePrefix \in Seq(Nat) /\ Len(F!CompatiblePrefix) = 6
<1>1. F!CompatiblePrefix \in Seq(Nat) /\ Len(F!CompatiblePrefix) = 6
  BY ZerosType DEF F!CompatiblePrefix
<1> DEFINE five == F!Zeros(5)
           last == 65535
<1>2. five \in Seq(Nat) /\ Len(five) = 5
  BY ZerosType
<1>3. last \in Nat /\ F!MappedPrefix = Append(five, last)
  BY DEF F!MappedPrefix
<1> HIDE DEF five, last
<1>4. Append(five, last) \in Seq(Nat) /\ Len(Append(five, last)) = 6
  BY <1>2, <1>3, FiveAndOne, Zenon
<1> QED BY <1>1, <1>3, <1>4, Zenon

\* The addresses of IPv4, and the two words that carry one.
FourOctets == [1..4 -> 0..255]
TwoWords(v) == <<v[1] * 256 + v[2], v[3] * 256 + v[4]>>

\* An IPv4 address behind a prefix, in the two words after it, is the address.
LEMMA CarriedBehind ==
  ASSUME NEW six \in Seq(Nat), Len(six) = 6, NEW v \in FourOctets
  PROVE  SubSeq(six \o TwoWords(v), 1, 6) = six /\ F!Embedded(six \o TwoWords(v)) = v
<1> DEFINE x == v[1] * 256 + v[2]
           y == v[3] * 256 + v[4]
           w == six \o <<x, y>>
<1>1. x \in Nat /\ y \in Nat
  <2> DEFINE a == v[1]
             b == v[2]
             c == v[3]
             d == v[4]
  <2>1. a \in 0..255 /\ b \in 0..255 /\ c \in 0..255 /\ d \in 0..255
    BY DEF FourOctets
  <2>2. x = a * 256 + b /\ y = c * 256 + d
    OBVIOUS
  <2> HIDE DEF a, b, c, d, x, y
  <2>3. a * 256 + b \in Nat /\ c * 256 + d \in Nat
    BY <2>1, TwoOctets
  <2> QED BY <2>2, <2>3
<1> HIDE DEF x, y
<1>2. SubSeq(w, 1, 6) = six /\ w[7] = x /\ w[8] = y
  BY <1>1, SixAndTwo
<1> HIDE DEF w
<1>3. F!Embedded(w) = v
  BY <1>2, EmbeddedIsItself DEF x, y, FourOctets
<1> QED BY <1>2, <1>3 DEF w, x, y, TwoWords

\* is_forbidden_ip of an IPv6 address behind either prefix asks about the address
\* it carries, or refuses it.
LEMMA JudgedByCarried ==
  ASSUME NEW w, F!ForbiddenV4(F!Embedded(w)),
         SubSeq(w, 1, 6) = F!MappedPrefix \/ SubSeq(w, 1, 6) = F!CompatiblePrefix
  PROVE  F!is_forbidden_ip(F!V6(w))
<1>1. F!V6(w).family = 6 /\ F!V6(w).words = w
  BY DEF F!V6
<1> DEFINE ip == F!V6(w)
           mapped == SubSeq(w, 1, 6) = F!MappedPrefix
           special == w \in F!LoopbackOrUnspecified
           compat == SubSeq(w, 1, 6) = F!CompatiblePrefix
           carried == F!ForbiddenV4(F!Embedded(w))
           local == F!is_unique_local(w) \/ F!is_link_local_v6(w)
<1>2. ip.family # 4
  BY <1>1
<1>3. F!is_forbidden_ip(ip) =
        IF mapped THEN carried
        ELSE IF compat /\ ~special THEN carried
        ELSE special \/ local
  <2> HIDE DEF ip
  <2>1. ip.words = w
    BY <1>1 DEF ip
  <2> QED BY <1>2, <2>1, Zenon DEF F!is_forbidden_ip
<1>4. carried /\ (mapped \/ compat)
  BY Zenon
<1> HIDE DEF ip, mapped, special, compat, carried, local
<1>5. F!is_forbidden_ip(ip)
  BY <1>3, <1>4
<1> QED BY <1>5 DEF ip

\* An IPv4 address is refused however IPv6 carries it.
LEMMA JudgedAlike ==
  ASSUME NEW v4, v4.family = 4, v4.words \in [1..4 -> 0..255]
  PROVE  F!JudgedByWhatItReaches(v4)
<1> DEFINE v == v4.words
           tail == TwoWords(v)
           five == F!MappedPrefix
           six == F!CompatiblePrefix
           m == five \o tail
           z == six \o tail
<1>1. five \in Seq(Nat) /\ Len(five) = 6 /\ six \in Seq(Nat) /\ Len(six) = 6
  BY Prefixes, Zenon
<1>2. v \in FourOctets
  BY DEF FourOctets
<1>3. F!is_forbidden_ip(v4) => F!ForbiddenV4(v)
  BY Zenon DEF F!is_forbidden_ip
<1>4. (F!is_forbidden_ip(v4) => F!is_forbidden_ip(F!V6(m)) /\ F!is_forbidden_ip(F!V6(z)))
        => F!JudgedByWhatItReaches(v4)
  BY DEF F!JudgedByWhatItReaches, TwoWords
<1>5. SubSeq(m, 1, 6) = five /\ F!Embedded(m) = v
  <2> HIDE DEF five, v
  <2> QED BY <1>1, <1>2, CarriedBehind, Zenon
<1>6. SubSeq(z, 1, 6) = six /\ F!Embedded(z) = v
  <2> HIDE DEF six, v
  <2> QED BY <1>1, <1>2, CarriedBehind, Zenon
<1>7. F!ForbiddenV4(v) => F!is_forbidden_ip(F!V6(m)) /\ F!is_forbidden_ip(F!V6(z))
  <2> SUFFICES ASSUME F!ForbiddenV4(v)
               PROVE  F!is_forbidden_ip(F!V6(m)) /\ F!is_forbidden_ip(F!V6(z))
    OBVIOUS
  <2> HIDE DEF m, z, v
  <2>1. F!ForbiddenV4(F!Embedded(m)) /\ F!ForbiddenV4(F!Embedded(z))
    BY <1>5, <1>6, Zenon
  <2> QED BY <1>5, <1>6, <2>1, JudgedByCarried, Zenon
<1> HIDE DEF m, z, v
<1> QED BY <1>3, <1>4, <1>7

-----------------------------------------------------------------------------
\* The running total is a function of the number of chunks taken.
IsTotal(chunks, n, f) ==
  f = [i \in 0..n |-> IF i = 0 THEN 0 ELSE f[i - 1] + chunks[i]]

\* The recursion of Buffered has a solution, up to any chunk.
LEMMA TotalExists ==
  ASSUME NEW chunks \in Seq(Nat), NEW n \in 0..Len(chunks)
  PROVE  \E f \in [0..n -> Nat] : IsTotal(chunks, n, f)
<1> DEFINE Step == [i \in 1..n |-> [x \in Nat |-> x + chunks[i]]]
<1>1. n \in Nat /\ \A i \in 1..n : chunks[i] \in Nat
  OBVIOUS
<1>2. Step \in [1..n -> [Nat -> Nat]]
  BY <1>1
<1>3. PICK f : Recursion(Nat, 0, n, Step, f)
  <2>1. 0 \in Nat
    OBVIOUS
  <2> HIDE DEF Step
  <2> QED BY <1>1, <1>2, <2>1, RecursionExists, Zenon
<1>4. /\ f \in [0..n -> Nat] /\ f[0] = 0
      /\ \A i \in 1..n : f[i] = Step[i][f[i - 1]]
  BY <1>3, Zenon DEF Recursion
<1>5. \A i \in 1..n : f[i] = f[i - 1] + chunks[i]
  <2>1. \A i \in 1..n : f[i - 1] \in Nat
    BY <1>1, <1>4
  <2> QED BY <1>4, <2>1
<1>6. \A i \in 0..n : i = 0 \/ i \in 1..n
  BY <1>1
<1>7. \A i \in 0..n : f[i] = IF i = 0 THEN 0 ELSE f[i - 1] + chunks[i]
  BY <1>4, <1>5, <1>6, Zenon
<1>8. f = [i \in 0..n |-> IF i = 0 THEN 0 ELSE f[i - 1] + chunks[i]]
  BY <1>4, <1>7
<1> QED BY <1>4, <1>8, Zenon DEF IsTotal

\* Buffered is that function.
LEMMA BufferedIsTotal ==
  ASSUME NEW chunks \in Seq(Nat)
  PROVE  /\ F!Buffered(chunks) \in [0..Len(chunks) -> Nat]
         /\ F!Buffered(chunks)[0] = 0
         /\ \A i \in 1..Len(chunks) :
              F!Buffered(chunks)[i] = F!Buffered(chunks)[i - 1] + chunks[i]
<1> DEFINE n == Len(chunks)
           b == F!Buffered(chunks)
<1>1. n \in Nat /\ n \in 0..Len(chunks)
  OBVIOUS
<1>2. PICK f \in [0..n -> Nat] : IsTotal(chunks, n, f)
  BY <1>1, TotalExists, Zenon
<1>3. b = CHOOSE g : IsTotal(chunks, n, g)
  BY Zenon DEF F!Buffered, IsTotal
<1>4. IsTotal(chunks, n, b)
  <2> HIDE DEF b
  <2> QED BY <1>2, <1>3, Zenon
<1> HIDE DEF b
<1>5. /\ DOMAIN b = 0..n
      /\ \A i \in 0..n : b[i] = IF i = 0 THEN 0 ELSE b[i - 1] + chunks[i]
  BY <1>4 DEF IsTotal
<1>6. IsTotal(chunks, n, b) => b = [i \in 0..n |-> b[i]]
  BY DEF IsTotal
<1>7. \A i \in 1..n : chunks[i] \in Nat
  OBVIOUS
<1> HIDE DEF n
<1>8. b[0] = 0 /\ \A i \in 1..n : b[i] = b[i - 1] + chunks[i]
  BY <1>1, <1>5
<1>9. \A i \in 0..n : b[i] \in Nat
  <2> DEFINE Bad == {k \in 0..n : b[k] \notin Nat}
  <2> SUFFICES ASSUME Bad # {} PROVE FALSE
    OBVIOUS
  <2>1. Bad \subseteq Nat
    OBVIOUS
  <2>2. PICK k \in Bad : \A j \in Bad : k <= j
    <3> HIDE DEF Bad
    <3> QED BY <2>1, LeastExists
  <2>3. k \in 1..n
    BY <1>1, <1>8, <2>2
  <2>4. k - 1 \in 0..n /\ ~(k <= k - 1)
    BY <1>1, <2>3
  <2>5. b[k - 1] \in Nat
    BY <2>2, <2>4
  <2> QED BY <1>7, <1>8, <2>2, <2>3, <2>5
<1> QED BY <1>4, <1>6, <1>8, <1>9 DEF n, b

\* A total only grows, so the last one bounds them all.
LEMMA TotalsGrow ==
  ASSUME NEW chunks \in Seq(Nat), NEW i \in 0..Len(chunks)
  PROVE  F!Buffered(chunks)[i] <= F!Buffered(chunks)[Len(chunks)]
<1> DEFINE n == Len(chunks)
           b == F!Buffered(chunks)
           Bad == {k \in 0..n : ~(b[n - k] <= b[n])}
<1>1. /\ n \in Nat
      /\ \A k \in 0..n : b[k] \in Nat
      /\ \A k \in 1..n : b[k] = b[k - 1] + chunks[k] /\ chunks[k] \in Nat
  BY BufferedIsTotal
<1> HIDE DEF n, b
<1>2. Bad = {}
  <2> SUFFICES ASSUME Bad # {} PROVE FALSE
    OBVIOUS
  <2>1. Bad \subseteq Nat
    OBVIOUS
  <2>2. PICK k \in Bad : \A j \in Bad : k <= j
    <3> HIDE DEF Bad
    <3> QED BY <2>1, LeastExists
  <2>3. k \in 0..n /\ k # 0
    BY <1>1, <2>2
  <2>4. k - 1 \in 0..n /\ k - 1 \notin Bad
    <3>1. k - 1 \in 0..n /\ ~(k <= k - 1)
      BY <1>1, <2>3
    <3> HIDE DEF Bad
    <3> QED BY <2>2, <3>1
  <2>5. b[n - (k - 1)] <= b[n]
    BY <2>4
  <2>6. n - (k - 1) \in 1..n /\ (n - (k - 1)) - 1 = n - k
    BY <1>1, <2>3
  <2>7. b[n - k] <= b[n - (k - 1)]
    <3> DEFINE m == n - (k - 1)
    <3>1. m \in 1..n /\ m - 1 = n - k
      BY <2>6
    <3> HIDE DEF m
    <3>2. b[m] = b[m - 1] + chunks[m] /\ chunks[m] \in Nat
      BY <1>1, <3>1
    <3>3. b[m - 1] \in Nat
      <4>1. m - 1 \in 0..n
        BY <1>1, <3>1
      <4> QED BY <1>1, <4>1
    <3>4. b[m - 1] <= b[m]
      BY <3>2, <3>3
    <3> QED BY <3>1, <3>4 DEF m
  <2>8. b[n - k] <= b[n]
    BY <1>1, <2>3, <2>5, <2>6, <2>7
  <2> QED BY <2>2, <2>8
<1>3. n - i \in 0..n /\ n - (n - i) = i
  BY <1>1 DEF n
<1>4. b[i] <= b[n]
  BY <1>2, <1>3
<1> QED BY <1>4 DEF n, b

\* guarded_get holds a body iff every total is within the cap, which the last
\* one decides.
LEMMA HeldWithinTheCap ==
  ASSUME NEW declared \in Int, NEW chunks \in Seq(Nat)
  PROVE  F!NeverBeyondTheCap(declared, chunks)
<1> DEFINE url == [scheme |-> "https", host |-> F!Name("issuer"), port |-> 443]
           public == {F!V4(8, 8, 8, 8)}
           response == [status |-> 200, declared |-> declared, chunks |-> chunks, utf8 |-> TRUE]
           r == F!guarded_get({}, url, public, public, response)
           sent == F!Buffered(chunks)[Len(chunks)]
<1>1. /\ url.scheme = "https" /\ url.host = F!Name("issuer")
      /\ ~F!IsLiteral(url.host)
  BY DEF F!IsLiteral, F!Name
<1>2. \A ip \in public : ~F!is_forbidden_ip(ip)
  BY DEF F!V4, F!is_forbidden_ip, F!ForbiddenV4, F!is_cgnat
<1>3. F!screen_addresses(public, FALSE) /\ F!screen_addresses(public, TRUE)
  BY <1>2 DEF F!screen_addresses
<1> HIDE DEF public
<1>4. F!resolve_allowed({}, url, public)
  BY <1>1, <1>3 DEF F!resolve_allowed, F!permits_insecure
<1>5. F!Candidates({}, url, public) # {}
  <2>1. public # {}
    BY DEF public
  <2> QED BY <1>1, <1>3, <2>1 DEF F!Candidates, F!PolicyResolver, F!permits_insecure_host
<1>6. r.ok <=> F!SizeOk(declared, chunks)
  <2> HIDE DEF url
  <2> QED BY <1>1, <1>4, <1>5 DEF F!guarded_get
<1>7. F!SizeOk(declared, chunks) <=> sent <= MaxBodyBytes /\ declared <= MaxBodyBytes
  <2> DEFINE b == F!Buffered(chunks)
             n == Len(chunks)
  <2>1. /\ n \in Nat /\ MaxBodyBytes \in Nat
        /\ \A i \in 0..n : b[i] \in Nat /\ b[i] <= b[n]
        /\ b[0] = 0
    BY BufferedIsTotal, TotalsGrow, LimitsAssumption
  <2>2. F!SizeOk(declared, chunks) <=>
          declared <= MaxBodyBytes /\ \A i \in 1..n : b[i] <= MaxBodyBytes
    BY Zenon DEF F!SizeOk
  <2>3. sent = b[n]
    OBVIOUS
  <2> HIDE DEF b, n, sent
  <2>4. (\A i \in 1..n : b[i] <= MaxBodyBytes) <=> b[n] <= MaxBodyBytes
    BY <2>1
  <2> QED BY <2>2, <2>3, <2>4
<1> QED BY <1>6, <1>7, Zenon DEF F!NeverBeyondTheCap, public

\* Outbound requests go where the operator allows and bring back no more than
\* the cap (FetchesOnlyVouched), whatever hosts, addresses and bodies there are.
THEOREM FetchesAreVouched == Spec => []FetchesOnlyVouched
<1>1. Asked => FetchesOnlyVouched
  <2> SUFFICES ASSUME Asked PROVE FetchesOnlyVouched
    OBVIOUS
  <2>1. ReachesOnlyVouched
    BY OnlyVouchedIsReached, InputsAssumption DEF Asked, ReachesOnlyVouched
  <2>2. JudgedByWhatItReaches
    <3> SUFFICES ASSUME asked.what = "address" PROVE F!JudgedByWhatItReaches(asked.x.ip)
      BY DEF JudgedByWhatItReaches
    <3>1. asked.x.ip \in [family : {4}, words : [1..4 -> 0..255]]
      <4>1. asked.x \in Inputs["address"]
        BY DEF Asked
      <4> DEFINE Ips == [family : {4}, words : [1..4 -> 0..255]]
                 x == asked.x
      <4>2. Inputs["address"] \subseteq [ip : Ips]
        BY InputsAssumption
      <4> HIDE DEF Ips, x
      <4>3. x \in [ip : Ips]
        BY <4>1, <4>2 DEF x
      <4>4. x.ip \in Ips
        BY <4>3
      <4> QED BY <4>4 DEF Ips, x
    <3> DEFINE ip == asked.x.ip
    <3>2. ip.family = 4 /\ ip.words \in [1..4 -> 0..255]
      BY <3>1
    <3> HIDE DEF ip
    <3>3. F!JudgedByWhatItReaches(ip)
      BY <3>2, JudgedAlike
    <3> QED BY <3>3 DEF ip
  <2>3. NeverBeyondTheCap
    BY HeldWithinTheCap, InputsAssumption DEF Asked, NeverBeyondTheCap
  <2> QED BY <2>1, <2>2, <2>3 DEF FetchesOnlyVouched
<1> QED BY <1>1, AskedAlways, PTL

-----------------------------------------------------------------------------
(* Shapes: shapes.rs, and enforce_shape and validate_view of http.rs *)

\* Write counts as the library does.
LEMMA SameCount ==
  ASSUME NEW S
  PROVE  W!Cardinality(S) = Cardinality(S)
BY Zenon DEF W!Cardinality, Cardinality

\* load gives a shape only of the one readable document that is bound, with
\* nothing failing, and never the answer for no binding where one is stated or
\* none can be read.
LEMMA LoadedShape ==
  ASSUME NEW bound \in SUBSET {"literal", "elsewhere", "notResource", "document", "other"},
         NEW doc, NEW fails, bound # {} \/ fails = "binding"
  PROVE  /\ W!load(bound, doc, fails).kind # "none"
         /\ W!load(bound, doc, fails).kind = "shape" =>
              /\ fails \notin W!LoadSteps
              /\ bound \subseteq {"document", "other"} /\ Cardinality(bound) = 1
              /\ doc.kind # "absent" /\ doc.kind # "binary" /\ ~doc.gone /\ ~doc.sparql
              /\ W!load(bound, doc, fails).shape = doc.shape
<1>1. IsFiniteSet(bound)
  <2>1. IsFiniteSet({"literal", "elsewhere", "notResource", "document", "other"})
    <3>1. IsFiniteSet({"literal", "elsewhere"}) /\ IsFiniteSet({"notResource", "document"})
          /\ IsFiniteSet({"other"})
      <4>1. IsFiniteSet({"literal"}) /\ IsFiniteSet({"notResource"}) /\ IsFiniteSet({"other"})
        BY FS_Singleton
      <4>2. /\ IsFiniteSet({"literal"} \cup {"elsewhere"})
            /\ IsFiniteSet({"notResource"} \cup {"document"})
        BY <4>1, FS_AddElement
      <4>3. /\ {"literal", "elsewhere"} = {"literal"} \cup {"elsewhere"}
            /\ {"notResource", "document"} = {"notResource"} \cup {"document"}
        OBVIOUS
      <4> QED BY <4>1, <4>2, <4>3
    <3>2. {"literal", "elsewhere", "notResource", "document", "other"}
            = ({"literal", "elsewhere"} \cup {"notResource", "document"}) \cup {"other"}
      OBVIOUS
    <3>3. IsFiniteSet({"literal", "elsewhere"} \cup {"notResource", "document"})
      BY <3>1, FS_Union
    <3>4. IsFiniteSet(({"literal", "elsewhere"} \cup {"notResource", "document"}) \cup {"other"})
      BY <3>1, <3>3, FS_Union
    <3> QED BY <3>2, <3>4
  <2> QED BY <2>1, FS_Subset
<1>2. Cardinality(bound) \in Nat /\ (bound # {} => Cardinality(bound) # 0)
  BY <1>1, FS_CardinalityType, FS_EmptySet
<1> DEFINE l == W!load(bound, doc, fails)
           n == Cardinality(bound)
<1>3. bound # {} => n \in Nat /\ n # 0 /\ (~(n > 1) => n = 1)
  <2> HIDE DEF n
  <2>1. n \in Nat /\ (bound # {} => n # 0)
    BY <1>2 DEF n
  <2> QED BY <2>1
<1>4. l.kind # "none"
  BY DEF W!load, W!ShapeError
<1>5. ASSUME l.kind = "shape"
      PROVE  /\ fails \notin W!LoadSteps
             /\ "literal" \notin bound /\ ~(n > 1)
             /\ bound \cap {"elsewhere", "notResource"} = {}
             /\ doc.kind # "absent" /\ doc.kind # "binary" /\ ~doc.gone /\ ~doc.sparql
             /\ l.shape = doc.shape
  <2>1. \A e : W!ShapeError(e).kind = e
    BY DEF W!ShapeError
  <2> DEFINE s == [kind |-> "shape", shape |-> doc.shape]
             away == bound \cap {"elsewhere", "notResource"} # {}
  <2>2. s.shape = doc.shape
    OBVIOUS
  <2>3. fails # "binding" /\ "literal" \notin bound
    <3>1. /\ fails = "binding" => l = W!ShapeError("Resource")
          /\ fails # "binding" /\ "literal" \in bound => l = W!ShapeError("Unsupported")
      BY DEF W!load
    <3> HIDE DEF l
    <3> QED BY <1>5, <2>1, <3>1
  <2>4. ~(n > 1) /\ ~away
    <3>1. n > 1 \/ away => l = W!ShapeError("Unsupported")
      BY <2>3, SameCount DEF W!load
    <3> HIDE DEF l, n, away
    <3> QED BY <1>5, <2>1, <3>1
  <2>5. fails # "kind" /\ doc.kind # "absent"
    <3>1. /\ fails = "kind" => l = W!ShapeError("Resource")
          /\ fails # "kind" /\ doc.kind = "absent" => l = W!ShapeError("Missing")
      BY <2>3, <2>4, SameCount DEF W!load
    <3> HIDE DEF l
    <3> QED BY <1>5, <2>1, <3>1
  <2>6. doc.kind # "binary" /\ fails # "content"
    <3>1. /\ doc.kind = "binary" => l = W!ShapeError("Unsupported")
          /\ doc.kind # "binary" /\ fails = "content" => l = W!ShapeError("Resource")
      BY SameCount, <2>3, <2>4, <2>5 DEF W!load
    <3> HIDE DEF l
    <3> QED BY <1>5, <2>1, <3>1
  <2>7. ~doc.gone
    <3>1. doc.gone => l = W!ShapeError("Missing")
      BY SameCount, <2>3, <2>4, <2>5, <2>6 DEF W!load
    <3> HIDE DEF l
    <3> QED BY <1>5, <2>1, <3>1
  <2>8. ~doc.sparql /\ fails # "text"
    <3>1. /\ doc.sparql => l = W!ShapeError("Unsupported")
          /\ ~doc.sparql /\ fails = "text" => l = W!ShapeError("Unparsable")
      BY SameCount, <2>3, <2>4, <2>5, <2>6, <2>7 DEF W!load
    <3> HIDE DEF l
    <3> QED BY <1>5, <2>1, <3>1
  <2>9. l = s
    BY SameCount, <2>3, <2>4, <2>5, <2>6, <2>7, <2>8 DEF W!load
  <2>10. fails \notin W!LoadSteps
    BY <2>3, <2>5, <2>6, <2>8 DEF W!LoadSteps
  <2> HIDE DEF l, n, s
  <2> QED BY <2>2, <2>3, <2>4, <2>5, <2>6, <2>7, <2>8, <2>9, <2>10
<1> HIDE DEF l, n
<1>6. ASSUME l.kind = "shape" PROVE bound # {} /\ bound \subseteq {"document", "other"}
  <2>1. "binding" \in W!LoadSteps
    BY DEF W!LoadSteps
  <2> QED BY <1>5, <1>6, <2>1
<1> QED BY <1>3, <1>4, <1>5, <1>6 DEF l, n

\* validate has a report only of a text it could read and with nothing failing,
\* and that is the severities of what the graph breaks.
LEMMA ReportIsRead ==
  ASSUME NEW shape, NEW d, NEW fails
  PROVE  /\ \/ W!validate(shape, d, fails).kind \in {"Engine", "Unparsable"}
            \/ W!validate(shape, d, fails) = W!Report(W!Severities(shape.constraints, d))
         /\ W!validate(shape, d, fails).kind = "report" <=>
              shape.shacl /\ fails \notin W!EngineSteps
         /\ W!validate(shape, d, fails).kind = "report" =>
              W!validate(shape, d, fails).results = W!Severities(shape.constraints, d)
<1> DEFINE S == W!Severities(shape.constraints, d)
           v == W!validate(shape, d, fails)
<1>1. \A e : W!NoReport(e).kind = e
  BY DEF W!NoReport
<1>2. W!Report(S).kind = "report" /\ W!Report(S).results = S
  <2> HIDE DEF S
  <2> QED BY DEF W!Report
<1>3. v = IF fails = "data" THEN W!NoReport("Engine")
          ELSE IF ~shape.shacl THEN W!NoReport("Unparsable")
          ELSE IF fails = "report" THEN W!NoReport("Engine")
          ELSE W!Report(S)
  BY Zenon DEF W!validate
<1>4. fails \in W!EngineSteps <=> fails = "data" \/ fails = "report"
  BY DEF W!EngineSteps
<1> HIDE DEF v, S
<1> QED BY <1>1, <1>2, <1>3, <1>4 DEF v, S

\* What enforce_shape makes of a shape that was loaded, under a container.
LEMMA JudgedByReport ==
  ASSUME NEW target, target \notin {"aux", "root"}, NEW loaded, loaded.kind = "shape",
         NEW d, NEW fails
  PROVE  LET r == W!validate(loaded.shape, d, fails) IN
         W!enforce_shape(target, loaded, d, fails).status = 0 =>
           /\ r.kind = "report" /\ "Violation" \notin r.results
           /\ W!enforce_shape(target, loaded, d, fails).findings <=> r.results # {}
<1> DEFINE r == W!validate(loaded.shape, d, fails)
           j == W!enforce_shape(target, loaded, d, fails)
<1>1. \A e : W!shape_status(e) # 0
  BY DEF W!shape_status
<1>2. j = IF r.kind # "report"
          THEN [status |-> W!shape_status(r.kind), findings |-> FALSE]
          ELSE IF W!refuses(r) THEN [status |-> 422, findings |-> FALSE]
          ELSE [status |-> 0, findings |-> r.results # {}]
  <2>1. loaded.kind # "none" /\ loaded.kind = "shape"
    OBVIOUS
  <2> QED BY <2>1 DEF W!enforce_shape, W!Verdict
<1> HIDE DEF j, r
<1> SUFFICES ASSUME j.status = 0
             PROVE  /\ r.kind = "report" /\ "Violation" \notin r.results
                    /\ j.findings <=> r.results # {}
  BY Zenon DEF j, r
<1>3. r.kind = "report"
  <2> SUFFICES ASSUME r.kind # "report" PROVE FALSE
    OBVIOUS
  <2>1. j.status = W!shape_status(r.kind)
    BY <1>2
  <2> QED BY <1>1, <2>1
<1>4. ~W!refuses(r)
  <2> SUFFICES ASSUME W!refuses(r) PROVE FALSE
    OBVIOUS
  <2>1. j.status = 422
    BY <1>2, <1>3
  <2> QED BY <2>1
<1>5. j.findings = (r.results # {})
  BY <1>2, <1>3, <1>4
<1> QED BY <1>3, <1>4, <1>5, Zenon DEF W!refuses

\* enforce_shape fails closed.
LEMMA ClosedUnlessRead ==
  ASSUME NEW bound \in SUBSET {"literal", "elsewhere", "notResource", "document", "other"},
         NEW doc, doc.kind \in {"absent", "binary", "rdf"}, NEW d, NEW fails
  PROVE  W!FailsClosed(bound, doc, d, fails)
<1> SUFFICES ASSUME bound # {} \/ fails = "binding" PROVE W!FailsClosed(bound, doc, d, fails)
  BY Zenon DEF W!FailsClosed
<1> DEFINE l == W!load(bound, doc, fails)
           r == W!validate(l.shape, d, fails)
           B(c) == W!Breaks(c, W!default_graph_only(d))
<1>1. l.kind # "none" /\ (l.kind = "shape" =>
              /\ fails \notin W!LoadSteps
              /\ bound \subseteq {"document", "other"} /\ Cardinality(bound) = 1
              /\ doc.kind # "absent" /\ doc.kind # "binary" /\ ~doc.gone /\ ~doc.sparql
              /\ l.shape = doc.shape)
  BY LoadedShape
<1> HIDE DEF l
<1>2. \A e : W!shape_status(e) # 0
  BY DEF W!shape_status
<1>3. ASSUME W!enforce_shape("resource", l, d, fails).status = 0
      PROVE  l.kind = "shape"
  <2> SUFFICES ASSUME l.kind # "shape" PROVE FALSE
    OBVIOUS
  <2>1. W!enforce_shape("resource", l, d, fails)
          = [status |-> W!shape_status(l.kind), findings |-> FALSE]
    BY <1>1 DEF W!enforce_shape, W!Verdict
  <2>2. W!enforce_shape("resource", l, d, fails).status = W!shape_status(l.kind)
    BY <2>1
  <2> QED BY <1>2, <1>3, <2>2
<1>4. W!patch_shape_conflict("resource", l) # 0
  BY <1>1, <1>2 DEF W!patch_shape_conflict
<1>5. ASSUME W!enforce_shape("resource", l, d, fails).status = 0
      PROVE  /\ fails \notin W!LoadSteps \cup W!EngineSteps
             /\ bound \subseteq {"document", "other"} /\ Cardinality(bound) = 1
             /\ doc.kind = "rdf" /\ ~doc.gone /\ ~doc.sparql /\ doc.shape.shacl
             /\ \A c \in doc.shape.constraints : c.severity = "Violation" => ~B(c)
  <2>1. l.kind = "shape" /\ l.shape = doc.shape
    BY <1>1, <1>3, <1>5
  <2>2. r.kind = "report" /\ "Violation" \notin r.results
    <3>1. "resource" \notin {"aux", "root"}
      OBVIOUS
    <3> QED BY <1>5, <2>1, <3>1, JudgedByReport
  <2>3. /\ doc.shape.shacl /\ fails \notin W!EngineSteps
        /\ r.results = W!Severities(doc.shape.constraints, d)
    BY <2>1, <2>2, ReportIsRead
  <2>4. W!Severities(doc.shape.constraints, d) = {c.severity : c \in {x \in doc.shape.constraints : B(x)}}
    BY Zenon DEF W!Severities
  <2> HIDE DEF B, r
  <2>5. \A c \in doc.shape.constraints : c.severity = "Violation" => ~B(c)
    BY <2>2, <2>3, <2>4
  <2> QED BY <1>1, <2>1, <2>3, <2>5
<1>6. W!enforce_shape("resource", l, d, fails).status = 0 =>
        /\ fails \notin W!LoadSteps \cup W!EngineSteps
        /\ bound \subseteq {"document", "other"} /\ Cardinality(bound) = 1
        /\ doc.kind = "rdf" /\ ~doc.gone /\ ~doc.sparql /\ doc.shape.shacl
        /\ \A c \in doc.shape.constraints : c.severity = "Violation" => ~B(c)
  BY <1>5
<1> USE DEF l
<1> QED BY <1>4, <1>6, SameCount, Zenon DEF W!FailsClosed

-----------------------------------------------------------------------------
\* What skolemize makes of an atom and of a quad, and deskolemize of those.
Grounded(a, minted) == IF a.ns = "blank" THEN W!Skolem(minted[a.n]) ELSE a
Blanked(a) == IF a.ns = "skolem" THEN W!Blank(a.n) ELSE a

GroundQuad(q, minted) ==
  [s |-> Grounded(q.s, minted), p |-> q.p, g |-> Grounded(q.g, minted),
   o |-> [spine |-> [i \in DOMAIN q.o.spine |->
                       [q.o.spine[i] EXCEPT !.s = Grounded(@, minted)]],
          leaf |-> Grounded(q.o.leaf, minted)]]

BlankQuad(q) ==
  [s |-> Blanked(q.s), p |-> q.p, g |-> Blanked(q.g),
   o |-> [spine |-> [i \in DOMAIN q.o.spine |-> [q.o.spine[i] EXCEPT !.s = Blanked(@)]],
          leaf |-> Blanked(q.o.leaf)]]

\* Both are made quad by quad.
LEMMA QuadByQuad ==
  ASSUME NEW d, NEW minted
  PROVE  /\ W!skolemize(d, minted) = {GroundQuad(q, minted) : q \in d}
         /\ W!deskolemize(d) = {BlankQuad(q) : q \in d}
<1>1. W!skolemize(d, minted) = {GroundQuad(q, minted) : q \in d}
  BY Zenon DEF W!skolemize, W!MapDataset, W!MapQuad, GroundQuad, Grounded
<1>2. W!deskolemize(d) = {BlankQuad(q) : q \in d}
  BY Zenon DEF W!deskolemize, W!MapDataset, W!MapQuad, BlankQuad, Blanked
<1> QED BY <1>1, <1>2

\* Neither touches a predicate or moves a quad into or out of the default graph.
LEMMA PredicatesAreKept ==
  ASSUME NEW q, NEW minted
  PROVE  /\ GroundQuad(q, minted).p = q.p
         /\ GroundQuad(q, minted).g = W!DefaultGraph <=> q.g = W!DefaultGraph
         /\ BlankQuad(q).p = q.p
         /\ BlankQuad(q).g = W!DefaultGraph <=> q.g = W!DefaultGraph
<1>1. /\ GroundQuad(q, minted).p = q.p /\ GroundQuad(q, minted).g = Grounded(q.g, minted)
      /\ BlankQuad(q).p = q.p /\ BlankQuad(q).g = Blanked(q.g)
  BY DEF GroundQuad, BlankQuad
<1>2. W!DefaultGraph.ns = "default"
  BY DEF W!DefaultGraph, W!Atom
<1>3. Grounded(q.g, minted) = W!DefaultGraph <=> q.g = W!DefaultGraph
  <2>1. \A u : W!Skolem(u).ns = "skolem"
    BY DEF W!Skolem, W!Atom
  <2> QED BY <1>2, <2>1 DEF Grounded
<1>4. Blanked(q.g) = W!DefaultGraph <=> q.g = W!DefaultGraph
  <2>1. \A u : W!Blank(u).ns = "blank"
    BY DEF W!Blank, W!Atom
  <2> QED BY <1>2, <2>1 DEF Blanked
<1> QED BY <1>1, <1>3, <1>4

\* A predicate of the default graph.
HasDefault(d, p) == \E q \in d : q.g = W!DefaultGraph /\ q.p = p

\* The engine is taken to look at the predicates of the default graph and at
\* nothing else.
LEMMA ReportOfPredicates ==
  ASSUME NEW constraints, NEW d, NEW e, \A p : HasDefault(d, p) <=> HasDefault(e, p)
  PROVE  W!Severities(constraints, d) = W!Severities(constraints, e)
<1>1. ASSUME NEW p, NEW f
      PROVE  W!Has(W!default_graph_only(f), p) <=> HasDefault(f, p)
  BY DEF W!Has, W!default_graph_only, HasDefault
<1>2. ASSUME NEW c
      PROVE  W!Breaks(c, W!default_graph_only(d)) <=> W!Breaks(c, W!default_graph_only(e))
  <2>1. W!Has(W!default_graph_only(d), c.path) <=> W!Has(W!default_graph_only(e), c.path)
    BY <1>1
  <2> QED BY <2>1 DEF W!Breaks
<1>3. {x \in constraints : W!Breaks(x, W!default_graph_only(d))}
        = {x \in constraints : W!Breaks(x, W!default_graph_only(e))}
  BY <1>2
<1> QED BY <1>3, Zenon DEF W!Severities

\* What is stored of a resource has the predicates of what was sent.
LEMMA ResourceComesBack ==
  ASSUME NEW d, NEW minted, NEW p
  PROVE  HasDefault(W!deskolemize(W!skolemize(d, minted)), p) <=> HasDefault(d, p)
<1> DEFINE e == W!skolemize(d, minted)
<1>1. e = {GroundQuad(q, minted) : q \in d} /\ W!deskolemize(e) = {BlankQuad(q) : q \in e}
  BY QuadByQuad
<1> HIDE DEF e
<1>2. ASSUME HasDefault(d, p) PROVE HasDefault(W!deskolemize(e), p)
  <2>1. PICK q \in d : q.g = W!DefaultGraph /\ q.p = p
    BY <1>2 DEF HasDefault
  <2>2. GroundQuad(q, minted) \in e
    BY <1>1
  <2>3. BlankQuad(GroundQuad(q, minted)) \in W!deskolemize(e)
    BY <1>1, <2>2
  <2> QED BY <2>1, <2>3, PredicatesAreKept DEF HasDefault
<1>3. ASSUME HasDefault(W!deskolemize(e), p) PROVE HasDefault(d, p)
  <2>1. PICK r \in W!deskolemize(e) : r.g = W!DefaultGraph /\ r.p = p
    BY <1>3 DEF HasDefault
  <2>2. PICK m \in e : r = BlankQuad(m)
    BY <1>1
  <2>3. PICK q \in d : m = GroundQuad(q, minted)
    BY <1>1
  <2> QED BY <2>1, <2>2, <2>3, PredicatesAreKept DEF HasDefault
<1> QED BY <1>2, <1>3 DEF e

\* The quads container::without_server_managed takes out.
Managed(q) ==
  \/ q.p = W!Contains_
  \/ q.p = W!TypePred /\ q.s = W!Self /\ q.o \in {W!Obj(c) : c \in W!ContainerTypes}

\* A quad is none of the server's before it is stored iff it is none after.
LEMMA NoneTakenForManaged ==
  ASSUME NEW q \in W!Quads, NEW minted, Managed(GroundQuad(q, minted))
  PROVE  Managed(q)
<1> DEFINE r == GroundQuad(q, minted)
<1>1. r.p = q.p /\ r.s = Grounded(q.s, minted)
      /\ r.o = [spine |-> [i \in DOMAIN q.o.spine |->
                             [q.o.spine[i] EXCEPT !.s = Grounded(@, minted)]],
                leaf |-> Grounded(q.o.leaf, minted)]
  BY DEF GroundQuad
<1>2. CASE r.p = W!Contains_
  BY <1>1, <1>2 DEF Managed
<1>3. CASE r.p = W!TypePred /\ r.s = W!Self /\ r.o \in {W!Obj(c) : c \in W!ContainerTypes}
  <2>1. PICK c \in W!ContainerTypes : r.o = W!Obj(c)
    BY <1>3
  <2>2. c.ns = "iri" /\ W!Self.ns = "iri"
    BY DEF W!ContainerTypes, W!Iri, W!Atom, W!Self
  <2>3. r.o.spine = <<>> /\ r.o.leaf = c
    BY <2>1 DEF W!Obj
  <2>4. DOMAIN r.o.spine = DOMAIN q.o.spine /\ r.o.leaf = Grounded(q.o.leaf, minted)
    BY <1>1
  <2> HIDE DEF r
  <2>5. \A a, b : Grounded(a, minted) = b /\ b.ns = "iri" => a = b
    <3>1. \A u : W!Skolem(u).ns = "skolem"
      BY DEF W!Skolem, W!Atom
    <3> QED BY <3>1 DEF Grounded
  <2>6. q.s = W!Self /\ q.o.leaf = c
    BY <1>1, <1>3, <2>2, <2>3, <2>4, <2>5
  <2>7. DOMAIN q.o.spine = {}
    BY <2>3, <2>4
  <2>8. q.o.spine = <<>>
    <3> DEFINE Pair == [s : W!Atoms, p : W!Atoms]
               t == q.o.spine
    <3>1. t \in Seq(Pair)
      BY DEF W!Quads
    <3>2. DOMAIN t = {}
      BY <2>7
    <3> HIDE DEF Pair, t
    <3>3. t = <<>>
      BY <3>1, <3>2
    <3> QED BY <3>3 DEF t
  <2>9. q.o = W!Obj(c)
    <3>1. q.o = [spine |-> q.o.spine, leaf |-> q.o.leaf]
      BY DEF W!Quads
    <3> QED BY <2>6, <2>8, <3>1 DEF W!Obj
  <2> QED BY <1>1, <1>3, <2>6, <2>9 DEF Managed
<1> QED BY <1>2, <1>3 DEF Managed

\* Everything the server adds to a container is taken out again.
LEMMA ServerTriplesAreManaged ==
  ASSUME NEW members, NEW q \in W!ServerTriples(members)
  PROVE  Managed(q)
<1>1. CASE q \in {W!Quad(W!Self, W!Contains_, W!Obj(m), W!DefaultGraph) : m \in members}
  BY <1>1 DEF W!Quad, Managed
<1>2. CASE q \in {W!Quad(W!Self, W!TypePred, W!Obj(c), W!DefaultGraph) : c \in W!ContainerTypes}
  <2>1. PICK c \in W!ContainerTypes : q = W!Quad(W!Self, W!TypePred, W!Obj(c), W!DefaultGraph)
    BY <1>2
  <2>2. q.p = W!TypePred /\ q.s = W!Self /\ q.o = W!Obj(c)
    BY <2>1 DEF W!Quad
  <2> QED BY <2>2 DEF Managed
<1> QED BY <1>1, <1>2 DEF W!ServerTriples

\* What is stored of a container, without the server's part, has the predicates
\* of what was sent.
LEMMA ContainerComesBack ==
  ASSUME NEW d \in SUBSET W!Quads, NEW minted, NEW members, NEW p,
         W!without_server_managed(d) = d
  PROVE  LET stored == W!default_graph_only(W!skolemize(d, minted)) \cup W!ServerTriples(members)
         IN HasDefault(W!deskolemize(W!without_server_managed(stored)), p) <=> HasDefault(d, p)
<1> DEFINE e == W!skolemize(d, minted)
           stored == W!default_graph_only(e) \cup W!ServerTriples(members)
           kept == W!without_server_managed(stored)
<1>1. e = {GroundQuad(q, minted) : q \in d} /\ W!deskolemize(kept) = {BlankQuad(q) : q \in kept}
  BY QuadByQuad
<1>2. \A f, q : q \in W!without_server_managed(f) <=> q \in f /\ ~Managed(q)
  BY DEF W!without_server_managed, Managed
<1>3. \A q \in d : ~Managed(q)
  BY <1>2
<1>4. \A q \in d : ~Managed(GroundQuad(q, minted))
  BY <1>3, NoneTakenForManaged
<1>5. \A q : q \in kept <=> q \in e /\ q.g = W!DefaultGraph
  <2> HIDE DEF e
  <2>1. \A q \in e : ~Managed(q)
    BY <1>1, <1>4
  <2>2. \A q : q \in stored <=> (q \in e /\ q.g = W!DefaultGraph) \/ q \in W!ServerTriples(members)
    BY DEF W!default_graph_only
  <2> HIDE DEF stored
  <2> QED BY <1>2, <2>1, <2>2, ServerTriplesAreManaged
<1> HIDE DEF e, stored, kept
<1>6. ASSUME HasDefault(d, p) PROVE HasDefault(W!deskolemize(kept), p)
  <2>1. PICK q \in d : q.g = W!DefaultGraph /\ q.p = p
    BY <1>6 DEF HasDefault
  <2>2. GroundQuad(q, minted) \in kept
    BY <1>1, <1>5, <2>1, PredicatesAreKept
  <2>3. BlankQuad(GroundQuad(q, minted)) \in W!deskolemize(kept)
    BY <1>1, <2>2
  <2> QED BY <2>1, <2>3, PredicatesAreKept DEF HasDefault
<1>7. ASSUME HasDefault(W!deskolemize(kept), p) PROVE HasDefault(d, p)
  <2>1. PICK r \in W!deskolemize(kept) : r.g = W!DefaultGraph /\ r.p = p
    BY <1>7 DEF HasDefault
  <2>2. PICK m \in kept : r = BlankQuad(m)
    BY <1>1
  <2>3. PICK q \in d : m = GroundQuad(q, minted)
    BY <1>1, <1>5
  <2> QED BY <2>1, <2>2, <2>3, PredicatesAreKept DEF HasDefault
<1> QED BY <1>6, <1>7 DEF e, stored, kept

\* What validate_view makes of a dataset that is there and a shape that was
\* loaded: 404 is none of it, 200 has validate's results, and with nothing failing
\* there is no other answer than these and 406.
LEMMA ViewOfReport ==
  ASSUME NEW target \in {"container", "resource"}, NEW loaded, loaded.kind = "shape",
         NEW quads, NEW fails, NEW accept
  PROVE  LET stored == [kind |-> "rdf", quads |-> quads]
             own == IF target = "container" THEN W!without_server_managed(quads) ELSE quads
             r == W!validate(loaded.shape, W!deskolemize(own), fails)
             view == W!validate_view(target, loaded, stored, fails, accept)
         IN /\ view.status # 404
            /\ view.status = 200 => r.kind = "report" /\ view.results = r.results
            /\ fails = W!NoStep /\ r.kind = "report" => view.status \in {200, 406}
<1> DEFINE stored == [kind |-> "rdf", quads |-> quads]
           own == IF target = "container" THEN W!without_server_managed(quads) ELSE quads
           r == W!validate(loaded.shape, W!deskolemize(own), fails)
           view == W!validate_view(target, loaded, stored, fails, accept)
           none == W!negotiate(accept, "Graph", W!NoFormat).fmt = W!NoFormat
<1>1. stored.kind = "rdf" /\ stored.quads = quads
  OBVIOUS
<1>2. view = IF fails = "target" THEN W!NoView(500)
             ELSE IF r.kind # "report" THEN W!NoView(W!shape_status(r.kind))
             ELSE IF none THEN W!NoView(406)
             ELSE IF fails = "answer" THEN W!NoView(500)
             ELSE [status |-> 200, results |-> r.results]
  <2> HIDE DEF stored
  <2>1. /\ target \notin {"aux", "root"} /\ loaded.kind # "none"
        /\ stored.kind # "binary" /\ stored.kind # "absent"
    BY <1>1
  <2> QED BY <1>1, <2>1 DEF W!validate_view
<1>3. \A s : W!NoView(s).status = s
  BY DEF W!NoView
<1>4. \A e : W!shape_status(e) \in {409, 500}
  BY DEF W!shape_status
<1>5. W!NoStep # "target" /\ W!NoStep # "answer"
  BY DEF W!NoStep
<1> HIDE DEF view, r, none
<1>6. view.status # 404
  BY <1>2, <1>3, <1>4
<1>7. ASSUME view.status = 200 PROVE r.kind = "report" /\ view.results = r.results
  BY <1>2, <1>3, <1>4, <1>7
<1>8. ASSUME fails = W!NoStep, r.kind = "report" PROVE view.status \in {200, 406}
  BY <1>2, <1>3, <1>5, <1>8
<1> QED BY <1>6, <1>7, <1>8 DEF view, r, own, stored

\* A PUT and the ?validate that follows are judged by one report.
LEMMA OneReport ==
  ASSUME NEW target \in W!TargetKinds, NEW d \in SUBSET W!Quads,
         NEW shape \in W!ShapeTexts, NEW members, NEW minted, NEW fails, NEW accept
  PROVE  W!ReportAgrees(target, d, shape, members, minted, fails, accept)
<1> DEFINE loaded == [kind |-> "shape", shape |-> shape]
           judged == W!enforce_shape(target, loaded, d, W!NoStep)
           quads == W!StoredAs(target, W!skolemize(d, minted), members)
           stored == [kind |-> "rdf", quads |-> quads]
           view == W!validate_view(target, loaded, stored, fails, accept)
<1> SUFFICES ASSUME judged.status = 0, W!without_server_managed(d) = d
             PROVE  /\ view.status = 200 => /\ ~W!refuses(view)
                                            /\ judged.findings <=> view.results # {}
                    /\ judged.findings => view.status # 404
                    /\ fails = W!NoStep /\ target \notin {"aux", "root"} =>
                         view.status \in {200, 406}
  BY Zenon DEF W!ReportAgrees
<1>1. CASE target \in {"aux", "root"}
  <2>1. judged = W!Verdict(0, FALSE)
    BY <1>1 DEF W!enforce_shape
  <2>2. view = W!NoView(404)
    BY <1>1 DEF W!validate_view
  <2>3. ~judged.findings
    BY <2>1 DEF W!Verdict
  <2>4. view.status = 404
    BY <2>2 DEF W!NoView
  <2> HIDE DEF judged, view
  <2> QED BY <1>1, <2>3, <2>4
<1>2. CASE target \notin {"aux", "root"}
  <2> DEFINE own == IF target = "container" THEN W!without_server_managed(quads) ELSE quads
             v == W!validate(shape, d, W!NoStep)
             w == W!validate(shape, W!deskolemize(own), fails)
             S == W!Severities(shape.constraints, d)
  <2>1. loaded.kind = "shape" /\ loaded.shape = shape
    OBVIOUS
  <2>2. target \in {"container", "resource"}
    BY <1>2 DEF W!TargetKinds
  <2>3. W!Severities(shape.constraints, W!deskolemize(own)) = S
    <3>1. \A p : HasDefault(W!deskolemize(own), p) <=> HasDefault(d, p)
      <4>1. CASE target = "container"
        <5>1. quads = W!default_graph_only(W!skolemize(d, minted)) \cup W!ServerTriples(members)
          BY <4>1 DEF W!StoredAs
        <5>2. own = W!without_server_managed(quads)
          BY <4>1
        <5> QED BY <5>1, <5>2, ContainerComesBack, Zenon
      <4>2. CASE target = "resource"
        <5>1. quads = W!skolemize(d, minted) /\ own = quads
          BY <4>2 DEF W!StoredAs
        <5> QED BY <5>1, ResourceComesBack, Zenon
      <4> QED BY <2>2, <4>1, <4>2
    <3> HIDE DEF own
    <3> QED BY <3>1, ReportOfPredicates, Zenon
  <2> HIDE DEF loaded, S
  <2>4. v.kind = "report" /\ "Violation" \notin v.results /\ (judged.findings <=> v.results # {})
    BY <1>2, <2>1, JudgedByReport
  <2>5. shape.shacl /\ v.results = S
    BY <2>4, ReportIsRead DEF S
  <2>6. /\ view.status # 404
        /\ view.status = 200 => w.kind = "report" /\ view.results = w.results
        /\ fails = W!NoStep /\ w.kind = "report" => view.status \in {200, 406}
    BY <2>1, <2>2, ViewOfReport
  <2>7. /\ w.kind = "report" <=> shape.shacl /\ fails \notin W!EngineSteps
        /\ w.kind = "report" => w.results = S
    BY <2>3, ReportIsRead
  <2>8. W!NoStep \notin W!EngineSteps
    BY DEF W!NoStep, W!EngineSteps
  <2> HIDE DEF v, w, view, judged
  <2> QED BY <2>4, <2>5, <2>6, <2>7, <2>8 DEF W!refuses
<1> QED BY <1>1, <1>2

\* A bound shape is never passed by, and the report on what is stored agrees with
\* the judgement of the PUT (ShapesHold), for every binding, document and body,
\* whichever step of the store's or of the engine's fails.
THEOREM ShapesAreHeld == Spec => []ShapesHold
<1>1. Asked => ShapesHold
  <2> SUFFICES ASSUME Asked PROVE FailsClosed /\ ReportAgrees
    BY DEF ShapesHold
  <2>1. FailsClosed
    <3> SUFFICES ASSUME asked.what = "bind"
                 PROVE  W!FailsClosed(asked.x.bound, asked.x.doc, asked.x.quads, asked.x.fails)
      BY DEF FailsClosed
    <3>1. /\ asked.x.bound \in SUBSET {"literal", "elsewhere", "notResource", "document", "other"}
          /\ asked.x.doc.kind \in {"absent", "binary", "rdf"}
      BY InputsAssumption DEF Asked
    <3> QED BY <3>1, ClosedUnlessRead
  <2>2. ReportAgrees
    <3> SUFFICES ASSUME asked.what = "validate"
                 PROVE  W!ReportAgrees(asked.x.target, asked.x.quads, asked.x.shape,
                                       asked.x.members, asked.x.minted,
                                       asked.x.fails, asked.x.accept)
      BY DEF ReportAgrees
    <3>1. /\ asked.x.target \in W!TargetKinds
          /\ asked.x.quads \in SUBSET W!Quads
          /\ asked.x.shape \in W!ShapeTexts
      BY InputsAssumption DEF Asked
    <3> QED BY <3>1, OneReport
  <2> QED BY <2>1, <2>2
<1> QED BY <1>1, AskedAlways, PTL

-----------------------------------------------------------------------------
(* The warning about a new ACL: http.rs and wac/pdp.rs *)

\* What is above a URL is shorter by one segment at a time, and a chain is the
\* URL and what is above it.
LEMMA ChainParts ==
  ASSUME NEW u \in Urls
  PROVE  /\ Len(u.segs) \in Nat
         /\ Len(Chain(u)) = Len(u.segs) + 1
         /\ Chain(u)[1] = u
         /\ \A i \in 1..Len(u.segs) : /\ Chain(u)[i + 1] = ancestors(u)[i]
                                      /\ Len(ancestors(u)[i].segs) = Len(u.segs) - i
<1> DEFINE n == Len(u.segs)
           a == ancestors(u)
<1>1. u.segs \in Seq(Segments) /\ n \in Nat
  BY SpaceAssumption DEF Url
<1>2. \A i \in 1..n : a[i] = [segs |-> SubSeq(u.segs, 1, n - i), slash |-> TRUE]
  BY <1>1 DEF ancestors
<1>3. ASSUME NEW i \in 1..n PROVE Len(SubSeq(u.segs, 1, n - i)) = n - i
  <2> DEFINE s == u.segs
  <2>1. s \in Seq(Segments) /\ n = Len(s)
    BY <1>1
  <2> HIDE DEF s, n
  <2>2. n - i \in Nat /\ n - i <= Len(s)
    BY <1>1, <2>1
  <2>3. Len(SubSeq(s, 1, n - i)) = n - i
    BY <2>1, <2>2
  <2> QED BY <2>3 DEF s
<1>4. \A i \in 1..n : Len(a[i].segs) = n - i
  <2> SUFFICES ASSUME NEW i \in 1..n PROVE Len(a[i].segs) = n - i
    OBVIOUS
  <2> DEFINE p == SubSeq(u.segs, 1, n - i)
             b == a[i]
  <2>1. b = [segs |-> p, slash |-> TRUE]
    BY <1>2, Zenon
  <2> HIDE DEF p, b
  <2>2. b.segs = p
    BY <2>1
  <2> USE DEF p, b
  <2> QED BY <1>3, <2>2, Zenon
<1>5. a \in Seq(Urls) /\ Len(a) = n
  <2>1. DOMAIN a = 1..n /\ a = [i \in 1..n |-> a[i]]
    BY <1>1 DEF ancestors
  <2>2. \A i \in 1..n : a[i] \in Urls
    BY SpaceAssumption
  <2> HIDE DEF a, n
  <2>3. [i \in 1..n |-> a[i]] \in Seq(Urls)
    BY <1>1, <2>2
  <2> QED BY <1>1, <2>1, <2>3
<1>6. <<u>> \in Seq(Urls) /\ Len(<<u>>) = 1 /\ <<u>>[1] = u
  OBVIOUS
<1>7. /\ Len(Chain(u)) = n + 1
      /\ Chain(u)[1] = u
      /\ \A i \in 1..n : Chain(u)[i + 1] = a[i]
  BY <1>1, <1>5, <1>6 DEF Chain
<1> QED BY <1>1, <1>4, <1>7

\* A URL above another is in its chain once, so an ACL that is the only one
\* governs from there, and as an inherited one.
LEMMA GovernsFromAbove ==
  ASSUME NEW u \in Urls, NEW s \in ChainSet(u), NEW acl, u # s
  PROVE  \E i \in Governing(Chain(u), [v \in {s} |-> acl], 1) : Chain(u)[i] = s /\ i > 1
<1> DEFINE n == Len(u.segs)
           c == Chain(u)
           acls == [v \in {s} |-> acl]
<1>1. n \in Nat /\ Len(c) = n + 1 /\ c[1] = u
      /\ \A i \in 1..n : c[i + 1] = ancestors(u)[i] /\ Len(ancestors(u)[i].segs) = n - i
  BY ChainParts
<1>2. PICK k \in 1..n : s = ancestors(u)[k]
  BY DEF ChainSet
<1>3. DOMAIN acls = {s}
  OBVIOUS
<1> HIDE DEF c, n, acls
<1>4. c[k + 1] = s /\ k + 1 \in 1..Len(c) /\ k + 1 > 1
  BY <1>1, <1>2
<1>5. ASSUME NEW j \in 1..((k + 1) - 1), c[j] = s PROVE FALSE
  <2>1. CASE j = 1
    BY <1>1, <1>5, <2>1
  <2>2. CASE j # 1
    <3>1. j - 1 \in 1..n /\ (j - 1) + 1 = j /\ n - (j - 1) # n - k
      BY <1>1, <1>2, <2>2
    <3>2. c[j] = ancestors(u)[j - 1]
      BY <1>1, <3>1
    <3>3. Len(ancestors(u)[j - 1].segs) = n - (j - 1) /\ Len(ancestors(u)[k].segs) = n - k
      BY <1>1, <1>2, <3>1
    <3> QED BY <1>2, <1>5, <3>1, <3>2, <3>3
  <2> QED BY <2>1, <2>2
<1>6. k + 1 \in Governing(c, acls, 1)
  BY <1>3, <1>4, <1>5 DEF Governing
<1> QED BY <1>4, <1>6 DEF c, acls

\* And of itself, as its own.
LEMMA GovernsItself ==
  ASSUME NEW s \in Urls, NEW acl
  PROVE  1 \in Governing(Chain(s), [v \in {s} |-> acl], 1) /\ Chain(s)[1] = s
<1>1. Len(s.segs) \in Nat /\ Len(Chain(s)) = Len(s.segs) + 1 /\ Chain(s)[1] = s
  BY ChainParts
<1> DEFINE n == Len(s.segs)
           c == Chain(s)
<1>2. n \in Nat /\ Len(c) = n + 1 /\ c[1] = s
  BY <1>1
<1> HIDE DEF n, c
<1>3. 1 \in 1..Len(c)
  BY <1>2
<1>4. 1 \in Governing(c, [v \in {s} |-> acl], 1)
  BY <1>2, <1>3 DEF Governing
<1> QED BY <1>2, <1>4 DEF c

\* An authorization that names someone matches some verified agent.
LEMMA NamedIsMatched ==
  ASSUME NEW auth, names_someone(auth)
  PROVE  \E w \in WebIds : matches_agent(auth, w)
<1>1. \A w \in WebIds : w # Public
  BY WacAssumption
<1>2. CASE "foafAgent" \in auth.who \/ "authenticated" \in auth.who
  <2>1. PICK w \in WebIds : TRUE
    BY WacAssumption
  <2> QED BY <1>1, <1>2, <2>1 DEF matches_agent
<1>3. CASE auth.who \cap WebIds # {}
  <2>1. PICK w \in WebIds : w \in auth.who
    BY <1>3
  <2> QED BY <1>1, <2>1 DEF matches_agent
<1> QED BY <1>2, <1>3 DEF names_someone

\* The modes a decision grants, one at a time.
LEMMA DecideOne ==
  ASSUME NEW acl, NEW agent, NEW governed, NEW inherited, NEW m
  PROVE  m \in decide(acl, agent, governed, inherited) <=>
           \E auth \in acl : /\ InScope(auth, governed, inherited)
                             /\ matches_agent(auth, agent)
                             /\ m \in auth.modes \cap Modes
BY DEF decide

\* The warning is given iff nobody is reached.
LEMMA WarnedIffNobody ==
  ASSUME NEW s \in Containers, NEW acl
  PROVE  warn_if_acl_grants_nothing(s, acl) <=> ~ReachesSomeone(s, acl)
<1> DEFINE acls == [v \in {s} |-> acl]
<1>1. s \in Urls
  BY DEF Containers
<1>2. DOMAIN acls = {s} /\ acls[s] = acl
  OBVIOUS
<1> HIDE DEF acls
<1>3. ASSUME grants_anything(acl, s) PROVE ReachesSomeone(s, acl)
  <2>1. PICK auth \in acl : /\ s \in auth.accessTo \/ s \in auth.default
                            /\ names_someone(auth) /\ has_recognized_mode(auth)
    BY <1>3 DEF grants_anything
  <2>2. PICK w \in WebIds : matches_agent(auth, w)
    BY <2>1, NamedIsMatched
  <2>3. PICK m : m \in auth.modes \cap Modes
    BY <2>1 DEF has_recognized_mode
  <2>4. w \in Agents
    BY DEF Agents
  <2>5. ASSUME NEW u \in Urls, s \in ChainSet(u), NEW i \in Governing(Chain(u), acls, 1),
               Chain(u)[i] = s, InScope(auth, s, i > 1)
        PROVE  ReachesSomeone(s, acl)
    <3>1. m \in decide(acl, w, s, i > 1)
      BY <2>2, <2>3, <2>5, DecideOne
    <3>2. m \in decide_from(Chain(u), acls, w, 1)
      <4> DEFINE c == Chain(u)
      <4>1. i \in Governing(c, acls, 1) /\ c[i] = s
        BY <2>5
      <4> HIDE DEF c
      <4>2. m \in decide(acls[c[i]], w, c[i], i > 1)
        BY <1>2, <3>1, <4>1
      <4>3. m \in decide_from(c, acls, w, 1)
        BY <4>1, <4>2 DEF decide_from
      <4> QED BY <4>3 DEF c
    <3> QED BY <2>4, <2>5, <3>2 DEF ReachesSomeone, acls
  <2>6. CASE s \in auth.accessTo
    <3>1. 1 \in Governing(Chain(s), acls, 1) /\ Chain(s)[1] = s
      BY <1>1, GovernsItself DEF acls
    <3>2. InScope(auth, s, 1 > 1)
      BY <2>6 DEF InScope
    <3>3. s \in ChainSet(s)
      BY DEF ChainSet
    <3> QED BY <1>1, <2>5, <3>1, <3>2, <3>3
  <2>7. CASE s \in auth.default
    <3>1. PICK u \in Urls : u # s /\ s \in ChainSet(u)
      BY RoomAssumption
    <3>2. PICK i \in Governing(Chain(u), acls, 1) : Chain(u)[i] = s /\ i > 1
      BY <3>1, GovernsFromAbove DEF acls
    <3>3. InScope(auth, s, i > 1)
      BY <2>7, <3>2 DEF InScope
    <3> QED BY <2>5, <3>1, <3>2, <3>3
  <2> QED BY <2>1, <2>6, <2>7
<1>4. ASSUME ReachesSomeone(s, acl) PROVE grants_anything(acl, s)
  <2>1. PICK a \in Agents, u \in Urls : decide_from(Chain(u), acls, a, 1) # {}
    BY <1>4 DEF ReachesSomeone, acls
  <2> DEFINE c == Chain(u)
  <2>2. PICK i \in Governing(c, acls, 1) : decide(acls[c[i]], a, c[i], i > 1) # {}
    BY <2>1 DEF decide_from
  <2>3. c[i] = s
    BY <1>2, <2>2 DEF Governing
  <2> HIDE DEF c
  <2>4. PICK m : m \in decide(acl, a, s, i > 1)
    BY <1>2, <2>2, <2>3
  <2>5. PICK auth \in acl : /\ InScope(auth, s, i > 1)
                            /\ matches_agent(auth, a)
                            /\ m \in auth.modes \cap Modes
    BY <2>4, DecideOne
  <2>6. s \in auth.accessTo \/ s \in auth.default
    BY <2>5 DEF InScope
  <2>7. names_someone(auth)
    BY <2>1, <2>5 DEF matches_agent, names_someone, Agents
  <2>8. has_recognized_mode(auth)
    BY <2>5 DEF has_recognized_mode
  <2> QED BY <2>6, <2>7, <2>8 DEF grants_anything
<1> QED BY <1>3, <1>4 DEF warn_if_acl_grants_nothing

\* For every ACL of every container the warning is exact (WarningIsExact): given
\* for precisely those under which the guard denies everyone everything.
THEOREM WarningsAreExact == Spec => []WarningIsExact
<1>1. Asked => WarningIsExact
  <2> SUFFICES ASSUME Asked, asked.what = "acl", asked.x.subject.slash
               PROVE  warn_if_acl_grants_nothing(asked.x.subject, asked.x.acl)
                        <=> ~ReachesSomeone(asked.x.subject, asked.x.acl)
    BY DEF WarningIsExact
  <2>1. asked.x.subject \in Containers
    BY InputsAssumption DEF Asked, Containers
  <2> QED BY <2>1, WarnedIffNobody
<1> QED BY <1>1, AskedAlways, PTL
=============================================================================
