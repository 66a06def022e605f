------------------------------- MODULE Config -------------------------------
(***************************************************************************)
(* Process configuration and the start (src/src/config.rs, main.rs): which *)
(* file is read, which of a flag, the environment, the file and a default  *)
(* a value comes from, and what refuses the start before a request is      *)
(* served.                                                                 *)
(*                                                                         *)
(* Three arguments stand for all: "owner" is required, "listen" has a      *)
(* default, "issuers" is a list.  A source gives an argument a sequence of *)
(* values, or <<>> when it says nothing of it; "bad" and "worse" are ones  *)
(* its parser refuses, "blank" is empty once trimmed.  clap and toml are   *)
(* external.                                                               *)
(***************************************************************************)
EXTENDS Naturals, Sequences, SequencesExt

Args == {"owner", "listen", "issuers"}
NoPath == "none"
BadValues == {"bad", "worse"}
Nothing == [a \in Args |-> <<>>]

Default == [owner |-> <<>>, listen |-> <<"default">>, issuers |-> <<>>]

-----------------------------------------------------------------------------
\* config_path_from: argv.configs are the paths --config is given, in order.
config_path_from(argv, env) ==
  IF argv.configs # <<>> THEN argv.configs[1] ELSE env.config

\* FileConfig::read and as_defaults: a file is readable TOML of known keys, or
\* refuses the start.  It cannot say "issuers = []" and be told from silence
\* once its lists are clap's defaults.
FileReads(file) == file.readable /\ file.toml /\ ~file.unknownKey

\* Fault: the file wins over the environment.
FileFirst(flags, env, file, arg) ==
  IF flags[arg] # <<>> THEN flags[arg]
  ELSE IF file[arg] # <<>> THEN file[arg]
  ELSE IF env[arg] # <<>> THEN env[arg]
  ELSE Default[arg]

\* command_with: the file's values are clap's defaults, so a source that speaks
\* replaces the lower ones whole.
Effective(flags, env, file, arg) ==
  IF flags[arg] # <<>> THEN flags[arg]
  ELSE IF env[arg] # <<>> THEN env[arg]
  ELSE IF file[arg] # <<>> THEN file[arg]
  ELSE Default[arg]

\* Fault: the file is blamed for every key it sets.
BlameByKey(arg, value, file) == file[arg] # <<>>

\* blame_file: only for a value the file gave.
blame_file(arg, value, file) == Contains(file[arg], value)

NotLoaded(blamed) == [ok |-> FALSE, blamed |-> blamed, path |-> NoPath, values |-> Nothing]

\* Config::try_load_from.  clap refuses an argument it does not know, a second
\* --config, a value its parser refuses and, last, a missing owner.
try_load_from(argv, env, files) ==
  LET path == config_path_from(argv, env)
      file == IF path = NoPath THEN Nothing ELSE files[path].values
      value == [a \in Args |-> Effective(argv.flags, env.values, file, a)]
      wrong == {a \in Args : ToSet(value[a]) \cap BadValues # {}}
  IN IF path # NoPath /\ ~FileReads(files[path]) THEN NotLoaded({path})
     ELSE IF argv.unknown \/ Len(argv.configs) > 1 THEN NotLoaded({})
     ELSE IF wrong # {}
       THEN LET a == CHOOSE x \in wrong : TRUE
                rejected == value[a][SelectInSeq(value[a], LAMBDA v : v \in BadValues)]
            IN NotLoaded(IF path # NoPath /\ blame_file(a, rejected, file) THEN {path} ELSE {})
     ELSE IF value["owner"] = <<>> THEN NotLoaded({})
     ELSE [ok |-> TRUE, blamed |-> {}, path |-> path, values |-> value]

-----------------------------------------------------------------------------
\* Config::blobs and Config::rdf_store: a spec names one backend or refuses.
Backend(spec, scheme) ==
  IF spec \in {"memory", scheme} THEN spec ELSE "refused"

\* Config::op_keys, before KeySet::load_or_generate: off, refused for a base
\* with a path, or to be loaded.
op_keys(cfg) ==
  IF ~cfg.op THEN "off" ELSE IF cfg.basePath THEN "refused" ELSE "load"

\* A start that ends: with status 2, or by a panic of what comes after.
Exit == [serving |-> FALSE, refused |-> TRUE, made |-> {}, blobs |-> "none", rdf |-> "none"]

\* What a start whose configuration stands comes to: the root, its policy and
\* the listener, one after the other.
Reach(cfg, made, fails) ==
  LET upTo(done) == [serving |-> FALSE, refused |-> FALSE, made |-> made \cup done,
                     blobs |-> Backend(cfg.blobs, "local"), rdf |-> Backend(cfg.rdf, "rocksdb")]
  IN CASE fails = "root" -> upTo({})
       [] fails = "acl" -> upTo({"root"})
       [] fails = "bind" -> upTo({"root", "acl"})
       [] OTHER -> [upTo({"root", "acl"}) EXCEPT !.serving = TRUE]

\* Fault: the keys are made before the stores are opened.
KeysFirst(cfg, hostsOk, keys, storesOpen, fails) ==
  LET made == IF op_keys(cfg) = "load" THEN {"keys"} ELSE {} IN
  IF ~hostsOk \/ op_keys(cfg) = "refused" \/ (made # {} /\ keys # "loaded") THEN Exit
  ELSE IF \/ Backend(cfg.blobs, "local") = "refused" \/ Backend(cfg.rdf, "rocksdb") = "refused"
          \/ ~storesOpen
    THEN [Exit EXCEPT !.made = made]
  ELSE Reach(cfg, made, fails)

\* main, of a configuration that loaded.  hostsOk: every insecure host is
\* understood; storesOpen: the two backends can be opened; keys: the key file is
\* read or made ("loaded"), cannot be ("failed"), or is created and then not
\* written ("cutShort"); fails: the first later step to fail, or "none".  made is
\* what is there of root, policy and signing keys at the end.
main(cfg, hostsOk, keys, storesOpen, fails) ==
  IF ~hostsOk THEN Exit
  ELSE IF Backend(cfg.blobs, "local") = "refused" THEN Exit
  ELSE IF Backend(cfg.rdf, "rocksdb") = "refused" \/ ~storesOpen THEN Exit
  ELSE IF op_keys(cfg) = "refused" THEN Exit
  ELSE IF op_keys(cfg) = "load" /\ keys = "failed" THEN Exit
  ELSE IF op_keys(cfg) = "load" /\ keys = "cutShort" THEN [Exit EXCEPT !.made = {"emptyFile"}]
  ELSE Reach(cfg, IF op_keys(cfg) = "load" THEN {"keys"} ELSE {}, fails)

-----------------------------------------------------------------------------
\* A pod that loads its configuration read the one file clap too takes for its
\* --config, and every value is the whole of what the highest source that speaks
\* says: never a mixture, never a lower one.
RunsAsConfigured(argv, env, files) ==
  LET cfg == try_load_from(argv, env, files)
      named == IF argv.configs # <<>> THEN ToSet(argv.configs) ELSE {env.config}
      file == IF cfg.path = NoPath THEN Nothing ELSE files[cfg.path].values
      sources == <<argv.flags, env.values, file, Default>>
  IN cfg.ok =>
       /\ named = {cfg.path}
       /\ \A a \in Args :
            LET speaking == {i \in 1..4 : sources[i][a] # <<>>} IN
            IF speaking = {} THEN cfg.values[a] = <<>>
            ELSE \E i \in speaking : /\ \A j \in speaking : i <= j
                                     /\ cfg.values[a] = sources[i][a]

\* A file is named in a refusal only if it is at fault: it cannot be read, or a
\* value it gives cannot be.
BlamesTheCulprit(argv, env, files) ==
  \A path \in try_load_from(argv, env, files).blamed :
    \/ ~FileReads(files[path])
    \/ \E a \in Args : \E v \in BadValues :
         /\ Contains(files[path].values[a], v)
         /\ Contains(Effective(argv.flags, env.values, files[path].values, a), v)

\* A configuration is refused before anything is made of it: no root, no policy
\* and no signing keys, at most the empty file of keys that could not be written.
\* One that is not is taken at its word: the backends are those it names, and a
\* pod that serves has a policy at its root.
ServesOrLeavesNothing(cfg, hostsOk, keys, storesOpen, fails) ==
  LET started == main(cfg, hostsOk, keys, storesOpen, fails) IN
  IF started.refused
  THEN started.made \subseteq IF keys = "cutShort" THEN {"emptyFile"} ELSE {}
  ELSE /\ started.blobs = cfg.blobs /\ started.rdf = cfg.rdf
       /\ cfg.blobs \in {"memory", "local"} /\ cfg.rdf \in {"memory", "rocksdb"}
       /\ started.serving => "acl" \in started.made
=============================================================================
