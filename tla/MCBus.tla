------------------------------- MODULE MCBus -------------------------------
(***************************************************************************)
(* An instance of Bus for TLC: two topics, three readers that come and go, *)
(* two writers racing them.  A channel is registered or read, so two of    *)
(* them and a spare are never used up.                                     *)
(***************************************************************************)
EXTENDS Bus

MCTopics == {"a", "b"}
MCReaders == {"r1", "r2", "r3"}
MCWriters == {"w1", "w2"}
MCChannels == {"c1", "c2", "c3"}
=============================================================================
