------------------------------ MODULE BusProofs ------------------------------
(***************************************************************************)
(* Bus for every number of topics, readers, writers and channels and every *)
(* capacity: no race of subscribe, drop and eviction takes a channel from  *)
(* the reader that holds it.                                               *)
(***************************************************************************)
EXTENDS Bus, TLAPS

\* The inductive form of NoReaderCutOff: a live reader reads a channel, and the
\* registry maps its topic to that very channel.
Attached ==
  \A r \in Readers : reader[r] = "live" =>
    rx[r] \in Channels /\ channels[topic[r]] = rx[r]

IInv == TypeOK /\ Attached

\* Taking out a channel nobody reads takes none from a reader.
LEMMA RemovalSparesReaders ==
  ASSUME IInv, NEW t \in Topics, RemoveIfUnread(t)
  PROVE  /\ channels' \in [Topics -> Channels \cup {NoChannel}]
         /\ \A r \in Readers : reader[r] = "live" => channels'[topic[r]] = rx[r]
<1>1. CASE channels[t] # NoChannel /\ Receivers(channels[t]) = {}
  <2>1. channels' = [channels EXCEPT ![t] = NoChannel]
    BY <1>1 DEF RemoveIfUnread
  <2>2. ASSUME NEW r \in Readers, reader[r] = "live" PROVE topic[r] # t
    BY <1>1, <2>2 DEF IInv, Attached, Receivers
  <2> QED BY <2>1, <2>2 DEF IInv, Attached, TypeOK
<1>2. CASE ~(channels[t] # NoChannel /\ Receivers(channels[t]) = {})
  BY <1>2 DEF RemoveIfUnread, IInv, Attached, TypeOK
<1> QED BY <1>1, <1>2

\* Every step of the registry preserves the inductive invariant.
LEMMA StepPreserves == IInv /\ [Next]_vars => IInv'
<1> SUFFICES ASSUME IInv, [Next]_vars PROVE IInv'
  OBVIOUS
<1> USE BusAssumption, ChannelAssumption
<1>1. ASSUME NEW r \in Readers, NEW t \in Topics, subscribe(r, t) PROVE IInv'
  <2>1. PICK c \in Channels :
          /\ IF channels[t] = NoChannel THEN Free(c) ELSE c = channels[t]
          /\ channels' = [channels EXCEPT ![t] = c]
          /\ rx' = [rx EXCEPT ![r] = c]
    BY <1>1 DEF subscribe
  <2>2. TypeOK'
    BY <1>1, <2>1 DEF subscribe, IInv, TypeOK
  <2>3. ASSUME NEW q \in Readers, reader'[q] = "live"
        PROVE  rx'[q] \in Channels /\ channels'[topic'[q]] = rx'[q]
    <3>1. CASE q = r
      BY <1>1, <2>1, <3>1 DEF subscribe, IInv, TypeOK
    <3>2. CASE q # r
      <4>1. /\ reader[q] = "live" /\ topic'[q] = topic[q] /\ rx'[q] = rx[q]
            /\ topic[q] \in Topics
        BY <1>1, <2>1, <2>3, <3>2 DEF subscribe, IInv, TypeOK
      <4>2. rx[q] \in Channels /\ channels[topic[q]] = rx[q]
        BY <4>1 DEF IInv, Attached
      <4>3. CASE topic[q] = t
        BY <2>1, <4>1, <4>2, <4>3 DEF IInv, TypeOK
      <4>4. CASE topic[q] # t
        BY <2>1, <4>1, <4>2, <4>4 DEF IInv, TypeOK
      <4> QED BY <4>3, <4>4
    <3> QED BY <3>1, <3>2
  <2> QED BY <2>2, <2>3 DEF IInv, Attached
<1>2. ASSUME NEW r \in Readers, recv(r) PROVE IInv'
  <2>1. backlog[r] \in 0..CAPACITY
    BY DEF IInv, TypeOK
  <2>2. backlog' \in [Readers -> 0..CAPACITY]
    <3>1. CASE backlog' = backlog
      BY <3>1 DEF IInv, TypeOK
    <3>2. CASE backlog[r] > 0 /\ backlog' = [backlog EXCEPT ![r] = @ - 1]
      <4>1. backlog[r] - 1 \in 0..CAPACITY
        BY <2>1, <3>2
      <4> QED BY <3>2, <4>1 DEF IInv, TypeOK
    <3> QED BY <1>2, <3>1, <3>2 DEF recv
  <2>3. lagged' \in [Readers -> BOOLEAN]
    BY <1>2 DEF recv, IInv, TypeOK
  <2>4. UNCHANGED <<channels, reader, topic, rx, writer>>
    BY <1>2 DEF recv
  <2> QED BY <2>2, <2>3, <2>4 DEF IInv, TypeOK, Attached
<1>3. ASSUME NEW r \in Readers, Release(r) PROVE IInv'
  BY <1>3 DEF Release, IInv, TypeOK, Attached
<1>4. ASSUME NEW r \in Readers, Unregister(r) PROVE IInv'
  <2>1. topic[r] \in Topics
    BY DEF IInv, TypeOK
  <2>2. /\ channels' \in [Topics -> Channels \cup {NoChannel}]
        /\ \A q \in Readers : reader[q] = "live" => channels'[topic[q]] = rx[q]
    BY <1>4, <2>1, RemovalSparesReaders DEF Unregister
  <2>3. TypeOK'
    BY <1>4, <2>2 DEF Unregister, IInv, TypeOK
  <2>4. Attached'
    BY <1>4, <2>2 DEF Unregister, IInv, TypeOK, Attached
  <2> QED BY <2>3, <2>4 DEF IInv
<1>5. ASSUME NEW w \in Writers, NEW t \in Topics, live(w, t) PROVE IInv'
  <2>1. TypeOK'
    BY <1>5 DEF live, IInv, TypeOK
  <2>2. w \notin Readers
    OBVIOUS
  <2>3. Attached'
    BY <1>5, <2>2 DEF live, IInv, TypeOK, Attached
  <2> QED BY <2>1, <2>3 DEF IInv
<1>6. ASSUME NEW w \in Writers, Evict(w) PROVE IInv'
  <2>1. topic[w] \in Topics
    BY DEF IInv, TypeOK
  <2>2. /\ channels' \in [Topics -> Channels \cup {NoChannel}]
        /\ \A q \in Readers : reader[q] = "live" => channels'[topic[q]] = rx[q]
    BY <1>6, <2>1, RemovalSparesReaders DEF Evict
  <2>3. TypeOK'
    BY <1>6, <2>2 DEF Evict, IInv, TypeOK
  <2>4. Attached'
    BY <1>6, <2>2 DEF Evict, IInv, TypeOK, Attached
  <2> QED BY <2>3, <2>4 DEF IInv
<1>7. ASSUME NEW w \in Writers, publish(w) PROVE IInv'
  <2>1. /\ UNCHANGED <<channels, reader, topic, rx>>
        /\ backlog' \in [Readers -> 0..CAPACITY]
        /\ lagged' \in [Readers -> BOOLEAN]
        /\ writer' \in [Writers -> {"idle", "evicting", "publishing"}]
    BY <1>7 DEF publish, IInv, TypeOK
  <2> QED BY <2>1 DEF IInv, TypeOK, Attached
<1>8. CASE UNCHANGED vars
  BY <1>8 DEF vars, IInv, TypeOK, Attached
<1> QED BY <1>1, <1>2, <1>3, <1>4, <1>5, <1>6, <1>7, <1>8 DEF Next

\* The registry and its readers are always of their types, a backlog never over
\* the capacity included.
THEOREM TypeCorrect == Spec => []TypeOK
<1>1. Init => IInv
  BY BusAssumption DEF Init, IInv, TypeOK, Attached
<1>2. IInv => TypeOK
  BY DEF IInv
<1> QED BY <1>1, <1>2, StepPreserves, PTL DEF Spec

\* No reader is cut off: whatever subscribes, drops and evictions interleave, a
\* live reader's topic stays registered to the channel it reads, so the next
\* Bus::publish reaches it.
THEOREM ReadersStayAttached == Spec => []NoReaderCutOff
<1>1. Init => IInv
  BY BusAssumption DEF Init, IInv, TypeOK, Attached
<1>2. IInv => NoReaderCutOff
  BY DEF IInv, Attached, NoReaderCutOff
<1> QED BY <1>1, <1>2, StepPreserves, PTL DEF Spec

-----------------------------------------------------------------------------
\* No two topics share a channel.
Distinct ==
  \A s, t \in Topics : channels[s] # NoChannel /\ channels[s] = channels[t] => s = t

\* A registered channel somebody reads is read by a reader of its own topic, so
\* the last one to let go is also the one that will look the topic up.
Tended == Distinct /\ NoChannelLeftBehind

\* A removal under the lock, by whomever, leaves the other channels tended; the
\* reader that made it is no longer needed for its own topic.
LEMMA RemovalTends ==
  ASSUME IInv, Tended, NEW t \in Topics, RemoveIfUnread(t), UNCHANGED <<rx, topic>>,
         \A r \in Readers : reader'[r] = "live" <=> reader[r] = "live",
         \A r \in Readers : reader[r] = "dropped" /\ reader'[r] # "dropped" => topic[r] = t
  PROVE  Tended'
<1>1. \A c : Receivers(c)' = Receivers(c)
  BY DEF Receivers
<1>2. \A s \in Topics : channels'[s] = channels[s] \/ (s = t /\ channels'[s] = NoChannel)
  BY DEF RemoveIfUnread, IInv, TypeOK
<1>3. channels[t] # NoChannel /\ Receivers(channels[t]) = {} => channels'[t] = NoChannel
  BY DEF RemoveIfUnread, IInv, TypeOK
<1>4. Distinct'
  BY <1>2 DEF Tended, Distinct
<1>5. ASSUME NEW s \in Topics, channels'[s] # NoChannel, Receivers(channels[s])' = {},
             channels'[s] = channels[s]
      PROVE  \E r \in Readers : reader'[r] = "dropped" /\ topic'[r] = s
  <2>1. s # t
    BY <1>1, <1>3, <1>5
  <2>2. PICK r \in Readers : reader[r] = "dropped" /\ topic[r] = s
    BY <1>1, <1>5 DEF Tended, NoChannelLeftBehind
  <2> QED BY <2>1, <2>2
<1>6. NoChannelLeftBehind'
  <2> SUFFICES ASSUME NEW s \in Topics, channels'[s] # NoChannel,
                      Receivers(channels[s])' = {}
               PROVE  \E r \in Readers : reader'[r] = "dropped" /\ topic'[r] = s
    BY DEF NoChannelLeftBehind
  <2> QED BY <1>2, <1>5
<1> QED BY <1>4, <1>6 DEF Tended

\* Every step of the registry keeps every channel tended.
LEMMA StepTends == IInv /\ Tended /\ [Next]_vars => Tended'
<1> SUFFICES ASSUME IInv, Tended, [Next]_vars PROVE Tended'
  OBVIOUS
<1> USE ChannelAssumption
<1>1. ASSUME NEW r \in Readers, NEW t \in Topics, subscribe(r, t) PROVE Tended'
  <2>1. PICK c \in Channels :
          /\ IF channels[t] = NoChannel THEN Free(c) ELSE c = channels[t]
          /\ channels' = [channels EXCEPT ![t] = c]
          /\ rx' = [rx EXCEPT ![r] = c]
    BY <1>1 DEF subscribe
  <2>2. /\ channels'[t] = c
        /\ \A s \in Topics : s # t => channels'[s] = channels[s] /\ channels[s] # c
    BY <2>1 DEF IInv, TypeOK, Free, Tended, Distinct
  <2>3. Distinct'
    BY <2>2 DEF Tended, Distinct
  <2>4. r \in Receivers(channels[t])'
    BY <1>1, <2>1, <2>2 DEF subscribe, Receivers, IInv, TypeOK
  <2>5. ASSUME NEW s \in Topics, channels'[s] # NoChannel, Receivers(channels[s])' = {}
        PROVE  \E q \in Readers : reader'[q] = "dropped" /\ topic'[q] = s
    <3>1. s # t /\ channels'[s] = channels[s]
      BY <2>2, <2>4, <2>5
    <3>2. Receivers(channels[s]) = {}
      <4> SUFFICES ASSUME NEW q \in Readers, reader[q] = "live", rx[q] = channels[s]
                   PROVE  FALSE
        BY DEF Receivers
      <4>1. q # r
        BY <1>1 DEF subscribe
      <4>2. reader'[q] = "live" /\ rx'[q] = channels'[s]
        BY <1>1, <2>1, <3>1, <4>1 DEF subscribe, IInv, TypeOK
      <4> QED BY <2>5, <4>2 DEF Receivers
    <3>3. PICK q \in Readers : reader[q] = "dropped" /\ topic[q] = s
      BY <2>5, <3>1, <3>2 DEF Tended, NoChannelLeftBehind
    <3>4. q # r
      BY <1>1, <3>3 DEF subscribe
    <3> QED BY <1>1, <3>3, <3>4 DEF subscribe, IInv, TypeOK
  <2> QED BY <2>3, <2>5 DEF Tended, NoChannelLeftBehind
<1>2. ASSUME NEW r \in Readers, recv(r) PROVE Tended'
  BY <1>2 DEF recv, Tended, Distinct, NoChannelLeftBehind, Receivers
<1>3. ASSUME NEW r \in Readers, Release(r) PROVE Tended'
  <2>1. Distinct'
    BY <1>3 DEF Release, Tended, Distinct
  <2>2. /\ reader[r] = "live" /\ reader'[r] = "dropped" /\ UNCHANGED <<channels, topic>>
        /\ \A q \in Readers : q # r => reader'[q] = reader[q] /\ rx'[q] = rx[q]
    BY <1>3 DEF Release, IInv, TypeOK
  <2>3. ASSUME NEW s \in Topics, channels'[s] # NoChannel, Receivers(channels[s])' = {}
        PROVE  \E q \in Readers : reader'[q] = "dropped" /\ topic'[q] = s
    <3>1. CASE topic[r] = s
      BY <2>2, <3>1
    <3>2. CASE topic[r] # s
      <4>1. rx[r] # channels[s]
        <5>1. channels[topic[r]] = rx[r] /\ rx[r] \in Channels /\ topic[r] \in Topics
          BY <2>2 DEF IInv, Attached, TypeOK
        <5> QED BY <3>2, <5>1 DEF Tended, Distinct
      <4>2. Receivers(channels[s]) = {}
        <5> SUFFICES ASSUME NEW q \in Readers, reader[q] = "live", rx[q] = channels[s]
                     PROVE  FALSE
          BY DEF Receivers
        <5>1. reader'[q] = "live" /\ rx'[q] = channels'[s]
          BY <2>2, <4>1
        <5> QED BY <2>3, <5>1 DEF Receivers
      <4>3. PICK q \in Readers : reader[q] = "dropped" /\ topic[q] = s
        BY <2>2, <2>3, <4>2 DEF Tended, NoChannelLeftBehind
      <4> QED BY <2>2, <4>3
    <3> QED BY <3>1, <3>2
  <2> QED BY <2>1, <2>3 DEF Tended, NoChannelLeftBehind
<1>4. ASSUME NEW r \in Readers, Unregister(r) PROVE Tended'
  <2>1. /\ topic[r] \in Topics /\ RemoveIfUnread(topic[r]) /\ UNCHANGED <<rx, topic>>
        /\ \A q \in Readers : reader'[q] = "live" <=> reader[q] = "live"
        /\ \A q \in Readers :
             reader[q] = "dropped" /\ reader'[q] # "dropped" => topic[q] = topic[r]
    BY <1>4 DEF Unregister, IInv, TypeOK
  <2> QED BY <2>1, RemovalTends
<1>5. ASSUME NEW w \in Writers, NEW t \in Topics, live(w, t) PROVE Tended'
  <2>1. UNCHANGED <<channels, reader, rx>> /\ \A q \in Readers : topic'[q] = topic[q]
    BY <1>5 DEF live, IInv, TypeOK
  <2> QED BY <2>1 DEF Tended, Distinct, NoChannelLeftBehind, Receivers
<1>6. ASSUME NEW w \in Writers, Evict(w) PROVE Tended'
  <2>1. /\ topic[w] \in Topics /\ RemoveIfUnread(topic[w]) /\ UNCHANGED <<rx, topic, reader>>
    BY <1>6 DEF Evict, IInv, TypeOK
  <2> QED BY <2>1, RemovalTends
<1>7. ASSUME NEW w \in Writers, publish(w) PROVE Tended'
  BY <1>7 DEF publish, Tended, Distinct, NoChannelLeftBehind, Receivers
<1>8. CASE UNCHANGED vars
  BY <1>8 DEF vars, Tended, Distinct, NoChannelLeftBehind, Receivers
<1> QED BY <1>1, <1>2, <1>3, <1>4, <1>5, <1>6, <1>7, <1>8 DEF Next

\* No channel is left behind: a registered channel without a reader has a drop
\* under way that takes the lock after it, so that Receiver's own Drop reclaims
\* every channel even if nothing is ever published.
THEOREM ChannelsAreTended == Spec => []NoChannelLeftBehind
<1>1. Init => IInv /\ Tended
  BY BusAssumption DEF Init, IInv, TypeOK, Attached, Tended, Distinct, NoChannelLeftBehind
<1>2. Tended => NoChannelLeftBehind
  BY DEF Tended
<1> QED BY <1>1, <1>2, StepPreserves, StepTends, PTL DEF Spec
=============================================================================
