-------------------------------- MODULE Bus --------------------------------
(***************************************************************************)
(* The change-notification registry (src/src/notify.rs): one broadcast     *)
(* channel per topic, made by its first reader and reclaimed with its last.*)
(*                                                                         *)
(* The registry is behind a read-write lock; each action is what one lock  *)
(* acquisition covers, or what runs outside of it: a reader lets go of its *)
(* channel before it takes the lock, and the gate a writer passes counts   *)
(* readers under one acquisition and evicts under another.                 *)
(*                                                                         *)
(* tokio's broadcast channel is external: a bounded backlog per reader     *)
(* that loses its oldest events and says so.                               *)
(***************************************************************************)
EXTENDS Naturals

CONSTANTS
  Topics,
  Readers,      \* holders of a Receiver
  Writers,      \* handlers that emit an event after a write
  Channels,     \* channel identities; bound: a new channel takes a free one
  CAPACITY      \* events buffered per reader

ASSUME BusAssumption == CAPACITY \in Nat \ {0}

NoChannel == "none"

ASSUME ChannelAssumption ==
  /\ NoChannel \notin Channels
  /\ Readers \cap Writers = {}

VARIABLES
  channels,   \* the registry: topic -> channel
  reader,     \* reader -> "none", "live", or "dropped": let go, not yet unregistered
  topic,      \* reader or writer -> its topic
  rx,         \* reader -> the channel it reads
  backlog,    \* reader -> events it has not taken
  lagged,     \* reader -> whether it lost some and was not told yet
  writer      \* writer -> "idle", "evicting" or "publishing"

vars == <<channels, reader, topic, rx, backlog, lagged, writer>>

TypeOK ==
  /\ channels \in [Topics -> Channels \cup {NoChannel}]
  /\ reader \in [Readers -> {"none", "live", "dropped"}]
  /\ topic \in [Readers \cup Writers -> Topics]
  /\ rx \in [Readers -> Channels \cup {NoChannel}]
  /\ backlog \in [Readers -> 0..CAPACITY]
  /\ lagged \in [Readers -> BOOLEAN]
  /\ writer \in [Writers -> {"idle", "evicting", "publishing"}]

\* Sender::receiver_count, as the set it counts.
Receivers(c) == {r \in Readers : reader[r] = "live" /\ rx[r] = c}

Free(c) == (\A t \in Topics : channels[t] # c) /\ Receivers(c) = {}

-----------------------------------------------------------------------------
\* Bus::subscribe, under the write lock: the registered channel, or a new one.
subscribe(r, t) ==
  /\ reader[r] = "none"
  /\ \E c \in Channels :
       /\ IF channels[t] = NoChannel THEN Free(c) ELSE c = channels[t]
       /\ channels' = [channels EXCEPT ![t] = c]
       /\ rx' = [rx EXCEPT ![r] = c]
  /\ reader' = [reader EXCEPT ![r] = "live"]
  /\ topic' = [topic EXCEPT ![r] = t]
  /\ backlog' = [backlog EXCEPT ![r] = 0]
  /\ lagged' = [lagged EXCEPT ![r] = FALSE]
  /\ UNCHANGED writer

\* Receiver::recv: the loss is reported first, then the next event.
recv(r) ==
  /\ reader[r] = "live"
  /\ \/ /\ lagged[r]
        /\ lagged' = [lagged EXCEPT ![r] = FALSE]
        /\ UNCHANGED backlog
     \/ /\ ~lagged[r] /\ backlog[r] > 0
        /\ backlog' = [backlog EXCEPT ![r] = @ - 1]
        /\ UNCHANGED lagged
  /\ UNCHANGED <<channels, reader, topic, rx, writer>>

\* Drop for Receiver, first half: the inner receiver goes, without the lock.
Release(r) ==
  /\ reader[r] = "live"
  /\ reader' = [reader EXCEPT ![r] = "dropped"]
  /\ rx' = [rx EXCEPT ![r] = NoChannel]
  /\ backlog' = [backlog EXCEPT ![r] = 0]
  /\ lagged' = [lagged EXCEPT ![r] = FALSE]
  /\ UNCHANGED <<channels, topic, writer>>

\* What both removals do under the write lock.
RemoveIfUnread(t) ==
  channels' = IF channels[t] # NoChannel /\ Receivers(channels[t]) = {}
              THEN [channels EXCEPT ![t] = NoChannel]
              ELSE channels

\* Fault: the reclaim is left to the next writer's gate.
LeaveToWriters(r) ==
  /\ reader[r] = "dropped"
  /\ reader' = [reader EXCEPT ![r] = "none"]
  /\ UNCHANGED <<channels, topic, rx, backlog, lagged, writer>>

\* Drop for Receiver, second half, under the write lock.
Unregister(r) ==
  /\ reader[r] = "dropped"
  /\ RemoveIfUnread(topic[r])
  /\ reader' = [reader EXCEPT ![r] = "none"]
  /\ UNCHANGED <<topic, rx, backlog, lagged, writer>>

\* Bus::live under the read lock: nobody there, nobody left, or somebody.
live(w, t) ==
  /\ writer[w] = "idle"
  /\ channels[t] # NoChannel
  /\ writer' = [writer EXCEPT ![w] =
                  IF Receivers(channels[t]) = {} THEN "evicting" ELSE "publishing"]
  /\ topic' = [topic EXCEPT ![w] = t]
  /\ UNCHANGED <<channels, reader, rx, backlog, lagged>>

\* Fault: the eviction trusts the count taken under the read lock.
EvictUncounted(w) ==
  /\ writer[w] = "evicting"
  /\ channels' = [channels EXCEPT ![topic[w]] = NoChannel]
  /\ writer' = [writer EXCEPT ![w] = "idle"]
  /\ UNCHANGED <<reader, topic, rx, backlog, lagged>>

\* Bus::live under the write lock: counted again, then evicted.
Evict(w) ==
  /\ writer[w] = "evicting"
  /\ RemoveIfUnread(topic[w])
  /\ writer' = [writer EXCEPT ![w] = "idle"]
  /\ UNCHANGED <<reader, topic, rx, backlog, lagged>>

\* Fault: a full backlog takes one more.
Overfill(w) ==
  /\ writer[w] = "publishing"
  /\ channels[topic[w]] # NoChannel
  /\ backlog' = [r \in Readers |->
                    IF r \in Receivers(channels[topic[w]]) THEN backlog[r] + 1
                    ELSE backlog[r]]
  /\ writer' = [writer EXCEPT ![w] = "idle"]
  /\ UNCHANGED <<channels, reader, topic, rx, lagged>>

\* publish_own: the state is read back from the store (an await), then
\* Bus::publish sends to whatever channel the topic has by then.
publish(w) ==
  /\ writer[w] = "publishing"
  /\ LET told == IF channels[topic[w]] = NoChannel THEN {}
                 ELSE Receivers(channels[topic[w]])
     IN /\ backlog' = [r \in Readers |->
                         IF r \in told /\ backlog[r] < CAPACITY
                         THEN backlog[r] + 1 ELSE backlog[r]]
        /\ lagged' = [r \in Readers |->
                         lagged[r] \/ (r \in told /\ backlog[r] = CAPACITY)]
  /\ writer' = [writer EXCEPT ![w] = "idle"]
  /\ UNCHANGED <<channels, reader, topic, rx>>

-----------------------------------------------------------------------------
Init ==
  /\ channels = [t \in Topics |-> NoChannel]
  /\ reader = [r \in Readers |-> "none"]
  /\ topic \in [Readers \cup Writers -> Topics]
  /\ rx = [r \in Readers |-> NoChannel]
  /\ backlog = [r \in Readers |-> 0]
  /\ lagged = [r \in Readers |-> FALSE]
  /\ writer = [w \in Writers |-> "idle"]

Next ==
  \/ \E r \in Readers :
       (\E t \in Topics : subscribe(r, t)) \/ recv(r) \/ Release(r) \/ Unregister(r)
  \/ \E w \in Writers :
       (\E t \in Topics : live(w, t)) \/ Evict(w) \/ publish(w)

\* A drop that has begun runs to its end.
Fairness == \A r \in Readers : WF_vars(Unregister(r))

Spec == Init /\ [][Next]_vars /\ Fairness

-----------------------------------------------------------------------------
\* No reader is cut off: while it reads, its topic is registered to the very
\* channel it reads, so the next publish reaches it.  Eviction and the drop of
\* another reader race its subscription and must not take the channel away.
NoReaderCutOff ==
  \A r \in Readers : reader[r] = "live" => channels[topic[r]] = rx[r]

\* No channel is left behind: one without a reader has a drop under way that
\* will take it out ("a channel behind that no later Drop can reclaim").
NoChannelLeftBehind ==
  \A t \in Topics :
    channels[t] # NoChannel /\ Receivers(channels[t]) = {} =>
      \E r \in Readers : reader[r] = "dropped" /\ topic[r] = t

\* The registry does not grow over client-chosen topics: a channel nobody reads
\* is reclaimed or found by a new reader, even if nothing is ever published.
UnreadIsReclaimed ==
  \A t \in Topics :
    (channels[t] # NoChannel /\ Receivers(channels[t]) = {})
      ~> (channels[t] = NoChannel \/ Receivers(channels[t]) # {})
=============================================================================
