---------------------------- MODULE Reachability ----------------------------
(***************************************************************************)
(* How the local backend's polls become the retained `online` of each unit *)
(* and the bridge's `connected` level, across broker reconnects:           *)
(* internal/zendure/local/source.go (observe, one goroutine per unit) over *)
(* internal/coordinator/coordinator.go (DeviceReachable, UpstreamUsable,   *)
(* PublishOnline on a goroutine of the MQTT lifecycle).                    *)
(*                                                                         *)
(* Each critical section (reachMu, lastMu) and each publish is one step.   *)
(* The state plane, the runtime and the broker are libraries and services  *)
(* outside the repository, modelled from how the coordinator uses them.    *)
(***************************************************************************)
EXTENDS Integers, FiniteSets

CONSTANTS
  Device,           \* the configured units
  UnreachableAfter, \* consecutive failed polls that make a unit unreachable
  None,             \* not known yet: no entry in a map, no retained message
  LinkMayDrop,      \* whether the broker link may go down
  StoreMayBeLost    \* whether a broker may come back without its store

ASSUME ReachabilityAssumption ==
  /\ IsFiniteSet(Device)
  /\ UnreachableAfter \in Nat \ {0}
  /\ None \notin BOOLEAN
  /\ LinkMayDrop \in BOOLEAN /\ StoreMayBeLost \in BOOLEAN

\* discovery.ConnectedBroker and discovery.ConnectedOperational; 0 is the will.
Broker == 1
Operational == 2

VARIABLES
  answers,    \* whether the unit answers its HTTP API
  failures,   \* Backend.failures, capped at UnreachableAfter
  reachable,  \* Backend.reachable
  poll,       \* what each unit's poll goroutine has yet to do with a result
  reach,      \* Coordinator.reach
  online,     \* the retained <name>/status/<sn>/online
  cache,      \* the state plane's last value of it that reached the broker
  level,      \* the runtime's connected level
  connected,  \* the retained <name>/connected
  link,       \* up, dying (writes succeed and are lost), down
  handler,    \* where PublishOnline is
  snapshot,   \* publishReachability's copy of reach, None once published
  polled      \* history: units whose poll took a step since the link came up

backend == <<failures, reachable, poll>>
broker == <<online, cache, level, connected>>
reconnect == <<handler, snapshot>>
vars == <<answers, backend, reach, broker, link, reconnect, polled>>

Known == BOOLEAN \cup {None}

\* A poll goroutine between two calls: the step it is at, the poll's outcome,
\* and whether any unit was reachable when it was recorded.
Polling == [at : {"idle", "reach", "online", "upstream"}, ok : BOOLEAN, usable : BOOLEAN]
Idle == [at |-> "idle", ok |-> FALSE, usable |-> FALSE]

\* Every variable has its type, and what a poll goroutine carries out of
\* reachMu agrees with what it recorded: its unit's outcome is still the
\* recorded one, and an answering unit makes the upstream usable.
TypeOK ==
  /\ answers \in [Device -> BOOLEAN]
  /\ failures \in [Device -> 0..UnreachableAfter]
  /\ reachable \in [Device -> Known]
  /\ poll \in [Device -> Polling]
  /\ \A d \in Device :
       poll[d].at # "idle" => reachable[d] = poll[d].ok /\ (poll[d].ok => poll[d].usable)
  /\ reach \in [Device -> Known]
  /\ online \in [Device -> Known]
  /\ cache \in [Device -> Known]
  /\ level \in {Broker, Operational}
  /\ connected \in {0, Broker, Operational}
  /\ link \in {"up", "dying", "down"}
  /\ handler \in {"idle", "announce", "snapshot", "online", "replay"}
  /\ snapshot \in [Device -> Known]
  /\ polled \subseteq Device

\* A process that has just started: nothing known, nothing published by it.
Fresh ==
  /\ answers \in [Device -> BOOLEAN]
  /\ failures = [d \in Device |-> 0]
  /\ reachable = [d \in Device |-> None]
  /\ poll = [d \in Device |-> Idle]
  /\ reach = [d \in Device |-> None]
  /\ online = [d \in Device |-> None]
  /\ cache = [d \in Device |-> None]
  /\ level = Broker
  /\ handler = "idle"
  /\ snapshot = [d \in Device |-> None]
  /\ polled = {}

\* Run has announced the bridge and starts the backend.
Init ==
  /\ Fresh
  /\ connected = Broker
  /\ link = "up"

-----------------------------------------------------------------------------
(***************************************************************************)
(* The libraries.                                                          *)
(***************************************************************************)
\* StatePlane.PublishStatus: a value the cache does not hold is written, at
\* QoS 0, and kept in the cache when the write returns no error.
PublishStatus(d, v) ==
  IF link # "down" /\ cache[d] # v
  THEN /\ online' = IF link = "up" THEN [online EXCEPT ![d] = v] ELSE online
       /\ cache' = [cache EXCEPT ![d] = v]
  ELSE UNCHANGED <<online, cache>>

\* StatePlane.Republish: every cached value again.
Republish ==
  online' = IF link = "up"
            THEN [d \in Device |-> IF cache[d] = None THEN online[d] ELSE cache[d]]
            ELSE online

\* HARuntime.SetConnected publishes a change of the level.
SetConnected(lv) ==
  /\ level' = lv
  /\ connected' = IF link = "up" /\ lv # level THEN lv ELSE connected

-----------------------------------------------------------------------------
(***************************************************************************)
(* One poll of unit d.                                                     *)
(***************************************************************************)
Usable == \E d \in Device : reachable'[d] = TRUE

\* The failures in a row after one more poll, counted to UnreachableAfter.
FailuresAfter(d, ok) ==
  IF ok THEN 0 ELSE IF failures[d] < UnreachableAfter THEN failures[d] + 1 ELSE failures[d]

\* Unit d's reachability is recorded as ok, and the observer is to be told.
Record(d, ok) ==
  /\ reachable' = [reachable EXCEPT ![d] = ok]
  /\ poll' = [poll EXCEPT ![d] = [at |-> "reach", ok |-> ok, usable |-> Usable]]

Polled(d, n) ==
  /\ poll[d].at = "idle"
  /\ failures' = [failures EXCEPT ![d] = n]
  /\ polled' = polled \cup {d}
  /\ UNCHANGED <<answers, reach, broker, link, reconnect>>

\* Faulty: tells the observer only what changed.
ObserveChange(d) ==
  LET ok == answers[d]
      n  == FailuresAfter(d, ok)
  IN  /\ Polled(d, n)
      /\ IF (~ok /\ n < UnreachableAfter) \/ reachable[d] = ok
         THEN UNCHANGED <<reachable, poll>>
         ELSE Record(d, ok)

\* pollOnce, and observe up to releasing reachMu: a failure short of
\* UnreachableAfter reports nothing.
Observe(d) ==
  LET ok == answers[d]
      n  == FailuresAfter(d, ok)
  IN  /\ Polled(d, n)
      /\ IF ~ok /\ n < UnreachableAfter THEN UNCHANGED <<reachable, poll>> ELSE Record(d, ok)

Goto(d, at) ==
  /\ poll' = [poll EXCEPT ![d] = IF at = "idle" THEN Idle ELSE [@ EXCEPT !.at = at]]
  /\ polled' = polled \cup {d}
  /\ UNCHANGED <<answers, failures, reachable, link, reconnect>>

\* DeviceReachable under lastMu.
RecordReach(d) ==
  /\ poll[d].at = "reach"
  /\ reach' = [reach EXCEPT ![d] = poll[d].ok]
  /\ Goto(d, "online")
  /\ UNCHANGED broker

\* DeviceReachable after lastMu.
PublishOnlineOf(d) ==
  /\ poll[d].at = "online"
  /\ PublishStatus(d, poll[d].ok)
  /\ Goto(d, "upstream")
  /\ UNCHANGED <<reach, level, connected>>

UpstreamUsable(d) ==
  /\ poll[d].at = "upstream"
  /\ SetConnected(IF poll[d].usable THEN Operational ELSE Broker)
  /\ Goto(d, "idle")
  /\ UNCHANGED <<reach, online, cache>>

-----------------------------------------------------------------------------
(***************************************************************************)
(* PublishOnline on a reconnect.  The discovery documents are another      *)
(* component's.                                                            *)
(***************************************************************************)
Handle(from, to) ==
  /\ handler = from
  /\ handler' = to
  /\ UNCHANGED <<answers, backend, reach, level, link, polled>>

\* AnnounceOnline writes the current level.
AnnounceOnline ==
  /\ Handle("announce", "snapshot")
  /\ connected' = IF link = "up" THEN level ELSE connected
  /\ UNCHANGED <<online, cache, snapshot>>

\* Faulty: the replay is left to do it.
TakeNoSnapshot ==
  /\ Handle("snapshot", "online")
  /\ UNCHANGED <<online, cache, connected, snapshot>>

\* publishReachability under lastMu.
TakeSnapshot ==
  /\ Handle("snapshot", "online")
  /\ snapshot' = reach
  /\ UNCHANGED <<online, cache, connected>>

\* publishReachability after lastMu, one unit at a time.
PublishSnapshot(d) ==
  /\ Handle("online", "online")
  /\ snapshot[d] # None
  /\ PublishStatus(d, snapshot[d])
  /\ snapshot' = [snapshot EXCEPT ![d] = None]
  /\ UNCHANGED connected

SnapshotPublished ==
  /\ Handle("online", "replay")
  /\ \A d \in Device : snapshot[d] = None
  /\ UNCHANGED <<online, cache, connected, snapshot>>

\* Faulty: the cache is not replayed.
SkipReplay ==
  /\ Handle("replay", "idle")
  /\ UNCHANGED <<online, cache, connected, snapshot>>

Replay ==
  /\ Handle("replay", "idle")
  /\ Republish
  /\ UNCHANGED <<cache, connected, snapshot>>

-----------------------------------------------------------------------------
(***************************************************************************)
(* The units and the broker.                                               *)
(***************************************************************************)
\* A unit stops or resumes answering; a missed poll is a unit that did so in
\* between two of them.
AnswersChange(d) ==
  /\ answers' = [answers EXCEPT ![d] = ~@]
  /\ UNCHANGED <<backend, reach, broker, link, reconnect, polled>>

\* The link goes away, and the broker publishes the will.
LinkFails ==
  /\ LinkMayDrop
  /\ \/ link = "up" /\ link' = "dying" /\ UNCHANGED connected
     \/ link = "dying" /\ link' = "down" /\ connected' = 0
  /\ UNCHANGED <<answers, backend, reach, online, cache, level, reconnect, polled>>

\* The lifecycle reconnects and runs its OnConnect hook, one at a time.
LinkUp ==
  /\ link = "down"
  /\ handler = "idle"
  /\ link' = "up"
  /\ handler' = "announce"
  /\ \/ UNCHANGED <<online, connected>>
     \/ /\ StoreMayBeLost
        /\ online' = [d \in Device |-> None]
        /\ connected' = 0
  /\ polled' = {d \in Device : poll[d].at # "idle"}
  /\ UNCHANGED <<answers, backend, reach, cache, level, snapshot>>

PollStep(d) ==
  Observe(d) \/ RecordReach(d) \/ PublishOnlineOf(d) \/ UpstreamUsable(d)

ReconnectStep ==
  \/ AnnounceOnline
  \/ TakeSnapshot
  \/ \E d \in Device : PublishSnapshot(d)
  \/ SnapshotPublished
  \/ Replay

Next ==
  \/ \E d \in Device : PollStep(d)
  \/ ReconnectStep
  \/ \E d \in Device : AnswersChange(d)
  \/ LinkFails
  \/ LinkUp

Spec == Init /\ [][Next]_vars

-----------------------------------------------------------------------------
\* A unit is unreachable exactly when its last UnreachableAfter polls failed:
\* one missed poll never makes it so, and a success makes it reachable at once
\* (source.go:36-41, 75-82), whatever else is in flight.
Debounced ==
  \A d \in Device :
    /\ reachable[d] = FALSE <=> failures[d] = UnreachableAfter
    /\ reachable[d] = None => failures[d] < UnreachableAfter

\* Once a reconnect has been handled the broker holds, for every unit, the
\* value the state plane believes it holds, a lost store included: otherwise
\* the dedup gate would keep the right value from ever being written again
\* (PublishOnline, coordinator.go:448-455).
RetainedIsCached ==
  link = "up" /\ handler = "idle" => \A d \in Device : cache[d] \in {None, online[d]}

\* A unit that changed during the outage is right after the reconnect without
\* waiting for its next poll (publishReachability, coordinator.go:530-538).
ReconnectIsCurrent ==
  link = "up" /\ handler = "idle" =>
    \A d \in Device \ polled : reach[d] \in {None, online[d]}

\* What is published settles on what is so: while the link stays up and a unit
\* keeps answering (or keeps not to), its `online` comes to say so for good,
\* whichever stale value an overtaken publish leaves behind.
OnlineSettles ==
  \A d \in Device, b \in BOOLEAN :
    <>[](link = "up" /\ answers[d] = b) => <>[](online[d] = b)

\* The same for `connected`: 2 for good once a unit keeps answering, 1 once
\* every unit keeps not to.
ConnectedSettles ==
  <>[](link = "up") =>
    /\ (\E d \in Device : <>[](answers[d])) => <>[](connected = Operational)
    /\ (\A d \in Device : <>[](~answers[d])) => <>[](connected = Broker)
=============================================================================
