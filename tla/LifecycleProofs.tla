---------------------------- MODULE LifecycleProofs ----------------------------
(***************************************************************************)
(* Proofs about Reachability and about the whole run of the daemon that    *)
(* Lifecycle makes of it, for any set of units and any debounce count: the *)
(* type invariant, the debounce, the two facts a reconnect restores (that  *)
(* the broker holds what the cache says it holds, and that no unit is left *)
(* with what was so before the outage), that all four hold from the        *)
(* daemon's start to its stop, and that a graceful stop leaves connected   *)
(* at 0.                                                                   *)
(***************************************************************************)
EXTENDS Lifecycle, TLAPS

USE DEF Broker, Operational

\* One step, named: the disjuncts of Next without the auxiliary groupings.
LEMMA Steps ==
  ASSUME Next
  PROVE  \/ \E d \in Device : Observe(d)
         \/ \E d \in Device : RecordReach(d)
         \/ \E d \in Device : PublishOnlineOf(d)
         \/ \E d \in Device : UpstreamUsable(d)
         \/ AnnounceOnline
         \/ TakeSnapshot
         \/ \E d \in Device : PublishSnapshot(d)
         \/ SnapshotPublished
         \/ Replay
         \/ \E d \in Device : AnswersChange(d)
         \/ LinkFails
         \/ LinkUp
BY DEF Next, PollStep, ReconnectStep

-----------------------------------------------------------------------------
(***************************************************************************)
(* Types.                                                                  *)
(***************************************************************************)
\* The variables in groups, so that a step disturbs few of them.
TypeBackend ==
  /\ answers \in [Device -> BOOLEAN]
  /\ failures \in [Device -> 0..UnreachableAfter]
  /\ reachable \in [Device -> Known]
  /\ polled \subseteq Device

TypePoll ==
  /\ poll \in [Device -> Polling]
  /\ \A d \in Device :
       poll[d].at # "idle" => reachable[d] = poll[d].ok /\ (poll[d].ok => poll[d].usable)

TypeBroker ==
  /\ reach \in [Device -> Known]
  /\ online \in [Device -> Known]
  /\ cache \in [Device -> Known]
  /\ level \in {Broker, Operational}
  /\ connected \in {0, Broker, Operational}
  /\ link \in {"up", "dying", "down"}
  /\ handler \in {"idle", "announce", "snapshot", "online", "replay"}
  /\ snapshot \in [Device -> Known]

LEMMA TypeParts == TypeOK <=> TypeBackend /\ TypePoll /\ TypeBroker
BY DEF TypeOK, TypeBackend, TypePoll, TypeBroker

LEMMA InitType == Init => TypeOK
BY ReachabilityAssumption DEF Init, Fresh, TypeOK, Known, Polling, Idle

\* The count stays between zero and the debounce.
LEMMA FailuresAfterType ==
  ASSUME TypeOK, NEW d \in Device, NEW ok \in BOOLEAN
  PROVE  FailuresAfter(d, ok) \in 0..UnreachableAfter
BY ReachabilityAssumption DEF TypeOK, FailuresAfter

LEMMA ObserveType ==
  ASSUME TypeOK, NEW d \in Device, Observe(d)
  PROVE  TypeOK'
<1> DEFINE ok == answers[d]
           n == FailuresAfter(d, ok)
<1>1. ok \in BOOLEAN /\ n \in 0..UnreachableAfter
  BY FailuresAfterType DEF TypeOK
<1> HIDE DEF ok, n
<1>2. Polled(d, n)
  BY DEF Observe, ok, n
<1>3. TypeBroker'
  BY <1>2 DEF Polled, TypeOK, TypeBroker, broker, reconnect
<1>4. CASE UNCHANGED <<reachable, poll>>
  <2>1. TypeBackend' /\ TypePoll'
    BY <1>1, <1>2, <1>4 DEF Polled, TypeOK, TypeBackend, TypePoll
  <2> QED BY <2>1, <1>3 DEF TypeOK, TypeBackend, TypePoll, TypeBroker
<1>5. CASE Record(d, ok)
  <2>1. TypeBackend'
    BY <1>1, <1>2, <1>5 DEF Polled, Record, TypeOK, TypeBackend, Known
  <2>2. Usable \in BOOLEAN /\ (ok => Usable)
    BY <1>1, <1>5 DEF Usable, Record, TypeOK
  <2> HIDE DEF Usable
  <2>3. TypePoll'
    BY <1>1, <1>5, <2>2 DEF Record, TypeOK, TypePoll, Polling
  <2> QED BY <2>1, <2>3, <1>3 DEF TypeOK, TypeBackend, TypePoll, TypeBroker
<1> QED BY <1>4, <1>5 DEF Observe, ok, n

\* A write of a known value keeps the retained and the cached values typed.
LEMMA PublishStatusType ==
  ASSUME TypeOK, NEW d \in Device, NEW v \in Known, PublishStatus(d, v)
  PROVE  online' \in [Device -> Known] /\ cache' \in [Device -> Known]
BY DEF TypeOK, PublishStatus

LEMMA GotoType ==
  ASSUME TypeOK, NEW d \in Device,
         NEW at \in {"idle", "reach", "online", "upstream"},
         poll[d].at # "idle", Goto(d, at)
  PROVE  TypeBackend' /\ TypePoll'
<1>1. TypeBackend'
  BY DEF Goto, TypeOK, TypeBackend
<1>2. CASE at = "idle"
  BY <1>1, <1>2 DEF Goto, TypeOK, TypePoll, Polling, Idle
<1>3. CASE at # "idle"
  BY <1>1, <1>3 DEF Goto, TypeOK, TypePoll, Polling
<1> QED BY <1>1, <1>2, <1>3

LEMMA PollType ==
  ASSUME TypeOK, NEW d \in Device,
         RecordReach(d) \/ PublishOnlineOf(d) \/ UpstreamUsable(d)
  PROVE  TypeOK'
<1>1. poll[d].ok \in Known /\ poll[d].usable \in BOOLEAN
  BY DEF TypeOK, Polling, Known
<1>2. CASE RecordReach(d)
  <2>1. TypeBackend' /\ TypePoll'
    BY <1>2, GotoType DEF RecordReach
  <2>2. TypeBroker'
    BY <1>1, <1>2 DEF RecordReach, Goto, TypeOK, TypeBroker, broker, reconnect
  <2> QED BY <2>1, <2>2 DEF TypeOK, TypeBackend, TypePoll, TypeBroker
<1>3. CASE PublishOnlineOf(d)
  <2>1. TypeBackend' /\ TypePoll'
    BY <1>3, GotoType DEF PublishOnlineOf
  <2>2. online' \in [Device -> Known] /\ cache' \in [Device -> Known]
    BY <1>1, <1>3, PublishStatusType DEF PublishOnlineOf
  <2>3. TypeBroker'
    BY <1>3, <2>2 DEF PublishOnlineOf, Goto, TypeOK, TypeBroker, reconnect
  <2> QED BY <2>1, <2>3 DEF TypeOK, TypeBackend, TypePoll, TypeBroker
<1>4. CASE UpstreamUsable(d)
  <2>1. TypeBackend' /\ TypePoll'
    BY <1>4, GotoType DEF UpstreamUsable
  <2>2. TypeBroker'
    BY <1>1, <1>4 DEF UpstreamUsable, SetConnected, Goto, TypeOK, TypeBroker, reconnect
  <2> QED BY <2>1, <2>2 DEF TypeOK, TypeBackend, TypePoll, TypeBroker
<1> QED BY <1>2, <1>3, <1>4

LEMMA ReconnectType ==
  ASSUME TypeOK,
         \/ AnnounceOnline
         \/ TakeSnapshot
         \/ \E d \in Device : PublishSnapshot(d)
         \/ SnapshotPublished
         \/ Replay
  PROVE  TypeOK'
<1> SUFFICES TypeBroker' /\ UNCHANGED <<answers, backend, polled>>
  BY DEF TypeOK, TypeBroker, backend
<1>1. CASE AnnounceOnline
  BY <1>1 DEF AnnounceOnline, Handle, TypeOK, TypeBroker
<1>2. CASE TakeSnapshot
  BY <1>2 DEF TakeSnapshot, Handle, TypeOK, TypeBroker
<1>3. ASSUME NEW d \in Device, PublishSnapshot(d)
      PROVE  TypeBroker' /\ UNCHANGED <<answers, backend, polled>>
  <2>1. snapshot[d] \in Known
    BY DEF TypeOK
  <2>2. online' \in [Device -> Known] /\ cache' \in [Device -> Known]
    BY <1>3, <2>1, PublishStatusType DEF PublishSnapshot
  <2> QED BY <1>3, <2>2 DEF PublishSnapshot, Handle, TypeOK, TypeBroker, Known
<1>4. CASE SnapshotPublished
  BY <1>4 DEF SnapshotPublished, Handle, TypeOK, TypeBroker
<1>5. CASE Replay
  BY <1>5 DEF Replay, Republish, Handle, TypeOK, TypeBroker
<1> QED BY <1>1, <1>2, <1>3, <1>4, <1>5

LEMMA EnvironmentType ==
  ASSUME TypeOK, (\E d \in Device : AnswersChange(d)) \/ LinkFails \/ LinkUp
  PROVE  TypeOK'
<1>1. ASSUME NEW d \in Device, AnswersChange(d) PROVE TypeOK'
  BY <1>1 DEF AnswersChange, TypeOK, backend, broker, reconnect
<1>2. CASE LinkFails
  BY <1>2 DEF LinkFails, TypeOK, backend, reconnect
<1>3. CASE LinkUp
  BY <1>3 DEF LinkUp, TypeOK, backend, Known
<1> QED BY <1>1, <1>2, <1>3

LEMMA NextType == TypeOK /\ [Next]_vars => TypeOK'
<1> SUFFICES ASSUME TypeOK, [Next]_vars PROVE TypeOK'
  OBVIOUS
<1>1. CASE Next
  BY <1>1, Steps, ObserveType, PollType, ReconnectType, EnvironmentType
<1>2. CASE UNCHANGED vars
  BY <1>2 DEF vars, backend, broker, reconnect, TypeOK
<1> QED BY <1>1, <1>2

\* Every variable keeps its type, and what a poll goroutine carries out of
\* reachMu still agrees with the recorded reachability (source.go:83-105).
THEOREM TypeCorrect == Spec => []TypeOK
<1> QED BY InitType, NextType, PTL DEF Spec

-----------------------------------------------------------------------------
(***************************************************************************)
(* The debounce is inductive by itself.                                    *)
(***************************************************************************)
LEMMA ObserveDebounced ==
  ASSUME TypeOK, Debounced, NEW d \in Device, Observe(d)
  PROVE  Debounced'
<1> DEFINE ok == answers[d]
           n == FailuresAfter(d, ok)
<1>0. ok \in BOOLEAN /\ failures[d] \in 0..UnreachableAfter
  BY DEF TypeOK
<1> HIDE DEF ok
<1>1. /\ ok \in BOOLEAN
      /\ n \in 0..UnreachableAfter
      /\ ok => n = 0
      /\ ~ok => n = failures[d] + 1 \/ (n = failures[d] /\ n = UnreachableAfter)
  BY <1>0, ReachabilityAssumption DEF FailuresAfter
<1> HIDE DEF n
<1>2. failures' = [failures EXCEPT ![d] = n]
  BY DEF Observe, Polled, ok, n
<1>3. /\ failures \in [Device -> 0..UnreachableAfter]
      /\ reachable \in [Device -> Known]
  BY DEF TypeOK
<1>4. CASE ~ok /\ n < UnreachableAfter /\ UNCHANGED <<reachable, poll>>
  BY <1>1, <1>2, <1>3, <1>4, ReachabilityAssumption DEF Debounced, Known
<1>5. CASE ~(~ok /\ n < UnreachableAfter) /\ Record(d, ok)
  BY <1>1, <1>2, <1>3, <1>5, ReachabilityAssumption DEF Debounced, Record, Known
<1> QED BY <1>4, <1>5 DEF Observe, ok, n

LEMMA OthersDebounced ==
  ASSUME Debounced, UNCHANGED <<failures, reachable>>
  PROVE  Debounced'
BY DEF Debounced

\* No step but a poll's outcome touches the counts or what they decide.
LEMMA CountsKept ==
  ASSUME [Next]_vars, \A d \in Device : ~Observe(d)
  PROVE  UNCHANGED <<failures, reachable>>
<1>1. CASE Next
  BY <1>1, Steps DEF RecordReach, PublishOnlineOf, UpstreamUsable, Goto,
     AnnounceOnline, TakeSnapshot, PublishSnapshot, SnapshotPublished, Replay, Handle,
     AnswersChange, LinkFails, LinkUp, backend
<1>2. CASE UNCHANGED vars
  BY <1>2 DEF vars, backend
<1> QED BY <1>1, <1>2

LEMMA InitDebounced == Init => Debounced
<1> SUFFICES ASSUME Init PROVE Debounced
  OBVIOUS
<1>1. None # FALSE
  BY ReachabilityAssumption
<1>2. \A d \in Device : reachable[d] = None /\ failures[d] = 0
  BY DEF Init, Fresh
<1>3. 0 # UnreachableAfter /\ 0 < UnreachableAfter
  BY ReachabilityAssumption
<1> QED BY <1>1, <1>2, <1>3 DEF Debounced

LEMMA DebouncedInductive ==
  ASSUME TypeOK, Debounced, [Next]_vars
  PROVE  Debounced'
<1>1. CASE \E d \in Device : Observe(d)
  BY <1>1, ObserveDebounced
<1>2. CASE \A d \in Device : ~Observe(d)
  BY <1>2, OthersDebounced, CountsKept
<1> QED BY <1>1, <1>2

\* A unit is unreachable exactly when its last UnreachableAfter polls failed
\* (source.go:36-41, 75-105).
THEOREM DebounceCorrect == Spec => []Debounced
<1> QED BY InitDebounced, DebouncedInductive, TypeCorrect, PTL DEF Spec

-----------------------------------------------------------------------------
(***************************************************************************)
(* The reconnect.                                                          *)
(***************************************************************************)
\* Each unit's write, as far as the broker's side of it goes.
LEMMA PublishStatusKeeps ==
  ASSUME TypeOK, NEW d \in Device, NEW v \in BOOLEAN, PublishStatus(d, v)
  PROVE  /\ link = "up" => cache'[d] = v
         /\ link = "up" /\ cache[d] \in {None, online[d]} => cache'[d] \in {None, online'[d]}
         /\ \A e \in Device \ {d} : cache'[e] = cache[e] /\ online'[e] = online[e]
BY ReachabilityAssumption DEF TypeOK, PublishStatus

LEMMA CachedInductive ==
  ASSUME TypeOK, RetainedIsCached, [Next]_vars
  PROVE  RetainedIsCached'
<1>1. ASSUME NEW d \in Device, Observe(d) \/ RecordReach(d) \/ UpstreamUsable(d)
      PROVE  RetainedIsCached'
  BY <1>1 DEF Observe, Polled, RecordReach, UpstreamUsable, SetConnected, Goto,
     RetainedIsCached, broker, reconnect
<1>2. ASSUME NEW d \in Device, PublishOnlineOf(d) PROVE RetainedIsCached'
  <2>1. poll[d].ok \in BOOLEAN
    BY DEF TypeOK, Polling
  <2>2. UNCHANGED <<link, handler>> /\ PublishStatus(d, poll[d].ok)
    BY <1>2 DEF PublishOnlineOf, Goto, reconnect
  <2> QED BY <2>1, <2>2, PublishStatusKeeps DEF RetainedIsCached
<1>3. CASE AnnounceOnline \/ TakeSnapshot \/ SnapshotPublished
           \/ \E d \in Device : PublishSnapshot(d)
  BY <1>3 DEF AnnounceOnline, TakeSnapshot, SnapshotPublished, PublishSnapshot, Handle,
     RetainedIsCached
<1>4. CASE Replay
  BY <1>4 DEF Replay, Republish, Handle, TypeOK, RetainedIsCached
<1>5. ASSUME NEW d \in Device, AnswersChange(d) PROVE RetainedIsCached'
  BY <1>5 DEF AnswersChange, RetainedIsCached, broker, reconnect
<1>6. CASE LinkFails \/ LinkUp
  BY <1>6 DEF LinkFails, LinkUp, RetainedIsCached, reconnect
<1>7. CASE UNCHANGED vars
  BY <1>7 DEF vars, broker, reconnect, RetainedIsCached
<1> QED BY <1>1, <1>2, <1>3, <1>4, <1>5, <1>6, <1>7, Steps

\* After every handled reconnect the broker holds what the cache says it
\* holds, so the dedup gate never suppresses a value the broker lacks
\* (coordinator.go:448-455, 714-730).
THEOREM CacheCorrect == Spec => []RetainedIsCached
<1>1. Init => RetainedIsCached
  BY DEF Init, Fresh, RetainedIsCached
<1> QED BY <1>1, CachedInductive, TypeCorrect, PTL DEF Spec

\* What the hook has done so far for a unit whose poll has not stepped since
\* the link came up: the strengthening of ReconnectIsCurrent.
Current(d) ==
  /\ poll[d].at = "idle"
  /\ handler = "online" =>
       snapshot[d] = reach[d] \/ (snapshot[d] = None /\ reach[d] = cache[d])
  /\ handler = "replay" => reach[d] \in {None, cache[d]}
  /\ handler = "idle" => reach[d] \in {None, online[d]}

CurrentInv == link = "up" => \A d \in Device \ polled : Current(d)

LEMMA CurrentInductive ==
  ASSUME TypeOK, CurrentInv, [Next]_vars
  PROVE  CurrentInv'
<1> USE DEF CurrentInv, Current
<1>1. ASSUME NEW d \in Device, Observe(d) PROVE CurrentInv'
  <2>1. UNCHANGED <<reach, online, cache, link, handler, snapshot>> /\ polled' = polled \cup {d}
    BY <1>1 DEF Observe, Polled, broker, reconnect
  <2>2. \A e \in Device \ {d} : poll'[e] = poll[e]
    BY <1>1 DEF Observe, Record, TypeOK
  <2> QED BY <2>1, <2>2
<1>2. ASSUME NEW d \in Device, RecordReach(d) \/ PublishOnlineOf(d) \/ UpstreamUsable(d)
      PROVE  CurrentInv'
  <2>1. UNCHANGED <<link, handler, snapshot>> /\ polled' = polled \cup {d}
    BY <1>2 DEF RecordReach, PublishOnlineOf, UpstreamUsable, Goto, reconnect
  <2>2. \A e \in Device \ {d} : poll'[e] = poll[e]
    BY <1>2 DEF RecordReach, PublishOnlineOf, UpstreamUsable, Goto, TypeOK
  <2>3. \A e \in Device \ {d} : reach'[e] = reach[e] /\ cache'[e] = cache[e] /\ online'[e] = online[e]
    <3>1. poll[d].ok \in BOOLEAN
      BY DEF TypeOK, Polling
    <3>2. CASE RecordReach(d)
      BY <3>2 DEF RecordReach, TypeOK, broker
    <3>3. CASE PublishOnlineOf(d)
      BY <3>1, <3>3, PublishStatusKeeps DEF PublishOnlineOf
    <3>4. CASE UpstreamUsable(d)
      BY <3>4 DEF UpstreamUsable
    <3> QED BY <1>2, <3>2, <3>3, <3>4
  <2> QED BY <2>1, <2>2, <2>3
<1>3. CASE AnnounceOnline
  BY <1>3 DEF AnnounceOnline, Handle, backend
<1>4. CASE TakeSnapshot
  BY <1>4 DEF TakeSnapshot, Handle, backend
<1>5. ASSUME NEW d \in Device, PublishSnapshot(d) PROVE CurrentInv'
  <2>1. UNCHANGED <<link, polled, poll, reach>> /\ handler = "online" /\ handler' = "online"
    BY <1>5 DEF PublishSnapshot, Handle, backend
  <2>2. snapshot[d] \in BOOLEAN /\ PublishStatus(d, snapshot[d])
    BY <1>5 DEF PublishSnapshot, TypeOK, Known
  <2>3. /\ link = "up" => cache'[d] = snapshot[d]
        /\ \A e \in Device \ {d} : cache'[e] = cache[e]
    BY <2>2, PublishStatusKeeps
  <2>4. /\ snapshot'[d] = None /\ snapshot[d] # None
        /\ \A e \in Device \ {d} : snapshot'[e] = snapshot[e]
    BY <1>5 DEF PublishSnapshot, TypeOK
  <2> QED BY <2>1, <2>3, <2>4
<1>6. CASE SnapshotPublished
  BY <1>6 DEF SnapshotPublished, Handle, backend
<1>7. CASE Replay
  BY <1>7 DEF Replay, Republish, Handle, backend, TypeOK
<1>8. ASSUME NEW d \in Device, AnswersChange(d) PROVE CurrentInv'
  BY <1>8 DEF AnswersChange, backend, broker, reconnect
<1>9. CASE LinkFails
  BY <1>9 DEF LinkFails
<1>10. CASE LinkUp
  BY <1>10 DEF LinkUp, backend
<1>11. CASE UNCHANGED vars
  BY <1>11 DEF vars, backend, broker, reconnect
<1> QED BY <1>1, <1>2, <1>3, <1>4, <1>5, <1>6, <1>7, <1>8, <1>9, <1>10, <1>11, Steps

\* A unit that changed during the outage is right after the reconnect without
\* waiting for its next poll (coordinator.go:530-554).
THEOREM ReconnectCorrect == Spec => []ReconnectIsCurrent
<1>1. Init => CurrentInv
  BY DEF Init, Fresh, CurrentInv, Current, Idle
<1>2. CurrentInv => ReconnectIsCurrent
  BY DEF CurrentInv, Current, ReconnectIsCurrent
<1> QED BY <1>1, <1>2, CurrentInductive, TypeCorrect, PTL DEF Spec

-----------------------------------------------------------------------------
(***************************************************************************)
(* The stop.  QuietStopSaysSo is about the end only; StopInv says what it  *)
(* rests on before: no poll is left once the backend has returned, no hook *)
(* works under a stop that found none, and connected is 0 whenever the     *)
(* link is down, by the will, or the offline marker has been written.      *)
(***************************************************************************)
Leaving == main \in {"offline", "disconnect", "stopped"}

StopInv ==
  /\ Leaving => Stopping /\ \A d \in Device : poll[d].at = "idle"
  /\ Stopping /\ ~late => ~Hooking
  /\ link = "down" /\ main # "stopped" => connected = 0
  /\ link = "up" /\ main = "disconnect" /\ ~late => connected = 0
  /\ QuietStopSaysSo

LEMMA InitStop == LifecycleInit => StopInv
BY DEF LifecycleInit, StopInv, Leaving, Stopping, QuietStopSaysSo

\* A step of the main goroutine.
LEMMA MainStop ==
  ASSUME StopInv, MainStep
  PROVE  StopInv'
<1> USE DEF StopInv, Leaving, Stopping, Hooking, QuietStopSaysSo, vars, backend, broker, reconnect
<1>1. CASE RegisterHook BY <1>1 DEF RegisterHook, At
<1>2. CASE TellInfoIfConnected BY <1>2 DEF TellInfoIfConnected, At
<1>3. CASE Announce BY <1>3 DEF Announce, At
<1>4. CASE Subscribe("commands", "commands", "birth") BY <1>4 DEF Subscribe, At
<1>5. CASE Subscribe("birth", "birth", "polling") BY <1>5 DEF Subscribe, At
<1>6. CASE Drain BY <1>6 DEF Drain, At
<1>7. CASE PublishOffline BY <1>7 DEF PublishOffline, At
<1>8. CASE Disconnect BY <1>8 DEF Disconnect, At
<1> QED BY <1>1, <1>2, <1>3, <1>4, <1>5, <1>6, <1>7, <1>8 DEF MainStep

\* A step of a poll: none is left once the daemon leaves, and none writes
\* connected while the link is down.
LEMMA PollStop ==
  ASSUME StopInv, NEW d \in Device, Poll(d)
  PROVE  StopInv'
<1>1. ~Leaving
  BY DEF Poll, StopInv, Leaving
<1>2. UNCHANGED <<link, reconnect, process>>
  BY DEF Poll, PollStep, PublishFails, Goto, Observe, Polled, RecordReach, PublishOnlineOf,
         UpstreamUsable
<1>3. link = "down" => connected' = connected
  BY DEF Poll, PollStep, PublishFails, Goto, Observe, Polled, RecordReach, PublishOnlineOf,
         UpstreamUsable, SetConnected, broker
<1> QED BY <1>1, <1>2, <1>3
        DEF StopInv, Leaving, Stopping, Hooking, QuietStopSaysSo, reconnect, process

\* A step of the connect hook: under a stop that found no hook there is none.
LEMMA HookStop ==
  ASSUME StopInv, Hook
  PROVE  StopInv'
<1>1. Hooking /\ main # "stopped"
  BY DEF Hook, Hooking, ReconnectStep, AnnounceOnline, TakeSnapshot, PublishSnapshot,
         SnapshotPublished, Replay, Handle
<1>2. Stopping => late
  BY <1>1 DEF StopInv
<1>3. UNCHANGED <<poll, link, main, stop, sub, late>>
  BY DEF Hook, ReconnectStep, AnnounceOnline, TakeSnapshot, PublishSnapshot,
         SnapshotPublished, Replay, Handle, process, backend, vars
<1>4. link = "down" => connected' = connected
  BY DEF Hook, ReconnectStep, AnnounceOnline, TakeSnapshot, PublishSnapshot,
         SnapshotPublished, Replay, Handle, broker, vars
<1> QED BY <1>1, <1>2, <1>3, <1>4 DEF StopInv, Leaving, Stopping, QuietStopSaysSo

\* Every other step.
LEMMA OtherStop ==
  ASSUME StopInv,
         \/ \E s \in Sub : RetrySubscribe(s)
         \/ Connect
         \/ LinkDies
         \/ \E d \in Device : Answers(d)
         \/ Signal
         \/ WebFails
  PROVE  StopInv'
<1> USE DEF StopInv, Leaving, Stopping, Hooking, QuietStopSaysSo, vars, backend, broker,
            reconnect, process
<1>1. CASE \E s \in Sub : RetrySubscribe(s) BY <1>1 DEF RetrySubscribe
<1>2. CASE Connect BY <1>2 DEF Connect, LinkUp
<1>3. CASE LinkDies BY <1>3 DEF LinkDies, LinkFails
<1>4. CASE \E d \in Device : Answers(d) BY <1>4 DEF Answers, AnswersChange
<1>5. CASE Signal BY <1>5 DEF Signal
<1>6. CASE WebFails BY <1>6 DEF WebFails
<1> QED BY <1>1, <1>2, <1>3, <1>4, <1>5, <1>6

LEMMA StopKept == StopInv /\ [LifecycleNext]_lifecycleVars => StopInv'
<1> SUFFICES ASSUME StopInv, [LifecycleNext]_lifecycleVars PROVE StopInv'
  OBVIOUS
<1>1. CASE LifecycleNext
  BY <1>1, MainStop, PollStop, HookStop, OtherStop DEF LifecycleNext
<1>2. CASE UNCHANGED lifecycleVars
  BY <1>2 DEF lifecycleVars, process, vars, backend, broker, reconnect, StopInv, Leaving,
              Stopping, Hooking, QuietStopSaysSo
<1> QED BY <1>1, <1>2

\* A graceful stop with no connect hook at work at it or after it leaves
\* connected at 0 (main.go:270-281).
THEOREM QuietStop == LifecycleSpec => []QuietStopSaysSo
<1>1. StopInv => QuietStopSaysSo
  BY DEF StopInv
<1> QED BY InitStop, StopKept, <1>1, PTL DEF LifecycleSpec

-----------------------------------------------------------------------------
(***************************************************************************)
(* The invariants of Reachability.  A step of the daemon is a step of      *)
(* Reachability or one of four more, which disturb little of it.           *)
(***************************************************************************)
ConnectedOnly ==
  /\ connected' \in {connected, 0, level}
  /\ UNCHANGED <<answers, backend, reach, online, cache, level, link, reconnect, polled>>

LinkOnly ==
  /\ UNCHANGED <<answers, backend, reach, broker, reconnect, polled>>
  /\ \/ link' = "down"
     \/ link' = "up" /\ main = "started"

\* Before the hook is registered nothing has been heard of a unit.
Silent ==
  main = "started" =>
    handler = "idle" /\ \A d \in Device : poll[d].at = "idle" /\ reach[d] = None /\ cache[d] = None

LEMMA DaemonSteps ==
  ASSUME LifecycleNext
  PROVE  \/ [Next]_vars
         \/ ConnectedOnly
         \/ LinkOnly
         \/ \E d \in Device : PublishFails(d)
<1> USE DEF Next
<1>1. CASE MainStep
  <2>1. CASE RegisterHook \/ TellInfoIfConnected \/ Drain
    BY <2>1 DEF RegisterHook, TellInfoIfConnected, Drain
  <2>2. CASE \/ Subscribe("commands", "commands", "birth")
             \/ Subscribe("birth", "birth", "polling")
    BY <2>2 DEF Subscribe
  <2>3. CASE Announce \/ PublishOffline
    BY <2>3 DEF Announce, PublishOffline, ConnectedOnly
  <2>4. CASE Disconnect
    BY <2>4 DEF Disconnect, LinkOnly, backend, broker, reconnect, vars
  <2> QED BY <1>1, <2>1, <2>2, <2>3, <2>4 DEF MainStep
<1>2. CASE \E s \in Sub : RetrySubscribe(s)
  BY <1>2 DEF RetrySubscribe
<1>3. CASE \E d \in Device : Poll(d)
  BY <1>3 DEF Poll
<1>4. CASE Hook
  BY <1>4 DEF Hook
<1>5. CASE Connect
  BY <1>5 DEF Connect, LinkOnly
<1>6. CASE LinkDies \/ \E d \in Device : Answers(d)
  BY <1>6 DEF LinkDies, Answers
<1>7. CASE Signal \/ WebFails
  BY <1>7 DEF Signal, WebFails
<1> QED BY <1>1, <1>2, <1>3, <1>4, <1>5, <1>6, <1>7 DEF LifecycleNext

LEMMA SilentKept == Silent /\ [LifecycleNext]_lifecycleVars => Silent'
<1> SUFFICES ASSUME Silent, [LifecycleNext]_lifecycleVars, main' = "started"
             PROVE  Silent'
  BY DEF Silent
<1>1. CASE MainStep
  BY <1>1 DEF MainStep, RegisterHook, TellInfoIfConnected, Announce, Subscribe, Drain,
     PublishOffline, Disconnect, At
<1>2. CASE \E d \in Device : Poll(d)
  BY <1>2 DEF Poll, Silent, process
<1>3. CASE Hook /\ UNCHANGED vars
  BY <1>3 DEF Hook, Silent, process, vars, backend, broker, reconnect
<1>4. CASE Hook /\ ReconnectStep
  BY <1>4 DEF Hook, Silent, process, ReconnectStep, AnnounceOnline, TakeSnapshot,
     PublishSnapshot, SnapshotPublished, Replay, Handle
<1>5. CASE Connect
  <2>1. main = "started"
    BY <1>5 DEF Connect, process
  <2> QED BY <1>5, <2>1 DEF Connect, Silent, backend, broker, reconnect
<1>6. CASE LinkDies \/ \E d \in Device : Answers(d)
  BY <1>6 DEF LinkDies, LinkFails, Answers, AnswersChange, Silent, backend, broker,
     reconnect, process
<1>7. CASE Signal \/ WebFails \/ (\E s \in Sub : RetrySubscribe(s)) \/ UNCHANGED lifecycleVars
  BY <1>7 DEF Signal, WebFails, RetrySubscribe, Silent, lifecycleVars, process, vars, backend,
     broker, reconnect
<1> QED BY <1>1, <1>2, <1>3, <1>4, <1>5, <1>6, <1>7 DEF LifecycleNext, Hook, vars

ReachInv == TypeOK /\ Debounced /\ RetainedIsCached /\ CurrentInv

LEMMA InitReach == LifecycleInit => ReachInv /\ Silent
<1>a. None # FALSE
  BY ReachabilityAssumption
<1>b. 0 # UnreachableAfter /\ 0 < UnreachableAfter
  BY ReachabilityAssumption
<1> SUFFICES ASSUME LifecycleInit PROVE ReachInv /\ Silent
  OBVIOUS
<1> USE DEF LifecycleInit, Fresh
<1>1. TypeOK
  BY ReachabilityAssumption DEF TypeOK, Known, Polling, Idle
<1>2. Debounced
  <2>1. \A d \in Device : reachable[d] = None /\ failures[d] = 0
    OBVIOUS
  <2> QED BY <1>a, <1>b, <2>1 DEF Debounced
<1>3. RetainedIsCached /\ CurrentInv
  BY DEF RetainedIsCached, CurrentInv
<1>4. Silent
  BY DEF Silent, Idle
<1> QED BY <1>1, <1>2, <1>3, <1>4 DEF ReachInv

LEMMA ReachKept == ReachInv /\ Silent /\ [LifecycleNext]_lifecycleVars => ReachInv'
<1> SUFFICES ASSUME ReachInv, Silent, [LifecycleNext]_lifecycleVars PROVE ReachInv'
  OBVIOUS
<1> USE DEF ReachInv
<1>1. CASE [Next]_vars
  BY <1>1, NextType, DebouncedInductive, CachedInductive, CurrentInductive
<1>2. CASE ConnectedOnly
  BY <1>2 DEF ConnectedOnly, backend, reconnect, TypeOK, Debounced, RetainedIsCached,
     CurrentInv, Current
<1>3. CASE LinkOnly
  <2>1. UNCHANGED <<answers, failures, reachable, poll, reach, online, cache, level, connected,
                    handler, snapshot, polled>>
    BY <1>3 DEF LinkOnly, backend, broker, reconnect
  <2>2. link' = "down" \/ (link' = "up" /\ main = "started")
    BY <1>3 DEF LinkOnly
  <2>3. TypeOK' /\ Debounced'
    BY <2>1, <2>2 DEF TypeOK, Debounced
  <2> QED BY <2>1, <2>2, <2>3 DEF RetainedIsCached, CurrentInv, Current, Silent
<1>4. ASSUME NEW d \in Device, PublishFails(d)
      PROVE  ReachInv'
  <2>1. /\ UNCHANGED <<answers, failures, reachable, reach, online, cache, level, connected,
                       link, handler, snapshot>>
        /\ polled' = polled \cup {d}
    BY <1>4 DEF PublishFails, Goto, broker, reconnect
  <2>2. \A e \in Device \ {d} : poll'[e] = poll[e]
    BY <1>4 DEF PublishFails, Goto, TypeOK
  <2>3. TypeOK'
    <3>1. TypeBackend' /\ TypePoll'
      BY <1>4, GotoType DEF PublishFails
    <3>2. TypeBroker'
      BY <2>1 DEF TypeOK, TypeBroker
    <3> QED BY <3>1, <3>2 DEF TypeOK, TypeBackend, TypePoll, TypeBroker
  <2> QED BY <2>1, <2>2, <2>3 DEF Debounced, RetainedIsCached, CurrentInv, Current
<1>5. CASE UNCHANGED lifecycleVars
  BY <1>1, <1>5 DEF lifecycleVars, vars
<1> QED BY <1>1, <1>2, <1>3, <1>4, <1>5, DaemonSteps

LEMMA ReachHolds == LifecycleSpec => []ReachInv
<1> QED BY InitReach, ReachKept, SilentKept, PTL DEF LifecycleSpec

-----------------------------------------------------------------------------
(***************************************************************************)
(* Types of the process.                                                   *)
(***************************************************************************)
\* What Run polls it has subscribed before: one after the other.
ProcessInv ==
  /\ ProcessTypeOK
  /\ main = "birth" => sub["commands"] # "unset"

LEMMA ProcessInit == LifecycleInit => ProcessInv
BY DEF LifecycleInit, ProcessInv, ProcessTypeOK, Hooking, Fresh

LEMMA ProcessKept == ProcessInv /\ [LifecycleNext]_lifecycleVars => ProcessInv'
<1> SUFFICES ASSUME ProcessInv, [LifecycleNext]_lifecycleVars PROVE ProcessInv'
  OBVIOUS
<1> USE DEF ProcessInv, ProcessTypeOK, Hooking, Sub
<1>1. CASE RegisterHook \/ TellInfoIfConnected \/ Announce
  BY <1>1 DEF RegisterHook, TellInfoIfConnected, Announce, At, vars, backend, broker, reconnect,
     Stopping
<1>2. CASE \/ Subscribe("commands", "commands", "birth")
           \/ Subscribe("birth", "birth", "polling")
  BY <1>2 DEF Subscribe, At, vars, reconnect, Stopping
<1>3. CASE Drain \/ PublishOffline \/ Disconnect
  BY <1>3 DEF Drain, PublishOffline, Disconnect, At, vars, backend, broker, reconnect
<1>4. CASE \E s \in Sub : RetrySubscribe(s)
  BY <1>4 DEF RetrySubscribe, vars, reconnect
<1>5. CASE \E d \in Device : Poll(d)
  BY <1>5 DEF Poll, PollStep, PublishFails, Goto, Observe, Polled, RecordReach, PublishOnlineOf,
     UpstreamUsable, reconnect, process
<1>6. CASE Hook
  BY <1>6 DEF Hook, ReconnectStep, AnnounceOnline, TakeSnapshot, PublishSnapshot,
     SnapshotPublished, Replay, Handle, process, vars, reconnect
<1>7. CASE Connect
  BY <1>7 DEF Connect, LinkUp, process, reconnect, Stopping
<1>8. CASE LinkDies \/ \E d \in Device : Answers(d)
  BY <1>8 DEF LinkDies, LinkFails, Answers, AnswersChange, process, reconnect
<1>9. CASE Signal \/ WebFails
  <2>1. UNCHANGED <<main, sub, telling, info, handler>> /\ stop' \in {"signal", "web"}
    BY <1>9 DEF Signal, WebFails, vars, reconnect
  <2>2. late' \in BOOLEAN
    BY <1>9, Zenon DEF Signal, WebFails
  <2> QED BY <2>1, <2>2
<1>10. CASE UNCHANGED lifecycleVars
  BY <1>10 DEF lifecycleVars, process, vars, reconnect
<1> QED BY <1>1, <1>2, <1>3, <1>4, <1>5, <1>6, <1>7, <1>8, <1>9, <1>10 DEF LifecycleNext, MainStep

\* Every variable has its type in every run of the daemon, and no hook is at
\* work before it has been registered (main.go:240-248).
THEOREM DaemonTypes == LifecycleSpec => []LifecycleTypeOK
<1>1. ReachInv => TypeOK
  BY DEF ReachInv
<1>2. TypeOK /\ ProcessInv => LifecycleTypeOK
  BY DEF ProcessInv, LifecycleTypeOK
<1> QED BY <1>1, <1>2, ReachHolds, ProcessInit, ProcessKept, PTL DEF LifecycleSpec

-----------------------------------------------------------------------------
\* The debounce holds in every run of the daemon (source.go:36-41, 75-105).
THEOREM DaemonDebounces == LifecycleSpec => []Debounced
<1>1. ReachInv => Debounced
  BY DEF ReachInv
<1> QED BY <1>1, ReachHolds, PTL

\* From the start to the stop the broker holds, once a reconnect has been
\* handled, what the cache says it holds (coordinator.go:448-455, 489-491).
THEOREM DaemonCaches == LifecycleSpec => []RetainedIsCached
<1>1. ReachInv => RetainedIsCached
  BY DEF ReachInv
<1> QED BY <1>1, ReachHolds, PTL

\* From the start to the stop, a unit that changed during an outage is right
\* once the reconnect has been handled (coordinator.go:530-554).
THEOREM DaemonReconnects == LifecycleSpec => []ReconnectIsCurrent
<1>1. ReachInv => ReconnectIsCurrent
  BY DEF ReachInv, CurrentInv, Current, ReconnectIsCurrent
<1> QED BY <1>1, ReachHolds, PTL
=============================================================================
