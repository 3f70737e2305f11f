------------------------------ MODULE Lifecycle ------------------------------
(***************************************************************************)
(* One run of the daemon, from the broker client's start to its stop:      *)
(* run in cmd/zendure2mqtt/main.go and Run in                              *)
(* internal/coordinator/coordinator.go, around the polls and the connect   *)
(* hook of Reachability.                                                   *)
(*                                                                         *)
(* The client connects on a goroutine of its own, perhaps before the hook  *)
(* is registered.  The process ends when its context is cancelled (signal, *)
(* maintenance restart), which every goroutine sees, or when the web       *)
(* server fails, which only the errgroup's goroutines see: the hook runs   *)
(* under the client's context and goes on.                                 *)
(***************************************************************************)
EXTENDS Reachability

VARIABLES
  main,     \* where run is, and Coordinator.Run inside it
  stop,     \* what ended the errgroup's context: signal, web, or None yet
  sub,      \* the subscriptions Run makes
  telling,  \* the hook has yet to announce info, after PublishOnline
  info,     \* this process's <name>/info is retained
  late      \* history: a connect hook was at work at the stop or after it

Sub == {"commands", "birth"}

process == <<main, stop, sub, telling, info, late>>
lifecycleVars == <<vars, process>>

Stopping == stop # None
Hooking == handler # "idle" \/ telling

\* Every variable of the process has its type; the hook is at work only once
\* it has been registered, and Run polls only once each subscription is made
\* or being retried.
ProcessTypeOK ==
  /\ main \in {"started", "hooked", "announce", "commands", "birth", "polling",
               "offline", "disconnect", "stopped"}
  /\ stop \in {None, "signal", "web"}
  /\ sub \in [Sub -> {"unset", "retrying", "live"}]
  /\ telling \in BOOLEAN /\ info \in BOOLEAN /\ late \in BOOLEAN
  /\ Hooking => main # "started"
  /\ main = "polling" => \A s \in Sub : sub[s] # "unset"

\* The same of the process and of its polls and publications together
\* (main.go:240-248, coordinator.go:350-406).
LifecycleTypeOK == TypeOK /\ ProcessTypeOK

\* lifecycle.Start has returned and the client is connecting.
LifecycleInit ==
  /\ Fresh
  /\ connected = 0
  /\ link = "down"
  /\ main = "started"
  /\ stop = None
  /\ sub = [s \in Sub |-> "unset"]
  /\ telling = FALSE
  /\ info = FALSE
  /\ late = FALSE

-----------------------------------------------------------------------------
(***************************************************************************)
(* The main goroutine.                                                     *)
(***************************************************************************)
At(from, to) ==
  /\ main = from
  /\ main' = to

RegisterHook ==
  /\ At("started", "hooked")
  /\ UNCHANGED <<vars, stop, sub, telling, info, late>>

\* Faulty: the hook is left to announce it.
TellNothing ==
  /\ At("hooked", "announce")
  /\ UNCHANGED <<vars, stop, sub, telling, info, late>>

\* The connect may have come before the hook: IsConnected decides.
TellInfoIfConnected ==
  /\ At("hooked", "announce")
  /\ info' = (info \/ (link = "up" /\ ~Stopping))
  /\ UNCHANGED <<vars, stop, sub, telling, late>>

\* Run's own PublishOnline: no unit has been heard of, so AnnounceOnline is
\* all it writes.
Announce ==
  /\ At("announce", "commands")
  /\ connected' = IF link = "up" /\ ~Stopping THEN level ELSE connected
  /\ UNCHANGED <<answers, backend, reach, online, cache, level, link, reconnect, polled>>
  /\ UNCHANGED <<stop, sub, telling, info, late>>

\* Faulty: a first attempt that fails is not retried.
SubscribeOnce(s, from, to) ==
  /\ At(from, to)
  /\ sub' = [sub EXCEPT ![s] = IF link = "up" /\ ~Stopping THEN "live" ELSE "unset"]
  /\ UNCHANGED <<vars, stop, telling, info, late>>

\* startCommands, watchBirth.
Subscribe(s, from, to) ==
  /\ At(from, to)
  /\ sub' = [sub EXCEPT ![s] = IF link = "up" /\ ~Stopping THEN "live" ELSE "retrying"]
  /\ UNCHANGED <<vars, stop, telling, info, late>>

\* Faulty: offline is announced before the polls have ended.
DrainUnwaited ==
  /\ At("polling", "offline")
  /\ Stopping
  /\ sub' = [s \in Sub |-> "unset"]
  /\ UNCHANGED <<vars, stop, telling, info, late>>

\* Backend.Run returns when every poll loop has ended; then commands.Stop,
\* g.Wait and haRuntime.Close.
Drain ==
  /\ At("polling", "offline")
  /\ Stopping
  /\ \A d \in Device : poll[d].at = "idle"
  /\ sub' = [s \in Sub |-> "unset"]
  /\ UNCHANGED <<vars, stop, telling, info, late>>

\* AnnounceOffline, under a context of its own.
PublishOffline ==
  /\ At("offline", "disconnect")
  /\ connected' = IF link = "up" THEN 0 ELSE connected
  /\ UNCHANGED <<answers, backend, reach, online, cache, level, link, reconnect, polled>>
  /\ UNCHANGED <<stop, sub, telling, info, late>>

\* lifecycle.Stop: a DISCONNECT the broker sees takes the will with it.
Disconnect ==
  /\ At("disconnect", "stopped")
  /\ link' = IF link = "up" THEN "down" ELSE link
  /\ UNCHANGED <<answers, backend, reach, broker, reconnect, polled>>
  /\ UNCHANGED <<stop, sub, telling, info, late>>

MainStep ==
  \/ RegisterHook
  \/ TellInfoIfConnected
  \/ Announce
  \/ Subscribe("commands", "commands", "birth")
  \/ Subscribe("birth", "birth", "polling")
  \/ Drain
  \/ PublishOffline
  \/ Disconnect

-----------------------------------------------------------------------------
(***************************************************************************)
(* The other goroutines.                                                   *)
(***************************************************************************)
\* retrySubscribe: an attempt that fails changes nothing but the backoff.
RetrySubscribe(s) ==
  /\ sub[s] = "retrying"
  /\ link = "up"
  /\ ~Stopping
  /\ sub' = [sub EXCEPT ![s] = "live"]
  /\ UNCHANGED <<vars, main, stop, telling, info, late>>

\* A publish of a poll goroutine whose context has ended fails, unless it was
\* under way.
PublishFails(d) ==
  /\ Stopping
  /\ \/ poll[d].at = "online" /\ Goto(d, "upstream")
     \/ poll[d].at = "upstream" /\ Goto(d, "idle")
  /\ UNCHANGED <<reach, broker>>

\* Faulty: a poll loop outlives the context.
PollWithout(d) ==
  /\ main = "polling" \/ poll[d].at # "idle"
  /\ PollStep(d) \/ PublishFails(d)
  /\ UNCHANGED process

\* A fetch under a cancelled context says nothing of the unit, and its loop
\* ends; a poll that has its result goes on to publish it.
Poll(d) ==
  /\ (main = "polling" /\ ~Stopping) \/ poll[d].at # "idle"
  /\ PollStep(d) \/ PublishFails(d)
  /\ UNCHANGED process

\* The connect hook: PublishOnline, then announceInfo.
Hook ==
  /\ stop # "signal"
  /\ main # "stopped"
  /\ \/ ReconnectStep /\ UNCHANGED process
     \/ /\ telling
        /\ handler = "idle"
        /\ telling' = FALSE
        /\ info' = (info \/ link = "up")
        /\ UNCHANGED <<vars, main, stop, sub, late>>

\* The client connects; the hook, once registered, runs.
Connect ==
  /\ main # "stopped"
  /\ ~telling
  /\ IF main = "started"
     THEN /\ link = "down"
          /\ link' = "up"
          /\ UNCHANGED <<answers, backend, reach, broker, reconnect, polled>>
          /\ UNCHANGED process
     ELSE /\ LinkUp
          /\ telling' = TRUE
          /\ info' \in (IF StoreMayBeLost THEN {info, FALSE} ELSE {info})
          /\ late' = Stopping
          /\ UNCHANGED <<main, stop, sub>>

LinkDies == LinkFails /\ UNCHANGED process

Answers(d) == AnswersChange(d) /\ UNCHANGED process

\* SIGINT, SIGTERM, or a restart over the maintenance topic.
Signal ==
  /\ ~Stopping
  /\ stop' = "signal"
  /\ late' = Hooking
  /\ UNCHANGED <<vars, main, sub, telling, info>>

\* The web server runs beside Coordinator.Run and its error ends the group.
WebFails ==
  /\ ~Stopping
  /\ main \in {"announce", "commands", "birth", "polling"}
  /\ stop' = "web"
  /\ late' = Hooking
  /\ UNCHANGED <<vars, main, sub, telling, info>>

LifecycleNext ==
  \/ MainStep
  \/ \E s \in Sub : RetrySubscribe(s)
  \/ \E d \in Device : Poll(d)
  \/ Hook
  \/ Connect
  \/ LinkDies
  \/ \E d \in Device : Answers(d)
  \/ Signal
  \/ WebFails

LifecycleSpec == LifecycleInit /\ [][LifecycleNext]_lifecycleVars

(***************************************************************************)
(* Fairness: every goroutine goes on, every poll loop ticks for good, the  *)
(* client connects as long as nothing stops it.  Nothing is assumed of the *)
(* units, and nothing ever has to stop.                                    *)
(***************************************************************************)
LifecycleFairness ==
  /\ WF_lifecycleVars(MainStep)
  /\ \A s \in Sub : WF_lifecycleVars(RetrySubscribe(s))
  /\ \A d \in Device : WF_lifecycleVars(Poll(d))
  /\ WF_lifecycleVars(Hook)
  /\ WF_lifecycleVars(~Stopping /\ Connect)

LifecycleFairSpec == LifecycleSpec /\ LifecycleFairness

-----------------------------------------------------------------------------
\* What the daemon promises of its outputs holds while nothing ends it.
Runs == []~Stopping

\* OnlineSettles and ConnectedSettles of Reachability in a daemon that has to
\* start first: a connect before the hook is registered, the first connect of
\* all, and Run and the hook announcing on one topic change nothing of what
\* the retained values come to (main.go:240-248, coordinator.go:447-455).
OutputsSettle == Runs => OnlineSettles /\ ConnectedSettles

\* A graceful stop leaves `connected` at 0 once the link is gone, although the
\* DISCONNECT takes the will with it and polls and hooks wrote 1 and 2 until
\* now (main.go:270-281, coordinator.go:556-558).  Not so when a connect hook
\* is at work at the stop or comes after it: nothing waits for the hook.
QuietStopSaysSo ==
  main = "stopped" /\ link = "down" /\ ~late => connected = 0

\* Whatever the daemon is doing when it is told to end, with or without a
\* broker, it ends (main.go:85-90, 255-283).
ShutdownEnds == Stopping ~> main = "stopped"

\* A daemon that keeps running on a link that stays up has announced its info
\* and has both subscriptions, whether the client connected before the hook
\* was registered or after, and whatever the first attempts came to
\* (main.go:240-248, coordinator.go:350-434).
StartCompletes ==
  Runs /\ <>[](link = "up") => <>[](info /\ \A s \in Sub : sub[s] = "live")
=============================================================================
