---------------------------- MODULE CloudSession ----------------------------
(***************************************************************************)
(* The cloud backend's session (internal/zendure/cloud/source.go): one     *)
(* goroutine logs in until it succeeds, then connects, subscribes, reports *)
(* the session up and waits for its loss, over and over, with a backoff    *)
(* between any two attempts.  The transport's read loop hands it reports.  *)
(* What the observer is told is Coordinator.DeviceReachable and            *)
(* Coordinator.UpstreamUsable.                                             *)
(***************************************************************************)
EXTENDS Integers, FiniteSets

CONSTANTS
  Device,            \* devices the account may list
  Listing,           \* the lists a login can bring
  MaxLoginBackoff,   \* in units of minReconnect
  MaxReconnect,
  SubscribeMayFail   \* whether a SUBSCRIBE can fail on a live session

ASSUME CloudSessionAssumption ==
  /\ Listing \subseteq SUBSET Device
  /\ MaxLoginBackoff \in Nat \ {0} /\ MaxReconnect \in Nat \ {0}
  /\ SubscribeMayFail \in BOOLEAN

MinReconnect == 1

VARIABLES
  pc,         \* where the goroutine is
  todo,       \* devices it has yet to subscribe or announce
  backoff,    \* what it waits before the next attempt
  listed,     \* the login's devices
  session,    \* the transport's connection stands
  stable,     \* ... for sessionStableAt
  subs,       \* devices subscribed on it
  inflight,   \* devices whose report is on its way to handleMessage
  reach,      \* devices the observer was told reachable
  upstream,   \* what it was told of the session, "unknown" at first
  cancelled,  \* ctx
  flaps       \* history: attempts and sessions that ended since the last
              \* stable one, it included; counted as far as it matters

vars == <<pc, todo, backoff, listed, session, stable, subs, inflight, reach,
          upstream, cancelled, flaps>>
conn == <<session, stable, subs, inflight>>
told == <<reach, upstream>>

PC == {"login", "loginWait", "connect", "subscribe", "announce", "up", "wait", "stopped"}
MaxFlaps == MaxReconnect + 1

TypeOK ==
  /\ pc \in PC
  /\ todo \subseteq listed
  /\ backoff \in MinReconnect..MaxLoginBackoff \cup MinReconnect..MaxReconnect
  /\ pc \notin {"login", "loginWait", "stopped"} => backoff <= MaxReconnect
  /\ listed \subseteq Device
  /\ session \in BOOLEAN /\ stable \in BOOLEAN
  /\ stable => session
  /\ subs \subseteq listed /\ inflight \subseteq listed
  /\ session => pc \in {"subscribe", "announce", "up"}
  /\ reach \subseteq listed
  /\ upstream \in {"unknown", "up", "down"}
  /\ cancelled \in BOOLEAN
  /\ flaps \in 0..MaxFlaps

Init ==
  /\ pc = "login"
  /\ todo = {} /\ listed = {} /\ subs = {} /\ inflight = {} /\ reach = {}
  /\ backoff = MinReconnect
  /\ session = FALSE /\ stable = FALSE
  /\ upstream = "unknown"
  /\ cancelled = FALSE
  /\ flaps = 0

AtMost(a, b) == IF a < b THEN a ELSE b

-----------------------------------------------------------------------------
(***************************************************************************)
(* loginWithRetry                                                          *)
(***************************************************************************)
LoginFails ==
  /\ pc = "login"
  /\ pc' = IF cancelled THEN "stopped" ELSE "loginWait"
  /\ UNCHANGED <<todo, backoff, listed, conn, told, cancelled, flaps>>

\* Run goes on with connectLoop and a backoff of its own.
LoginSucceeds ==
  /\ pc = "login"
  /\ listed' \in Listing
  /\ pc' = "connect"
  /\ backoff' = MinReconnect
  /\ UNCHANGED <<todo, conn, told, cancelled, flaps>>

LoginAgain ==
  /\ pc = "loginWait"
  /\ pc' = "login"
  /\ backoff' = AtMost(2 * backoff, MaxLoginBackoff)
  /\ UNCHANGED <<todo, listed, conn, told, cancelled, flaps>>

-----------------------------------------------------------------------------
(***************************************************************************)
(* connectLoop                                                             *)
(***************************************************************************)
Flap(n) == flaps' = AtMost(n + 1, MaxFlaps)

ConnectFails ==
  /\ pc = "connect"
  /\ pc' = IF cancelled THEN "stopped" ELSE "wait"
  /\ Flap(flaps)
  /\ UNCHANGED <<todo, backoff, listed, conn, told, cancelled>>

\* A clean start: the broker keeps no subscription of the last session.
Connect ==
  /\ pc = "connect" /\ ~cancelled
  /\ session' = TRUE /\ stable' = FALSE /\ subs' = {}
  /\ todo' = listed
  /\ pc' = "subscribe"
  /\ UNCHANGED <<backoff, listed, inflight, told, cancelled, flaps>>

\* Faulty: a device subscribed once is not subscribed again.
SubscribeNewOnly(d) ==
  /\ pc = "subscribe" /\ d \in todo
  /\ todo' = todo \ {d}
  /\ subs' = IF session /\ d \notin reach THEN subs \cup {d} ELSE subs
  /\ UNCHANGED <<pc, backoff, listed, session, stable, inflight, told, cancelled, flaps>>

\* A subscription that fails is only logged.
Subscribe(d) ==
  /\ pc = "subscribe" /\ d \in todo
  /\ todo' = todo \ {d}
  /\ \/ session /\ subs' = subs \cup {d}
     \/ (~session \/ SubscribeMayFail) /\ UNCHANGED subs
  /\ UNCHANGED <<pc, backoff, listed, session, stable, inflight, told, cancelled, flaps>>

Subscribed ==
  /\ pc = "subscribe" /\ todo = {}
  /\ pc' = "announce" /\ todo' = listed
  /\ UNCHANGED <<backoff, listed, conn, told, cancelled, flaps>>

\* sessionUp(true): every device, then the upstream.
AnnounceDevice(d) ==
  /\ pc = "announce" /\ d \in todo
  /\ todo' = todo \ {d}
  /\ reach' = reach \cup {d}
  /\ UNCHANGED <<pc, backoff, listed, conn, upstream, cancelled, flaps>>

\* Faulty: the upstream is reported first.
AnnounceUpstreamFirst ==
  /\ pc = "announce"
  /\ pc' = "up"
  /\ upstream' = "up"
  /\ UNCHANGED <<todo, backoff, listed, conn, reach, cancelled, flaps>>

AnnounceUpstream ==
  /\ pc = "announce" /\ todo = {}
  /\ pc' = "up"
  /\ upstream' = "up"
  /\ UNCHANGED <<todo, backoff, listed, conn, reach, cancelled, flaps>>

\* Faulty: the loss is not reported, as if the next session would do.
LostQuietly ==
  /\ pc = "up" /\ ~session
  /\ pc' = "wait"
  /\ UNCHANGED <<todo, backoff, listed, conn, told, cancelled>>
  /\ Flap(flaps)

\* Faulty: every session that ended resets the backoff.
LostResetting ==
  /\ pc = "up" /\ ~session
  /\ upstream' = "down"
  /\ pc' = "wait"
  /\ backoff' = MinReconnect
  /\ Flap(flaps)
  /\ UNCHANGED <<todo, listed, conn, reach, cancelled>>

\* The session was lost before it was sessionStableAt old.
Lost ==
  /\ pc = "up" /\ ~session
  /\ upstream' = "down"
  /\ pc' = "wait"
  /\ Flap(flaps)
  /\ UNCHANGED <<todo, backoff, listed, conn, reach, cancelled>>

\* It was not: connectedAt was long enough ago.
StableLost ==
  /\ pc = "up" /\ stable
  /\ session' = FALSE /\ stable' = FALSE
  /\ upstream' = "down"
  /\ pc' = "wait"
  /\ backoff' = MinReconnect
  /\ Flap(0)
  /\ UNCHANGED <<todo, listed, subs, inflight, reach, cancelled>>

\* Faulty: the backoff grows without its cap.
ConnectAgainUncapped ==
  /\ pc = "wait"
  /\ pc' = "connect"
  /\ backoff' = 2 * backoff
  /\ UNCHANGED <<todo, listed, conn, told, cancelled, flaps>>

ConnectAgain ==
  /\ pc = "wait"
  /\ pc' = "connect"
  /\ backoff' = AtMost(2 * backoff, MaxReconnect)
  /\ UNCHANGED <<todo, listed, conn, told, cancelled, flaps>>

\* Faulty: a session that stands is waited on alone.
StopBetweenSessions ==
  /\ cancelled /\ pc \in {"loginWait", "connect", "wait"}
  /\ pc' = "stopped"
  /\ UNCHANGED <<todo, backoff, listed, conn, told, cancelled, flaps>>

\* ctx.Done in any of the selects; a session that stands is disconnected.
Stop ==
  /\ cancelled /\ pc \in {"loginWait", "connect", "up", "wait"}
  /\ pc' = "stopped"
  /\ session' = FALSE /\ stable' = FALSE
  /\ UNCHANGED <<todo, backoff, listed, subs, inflight, told, cancelled, flaps>>

-----------------------------------------------------------------------------
(***************************************************************************)
(* The transport and the world.                                            *)
(***************************************************************************)
Arrive(d) ==
  /\ session /\ d \in subs
  /\ inflight' = inflight \cup {d}
  /\ UNCHANGED <<pc, todo, backoff, listed, session, stable, subs, told, cancelled, flaps>>

\* The read loop may still hand over what it had read when the session broke.
HandleMessage(d) ==
  /\ d \in inflight
  /\ inflight' = inflight \ {d}
  /\ reach' = reach \cup {d}
  /\ UNCHANGED <<pc, todo, backoff, listed, session, stable, subs, upstream, cancelled, flaps>>

\* An unstable session breaks; a stable one breaks in StableLost, at once
\* with the goroutine that waits for nothing else.
Break ==
  /\ session /\ ~stable
  /\ session' = FALSE
  /\ UNCHANGED <<pc, todo, backoff, listed, stable, subs, inflight, told, cancelled, flaps>>

Age ==
  /\ pc = "up" /\ session /\ ~stable
  /\ stable' = TRUE
  /\ UNCHANGED <<pc, todo, backoff, listed, session, subs, inflight, told, cancelled, flaps>>

Cancel ==
  /\ ~cancelled
  /\ cancelled' = TRUE
  /\ UNCHANGED <<pc, todo, backoff, listed, conn, told, flaps>>

Next ==
  \/ LoginFails
  \/ LoginSucceeds
  \/ LoginAgain
  \/ ConnectFails
  \/ Connect
  \/ \E d \in Device : Subscribe(d)
  \/ Subscribed
  \/ \E d \in Device : AnnounceDevice(d)
  \/ AnnounceUpstream
  \/ Lost
  \/ StableLost
  \/ ConnectAgain
  \/ Stop
  \/ \E d \in Device : Arrive(d)
  \/ \E d \in Device : HandleMessage(d)
  \/ Break
  \/ Age
  \/ Cancel

Spec == Init /\ [][Next]_vars

\* The goroutine goes on; a call it makes returns, with ctx or a timeout.
Fairness ==
  /\ WF_vars(LoginFails \/ LoginSucceeds)
  /\ WF_vars(LoginAgain)
  /\ WF_vars(ConnectFails \/ Connect)
  /\ WF_vars(\E d \in Device : Subscribe(d))
  /\ WF_vars(Subscribed)
  /\ WF_vars(\E d \in Device : AnnounceDevice(d))
  /\ WF_vars(AnnounceUpstream)
  /\ WF_vars(Lost)
  /\ WF_vars(ConnectAgain)
  /\ WF_vars(Stop)

FairSpec == Spec /\ Fairness

-----------------------------------------------------------------------------
\* The wait before an attempt is 1, 2, 4, ... times minReconnect for the first,
\* second, third ... end of a session or attempt in a row, capped: a flapping
\* broker is throttled, and an end after a stable session counts as the first
\* again (connectLoop, source.go:225-230).
WaitFollowsFlaps ==
  pc = "wait" => backoff = AtMost(2 ^ (flaps - 1), MaxReconnect)

\* When the bridge says the session is up, every device the login listed has
\* been said reachable: `connected` 2 never runs ahead of a device's `online`
\* (sessionUp, source.go:78-92).
UpstreamAfterDevices == upstream = "up" => reach = listed

\* A session that stands while the goroutine waits for its loss brings the
\* reports of every listed device, whatever sessions came before.
SubscribedWhileUp == pc = "up" /\ session => subs = listed

\* A session that stays is reported up for good, and one that stays down is
\* reported down: what the observer was told never lags for good.
UpstreamFollowsSession ==
  /\ <>[]session => <>[](upstream = "up")
  /\ <>[](~session /\ ~cancelled) => <>[](upstream # "up")

\* Once ctx is cancelled Run returns, wherever it is: in a login, a backoff, a
\* connect, a session (source.go:167-216).
CancelStops == cancelled ~> pc = "stopped"
=============================================================================
