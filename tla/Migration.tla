----------------------------- MODULE Migration -----------------------------
(***************************************************************************)
(* The retained sweep of the pre-0.10.0 topic layout                       *)
(* (internal/coordinator/migrate.go): on every start the bridge listens    *)
(* under the old root for what the broker retains of each of its units and *)
(* of the instance, and clears what has exactly an old shape.  A topic is  *)
(* the sequence of its levels below the old root.                          *)
(***************************************************************************)
EXTENDS Sequences, FiniteSets, Integers

CONSTANTS
  Topic,         \* topics that can be retained under the old root
  OldItem,       \* the ones an old release retained for Unit and the instance
  Unit,          \* serials the bridge knows
  Function,      \* second levels of the new layout: no serial is swept that
                 \* spells one
  LinkMayDrop,   \* whether the broker link can fail
  DropInWindow,  \* ... while a sweep listens, whose subscription is lost
  LoseWrites,    \* ... and take QoS 0 writes with it that returned nil
  MayRestart     \* whether an old release may run again in between

Instance == "bridge"
Sweep == Unit \cup {Instance}

ASSUME MigrationAssumption ==
  /\ \A t \in Topic : t \in Seq(STRING)
  /\ OldItem \subseteq Topic
  /\ Unit \subseteq STRING /\ Function \subseteq STRING /\ Instance \notin Unit
  /\ {LinkMayDrop, DropInWindow, LoseWrites, MayRestart} \subseteq BOOLEAN

-----------------------------------------------------------------------------
Suffix == {"state", "set"}

\* Faulty: anything below the unit is taken for its old layout.
OldLayoutByPrefix(sn, t) == Len(t) > 0 /\ t[1] = sn

\* oldLayoutTopic: <sn>/<group>/<topic>/state, <sn>/battery/<pack>/<topic>/state
\* and the same with set.
OldLayoutTopic(sn, t) ==
  /\ sn \notin Function
  /\ Len(t) > 0 /\ t[1] = sn
  /\ \A i \in 1..Len(t) : t[i] # ""
  /\ \/ Len(t) = 4 /\ t[4] \in Suffix
     \/ Len(t) = 5 /\ t[2] = "battery" /\ t[5] \in Suffix

OldBridgeStatus == <<"bridge", "status">>

\* What a sweep clears of what its filter brings.
Owned(s, t) == IF s = Instance THEN t = OldBridgeStatus ELSE OldLayoutTopic(s, t)

-----------------------------------------------------------------------------
VARIABLES
  retained,   \* what the broker retains
  link,       \* "up", "dying": writes return nil and are lost, or "down"
  at,         \* at[s]: "idle", "start", "window" or "clear"
  found,      \* found[s]: what sweep s has collected
  migrated    \* the sweeps that are done or under way

vars == <<retained, link, at, found, migrated>>

TypeOK ==
  /\ retained \subseteq Topic
  /\ link \in {"up", "dying", "down"}
  /\ at \in [Sweep -> {"idle", "start", "window", "clear"}]
  /\ found \in [Sweep -> SUBSET Topic]
  /\ migrated \subseteq Sweep
  /\ \A s \in Sweep : /\ at[s] # "idle" => s \in migrated
                      /\ at[s] \in {"idle", "start"} => found[s] = {}

\* Run starts the instance's sweep; the units' start with Run or a report.
Started == [s \in Sweep |-> IF s = Instance THEN "start" ELSE "idle"]

Init ==
  /\ retained = Topic
  /\ link = "up"
  /\ at = Started
  /\ found = [s \in Sweep |-> {}]
  /\ migrated = {Instance}

-----------------------------------------------------------------------------
\* Faulty: only a start sweeps the units.
MigrateOnce(u) ==
  /\ migrated = {Instance} /\ u \notin migrated /\ u \notin Function
  /\ migrated' = migrated \cup {u}
  /\ at' = [at EXCEPT ![u] = "start"]
  /\ UNCHANGED <<retained, link, found>>

\* Every report, and Run for every unit the backend lists.
MigrateDevice(u) ==
  /\ u \notin migrated /\ u \notin Function
  /\ migrated' = migrated \cup {u}
  /\ at' = [at EXCEPT ![u] = "start"]
  /\ UNCHANGED <<retained, link, found>>

Subscribe(s) ==
  /\ at[s] = "start" /\ link = "up"
  /\ at' = [at EXCEPT ![s] = "window"]
  /\ UNCHANGED <<retained, link, found, migrated>>

\* A message the broker retains, on the transport's read loop.
Collect(s, t) ==
  /\ at[s] = "window" /\ link = "up"
  /\ t \in retained /\ Owned(s, t)
  /\ found' = [found EXCEPT ![s] = @ \cup {t}]
  /\ UNCHANGED <<retained, link, at, migrated>>

\* The window closes.  The broker delivers what it retains right after the
\* subscription is acknowledged, well within it.
Close(s) ==
  /\ at[s] = "window"
  /\ link = "up" => {t \in retained : Owned(s, t)} \subseteq found[s]
  /\ at' = [at EXCEPT ![s] = "clear"]
  /\ UNCHANGED <<retained, link, found, migrated>>

\* The empty retained payload, at QoS 0.
Clear(s, t) ==
  /\ at[s] = "clear" /\ link # "down"
  /\ t \in found[s]
  /\ retained' = IF link = "up" THEN retained \ {t} ELSE retained
  /\ found' = [found EXCEPT ![s] = @ \ {t}]
  /\ UNCHANGED <<link, at, migrated>>

Done(s) ==
  /\ at[s] = "clear" /\ found[s] = {}
  /\ at' = [at EXCEPT ![s] = "idle"]
  /\ UNCHANGED <<retained, link, found, migrated>>

\* Faulty: what a failed sweep has not cleared is left to the next one.
FailKeepingFound(s) ==
  /\ link # "up"
  /\ \/ at[s] = "start"
     \/ at[s] = "clear" /\ found[s] # {} /\ link = "down"
  /\ at' = [at EXCEPT ![s] = "idle"]
  /\ migrated' = IF s = Instance THEN migrated ELSE migrated \ {s}
  /\ UNCHANGED <<retained, link, found>>

\* Faulty: a unit's failed sweep counts as done.
FailForGood(s) ==
  /\ link # "up"
  /\ \/ at[s] = "start"
     \/ at[s] = "clear" /\ found[s] # {} /\ link = "down"
  /\ at' = [at EXCEPT ![s] = "idle"]
  /\ found' = [found EXCEPT ![s] = {}]
  /\ UNCHANGED <<retained, link, migrated>>

\* The subscription or a clearing write fails: a unit's sweep is forgotten so
\* that its next report tries again, the instance's is not.
Fail(s) ==
  /\ link # "up"
  /\ \/ at[s] = "start"
     \/ at[s] = "clear" /\ found[s] # {} /\ link = "down"
  /\ at' = [at EXCEPT ![s] = "idle"]
  /\ found' = [found EXCEPT ![s] = {}]
  /\ migrated' = IF s = Instance THEN migrated ELSE migrated \ {s}
  /\ UNCHANGED <<retained, link>>

-----------------------------------------------------------------------------
LinkFails ==
  /\ LinkMayDrop /\ link # "down"
  /\ DropInWindow \/ \A s \in Sweep : at[s] # "window"
  /\ link' \in IF link = "up" /\ LoseWrites THEN {"dying", "down"} ELSE {"down"}
  /\ UNCHANGED <<retained, at, found, migrated>>

LinkUp ==
  /\ link = "down"
  /\ link' = "up"
  /\ UNCHANGED <<retained, at, found, migrated>>

\* The process ends, an old release may run and retain its layout again, and
\* this one starts: migrated is in memory only.
Restart ==
  /\ MayRestart
  /\ at' = Started
  /\ found' = [s \in Sweep |-> {}]
  /\ migrated' = {Instance}
  /\ retained' \in {retained, retained \cup OldItem}
  /\ UNCHANGED link

Next ==
  \/ \E u \in Unit : MigrateDevice(u)
  \/ \E s \in Sweep : Subscribe(s)
  \/ \E s \in Sweep, t \in Topic : Collect(s, t)
  \/ \E s \in Sweep : Close(s)
  \/ \E s \in Sweep, t \in Topic : Clear(s, t)
  \/ \E s \in Sweep : Done(s)
  \/ \E s \in Sweep : Fail(s)
  \/ LinkFails
  \/ LinkUp
  \/ Restart

Spec == Init /\ [][Next]_vars

\* Every unit keeps reporting, a goroutine under way goes on, the broker
\* delivers what it retains, and the link is restored.
Fairness ==
  /\ \A u \in Unit : WF_vars(MigrateDevice(u))
  /\ \A s \in Sweep :
       /\ WF_vars(Subscribe(s))
       /\ WF_vars(Close(s))
       /\ WF_vars(Done(s))
       /\ WF_vars(Fail(s))
       /\ \A t \in Topic : WF_vars(Collect(s, t)) /\ WF_vars(Clear(s, t))
  /\ WF_vars(LinkUp)

FairSpec == Spec /\ Fairness

-----------------------------------------------------------------------------
\* Nothing but what an old release retained is ever cleared: not a sibling's
\* tree, not the new layout under the same root, not another shape below a unit
\* of this bridge (migrate.go:26-36).
ForeignStays == Topic \ OldItem \subseteq retained

OldItemOf(u) == {t \in OldItem : t[1] = u}

\* A unit whose sweep counts as done has nothing of the old layout left,
\* whatever subscription or write failed before (migrate.go:98-111).
DoneIsClean ==
  \A u \in Unit : u \in migrated /\ at[u] = "idle" => OldItemOf(u) \cap retained = {}

\* Once the link stays up and no old release runs any more, the old layout of
\* every unit goes for good (migrate.go:19-25).
OldLayoutGoes ==
  <>[](link = "up") /\ <>[][~Restart]_vars =>
    \A u \in Unit : <>[](OldItemOf(u) \cap retained = {})
=============================================================================
