----------------------------- MODULE StateStore -----------------------------
(***************************************************************************)
(* The cache behind the web UI (internal/state/state.go) and who watches   *)
(* it.  A writer changes one part under mu and signals the subscribers     *)
(* after releasing it; a signal to a subscriber that has one pending is    *)
(* dropped.  A subscriber that takes its signal reads the values and the   *)
(* health (coordinator.Snapshot, Health), part by part, each under mu.     *)
(* The parts of one unit: no step touches two units.                       *)
(***************************************************************************)
EXTENDS Naturals, Sequences

CONSTANTS
  Writer,       \* goroutines that write: a poll, a command, the web UI
  Watcher,      \* connected browsers
  Value,        \* what a report or the evcc entries can say
  None,         \* not known yet
  MaxProblems,  \* problems kept
  MaxStamp      \* bound: problems that occur

ASSUME StateStoreAssumption ==
  /\ None \notin Value /\ None \notin BOOLEAN
  /\ MaxProblems \in Nat /\ MaxStamp \in Nat

Part == {"report", "evcc", "online", "upstream"}
Content == [report : Value \cup {None}, evcc : Value \cup {None},
            online : BOOLEAN \cup {None}, upstream : BOOLEAN \cup {None}]

VARIABLES
  content,    \* devices, evcc, online and upstream
  problems,   \* the problem log, by the time of each, oldest first
  clock,      \* problems that have occurred
  writer,     \* writer[w]: "idle", "problem" with stamp[w], or "notify"
  stamp,
  watcher,    \* watcher[s]: "off", "waiting", or what it reads next
  signal,     \* signal[s]: its channel holds one
  view        \* view[s]: what it has read last

vars == <<content, problems, clock, writer, stamp, watcher, signal, view>>

Log == UNION {[1..n -> 1..MaxStamp] : n \in 0..MaxProblems}

-----------------------------------------------------------------------------
(***************************************************************************)
(* What a reader makes of the parts.                                       *)
(***************************************************************************)
\* Snapshot: a unit with a report carries it and the evcc entries; one known
\* by its reachability alone is listed without.
Snapshot(c) ==
  [listed  |-> c.report # None \/ c.online # None,
   entries |-> IF c.report = None THEN None ELSE <<c.report, c.evcc>>,
   online  |-> IF c.report = None /\ c.online = None THEN None ELSE c.online]

\* Health's status, of the upstream it read and the snapshot it took after.
\* The broker link is taken for up: its state is no part of the store.
Status(upstream, snapshot) ==
  CASE snapshot.entries = None -> "starting"
    [] upstream # FALSE /\ snapshot.online # FALSE -> "ok"
    [] OTHER -> "degraded"

Nothing == [snapshot |-> None, problems |-> << >>, upstream |-> None, status |-> None]

Current ==
  [snapshot |-> Snapshot(content), problems |-> problems,
   upstream |-> content.upstream, status |-> Status(content.upstream, Snapshot(content))]

Reading == {"snapshot", "problems", "upstream", "status"}

TypeOK ==
  /\ content \in Content
  /\ problems \in Log
  /\ clock \in 0..MaxStamp
  /\ writer \in [Writer -> {"idle", "problem", "notify"}]
  /\ stamp \in [Writer -> 0..MaxStamp]
  /\ \A w \in Writer : (writer[w] = "problem") <=> (stamp[w] # 0)
  /\ watcher \in [Watcher -> {"off", "waiting"} \cup Reading]
  /\ signal \in [Watcher -> BOOLEAN]
  /\ \A s \in Watcher : /\ DOMAIN view[s] = DOMAIN Nothing
                        /\ watcher[s] = "off" => ~signal[s] /\ view[s] = Nothing

Init ==
  /\ content = [k \in Part |-> None]
  /\ problems = << >>
  /\ clock = 0
  /\ writer = [w \in Writer |-> "idle"]
  /\ stamp = [w \in Writer |-> 0]
  /\ watcher = [s \in Watcher |-> "off"]
  /\ signal = [s \in Watcher |-> FALSE]
  /\ view = [s \in Watcher |-> Nothing]

-----------------------------------------------------------------------------
(***************************************************************************)
(* Writers.                                                                *)
(***************************************************************************)
\* Update and SetEVCC.
Replace(w, k, v) ==
  /\ writer[w] = "idle"
  /\ content' = [content EXCEPT ![k] = v]
  /\ writer' = [writer EXCEPT ![w] = "notify"]
  /\ UNCHANGED <<problems, clock, stamp, watcher, signal, view>>

\* SetOnline and SetUpstream: nobody is told of the value they knew.
Set(w, k, v) ==
  /\ writer[w] = "idle"
  /\ content' = [content EXCEPT ![k] = v]
  /\ writer' = IF content[k] = v THEN writer ELSE [writer EXCEPT ![w] = "notify"]
  /\ UNCHANGED <<problems, clock, stamp, watcher, signal, view>>

\* AddProblem takes the time before mu.
Occur(w) ==
  /\ writer[w] = "idle" /\ clock < MaxStamp
  /\ clock' = clock + 1
  /\ stamp' = [stamp EXCEPT ![w] = clock + 1]
  /\ writer' = [writer EXCEPT ![w] = "problem"]
  /\ UNCHANGED <<content, problems, watcher, signal, view>>

\* Faulty: one problem too many is kept.
Keep(log) == IF Len(log) > MaxProblems + 1 THEN Tail(log) ELSE log

Recent(log) == IF Len(log) > MaxProblems THEN Tail(log) ELSE log

AddProblem(w) ==
  /\ writer[w] = "problem"
  /\ problems' = Recent(Append(problems, stamp[w]))
  /\ stamp' = [stamp EXCEPT ![w] = 0]
  /\ writer' = [writer EXCEPT ![w] = "notify"]
  /\ UNCHANGED <<content, clock, watcher, signal, view>>

\* Faulty: a subscriber that is not waiting is not signalled.
NotifyWaiting(w) ==
  /\ writer[w] = "notify"
  /\ writer' = [writer EXCEPT ![w] = "idle"]
  /\ signal' = [s \in Watcher |-> signal[s] \/ watcher[s] = "waiting"]
  /\ UNCHANGED <<content, problems, clock, stamp, watcher, view>>

\* notify: a pending signal stands for this one too.
Notify(w) ==
  /\ writer[w] = "notify"
  /\ writer' = [writer EXCEPT ![w] = "idle"]
  /\ signal' = [s \in Watcher |-> signal[s] \/ watcher[s] # "off"]
  /\ UNCHANGED <<content, problems, clock, stamp, watcher, view>>

-----------------------------------------------------------------------------
(***************************************************************************)
(* Watchers: the server holds a subscription per browser, reads once and   *)
(* then after every signal.                                                *)
(***************************************************************************)
Subscribe(s) ==
  /\ watcher[s] = "off"
  /\ watcher' = [watcher EXCEPT ![s] = "snapshot"]
  /\ UNCHANGED <<content, problems, clock, writer, stamp, signal, view>>

\* Faulty: the signal is taken once everything is read.
TakeKeepingSignal(s) ==
  /\ watcher[s] = "waiting" /\ signal[s]
  /\ watcher' = [watcher EXCEPT ![s] = "snapshot"]
  /\ UNCHANGED <<content, problems, clock, writer, stamp, signal, view>>

Take(s) ==
  /\ watcher[s] = "waiting" /\ signal[s]
  /\ signal' = [signal EXCEPT ![s] = FALSE]
  /\ watcher' = [watcher EXCEPT ![s] = "snapshot"]
  /\ UNCHANGED <<content, problems, clock, writer, stamp, view>>

Read(s, from, to, k, v) ==
  /\ watcher[s] = from
  /\ watcher' = [watcher EXCEPT ![s] = to]
  /\ view' = [view EXCEPT ![s] = [@ EXCEPT ![k] = v]]
  /\ UNCHANGED <<content, problems, clock, writer, stamp, signal>>

ReadSnapshot(s) == Read(s, "snapshot", "problems", "snapshot", Snapshot(content))
ReadProblems(s) == Read(s, "problems", "upstream", "problems", problems)
ReadUpstream(s) == Read(s, "upstream", "status", "upstream", content.upstream)
ReadStatus(s) ==
  Read(s, "status", "waiting", "status", Status(view[s].upstream, Snapshot(content)))

\* The cancel func Changes returned.
Cancel(s) ==
  /\ watcher[s] # "off"
  /\ watcher' = [watcher EXCEPT ![s] = "off"]
  /\ signal' = [signal EXCEPT ![s] = FALSE]
  /\ view' = [view EXCEPT ![s] = Nothing]
  /\ UNCHANGED <<content, problems, clock, writer, stamp>>

Next ==
  \/ \E w \in Writer, k \in {"report", "evcc"}, v \in Value : Replace(w, k, v)
  \/ \E w \in Writer, k \in {"online", "upstream"}, v \in BOOLEAN : Set(w, k, v)
  \/ \E w \in Writer : Occur(w)
  \/ \E w \in Writer : AddProblem(w)
  \/ \E w \in Writer : Notify(w)
  \/ \E s \in Watcher : Subscribe(s)
  \/ \E s \in Watcher : Take(s)
  \/ \E s \in Watcher : ReadSnapshot(s)
  \/ \E s \in Watcher : ReadProblems(s)
  \/ \E s \in Watcher : ReadUpstream(s)
  \/ \E s \in Watcher : ReadStatus(s)
  \/ \E s \in Watcher : Cancel(s)

Spec == Init /\ [][Next]_vars

\* A writer goes on, and the server's goroutine serves its browser.
Fairness ==
  /\ \A w \in Writer : WF_vars(AddProblem(w)) /\ WF_vars(Notify(w))
  /\ \A s \in Watcher : WF_vars(Take(s) \/ ReadSnapshot(s) \/ ReadProblems(s)
                                \/ ReadUpstream(s) \/ ReadStatus(s))

FairSpec == Spec /\ Fairness

-----------------------------------------------------------------------------
\* A browser that waits with no signal pending shows what the store holds, as
\* long as no writer is between its change and its signal: coalescing signals
\* loses no change, reading part by part mixes none for good (state.go:201-203,
\* 219-229).
NoLostChange ==
  \A s \in Watcher :
    /\ watcher[s] = "waiting" /\ ~signal[s]
    /\ \A w \in Writer : writer[w] # "notify"
    => view[s] = Current

\* Once the store stays, a browser that stays connected comes to show it and
\* rests.
ViewSettles ==
  \A s \in Watcher :
    <>[][FALSE]_<<content, problems>> /\ <>[](watcher[s] # "off") /\ <>[](\A w \in Writer : writer[w] # "notify")
      => <>[](watcher[s] = "waiting" /\ view[s] = Current)
=============================================================================
