------------------------------ MODULE SetPath ------------------------------
(***************************************************************************)
(* The `set` path of one unit of the local backend: a payload is decoded   *)
(* and written (coordinator.applySet, reached over MQTT and from the web   *)
(* UI), a re-read is scheduled, and the poll loop and the re-reads fetch   *)
(* reports and publish them status by status (coordinator.publish).        *)
(*                                                                         *)
(* The broker link stays up here: what a reconnect does to the statuses is *)
(* Reachability's.  A refused or failed set also goes to the problem log,  *)
(* which is StateStore's.                                                  *)
(***************************************************************************)
EXTENDS SetItem

CONSTANTS
  Request,     \* <<leaf, payload>>: what is set
  ReRead,      \* re-reads that can be under way at once
  Late,        \* readers others can overtake while they publish
  Outcome,     \* what a write can come to
  InitDev,     \* properties the unit may start with
  None         \* no status yet

\* applied    the unit took the write, and the call returned nil
\* slow       the call returned nil, and the unit takes the write later
\* refused    the unit did not take it, and the call returned an error
\* lostReply  the unit took it, and the call returned an error
AllOutcomes == {"applied", "slow", "refused", "lostReply"}

Reader == {"poll"} \cup ReRead

ASSUME SetPathAssumption ==
  /\ "poll" \notin ReRead /\ Late \subseteq Reader
  /\ Outcome \subseteq AllOutcomes
  /\ InitDev \subseteq [Prop -> Int]
  /\ \A q \in Request : IsNumber(q[2]) => q[2].number \in Int

VARIABLES
  dev,      \* the unit's properties
  pending,  \* the writes the unit has accepted and not yet taken
  known,    \* the coordinator knows the unit (bySN)
  at,       \* at[r]: where a reader is: "idle", "due" or "publishing"
  report,   \* report[r]: what it fetched and is publishing
  left,     \* left[r]: the statuses it has yet to publish
  status    \* the retained status of each leaf, or None

vars == <<dev, pending, known, at, report, left, status>>
unit == <<dev, pending>>
readers == <<at, report, left>>

Nothing == Refused

TypeOK ==
  /\ dev \in [Prop -> Int]
  /\ DOMAIN pending \subseteq Prop
  /\ known \in BOOLEAN
  /\ at \in [Reader -> {"idle", "due", "publishing"}]
  /\ report \in [Reader -> [Prop -> Int] \cup {Nothing}]
  /\ left \in [Reader -> SUBSET Leaf]
  /\ \A r \in Reader : (at[r] = "publishing") <=> (left[r] # {})
  /\ DOMAIN status = Leaf

Init ==
  /\ dev \in InitDev
  /\ pending = Nothing
  /\ known \in BOOLEAN
  /\ at = [r \in Reader |-> "idle"]
  /\ report = [r \in Reader |-> Nothing]
  /\ left = [r \in Reader |-> {}]
  /\ status = [t \in Leaf |-> None]

-----------------------------------------------------------------------------
(***************************************************************************)
(* The unit.  Text for a number is no value it takes.                      *)
(***************************************************************************)
Taking(props) ==
  [k \in Prop |-> IF k \in DOMAIN props /\ props[k] # Text THEN props[k] ELSE dev[k]]

\* A write over those before it.
Over(props, before) ==
  [k \in DOMAIN props \cup DOMAIN before |-> IF k \in DOMAIN props THEN props[k] ELSE before[k]]

Take ==
  /\ pending # Nothing
  /\ dev' = Taking(pending)
  /\ pending' = Nothing
  /\ UNCHANGED <<known, readers, status>>

-----------------------------------------------------------------------------
(***************************************************************************)
(* applySet.                                                               *)
(***************************************************************************)
\* Faulty: the re-read starts without waiting for the delay and fetches nothing.
ReReadAtOnce ==
  /\ \E r \in ReRead : /\ at[r] = "idle"
                       /\ at' = [at EXCEPT ![r] = "publishing"]
  /\ UNCHANGED <<report, left>>

\* reReadSoon: a goroutine of its own per accepted set, as far as ReRead goes.
ReReadSoon ==
  /\ \E r \in ReRead : /\ at[r] = "idle"
                       /\ at' = [at EXCEPT ![r] = "due"]
  /\ UNCHANGED <<report, left>>

Write(props) ==
  \/ /\ "applied" \in Outcome
     /\ dev' = Taking(props) /\ UNCHANGED pending
     /\ ReReadSoon
  \/ /\ "slow" \in Outcome
     /\ pending' = Over(props, pending) /\ UNCHANGED dev
     /\ ReReadSoon
  \/ /\ "refused" \in Outcome
     /\ UNCHANGED <<unit, readers>>
  \/ /\ "lostReply" \in Outcome
     /\ dev' = Taking(props) /\ UNCHANGED <<pending, readers>>

ApplySet(t, p) ==
  /\ IF known /\ SetProps(t, p) # Refused
     THEN Write(SetProps(t, p))
     ELSE UNCHANGED <<unit, readers>>
  /\ UNCHANGED <<known, status>>

-----------------------------------------------------------------------------
(***************************************************************************)
(* publish, by the poll loop and by the re-reads.  The order of the        *)
(* statuses is that of a map: any.                                         *)
(***************************************************************************)
\* Faulty: the switches are not among the points.
CatalogPoints == DOMAIN Entry

Points == Leaf

\* A fetch, and for a reader nothing overtakes the publication with it.
FetchReport(r) ==
  /\ IF r \in Late
     THEN /\ report' = [report EXCEPT ![r] = dev]
          /\ at' = [at EXCEPT ![r] = "publishing"]
          /\ left' = [left EXCEPT ![r] = Points]
          /\ UNCHANGED status
     ELSE /\ at' = [at EXCEPT ![r] = "idle"]
          /\ status' = [t \in Leaf |-> IF t \in Points THEN Shown(t, dev) ELSE status[t]]
          /\ UNCHANGED <<report, left>>

Poll ==
  /\ at["poll"] = "idle"
  /\ FetchReport("poll")
  /\ known' = TRUE
  /\ UNCHANGED unit

ReReadNow(r) ==
  /\ at[r] = "due"
  /\ FetchReport(r)
  /\ UNCHANGED <<unit, known>>

\* reread_skipped: best effort, the periodic poll catches up.
ReReadFails(r) ==
  /\ at[r] = "due"
  /\ at' = [at EXCEPT ![r] = "idle"]
  /\ UNCHANGED <<unit, known, report, left, status>>

PublishState(r, t) ==
  /\ t \in left[r]
  /\ status' = [status EXCEPT ![t] = Shown(t, report[r])]
  /\ left' = [left EXCEPT ![r] = @ \ {t}]
  /\ IF left'[r] = {}
     THEN /\ at' = [at EXCEPT ![r] = "idle"]
          /\ report' = [report EXCEPT ![r] = Nothing]
     ELSE UNCHANGED <<at, report>>
  /\ UNCHANGED <<unit, known>>

Next ==
  \/ \E q \in Request : ApplySet(q[1], q[2])
  \/ Take
  \/ Poll
  \/ \E r \in ReRead : ReReadNow(r)
  \/ \E r \in ReRead : ReReadFails(r)
  \/ \E r \in Reader, t \in Leaf : PublishState(r, t)

Spec == Init /\ [][Next]_vars

\* The poll loop runs on a ticker, a publication under way goes on, and the
\* unit takes what it accepted.
Fairness ==
  /\ WF_vars(Poll)
  /\ WF_vars(Take)
  /\ \A r \in Reader : WF_vars(\E t \in Leaf : PublishState(r, t))
  /\ \A r \in ReRead : WF_vars(ReReadNow(r) \/ ReReadFails(r))

FairSpec == Spec /\ Fairness

-----------------------------------------------------------------------------
\* Whatever is set, a number the bridge writes stays within the bounds the
\* catalog gives it in display units (decodeCommand, coordinator.go:1118-1125),
\* scaling and rounding included: a unit that starts within them stays there.
WrittenStaysInBounds ==
  \A t \in DOMAIN Entry : LET e == Entry[t] IN
    ~IsEnum(e) => Display(e, dev[e.prop]).number \in e.min..e.max

\* What stands for an item before its user: its status, and for an enum the
\* option Home Assistant and the web UI show for it in either language.
ShownAs(t) ==
  LET s == Shown(t, dev) IN
  {s} \cup (IF t \in DOMAIN Entry /\ IsEnum(Entry[t]) /\ IsWord(s)
            THEN {Option(Entry[t], s, lang) : lang \in Lang} ELSE {})

\* Setting an item to what it shows changes nothing it shows: write inverts
\* read for numbers, tokens, labels and the switch, whose state comes from what
\* the last report of several properties made of it (coordinator.go:1088-1096,
\* 1121-1124, harender.go:437-451, virtual.go:51-63).
SettingTheShownKeepsIt ==
  \A t \in Leaf : \A p \in ShownAs(t) :
    LET props == SetProps(t, p) IN
    /\ props # Refused
    /\ Shown(t, Taking(props)) = Shown(t, dev)

\* Once the unit's properties stay, every status comes to show them for good,
\* however sets, slow and lost writes, failed re-reads and the publications of
\* a poll and of re-reads overtake each other (coordinator.go:909-915).
StatusSettles ==
  <>[][FALSE]_dev => \A t \in Leaf : <>[](status[t] = Shown(t, dev))
=============================================================================
