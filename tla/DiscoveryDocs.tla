--------------------------- MODULE DiscoveryDocs ---------------------------
(***************************************************************************)
(* The retained Home Assistant documents of one unit and its packs:        *)
(* internal/hass/discovery.go (the sent guard), and from                   *)
(* internal/coordinator/coordinator.go the report handler that publishes   *)
(* and reconciles, the orphan sweep, and the reconnect hook.               *)
(*                                                                         *)
(* A document is known by its topic and carries unique_ids; the report's   *)
(* points decide which.  publisher.Runtime is a library outside the        *)
(* repository, modelled from how the code uses it and from what its        *)
(* comments say of it; it publishes at QoS 0, so a write to a link that is *)
(* already going away succeeds and is lost.                                *)
(***************************************************************************)
EXTENDS FiniteSets

CONSTANTS
  Doc,            \* document topics: the unit, its packs, one of a past release
  Unit,           \* the unit's own, first among the owners of a report
  Id,             \* unique_ids
  Shape,          \* what a report can hold: the unique_ids of each document
  Reporter,       \* goroutines that handle reports: the poll loop, a re-read
  Late,           \* publishers a sweep or a reconnect can overtake inside one publish
  InitRetained,   \* what an earlier process may have left with the broker
  LinkMayDrop,    \* whether the broker link may go down
  StoreMayBeLost, \* whether a broker may come back without its store
  None

\* republishDiscovery, on the reconnect hook.
Publisher == Reporter \cup {"hook"}

Contents == [Doc -> SUBSET Id]
Nothing == [d \in Doc |-> {}]

ASSUME DiscoveryAssumption ==
  /\ IsFiniteSet(Doc) /\ Unit \in Doc
  /\ Shape \subseteq Contents /\ Shape # {}
  /\ "hook" \notin Reporter
  /\ Late \subseteq Publisher
  /\ InitRetained \subseteq Contents
  /\ LinkMayDrop \in BOOLEAN /\ StoreMayBeLost \in BOOLEAN
  /\ None \notin Doc

VARIABLES
  shape,     \* what the unit reports now
  last,      \* Coordinator.last: the latest report, Nothing before the first
  sent,      \* Discovery.sent
  byTopic,   \* Discovery.byTopic
  declared,  \* Runtime: documents written by this process
  memo,      \* Runtime: documents whose per-entity configs count as cleared
  retained,  \* broker: the unique_ids of each retained document
  legacy,    \* broker: documents with per-entity configs still retained
  lastSig,   \* Coordinator.lastDiscSig: the last published set of documents
  pub,       \* where each publisher is in Discovery.Publish
  sweep,     \* the reconcile in flight
  hook,      \* where PublishOnline is
  link       \* up, dying (writes succeed and are lost), down

guard == <<sent, byTopic>>
runtime == <<declared, memo>>
broker == <<retained, legacy>>
vars == <<shape, last, guard, runtime, broker, lastSig, pub, sweep, hook, link>>

Owners(report) == {d \in Doc : report[d] # {}}

\* The owner a publisher is at, the report it publishes, the owners left.
Publishing ==
  [at : {"idle", "guard", "retract", "write", "mark"}, doc : Doc \cup {None},
   report : Contents, todo : SUBSET Doc]
PubIdle == [at |-> "idle", doc |-> None, report |-> Nothing, todo |-> {}]

\* The documents of a sweep: in the window those the report published, to be
\* judged those found beside them, then the orphans.
Sweeping ==
  [at : {"idle", "window", "judge", "retract", "forget"}, docs : SUBSET Doc]
SweepIdle == [at |-> "idle", docs |-> {}]

\* Every variable has its type, and the reconnect hook publishes only while
\* it runs: the next one never meets the republication of the last.
TypeOK ==
  /\ shape \in Shape
  /\ last \in Contents
  /\ sent \subseteq Id
  /\ byTopic \in Contents
  /\ declared \subseteq Doc
  /\ memo \subseteq Doc
  /\ retained \in Contents
  /\ legacy \subseteq Doc
  /\ lastSig \subseteq Doc
  /\ pub \in [Publisher -> Publishing]
  /\ sweep \in Sweeping
  /\ hook \in {"idle", "reset", "snapshot", "reopen", "publish"}
  /\ hook # "publish" => pub["hook"].at = "idle"
  /\ link \in {"up", "dying", "down"}

Init ==
  /\ shape \in Shape
  /\ last = Nothing
  /\ sent = {}
  /\ byTopic = Nothing
  /\ declared = {}
  /\ memo = {}
  /\ retained \in InitRetained
  /\ legacy \in SUBSET {d \in Doc : retained[d] = {}}
  /\ lastSig = {}
  /\ pub = [p \in Publisher |-> PubIdle]
  /\ sweep = SweepIdle
  /\ hook = "idle"
  /\ link = "up"

-----------------------------------------------------------------------------
(***************************************************************************)
(* Discovery.Publish, owner by owner.                                      *)
(***************************************************************************)
Move(p, state) == pub' = [pub EXCEPT ![p] = state]
ToNextOwner(p) == Move(p, [pub[p] EXCEPT !.at = "guard", !.doc = None])

\* Coordinator.publish: the latest report is kept, then published.
BeginReport(p) ==
  /\ pub[p].at = "idle"
  /\ last' = shape
  /\ Move(p, [at |-> "guard", doc |-> None, report |-> shape, todo |-> Owners(shape)])
  /\ UNCHANGED <<shape, guard, runtime, broker, lastSig, sweep, hook, link>>

\* A document is written when it carries a unique_id not sent yet.
Guard(p) ==
  /\ pub[p].at = "guard"
  /\ \E d \in pub[p].todo :
       /\ Unit \in pub[p].todo => d = Unit
       /\ IF pub[p].report[d] \subseteq sent
          THEN Move(p, [pub[p] EXCEPT !.todo = @ \ {d}])
          ELSE Move(p, [pub[p] EXCEPT !.todo = @ \ {d}, !.doc = d, !.at = "retract"])
  /\ UNCHANGED <<shape, last, guard, runtime, broker, lastSig, sweep, hook, link>>

\* PublishBundle, first half: the per-entity configs the document supersedes,
\* unless this connection cleared them; without the link it fails.  Only a
\* late publisher gets in between the reconnect and the hook's Reset.
RetractLegacy(p) ==
  LET d == pub[p].doc
  IN  /\ pub[p].at = "retract"
      /\ hook # "reset" \/ p \in Late
      /\ IF d \in memo THEN Move(p, [pub[p] EXCEPT !.at = "write"]) /\ UNCHANGED <<memo, legacy>>
         ELSE IF link = "down" THEN ToNextOwner(p) /\ UNCHANGED <<memo, legacy>>
         ELSE /\ Move(p, [pub[p] EXCEPT !.at = "write"])
              /\ memo' = memo \cup {d}
              /\ legacy' = IF link = "up" THEN legacy \ {d} ELSE legacy
      /\ UNCHANGED <<shape, last, guard, declared, retained, lastSig, sweep, hook, link>>

MarkSent(d, ids) ==
  /\ sent' = sent \cup ids
  /\ byTopic' = [byTopic EXCEPT ![d] = ids]

\* Faulty: marked sent although the write failed.
WriteDocMarkingAll(p) ==
  LET d == pub[p].doc
      ids == pub[p].report[d]
  IN  /\ pub[p].at = "write"
      /\ retained' = IF link = "up" THEN [retained EXCEPT ![d] = ids] ELSE retained
      /\ declared' = IF link = "down" THEN declared ELSE declared \cup {d}
      /\ MarkSent(d, ids)
      /\ ToNextOwner(p)
      /\ UNCHANGED <<shape, last, memo, legacy, lastSig, sweep, hook, link>>

\* PublishBundle, second half.  Nothing is marked sent when it fails.
WriteDoc(p) ==
  LET d == pub[p].doc
      ids == pub[p].report[d]
  IN  /\ pub[p].at = "write"
      /\ \/ /\ link = "down"
            /\ ToNextOwner(p)
            /\ UNCHANGED <<guard, declared, retained>>
         \/ /\ link # "down"
            /\ retained' = IF link = "up" THEN [retained EXCEPT ![d] = ids] ELSE retained
            /\ declared' = declared \cup {d}
            /\ IF p \in Late
               THEN Move(p, [pub[p] EXCEPT !.at = "mark"]) /\ UNCHANGED guard
               ELSE ToNextOwner(p) /\ MarkSent(d, ids)
      /\ UNCHANGED <<shape, last, memo, legacy, lastSig, sweep, hook, link>>

Mark(p) ==
  /\ pub[p].at = "mark"
  /\ MarkSent(pub[p].doc, pub[p].report[pub[p].doc])
  /\ ToNextOwner(p)
  /\ UNCHANGED <<shape, last, runtime, broker, lastSig, sweep, hook, link>>

Published(p) == pub[p].at = "guard" /\ pub[p].todo = {}

-----------------------------------------------------------------------------
(***************************************************************************)
(* reconcileOrphans and sweepOrphans.                                      *)
(***************************************************************************)
\* Faulty: only when a document left the report.
ReconcileOnLoss(p) ==
  LET docs == Owners(pub[p].report)
  IN  /\ p \in Reporter
      /\ Published(p)
      /\ Move(p, PubIdle)
      /\ lastSig' = docs
      /\ sweep' = IF ~ lastSig \subseteq docs /\ sweep.at = "idle"
                  THEN [at |-> "window", docs |-> docs]
                  ELSE sweep
      /\ UNCHANGED <<shape, last, guard, runtime, broker, hook, link>>

\* The set of documents is recorded before the gate is tried.
Reconcile(p) ==
  LET docs == Owners(pub[p].report)
  IN  /\ p \in Reporter
      /\ Published(p)
      /\ Move(p, PubIdle)
      /\ lastSig' = docs
      /\ sweep' = IF docs # lastSig /\ sweep.at = "idle"
                  THEN [at |-> "window", docs |-> docs]
                  ELSE sweep
      /\ UNCHANGED <<shape, last, guard, runtime, broker, hook, link>>

\* Runtime.Sweep collects what the broker holds; without the link it fails
\* or hears nothing, and the reconcile is over.
Collect ==
  /\ sweep.at = "window"
  /\ sweep' = IF link = "up"
              THEN [at |-> "judge", docs |-> Owners(retained) \ sweep.docs]
              ELSE SweepIdle
  /\ UNCHANGED <<shape, last, guard, runtime, broker, lastSig, pub, hook, link>>

Orphans(docs) ==
  sweep' = IF docs = {} THEN SweepIdle ELSE [at |-> "retract", docs |-> docs]

\* What this process declared is spared beside what the report published.
Judge ==
  /\ sweep.at = "judge"
  /\ Orphans(sweep.docs \ declared)
  /\ UNCHANGED <<shape, last, guard, runtime, broker, lastSig, pub, hook, link>>

\* Runtime.Retract: an empty retained payload, and no longer declared.
RetractOrphans ==
  /\ sweep.at = "retract"
  /\ sweep' = [sweep EXCEPT !.at = "forget"]
  /\ declared' = IF link = "down" THEN declared ELSE declared \ sweep.docs
  /\ retained' = IF link = "up"
                 THEN [d \in Doc |-> IF d \in sweep.docs THEN {} ELSE retained[d]]
                 ELSE retained
  /\ UNCHANGED <<shape, last, guard, memo, legacy, lastSig, pub, hook, link>>

\* Discovery.Forget, whatever came of the retraction; the gate opens.
Forget ==
  /\ sweep.at = "forget"
  /\ sent' = sent \ UNION {byTopic[d] : d \in sweep.docs}
  /\ byTopic' = [d \in Doc |-> IF d \in sweep.docs THEN {} ELSE byTopic[d]]
  /\ sweep' = SweepIdle
  /\ UNCHANGED <<shape, last, runtime, broker, lastSig, pub, hook, link>>

-----------------------------------------------------------------------------
(***************************************************************************)
(* PublishOnline on a reconnect, as far as documents go.                   *)
(***************************************************************************)
\* Faulty: the per-connection memo survives the connection.
ResetNothing ==
  /\ hook = "reset"
  /\ hook' = "snapshot"
  /\ UNCHANGED <<shape, last, guard, runtime, broker, lastSig, pub, sweep, link>>

\* Runtime.Reset forgets what belonged to the last connection.
Reset ==
  /\ hook = "reset"
  /\ hook' = "snapshot"
  /\ memo' = {}
  /\ UNCHANGED <<shape, last, guard, declared, broker, lastSig, pub, sweep, link>>

\* republishDiscovery under lastMu.
SnapshotLast ==
  /\ hook = "snapshot"
  /\ hook' = "reopen"
  /\ Move("hook", [PubIdle EXCEPT !.report = last])
  /\ UNCHANGED <<shape, last, guard, runtime, broker, lastSig, sweep, link>>

\* Faulty: the documents count as sent on the new connection too.
ReopenNothing ==
  /\ hook = "reopen"
  /\ hook' = "publish"
  /\ Move("hook", [pub["hook"] EXCEPT !.at = "guard", !.todo = Owners(pub["hook"].report)])
  /\ UNCHANGED <<shape, last, guard, runtime, broker, lastSig, sweep, link>>

\* Discovery.Reopen, then Publish of the report.
Reopen ==
  /\ hook = "reopen"
  /\ hook' = "publish"
  /\ sent' = {}
  /\ Move("hook", [pub["hook"] EXCEPT !.at = "guard", !.todo = Owners(pub["hook"].report)])
  /\ UNCHANGED <<shape, last, byTopic, runtime, broker, lastSig, sweep, link>>

\* Faulty: the hook returns while its documents are still being written.
HookDoneEarly ==
  /\ hook = "publish"
  /\ hook' = "idle"
  /\ UNCHANGED <<shape, last, guard, runtime, broker, lastSig, pub, sweep, link>>

HookDone ==
  /\ hook = "publish"
  /\ Published("hook")
  /\ hook' = "idle"
  /\ Move("hook", PubIdle)
  /\ UNCHANGED <<shape, last, guard, runtime, broker, lastSig, sweep, link>>

-----------------------------------------------------------------------------
(***************************************************************************)
(* The unit and the broker.                                                *)
(***************************************************************************)
\* A pack appears or drops out of the report, a property appears in it.
ShapeChange ==
  /\ shape' \in Shape \ {shape}
  /\ UNCHANGED <<last, guard, runtime, broker, lastSig, pub, sweep, hook, link>>

LinkFails ==
  /\ LinkMayDrop
  /\ link' = CASE link = "up" -> "dying" [] link = "dying" -> "down" [] OTHER -> link
  /\ link' # link
  /\ UNCHANGED <<shape, last, guard, runtime, broker, lastSig, pub, sweep, hook>>

\* The lifecycle reconnects and runs its OnConnect hook, one at a time.  It
\* backs off first: a publisher that is not late has met the dead link by then.
LinkUp ==
  /\ link = "down"
  /\ hook = "idle"
  /\ \A p \in Publisher \ Late : pub[p].at # "write"
  /\ link' = "up"
  /\ hook' = "reset"
  /\ \/ UNCHANGED broker
     \/ StoreMayBeLost /\ retained' = Nothing /\ legacy' = {}
  /\ UNCHANGED <<shape, last, guard, runtime, lastSig, pub, sweep>>

PublishStep(p) == Guard(p) \/ RetractLegacy(p) \/ WriteDoc(p) \/ Mark(p)
ReportStep(p) == BeginReport(p) \/ PublishStep(p) \/ Reconcile(p)
SweepStep == Collect \/ Judge \/ RetractOrphans \/ Forget
HookStep == Reset \/ SnapshotLast \/ Reopen \/ PublishStep("hook") \/ HookDone

Next ==
  \/ \E p \in Reporter : ReportStep(p)
  \/ SweepStep
  \/ HookStep
  \/ ShapeChange
  \/ LinkFails
  \/ LinkUp

Spec == Init /\ [][Next]_vars

(***************************************************************************)
(* Fairness: reports keep coming and are handled to the end, a sweep and a *)
(* hook run to their end, a link that is going away goes, and the          *)
(* lifecycle reconnects.                                                   *)
(***************************************************************************)
Fairness ==
  /\ \A p \in Reporter : WF_vars(ReportStep(p))
  /\ WF_vars(SweepStep)
  /\ WF_vars(HookStep)
  /\ WF_vars(LinkUp)

FairSpec == Spec /\ Fairness

-----------------------------------------------------------------------------
\* What the guard takes for published is spared by every sweep, except while
\* the sweep that cleared it is about to undo the guard: otherwise a document
\* could be swept that no report ever writes again (discovery.go:196-204,
\* coordinator.go:855-894).
MarkedIsDeclared ==
  \A d \in Doc :
    byTopic[d] # {} => d \in declared \/ (sweep.at = "forget" /\ d \in sweep.docs)

\* What the report settles on comes to be retained for good: once the link
\* stays up and a unit keeps reporting the same owners and entities, every one
\* of them is in its retained document, whatever was swept, lost with a dying
\* connection or with the broker's store (coordinator.go:494-509, 886-888,
\* discovery.go:227-235, 247-257).
LiveDocsStay ==
  \A s \in Shape :
    <>[](link = "up" /\ shape = s) => <>[](\A d \in Doc : s[d] \subseteq retained[d])

\* No document stays beside the per-entity configs it supersedes, which Home
\* Assistant would refuse (coordinator.go:457-474, discovery.go:40-54).
NoConflictStays ==
  <>[](link = "up") => <>[](\A d \in Doc : retained[d] # {} => d \notin legacy)

\* A retained document that no report of this process ever carried is cleared,
\* if the link holds: a sweep that failed with it is not run again
\* (coordinator.go:642-649, 736-760).
GhostsGo ==
  [](link = "up") =>
    <>[](\A d \in Doc : (\A s \in Shape : s[d] = {}) => retained[d] = {})

=============================================================================
