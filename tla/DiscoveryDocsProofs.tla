------------------------ MODULE DiscoveryDocsProofs ------------------------
(***************************************************************************)
(* The records the discovery code keeps of one truth agree, for any        *)
(* documents, reports and reporters: what the sent guard has marked the    *)
(* runtime has declared, as long as no publisher is overtaken between its  *)
(* write and its mark, and what its memo counts as cleared is not retained *)
(* beside the document that supersedes it.                                 *)
(***************************************************************************)
EXTENDS DiscoveryDocs, TLAPS

\* A publisher past its guard is at a document.
AtDoc == \A p \in Publisher : pub[p].at \in {"retract", "write", "mark"} => pub[p].doc \in Doc

DocsInv == TypeOK /\ AtDoc

\* With no late publisher a document is written and marked in one go.
NoneBetween == \A p \in Publisher : pub[p].at # "mark"

MarkedInv == DocsInv /\ NoneBetween /\ MarkedIsDeclared

-----------------------------------------------------------------------------
LEMMA OwnersAreDocs == \A r : Owners(r) \subseteq Doc
  BY DEF Owners

LEMMA IdleIsPublishing ==
  /\ Nothing \in Contents
  /\ PubIdle \in Publishing
  /\ \A r \in Contents : [PubIdle EXCEPT !.report = r] \in Publishing
  /\ SweepIdle \in Sweeping
  BY DEF Nothing, Contents, PubIdle, Publishing, SweepIdle, Sweeping

\* p moves to some state of the right shape.
Moves(p) ==
  \E state \in Publishing :
    Move(p, state) /\ (state.at \in {"retract", "write", "mark"} => state.doc \in Doc)

LEMMA MovesTo ==
  ASSUME NEW p \in Publisher, NEW state \in Publishing, Move(p, state),
         state.at \in {"retract", "write", "mark"} => state.doc \in Doc
  PROVE  Moves(p)
  BY DEF Moves

\* Every move the publishers make is one.
LEMMA MoveForms ==
  ASSUME DocsInv, NEW p \in Publisher
  PROVE  /\ ToNextOwner(p) => Moves(p)
         /\ \A a \in {"write", "mark"} :
              pub[p].doc \in Doc /\ Move(p, [pub[p] EXCEPT !.at = a]) => Moves(p)
         /\ \A d \in Doc :
              /\ pub[p].at = "guard" /\ Move(p, [pub[p] EXCEPT !.todo = @ \ {d}]) => Moves(p)
              /\ Move(p, [pub[p] EXCEPT !.todo = @ \ {d}, !.doc = d, !.at = "retract"]) => Moves(p)
         /\ Move(p, [pub[p] EXCEPT !.at = "guard", !.todo = Owners(pub[p].report)]) => Moves(p)
<1>s. pub[p] \in Publishing
  BY DEF DocsInv, TypeOK
<1>1. ASSUME ToNextOwner(p) PROVE Moves(p)
  <2>1. [pub[p] EXCEPT !.at = "guard", !.doc = None] \in Publishing
    BY <1>s DEF Publishing
  <2>2. [pub[p] EXCEPT !.at = "guard", !.doc = None].at = "guard"
    BY <1>s DEF Publishing
  <2> QED BY <1>1, <2>1, <2>2, MovesTo DEF ToNextOwner
<1>2. ASSUME NEW a \in {"write", "mark"}, pub[p].doc \in Doc, Move(p, [pub[p] EXCEPT !.at = a])
      PROVE  Moves(p)
  <2>1. [pub[p] EXCEPT !.at = a] \in Publishing /\ [pub[p] EXCEPT !.at = a].doc \in Doc
    BY <1>s, <1>2 DEF Publishing
  <2> QED BY <1>2, <2>1, MovesTo
<1>3. ASSUME NEW d \in Doc, pub[p].at = "guard", Move(p, [pub[p] EXCEPT !.todo = @ \ {d}])
      PROVE  Moves(p)
  <2>1. [pub[p] EXCEPT !.todo = @ \ {d}] \in Publishing /\ [pub[p] EXCEPT !.todo = @ \ {d}].at = "guard"
    BY <1>s, <1>3 DEF Publishing
  <2> QED BY <1>3, <2>1, MovesTo
<1>4. ASSUME NEW d \in Doc, Move(p, [pub[p] EXCEPT !.todo = @ \ {d}, !.doc = d, !.at = "retract"])
      PROVE  Moves(p)
  <2>1. /\ [pub[p] EXCEPT !.todo = @ \ {d}, !.doc = d, !.at = "retract"] \in Publishing
        /\ [pub[p] EXCEPT !.todo = @ \ {d}, !.doc = d, !.at = "retract"].doc = d
    BY <1>s DEF Publishing
  <2> QED BY <1>4, <2>1, MovesTo
<1>5. ASSUME Move(p, [pub[p] EXCEPT !.at = "guard", !.todo = Owners(pub[p].report)])
      PROVE  Moves(p)
  <2>1. /\ [pub[p] EXCEPT !.at = "guard", !.todo = Owners(pub[p].report)] \in Publishing
        /\ [pub[p] EXCEPT !.at = "guard", !.todo = Owners(pub[p].report)].at = "guard"
    BY <1>s, OwnersAreDocs DEF Publishing
  <2> QED BY <1>5, <2>1, MovesTo
<1> QED BY <1>1, <1>2, <1>3, <1>4, <1>5

\* A move disturbs no other publisher.
LEMMA MoveKeeps ==
  ASSUME DocsInv, NEW p \in Publisher, Moves(p)
  PROVE  /\ pub' \in [Publisher -> Publishing]
         /\ AtDoc'
         /\ \A q \in Publisher \ {p} : pub'[q] = pub[q]
  BY DEF DocsInv, TypeOK, Move, Moves, AtDoc

\* The step of a publisher keeps the type; the hook's own is taken only while
\* it publishes.
LEMMA PublishStepTypes ==
  ASSUME DocsInv, NEW p \in Publisher, PublishStep(p)
  PROVE  DocsInv'
<1>doc. pub[p].at \in {"retract", "write", "mark"} => /\ pub[p].doc \in Doc
                                                      /\ pub[p].report[pub[p].doc] \subseteq Id
  BY DEF DocsInv, AtDoc, TypeOK, Publishing, Contents
<1>moves. Moves(p)
  <2>1. CASE Guard(p)
    BY <2>1, MoveForms DEF Guard, DocsInv, TypeOK, Publishing
  <2>2. CASE RetractLegacy(p)
    BY <2>2, <1>doc, MoveForms DEF RetractLegacy
  <2>3. CASE WriteDoc(p)
    BY <2>3, <1>doc, MoveForms DEF WriteDoc
  <2>4. CASE Mark(p)
    BY <2>4, MoveForms DEF Mark
  <2> QED BY <2>1, <2>2, <2>3, <2>4 DEF PublishStep
<1>pub. pub' \in [Publisher -> Publishing] /\ AtDoc'
  BY <1>moves, MoveKeeps
<1>hook. hook' = hook /\ (hook # "publish" => pub["hook"].at = "idle")'
  <2>1. pub[p].at # "idle" /\ hook' = hook
    BY DEF PublishStep, Guard, RetractLegacy, WriteDoc, Mark
  <2> QED BY <2>1, <1>moves, MoveKeeps DEF DocsInv, TypeOK, Publisher
<1>1. CASE Guard(p)
  BY <1>1, <1>pub, <1>hook DEF Guard, DocsInv, TypeOK, guard, runtime, broker
<1>2. CASE RetractLegacy(p)
  <2>1. memo' \subseteq Doc /\ legacy' \subseteq Doc
    BY <1>2, <1>doc DEF RetractLegacy, DocsInv, TypeOK
  <2> QED BY <1>2, <2>1, <1>pub, <1>hook DEF RetractLegacy, DocsInv, TypeOK, guard
<1>3. CASE WriteDoc(p)
  <2>1. retained' \in Contents /\ declared' \subseteq Doc
    BY <1>3, <1>doc DEF WriteDoc, DocsInv, TypeOK, Contents
  <2>2. sent' \subseteq Id /\ byTopic' \in Contents
    BY <1>3, <1>doc DEF WriteDoc, DocsInv, TypeOK, Contents, MarkSent, guard
  <2> QED BY <1>3, <2>1, <2>2, <1>pub, <1>hook DEF WriteDoc, DocsInv, TypeOK
<1>4. CASE Mark(p)
  <2>1. sent' \subseteq Id /\ byTopic' \in Contents
    BY <1>4, <1>doc DEF Mark, DocsInv, TypeOK, Contents, MarkSent
  <2> QED BY <1>4, <2>1, <1>pub, <1>hook DEF Mark, DocsInv, TypeOK, runtime, broker
<1> QED BY <1>1, <1>2, <1>3, <1>4 DEF PublishStep

\* The hook's steps beside its publication.
LEMMA HookTypes ==
  ASSUME DocsInv, Reset \/ SnapshotLast \/ Reopen \/ HookDone
  PROVE  DocsInv'
<1>h. "hook" \in Publisher
  BY DEF Publisher
<1>1. CASE Reset
  BY <1>1 DEF Reset, DocsInv, TypeOK, AtDoc, guard, broker
<1>2. CASE SnapshotLast
  <2>1. [PubIdle EXCEPT !.report = last] \in Publishing /\ [PubIdle EXCEPT !.report = last].at = "idle"
    BY IdleIsPublishing DEF DocsInv, TypeOK, PubIdle
  <2>2. Moves("hook")
    BY <1>2, <1>h, <2>1, MovesTo DEF SnapshotLast
  <2>3. pub'["hook"].at = "idle"
    BY <1>2, <1>h, <2>1 DEF SnapshotLast, Move, DocsInv, TypeOK
  <2> QED BY <1>2, <1>h, <2>2, <2>3, MoveKeeps DEF SnapshotLast, DocsInv, TypeOK, guard, runtime, broker
<1>3. CASE Reopen
  <2>1. Moves("hook")
    BY <1>3, <1>h, MoveForms DEF Reopen
  <2> QED BY <1>3, <1>h, <2>1, MoveKeeps DEF Reopen, DocsInv, TypeOK, runtime, broker
<1>4. CASE HookDone
  <2>1. Moves("hook")
    BY <1>4, <1>h, IdleIsPublishing, MovesTo DEF HookDone, PubIdle
  <2>2. pub'["hook"].at = "idle"
    BY <1>4, <1>h DEF HookDone, Move, DocsInv, TypeOK, PubIdle
  <2> QED BY <1>4, <1>h, <2>1, <2>2, MoveKeeps DEF HookDone, DocsInv, TypeOK, guard, runtime, broker
<1> QED BY <1>1, <1>2, <1>3, <1>4

\* The start and the end of a report.
LEMMA ReportTypes ==
  ASSUME DocsInv, NEW p \in Reporter, BeginReport(p) \/ Reconcile(p)
  PROVE  DocsInv'
<1>p. p \in Publisher /\ "hook" \in Publisher /\ p # "hook"
  BY DiscoveryAssumption DEF Publisher
<1>1. CASE BeginReport(p)
  <2> DEFINE state == [at |-> "guard", doc |-> None, report |-> shape, todo |-> Owners(shape)]
  <2>1. shape \in Contents
    BY DiscoveryAssumption DEF DocsInv, TypeOK
  <2>2. state \in Publishing /\ state.at = "guard"
    BY <2>1, OwnersAreDocs DEF Publishing
  <2>3. Moves(p)
    BY <1>1, <1>p, <2>2, MovesTo DEF BeginReport
  <2> QED BY <1>1, <1>p, <2>1, <2>3, MoveKeeps DEF BeginReport, DocsInv, TypeOK, guard, runtime, broker
<1>2. CASE Reconcile(p)
  <2>1. Moves(p)
    BY <1>2, <1>p, IdleIsPublishing, MovesTo DEF Reconcile, PubIdle
  <2>2. sweep' \in Sweeping /\ lastSig' \subseteq Doc
    BY <1>2, OwnersAreDocs DEF Reconcile, DocsInv, TypeOK, Sweeping
  <2> QED BY <1>2, <1>p, <2>1, <2>2, MoveKeeps DEF Reconcile, DocsInv, TypeOK, guard, runtime, broker
<1> QED BY <1>1, <1>2

LEMMA SweepTypes ==
  ASSUME DocsInv, SweepStep
  PROVE  DocsInv'
<1>1. CASE Collect
  BY <1>1, OwnersAreDocs, IdleIsPublishing DEF Collect, DocsInv, TypeOK, AtDoc, Sweeping, guard, runtime, broker
<1>2. CASE Judge
  BY <1>2, IdleIsPublishing DEF Judge, Orphans, DocsInv, TypeOK, AtDoc, Sweeping, guard, runtime, broker
<1>3. CASE RetractOrphans
  BY <1>3 DEF RetractOrphans, DocsInv, TypeOK, AtDoc, Sweeping, Contents, guard
<1>4. CASE Forget
  BY <1>4, IdleIsPublishing DEF Forget, DocsInv, TypeOK, AtDoc, Contents, runtime, broker
<1> QED BY <1>1, <1>2, <1>3, <1>4 DEF SweepStep

LEMMA NextTypes == DocsInv /\ [Next]_vars => DocsInv'
<1> SUFFICES ASSUME DocsInv, [Next]_vars PROVE DocsInv'
  OBVIOUS
<1>h. "hook" \in Publisher /\ Reporter \subseteq Publisher
  BY DEF Publisher
<1>1. ASSUME NEW p \in Reporter, ReportStep(p) PROVE DocsInv'
  BY <1>1, <1>h, ReportTypes, PublishStepTypes DEF ReportStep
<1>2. CASE SweepStep
  BY <1>2, SweepTypes
<1>3. CASE HookStep
  BY <1>3, <1>h, HookTypes, PublishStepTypes DEF HookStep
<1>4. CASE ShapeChange
  BY <1>4 DEF ShapeChange, DocsInv, TypeOK, AtDoc, guard, runtime, broker
<1>5. CASE LinkFails
  BY <1>5 DEF LinkFails, DocsInv, TypeOK, AtDoc, guard, runtime, broker
<1>6. CASE LinkUp
  BY <1>6, IdleIsPublishing DEF LinkUp, DocsInv, TypeOK, AtDoc, guard, runtime, broker
<1>7. CASE UNCHANGED vars
  BY <1>7 DEF vars, DocsInv, TypeOK, AtDoc, guard, runtime, broker
<1> QED BY <1>1, <1>2, <1>3, <1>4, <1>5, <1>6, <1>7 DEF Next

LEMMA InitTypes == Init => DocsInv
  BY DiscoveryAssumption, IdleIsPublishing DEF Init, DocsInv, TypeOK, AtDoc, PubIdle, Publisher

\* For any documents, reports and reporters every variable keeps its type, a
\* publisher past its guard is at a document, and the reconnect hook publishes
\* only while it runs (discovery.go:157-204, coordinator.go:447-509).
THEOREM TypeCorrect == Spec => []TypeOK
<1>1. Spec => []DocsInv
  BY InitTypes, NextTypes, PTL DEF Spec
<1>2. DocsInv => TypeOK
  BY DEF DocsInv
<1> QED BY <1>1, <1>2, PTL

-----------------------------------------------------------------------------
(***************************************************************************)
(* The guard against the runtime.                                          *)
(***************************************************************************)
\* A step that marks nothing, declares no less and leaves the sweep keeps it.
LEMMA MarkedStays ==
  ASSUME MarkedIsDeclared, UNCHANGED <<byTopic, sweep>>, declared \subseteq declared'
  PROVE  MarkedIsDeclared'
  BY DEF MarkedIsDeclared

\* A publisher that goes on to its next owner leaves none at a mark.
LEMMA NextOwnerBetween ==
  ASSUME NoneBetween, pub \in [Publisher -> Publishing], NEW p \in Publisher, ToNextOwner(p)
  PROVE  NoneBetween'
<1>1. pub' = [pub EXCEPT ![p] = [pub[p] EXCEPT !.at = "guard", !.doc = None]]
  BY DEF ToNextOwner, Move
<1>2. pub'[p] = [pub[p] EXCEPT !.at = "guard", !.doc = None]
  BY <1>1
<1>3. pub'[p].at = "guard"
  BY <1>2 DEF Publishing
<1>4. \A q \in Publisher \ {p} : pub'[q] = pub[q]
  BY <1>1
<1> QED BY <1>3, <1>4 DEF NoneBetween

\* A write and its mark in one go declare what they mark.
LEMMA WriteMarks ==
  ASSUME MarkedInv, Late = {}, NEW p \in Publisher, PublishStep(p)
  PROVE  NoneBetween' /\ MarkedIsDeclared'
<1> USE DEF MarkedInv
<1>t. pub \in [Publisher -> Publishing] /\ byTopic \in [Doc -> SUBSET Id]
  BY DEF DocsInv, TypeOK, Contents
<1>1. CASE Guard(p)
  <2>1. NoneBetween'
    BY <1>1, <1>t DEF Guard, Move, NoneBetween, Publishing
  <2> QED BY <1>1, <2>1, MarkedStays DEF Guard, guard, runtime
<1>2. CASE RetractLegacy(p)
  <2>1. NoneBetween'
    BY <1>2, <1>t DEF RetractLegacy, ToNextOwner, Move, NoneBetween, Publishing
  <2> QED BY <1>2, <2>1, MarkedStays DEF RetractLegacy, guard
<1>3. CASE WriteDoc(p)
  <2>1. NoneBetween'
    <3>1. ToNextOwner(p)
      BY <1>3 DEF WriteDoc
    <3> QED BY <1>t, <3>1, NextOwnerBetween
  <2>2. CASE link = "down"
    BY <1>3, <2>1, <2>2, MarkedStays DEF WriteDoc, guard
  <2>3. CASE link # "down"
    <3>1. /\ declared' = declared \cup {pub[p].doc}
          /\ byTopic' = [byTopic EXCEPT ![pub[p].doc] = pub[p].report[pub[p].doc]]
          /\ sweep' = sweep
      BY <1>3, <2>3 DEF WriteDoc, MarkSent
    <3> QED BY <2>1, <3>1, <1>t DEF MarkedIsDeclared
  <2> QED BY <2>2, <2>3
<1>4. CASE Mark(p)
  BY <1>4 DEF Mark, NoneBetween
<1> QED BY <1>1, <1>2, <1>3, <1>4 DEF PublishStep

\* The sweep takes a declaration away only on its way to undo the guard.
LEMMA SweepMarks ==
  ASSUME MarkedInv, SweepStep
  PROVE  NoneBetween' /\ MarkedIsDeclared'
<1> USE DEF MarkedInv
<1>t. sweep \in Sweeping /\ byTopic \in [Doc -> SUBSET Id]
  BY DEF DocsInv, TypeOK, Contents
<1>p. NoneBetween'
  BY DEF SweepStep, Collect, Judge, RetractOrphans, Forget, NoneBetween
<1>1. CASE Collect
  BY <1>1, <1>p DEF Collect, guard, runtime, MarkedIsDeclared
<1>2. CASE Judge
  BY <1>2, <1>p DEF Judge, guard, runtime, MarkedIsDeclared
<1>3. CASE RetractOrphans
  <2>1. sweep'.at = "forget" /\ sweep'.docs = sweep.docs
    BY <1>3, <1>t DEF RetractOrphans, Sweeping
  <2>2. byTopic' = byTopic /\ declared \ sweep.docs \subseteq declared'
    BY <1>3 DEF RetractOrphans, guard
  <2>3. sweep.at # "forget"
    BY <1>3 DEF RetractOrphans
  <2> QED BY <1>p, <2>1, <2>2, <2>3 DEF MarkedIsDeclared
<1>4. CASE Forget
  <2>1. \A d \in Doc : byTopic'[d] # {} => byTopic[d] # {} /\ d \notin sweep.docs
    BY <1>4, <1>t DEF Forget
  <2>2. declared' = declared
    BY <1>4 DEF Forget, runtime
  <2> QED BY <1>p, <2>1, <2>2 DEF MarkedIsDeclared
<1> QED BY <1>1, <1>2, <1>3, <1>4 DEF SweepStep

LEMMA NextMarks == Late = {} => (MarkedInv /\ [Next]_vars => MarkedInv')
<1> SUFFICES ASSUME Late = {}, MarkedInv, [Next]_vars PROVE MarkedInv'
  OBVIOUS
<1>0. DocsInv'
  BY NextTypes DEF MarkedInv
<1>h. "hook" \in Publisher /\ Reporter \subseteq Publisher
  BY DEF Publisher
<1>t. pub \in [Publisher -> Publishing]
  BY DEF MarkedInv, DocsInv, TypeOK
<1>1. ASSUME NEW p \in Reporter, ReportStep(p) PROVE NoneBetween' /\ MarkedIsDeclared'
  <2>1. CASE BeginReport(p)
    <3>1. NoneBetween'
      BY <2>1, <1>h, <1>t DEF BeginReport, Move, NoneBetween, MarkedInv
    <3> QED BY <2>1, <3>1, MarkedStays DEF BeginReport, guard, runtime, MarkedInv
  <2>2. CASE PublishStep(p)
    BY <2>2, <1>h, WriteMarks
  <2>3. CASE Reconcile(p)
    <3>1. NoneBetween'
      BY <2>3, <1>h, <1>t DEF Reconcile, Move, PubIdle, NoneBetween, MarkedInv
    <3>2. byTopic' = byTopic /\ declared' = declared
      BY <2>3 DEF Reconcile, guard, runtime
    <3>3. sweep' # sweep => sweep.at = "idle"
      BY <2>3 DEF Reconcile
    <3> QED BY <3>1, <3>2, <3>3 DEF MarkedIsDeclared, MarkedInv
  <2> QED BY <1>1, <2>1, <2>2, <2>3 DEF ReportStep
<1>2. ASSUME SweepStep PROVE NoneBetween' /\ MarkedIsDeclared'
  BY <1>2, SweepMarks
<1>3. ASSUME HookStep PROVE NoneBetween' /\ MarkedIsDeclared'
  <2>1. CASE PublishStep("hook")
    BY <2>1, <1>h, WriteMarks
  <2>2. CASE Reset \/ SnapshotLast \/ Reopen \/ HookDone
    <3>1. NoneBetween'
      <4>1. CASE Reset
        BY <4>1 DEF Reset, NoneBetween, MarkedInv
      <4>2. CASE SnapshotLast
        <5>1. [PubIdle EXCEPT !.report = last].at = "idle"
          BY DEF PubIdle
        <5> QED BY <4>2, <5>1, <1>h, <1>t DEF SnapshotLast, Move, NoneBetween, MarkedInv
      <4>3. CASE Reopen
        <5>1. [pub["hook"] EXCEPT !.at = "guard", !.todo = Owners(pub["hook"].report)].at = "guard"
          BY <1>h, <1>t DEF Publishing
        <5> QED BY <4>3, <5>1, <1>h, <1>t DEF Reopen, Move, NoneBetween, MarkedInv
      <4>4. CASE HookDone
        BY <4>4, <1>h, <1>t DEF HookDone, Move, PubIdle, NoneBetween, MarkedInv
      <4> QED BY <2>2, <4>1, <4>2, <4>3, <4>4
    <3>2. UNCHANGED <<byTopic, sweep>> /\ declared' = declared
      BY <2>2 DEF Reset, SnapshotLast, Reopen, HookDone, guard, runtime
    <3> QED BY <3>1, <3>2, MarkedStays DEF MarkedInv
  <2> QED BY <1>3, <2>1, <2>2 DEF HookStep
<1>4. ASSUME ShapeChange \/ LinkFails \/ LinkUp \/ UNCHANGED vars
      PROVE  NoneBetween' /\ MarkedIsDeclared'
  <2>1. UNCHANGED <<pub, byTopic, sweep, declared>>
    BY <1>4 DEF ShapeChange, LinkFails, LinkUp, vars, guard, runtime
  <2> QED BY <2>1, MarkedStays DEF MarkedInv, NoneBetween
<1> QED BY <1>0, <1>1, <1>2, <1>3, <1>4 DEF Next, MarkedInv

\* With publishers that are not overtaken, what the sent guard takes for
\* published the runtime has declared, so that every sweep spares it, except
\* while the sweep that cleared it is about to undo the guard
\* (discovery.go:196-204, coordinator.go:855-894).
THEOREM MarkedSpared == ASSUME Late = {} PROVE Spec => []MarkedIsDeclared
<1>1. Init => MarkedInv
  BY InitTypes DEF Init, MarkedInv, NoneBetween, MarkedIsDeclared, PubIdle, Nothing
<1>2. MarkedInv /\ [Next]_vars => MarkedInv'
  BY NextMarks
<1>3. MarkedInv => MarkedIsDeclared
  BY DEF MarkedInv
<1> QED BY <1>1, <1>2, <1>3, PTL DEF Spec

-----------------------------------------------------------------------------
(***************************************************************************)
(* A document beside the per-entity configs it supersedes.                 *)
(***************************************************************************)
\* What the memo counts as cleared on this connection is cleared.  It is not
\* on a connection that is going away, nor between a reconnect and its Reset.
MemoIsTrue == link = "up" /\ hook # "reset" => memo \cap legacy = {}

\* A publisher that is not late finds nothing beside the document it writes.
WritersClear ==
  \A p \in Publisher \ Late : pub[p].at = "write" /\ link = "up" => pub[p].doc \notin legacy

NoConflict == \A d \in Doc : retained[d] # {} => d \notin legacy

ClearInv == DocsInv /\ MemoIsTrue /\ WritersClear

\* A step that neither sends a publisher to its write, nor fills the memo, nor
\* brings back the link or a per-entity config, keeps both.
LEMMA ClearStays ==
  ASSUME ClearInv, memo' \subseteq memo, legacy' \subseteq legacy,
         link' = "up" => link = "up", hook = "reset" /\ hook' # "reset" => memo' = {},
         \A p \in Publisher : pub'[p].at = "write" => pub'[p] = pub[p]
  PROVE  MemoIsTrue' /\ WritersClear'
<1>1. MemoIsTrue'
  BY DEF ClearInv, MemoIsTrue
<1>2. WritersClear'
  BY DEF ClearInv, WritersClear
<1> QED BY <1>1, <1>2

\* A move that is not to the write sends nobody there.
LEMMA MoveElsewhere ==
  ASSUME DocsInv, NEW p \in Publisher, NEW state, Move(p, state), state.at # "write"
  PROVE  \A q \in Publisher : pub'[q].at = "write" => pub'[q] = pub[q]
  BY DEF DocsInv, TypeOK, Move

LEMMA NextOwnerElsewhere ==
  ASSUME DocsInv, NEW p \in Publisher, ToNextOwner(p)
  PROVE  \A q \in Publisher : pub'[q].at = "write" => pub'[q] = pub[q]
<1>1. [pub[p] EXCEPT !.at = "guard", !.doc = None].at = "guard"
  BY DEF DocsInv, TypeOK, Publishing
<1> QED BY <1>1, MoveElsewhere DEF ToNextOwner

\* The first half of PublishBundle clears what it says it clears.
LEMMA RetractClears ==
  ASSUME ClearInv, NEW p \in Publisher, RetractLegacy(p)
  PROVE  MemoIsTrue' /\ WritersClear'
<1> DEFINE d == pub[p].doc
<1>t. DocsInv /\ pub[p] \in Publishing /\ pub \in [Publisher -> Publishing]
  BY DEF ClearInv, DocsInv, TypeOK
<1>s. UNCHANGED <<hook, link>> /\ pub[p].at = "retract" /\ (hook # "reset" \/ p \in Late)
  BY DEF RetractLegacy
<1>1. CASE ToNextOwner(p) /\ UNCHANGED <<memo, legacy>>
  BY <1>1, <1>t, <1>s, NextOwnerElsewhere, ClearStays
<1>2. CASE /\ Move(p, [pub[p] EXCEPT !.at = "write"])
           /\ \/ d \in memo /\ UNCHANGED <<memo, legacy>>
              \/ /\ memo' = memo \cup {d}
                 /\ legacy' = IF link = "up" THEN legacy \ {d} ELSE legacy
  <2>1. legacy' \subseteq legacy
    BY <1>2
  <2>2. MemoIsTrue'
    BY <1>2, <1>s DEF ClearInv, MemoIsTrue
  <2>3. pub' = [pub EXCEPT ![p] = [pub[p] EXCEPT !.at = "write"]]
    BY <1>2 DEF Move
  <2>4. pub'[p].doc = d /\ \A q \in Publisher \ {p} : pub'[q] = pub[q]
    BY <2>3, <1>t DEF Publishing
  <2>5. link = "up" /\ p \notin Late => d \notin legacy'
    BY <1>2, <1>s DEF ClearInv, MemoIsTrue
  <2>6. WritersClear'
    BY <2>1, <2>4, <2>5, <1>s DEF ClearInv, WritersClear
  <2> QED BY <2>2, <2>6
<1> QED BY <1>1, <1>2 DEF RetractLegacy

LEMMA PublishClears ==
  ASSUME ClearInv, NEW p \in Publisher, PublishStep(p)
  PROVE  MemoIsTrue' /\ WritersClear'
<1>t. DocsInv /\ pub[p] \in Publishing
  BY DEF ClearInv, DocsInv, TypeOK
<1>1. CASE Guard(p)
  <2>1. PICK d \in Doc : \/ Move(p, [pub[p] EXCEPT !.todo = @ \ {d}])
                         \/ Move(p, [pub[p] EXCEPT !.todo = @ \ {d}, !.doc = d, !.at = "retract"])
    BY <1>1, <1>t DEF Guard, Publishing
  <2>2. /\ [pub[p] EXCEPT !.todo = @ \ {d}].at = "guard"
        /\ [pub[p] EXCEPT !.todo = @ \ {d}, !.doc = d, !.at = "retract"].at = "retract"
    BY <1>1, <1>t DEF Guard, Publishing
  <2>3. \A q \in Publisher : pub'[q].at = "write" => pub'[q] = pub[q]
    BY <1>t, <2>1, <2>2, MoveElsewhere
  <2> QED BY <1>1, <2>3, ClearStays DEF Guard, runtime, broker
<1>2. CASE RetractLegacy(p)
  BY <1>2, RetractClears
<1>3. CASE WriteDoc(p)
  <2>1. [pub[p] EXCEPT !.at = "mark"].at = "mark"
    BY <1>t DEF Publishing
  <2>2. \A q \in Publisher : pub'[q].at = "write" => pub'[q] = pub[q]
    <3>1. ToNextOwner(p) \/ Move(p, [pub[p] EXCEPT !.at = "mark"])
      BY <1>3 DEF WriteDoc
    <3> QED BY <1>t, <2>1, <3>1, MoveElsewhere, NextOwnerElsewhere
  <2> QED BY <1>3, <2>2, ClearStays DEF WriteDoc
<1>4. CASE Mark(p)
  BY <1>4, <1>t, NextOwnerElsewhere, ClearStays DEF Mark, runtime, broker
<1> QED BY <1>1, <1>2, <1>3, <1>4 DEF PublishStep

LEMMA NextClears == ClearInv /\ [Next]_vars => ClearInv'
<1> SUFFICES ASSUME ClearInv, [Next]_vars PROVE MemoIsTrue' /\ WritersClear'
  BY NextTypes DEF ClearInv
<1>0. DocsInv
  BY DEF ClearInv
<1>h. "hook" \in Publisher /\ Reporter \subseteq Publisher
  BY DEF Publisher
<1>t. pub \in [Publisher -> Publishing]
  BY <1>0 DEF DocsInv, TypeOK
<1>1. ASSUME NEW p \in Reporter, ReportStep(p) PROVE MemoIsTrue' /\ WritersClear'
  <2>1. CASE BeginReport(p)
    <3>1. \A q \in Publisher : pub'[q].at = "write" => pub'[q] = pub[q]
      BY <2>1, <1>0, <1>h, MoveElsewhere DEF BeginReport
    <3> QED BY <2>1, <3>1, ClearStays DEF BeginReport, runtime, broker
  <2>2. CASE PublishStep(p)
    BY <2>2, <1>h, PublishClears
  <2>3. CASE Reconcile(p)
    <3>1. \A q \in Publisher : pub'[q].at = "write" => pub'[q] = pub[q]
      BY <2>3, <1>0, <1>h, MoveElsewhere DEF Reconcile, PubIdle
    <3> QED BY <2>3, <3>1, ClearStays DEF Reconcile, runtime, broker
  <2> QED BY <1>1, <2>1, <2>2, <2>3 DEF ReportStep
<1>2. CASE SweepStep
  <2>1. UNCHANGED <<memo, legacy, link, hook, pub>>
    BY <1>2 DEF SweepStep, Collect, Judge, RetractOrphans, Forget, runtime, broker
  <2> QED BY <2>1, ClearStays
<1>3. CASE HookStep
  <2>1. CASE Reset
    BY <2>1, ClearStays DEF Reset, broker
  <2>2. CASE SnapshotLast
    <3>1. [PubIdle EXCEPT !.report = last].at = "idle"
      BY DEF PubIdle
    <3>2. \A q \in Publisher : pub'[q].at = "write" => pub'[q] = pub[q]
      BY <2>2, <3>1, <1>0, <1>h, MoveElsewhere DEF SnapshotLast
    <3> QED BY <2>2, <3>2, ClearStays DEF SnapshotLast, runtime, broker
  <2>3. CASE Reopen
    <3>1. [pub["hook"] EXCEPT !.at = "guard", !.todo = Owners(pub["hook"].report)].at = "guard"
      BY <1>h, <1>t DEF Publishing
    <3>2. \A q \in Publisher : pub'[q].at = "write" => pub'[q] = pub[q]
      BY <2>3, <3>1, <1>0, <1>h, MoveElsewhere DEF Reopen
    <3> QED BY <2>3, <3>2, ClearStays DEF Reopen, runtime, broker
  <2>4. CASE PublishStep("hook")
    BY <2>4, <1>h, PublishClears
  <2>5. CASE HookDone
    <3>1. \A q \in Publisher : pub'[q].at = "write" => pub'[q] = pub[q]
      BY <2>5, <1>0, <1>h, MoveElsewhere DEF HookDone, PubIdle
    <3> QED BY <2>5, <3>1, ClearStays DEF HookDone, runtime, broker
  <2> QED BY <1>3, <2>1, <2>2, <2>3, <2>4, <2>5 DEF HookStep
<1>4. CASE LinkFails
  <2>1. UNCHANGED <<memo, legacy, hook, pub>> /\ link' # "up"
    BY <1>4, <1>0 DEF LinkFails, DocsInv, TypeOK, runtime, broker
  <2> QED BY <2>1, ClearStays
<1>5. CASE LinkUp
  <2>1. hook' = "reset" /\ pub' = pub /\ \A p \in Publisher \ Late : pub[p].at # "write"
    BY <1>5 DEF LinkUp
  <2> QED BY <2>1 DEF MemoIsTrue, WritersClear
<1>6. CASE ShapeChange \/ UNCHANGED vars
  <2>1. UNCHANGED <<memo, legacy, link, hook, pub>>
    BY <1>6 DEF ShapeChange, vars, runtime, broker
  <2> QED BY <2>1, ClearStays
<1> QED BY <1>1, <1>2, <1>3, <1>4, <1>5, <1>6 DEF Next

\* A document appears only by a write, and only beside nothing.
LEMMA NextConflictFree ==
  Late = {} => (ClearInv /\ NoConflict /\ [Next]_vars => NoConflict')
<1> SUFFICES ASSUME Late = {}, ClearInv, NoConflict, [Next]_vars PROVE NoConflict'
  OBVIOUS
<1>h. "hook" \in Publisher /\ Reporter \subseteq Publisher
  BY DEF Publisher
<1>t. retained \in [Doc -> SUBSET Id] /\ DocsInv
  BY DEF ClearInv, DocsInv, TypeOK, Contents
<1>0. ASSUME legacy' \subseteq legacy, \A d \in Doc : retained'[d] # {} => retained[d] # {}
      PROVE  NoConflict'
  BY <1>0 DEF NoConflict
<1>1. ASSUME NEW p \in Publisher, PublishStep(p) PROVE NoConflict'
  <2>1. CASE Guard(p) \/ Mark(p)
    BY <2>1, <1>0 DEF Guard, Mark, broker
  <2>2. CASE RetractLegacy(p)
    BY <2>2, <1>0 DEF RetractLegacy
  <2>3. CASE WriteDoc(p)
    <3>1. legacy' = legacy
      BY <2>3 DEF WriteDoc
    <3>2. CASE link # "up"
      BY <2>3, <3>1, <3>2, <1>0 DEF WriteDoc
    <3>3. CASE link = "up"
      <4>1. retained' = [retained EXCEPT ![pub[p].doc] = pub[p].report[pub[p].doc]]
        BY <2>3, <3>3 DEF WriteDoc
      <4>2. pub[p].doc \notin legacy
        BY <2>3, <3>3 DEF WriteDoc, ClearInv, WritersClear
      <4> QED BY <1>t, <3>1, <4>1, <4>2 DEF NoConflict
    <3> QED BY <3>2, <3>3
  <2> QED BY <1>1, <2>1, <2>2, <2>3 DEF PublishStep
<1>2. ASSUME NEW p \in Reporter, ReportStep(p) PROVE NoConflict'
  BY <1>0, <1>1, <1>2, <1>h DEF ReportStep, BeginReport, Reconcile, broker
<1>3. CASE SweepStep
  <2>1. CASE RetractOrphans
    <3>1. legacy' = legacy
      BY <2>1 DEF RetractOrphans
    <3>2. \A d \in Doc : retained'[d] # {} => retained[d] # {}
      BY <2>1 DEF RetractOrphans
    <3> QED BY <3>1, <3>2, <1>0
  <2>2. CASE Collect \/ Judge \/ Forget
    BY <2>2, <1>0 DEF Collect, Judge, Forget, broker
  <2> QED BY <1>3, <2>1, <2>2 DEF SweepStep
<1>4. CASE HookStep
  <2>1. CASE PublishStep("hook")
    BY <2>1, <1>1, <1>h
  <2>2. CASE Reset \/ SnapshotLast \/ Reopen \/ HookDone
    BY <2>2, <1>0 DEF Reset, SnapshotLast, Reopen, HookDone, broker
  <2> QED BY <1>4, <2>1, <2>2 DEF HookStep
<1>5. CASE LinkUp
  <2>1. (legacy' = legacy /\ retained' = retained) \/ legacy' = {}
    BY <1>5 DEF LinkUp, broker
  <2> QED BY <2>1, <1>0 DEF NoConflict
<1>6. CASE ShapeChange \/ LinkFails \/ UNCHANGED vars
  BY <1>6, <1>0 DEF ShapeChange, LinkFails, vars, broker
<1> QED BY <1>2, <1>3, <1>4, <1>5, <1>6 DEF Next

\* When no publisher is overtaken inside a publish, no document is ever
\* retained beside the per-entity configs it supersedes, whatever the link, the
\* broker's store, the sweeps and the other publishers do, and without any
\* fairness: Home Assistant never sees the two together
\* (coordinator.go:457-474, discovery.go:40-54).
THEOREM NeverInConflict == ASSUME Late = {} PROVE Spec => []NoConflict
<1>1. Init => ClearInv /\ NoConflict
  BY InitTypes DEF Init, ClearInv, MemoIsTrue, WritersClear, NoConflict, PubIdle
<1>2. ClearInv /\ NoConflict /\ [Next]_vars => (ClearInv /\ NoConflict)'
  BY NextClears, NextConflictFree
<1> QED BY <1>1, <1>2, PTL DEF Spec

\* Hence none stays beside them once the link is up for good, without waiting
\* for a later report to heal it (coordinator.go:457-474, discovery.go:40-54).
THEOREM NoConflictEver == ASSUME Late = {} PROVE Spec => NoConflictStays
<1>1. Spec => []NoConflict
  BY NeverInConflict
<1> QED BY <1>1, PTL DEF NoConflict, NoConflictStays
=============================================================================
