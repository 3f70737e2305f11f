-------------------------- MODULE MigrationProofs --------------------------
(***************************************************************************)
(* Proofs about Migration for every set of topics, units, functions and    *)
(* old items, whatever the link and the restarts do.                       *)
(***************************************************************************)
EXTENDS Migration, TLAPS

\* What an old release retained is exactly what has its shape: the topics a
\* sweep may clear.
OldItemsOnly == \A s \in Sweep, t \in Topic : Owned(s, t) => t \in OldItem

-----------------------------------------------------------------------------
(***************************************************************************)
(* Types.                                                                  *)
(***************************************************************************)
LEMMA InstanceSweeps == Instance \in Sweep /\ Unit \subseteq Sweep
BY DEF Sweep

LEMMA StartedType ==
  /\ Started \in [Sweep -> {"idle", "start", "window", "clear"}]
  /\ \A s \in Sweep : Started[s] # "idle" => s = Instance
  /\ \A s \in Sweep : Started[s] \in {"idle", "start"}
BY DEF Started

\* Every variable has its type, a sweep under way has its mark, and only a sweep
\* that listened has found anything.
THEOREM TypeCorrect == Spec => []TypeOK
<1>1. Init => TypeOK
  BY InstanceSweeps, StartedType DEF Init, TypeOK
<1>2. TypeOK /\ [Next]_vars => TypeOK'
  <2> SUFFICES ASSUME TypeOK, [Next]_vars PROVE TypeOK'
    OBVIOUS
  <2> USE InstanceSweeps
  <2>1. ASSUME NEW u \in Unit, MigrateDevice(u) PROVE TypeOK'
    BY <2>1 DEF MigrateDevice, TypeOK
  <2>2. ASSUME NEW s \in Sweep, Subscribe(s) PROVE TypeOK'
    BY <2>2 DEF Subscribe, TypeOK
  <2>3. ASSUME NEW s \in Sweep, NEW t \in Topic, Collect(s, t) PROVE TypeOK'
    BY <2>3 DEF Collect, TypeOK
  <2>4. ASSUME NEW s \in Sweep, Close(s) PROVE TypeOK'
    BY <2>4 DEF Close, TypeOK
  <2>5. ASSUME NEW s \in Sweep, NEW t \in Topic, Clear(s, t) PROVE TypeOK'
    BY <2>5 DEF Clear, TypeOK
  <2>6. ASSUME NEW s \in Sweep, Done(s) PROVE TypeOK'
    BY <2>6 DEF Done, TypeOK
  <2>7. ASSUME NEW s \in Sweep, Fail(s) PROVE TypeOK'
    BY <2>7 DEF Fail, TypeOK
  <2>8. ASSUME LinkFails PROVE TypeOK'
    BY <2>8 DEF LinkFails, TypeOK
  <2>9. ASSUME LinkUp PROVE TypeOK'
    BY <2>9 DEF LinkUp, TypeOK
  <2>10. ASSUME Restart PROVE TypeOK'
    BY <2>10, StartedType, MigrationAssumption DEF Restart, TypeOK
  <2>11. CASE UNCHANGED vars
    BY <2>11 DEF vars, TypeOK
  <2> QED
    BY <2>1, <2>2, <2>3, <2>4, <2>5, <2>6, <2>7, <2>8, <2>9, <2>10, <2>11 DEF Next
<1> QED
  BY <1>1, <1>2, PTL DEF Spec

-----------------------------------------------------------------------------
(***************************************************************************)
(* Nothing foreign is cleared.                                             *)
(***************************************************************************)
\* A sweep has found nothing but what its filter owns.
FoundOwned == \A s \in Sweep : \A t \in found[s] : t \in Topic /\ Owned(s, t)

LEMMA OwnedInductive ==
  ASSUME TypeOK, FoundOwned, [Next]_vars
  PROVE  FoundOwned'
<1>1. ASSUME NEW s \in Sweep, NEW t \in Topic, Collect(s, t) PROVE FoundOwned'
  BY <1>1 DEF Collect, FoundOwned, TypeOK
<1>2. ASSUME NEW s \in Sweep, NEW t \in Topic, Clear(s, t) PROVE FoundOwned'
  BY <1>2 DEF Clear, FoundOwned, TypeOK
<1>3. ASSUME NEW s \in Sweep, Fail(s) PROVE FoundOwned'
  BY <1>3 DEF Fail, FoundOwned, TypeOK
<1>4. ASSUME Restart PROVE FoundOwned'
  BY <1>4 DEF Restart, FoundOwned
<1>5. CASE UNCHANGED found
  BY <1>5 DEF FoundOwned
<1> QED
  BY <1>1, <1>2, <1>3, <1>4, <1>5
  DEF Next, vars, MigrateDevice, Subscribe, Close, Done, LinkFails, LinkUp

\* Where only an old release's topics have the old shapes below a unit of this
\* bridge, nothing but what it retained is ever cleared, whatever fails
\* (migrate.go:26-36).
THEOREM ForeignKept == ASSUME OldItemsOnly PROVE Spec => []ForeignStays
<1>1. Init => FoundOwned /\ ForeignStays
  BY DEF Init, FoundOwned, ForeignStays
<1>2. TypeOK /\ FoundOwned /\ ForeignStays /\ [Next]_vars => (FoundOwned /\ ForeignStays)'
  <2> SUFFICES ASSUME TypeOK, FoundOwned, ForeignStays, [Next]_vars PROVE ForeignStays'
    BY OwnedInductive
  <2>1. ASSUME NEW s \in Sweep, NEW t \in Topic, Clear(s, t) PROVE ForeignStays'
    <3>1. t \in OldItem
      BY <2>1, OldItemsOnly DEF Clear, FoundOwned, OldItemsOnly
    <3> QED
      BY <2>1, <3>1 DEF Clear, ForeignStays
  <2>2. ASSUME Restart PROVE ForeignStays'
    BY <2>2 DEF Restart, ForeignStays
  <2>3. CASE UNCHANGED retained
    BY <2>3 DEF ForeignStays
  <2> QED
    BY <2>1, <2>2, <2>3
    DEF Next, vars, MigrateDevice, Subscribe, Collect, Close, Done, Fail, LinkFails, LinkUp
<1> QED
  BY <1>1, <1>2, TypeCorrect, PTL DEF Spec

-----------------------------------------------------------------------------
(***************************************************************************)
(* A sweep that counts as done left nothing.                               *)
(***************************************************************************)
\* Once a unit's window closed, what it owns of the retained topics is found;
\* once it is done there is none.
SweepClean ==
  \A u \in Unit :
    /\ at[u] = "clear" => \A t \in retained : Owned(u, t) => t \in found[u]
    /\ u \in migrated /\ at[u] = "idle" => \A t \in retained : ~Owned(u, t)
    /\ at[u] = "window" => link = "up"

DoneInv == link \in {"up", "down"} /\ SweepClean

LEMMA CleanInductive ==
  ASSUME ~DropInWindow, ~LoseWrites, TypeOK, DoneInv, [Next]_vars
  PROVE  DoneInv'
<1> USE MigrationAssumption, InstanceSweeps
<1>1. ASSUME NEW u \in Unit, MigrateDevice(u) PROVE DoneInv'
  BY <1>1 DEF MigrateDevice, DoneInv, SweepClean, TypeOK
<1>2. ASSUME NEW s \in Sweep, Subscribe(s) PROVE DoneInv'
  BY <1>2 DEF Subscribe, DoneInv, SweepClean, TypeOK
<1>3. ASSUME NEW s \in Sweep, NEW t \in Topic, Collect(s, t) PROVE DoneInv'
  BY <1>3 DEF Collect, DoneInv, SweepClean, TypeOK
<1>4. ASSUME NEW s \in Sweep, Close(s) PROVE DoneInv'
  BY <1>4 DEF Close, DoneInv, SweepClean, TypeOK
<1>5. ASSUME NEW s \in Sweep, NEW t \in Topic, Clear(s, t) PROVE DoneInv'
  BY <1>5 DEF Clear, DoneInv, SweepClean, TypeOK
<1>6. ASSUME NEW s \in Sweep, Done(s) PROVE DoneInv'
  BY <1>6 DEF Done, DoneInv, SweepClean, TypeOK
<1>7. ASSUME NEW s \in Sweep, Fail(s) PROVE DoneInv'
  BY <1>7 DEF Fail, DoneInv, SweepClean, TypeOK
<1>8. ASSUME LinkFails PROVE DoneInv'
  BY <1>8 DEF LinkFails, DoneInv, SweepClean, TypeOK
<1>9. ASSUME LinkUp PROVE DoneInv'
  BY <1>9 DEF LinkUp, DoneInv, SweepClean, TypeOK
<1>10. ASSUME Restart PROVE DoneInv'
  BY <1>10, StartedType DEF Restart, DoneInv, SweepClean, TypeOK, Started
<1>11. CASE UNCHANGED vars
  BY <1>11 DEF vars, DoneInv, SweepClean
<1> QED
  BY <1>1, <1>2, <1>3, <1>4, <1>5, <1>6, <1>7, <1>8, <1>9, <1>10, <1>11 DEF Next

\* What an old release retained of a unit is recognised by the unit's sweep.
OldItemsOwned == \A u \in Unit, t \in OldItem : t[1] = u => Owned(u, t)

\* With a link that does not fail while a sweep listens and loses no write it
\* took, a unit whose sweep counts as done has nothing of the old layout left,
\* whatever subscription or write failed before (migrate.go:87-101).
THEOREM DoneCorrect ==
  ASSUME ~DropInWindow, ~LoseWrites, OldItemsOwned
  PROVE  Spec => []DoneIsClean
<1>1. Init => DoneInv
  BY MigrationAssumption DEF Init, DoneInv, SweepClean, Started, Sweep
<1>2. TypeOK /\ DoneInv /\ [Next]_vars => DoneInv'
  BY CleanInductive
<1>3. DoneInv => DoneIsClean
  BY MigrationAssumption DEF DoneInv, SweepClean, DoneIsClean, OldItemOf, OldItemsOwned
<1> QED
  BY <1>1, <1>2, <1>3, TypeCorrect, PTL DEF Spec
=============================================================================
