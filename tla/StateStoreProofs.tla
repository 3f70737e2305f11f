-------------------------- MODULE StateStoreProofs --------------------------
(***************************************************************************)
(* No change of the store is lost to a browser, for any writers, watchers, *)
(* values and length of the problem log.  The argument: a watcher that is  *)
(* neither signalled nor about to be (every change puts its writer before  *)
(* its signal) has read, part by part in its order, what the store holds;  *)
(* Fresh says so at every point of the reading, not only at its end.       *)
(***************************************************************************)
EXTENDS StateStore, TLAPS

\* No signal is pending for s, and none is on its way.
Quiet(s) == ~signal[s] /\ \A w \in Writer : writer[w] # "notify"

IsView(v) ==
  v = [snapshot |-> v.snapshot, problems |-> v.problems,
       upstream |-> v.upstream, status |-> v.status]

\* What s has read so far is what the store holds.
FreshOf(s) ==
  /\ watcher[s] \in {"problems", "upstream", "status", "waiting"} =>
       view[s].snapshot = Snapshot(content)
  /\ watcher[s] \in {"upstream", "status", "waiting"} => view[s].problems = problems
  /\ watcher[s] \in {"status", "waiting"} => view[s].upstream = content.upstream
  /\ watcher[s] = "waiting" => view[s].status = Status(content.upstream, Snapshot(content))

Fresh == \A s \in Watcher : watcher[s] # "off" /\ Quiet(s) => FreshOf(s)

Shape ==
  /\ content \in Content
  /\ writer \in [Writer -> {"idle", "problem", "notify"}]
  /\ watcher \in [Watcher -> {"off", "waiting"} \cup Reading]
  /\ signal \in [Watcher -> BOOLEAN]
  /\ DOMAIN view = Watcher
  /\ view = [s \in Watcher |-> view[s]]
  /\ \A s \in Watcher : IsView(view[s])

FreshInv == Shape /\ Fresh

\* The empty store meets the invariant: nobody watches.
LEMMA InitFresh == Init => FreshInv
  BY StateStoreAssumption DEF Init, FreshInv, Shape, Fresh, FreshOf, Content, Part, Reading, IsView, Nothing

\* A read replaces one part of one view and nothing else.
LEMMA ReadShape ==
  ASSUME Shape, NEW s \in Watcher, NEW from, NEW to \in {"waiting"} \cup Reading,
         NEW k \in {"snapshot", "problems", "upstream", "status"}, NEW v,
         Read(s, from, to, k, v)
  PROVE  /\ Shape'
         /\ watcher'[s] = to /\ view'[s][k] = v
         /\ \A j \in {"snapshot", "problems", "upstream", "status"} \ {k} :
              view'[s][j] = view[s][j]
         /\ \A x \in Watcher \ {s} : watcher'[x] = watcher[x] /\ view'[x] = view[x]
  BY DEF Shape, Read, IsView, Reading

\* It leaves the other browsers alone.
LEMMA ReadsOthers ==
  ASSUME Shape, NEW s \in Watcher, NEW x \in Watcher \ {s},
         NEW from, NEW to, NEW k, NEW v, Read(s, from, to, k, v)
  PROVE  watcher'[x] = watcher[x] /\ view'[x] = view[x]
  BY DEF Shape, Read

\* Every step keeps the shape of the state.
LEMMA StepShape == FreshInv /\ [Next]_vars => Shape'
<1> SUFFICES ASSUME FreshInv, [Next]_vars PROVE Shape'
  OBVIOUS
<1> USE DEF FreshInv
<1>1. ASSUME NEW w \in Writer, NEW k \in {"report", "evcc"}, NEW v \in Value, Replace(w, k, v)
      PROVE  Shape'
  BY <1>1 DEF Shape, Replace, Content, Part
<1>2. ASSUME NEW w \in Writer, NEW k \in {"online", "upstream"}, NEW v \in BOOLEAN, Set(w, k, v)
      PROVE  Shape'
  BY <1>2 DEF Shape, Set, Content, Part
<1>3. ASSUME NEW w \in Writer, Occur(w) \/ AddProblem(w) \/ Notify(w)
      PROVE  Shape'
  BY <1>3 DEF Shape, Occur, AddProblem, Notify
<1>4. ASSUME NEW s \in Watcher, Subscribe(s) \/ Take(s)
      PROVE  Shape'
  <2>1. CASE Subscribe(s)
    BY <2>1 DEF Shape, Subscribe, Reading
  <2>2. CASE Take(s)
    <3>1. signal' \in [Watcher -> BOOLEAN] /\ watcher' \in [Watcher -> {"off", "waiting"} \cup Reading]
      BY <2>2 DEF Shape, Take, Reading
    <3> QED BY <2>2, <3>1 DEF Shape, Take
  <2> QED BY <1>4, <2>1, <2>2
<1>5. ASSUME NEW s \in Watcher, ReadSnapshot(s) \/ ReadProblems(s) \/ ReadUpstream(s) \/ ReadStatus(s)
      PROVE  Shape'
  <2>1. CASE ReadSnapshot(s)
    BY <2>1, ReadShape DEF ReadSnapshot, Reading
  <2>2. CASE ReadProblems(s)
    BY <2>2, ReadShape DEF ReadProblems, Reading
  <2>3. CASE ReadUpstream(s)
    BY <2>3, ReadShape DEF ReadUpstream, Reading
  <2>4. CASE ReadStatus(s)
    BY <2>4, ReadShape DEF ReadStatus, Reading
  <2> QED BY <1>5, <2>1, <2>2, <2>3, <2>4
<1>6. ASSUME NEW s \in Watcher, Cancel(s)
      PROVE  Shape'
  BY <1>6 DEF Shape, Cancel, IsView, Nothing
<1>7. CASE UNCHANGED vars
  BY <1>7 DEF Shape, vars
<1> QED BY <1>1, <1>2, <1>3, <1>4, <1>5, <1>6, <1>7 DEF Next

\* A read leaves the reader fresh as far as it has got: the part it read is
\* the store's, and the parts before it still are.
LEMMA ReadFresh ==
  ASSUME FreshInv, NEW s \in Watcher,
         ReadSnapshot(s) \/ ReadProblems(s) \/ ReadUpstream(s) \/ ReadStatus(s)
  PROVE  Fresh'
<1> SUFFICES ASSUME NEW x \in Watcher, watcher'[x] # "off", Quiet(x)'
             PROVE  FreshOf(x)'
  BY DEF Fresh
<1>1. Quiet(x) /\ content' = content /\ problems' = problems
  BY DEF Quiet, ReadSnapshot, ReadProblems, ReadUpstream, ReadStatus, Read
<1>2. CASE x # s
  <2>1. \E from, to, k, v : Read(s, from, to, k, v)
    BY DEF ReadSnapshot, ReadProblems, ReadUpstream, ReadStatus
  <2>2. watcher'[x] = watcher[x] /\ view'[x] = view[x]
    BY <1>2, <2>1, ReadsOthers DEF FreshInv
  <2>3. FreshOf(x)
    BY <1>1, <2>2 DEF FreshInv, Fresh
  <2> QED BY <1>1, <2>2, <2>3 DEF FreshOf, Snapshot, Status
<1>3. CASE x = s
  <2>1. watcher[s] # "off"
    BY DEF ReadSnapshot, ReadProblems, ReadUpstream, ReadStatus, Read
  <2>2. FreshOf(s)
    BY <1>1, <1>3, <2>1 DEF FreshInv, Fresh
  <2>3. CASE ReadSnapshot(s)
    <3>1. Read(s, "snapshot", "problems", "snapshot", Snapshot(content))
      BY <2>3 DEF ReadSnapshot
    <3>2. /\ watcher'[s] = "problems" /\ view'[s].snapshot = Snapshot(content)
          /\ view'[s].problems = view[s].problems /\ view'[s].upstream = view[s].upstream
          /\ view'[s].status = view[s].status /\ watcher[s] = "snapshot"
      BY <3>1 DEF FreshInv, Shape, Read, IsView
    <3> QED BY <1>1, <1>3, <2>2, <3>2 DEF FreshOf, Snapshot, Status
  <2>4. CASE ReadProblems(s)
    <3>1. Read(s, "problems", "upstream", "problems", problems)
      BY <2>4 DEF ReadProblems
    <3>2. /\ watcher'[s] = "upstream" /\ view'[s].problems = problems
          /\ view'[s].snapshot = view[s].snapshot /\ view'[s].upstream = view[s].upstream
          /\ view'[s].status = view[s].status /\ watcher[s] = "problems"
      BY <3>1 DEF FreshInv, Shape, Read, IsView
    <3> QED BY <1>1, <1>3, <2>2, <3>2 DEF FreshOf, Snapshot, Status
  <2>5. CASE ReadUpstream(s)
    <3>1. Read(s, "upstream", "status", "upstream", content.upstream)
      BY <2>5 DEF ReadUpstream
    <3>2. /\ watcher'[s] = "status" /\ view'[s].upstream = content.upstream
          /\ view'[s].snapshot = view[s].snapshot /\ view'[s].problems = view[s].problems
          /\ view'[s].status = view[s].status /\ watcher[s] = "upstream"
      BY <3>1 DEF FreshInv, Shape, Read, IsView
    <3> QED BY <1>1, <1>3, <2>2, <3>2 DEF FreshOf, Snapshot, Status
  <2>6. CASE ReadStatus(s)
    <3>1. Read(s, "status", "waiting", "status", Status(view[s].upstream, Snapshot(content)))
      BY <2>6 DEF ReadStatus
    <3>2. /\ watcher'[s] = "waiting" /\ view'[s].status = Status(view[s].upstream, Snapshot(content))
          /\ view'[s].snapshot = view[s].snapshot /\ view'[s].problems = view[s].problems
          /\ view'[s].upstream = view[s].upstream /\ watcher[s] = "status"
      BY <3>1 DEF FreshInv, Shape, Read, IsView
    <3> QED BY <1>1, <1>3, <2>2, <3>2 DEF FreshOf, Snapshot, Status
  <2> QED BY <2>3, <2>4, <2>5, <2>6
<1> QED BY <1>2, <1>3

\* Every step keeps what has been read fresh, or leaves a signal on its way.
LEMMA StepFresh == FreshInv /\ [Next]_vars => Fresh'
<1> SUFFICES ASSUME FreshInv, [Next]_vars PROVE Fresh'
  OBVIOUS
<1>1. ASSUME NEW w \in Writer, NEW k \in {"report", "evcc"}, NEW v \in Value, Replace(w, k, v)
      PROVE  Fresh'
  <2>1. writer'[w] = "notify"
    BY <1>1 DEF Replace, FreshInv, Shape
  <2> QED BY <2>1 DEF Fresh, Quiet
<1>2. ASSUME NEW w \in Writer, NEW k \in {"online", "upstream"}, NEW v \in BOOLEAN, Set(w, k, v)
      PROVE  Fresh'
  <2>1. CASE content[k] = v
    <3>1. content' = content /\ writer' = writer
      BY <1>2, <2>1 DEF Set, FreshInv, Shape, Content
    <3>2. UNCHANGED <<problems, watcher, signal, view>>
      BY <1>2 DEF Set
    <3> QED BY <3>1, <3>2 DEF FreshInv, Fresh, FreshOf, Quiet, Snapshot, Status
  <2>2. CASE content[k] # v
    <3>1. writer'[w] = "notify"
      BY <1>2, <2>2 DEF Set, FreshInv, Shape
    <3> QED BY <3>1 DEF Fresh, Quiet
  <2> QED BY <2>1, <2>2
<1>3. ASSUME NEW w \in Writer, Occur(w)
      PROVE  Fresh'
  <2>1. \A v \in Writer : writer'[v] # "notify" => writer[v] # "notify"
    BY <1>3 DEF Occur, FreshInv, Shape
  <2> QED BY <1>3, <2>1 DEF Occur, FreshInv, Fresh, FreshOf, Quiet, Snapshot, Status
<1>4. ASSUME NEW w \in Writer, AddProblem(w)
      PROVE  Fresh'
  <2>1. writer'[w] = "notify"
    BY <1>4 DEF AddProblem, FreshInv, Shape
  <2> QED BY <2>1 DEF Fresh, Quiet
<1>5. ASSUME NEW w \in Writer, Notify(w)
      PROVE  Fresh'
  <2>1. \A s \in Watcher : watcher'[s] # "off" => signal'[s]
    BY <1>5 DEF Notify, FreshInv, Shape
  <2> QED BY <2>1 DEF Fresh, Quiet
<1>6. ASSUME NEW s \in Watcher, Subscribe(s) \/ Take(s)
      PROVE  Fresh'
  <2> SUFFICES ASSUME NEW x \in Watcher, watcher'[x] # "off", Quiet(x)'
               PROVE  FreshOf(x)'
    BY DEF Fresh
  <2>1. CASE x = s
    <3>1. watcher'[x] = "snapshot"
      BY <1>6, <2>1 DEF Subscribe, Take, FreshInv, Shape
    <3> QED BY <3>1 DEF FreshOf
  <2>2. CASE x # s
    <3>1. /\ watcher'[x] = watcher[x] /\ signal'[x] = signal[x] /\ view'[x] = view[x]
          /\ content' = content /\ problems' = problems /\ writer' = writer
      BY <1>6, <2>2 DEF Subscribe, Take, FreshInv, Shape
    <3> QED BY <3>1 DEF FreshInv, Fresh, FreshOf, Quiet, Snapshot, Status
  <2> QED BY <2>1, <2>2
<1>7. ASSUME NEW s \in Watcher, ReadSnapshot(s) \/ ReadProblems(s) \/ ReadUpstream(s) \/ ReadStatus(s)
      PROVE  Fresh'
  BY <1>7, ReadFresh
<1>8. ASSUME NEW s \in Watcher, Cancel(s)
      PROVE  Fresh'
  <2> SUFFICES ASSUME NEW x \in Watcher, watcher'[x] # "off", Quiet(x)'
               PROVE  FreshOf(x)'
    BY DEF Fresh
  <2>1. /\ x # s
        /\ watcher'[x] = watcher[x] /\ signal'[x] = signal[x] /\ view'[x] = view[x]
        /\ content' = content /\ problems' = problems /\ writer' = writer
    BY <1>8 DEF Cancel, FreshInv, Shape
  <2> QED BY <2>1 DEF FreshInv, Fresh, FreshOf, Quiet, Snapshot, Status
<1>9. CASE UNCHANGED vars
  BY <1>9 DEF vars, FreshInv, Fresh, FreshOf, Quiet, Snapshot, Status
<1> QED BY <1>1, <1>2, <1>3, <1>4, <1>5, <1>6, <1>7, <1>8, <1>9 DEF Next

\* A waiting watcher that is fresh shows the store.
LEMMA FreshShows == FreshInv => NoLostChange
<1> SUFFICES ASSUME FreshInv, NEW s \in Watcher, watcher[s] = "waiting", Quiet(s)
             PROVE  view[s] = Current
  BY DEF NoLostChange, Quiet
<1>1. FreshOf(s) /\ IsView(view[s])
  BY DEF FreshInv, Fresh, Shape
<1> QED BY <1>1 DEF FreshOf, IsView, Current

\* A browser that waits, unsignalled and with no signal on its way, shows what
\* the store holds (state.go:201-229).
THEOREM NothingLost == Spec => []NoLostChange
<1>1. FreshInv /\ [Next]_vars => FreshInv'
  BY StepShape, StepFresh DEF FreshInv
<1> QED BY InitFresh, <1>1, FreshShows, PTL DEF Spec

-----------------------------------------------------------------------------
(***************************************************************************)
(* Type correctness: the log of problems in particular never outgrows its  *)
(* bound, and a watcher that is off holds nothing.                         *)
(***************************************************************************)
\* A log is a sequence of at most MaxProblems stamps.
LEMMA LogIsSeq ==
  \A log : log \in Log <=> log \in Seq(1..MaxStamp) /\ Len(log) <= MaxProblems
<1>1. ASSUME NEW n \in 0..MaxProblems, NEW log \in [1..n -> 1..MaxStamp]
      PROVE  log \in Seq(1..MaxStamp) /\ Len(log) <= MaxProblems
  BY StateStoreAssumption
<1>2. ASSUME NEW log \in Seq(1..MaxStamp), Len(log) <= MaxProblems
      PROVE  \E n \in 0..MaxProblems : log \in [1..n -> 1..MaxStamp]
  <2>1. Len(log) \in 0..MaxProblems /\ log \in [1..Len(log) -> 1..MaxStamp]
    BY <1>2, StateStoreAssumption
  <2> USE <2>1
  <2> WITNESS Len(log) \in 0..MaxProblems
  <2> QED BY <2>1
<1> QED BY <1>1, <1>2 DEF Log

LEMMA IntoLog ==
  ASSUME NEW log \in Seq(1..MaxStamp), Len(log) <= MaxProblems
  PROVE  log \in Log
  BY LogIsSeq

\* One more problem pushes the oldest out of a full log.
LEMMA RecentIsLog ==
  ASSUME NEW log \in Log, NEW t \in 1..MaxStamp
  PROVE  Recent(Append(log, t)) \in Log
<1>1. log \in Seq(1..MaxStamp) /\ Len(log) <= MaxProblems /\ Len(log) \in Nat
  BY LogIsSeq
<1>2. PICK longer : longer = Append(log, t)
  OBVIOUS
<1>3. longer \in Seq(1..MaxStamp) /\ Len(longer) = Len(log) + 1
  BY <1>1, <1>2
<1>4. CASE Len(longer) > MaxProblems
  <2>1. Tail(longer) \in Seq(1..MaxStamp) /\ Len(Tail(longer)) = Len(longer) - 1
    BY <1>1, <1>3
  <2>2. Len(Tail(longer)) <= MaxProblems
    BY <2>1, <1>1, <1>3, StateStoreAssumption
  <2>3. Tail(longer) \in Log
    BY <2>1, <2>2, IntoLog
  <2> QED BY <1>2, <1>4, <2>3 DEF Recent
<1>5. CASE ~ Len(longer) > MaxProblems
  <2>1. longer \in Log
    BY <1>1, <1>3, <1>5, IntoLog, StateStoreAssumption
  <2> QED BY <1>2, <1>5, <2>1 DEF Recent
<1> QED BY <1>4, <1>5

Parts == {"snapshot", "problems", "upstream", "status"}

LEMMA StepTypes == TypeOK /\ Shape /\ [Next]_vars => TypeOK'
<1> SUFFICES ASSUME TypeOK, Shape, [Next]_vars PROVE TypeOK'
  OBVIOUS
<1> USE StateStoreAssumption DEF TypeOK
<1>1. ASSUME NEW w \in Writer, NEW k \in {"report", "evcc"}, NEW v \in Value, Replace(w, k, v)
      PROVE  TypeOK'
  BY <1>1 DEF Replace, Content
<1>2. ASSUME NEW w \in Writer, NEW k \in {"online", "upstream"}, NEW v \in BOOLEAN, Set(w, k, v)
      PROVE  TypeOK'
  BY <1>2 DEF Set, Content
<1>3. ASSUME NEW w \in Writer, Occur(w)
      PROVE  TypeOK'
  BY <1>3 DEF Occur
<1>4. ASSUME NEW w \in Writer, AddProblem(w)
      PROVE  TypeOK'
  <2>1. stamp[w] \in 1..MaxStamp
    BY <1>4 DEF AddProblem
  <2>2. problems' \in Log
    BY <1>4, <2>1, RecentIsLog DEF AddProblem
  <2> QED BY <1>4, <2>2 DEF AddProblem
<1>5. ASSUME NEW w \in Writer, Notify(w)
      PROVE  TypeOK'
  BY <1>5 DEF Notify
<1>6. ASSUME NEW s \in Watcher, Subscribe(s) \/ Take(s)
      PROVE  TypeOK'
  BY <1>6 DEF Subscribe, Take, Reading
<1>7. ASSUME NEW s \in Watcher, NEW from \in Reading, NEW to \in {"waiting"} \cup Reading,
             NEW k \in Parts, NEW v, Read(s, from, to, k, v)
      PROVE  TypeOK'
  <2>1. \A x \in Watcher : DOMAIN view'[x] = DOMAIN view[x] /\ (x # s => view'[x] = view[x])
    BY <1>7 DEF Read, Shape
  <2> QED BY <1>7, <2>1 DEF Read, Reading
<1>8. ASSUME NEW s \in Watcher, Cancel(s)
      PROVE  TypeOK'
  BY <1>8 DEF Cancel, Shape
<1>9. CASE UNCHANGED vars
  BY <1>9 DEF vars
<1>10. ASSUME NEW s \in Watcher, ReadSnapshot(s) \/ ReadProblems(s) \/ ReadUpstream(s) \/ ReadStatus(s)
       PROVE  TypeOK'
  BY <1>7, <1>10 DEF ReadSnapshot, ReadProblems, ReadUpstream, ReadStatus, Reading, Parts
<1> QED BY <1>1, <1>2, <1>3, <1>4, <1>5, <1>6, <1>8, <1>9, <1>10 DEF Next

\* For any writers, browsers, values and bounds every variable keeps its type:
\* the problem log its length, and a browser that left holds no signal and no
\* view (state.go:146-168, 205-229).
THEOREM TypeCorrect == Spec => []TypeOK
<1>1. Init => TypeOK
  <2>1. << >> \in Log
    <3>1. << >> \in Seq(1..MaxStamp)
      OBVIOUS
    <3>2. Len(<< >>) <= MaxProblems
      BY StateStoreAssumption
    <3> QED BY <3>1, <3>2, IntoLog
  <2> QED BY <2>1, StateStoreAssumption DEF Init, TypeOK, Content, Part, Nothing
<1>2. Spec => [](TypeOK /\ FreshInv)
  <2>1. TypeOK /\ FreshInv /\ [Next]_vars => TypeOK' /\ FreshInv'
    BY StepTypes, StepShape, StepFresh DEF FreshInv
  <2> QED BY <1>1, <2>1, InitFresh, PTL DEF Spec
<1> QED BY <1>2, PTL
=============================================================================
