--------------------------- MODULE SetPathProofs ---------------------------
(***************************************************************************)
(* What a set writes stays within the catalog's bounds, for any catalog,   *)
(* requests, re-reads and outcomes: clamping happens in display units, the *)
(* write inverts the scaling and rounds, and with whole bounds the rounding *)
(* never steps over one.                                                   *)
(***************************************************************************)
EXTENDS SetPath, TLAPS

\* The numbers a unit with these properties shows are within their bounds.
Fits(d) ==
  \A t \in DOMAIN Entry :
    ~IsEnum(Entry[t]) => Display(Entry[t], d[Entry[t].prop]).number \in Entry[t].min..Entry[t].max

\* A set of properties to write: integers, or text the unit does not take.
IsWrite(props) ==
  /\ DOMAIN props \subseteq Prop
  /\ \A k \in DOMAIN props : props[k] # Text => props[k] \in Int

\* The numbers among them are within the bounds of their entries.
WriteFits(props) ==
  \A t \in DOMAIN Entry :
    LET e == Entry[t] IN
    ~IsEnum(e) /\ e.prop \in DOMAIN props /\ props[e.prop] # Text
      => Display(e, props[e.prop]).number \in e.min..e.max

SetInv == TypeOK /\ IsWrite(pending)
BoundsInv == SetInv /\ Fits(dev) /\ WriteFits(pending)

-----------------------------------------------------------------------------
(***************************************************************************)
(* Numbers.                                                                *)
(***************************************************************************)
LEMMA RoundTen ==
  ASSUME NEW n \in Int
  PROVE  /\ Round(n, 10) \in Int
         /\ 10 * Round(n, 10) <= n + 5 /\ n - 5 <= 10 * Round(n, 10)
         /\ Round(10 * n, 10) = n
  BY DEF Round

\* Rounding does not step over a whole bound.
LEMMA RoundKeepsBounds ==
  ASSUME NEW n \in Int, NEW lo \in Int, NEW hi \in Int,
         lo % 10 = 0, hi % 10 = 0, n \in lo..hi
  PROVE  10 * Round(n, 10) \in lo..hi
<1>1. PICK a \in Int : lo = 10 * a
  BY Z3
<1>2. PICK b \in Int : hi = 10 * b
  BY Z3
<1>3. PICK r \in Int : r = Round(n, 10) /\ 10 * r <= n + 5 /\ n - 5 <= 10 * r
  BY RoundTen
<1>4. CASE n >= 0
  BY <1>1, <1>2, <1>4 DEF Round
<1>5. CASE n < 0
  BY <1>1, <1>2, <1>5 DEF Round
<1> QED BY <1>4, <1>5

LEMMA ClampWithin ==
  ASSUME NEW t \in Int, NEW lo \in Int, NEW hi \in Int, lo <= hi
  PROVE  Clamp(t, lo, hi) \in lo..hi
  BY DEF Clamp

\* decodeCommand's number is an integer that shows within its entry's bounds.
LEMMA RawFits ==
  ASSUME NEW t \in DOMAIN Entry, ~IsEnum(Entry[t]), NEW n \in Int
  PROVE  /\ Raw(Entry[t], n) \in Int
         /\ Display(Entry[t], Raw(Entry[t], n)).number \in Entry[t].min..Entry[t].max
<1> DEFINE e == Entry[t]
<1>1. /\ e.min \in Int /\ e.max \in Int /\ e.min <= e.max
      /\ e.min % 10 = 0 /\ e.max % 10 = 0 /\ e.scale \in {1, 10}
  BY SetItemAssumption
<1>2. PICK c \in e.min..e.max : c = Clamp(n, e.min, e.max)
  BY <1>1, ClampWithin
<1>3. c \in Int
  BY <1>1, <1>2
<1>4. CASE e.scale = 10
  <2>1. Raw(e, n) = c
    BY <1>2, <1>3, <1>4, RoundTen DEF Raw
  <2>2. (c * 10) \div 10 = c
    BY <1>3
  <2>3. Display(e, c).number = (c * 10) \div 10
    BY <1>4 DEF Display
  <2> QED BY <1>2, <1>3, <2>1, <2>2, <2>3
<1>5. CASE e.scale = 1
  <2>1. Raw(e, n) = Round(c, 10)
    BY <1>2, <1>3, <1>5 DEF Raw
  <2>2. PICK r \in Int : r = Round(c, 10) /\ 10 * r \in e.min..e.max
    BY <1>1, <1>2, <1>3, RoundTen, RoundKeepsBounds
  <2>3. Display(e, r).number = (r * 10) \div 1
    BY <1>5 DEF Display
  <2>4. (r * 10) \div 1 = 10 * r
    BY <2>2
  <2> QED BY <2>1, <2>2, <2>3, <2>4
<1> QED BY <1>1, <1>4, <1>5

\* The parts of the assumption the switches need.
LEMMA SwitchFacts ==
  /\ \A t \in Switch : Watts[t] \in 1..2400
  /\ \A t \in Switch : Watts[t] \in Int
  /\ Text \notin Int
  /\ \A t \in Switch : t \notin DOMAIN Entry
<1>1. Watts \in [Switch -> 1..2400]
  BY SetItemAssumption
<1>2. \A t \in Switch : Watts[t] \in 1..2400
  BY <1>1
<1>3. ASSUME NEW t \in Switch PROVE Watts[t] \in Int
  <2>1. PICK w : w \in 1..2400 /\ w = Watts[t]
    BY <1>2
  <2>2. w \in Int
    BY <2>1
  <2> QED BY <2>1, <2>2
<1>4. Text \notin Int
  BY SetItemAssumption
<1>5. Switch \cap DOMAIN Entry = {}
  BY SetItemAssumption
<1>6. ASSUME NEW t \in Switch PROVE t \notin DOMAIN Entry
  BY <1>5
<1> QED BY <1>2, <1>3, <1>4, <1>6

-----------------------------------------------------------------------------
(***************************************************************************)
(* Payloads.                                                               *)
(***************************************************************************)
LEMMA RefusedFits == IsWrite(Refused) /\ WriteFits(Refused)
  BY DEF Refused, IsWrite, WriteFits

\* One property of an entry that fits, or text.
LEMMA OneFits ==
  ASSUME NEW t \in DOMAIN Entry, NEW v,
         v # Text => v \in Int,
         ~IsEnum(Entry[t]) /\ v # Text =>
           Display(Entry[t], v).number \in Entry[t].min..Entry[t].max
  PROVE  IsWrite(Only(Entry[t].prop, v)) /\ WriteFits(Only(Entry[t].prop, v))
<1>1. DOMAIN Only(Entry[t].prop, v) = {Entry[t].prop} /\ Only(Entry[t].prop, v)[Entry[t].prop] = v
  BY DEF Only
<1>2. \A u \in DOMAIN Entry : Entry[u].prop = Entry[t].prop => u = t
  BY SetItemAssumption
<1> QED BY <1>1, <1>2 DEF IsWrite, WriteFits, Prop

LEMMA SwitchFits ==
  ASSUME NEW t \in Switch, NEW on \in BOOLEAN
  PROVE  IsWrite(WriteProps(t, on)) /\ WriteFits(WriteProps(t, on))
<1>1. /\ DOMAIN WriteProps(t, on) = {"inputLimit", "outputLimit", "smartMode", "acMode"}
      /\ \A k \in DOMAIN WriteProps(t, on) : WriteProps(t, on)[k] \in Int
  <2>1. AcMode[t] \in Int
    BY DEF Switch, AcMode
  <2>2. Watts[t] \in Int
    BY SwitchFacts
  <2> QED BY <2>1, <2>2 DEF WriteProps
<1>2. DOMAIN WriteProps("charge_active", TRUE) = {"inputLimit", "outputLimit", "smartMode", "acMode"}
  BY DEF WriteProps
<1>3. ASSUME NEW u \in DOMAIN Entry, ~IsEnum(Entry[u]), Entry[u].prop \in DOMAIN WriteProps(t, on)
      PROVE  Display(Entry[u], WriteProps(t, on)[Entry[u].prop]).number \in Entry[u].min..Entry[u].max
  <2>1. PICK w \in Int : w = WriteProps(t, on)[Entry[u].prop]
    BY <1>1, <1>3
  <2>2. Entry[u].scale = 1 /\ 10 * w \in Entry[u].min..Entry[u].max
    BY <1>3, <2>1, SetItemAssumption
  <2>3. Display(Entry[u], w).number = (w * 10) \div 1
    BY <1>3, <2>2 DEF Display
  <2>4. (w * 10) \div 1 = 10 * w
    BY <2>1
  <2> QED BY <2>1, <2>2, <2>3, <2>4
<1> QED BY <1>1, <1>2, <1>3 DEF IsWrite, WriteFits, Prop

\* Whatever is set, what is written are integers within bounds, or text.
LEMMA SetPropsFit ==
  ASSUME NEW t, NEW p, IsNumber(p) => p.number \in Int
  PROVE  IsWrite(SetProps(t, p)) /\ WriteFits(SetProps(t, p))
<1>1. CASE t \notin Leaf
  BY <1>1, RefusedFits DEF SetProps
<1>2. CASE t \in Switch
  BY <1>2, RefusedFits, SwitchFits DEF SetProps, SwitchProps, Leaf
<1>3. ASSUME t \in DOMAIN Entry, t \notin Switch, IsEnum(Entry[t])
      PROVE  IsWrite(SetProps(t, p)) /\ WriteFits(SetProps(t, p))
  <2> DEFINE e == Entry[t]
  <2>0. SetProps(t, p) = EnumProps(e, p)
    BY <1>3 DEF SetProps, Leaf
  <2>1. CASE IsNumber(p)
    <3>1. Round(p.number, 10) \in Int
      BY <2>1, RoundTen
    <3>2. EnumProps(e, p) = Only(e.prop, Round(p.number, 10))
      BY <2>1 DEF EnumProps
    <3> QED BY <1>3, <2>0, <3>1, <3>2, OneFits
  <2>2. CASE ~IsNumber(p) /\ IsWord(p) /\ \E c \in DOMAIN e.token : p.word \in Words(e, c)
    <3>1. PICK c : c = CHOOSE x \in DOMAIN e.token : p.word \in Words(e, x)
      OBVIOUS
    <3>2. c \in Int
      BY <1>3, <2>2, <3>1, SetItemAssumption
    <3>3. EnumProps(e, p) = Only(e.prop, c)
      BY <2>2, <3>1 DEF EnumProps
    <3> QED BY <1>3, <2>0, <3>2, <3>3, OneFits
  <2>3. CASE ~IsNumber(p) /\ ~(IsWord(p) /\ \E c \in DOMAIN e.token : p.word \in Words(e, c))
    BY <2>0, <2>3, RefusedFits DEF EnumProps
  <2> QED BY <2>1, <2>2, <2>3
<1>4. ASSUME t \in DOMAIN Entry, t \notin Switch, ~IsEnum(Entry[t])
      PROVE  IsWrite(SetProps(t, p)) /\ WriteFits(SetProps(t, p))
  <2> DEFINE e == Entry[t]
  <2>0. SetProps(t, p) = NumberProps(e, p)
    BY <1>4 DEF SetProps, Leaf
  <2>1. CASE IsNumber(p)
    <3>1. /\ Raw(e, p.number) \in Int
          /\ Display(e, Raw(e, p.number)).number \in e.min..e.max
      BY <1>4, <2>1, RawFits
    <3>2. NumberProps(e, p) = Only(e.prop, Raw(e, p.number))
      BY <2>1 DEF NumberProps
    <3> QED BY <1>4, <2>0, <3>1, <3>2, OneFits
  <2>2. CASE ~IsNumber(p) /\ IsWord(p)
    <3>1. NumberProps(e, p) = Only(e.prop, Text)
      BY <2>2 DEF NumberProps
    <3> QED BY <1>4, <2>0, <3>1, OneFits
  <2>3. CASE ~IsNumber(p) /\ ~IsWord(p)
    BY <2>0, <2>3, RefusedFits DEF NumberProps
  <2> QED BY <2>1, <2>2, <2>3
<1> QED BY <1>1, <1>2, <1>3, <1>4 DEF Leaf

-----------------------------------------------------------------------------
(***************************************************************************)
(* The unit.                                                               *)
(***************************************************************************)
LEMMA TakingFits ==
  ASSUME dev \in [Prop -> Int], NEW props, IsWrite(props)
  PROVE  /\ Taking(props) \in [Prop -> Int]
         /\ Fits(dev) /\ WriteFits(props) => Fits(Taking(props))
<1>1. Taking(props) \in [Prop -> Int]
  BY DEF Taking, IsWrite
<1>2. ASSUME Fits(dev), WriteFits(props), NEW t \in DOMAIN Entry, ~IsEnum(Entry[t])
      PROVE  Display(Entry[t], Taking(props)[Entry[t].prop]).number \in Entry[t].min..Entry[t].max
  <2>1. Entry[t].prop \in Prop
    BY DEF Prop
  <2>2. CASE Entry[t].prop \in DOMAIN props /\ props[Entry[t].prop] # Text
    <3>1. Taking(props)[Entry[t].prop] = props[Entry[t].prop]
      BY <2>1, <2>2 DEF Taking
    <3> QED BY <1>2, <2>2, <3>1 DEF WriteFits
  <2>3. CASE ~(Entry[t].prop \in DOMAIN props /\ props[Entry[t].prop] # Text)
    <3>1. Taking(props)[Entry[t].prop] = dev[Entry[t].prop]
      BY <2>1, <2>3 DEF Taking
    <3> QED BY <1>2, <3>1 DEF Fits
  <2> QED BY <2>2, <2>3
<1> QED BY <1>1, <1>2 DEF Fits

\* A write the unit takes later, over those it has not taken yet.
LEMMA PendingFits ==
  ASSUME NEW f, NEW g, IsWrite(f), IsWrite(g)
  PROVE  IsWrite(Over(f, g)) /\ (WriteFits(f) /\ WriteFits(g) => WriteFits(Over(f, g)))
  BY DEF IsWrite, WriteFits, Over

-----------------------------------------------------------------------------
(***************************************************************************)
(* The steps.                                                              *)
(***************************************************************************)
\* What a set hands to the unit fits it, whatever becomes of the write.
LEMMA ApplyKeeps ==
  ASSUME SetInv, NEW q \in Request, ApplySet(q[1], q[2])
  PROVE  /\ SetInv'
         /\ BoundsInv => BoundsInv'
<1> DEFINE props == SetProps(q[1], q[2])
<1>1. IsWrite(props) /\ WriteFits(props)
  BY SetPathAssumption, SetPropsFit
<1>2. dev' \in [Prop -> Int] /\ (Fits(dev) => Fits(dev'))
  <2>1. dev' \in {dev, Taking(props)}
    BY DEF ApplySet, Write, unit
  <2> QED BY <1>1, <2>1, TakingFits DEF SetInv, TypeOK
<1>3. IsWrite(pending') /\ (WriteFits(pending) => WriteFits(pending'))
  <2>1. pending' \in {pending, Over(props, pending)}
    BY DEF ApplySet, Write, unit
  <2> QED BY <1>1, <2>1, PendingFits DEF SetInv
<1>4. UNCHANGED <<known, report, left, status>>
  BY DEF ApplySet, Write, ReReadSoon, readers
<1>5. \/ at' = at
      \/ \E r \in ReRead : at[r] = "idle" /\ at' = [at EXCEPT ![r] = "due"]
  BY DEF ApplySet, Write, ReReadSoon, readers
<1>6. TypeOK'
  BY <1>2, <1>3, <1>4, <1>5 DEF SetInv, TypeOK, Reader, IsWrite
<1> QED BY <1>2, <1>3, <1>6 DEF SetInv, BoundsInv, Fits

\* The unit takes what it accepted.
LEMMA TakeKeeps ==
  ASSUME SetInv, Take
  PROVE  SetInv' /\ (BoundsInv => BoundsInv')
<1>1. dev' \in [Prop -> Int] /\ (Fits(dev) /\ WriteFits(pending) => Fits(dev'))
  BY TakingFits DEF Take, SetInv, TypeOK
<1>2. IsWrite(pending') /\ WriteFits(pending')
  BY RefusedFits DEF Take, Nothing
<1> QED BY <1>1, <1>2 DEF Take, SetInv, BoundsInv, TypeOK, IsWrite, readers, Fits

\* Readers and publications leave the unit alone.
LEMMA ReadKeeps ==
  ASSUME SetInv, UNCHANGED unit, TypeOK'
  PROVE  SetInv' /\ (BoundsInv => BoundsInv')
  BY DEF unit, SetInv, BoundsInv, Fits

LEMMA FetchTypes ==
  ASSUME TypeOK, NEW r \in Reader, at[r] \in {"idle", "due"}, FetchReport(r),
         UNCHANGED unit, known' \in BOOLEAN
  PROVE  TypeOK'
<1>1. Points = Leaf /\ Leaf # {}
  BY DEF Points, Leaf, Switch
<1>2. left[r] = {}
  BY DEF TypeOK
<1>3. CASE r \in Late
  BY <1>1, <1>3 DEF FetchReport, TypeOK, unit
<1>4. CASE r \notin Late
  BY <1>2, <1>4 DEF FetchReport, TypeOK, unit
<1> QED BY <1>3, <1>4

LEMMA StepKeeps ==
  ASSUME SetInv, [Next]_vars
  PROVE  SetInv' /\ (BoundsInv => BoundsInv')
<1>1. ASSUME NEW q \in Request, ApplySet(q[1], q[2])
      PROVE  SetInv' /\ (BoundsInv => BoundsInv')
  BY <1>1, ApplyKeeps
<1>2. CASE Take
  BY <1>2, TakeKeeps
<1>3. CASE Poll
  <2>1. TypeOK'
    BY <1>3, FetchTypes DEF Poll, SetInv, Reader
  <2> QED BY <1>3, <2>1, ReadKeeps DEF Poll
<1>4. ASSUME NEW r \in ReRead, ReReadNow(r)
      PROVE  SetInv' /\ (BoundsInv => BoundsInv')
  <2>1. r \in Reader /\ known' \in BOOLEAN
    BY <1>4 DEF ReReadNow, Reader, SetInv, TypeOK
  <2>2. TypeOK'
    BY <1>4, <2>1, FetchTypes DEF ReReadNow, SetInv
  <2> QED BY <1>4, <2>2, ReadKeeps DEF ReReadNow
<1>5. ASSUME NEW r \in ReRead, ReReadFails(r)
      PROVE  SetInv' /\ (BoundsInv => BoundsInv')
  <2>1. TypeOK'
    BY <1>5 DEF ReReadFails, SetInv, TypeOK, Reader, unit
  <2> QED BY <1>5, <2>1, ReadKeeps DEF ReReadFails
<1>6. ASSUME NEW r \in Reader, NEW t \in Leaf, PublishState(r, t)
      PROVE  SetInv' /\ (BoundsInv => BoundsInv')
  <2>1. left' = [left EXCEPT ![r] = @ \ {t}] /\ at[r] = "publishing"
    BY <1>6 DEF PublishState, SetInv, TypeOK
  <2>2. CASE left'[r] = {}
    BY <1>6, <2>1, <2>2, ReadKeeps DEF PublishState, SetInv, TypeOK, unit
  <2>3. CASE left'[r] # {}
    BY <1>6, <2>1, <2>3, ReadKeeps DEF PublishState, SetInv, TypeOK, unit
  <2> QED BY <2>2, <2>3
<1>7. CASE UNCHANGED vars
  <2>1. TypeOK'
    BY <1>7 DEF vars, unit, readers, SetInv, TypeOK
  <2> QED BY <1>7, <2>1, ReadKeeps DEF vars, unit
<1> QED BY <1>1, <1>2, <1>3, <1>4, <1>5, <1>6, <1>7 DEF Next

LEMMA InitKeeps == Init => SetInv
  BY SetPathAssumption, RefusedFits DEF Init, SetInv, TypeOK, Nothing, Refused

\* For any catalog of its kind, requests, re-reads and outcomes every variable
\* keeps its type: whatever is set, the unit's properties stay integers, and a
\* reader publishes exactly as long as a status is left (coordinator.go:653-676,
\* 909-934).
THEOREM TypeCorrect == Spec => []TypeOK
<1>1. Spec => []SetInv
  BY InitKeeps, StepKeeps, PTL DEF Spec
<1>2. SetInv => TypeOK
  BY DEF SetInv
<1> QED BY <1>1, <1>2, PTL

\* A unit that starts within the bounds of the catalog stays there whatever is
\* set and whatever becomes of the writes: clamping, scaling and rounding
\* together step over no bound, nor do the switches (coordinator.go:1118-1145,
\* validate.go:58-66).
THEOREM BoundsHold ==
  ASSUME \A d \in InitDev : Fits(d)
  PROVE  Spec => []WrittenStaysInBounds
<1>1. Init => BoundsInv
  BY InitKeeps, RefusedFits DEF Init, BoundsInv, Nothing
<1>2. BoundsInv /\ [Next]_vars => BoundsInv'
  BY StepKeeps DEF BoundsInv
<1>3. BoundsInv => WrittenStaysInBounds
  BY DEF BoundsInv, Fits, WrittenStaysInBounds
<1> QED BY <1>1, <1>2, <1>3, PTL DEF Spec

-----------------------------------------------------------------------------
(***************************************************************************)
(* Setting what is shown.                                                  *)
(***************************************************************************)
\* Writing inverts reading for a number within its bounds.
LEMMA NumberInverts ==
  ASSUME NEW t \in DOMAIN Entry, ~IsEnum(Entry[t]), NEW raw \in Int,
         Display(Entry[t], raw).number \in Entry[t].min..Entry[t].max
  PROVE  SetProps(t, Display(Entry[t], raw)) = Only(Entry[t].prop, raw)
<1> DEFINE e == Entry[t]
           n == (raw * 10) \div e.scale
<1>1. e.scale \in {1, 10} /\ e.min \in Int /\ e.max \in Int
  BY SetItemAssumption
<1>2. Display(e, raw) = [number |-> n]
  BY DEF Display
<1>3. n \in e.min..e.max /\ n \in Int
  BY <1>1, <1>2
<1>4. Clamp(n, e.min, e.max) = n
  BY <1>1, <1>3 DEF Clamp
<1>5. Raw(e, n) = raw
  <2>1. CASE e.scale = 10
    <3>1. n = raw
      BY <2>1
    <3> QED BY <1>4, <2>1, <3>1, RoundTen DEF Raw
  <2>2. CASE e.scale = 1
    <3>1. n = 10 * raw
      BY <2>2
    <3>2. n * e.scale = 10 * raw
      BY <2>2, <3>1
    <3> QED BY <1>4, <3>2, RoundTen DEF Raw
  <2> QED BY <1>1, <2>1, <2>2
<1>6. t \in Leaf /\ t \notin Switch
  BY SetItemAssumption DEF Leaf
<1>7. SetProps(t, [number |-> n]) = NumberProps(e, [number |-> n])
  BY <1>6 DEF SetProps
<1> QED BY <1>2, <1>5, <1>7 DEF NumberProps, IsNumber

\* A code no token names is shown and set as it is.
LEMMA BareCodeInverts ==
  ASSUME NEW t \in DOMAIN Entry, IsEnum(Entry[t]), NEW raw \in Int,
         raw \notin DOMAIN Entry[t].token
  PROVE  SetProps(t, Display(Entry[t], raw)) = Only(Entry[t].prop, raw)
<1>1. Display(Entry[t], raw) = [number |-> 10 * raw]
  BY DEF Display
<1>2. t \in Leaf /\ t \notin Switch
  BY SetItemAssumption DEF Leaf
<1>3. Round(10 * raw, 10) = raw
  BY RoundTen
<1> QED BY <1>1, <1>2, <1>3 DEF SetProps, EnumProps, IsNumber

\* Any word of a code sets that code.
LEMMA WordInverts ==
  ASSUME NEW t \in DOMAIN Entry, IsEnum(Entry[t]), NEW c \in DOMAIN Entry[t].token,
         NEW w \in Words(Entry[t], c)
  PROVE  SetProps(t, [word |-> w]) = Only(Entry[t].prop, c)
<1> DEFINE e == Entry[t]
<1>1. t \in Leaf /\ t \notin Switch
  BY SetItemAssumption DEF Leaf
<1>2. \A d \in DOMAIN e.token : w \in Words(e, d) => d = c
  BY SetItemAssumption
<1>3. (CHOOSE d \in DOMAIN e.token : w \in Words(e, d)) = c
  BY <1>2
<1>4. EnumProps(e, [word |-> w]) = Only(e.prop, CHOOSE d \in DOMAIN e.token : w \in Words(e, d))
  BY DEF EnumProps, IsNumber, IsWord
<1>5. SetProps(t, [word |-> w]) = EnumProps(e, [word |-> w])
  BY <1>1 DEF SetProps
<1> QED BY <1>3, <1>4, <1>5

\* The status of a known code and the options shown for it are words of it.
LEMMA OptionIsWord ==
  ASSUME NEW t \in DOMAIN Entry, IsEnum(Entry[t]), NEW c \in DOMAIN Entry[t].token, NEW lang \in Lang
  PROVE  /\ Entry[t].token[c] \in Words(Entry[t], c)
         /\ Option(Entry[t], [word |-> Entry[t].token[c]], lang) = [word |-> Label(Entry[t], c, lang)]
         /\ Label(Entry[t], c, lang) \in Words(Entry[t], c)
<1> DEFINE e == Entry[t]
<1>1. \A d \in DOMAIN e.token : e.token[d] \in Words(e, d)
  <2> SUFFICES ASSUME NEW d \in DOMAIN e.token PROVE e.token[d] \in Words(e, d)
    OBVIOUS
  <2>1. Label(e, d, "en") = e.token[d]
    BY DEF Label
  <2> QED BY <2>1 DEF Words, Lang
<1>2. \A d \in DOMAIN e.token : e.token[d] = e.token[c] => d = c
  BY <1>1, SetItemAssumption
<1>3. (CHOOSE d \in DOMAIN e.token : e.token[d] = e.token[c]) = c
  BY <1>2
<1>4. Option(e, [word |-> e.token[c]], lang)
        = [word |-> Label(e, CHOOSE d \in DOMAIN e.token : e.token[d] = e.token[c], lang)]
  BY DEF Option
<1> QED BY <1>1, <1>3, <1>4 DEF Words

\* What an entry shows, its options included, sets the code that shows it.
LEMMA EntryKeeps ==
  ASSUME SetInv, Fits(dev), NEW t \in DOMAIN Entry, NEW p \in ShownAs(t)
  PROVE  SetProps(t, p) = Only(Entry[t].prop, dev[Entry[t].prop])
<1> DEFINE e == Entry[t]
           raw == dev[e.prop]
<1>1. raw \in Int
  BY DEF SetInv, TypeOK, Prop
<1>2. Shown(t, dev) = Display(e, raw)
  BY SetItemAssumption DEF Shown
<1>3. CASE ~IsEnum(e)
  <2>1. p = Display(e, raw)
    BY <1>2, <1>3 DEF ShownAs
  <2> QED BY <1>1, <1>3, <2>1, NumberInverts DEF Fits
<1>4. CASE IsEnum(e) /\ raw \notin DOMAIN e.token
  <2>1. Display(e, raw) = [number |-> 10 * raw]
    BY <1>4 DEF Display
  <2>2. p = Display(e, raw)
    BY <1>2, <2>1 DEF ShownAs, IsWord
  <2> QED BY <1>1, <1>4, <2>2, BareCodeInverts
<1>5. CASE IsEnum(e) /\ raw \in DOMAIN e.token
  <2>1. Display(e, raw) = [word |-> e.token[raw]]
    BY <1>5 DEF Display
  <2>2. PICK w \in Words(e, raw) : p = [word |-> w]
    <3>1. p \in {[word |-> e.token[raw]]} \cup {Option(e, [word |-> e.token[raw]], lang) : lang \in Lang}
      BY <1>2, <1>5, <2>1 DEF ShownAs
    <3> QED BY <1>5, <3>1, OptionIsWord DEF Lang
  <2> QED BY <1>5, <2>2, WordInverts
<1> QED BY <1>3, <1>4, <1>5

\* What a switch shows sets properties that show it.
LEMMA SwitchKeeps ==
  ASSUME NEW t \in Switch, NEW p \in ShownAs(t)
  PROVE  /\ SetProps(t, p) # Refused
         /\ Shown(t, Taking(SetProps(t, p))) = Shown(t, dev)
<1>1. p = Shown(t, dev)
  BY SwitchFacts DEF ShownAs
<1>2. PICK on \in BOOLEAN : p = [word |-> IF on THEN On ELSE Off]
  BY <1>1 DEF Shown
<1>3. SetProps(t, p) = WriteProps(t, on)
  <2>1. [word |-> On] # [word |-> Off]
    <3>1. [word |-> On].word = On /\ [word |-> Off].word = Off
      OBVIOUS
    <3>2. On # Off
      BY SetItemAssumption
    <3> QED BY <3>1, <3>2
  <2>2. \A w, n : [word |-> w] # [number |-> n]
    <3>1. \A w, n : DOMAIN [word |-> w] = {"word"} /\ DOMAIN [number |-> n] = {"number"}
      OBVIOUS
    <3> QED BY <3>1
  <2>3. SetProps(t, p) = SwitchProps(t, p)
    BY DEF SetProps, Leaf
  <2>4. CASE on = TRUE
    <3>1. p = [word |-> On]
      BY <1>2, <2>4
    <3>2. p \notin {[word |-> Off], [number |-> 0]}
      BY <2>1, <2>2, <3>1
    <3> QED BY <2>3, <2>4, <3>1, <3>2 DEF SwitchProps
  <2>5. CASE on = FALSE
    <3>1. p = [word |-> Off]
      BY <1>2, <2>5
    <3>2. p \notin {[word |-> On], [number |-> 10]}
      BY <2>1, <2>2, <3>1
    <3> QED BY <2>3, <2>5, <3>1, <3>2 DEF SwitchProps
  <2> QED BY <2>4, <2>5
<1>4. /\ {"smartMode", "acMode", "inputLimit", "outputLimit"} = DOMAIN WriteProps(t, on)
      /\ WriteProps(t, on).acMode = AcMode[t]
      /\ WriteProps(t, on)[Limit[t]] = IF on THEN Watts[t] ELSE 0
  BY DEF WriteProps, Switch, Limit
<1>5. Limit[t] \in {"inputLimit", "outputLimit"} /\ AcMode[t] \in Int /\ Watts[t] \in 1..2400
  <2>1. t = "charge_active" \/ t = "discharge_active"
    BY DEF Switch
  <2>2. Limit[t] \in {"inputLimit", "outputLimit"}
    BY <2>1 DEF Limit
  <2>3. AcMode[t] \in Int
    BY <2>1 DEF AcMode
  <2>4. Watts[t] \in 1..2400
    BY SwitchFacts, SMTT(60)
  <2> QED BY <2>2, <2>3, <2>4, SMTT(60)
<1>6. {"acMode", "inputLimit", "outputLimit"} \subseteq Prop
  BY DEF Prop, WriteProps
<1>7. /\ Taking(WriteProps(t, on)).acMode = AcMode[t]
      /\ Taking(WriteProps(t, on))[Limit[t]] = IF on THEN Watts[t] ELSE 0
  <2>1. AcMode[t] # Text /\ (IF on THEN Watts[t] ELSE 0) # Text
    BY <1>5, SwitchFacts
  <2>2. \A k \in {"acMode", "inputLimit", "outputLimit"} :
          WriteProps(t, on)[k] # Text => Taking(WriteProps(t, on))[k] = WriteProps(t, on)[k]
    BY <1>4, <1>6 DEF Taking
  <2> QED BY <1>4, <1>5, <2>1, <2>2
<1>8. Shown(t, Taking(WriteProps(t, on))) = [word |-> IF on THEN On ELSE Off]
  <2>1. CASE on = TRUE
    <3>1. PICK w \in 1..2400 : w = Watts[t]
      BY <1>5
    <3>2. PICK d : d = Taking(WriteProps(t, on))
      OBVIOUS
    <3>3. d.acMode = AcMode[t]
      BY <1>7, <3>2
    <3>4. d[Limit[t]] = w
      <4>1. Taking(WriteProps(t, on))[Limit[t]] = Watts[t]
        BY <1>7, <2>1
      <4> QED BY <3>1, <3>2, <4>1
    <3>5. w > 0
      OBVIOUS
    <3>6. d[Limit[t]] > 0
      BY <3>4, <3>5
    <3>7. Shown(t, d) = [word |-> On]
      BY <3>3, <3>6 DEF Shown
    <3> QED BY <2>1, <3>2, <3>7
  <2>2. CASE on = FALSE
    BY <1>7, <2>2 DEF Shown
  <2> QED BY <2>1, <2>2
<1>9. WriteProps(t, on) # Refused
  BY <1>4 DEF Refused
<1> QED BY <1>1, <1>2, <1>3, <1>8, <1>9

LEMMA ShownKeeps == BoundsInv => SettingTheShownKeepsIt
<1> SUFFICES ASSUME BoundsInv, NEW t \in Leaf, NEW p \in ShownAs(t)
             PROVE  /\ SetProps(t, p) # Refused
                    /\ Shown(t, Taking(SetProps(t, p))) = Shown(t, dev)
  BY DEF SettingTheShownKeepsIt
<1>1. CASE t \in Switch
  BY <1>1, SwitchKeeps
<1>2. CASE t \in DOMAIN Entry
  <2>1. SetProps(t, p) = Only(Entry[t].prop, dev[Entry[t].prop])
    BY <1>2, EntryKeeps DEF BoundsInv
  <2>2. Taking(Only(Entry[t].prop, dev[Entry[t].prop])) = dev
    BY <1>2 DEF BoundsInv, SetInv, TypeOK, Taking, Only
  <2>3. Only(Entry[t].prop, dev[Entry[t].prop]) # Refused
    BY DEF Only, Refused
  <2> QED BY <2>1, <2>2, <2>3
<1> QED BY <1>1, <1>2 DEF Leaf

\* For a unit that starts within bounds, setting an item to what its user is
\* shown, an option in either language included, is never refused and changes
\* nothing that is shown (coordinator.go:1088-1149, harender.go:409-474,
\* virtual.go:40-63).
THEOREM SettingShownKeeps ==
  ASSUME \A d \in InitDev : Fits(d)
  PROVE  Spec => []SettingTheShownKeepsIt
<1>1. Init => BoundsInv
  BY InitKeeps, RefusedFits DEF Init, BoundsInv, Nothing
<1>2. BoundsInv /\ [Next]_vars => BoundsInv'
  BY StepKeeps DEF BoundsInv
<1> QED BY <1>1, <1>2, ShownKeeps, PTL DEF Spec
=============================================================================
