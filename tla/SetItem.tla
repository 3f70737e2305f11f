------------------------------ MODULE SetItem ------------------------------
(***************************************************************************)
(* One writable item: how a raw property becomes what its status shows     *)
(* (internal/process, internal/virtual) and how a `set` payload becomes a  *)
(* raw property again (coordinator.decodeSet, decodeCommand).  Numbers are *)
(* in tenths of the display unit, which every scale of the catalog (none,  *)
(* or 10 for deci-percent) divides without a rest.                         *)
(***************************************************************************)
EXTENDS Integers

CONSTANTS
  Text,      \* a payload that is no number and no word of an item
  On, Off,   \* the boolean payloads
  Entry,     \* the writable catalog entries, by topic leaf
  Watts      \* CHARGE_ACTIVE_VALUE and DISCHARGE_ACTIVE_VALUE, by switch

\* An entry is a number with a scale and bounds, or an enum with the word each
\* code has on the wire and, for some, in German:
\*   [prop, scale, min, max]  or  [prop, token, german]
\* Words are compared ignoring case.
IsEnum(e) == "token" \in DOMAIN e

Lang == {"en", "de"}

Label(e, code, lang) ==
  IF lang = "de" /\ code \in DOMAIN e.german THEN e.german[code] ELSE e.token[code]

\* harender.Enum: the words a `set` may name a code by.
Words(e, code) == {Label(e, code, lang) : lang \in Lang}

Switch == {"charge_active", "discharge_active"}
Leaf == DOMAIN Entry \cup Switch

\* The mode a switch puts the unit in, and the limit it opens; the other one
\* is closed.
AcMode == [charge_active |-> 1, discharge_active |-> 2]
Limit == [charge_active |-> "inputLimit", discharge_active |-> "outputLimit"]

WriteProps(t, on) ==
  [k \in {"smartMode", "acMode", "inputLimit", "outputLimit"} |->
    CASE k = "smartMode" -> IF on THEN 1 ELSE 0
      [] k = "acMode"    -> AcMode[t]
      [] OTHER           -> IF on /\ k = Limit[t] THEN Watts[t] ELSE 0]

Prop == DOMAIN WriteProps("charge_active", TRUE) \cup {Entry[t].prop : t \in DOMAIN Entry}

\* A number of the shipped catalog (zendure.yaml:141-232) is whole or scaled by
\* ten and has whole bounds, no word of an enum names two codes, each property
\* is one entry's, and the watts of the switches, which Validate bounds, are
\* within those of the limits they write.
ASSUME SetItemAssumption ==
  /\ Text \notin Int /\ On # Off
  /\ Watts \in [Switch -> 1..2400]
  /\ Switch \cap DOMAIN Entry = {}
  /\ \A t, u \in DOMAIN Entry : Entry[t].prop = Entry[u].prop => t = u
  /\ \A t \in DOMAIN Entry :
       LET e == Entry[t] IN
       IF IsEnum(e)
       THEN /\ DOMAIN e.token \subseteq Int
            /\ \A c, d \in DOMAIN e.token : Words(e, c) \cap Words(e, d) # {} => c = d
       ELSE /\ e.scale \in {1, 10}
            /\ e.min \in Int /\ e.max \in Int /\ e.min <= e.max
            /\ e.min % 10 = 0 /\ e.max % 10 = 0
            /\ \A s \in Switch, on \in BOOLEAN :
                 e.prop \in DOMAIN WriteProps(s, on) =>
                   e.scale = 1 /\ 10 * WriteProps(s, on)[e.prop] \in e.min..e.max

-----------------------------------------------------------------------------
\* math.Round of n / d: half away from zero.
Round(n, d) == IF n >= 0 THEN (2 * n + d) \div (2 * d) ELSE -((d - 2 * n) \div (2 * d))

Clamp(t, lo, hi) == IF t < lo THEN lo ELSE IF t > hi THEN hi ELSE t

\* Faulty: the bounds are left to Home Assistant.
RawUnclamped(e, tenths) == Round(tenths * e.scale, 10)

\* decodeCommand: clamped in display units, then the read scaling inverted.
Raw(e, tenths) == Round(Clamp(tenths, e.min, e.max) * e.scale, 10)

\* applyEntry: what a raw value is shown as.  A code no token names is shown
\* as it is.
Display(e, raw) ==
  IF ~IsEnum(e) THEN [number |-> (raw * 10) \div e.scale]
  ELSE IF raw \in DOMAIN e.token THEN [word |-> e.token[raw]]
  ELSE [number |-> 10 * raw]

\* What a status shows of the properties: points of the catalog, and the
\* switch derived from the whole report.
Shown(t, props) ==
  IF t \in Switch
  THEN [word |-> IF props.acMode = AcMode[t] /\ props[Limit[t]] > 0 THEN On ELSE Off]
  ELSE Display(Entry[t], props[Entry[t].prop])

\* EnumValueTemplate: the option Home Assistant shows for a status, None for
\* one that is no token of the enum.
Option(e, s, lang) ==
  IF "word" \in DOMAIN s /\ \E c \in DOMAIN e.token : e.token[c] = s.word
  THEN [word |-> Label(e, CHOOSE c \in DOMAIN e.token : e.token[c] = s.word, lang)]
  ELSE [unknown |-> TRUE]

-----------------------------------------------------------------------------
(***************************************************************************)
(* A payload, like a status, is [number |-> tenths] or [word |-> w] with w *)
(* a token, On, Off or Text; a payload can also be [structured |-> TRUE].  *)
(* SetProps: the properties to write for a payload, or Refused.            *)
(***************************************************************************)
Refused == [p \in {} |-> 0]
Only(prop, raw) == [k \in {prop} |-> raw]

IsNumber(p) == "number" \in DOMAIN p
IsWord(p) == "word" \in DOMAIN p

\* switchProps: SetValue.Bool takes true/false, 1/0, on/off, yes/no.
SwitchProps(t, p) ==
  CASE p \in {[word |-> On], [number |-> 10]} -> WriteProps(t, TRUE)
    [] p \in {[word |-> Off], [number |-> 0]} -> WriteProps(t, FALSE)
    [] OTHER -> Refused

\* Faulty: only the tokens name a code.
EnumPropsOfToken(e, p) ==
  IF IsNumber(p) THEN Only(e.prop, Round(p.number, 10))
  ELSE IF IsWord(p) /\ \E c \in DOMAIN e.token : e.token[c] = p.word
       THEN Only(e.prop, CHOOSE c \in DOMAIN e.token : e.token[c] = p.word)
       ELSE Refused

\* decodeSet of an enum: a token or a label of either language, or a bare
\* number as that code; any other word is not handed to the unit.
EnumProps(e, p) ==
  IF IsNumber(p) THEN Only(e.prop, Round(p.number, 10))
  ELSE IF IsWord(p) /\ \E c \in DOMAIN e.token : p.word \in Words(e, c)
       THEN Only(e.prop, CHOOSE c \in DOMAIN e.token : p.word \in Words(e, c))
       ELSE Refused

\* decodeSet of a number: text stays text, and the unit gets it.
NumberProps(e, p) ==
  IF IsNumber(p) THEN Only(e.prop, Raw(e, p.number))
  ELSE IF IsWord(p) THEN Only(e.prop, Text)
  ELSE Refused

\* A leaf that names no writable entry and no switch is refused too.
SetProps(t, p) ==
  IF t \notin Leaf THEN Refused
  ELSE IF t \in Switch THEN SwitchProps(t, p)
  ELSE IF IsEnum(Entry[t]) THEN EnumProps(Entry[t], p)
  ELSE NumberProps(Entry[t], p)
=============================================================================
