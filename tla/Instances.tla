------------------------------- MODULE Instances -------------------------------
(***************************************************************************)
(* Several bridges on one broker, and what earlier releases of them left   *)
(* in the discovery tree they share: which names and identities a bridge   *)
(* gives its documents, which retained configs it takes for its own, and   *)
(* what its sweep clears (internal/config, internal/harender,              *)
(* internal/hass/cleanup.go, sweepOrphans in                               *)
(* internal/coordinator/coordinator.go).                                   *)
(*                                                                         *)
(* A name, a serial or a unique_id is the sequence of its pieces, the      *)
(* separators "_" and "/" being pieces of their own, so that HasPrefix is  *)
(* a prefix of sequences.  A publication, and a verdict with its           *)
(* retractions, is one step here; DiscoveryDocs takes them apart.          *)
(***************************************************************************)
EXTENDS Integers, FiniteSets, Sequences, SequencesExt

CONSTANTS
  Piece,      \* what names, serials and unique_ids are put together from
  Instance,   \* the bridges on the broker
  Setting,    \* each one's MQTT_TOPIC, None when it is unset
  Serial,     \* the serials of each one's units
  Pack,       \* the serials packs may report
  Reported,   \* the sets of packs a report may bring
  UnitLeaf,   \* the points of a unit that mint an entity
  PackLeaf,   \* those of a pack
  OldLeaf,    \* points that did in an earlier release
  Foreign,    \* configs of other integrations and bridges
  Legacy,     \* what each unit's last release may have left, of LegacyForm
  MayRestart, \* whether a process may end and start again
  None        \* not set, nothing yet

LegacyForm == {"nothing", "entities", "documents", "current"}

Text == Seq(Piece)

ASSUME InstancesAssumption ==
  /\ {"_", "/", "pack", "zendure", "2mqtt"} \subseteq Piece
  /\ \A i \in Instance : Setting[i] # None => Setting[i] \in Text /\ "/" \notin Range(Setting[i])
  /\ \A i \in Instance : Serial[i] \subseteq Text
  /\ Pack \subseteq Text
  /\ Reported \subseteq SUBSET Pack /\ None \notin Reported
  /\ UnitLeaf # {} /\ PackLeaf # {}
  /\ UnitLeaf \cup PackLeaf \cup OldLeaf \subseteq Piece \ {"/"}
  /\ \A c \in Foreign : c.by \notin Instance
  /\ Legacy \subseteq LegacyForm
  /\ MayRestart \in BOOLEAN

\* An owner of entities: the unit itself, or one of its packs.
Unit == <<>>
LeafOf(p) == IF p = Unit THEN UnitLeaf ELSE PackLeaf
Served == UNION {{i} \X Serial[i] : i \in Instance}

VARIABLES
  session,   \* the instances the broker has a session of
  retained,  \* the configs the broker retains
  declared,  \* Runtime.Declared of each instance: topics
  last,      \* the packs of the last report per unit, None before it
  sig,       \* lastDiscSig: the topics last published, {} before
  sweep,     \* each unit's sweep
  swept      \* history: units a whole sweep of which has run

vars == <<session, retained, declared, last, sig, sweep, swept>>

-----------------------------------------------------------------------------
(***************************************************************************)
(* Names and identities.                                                   *)
(***************************************************************************)
\* config.TopicRoot, config.LegacyTopicRoot, config.MQTTClientID.
TopicRoot == <<"zendure">>
LegacyTopicRoot == <<"zendure", "2mqtt">>
ClientID(i) == LegacyTopicRoot

Name(i) == IF Setting[i] = None THEN TopicRoot ELSE Setting[i]

\* Faulty: the identities move with the name.
IdentityOfName(i) == Name(i)

\* applyDefaults decides it before the name is defaulted.
Identity(i) == IF Setting[i] = None THEN LegacyTopicRoot ELSE Setting[i]

\* What every release before 0.10.0 named everything after.
OldRoot(i) == IF Setting[i] = None THEN LegacyTopicRoot ELSE Setting[i]

Owner(root, sn, p) == root \o <<"_">> \o sn \o (IF p = Unit THEN <<>> ELSE <<"_", "pack", "_">> \o p)

\* The device identifier, which is the document's node id too.
Identifier(i, sn, p) == Owner(Identity(i), sn, p)

UniqueID(root, sn, p, leaf) == Owner(root, sn, p) \o <<"_", leaf>>

\* An entity as a config announces it: its unique_id, and the root of its
\* state topic; pack and leaf say which entity it is.
Entity(root, stateRoot, sn, p, leaf) ==
  [uid |-> UniqueID(root, sn, p, leaf), state |-> stateRoot \o <<"/">>, pack |-> p, leaf |-> leaf]

\* validPackSN: a report's other packs mint nothing.
ValidPackSN(p) == p # <<>> /\ Range(p) \cap {"/", "+", "#"} = {}

\* Faulty: every pack a report names is an owner.
OwnersUnchecked(packs) == {Unit} \cup packs

Owners(packs) == {Unit} \cup {p \in packs : ValidPackSN(p)}

-----------------------------------------------------------------------------
(***************************************************************************)
(* The configs.                                                            *)
(***************************************************************************)
TopicOf(c) == [form |-> c.form, id |-> c.id]

\* Bundle: the document of one owner.  stateRoot and old are this release's
\* and process's but for what was left before.
Document(i, sn, p, stateRoot, old) ==
  [form |-> "document", id |-> Identifier(i, sn, p), by |-> i, sn |-> sn, old |-> old,
   ents |-> {Entity(Identity(i), stateRoot, sn, p, l) : l \in LeafOf(p)}]

\* An earlier release's config of one entity, and its document.
OldEntity(i, sn, p, leaf) ==
  LET e == Entity(OldRoot(i), OldRoot(i), sn, p, leaf)
  IN  [form |-> "entity", id |-> e.uid, by |-> i, sn |-> sn, old |-> TRUE, ents |-> {e}]

OldDocument(i, sn, p) ==
  [form |-> "document", id |-> Owner(OldRoot(i), sn, p), by |-> i, sn |-> sn, old |-> TRUE,
   ents |-> {Entity(OldRoot(i), OldRoot(i), sn, p, l) : l \in LeafOf(p) \cup OldLeaf}]

\* What the last process left of a unit: releases up to 0.7 per entity, up to
\* 0.9 in documents with the old state topics, or this release.
Left(i, sn, form) ==
  LET owners == Owners(Pack) IN
  CASE form = "nothing"   -> {}
    [] form = "entities"  -> UNION {{OldEntity(i, sn, p, l) : l \in LeafOf(p) \cup OldLeaf} : p \in owners}
    [] form = "documents" -> {OldDocument(i, sn, p) : p \in owners}
    [] form = "current"   -> {Document(i, sn, p, Name(i), TRUE) : p \in owners}

Documents(i, sn, packs) == {Document(i, sn, p, Name(i), FALSE) : p \in Owners(packs)}

\* PublishBundle: the per-entity configs of a document's entities go, and it is
\* written over what its topic held.
Written(docs) ==
  LET superseded == UNION {{e.uid : e \in d.ents} : d \in docs}
      topics == {TopicOf(d) : d \in docs}
  IN  {c \in retained : TopicOf(c) \notin topics /\ ~(c.form = "entity" /\ c.id \in superseded)}
        \cup docs

-----------------------------------------------------------------------------
(***************************************************************************)
(* Ownership.                                                              *)
(***************************************************************************)
\* Faulty: the state topics of before 0.10.0 are forgotten.
OwnsIdentityOfName(i, e) ==
  /\ IsPrefix(Identity(i) \o <<"_">>, e.uid)
  /\ e.state = <<>> \/ IsPrefix(Name(i) \o <<"/">>, e.state)

\* A unique_id in the identity's namespace, and a state topic, where there is
\* one, under the name or under the root of before 0.10.0.
OwnsIdentity(i, e) ==
  /\ IsPrefix(Identity(i) \o <<"_">>, e.uid)
  /\ \/ e.state = <<>>
     \/ IsPrefix(Name(i) \o <<"/">>, e.state)
     \/ IsPrefix(Identity(i) \o <<"/">>, e.state)

\* Every entity a payload announces is this bridge's.
IsOwnConfig(i, c) == \A e \in c.ents : OwnsIdentity(i, e)

\* Faulty: whatever begins with the device is its own.
OwnsTopicByPrefix(i, sn, c) == IsPrefix(Identifier(i, sn, Unit), c.id)

OwnsDeviceConfigTopic(i, sn, c) ==
  LET device == Identifier(i, sn, Unit) IN
  \/ /\ c.form = "document"
     /\ c.id = device \/ IsPrefix(device \o <<"_", "pack", "_">>, c.id)
  \/ /\ c.form = "entity"
     /\ "/" \notin Range(c.id)
     /\ IsPrefix(device \o <<"_">>, c.id)

\* What a window of the unit's sweep picks out of the discovery tree.
Owned(i, sn) == {c \in retained : OwnsDeviceConfigTopic(i, sn, c) /\ IsOwnConfig(i, c)}

-----------------------------------------------------------------------------
(***************************************************************************)
(* The processes.                                                          *)
(***************************************************************************)
Idle == [at |-> "idle", published |-> {}]

DocumentTopic ==
  {TopicOf(d) : d \in UNION {Documents(u[1], u[2], Pack) : u \in Served}}

\* Every variable has its type, and no instance declares a topic of more
\* levels than a document's, whatever a report calls its packs.
TypeOK ==
  /\ session \subseteq Instance
  /\ \A c \in retained : c.by \in Instance => c.sn \in Serial[c.by]
  /\ declared \in [Instance -> SUBSET DocumentTopic]
  /\ \A i \in Instance : \A t \in declared[i] : "/" \notin Range(t.id)
  /\ last \in [Served -> Reported \cup {None}]
  /\ sig \in [Served -> SUBSET DocumentTopic]
  /\ sweep \in [Served -> [at : {"idle", "start", "window", "broken"}, published : SUBSET DocumentTopic]]
  /\ swept \subseteq Served

Init ==
  /\ session = {}
  /\ \E left \in [Served -> Legacy] :
       retained = Foreign \cup UNION {Left(u[1], u[2], left[u]) : u \in Served}
  /\ declared = [i \in Instance |-> {}]
  /\ last = [u \in Served |-> None]
  /\ sig = [u \in Served |-> {}]
  /\ sweep = [u \in Served |-> Idle]
  /\ swept = {}

\* The windows of the instances in is bring nothing more.
Break(is) ==
  sweep' = [u \in Served |->
             IF u[1] \in is /\ sweep[u].at = "window" THEN [sweep[u] EXCEPT !.at = "broken"]
             ELSE sweep[u]]

\* The broker ends a session whose client id connects again; the connect hook
\* writes the documents of every unit's last report.
Connect(i) ==
  LET others == {j \in session : ClientID(j) = ClientID(i)}
      docs == UNION {Documents(i, sn, last[i, sn]) : sn \in {n \in Serial[i] : last[i, n] # None}}
  IN  /\ i \notin session
      /\ session' = (session \ others) \cup {i}
      /\ retained' = Written(docs)
      /\ declared' = [declared EXCEPT ![i] = @ \cup {TopicOf(d) : d \in docs}]
      /\ Break(others)
      /\ UNCHANGED <<last, sig, swept>>

\* publish: the documents no report has carried yet are written, or fail
\* without a session; a set of topics other than the last one starts a sweep,
\* unless one is in flight.
Report(i, sn, packs) ==
  LET docs == Documents(i, sn, packs)
      published == {TopicOf(d) : d \in docs}
      fresh == {d \in docs : TopicOf(d) \notin declared[i]}
  IN  /\ last' = [last EXCEPT ![<<i, sn>>] = packs]
      /\ IF i \in session
         THEN /\ retained' = Written(fresh)
              /\ declared' = [declared EXCEPT ![i] = @ \cup published]
         ELSE UNCHANGED <<retained, declared>>
      /\ sig' = [sig EXCEPT ![<<i, sn>>] = published]
      /\ sweep' = IF sig[i, sn] # published /\ sweep[i, sn].at = "idle"
                  THEN [sweep EXCEPT ![<<i, sn>>] = [at |-> "start", published |-> published]]
                  ELSE sweep
      /\ UNCHANGED <<session, swept>>

\* sweepOrphans: the window's subscription, which fails without a session.
OpenWindow(i, sn) ==
  /\ sweep[i, sn].at = "start"
  /\ sweep' = [sweep EXCEPT ![<<i, sn>>] = IF i \in session THEN [@ EXCEPT !.at = "window"] ELSE Idle]
  /\ UNCHANGED <<session, retained, declared, last, sig, swept>>

\* The window closes on what the broker has delivered in it: all that is
\* owned, or less if the session ended meanwhile.
CloseWindow(i, sn) ==
  /\ sweep[i, sn].at \in {"window", "broken"}
  /\ \E heard \in IF sweep[i, sn].at = "window" THEN {Owned(i, sn)} ELSE SUBSET Owned(i, sn) :
       retained' = IF i \in session
                   THEN {c \in retained : c \in heard =>
                          TopicOf(c) \in sweep[i, sn].published \cup declared[i]}
                   ELSE retained
  /\ swept' = IF /\ sweep[i, sn].at = "window" /\ i \in session
                 /\ sweep[i, sn].published \subseteq declared[i]
              THEN swept \cup {<<i, sn>>} ELSE swept
  /\ sweep' = [sweep EXCEPT ![<<i, sn>>] = Idle]
  /\ UNCHANGED <<session, declared, last, sig>>

Restart(i) ==
  /\ MayRestart
  /\ session' = session \ {i}
  /\ declared' = [declared EXCEPT ![i] = {}]
  /\ last' = [u \in Served |-> IF u[1] = i THEN None ELSE last[u]]
  /\ sig' = [u \in Served |-> IF u[1] = i THEN {} ELSE sig[u]]
  /\ sweep' = [u \in Served |-> IF u[1] = i THEN Idle ELSE sweep[u]]
  /\ UNCHANGED <<retained, swept>>

Next ==
  \/ \E i \in Instance : Connect(i)
  \/ \E i \in Instance : \E sn \in Serial[i], packs \in Reported : Report(i, sn, packs)
  \/ \E i \in Instance : \E sn \in Serial[i] : OpenWindow(i, sn)
  \/ \E i \in Instance : \E sn \in Serial[i] : CloseWindow(i, sn)
  \/ \E i \in Instance : Restart(i)

Spec == Init /\ [][Next]_vars

\* Fairness: the MQTT lifecycle connects again for as long as a process runs.
FairSpec == Spec /\ \A i \in Instance : WF_vars(Connect(i))

-----------------------------------------------------------------------------
(***************************************************************************)
(* What a fleet must be for its bridges to tell their configs apart.  The  *)
(* code checks none of it: a serial is taken as it is configured, and a    *)
(* name may be anything.                                                   *)
(***************************************************************************)
\* A serial is one token: the separators of a unique_id and of a topic are
\* not in it.
PlainSerials ==
  /\ \A u \in Served : Range(u[2]) \cap {"_", "/"} = {}
  /\ \A p \in Owners(Pack) : "_" \notin Range(p)

\* No unit is served twice under one identity, and no bridge is named like
\* the packs of a unit.
NamesApart ==
  /\ \A u, v \in Served : Identity(u[1]) = Identity(v[1]) /\ u[2] = v[2] => u = v
  /\ \A i \in Instance : \A u \in Served :
       Identity(i) # Identity(u[1]) \o <<"_">> \o u[2] \o <<"_", "pack">>

\* An entity of a bridge or an integration rooted elsewhere, nested in an
\* instance's name or not.
RootedElsewhere(e) ==
  \E n \in 0..Len(e.state) :
    LET root == SubSeq(e.state, 1, n) IN
    /\ e.state = root \o <<"/">>
    /\ IsPrefix(root \o <<"_">>, e.uid)
    /\ \A i \in Instance : root # Identity(i)

\* Others announce something under a root of their own in each config, and
\* none writes where an instance writes.
OthersApart ==
  \A c \in Foreign :
    /\ \E e \in c.ents : e.uid \in Text /\ e.state \in Text /\ RootedElsewhere(e)
    /\ TopicOf(c) \notin DocumentTopic
    /\ c.form = "entity" => \A u \in Served : \A p \in Owners(Pack) : \A l \in LeafOf(p) :
                             c.id # UniqueID(Identity(u[1]), u[2], p, l)

-----------------------------------------------------------------------------
\* What goes from the discovery tree, or is written over, is of a unit whose
\* own instance just reported it, swept it or connected: not of a unit whose
\* serial begins like it, of a bridge whose name begins like it, or of another
\* integration in its namespace (cleanup.go:22-39, 79-111,
\* coordinator.go:749-751).
OnlyOwnCleared ==
  [][\A c \in retained \ retained' :
       \E i \in Instance : \E sn \in Serial[i] :
         /\ c.by = i /\ c.sn = sn
         /\ \/ i \in session' \ session
            \/ last'[<<i, sn>>] # last[<<i, sn>>]
            \/ sweep'[<<i, sn>>] # sweep[<<i, sn>>]]_vars

\* Once a whole sweep of a unit has run, one that kept its session and spared
\* only what this process has written, nothing an earlier process left of the
\* unit is retained, in whichever form its release wrote it and whatever packs
\* come and go (cleanup.go:13-21, 92-106).
GhostsGone == \A c \in retained : <<c.by, c.sn>> \in swept => ~c.old

\* Home Assistant knows an entity by its unique_id for good: of all that is
\* retained of the bridges, past releases included, two configs announce one
\* unique_id exactly when they announce one entity of one unit
\* (config.go:161-178, discovery.go:264-288).
OneIdentity ==
  LET bridges == {c \in retained : c.by \in Instance} IN
  \A c, d \in bridges : \A e \in c.ents, f \in d.ents :
    e.uid = f.uid <=> <<c.by, c.sn, e.pack, e.leaf>> = <<d.by, d.sn, f.pack, f.leaf>>

\* Two instances with different names keep out of each other's way: each comes
\* to hold its session (README.md:120-126, config.go:107-108).
NamesKeepApart ==
  (\A i, j \in Instance : i # j => Name(i) # Name(j)) =>
    \A i \in Instance : <>[](i \in session)
=============================================================================
