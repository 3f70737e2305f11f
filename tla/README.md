# go-zendure2mqtt in TLA+

`zendure2mqtt` is a daemon that bridges Zendure SolarFlow batteries to an MQTT
broker: it reads units over their local HTTP API or over Zendure's cloud broker,
publishes what they report as retained status items and as Home Assistant
discovery documents, takes `set` items and evcc's battery mode back to the
units, and serves a small web UI.

This directory models the daemon's own control: what its goroutines keep, in
which steps they change it, and what must hold however these steps interleave
with each other, with the units, the broker, evcc and the user. TLC checks the
models on small instances; TLAPS proves the main safety results for every value
of the constants. Parsing, formatting, HTTP, TLS and the libraries the daemon is
built on (`go-mqtt`, `go-hamqtt`, `go-bridgeui`) are outside; the libraries are
modelled from how `src/` uses them.

## 1. The system

| Part | Source | State | Operations | What makes it hard |
|---|---|---|---|---|
| Composition root | `cmd/zendure2mqtt/main.go` | contexts, the deferred transport | start, `OnConnect`, shutdown | a first connect before the hook is registered; two ways to end; shutdown during a hook |
| Coordinator: subscriptions and start | `coordinator.go` (`Run`, `startCommands`, `watchBirth`, `retrySubscribe`) | - | announce, subscribe, retry, drain | a broker that comes late; a stop while anything of it is under way |
| Coordinator: readings | `coordinator.go` (`onReading`, `publish`, `publishState`) | `bySN`, `last` | resolve a report, publish it status by status | poll loop and re-reads publish at once |
| Coordinator: set path | `coordinator.go` (`handleSet`, `applySet`, `decodeSet`, `reReadSoon`), `web.go` (`Write`) | - | decode, write, schedule a re-read | slow and lost writes; an older report published late |
| Coordinator: reachability | `coordinator.go` (`DeviceReachable`, `UpstreamUsable`, `PublishOnline`), `local/source.go` (`observe`) | `reach`, `failures`, `reachable`, the state plane's cache | a poll's verdict, a reconnect | decisions under a lock, publications after it; a broker that lost its store; QoS 0 |
| evcc plane | `coordinator/evcc.go`, `evcc/evcc.go` | per unit: merged `props`, `mode`, `saved`, `lastCmd` | merge a report, apply a mode, fallback | failed and half-failed writes; the fallback against a command; stale publications |
| Discovery documents | `hass/discovery.go`, `hass/cleanup.go`, `coordinator.go` (`reconcileOrphans`, `sweepOrphans`, `republishDiscovery`) | `sent`, `byTopic`, `lastDiscSig`, the runtime's declared set and memo | publish, sweep, forget, reopen, reset | four goroutines over three records of one truth (what is retained) |
| Migration | `coordinator/migrate.go` | `migrated` | sweep the old topics once per unit | a root shared with others; failures in the middle |
| Local backend | `zendure/local/` | see reachability | poll, write, read | - |
| Cloud backend | `zendure/cloud/` | credentials, the client, backoffs | login, connect, subscribe, announce, lose, retry | cancellation at any point; flapping; announcing in order |
| State store, web | `state/state.go`, `coordinator/web.go`, `web/` | the cache, the problem log, subscribers | update, notify, watch, read part by part | signals that coalesce; a view read in parts |
| Value processing | `process/`, `catalog/`, `virtual/` | - (pure) | scale, map codes to tokens, derive switches, invert | clamping, scaling and rounding must invert reading |
| Ownership and identities | `harender/`, `hass/cleanup.go`, `config/` | the discovery tree all bridges and releases share | name and key an entity, recognise one's own configs | names and serials that begin like another's; what four generations of releases left |
| mDNS, utility | `discovery/`, `cmd/zendure2mqtt-util` | - | run by hand | - |

How they interact. Each local unit has a poll goroutine; a poll tells the
coordinator, as its observer, whether the unit answers and hands it the report.
`onReading` starts the unit's migration sweep, updates the store, publishes the
discovery documents (and may start an orphan sweep), then every status, then the
evcc values. An accepted `set` starts a re-read on a goroutine of its own that
goes through the same `publish`. The command router calls `handleSet` and
`handleEVCCSet` on its workers, the web UI calls the same functions on its own
goroutines. The MQTT lifecycle calls `PublishOnline` after every (re)connect.
The evcc fallback runs on a ticker. `main.go` starts all of them under an
errgroup, whose end (a signal, a restart request, or the web server's failure)
stops polls and subscriptions, after which the daemon says `connected` 0 and
disconnects. All of these run at once; they share the
maps above, each behind a mutex of its own, and publish after releasing it.

## 2. Modules

| Module | Models | Kind |
|---|---|---|
| `EvccProfile` | property maps, `Target`, `Snapshot`, `Diff`, the charge limit | pure operators |
| `BatteryModeContract` | what the battery mode plane promises | abstract specification |
| `BatteryMode` | the plane between unit, readers, commands and fallback | detailed specification, implements the contract |
| `BatteryModeProofs` | theorems about it | proofs |
| `Reachability` | polls, `online`, `connected`, reconnects | specification |
| `Lifecycle` | a whole run: start, subscriptions, stop; extends `Reachability` | composition |
| `LifecycleProofs` | theorems about `Reachability` and `Lifecycle` | proofs |
| `DiscoveryDocs` | documents, the sent guard, sweep, reconnect hook | specification |
| `DiscoveryDocsProofs` | theorems about it | proofs |
| `Instances` | several bridges, their identities and what past releases left | specification |
| `InstancesProofs` | theorems about it | proofs |
| `SetItem` | one item: raw value, shown value, payload, and back | pure operators |
| `SetPath` | sets, writes, re-reads, statuses; extends `SetItem` | specification |
| `SetPathProofs` | theorems about both | proofs |
| `Migration` | the sweep of the old topic layout | specification |
| `MigrationProofs` | theorems about it | proofs |
| `CloudSession` | login, session, backoff, announcements | specification |
| `CloudSessionProofs` | theorems about it | proofs |
| `StateStore` | the store, its signals, a browser's view | specification |
| `StateStoreProofs` | theorems about it | proofs |
| `MC...` | values of the constants for TLC | where a cfg cannot state them |

Each specification declares its parameters as CONSTANTS with a named ASSUME that
the proofs use and TLC evaluates. Below every definition that stands for code
with a plausible slip stands, marked `Faulty`, the form that slip would take;
the checks substitute it and expect the property it breaks to fail.
The faulty forms are not reachable from any `Next`.

### 2.1 BatteryMode

One unit is enough: `evccPlane` keeps an entry per serial and no step touches
two. `props`, `mode`, `saved` are the fields of `evccUnit`; `age` is
`now - lastCmd`, capped at `Timeout`. `dev` is the unit itself.
What the code does while it holds `mu` is one action: `Merge` (publishEVCC up to
line 83), `ApplyBatteryMode` (lines 166-210, the write to the backend included,
which really is made under `mu`). What it does after releasing it is a step of
its own: a goroutine in `Late` remembers the mode it read and publishes it in
`Publish`; a reader in `InFlight` fetches (`Fetch`) and merges (`Deliver`) in two
steps, so that a write can come between; the fallback lists (`FallbackScan`) and
applies (`FallbackApply`) in two steps, which is what lines 231-248 do.
A write comes to one of four outcomes: `applied`, `refused`, `lostReply` (the
unit took it, the call failed: a timeout) and `lostWrite` (the call returned nil
and nothing arrived: the cloud's QoS 0 publish). Times are ticks, properties are
six names of the profile, values a small range.

`BatteryModeContract` says the same without unit, time, failures and
publications: settings are taken once, held while a mode is on, given back with
all of them in the picture. `KeepsContract` is the refinement
(`picture <- props, restore <- saved`).

### 2.2 Reachability and Lifecycle

`failures`, `reachable` are the local backend's, `reach` the coordinator's,
`cache` the state plane's last value that reached the broker, `online` and
`connected` what the broker retains. A poll takes the steps of `observe`:
`Observe` under `reachMu`, then `RecordReach` under `lastMu`, `PublishOnlineOf`,
`UpstreamUsable`. `PublishOnline` runs beside it: `AnnounceOnline`,
`TakeSnapshot` under `lastMu`, `PublishSnapshot` unit by unit, `Replay`. The link
is `up`, `dying` (a write returns nil and is lost) or `down`, and the broker may
come back without what it retained.

`Lifecycle` puts a whole run of the daemon around it. `main` is where `run` in
`main.go` is, and `Coordinator.Run` inside it: hook registered, info announced if
the client is connected, `Run`'s own announcement, the two subscriptions, polling,
offline, disconnect, stopped. The client connects on a goroutine of its own,
before the hook exists or after. `sub` is a subscription that is live, retried
or not made; `telling` the half of the hook after `PublishOnline`
(`announceInfo`). `stop` is what ended the errgroup: a signal (or restart request)
cancels the context of everything, a failing web server only that of the
errgroup's goroutines, while the hook, under the client's context, goes on. `late`
is a history variable: a hook was at work at the stop or after it.

### 2.3 DiscoveryDocs

One unit with its documents. `sent` and `byTopic` are `hass.Discovery`'s,
`declared` and `memo` the runtime's, `retained` and `legacy` the broker's. A
publisher walks the owners of its report: `Guard` under `mu`, `RetractLegacy`
and `WriteDoc` (PublishBundle's two halves), `Mark`. A publisher in `Late` can be
overtaken between them, another makes a document in one go. The sweep is
`Reconcile`, `Collect`, `Judge`, `RetractOrphans`, `Forget`; the hook is `Reset`,
`SnapshotLast`, `Reopen` and one more publisher.

### 2.4 SetItem and SetPath

`SetItem` has what `decodeSet`, `decodeCommand`, `switchProps` write for a
payload and what `applyEntry` and the switches show for a property, numbers in
tenths of the display unit. An enum is set by its code, by its word on the wire
or by its German label, which is what a document offers as an option.
`SetItemAssumption` says of the catalog what `zendure.yaml:141-232` and
`config/validate.go:58-66` make true: bounds are whole, scales 1 or 10, a word
names one code, a property belongs to one entry, and the watts of the switches
are within the bounds of the limits they write. `SetPath` puts the items between
a unit (`dev`, and `pending` for accepted writes it has not taken yet), the
goroutines of `reReadSoon` and the poll loop, and the retained `status` of each
leaf. The statuses of one report go out one by one, in any order (the code
ranges over a map), so a poll and a re-read can interleave.

### 2.5 Migration

A topic is the sequence of its levels below the old root. Each sweep goes
`start`, `window` (messages arrive on the read loop), `clear`, `idle`; a
failure ends it and, for a unit, takes its mark in `migrated` away
(migrate.go:97-99), so that the next report sweeps again. `Restart` ends the
process at any step and lets an old release run in between.

### 2.6 CloudSession

`pc` is where `Backend.Run`'s goroutine is: login, its backoff, connect,
subscribe device by device, announce device by device, up, backoff, stopped.
The transport's read loop is `Arrive` and `HandleMessage`. Times are units of
`minReconnect`; a session becomes `stable` with age. `flaps` is a history
variable: the ends in a row that the backoff must follow.

### 2.7 StateStore

The parts of one unit's entry, the problem log with the time each problem
carries, writers that change a part under `mu` and `notify` after releasing it,
and browsers that hold one subscription each and read snapshot, problems,
upstream and status one after the other, each under `mu`.

### 2.8 Instances

The discovery tree (`retained`) is shared by several bridges, by what past
releases of each left in it (`Left`: one config per entity, documents with the
state topics of before 0.10.0, or documents of this release) and by other
integrations. Names, serials and unique_ids are sequences of their pieces, so
that `HasPrefix` is a prefix: a name or serial that begins like another one is a
case of its own. `Identity` and `Name` are `applyDefaults`' two roots, `Owner` and
`UniqueID` harender's identifiers, `OwnsDeviceConfigTopic` and `OwnsIdentity`
cleanup.go's two filters, `ValidPackSN` the check on what a report calls its
packs. A sweep opens its window and closes it in two steps, with reports,
reconnects and the other bridge in between; a publication is one step
(`DiscoveryDocs` has its halves). `session` says whom the broker has a session
of: connecting ends another session of the same client id.

## 3. Runs

All finish within five minutes on two workers. Constants the table does not
mention are as the cfg has them.

| Run | Question | Bounds, and why they are enough |
|---|---|---|
| `mode_any` | What does the plane keep whatever happens? | 6 properties with 3 values, one reader with a report in flight, full and partial reports (the cloud's bring what changed), one commander, all 4 outcomes, a user's own set, timeout of 1 tick, restarts. Every mode's target differs from the start, so every diff is non-empty at first. 1.2 M states. |
| `mode_episode` | Does a hold/charge episode end well? | no restart, no user, full reports, writes `applied` or `refused`, no overtaken report; publications of reader and commander may be overtaken. Timeout of 2 ticks, so a command can come between. |
| `mode_fallback_race` | Is only a silent evcc's mode ended? | as above; expected to be violated, see section 6. |
| `lifecycle` | Does a run start, settle and end as promised? | one unit (units only share `connected`, and the proofs are for any number), a debounce of 2 (3 in the code: 2 already has a failure that counts and does not report), a link that drops at any step, with and without the broker's store, both ways to stop. 283 k states. |
| `docs_live` | Do live documents stay? | unit and one pack, an upgrade from a release that left an orphan component, full and shrunken reports, link and store loss. 958 k states. |
| `docs_clean` | Does what is superseded or undeclared go? | first start or upgrade, a ghost document, a reconnect hook that can be overtaken, link loss. |
| `set_path` | Are writes in bounds, inverted, and shown? | a scaled number with bounds, an enum with a word only one language has, both switches; a number above the bounds, one between two codes, a German label, words, a structured payload, an unknown leaf; 4 outcomes; a poll that is overtaken by a re-read. |
| `migrate` | What goes and what stays? | two units and the instance, 4 old topics, 5 foreign ones (a sibling's, a wrong depth, a wrong leaf, an empty level, the new layout); failures, restarts. |
| `cloud` | Session, backoff, order | two devices with every listing, backoff caps 8 and 6 (not a power of two, so the cap shows), cancellation anywhere. |
| `store` | Does a browser miss a change? | two racing writers, one browser (browsers do not see each other), a log of one problem and two problems, so that the log is trimmed. |
| `instances` | Whose documents does a sweep clear? | a bridge that never set its name and one that set `zendure2mqtt`, so that both have one identity root; serials of which one begins with the other; a pack whose serial has a `/`; every form of leftovers of each; three foreign configs, each like an own one in all but one respect. 220 k states. |
| `instances_client` | Does a name of its own keep an instance apart? | the same two bridges; expected to be violated, see section 6. |

What each checks beside its type invariant:

* `mode_any` - `SettingsKeptUntilRestored`: settings change only by being
  restored in full, or in a restart. `EnteredModeNeedsNoWrite`: the mode, sent
  again, costs no write. `KeepsContract`: the refinement.
* `mode_episode` - `NormalRestores`: `normal` leaves acMode, limits and smartMode
  as they were. `SilentEvccReleases`: a locked battery of a silent evcc is
  released. `StatusFollowsMode`: the retained battery mode comes to be the
  applied one.
* `lifecycle` - `RetainedIsCached` (otherwise the dedup gate would hold the right
  value back for ever) and `ReconnectIsCurrent`, over the start and the stop too;
  `QuietStopSaysSo`: a stop leaves `connected` 0; `OutputsSettle`: `online` and
  `connected` come to say the truth; `ShutdownEnds`, `StartCompletes`.
* `docs_live` - `MarkedIsDeclared` (what the guard takes for published is spared by
  every sweep), `LiveDocsStay`. `docs_clean` - `NoConflictStays`, `GhostsGo`.
* `set_path` - `WrittenStaysInBounds`, `SettingTheShownKeepsIt`, `StatusSettles`.
* `migrate` - `ForeignStays`, `DoneIsClean`, `OldLayoutGoes`.
* `cloud` - `WaitFollowsFlaps`, `UpstreamAfterDevices`, `SubscribedWhileUp`,
  `UpstreamFollowsSession`, `CancelStops`.
* `store` - `NoLostChange`, `ViewSettles`.
* `instances` - `OnlyOwnCleared`, `GhostsGone` (a whole sweep leaves nothing old of
  its unit, in whichever form), `OneIdentity` (a unique_id means one entity, across
  bridges and releases).

Deadlock is checked everywhere but in `cloud`, where `Run` returns.

To run one: `tlc -workers 2 -config mode_any.cfg MCBatteryMode`.

## 4. Fairness

Liveness is stated only under what the code's scheduling gives:

* A ticker keeps ticking (poll loops, the fallback) and a goroutine that is past
  its lock goes on to publish: weak fairness of its steps. Go's mutexes and
  scheduler do not starve a goroutine.
* The MQTT lifecycle reconnects for as long as the process runs: weak fairness of
  `LinkUp`. That the link *stays* up is never assumed by fairness; properties say
  `<>[](link = "up") =>`.
* Calls return, with an error at the latest when their context ends: weak fairness
  of "it fails or it succeeds", never of success.
* The one strong assumption is `FallbackSucceeds` in `BatteryMode`: a unit asked
  again and again takes a write now and then. It is about the unit; without it no
  bridge could release a battery.
* In `Migration` the broker delivers what it retains within the window (the code
  relies on it, migrate.go:40-42), and every unit keeps reporting.
* In `SetPath` a unit takes a write it has accepted.

* In `Lifecycle` the main goroutine, the retries, the poll loops and the hook go on,
  and the client connects again while nothing stops the daemon. Nothing ever has
  to stop it, and what it promises of its outputs is promised of runs without a
  stop (`Runs`).
* In `Instances` each process connects again for as long as it runs: this is all
  `instances_client` needs to show two bridges evicting each other for good.

Nothing is assumed of evcc, the user, the account's device list or the units'
answers.

## 5. Proofs

Assumptions are the named ASSUMEs of the modules; `UnreachableAfter`, `Timeout`,
the sets of units, readers, commanders, writers, values, outcomes, report
shapes, documents, requests and catalog entries are otherwise arbitrary.
Theorems with a hypothesis of their own say so below.

**BatteryModeProofs.** First lemmas on the profile's operators: what `Copy`,
`Diff`, `Snapshot` and `Target` return, that `Diff` after `Copy` is empty
(`DiffAfterCopy`), and that a target does not depend on what applying it changes
(`TargetStable`), which is what lets evcc repeat a mode for free.

* `TypeCorrect`: `TypeOK` is inductive, one step per action.
* `SettingsHeld`: `SettingsHeldOutsideNormal`, inductive with `TypeOK`. The step
  that matters is `ApplyBatteryMode`: `Saving` returns a map for hold and charge.
* `SettingsKept` and `EnteredNeedsNoWrite`: action properties, from `TypeOK`
  alone, for every outcome including lost writes. The lemmas `ApplyPlaneSteps` and
  `PlaneSteps` reduce the eleven actions to the four shapes a step can have for the
  plane.
* `ContractKept`: initial states map to initial states, and each of the four
  shapes is a step or a stutter of `BatteryModeContract`.
* `NormalRestoresUnit`: with `Outcome = {"applied"}` and `InFlight = {}`. The
  invariant alone is not inductive: it says nothing about the unit during the
  episode. `EpisodeInv` adds that the picture agrees with the unit (`InSync`) as
  far as it is known and that the settings held are the ones of before the
  episode.
* `NormalRestoresRefused`: the same where a write may be refused, with the other
  limits of `mode_episode` (`InFlight = {}`, `ReportShapes \subseteq {Prop}`,
  `UserChoice = {}`) and with restarts as well. A refused hold keeps `saved` in
  normal mode (evcc.go:185-198) and the next hold does not take it anew, so what
  `EpisodeInv` says of the saved settings no longer follows from taking them.
  `RefusedInv` says instead that left-over settings still *are* the unit's, and
  that the picture, once there is one, is true of every property the plane
  controls. Each hypothesis is needed: section 6 tells what a user's set after a
  refused hold, an overtaken report or a partial one does.

**LifecycleProofs, of Reachability.** `TypeCorrect` (the invariant carries that a poll's
verdict still is the recorded one), `DebounceCorrect`, `CacheCorrect`
(`RetainedIsCached` is inductive with `TypeOK`: only the replay and a publication
write both), `ReconnectCorrect`. `ReconnectIsCurrent` speaks of the end of a
reconnect; `CurrentInv` strengthens it to every point of the hook by saying, for
each of its stages, which of `snapshot`, `cache` and `online` already carries
`reach`.

**LifecycleProofs, of a whole run.** `QuietStop`: `QuietStopSaysSo` is about the end only; `StopInv`
says what it rests on before: no poll is left once the backend has returned,
no hook works under a stop that found none, and `connected` is 0 whenever the
link is down or the offline marker has been written. `DaemonSteps` splits a step
of the daemon into a step of `Reachability` and the four it adds, so that the
inductive invariants of `Reachability` carry over (`ReachInv`):
`DaemonTypes`, `DaemonDebounces`, `DaemonCaches`, `DaemonReconnects`.

**DiscoveryDocsProofs.** `TypeCorrect`, inductive with `AtDoc`: a publisher past
its guard works on a document. `MarkedSpared`: `MarkedIsDeclared` when no publisher
can be overtaken between a write and its mark (`Late = {}`, whence
`NoneBetween`); what is marked is declared, and what a sweep is about to forget is
not. With `Late` publishers it is false, see section 6.
`NeverInConflict` has the same hypothesis and needs no fairness: no document is ever
retained beside the per-entity configs it supersedes. Neither half of that is
inductive alone. `MemoIsTrue` says that what the runtime's memo counts as cleared
is cleared while the link is up, except between a reconnect and its `Reset`, and
`WritersClear` that a publisher about to write finds nothing beside its document.
Where some publishers are late, both still hold, the second of the others.
`NoConflictEver` draws from it the `NoConflictStays` that `docs_clean` checks under
fairness with a late hook, where the two can meet for a while.

**SetPathProofs.** `BoundsHold`: that a unit which starts within the catalog's
bounds stays there, for any payload. `RoundKeepsBounds` is the arithmetic
(rounding half away from zero steps over no whole bound), `RawFits` and
`SwitchFits` carry it to what a set writes, and the invariant adds the writes
that are `pending`. `SettingShownKeeps`: writing inverts reading, number, word,
bare code and switch each by a lemma of its own, from `SetItemAssumption`. Both
have the hypothesis that every unit starts within the bounds: a unit that
reports more than the catalog allows keeps what it has until it is set, and
setting what is shown clamps it. `TypeCorrect` needs none.

**StateStoreProofs.** `TypeCorrect`. `NothingLost`: `NoLostChange` for any number of
writers and browsers. `FreshInv` says for a browser at each point of its reading
which parts of its view are current when no signal is pending and no writer is
about to give one; a change before a signal makes the hypothesis false, and the
signal makes it read again.

**MigrationProofs.** `TypeCorrect`. `ForeignKept`: `ForeignStays` is not
inductive, since a topic is collected in one step and cleared in a later one;
`FoundOwned` adds that a sweep has collected only what is its own. Its hypothesis
`OldItemsOnly` is about the broker: whatever has an old release's shape below a
unit of this bridge is an old release's. It holds whatever the link, the writes
and the restarts do. `DoneCorrect`: `DoneIsClean` with `DropInWindow` and
`LoseWrites` off (section 6 says what they would show) and the hypothesis
`OldItemsOwned`, that the sweep recognises the old topics. `SweepClean` says for
each stage of a sweep what may still be retained: what is found after the window,
nothing when it is done. Both hypotheses hold
of the topics of the run `migrate`.

**CloudSessionProofs.** `TypeCorrect` needs `BeforeLogin`: until the first login
there is no list, so nothing is subscribed or reachable. `DevicesFirst`:
`Announced` says what `todo` means while devices are announced, that all the
others are reachable. `SubscriptionsStand`, with `SubscribeMayFail` off:
`Subscribing` says the same of the subscriptions, for each place of the goroutine.
`WaitFollows`: the backoff doubles in one place and is capped, reset and waited
for in others, so `FlapInv` says for each of them how it stands to the ends
counted in `flaps`. That a power doubles with its exponent (`PowerDoubles`) is not
an induction here: a power of two counts subsets (`PowerCounts`).

**InstancesProofs.** From the names to the steps. A separator ends a token of a
name (`OneToken`, `Field`), so `Owner` and `UniqueID` are injective (`OwnersApart`,
`UniqueIDsApart`). `OneRoot` is the argument of cleanup.go:28-39: a unique_id
alone may begin with two bridges' roots (`x` and `x_garage`), a state topic alone
too (`x` and `x/garage`), but not both with the same two, since their separators
differ; the pair of roots of an unset name is a case of its own. From these,
`OwnRecognised` (a sweep's filters take every config of their unit, of whichever
release), `Exclusive` and `ForeignNotOwn` (and nothing else). On the steps, `Ours`
says that what is retained is foreign or some unit's, `DeclaredFresh` that nothing
old stands at a declared topic, `SessionDeclared` that a session has declared every
unit's last report. `TypeCorrect`, `NoGhosts`, `IdentitiesApart` and `OwnOnly`
follow, with these hypotheses on the fleet, which the code does not check and
which hold of the run `instances` (`Apart` in `MCInstances`):

* `PlainSerials` (all four): no `_` or `/` in a serial, no `_` in a pack's. With
  it, `S1` and `S1_pack_P1` are not both units' names. A pack's `/` is the code's
  to refuse (`ValidPackSN`).
* `NamesApart` (`IdentitiesApart`, `OwnOnly`): no unit is served twice under one
  identity, and no bridge is named like a unit's packs
  (`zendure2mqtt_S1_pack`). Equal identities, and names that begin alike, are
  allowed.
* `OthersApart` (`OwnOnly`): another integration or bridge announces something
  under a root of its own, and does not write where an instance writes. Its root
  may be nested in an instance's name, or begin with it.

A leaf is one piece, so that `pack_count` is not a pack `count`'s: no pack is named
like the rest of a unit's point.

Proved only: `SettingsHeldOutsideNormal`, `Debounced` and `NoConflict`, which no run
has to repeat.

Only model-checked: all liveness properties (`GhostsGo`, `LiveDocsStay` and, with a
late hook, `NoConflictStays` among them, which are about what the documents come
to), and `NamesKeepApart`, which is refuted. Liveness is beyond the prover, and so is what a recursive computation gives for every
input; the rest is planned (section 8).

## 6. Where the code and what is said of it part

Two are runs of their own:

* `mode_fallback_race`: evcc.go:225-227 says the fallback returns "every unit whose
  hold/charge has stood longer than timeout without evcc sending it again". The
  list is made under `mu` (231-238) and applied later without looking again
  (240-252). A command that arrives in between, or while an earlier unit of the
  list is written to (up to 15 s), is undone. evcc repeats its mode, so the next
  repetition heals it.
* `instances_client`: README.md:120-126, addon/DOCS.md:38 and config.go:107-108
  say a name of its own is what keeps two instances on one broker apart. Every
  instance connects with the client id `config.MQTTClientID` (main.go:321,
  config.go:24-25), which no key changes; a broker ends the session of a client
  id that connects again, and the lifecycle reconnects, so two instances with
  different names end each other's session for good, each time firing the will.

These showed when the models were run with the bounds or outcomes that the
passing runs exclude. Each is told here because the runs do not show it:

* *Settings of a refused hold.* `saved` is documented as nil while `normal`
  (evcc.go:51-52), but a hold whose write fails keeps it (185-198). If the user
  then changes the unit, a later hold keeps the older settings and `normal`
  restores those.
* *An overtaken report.* A report fetched before a write and merged after it
  (evcc.go:79) undoes the optimistic picture. `normal` may then find no difference
  and write nothing, although docs/evcc.md:45 says it restores.
* *A lost reply.* If a write fails although the unit took it (evcc.go:196), the mode
  stays `normal` and the fallback never selects the unit (234).
* *A lost write on the cloud.* QoS 0 (cloud/source.go:351): `normal` forgets
  settings that never arrived.
* *hold after charge* leaves the unit charging (evcc/evcc.go:179 against the
  comment at 170-171).
* *A hold on a partial cloud report* saves the properties known so far, and only
  these are given back: `NormalRestores` is checked with full reports, the other
  properties of the plane with partial ones too.
* *Two polls at once.* `observe` decides under `reachMu` and tells after it
  (local/source.go:102-104), so `connected` may for one poll interval contradict
  lines 80-82; the same for `online` after a reconnect (coordinator.go:551-553).
  Both heal with the next poll, as `OutputsSettle` in `lifecycle` shows.
* *A stop with a hook at work.* Nothing waits for the connect hook, and when the web
  server's failure ends the daemon the hook is not even cancelled: it can write
  `connected` 1 or 2 after `PublishOffline` (main.go:275-281), and the graceful
  DISCONNECT takes the will along. `QuietStopSaysSo` therefore excludes `late`.
* *Documents.* With two reporters an older document can be written after a newer
  one (discovery.go:175). A publisher overtaken between its write and its mark
  (186) by a sweep's `Forget` or by `Reopen` marks as sent what is no longer
  retained. A report between the reconnect and `Reset` (coordinator.go:482) does
  the same. A failed sweep is not repeated, as the signature was recorded before
  (756).
* *A pack only reported while the session was down* counts as published by that
  report (discovery.go:161), so the sweep spares the document an older process
  left, until the reconnect writes it anew. `swept` counts a sweep only if it
  spared nothing but what this process has written.
* *A name with a `/`* is "kept" (README.md:124-126), but the identity root it gives
  makes a node id of two levels, where harender.go:613-619 requires a legal single
  topic segment. `InstancesAssumption` excludes it.
* *Two bridges with one identity root that read the same unit*, or units and
  packs of which the serials make equal identifiers, would clear each other's
  documents. The bridges of `instances` have different units.
* *Migration.* A link lost inside the window makes an empty, successful sweep
  (`DropInWindow`), and a QoS 0 clear can be lost (`LoseWrites`); the next start
  sweeps again. The instance's own sweep is never retried.
* *A deaf cloud session.* A subscription that is rejected on a live session is only
  logged (cloud/source.go:284-286), and the session is reported up
  (`SubscribeMayFail`).
* *The problem log* is "newest first" (state.go:166) by the order of arrival: the
  time is taken before the lock (154-158), and two writers can swap.

## 7. What is not modelled, and why

* `Derive` and the evcc values, `warnUnmapped`, logging: read-only.
* `New`'s refusal of a runtime of another tree; the length of `retrySubscribe`'s
  backoff; flags, `buildBackend`, the maintenance topics' own handlers (a restart
  request is `Signal`): decided once, or a library's.
* Loading, defaulting and validating the configuration and the catalog: done once,
  before anything runs. What a model needs of them is an assumption on its
  constants; the name, the identity root and the client id are in `Instances`.
* What a document says of an entity but its identity and its topics (classes,
  units, templates), the spelling of topics: data.
* Login's request and signature, HTTP, TLS, JSON: I/O; their outcomes are actions.
* mDNS browsing and the utility, which an operator runs by hand; the version.
* The web server itself: its failure is `WebFails`, its writes are `SetPath`'s.
  Broker link changes in the web UI's health: the store is not told of them.

## 8. Plan

Done, in this order: the battery mode plane with its contract and proofs;
reachability with proofs; documents; set path; migration with proofs; cloud
session with proofs; store; the whole run of the daemon with proofs; several
instances and releases; proofs about documents, set path, the store, the cloud's backoff, several
instances and the restoring of settings where writes are refused.

Next, by what it would add:

1. `MarkedIsDeclared` for a publisher that only a reconnect can overtake. `Late`
   does not tell a reconnect from a sweep, and a sweep makes it false (section 6);
   it needs a constant that does, and what is declared at each stage of a
   publication.
2. The units of one process sharing discovery documents and hook in
   `DiscoveryDocs`, as they share `connected` in `Reachability`.
3. `Derive`'s values over partial cloud reports.
