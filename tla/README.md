# MaritaV3: models, checks and proofs

MaritaV3 simulates the solar system one tick (ten simulated seconds) at a time
with ships, stations that trade and produce, and signals that travel at the
speed of light. This directory holds TLA+ models of the parts of it that have
control worth checking, the TLC runs over small instances, and TLAPS proofs.
`PROJECT.json` lists components, runs, mutants, findings, hazards, theorems and
the lines of code each definition stands for.

## The system and its parts

| part | state | operations | talks to |
| --- | --- | --- | --- |
| tick executor (`marita-core/src/tick.rs`) | `SimulationState`, observation history | `step`: commands, physics, stations, signals, detections | everything in `marita-core` |
| station economy (`station.rs`, `material.rs`) | stations' stocks, credits, reservations, lines, posters; contracts; message registry | `apply_station_commands`, `settle_contracts`, `update_stations`, `generate_auto_posters`, `emit_market_broadcasts` | called by `step`; emits signal arcs |
| signals (`signal.rs`) | list of arcs | emit, propagate, clip, reflect, cull, cap | masses, sensors |
| observation (`history.rs`, `passive_radiation.rs`, `sensor.rs`) | bounded frames of past states | append, sample, retarded-time search, detections | `step`, detections go to the service |
| spatial index (`spatial_tree.rs`) | quadtree | insert, query | signals, sensors |
| collisions (`collision.rs`) | bodies, ships | merge, separate | `step` |
| physics (`gravity.rs`, `propulsion.rs`, `heat.rs`, `ambient.rs`) | none of their own | floating-point formulas | `step` |
| engine service (`marita-grpc`) | shared state under a lock, command queues, tick broadcast | streams, `GetStationView`, `SubmitStationCommand`, `tick_loop` | agents and viewers |
| station agents (`marita-station-agent`) | none between polls | poll a view, decide, validate, submit | engine service |
| viewers (`marita-luna`, `marita-admin`) | tracks, market feed, command queue | stream, reconnect, forward commands | engine service |
| start-up (`marita-cli`, `state.rs`) | checkpoint file | place stations and ships, load, save, batch run | `marita-core`, service |

What is hard in it, and what makes each part correct:

- **Economy.** A negotiation spans many ticks and several stations; credits,
  goods and reservations move at different times, through loops over contracts,
  lines and posters inside one tick. Correct means: nobody is bound without
  consent, credits and goods are conserved, a promise is kept or refunded once,
  on time, and what is posted is heard once.
- **Service and agents.** Views are of earlier ticks, the lock is released
  between check and use, a decision may take longer than a tick. Correct means:
  a reply that is let through answers a message that was received, a command
  accepted is applied once.
- **Observation.** A bounded history is interpolated; what is seen is as old as
  its light. Correct means: the history has what really was, a report is of
  where a thing was when its light left it, and what is lit and near is seen.
- **Signals.** Angular intervals wrap and overlap; arcs are cut, thrown back,
  culled and capped. Correct means: a cut leaves no gap, nothing is heard before
  or after light comes, and what nothing hides is heard.
- **Quadtree, collisions, gravity, heat.** Algorithms that must agree with their
  definition on borders, for chains of contacts and over long times. Correct
  means: searches are complete, matter and momentum are kept, the orbit step can
  be undone, what the Sun warms it also lights.
- **Viewers.** Connections break, the engine restarts, ticks start anew, and
  forwarders of old connections live on. Correct means: the picture moves on,
  no tick is left out unnoticed, every command is in one place, tracks follow
  what was sighted.
- **Start-up and checkpoints.** Correct means: placement ends whenever there are
  places, and no engine starts from half a file.

## Modules

| module | what it is |
| --- | --- |
| `EscrowBank` | abstract specification of the contracts: a deal takes its price at once, is paid once, whole, to the seller or back to the buyer, when it is due |
| `StationEconomy` | the station economy in detail; refines `EscrowBank` |
| `EconomyAccounts` | balance-sheet properties of `StationEconomy` (sums over stations and contracts) |
| `MCStationEconomy` | constants for TLC |
| `StationEconomy_proofs` | theorems about `StationEconomy` and their proofs |
| `SumLemmas` | sums over finite sets, least and greatest elements: lemmas the proofs share |
| `EconomyAccounts_proofs` | theorems about `EconomyAccounts`, balances and posters, and their proofs |
| `CommandLog` | abstract specification of the command channel: what is accepted is served once, in the order of acceptance |
| `EngineService` | the engine as a server: the lock, the calls, the channel, the tick loop and the agents that call; refines `CommandLog` |
| `MCEngineService` | constants for TLC |
| `EngineService_proofs` | theorems about `EngineService` and their proofs |
| `TickFeed` | abstract specification of what a viewer is promised: what it shows moves on from one publication to a later one |
| `TickBroadcast` | the engine as a process that ticks, publishes and dies; the broadcast ring and the connection of a viewer |
| `Checkpoints` | scenario runs and the file they leave, extends `TickBroadcast` |
| `LunaViewer` | tracks and market feed, extends `TickBroadcast` |
| `AdminViewer` | the way of a ship command through queue, forwarders and streams into a tick, extends `TickBroadcast` |
| `Viewers` | the three composed; refines `TickFeed` |
| `MCViewers` | constants for TLC |
| `Viewers_proofs` | theorems about `Viewers` and their proofs |
| `StartUp` | ephemeris, ships, stations and their ids |
| `Flight` | thrust and the kick-drift-kick step of gravity |
| `Collisions` | merging bodies, bouncing ships |
| `Warmth` | sunlight, shadow, thermal radiation, temperatures |
| `ObservationHistory` | frames of finished ticks, their limit and interpolation |
| `PassiveLight` | retarded time, transmission, emitted and reflected light, passive detections |
| `Sky` | composes the six above into start-up, ticks and restarts |
| `MCSky` | four skies and the other constants for TLC |
| `Sky_proofs` | theorems about `Sky` and their proofs |
| `Mergers_proofs` | the theorem about what mergers conserve and its proof |
| `Plane` | points and directions in integers |
| `Quadtree` | insertion, splitting and queries |
| `SignalArcs` | spreading, cutting, reflection, culling, sending and capping of arcs |
| `Signals` | composes them with listeners into ticks |
| `Signals_proofs` | theorems about the tree's searches and the arcs on the air, and their proofs |
| `MCSignals` | three courses and the other constants for TLC |

### StationEconomy and the code

One call of `step` is a sequence of steps of the model, ordered by `phase`:

| phase | actions | code |
| --- | --- | --- |
| `commands` | `PostMarketMessage`, `StartProduction`, `SetCollectorArea`, `BeginSettlement` | `apply_station_commands`, `try_form_contract`; start of `settle_contracts` |
| `settle` | `Deliver`, `FailDelivery`, `EndSettlement` | loop of `settle_contracts` |
| `stations` | `RunLine`, `IdleLine`, `AgePosters` | loops of `update_stations` |
| `autopost` | `AutoPost`, `NoAutoPost` | `generate_auto_posters` |
| `emit` | `EmitAndAdvance` | `emit_market_broadcasts`, `tick += 1` |

Every iteration of a loop is one action, so invariants hold inside the loops
too. A command that the code skips changes nothing and is no step. The commands
of a tick may come in any order and number, which is what the unbounded queue
in front of `step` allows.

State: `credits`, `warehouse`, `reserved`, `area`, `lines`, `posters` are the
fields of `Station`; `messages`, `nextMsg`, `contracts`, `tick` those of
`SimulationState`; `onAir` records the arcs `emit_market_broadcasts` returned;
`due`, `at`, `line`, `energy` are the local variables of the loops.

Abstractions, all of data:

- Quantities, prices and credits are natural numbers instead of `f64`: rounding
  is not modelled.
- A station is its index; names and positions are left out. The delay of a
  cargo is any member of `TravelTicks`, where the code divides a distance; the
  energy a collector yields is its area times any member of `Irradiance`.
- The ids of contracts and arcs, drawn from `next_id`, are left to the signals
  module; contracts are named by their index.
- `reserved`, `posters` and `messages` are total functions and sets for the
  code's hash maps and vectors. Where a hash map's order decides (equal
  surpluses in `find_surplus_raw`) the model chooses freely.
- Stations are never removed while the engine runs, so the branches of
  `settle_contracts` for a missing party are not in the model.
- A line's `active` flag is always true in the code and is left out.

### EngineService and the code

Three kinds of process meet here: the callers (agents, other programs,
streams), the tick loop, and the channel between them.

| actions | code |
| --- | --- |
| `Poll`, `DecideNothing` | an agent's `GetStationView` and a decision that leads to no call |
| `Submit` | `submit_station_command` under the lock: the identity and reply checks, then the conversion |
| `Send` | `station_command_tx.send` after `drop(guard)` |
| `StreamIn` | `stream_station_commands`, which converts and sends without a check |
| `Wake`, `DrainOne`, `DrainEnd` | the interval fires; `try_recv` until it finds nothing; the lock is taken |
| `Apply`, `Notice`, `FinishStep` | `step`, as far as messages go, and the new detections |

A call that holds the lock is one step, possible only while the loop is not in
its step (`LockFree`). The channel is outside the lock: `Send` and `StreamIn`
may fall between any two steps, also while the loop drains or steps. A caller is
idle, deciding (it has a view, and no lock) or sending (it has had a command
checked, and no lock); any number of ticks may pass in between. A decision of
the deterministic adapter follows from the view it was made on; a language
model may name any message and any station, since `proposal_to_command` refuses
only zeros.

State: `tick`, `said`, `heard` are the engine's; `loop`, `batch` the local state
of `tick_loop`; `queue` the channel; `pc`, `view`, `cmd` the callers' local
state. `accepted`, `applied`, `everHeard`, `refused` are histories that no guard
reads; the properties compare the state with them.

Abstractions:

- The economy is reduced to who said what, who heard it and who is bound by it.
  Whether the parties can honour a contract is left open (`Apply`), and messages
  are kept for ever, as the registry keeps them. Which automatic notices stocks
  call for is a constant (`Notices`).
- What a station receives in a tick is any set of the messages that go on the
  air, provided it has a sensor: distances, delays, repetition and sensitivity
  decide it in the code. A `Reject` has no poster and is never on the air.
- `GetState` only reads. Viewers and ship commands are in `TickBroadcast` and
  `AdminViewer`.

### Viewers and the code

| actions | code |
| --- | --- |
| `Serve`, `Crash` | `marita serve` from the ephemeris or `--checkpoint-in`; the process dies |
| `Publish`, `FlyTick` | a round of `tick_loop` with `tick_tx.send`, and `step` as far as ship commands go |
| `Connect`, `Relay`, `Lag`, `EndOfStream`, `Break` | `resubscribe`, the `BroadcastStream` and its end with "tick broadcast closed"; the client sleeps and connects again |
| `Receive`, `TakeIn` | the client's thread fills an unbounded channel, `try_recv_state` empties it |
| `LunaTakeIn` | `TrackStore::update` and `update_market_feed` |
| `PushCommand`, `Forward`, `ForwardInVain`, `Deliver`, `CloseUplink` | `send_command`, `command_forwarder`, the task of `stream_commands` |
| `BatchStart` ... `BatchEnd` | `marita scenario`; `BatchTruncate` and `BatchWrite` are the two halves of `SimulationState::save` |

A publication is named by its number over all runs, because ticks start anew
with the engine. A forwarder ends only when it fails to send, so those of old
connections stay beside the new one (`forwarders`); when the request stream of
a connection ends is up to the HTTP/2 libraries and left open. `user` is chosen
at the start: one viewer or one scenario beside the engine, since viewers do not
meet each other. A crash may come at any moment, also between truncation and
writing.

### Sky and the code

`Place` is one round of `spawn_stations` or the start of the server; `Step` is
one call of `TickExecutor::step` without signals and stations' trade; `Resume`
saves the state and loads it into a new process, whose history is empty.

| module | steps of `step` | code |
| --- | --- | --- |
| `Flight` | 2 to 7 | `compute_thrust`, `compute_accelerations`, kicks and drift |
| `Collisions` | 9 | `resolve_collisions` |
| `Warmth` | 10, 13 | `AmbientField`, `update_thermal` |
| `Sky!Tracked` | 10 | `update_lagrange_offsets` |
| `ObservationHistory` | 18 | `ObservationHistory::append`, `sample` |
| `PassiveLight` | 18 | `observe_bodies`, `compute_causal_observer_detections`, `sensor_sources` |

The sky is a line and its numbers are integers, so that the arithmetic is exact
and TLC can compare positions; shadows and bearings have two sides. Left out:
the orientation of ships, emissivities other than one, measurement noise, the
spectrum (one number stands for it). The contact hash is taken to be one to one.
Positions that coincide, from which the code computes NaN, do not occur in the
instances. Nor do two bodies without mass, whose merger would divide by zero:
`MassAssumption` allows an ephemeris at most one, and `SkyTypes` says that it
stays so. `NamesAssumption` says that an ephemeris gives each body an id of its
own and names one the Sun. The bounce of two bodies cannot be reached: every loader makes bodies
that merge.

### Signals and the code

One step is what a tick does with arcs: `propagate`, `clip_against_masses`,
`cull_signals_past_sensors`, `emit_signals`, `emit_market_broadcasts`, plumes,
the cap, then reception by every ship and station. Where bodies, ships and
stations are is given as a course, and so is what ships fire and stations post;
`Sky` and `StationEconomy` compute those. A direction is one of 32, the angle a
disc is seen under is taken to a 16th of a turn; three of ten bands are kept:
the one that carries messages and the two of plumes. `heard` keeps only the
detections with a message. Luna's own sensor, which listens as stations do, is left out. The heating by absorbed arcs is not fed back.

## Runs

The configurations of the economy use two stations. `production` has two materials
(`ore`, raw, and `iron`) and one recipe of `SmeltIron`'s shape (one ore a tick for
two ticks gives one iron); `trade` has no recipe, and besides two materials that
nobody trades, one in excess at a station and one short at it. Stocks, prices and energy are scaled to small numbers so that every comparison
comes out both ways.

| run | question | bounds | states |
| --- | --- | --- | --- |
| `trade` | negotiation, contracts, settlement without production: consent, conservation, reservations, timeliness, refinement of `EscrowBank`; posters of agents and automatic notices: how long they hang, that each is on the air once, that neither kind of notice starves the other | 4 messages, 3 ticks, cargo of 1 or 2 ticks, lives of 0 to 3 ticks, a notice every tick with a life of 2 | @trade@ |
| `production` | credits, reservations and matter while lines smelt reserved ore and light varies; a notice an interval; every contract is closed | 3 messages, 3 ticks, 2 lines a station, a notice every second tick with a life of 4 | @production@ |
| `service` | an agent, another advised by a language model that names messages it has not heard, a program that submits under wrong names and unknown kinds, and a stream that offers and accepts: every command is applied once, in order, by the next tick, and at last; nobody is answered out of turn, nobody who calls is bound out of turn; refinement of `CommandLog` | 2 stations, one with a sensor, 3 ticks, 2 accepted commands, an automatic notice | @service@ |
| `viewers` | what viewers show, keep and send through crashes, lags and reconnections; the checkpoint; refinement of `TickFeed` | ring of 1, 3 publications, 2 runs, 2 connections, 2 commands | 325,543 |
| `sky` | start-up, flight, collisions, heat, history and light | 4 ephemerides, 1 or 2 ships, 5 ticks, 1 restart | 4,140 |
| `signals` | arcs among bodies, ships and stations | 3 courses of 4 ticks, 2 messages, 7 arcs | 5,495 |

Why the bounds are enough for what they look for: four messages hold an offer,
a counter-offer and two acceptances, so one offer can be accepted twice and two
contracts of one seller can fall due in one tick or overtake each other; three
ticks hold a contract's formation, transit and settlement, and a batch's two
ticks with a stall between them. Two lines compete for one tick's energy.
`MaxWeight` bounds the weightings of the materials that `MatterAccounted` is
tried with: 2, in `production`, gives the two that balance the one recipe (two
ore to one iron, and nothing to nothing); the theorem has every weighting.
In `trade` an interval is one tick and a notice lives for two, as in the code an
interval is 30 ticks and a notice lives for 60: after the first interval the
surplus and the shortage notice must take turns. Posters of agents live for 0 to
3 ticks, so some go in the tick they are put up and some outlast the run.
`MaxTick`, `MaxMessages` and `MaxLines` are bounds of the model, not of the
code; at the last tick the model stutters (`Finished`).

In the service, two accepted commands are an offer and its acceptance, or two
commands that could overtake each other; three ticks let a view be taken in one
tick, checked in the next and applied in a third. The station of the language
model has no sensor, so whatever it answers was not heard, and every call for it
that answers something must be refused. The stream brings offers and an
acceptance; station 2 is short of something and puts up one notice. `MaxAccepted` and `MaxSaid`
are bounds of the model only; commands are accepted until a tick before
`MaxTick` (`Open`), so that the bound cuts none of them off.

In `viewers` a ring of one publication lags as soon as two ticks are published
unread, as the ring of 16 does after 17. Two runs and three publications let the
ticks go back under a viewer that still has states of the first run; two
connections let an old and a new forwarder share the queue; there are four
stations, ticks and materials to tell apart where the feed holds three, and one
message differs from another in its kind alone. `MaxPublished`, `MaxRuns`, `MaxLinks`, `MaxPushed` and
`WireCap` are bounds of the model.

The skies are chosen for what can happen in them: a Moon behind Earth and Mars
behind the Sun, a Moon that falls on Earth with a stray body after it, no Earth,
and no Sun. Light takes up to several ticks across them, and the range of the
history ends within them. `MaxTick` and `MaxResumes` are bounds of the model.

The courses of `signals` have a station behind a planet, bodies that overlap as
seen from a sender, one that stands across the angle where bearings wrap, a ship
with a beam and a plume, and more arcs than the cap. `MaxNews` is a bound of the
model.

Six runs show where the code departs from what it says of itself; each is a
finding with the quoted line in `PROJECT.json`:

| run | what TLC shows |
| --- | --- |
| `leaked_reservation` | a failed delivery keeps its reservation for ever |
| `batch_inputs` | a batch of two ticks takes inputs that are stated "per batch" twice |
| `late_acceptance` | an offer is accepted after the ticks it "remains open" |
| `late_reply` | a reply is refused as "not received" though its message was received a tick earlier |
| `small_caster` | a planet that looks much smaller than the Sun puts what is behind it in full shadow |
| `echo` | a reflected broadcast is heard where light could not be yet |

The passing properties say what still holds: `ReservationsCover` (no
reservation is ever too small), `IdleReservesInStock` (only production can
undercut one), `AtTheSpeedOfLight` (without reflection no message is early or
late), `ContractsAgreed` (a late acceptance still answers what was offered, and
serves one contract), `MatterAccounted` (what a batch takes tick by tick is what
it gives), `ShadowsAgree` (where the Sun heats it is seen, and where it is seen
and does not heat, it is by a body that looks smaller).

Four properties have in their statement something the code does and a reader would
not expect; the comment of each says so. `BuyersHeardTheOffer` excepts acceptances
that come over a stream, which the engine does not check. `PiecesTile` excepts arcs
across the angle of half a turn, which are not cut, and has shadows mirrored.
`FeedComplete` tells messages apart by station, tick and material, as the feed does.
`MatterAccounted` takes inputs once a tick.

A message with a life of one tick is never broadcast: `update_stations` removes
its poster before `emit_market_broadcasts` runs. Automatic notices are broadcast
but, unlike posted messages, not entered in the registry, so nothing can answer them in the
economy; the service model, which has one list of messages, lets a reply to a
notice through the reply check like any other, as the code does.

Definitions commented as mutants are plausible bugs, one for each property and
run; with the mutant in place of its definition, the run fails that property.

### Further departures seen while modelling

These are in the models as they are in the code; no run of its own is spent on
them.

- Production draws on the whole warehouse, reserved goods included, where
  `services.md:94` says "seller goods are reserved".
- Energy, too, is taken on every tick of a batch (`material.rs:85` has it "per
  batch"). The registry of messages, out of which late acceptances are answered,
  is never pruned.
- `StreamStationCommands` forwards commands without the reply check
  (`service.rs:95-104`), so an acceptance that comes over it can bind a buyer to
  an offer it never received, against "A directed `ACCEPT` replying to a received
  `OFFER` or `COUNTER`" (`services.md:92`).
- A ship that approaches and overlaps a body is moved deeper into it by the
  correction (`collision.rs:204-206`), where `collision.rs:4` says that
  "overlapping pairs are separated".
- An engine whose fuel runs out within a tick limits the fuel and not the force.
- The later of two ships that collide is turned back by the other's new
  velocity, so the pair's momentum is not kept; the property speaks of bodies.
- A body that grows by merging is not tried again on bodies it passed over
  (`MergersConserve` says when a pair may still overlap).
- A station whose body has merged into another stands at its bare offset, near
  the origin; two Lagrange stations exist even for `--stations 1`, and surface
  stations take ids from 2004 on, or whatever the number placed before makes.
- Without a Sun there is no passive observation at all; without a Moon Luna
  reports nothing.
- The tree never grows past two levels: `insert_child` appends without
  splitting, so `max_depth` is of no effect and a crowded quarter is a list.
- `angle_to(X)` turns left into right: beams, plumes and shadows are mirrored
  about the x axis. The ray that asks what a shadow belongs to then misses it,
  and the energy of the cut part vanishes. `union_intervals` splits shadows at the
  angle of half a turn but not arcs, so an arc across it is cut nowhere, whatever
  stands in its way; `signal.rs:3-6` says that what is hidden is absorbed or
  reflected and `signal.rs:308` "Handle wrap-around by splitting at PI boundary".
- A visible piece of a cut arc keeps the whole spectrum, and counts ids up from
  the arc's own, which other arcs have, so that the cap may drop a newer arc
  ("Keep the newest", `tick.rs:241`). An arc that has swept past every sensor is
  kept as long as one stands in its sector.
- Reception does not ask whether the listener is in the arc's sector; two
  broadcasts of one station jam each other; beams and plumes, which have no
  thickness, are almost never over a listener.
- Messages of one station, tick and material but of different kinds are taken
  for one by the Luna viewer (`app.rs:99-103`, meant to "avoid duplicates from
  repeated signal arrivals"); tracks from before a restart of the engine stay as long as its ticks are below theirs.
- The command queue of the admin viewer grows while it is not connected; an old
  forwarder may take commands and lose one with its dead stream, or let a later
  command overtake an earlier one.
- `serve` never writes a checkpoint; loading one ignores the spawn options.

### Fairness

`production` assumes `WF_vars(Tick)`: `tick_loop` calls `step` once a second for
ever and `step` waits for nothing, so a tick that has begun ends and the next
one comes. `service` assumes `WF_vars(TickLoop)` for the same reason: the
interval fires for ever and every call gives up the lock after a bounded amount
of work. `viewers` assumes `WF_vars(Transport)` and `WF_vars(TakeInState)`: the
runtimes at both ends serve what is ready, and the frame loop of a viewer polls
its channel in every frame; the engine may stop ticking or die, the network may
break, the user need do nothing. `sky` assumes `WF_vars(Place)`: the placement
loop is straight code of one thread. Commands, decisions and calls have no
fairness. The other runs assume none.

The loop drains its channel until it is empty. Callers that send as fast as it
drains could keep it from ever starting a tick; with finitely many commands,
which `MaxAccepted` ensures, they cannot. `ServesEveryCommand` shows what holds
for finitely many commands, and no more.

## Proofs

`StationEconomy_proofs` proves, for every number of stations, every recipe,
stock and traffic, under the named assumptions of `StationEconomy` (constants
have their types, travel takes at least one tick, durations are positive, all
of which the code guarantees):

- `TypeCorrect`: `TypeOK` is invariant. It is inductive. That no balance goes
  negative rests on the guards `CanHonour`, `Deliverable` and `CanRun`.
- `ContractsRestOnConsent`: `ContractsAgreed`. The strengthening `RegistryInv`
  says that ids in the registry lie below the counter and ticks not in the
  future, which makes the acceptance newer than the offer. That no two contracts
  share an acceptance follows as the registry gives the one being applied a new id.
- `CargoIsOnTime`: `NoneOverdue`. The strengthening `DueTracked` says that the
  work list of `settle_contracts` holds exactly the open contracts that are
  due; without it the step that ends settlement could leave one behind.
- `EngineImplementsEscrowBank`: the refinement, with `credits` for the funds
  and each contract's price, due time and status for a deal. Forming a contract
  strikes a deal, `Deliver` pays the seller, `FailDelivery` refunds the buyer,
  `EmitAndAdvance` advances the clock (which `NoneOverdue` permits), every
  other step stutters.
- `NoRebroadcast`: `BroadcastOnce`. The strengthening ties the ids on the air
  to the counter and to posters whose flag is set.
- `IdleStationsKeepReserves`: `IdleReservesInStock`, with `TypeOK`.

`EconomyAccounts_proofs` proves the balance sheets, under the same assumptions:

- `CreditsAreConserved`: `CreditsConserved`. Each step either leaves both sums
  alone, moves a price from a buyer into escrow (`AfterStrike`), or moves an
  escrow into one account (`AfterClose`).
- `ReservationsAreKept`: `ReservationsCover`, inductive with `TypeOK`.
  `DeliveriesReleaseExactly` draws the conclusion for the code's `max(0.0)`: at no
  delivery does the subtraction saturate.
- `IdleDeliveriesHonoured`: `EveryDeliveryHonoured`, from the reservations of the
  contracts of one seller and the stock that `IdleReservesInStock` promises.
- `GoodsAreConserved`: `GoodsConserved`, stock by stock.
- `MatterIsAccountedFor`: `MatterAccounted`, for every weighting of the materials
  by natural numbers. The strengthening `BatchesOpen` says that a line between
  two ticks has not finished its batch; without it the tick that finishes one
  could give its output for less than its inputs. Inputs count once a tick, as the
  code takes them; `batch_inputs` shows what becomes of "per batch". The steps that move goods
  (`DeliveryKeepsWorth`, `StartKeepsWorth`, `RunKeepsWorth`) are equations
  between sums.

It also proves, for every instance, of the posters:

- `PostersLiveTheirTime`: `PostersExpire`. The strengthening `LifeInv` holds inside a
  tick as well, when the stations before `at` have aged their posters and the
  others have not, so that the sum of age and remaining life is a tick ahead at
  some stations and not at others. `UpInv` is the other half: a message with life
  left has its poster.
- `NoticesAreFew`: `OneNoticePerInterval`, station by station. `NoticeInv` adds that
  at most one poster of a station waits for its first broadcast without being in
  the registry, and only in a tick of the interval, after its station's turn
  (`OneWaiting`).

Sums are `SumFunctionOnSet`, a fold. The theorems of the library that would
give induction over finite sets take an operator as a parameter; `SumLemmas`
replaces them by a least counterexample (`LeastSubset`) and derives from it that
a sum does not depend on the order of its terms (`FoldsAgree`) and what adding,
removing and changing a term does to it. It also unfolds folds over sequences,
step by step from the first element, for the proofs about the sky.

`EngineService_proofs` proves, for every set of stations, agents, programs and
commands, under `ServiceAssumption` (ids of stations are not 0, clients are no
stations, agents run stations that exist):

- `ServiceTypeCorrect`: `TypeOK` is invariant.
- `EngineImplementsCommandLog`: the refinement. The strengthening `NoneLost`
  says that what was accepted is what was applied, then the batch, then the
  queue, so that the head of the batch is the next command to serve.
- `CommandsServedNextTick`: `NoneWaitsLong`. `Timely` adds that during a step the
  channel holds only commands sent in that tick: the drain emptied it, and the
  batch is empty before the tick advances.
- `RepliesWereReceived`: `CallsAnswerReceived`. `RepliesChecked` carries what
  `submit_station_command` found under the lock over to `Send`: what was
  received once stays in the history, though `heard` has been replaced.
- `BuyersAcceptWhatTheyHeard`: `BuyersHeardTheOffer`. Each contract carries who
  queued its acceptance; of those queued by a stream, which is not checked, the
  property says nothing. What was checked for a call is in the channel, in the
  batch and in the contract what it was (`RepliesChecked`, `NoneLost`), whatever
  streams put between.
- `AgentsAnswerWhoAsked`: `AgentsAnswerTheSender`, from the same fact about
  views and checked commands (`AgentsAnswer`): messages never change, so a view
  may be old without being wrong.

`Viewers_proofs` proves, for every ring, number of runs and connections, under
`BroadcastAssumption` and `LunaAssumption`:

- `ViewersImplementTickFeed`: the refinement. The strengthening `UnderWay` says
  that what is in the channel and on the wire is in the order of publication,
  above what is shown and below what the server's receiver reads next, across
  connections: a new one begins after everything published.
- `NoTickSkipped`: `NoSilentGap`, with the same invariant: `Relay` moves the
  receiver on by exactly the publication it sends, and `Lag` ends the stream
  instead.
- `TracksAreTrue`: `TracksFollowSightings`. `TracksInv` keeps, contact by
  contact, that there is a last sighting among the publications taken in and
  that the track is there exactly while none taken in after it is more than
  `Stale` ticks ahead. It rests on `TakenInStep`: what is taken in is always the
  latest publication so far, though its tick need not be, since the ticks of an
  engine that starts anew begin again.
- `StartsFromASave`: `ServedFromASave`. `SavedFile` says that the file is
  missing, torn or the end of a run that was saved.
- `FeedIsComplete`: `FeedComplete`. A state is taken in by two nested folds, over
  the publications and the messages in each; `FeedIsFold` and `FeedExists` unfold
  the inner one and `NewsOneByOne` lets an argument about one message be made for
  all of them: that a message added shows nothing twice, that all shown was
  heard, and that nothing heard is missing while the limit is not reached.
- `NoCommandDoubled`: `CommandsAccounted`, for every number of connections. Each
  step moves a command from one place to another (`MovedOn`), brings in a new one
  (`CameIn`) or gathers the whole of some places in another (`Gathered`);
  `StepsOfTheCommands` shows that there are no other steps, whichever forwarders
  share the queue.

`Sky_proofs` proves, for every ephemeris, fleet, command, constant of nature and
frame limit, under the assumptions of the modules `Sky` is composed of (the
constants have their types, the tick and the speed of light are not zero, at
most one body of an ephemeris is without mass, no two have the same id or are
both the Sun):

- `SkyIsTyped`: `SkyTypes` is invariant and inductive. The folds of
  `resolve_collisions` are unfolded round by round (`CollisionsAreFolds`): every
  round of mergers leaves bodies with ids that were there before, with natural
  masses and radii (`MergedGoesOn`), and merges no two bodies without mass.
- `OrbitStepReversible`: `Reversible`, in every state. Kick and drift are
  retraced one by one (`BackAgain`), which rests on the second kick being made
  with the gravity of the places drifted to (`SamePull`): the strongest sources
  are chosen by place and mass alone, never by speed.
- `HistoryTellsTheTruth`: `HistoryIsTrue`. The strengthening `Remembered` says that
  the frames are the last of those there ever were, no more of them than ticks
  since the process began, one tick apart, and that what is there now is in all
  of them, since nothing is added after the start. Then the mean spacing, which
  `sample` divides by, is the tick (`SpacedTimes`), its rounded quotient is the
  next frame (`UpperFrameFound`), and the clamped fraction lies between
  (`SampledInside`).
- `NobodySeesTheFuture`: `SeenWhereItWas`, the first part of `LightTakesItsTime`:
  what an observer sees was where it is said to be, at a time this process
  recorded, and light that left then, from a place where the thing was known to
  be, had arrived (light of the Sun by way of what reflects it). It is part of
  the invariant `LooksTruly`. Each correction of `solve_retarded` looks the place
  up in the history at the time that the place before implied. The history knows
  no more than one place for each time (`OneSample`), none outside the recorded
  time, and a sample is as true as `HistoryIsTrue` says (`RememberedIsKnown`); so
  what the three corrections end with, whether or not they have converged, is a
  known place (`LooksBack`), and light never leaves after it arrives.
  `PassiveAssumption` is that the cap, the gain and the noise floor are natural.
- `ShadowTestsAgree`: `ShadowsAgree`, in every state. Of a sky that stands still
  the history tells one sample at all times (`StillSample`), so the body that
  `path_transmission` meets on the way of the light is where `is_sun_visible`
  looks for it (`CrossingStill`). A disc that does not look as large leaves at
  least one percent of what is left (`UncoveredLeft`); so by the fold over the
  bodies light comes through if and only if none of them covers the Sun
  (`LightComesThrough`). `is_sun_visible` lets any body on the way shadow, large or
  small; so where it sees the Sun no body covers it, and where it does not and
  light comes through, the body that shadows does not look as large. Inside the
  Sun nothing shadows (`NoShadowInside`). Both tests must mean the same body by the
  Sun and by every id, which is invariant (`StaysDistinct`), since all that mergers
  leave descend from different bodies.

`Mergers_proofs` proves `MergersConserveMatter`: `MergersConserve`, under the same
assumptions. Two invariants, one inside the other, follow the two loops of
`resolve_body_collisions`. `Gathered`, of the inner one: the growing body is as
heavy as all it has absorbed together, its momentum is theirs up to its mass for
each (what rounding can lose in a merger, `MergedMoves`), and as long as it has
its old mass and radius it is where it was and none of the others it passed
touched it. `Leaves`, of the outer one: the bodies left and those gone are, in
number, mass and momentum, the bodies the rounds have reached (`Balanced`), and
none that is left is among those gone (`Untouched`). That a merger with a body
without mass and size changes nothing, and that a ball grows by what it takes in
(`CubeRootGrows`), are what makes "did not grow" tell the whole story.

`Signals_proofs` proves, of the tree for every sequence of boxes, capacity and
region, of the air for every course, order, message and number of arcs:

- `SearchIsComplete`: a search finds what overlaps the region and nothing else,
  each item once. The invariant of the tree as it is built is `Holds`: every
  entry put in so far lies in exactly one place of one list, those of a child
  are enclosed by the child's box, and all of them by the box of the root
  (`AroundEncloses`). A node that is passed by is off the region, and so is all
  that its box encloses (`EnclosingOverlaps`); what no child encloses stays in the
  root. A split moves the entries and keeps the invariant, since it begins
  anew with empty lists and inserts one after the other.
- `SearchesFindAll`: `SearchFindsAll` at every tick of a run, by `SearchIsComplete`
  and `CoursesAssumption` (bodies, ships and stations are somewhere).
- `PiecesAlwaysTile`: `PiecesTile`, exception and mirror image included. That an arc
  is cut just where `angular_occlusion` puts the obstacles follows from an invariant of the sweep of `union_intervals` (`Swept`): the
  depth is the number of intervals open at the angle that it has come to, and
  what lies before that angle is gathered or begun just if some interval has it
  (`UnitedCovers`; clipping to the sector keeps it, `OccludedCovers`). The
  occluded intervals are in order and inside the arc (`Ascending`, kept by every
  end that is passed: `PassedEndGood`, over the ends in the order that `InOrder`
  puts them in), and what `subtract_intervals` leaves fills the gaps between
  them (`Fills`, `VisibleFills`); so the two cover the sector once
  (`PiecesTileSector`). Each part has its share of the power rounded down, and
  rounded shares of parts do not add up to more than the share of the whole
  (`SharesAdd`); what a body absorbs and throws back together is what it was
  given (`PartsSpare`).
- `HeardAtTheSpeedOfLight`: `AtTheSpeedOfLight`. An arc of generation 0 with a
  message lies between the radii light from its posting has come to, under the
  sender's id, around the sender's place then (`Told`). That outlives spreading,
  cutting (`AirCut`), culling and the cap, and is true of a new broadcast
  (`ToldBroadcast`); what is thrown back has a higher generation.

The last two rest on one inductive invariant, `OfTheAir`: every arc on the air is
one (`GoodArc`: its sector has a natural width and its power is a natural number
in each band) and is `Told`, what was sent is logged with place and tick, and
what was heard is `Heard` of the arcs and listeners there are. They use
`ArcsAssumption` and `ThingsAssumption`: the constants of nature are natural
numbers, radii and albedos too, and an emitter is no wider than a turn; every
loader and constructor of the code gives such.

`SearchesFindAll` and `HeardAtTheSpeedOfLight` are stated of states whose arcs
have an origin (`OnAir`), which holds before the first tick and which no theorem
shows to last: an echo starts at a distance from the body in the direction the
arc came from, and where an arc starts in the very middle of a body `clip_arc`
normalises a vector of length nought. TLC meets no such state in the courses of
the run; it could not evaluate it. `PiecesAlwaysTile` needs no such proviso.

Model-checked only:

- `BothNoticesUp`, which holds because the instance has a surplus and a shortage
  at every station and notices that outlive two intervals.
- `SeenWhenLit` of `Sky` and the second part of `LightTakesItsTime`, that the
  reported delay fits the distance to within one unit: they hold because light
  crosses these skies in fewer ticks than `solve_retarded` has iterations.
- `MessagesArrive` of `Signals`: what hides a station depends on how the sines of
  32 directions round.
- Liveness under fairness (`ContractsClose`, `ServesEveryCommand`,
  `EveryTickShown`, `StartsUp`), which is out of the prover's reach.

## Not modelled, and why

- Spectra bin by bin, measurement noise, orientations, areas and mounts: data the
  properties do not tell apart.
- The feedback between the parts in one model: `Sky`, `Signals` and
  `StationEconomy` are the three thirds of one `step`, joined by what each is
  given of the others (positions, posters, delays, irradiance). Together they are
  beyond TLC.
- Material, reaction, mass and profile tables: data. `SpatialIndex` of
  `spatial.rs`: used by nothing. Benchmark runs: a scenario without a save.
- Rendering, cameras and widgets of the viewers, logging and argument parsing:
  pure I/O. The field-by-field converters of the service.
- The contact form, scripts and web pages: not part of the simulation.
