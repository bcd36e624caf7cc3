# A TLA+ verification of Blueprint Toolkit

Blueprint Toolkit is a Home Assistant (HA) custom integration. Automations made
from its blueprints call services of the integration, and the services hold the
logic. This directory holds TLA+ models of that code, the TLC configurations
that check them on small instances, and theorems about them checked by TLAPS.

`B` below stands for `src/custom_components/blueprint_toolkit`. How to run one
check: `tlc -config TecSafety.cfg MCTriggerEntityController`; one proof:
`tlapm TriggerEntityControllerProofs.tla`. `PROJECT.json` says for every
definition which lines it stands for.

## The system

| Component | State it keeps | Operations | Modelled by |
|---|---|---|---|
| Trigger Entity Controller (TEC), `B/trigger_entity_controller` | per automation `auto_off_at`, the pending wakeup | six event handlers, `_apply_auto_off_at`, `_on_wakeup` | `TriggerEntityController` |
| Sensor Threshold Entity Controller (STEC), `B/sensor_threshold_entity_controller` | samples, baseline, overrides, auto-off start, as JSON in a state entity | sensor, switch and timer handlers | `SensorThresholdController`, `UnitContract` |
| Handler lifecycle, `B/helpers_lifecycle.py`, `B/helpers_runtime.py` | instances by entity_id, unsubscribe callbacks, periodic timers | register, unregister, reload, rename, remove, enable tracker, recovery, tick | `Watchdog`; parts in TEC and STEC |
| Notifications and Repairs, the same files and `B/repairs.py` | what HA shows; payloads of the fix services | create, dismiss, cap, sweep, crash, submit | `Watchdog`, `Installer`, `RouteManager` |
| Z-Wave session and convergence, `B/session_monitor.py`, `B/zwave` | the driver's counters, in a file | `refresh`, convergence test | `ParameterManager` |
| Z-Wave Parameter Manager (ZPM), `B/zwave_parameter_manager` | pending writes in a shared file, last report | parse, resolve, plan, select, issue, merge, report | `ParameterPolicy`, `ParameterManager` |
| Z-Wave Route Manager (ZRM), `B/zwave_route_manager` | applied and pending routes, gates, circuit breaker | parse, resolve, fetch, plan, apply, record | `RouteConfig`, `RouteManager` |
| zwavectl, `B/bundled/bin/zwavectl.py` | none; writes ZPM's files | `param-manager apply` | `ParameterManager` |
| Installer and reconciler, `B/installer.py`, `B/reconciler.py` | symlinks | plan, apply | `Installer` |
| Config entry, `B/__init__.py`, `B/config_flow.py`, `B/cli_token.py` | the entry, the force hand-off, the CLI token | set up, unload, remove, options | `Installer` |
| Battery (BW) and Device (DW) Watchdogs | last scan and its payloads | scan, validate directives, fix | `DeviceChecks`, `Watchdog` |
| Entity Defaults Watchdog (EDW) | last scan and its payloads | scan, five fix services | `EntityDefaults`, `Watchdog` |
| Reference Watchdog (RW) | last scan and its payloads | scan, fix | `Watchdog` (its runs; not what it finds) |
| Trigger Alert Controller | none (a blueprint of HA actions) | alert loop | not modelled |
| Scripts, tests, shared repository files | none at run time | release and development | not modelled |

How they interact: an automation queues or drops runs and calls a service; the
service reads `hass.states`, registries, files or Z-Wave JS, keeps an instance
under the automation's entity_id, issues calls it does not wait for, and shows
notifications or Repairs issues, whose Submit calls back into a fix service or
the set-up of the entry. ZPM and zwavectl share two files.

What makes these parts hard:

- Runs are queued or single: a run sees the state when it is *handled*, not the
  one of the event that queued it, and HA drops what does not fit.
- Calls to devices land later, in an order nobody chose, or not at all; sleeping
  Z-Wave nodes take them hours later, and a driver restart forgets them.
- Timers capture names that renames change, and survive the disabling of what
  they fire. Reloads keep half of an instance, restarts nothing.
- A scan or a reconcile awaits between what it reads and what it writes; a second
  process writes the same file meanwhile.
- What is shown is acted on much later: a fix service, a forced overwrite.

What makes each component correct, in one line:

- TEC: auto-off comes, not too early, and never while something holds the entity
  on; motion turns on; no event order strands an entity.
- STEC: a spike turns on once, a manual off is respected, auto-off comes after
  its delay, release restores the baseline.
- Lifecycle and Repairs: every enabled automation is scanned again, nothing runs
  after an unload, a finding is on one surface, a Submit finds its payload.
- ZRM: routes become those of the file, nothing is sent twice without a reason,
  nothing is shown that is not, the breaker opens and closes.
- ZPM: parameters become those of the policies, what is held back is really in
  flight, settings mean the nearest thing a device can do.
- Installer: foreign files are not touched without force, everything is linked or
  reported, options take effect, the token works.
- Watchdogs: a directive reported as useless is, a fix fixes, fixing ends.

## Modules and runs

| Module | What it is | Runs |
|---|---|---|
| `TriggerEntityController` | the TEC instance, its automation's queue and lifecycle, HA around it | `tec_safety`, `tec_liveness` |
| `SensorThresholdController` | the STEC instance: decision tree, blob, one-minute timer, queue | `stec_settled`, `stec_liveness` |
| `UnitContract` | what a controller of a set of entities promises; STEC implements it | `stec_settled` (`KeepsContract`) |
| `RouteConfig` | ZRM's file: parsing, resolution, the routes it stands for | in `RouteManager` |
| `RouteManager` | ZRM's reconcile from await to await, the mesh, the failures | `zrm_safety`, `zrm_converge` |
| `ParameterPolicy` | ZPM's policies, resolution and plan, as pure operators | in the next two |
| `ParameterPolicyLaws` | what they promise, over samples | `laws` |
| `ParameterManager` | ZPM's reconcile, `zwavectl`, both files, the driver | `zpm`, `zpm_issued_once` |
| `DeviceChecks` | what DW and BW find, directives, the diagnostics fix; laws over samples | `laws` |
| `Samples` | the shape of a specification whose states are samples | `laws` |
| `Watchdog` | the life of a watchdog automation and of what it shows | `watchdog` |
| `Installer` | set-up of the entry, plan and apply, repair flows, token | `install` |
| `EntityDefaults` | EDW's scan and fix services on the entity registry | `edw_settle` |
| `MC...` | instances for TLC: named environments, entities, samples | |
| `TriggerEntityControllerProofs`, `SensorThresholdControllerProofs`, `RouteManagerProofs`, `ParameterManagerProofs`, `WatchdogProofs`, `InstallerProofs`, `EntityDefaultsProofs` | TLAPS theorems about the machine each is named after | |
| `LawsProofs` | the laws of `ParameterPolicyLaws` and `DeviceChecks` for all inputs | |

Conventions of all modules. One action is one piece of work that HA's event loop
does not interrupt: a handler without awaits, or what lies between two of them.
`Env` names what the surroundings do in an instance; `May(kind)` gates it, and
in the modules with liveness they calm down at some point (`calm`, `trouble`, or
a formula `<>[][System]_vars`): nothing is assumed of when. Variables marked
*history* are read by properties and bounds only. Mutants (`\* Mutant: ...`) are
variants of the definition that follows with a plausible bug; nothing uses them,
and each property of a passing run is violated under one of them. Every
state machine has a `TypeOK`, the starting point of a proof; it is a property of a
run for TEC, whose countdowns are the types that are not obvious.

All runs pass but one. `zpm_issued_once` checks what a document says and the code
does not do. Other differences between the code and its documents are modelled as
they are, and the property in question names them as its exception or premise;
each module's known differences list them.

### TriggerEntityController

The state of the code and of the model:

| Variable | Code |
|---|---|
| `timer` | `TecInstanceState.auto_off_at`, as the time left until it (0: due) |
| `wakeup` | `TecInstanceState.cancel_wakeup`: the armed `async_call_later`, with the `instance_id` its closure holds |
| `queue` | runs of the automation (`mode: queued`) waiting, each with its `trigger_entity_id` and `trigger_to_state` |
| `cmds` | `turn_on` and `turn_off` calls issued with `blocking=False` that have not reached the entity |
| `kicks` | background tasks of `register_blueprint_handler` that will call `automation.trigger` |
| `enabled`, `id`, `tracked` | the automation's state, its entity_id, and the one the re-enable tracker listens to |
| `st`, `day` | `hass.states` of the configured entities, `sun.sun` |
| `onFor`, `clearFor` | history only: how long each controlled entity has been on, how long no trigger has been |

One action stands for one atomic piece of work in HA's event loop:

- `HandleTriggerOn`, `HandleTriggerOff`, `HandleControlledOn`,
  `HandleControlledOff`, `HandleDisablingChanged`, `HandleTimer` and
  `HandleNothing`: one run, from argparse to `_apply_auto_off_at`. Nothing in
  the service layer lets another run in between reading the states and writing
  `auto_off_at`; a call that HA starts eagerly changes a state that only the
  next run reads, which is the order "handle, then deliver".
- `FireWakeup` (`_on_wakeup`), `Kick` (`recover_at_startup`, the enable kick),
  `Reload`, `Recreate`, `Rename`, `ReloadEntry`, `Restart`, `Enable`, `Disable`.
- `Deliver`, `Lose`, `Change`, `AttributeUpdate`, `SunMoves`, `Tick`: the world.

Time is kept as time left. Comparing `now >= auto_off_at` is comparing `timer`
with 0, and no last instant has to be chosen, so that liveness can be checked.

### Runs of TEC

| Run | What it shows | Instance |
|---|---|---|
| `tec_safety` | no early auto-off, none while a trigger holds, an armed wakeup is the one of the running countdown, types; with hands, attribute updates, unavailable entities, lost calls, a rename and a restart | 2 lights, motion, an auto-off disabling entity, delay 2, queue 2, two entity_ids |
| `tec_liveness` | no countdown is forgotten over reload, re-creation, restart, disabling and a moving sun; auto-off happens once the surroundings are quiet; with `trigger_forces_on` lights come back on while motion lasts | 1 light, motion, one entity in both disabling lists, triggers at night only, delay 1, queue 2 |

**Bounds.** `MaxQueue` is the blueprint's `max:`. A run without `overflow` keeps
bursts below it (events wait for `Room`). A queue of 2 holds every pair of
handlers in conflict. `MaxCmds` holds back the surroundings and time while two
calls to an entity are in flight, so that two calls with opposite effect can
cross. A delay of 1 tick distinguishes "running" from "due"; `tec_safety`, which
is about the length of the delay, has 2, so that a countdown restarted half-way
differs from one that was not. Entities of a role are interchangeable in the code
(it only asks whether any is on), hence one trigger; the roles with per-entity
decisions (controlled) have two where a property depends on it. `kicks` is a set:
two recovery kicks waiting together queue two `TIMER` runs in HA and one here,
and the second handles nothing the first left (an expired countdown is cleared, a
running one is kept). `missing` and `overflow` are in no run of TEC; the theorems
`TypeCorrect` and `WakeupTheorem` hold with them.

**Fairness.** `FairSpec` assumes weak fairness of handling runs and strong
fairness of each wakeup, kick, delivery and of time. They are tasks and timers of
one event loop, none of which can be starved; strong fairness is used because
`Room`, a bound of the model and not of HA, may come and go while a task waits.
Nothing is assumed of people, sensors, reloads or losses.

### What is proved of TEC

`TriggerEntityControllerProofs` proves for every set of entities, every delay,
queue bound and configuration:

- `TypeCorrect`: `Spec => []TypeOK`.
- `WakeupTheorem`: `Spec => []WakeupOfCountdown`, in every environment. The
  invariant is inductive with the types.
- `LostWakeupTheorem`: `Spec => []NoLostWakeup` without renames, dropped runs and
  missing entities. It rests on `SameId` (the wakeup and the tracker know the
  current entity_id, `SameIdAlways`) and `ConfigOKAlways`: a handler always
  re-arms what it keeps, and a run that handles nothing is not a `TIMER` run.
- `NoEarlyOffTheorem`: `Spec => NoEarlyOff` where no run is lost (`NoRunLost`).
  The action property is not inductive; `OnLongEnough` is: for everything on, the
  time left plus the time it has been on covers the delay, unless its going on is
  still queued. A keeping handler cannot consume that run (`OnEvents`), a
  restarting one satisfies it at once, `Tick` moves one to the other (`AgedLeft`).
  Only an expired countdown turns off (`TurnsOffWhenDue`).
- `NoOffWhileTriggeredTheorem`: `Spec => NoOffWhileTriggered`, in addition for
  triggers that are never suppressed (`NeverSuppressed`), along
  `ClearLongEnough`. With suppression the code keeps a countdown on `TRIGGER_ON`
  by design (`logic.py:280-284`), and the property does not hold.

`PTL` combines the steps; the leaves use SMT and Zenon. The only assumptions are
`ConfigAssumption` (what argparse enforces) and `BoundsAssumption`, which TLC
evaluates in every run.

Model-checked only: the liveness properties `AutoOffHappens`, `MotionTurnsOn` and
`ForcedBackOn` (liveness under fairness is beyond the prover).

### Known differences of TEC

The code does not do what its documents promise in these cases; the runs leave
them out, and a run with them has a counterexample:

- A wakeup armed before a rename finds no instance under the id it captured and
  gives up (`handler.py:578`); nothing re-arms it, although
  `helpers_lifecycle.py:421` promises to "move tracked state on rename".
- The wakeup of a disabled automation still turns entities off (`handler.py:596`),
  against "Every synthetic-trigger call site therefore gates on
  `automation_enabled`" (`AUTOMATIONS.md:454`).

Two more limits contradict no document. Without `trigger_forces_on` a motion event
that meets the auto-off `turn_off` in flight finds the light on and does nothing
(`logic.py:285`): `MotionTurnsOn` is therefore checked with `trigger_forces_on`.
A trigger that clears through `unavailable` is not an event the code classifies,
and starts no countdown (`handler.py:450`): `tec_liveness` has no unavailable
entities.

### Not modelled in TEC

Notification texts and the notify action (it only delays the next run), the
diagnostic state entity, the debug log, the parsing of inputs. The configuration
is constant: a run with an invalid one ends in argparse (`HandleNothing` models
the one case that comes and goes, a missing entity). Renames happen between runs.

### SensorThresholdController

The state of the code and of the model:

| Variable | Code |
|---|---|
| `blob` | the JSON in the `data` attribute of the diagnostic entity: `State.samples`, `baseline`, `overrides`, `auto_off_started_at` (as `timer`); `None`: no entity or no valid blob |
| `minutely` | `StecInstanceState.cancel_timer`: the periodic timer, as the time left to its next tick |
| `queue` | runs of the automation waiting; a sensor's run carries the value of its event |
| `cmds` | `turn_on` and `turn_off` calls issued with `blocking=False` that have not reached the entity |
| `kicks`, `enabled`, `st`, `reading` | as for TEC; `reading` is the sensor's state |
| `onFor` | history only: how long each entity has been on |

`timer` is `auto_off_started_at` plus the timeout minus now, down to 0 (due); the
rounding to the next full minute adds any delay below a minute, chosen at random,
so that the phase of the clock need not be kept. Samples and overrides carry ages
up to the first that is out of the window. Samples are a set, because only their
extremes are asked for, and overrides a set of ages, because only "another one in
the window" is. The sensors of a configuration share one window that does not
tell them apart; the model has one sensor that jumps between values.

One action is one atomic piece of work of HA's event loop:

- `HandleSensor` (with `CheckSpike` and `CheckRelease`), `HandleSwitch` (with
  `HandleManualOverride`), `HandleTimer` and `HandleNothing` are one run from
  argparse to the call: `Handling` arms the periodic timer as `_ensure_timer`
  does, `Loaded` bootstraps a missing blob, `Save` writes it. The notification
  sweep awaited between loading and saving lets other tasks run, but not another
  run of this automation (`mode: queued`), and nothing else writes the blob; its
  order against calls that land is the order of `Deliver` and the handler.
- `PeriodicTick`, `Kick`, `Reload`, `Recreate`, `ReloadEntry`, `Restart`,
  `Enable`, `Disable`: the lifecycle of the shared helpers. A restart drops the
  blob (the diagnostic entity is not restored), a re-creation does not.
- `Switch` (one entity or a group at once), `Fault`, `AttributeUpdate`, `Read`,
  `Repeat`, `Deliver`, `Lose`, `Tick`: the world.

| Run | What it shows | Instance |
|---|---|---|
| `stec_settled` | no early auto-off over hands, groups, takeovers, restarts; `UnitContract` is implemented; a settled sensor turns the set off as long as it goes on reporting; a managed set comes back on, or the sensor lets go | 2 lights, queue 2 |
| `stec_liveness` | nothing unmanaged stays on, whatever was lost before | 1 light, queue 2 |

**Bounds.** Values 0 and 2 with a trigger threshold of 1 and a release threshold
of 0: a spike, a reading on the release level and one above it. Windows of one
tick tell "inside" from "outside"; `stec_liveness` takes windows of 0, in which a
spike is two readings of one tick, because who takes over matters there and not
how long the window is. A minute is one tick, in which rounding up to a minute
adds nothing; that no rounding makes auto-off early is proved for any `Minute`
(below). A restart leads back to an initial state but for the sensor's and the
automation's state. `MaxSamples` bounds the readings of a window to two, the
fewest that make a spike; `MaxCmds` holds time and people back while calls are in
flight, so that a call may be late by whole runs and by a tick, but not for ever;
`MaxQueue` is as for TEC.

**Fairness.** As for TEC. Nothing is assumed of the sensor: that it reports again
(`Repeat`: an attribute changed, the value did not) is the premise of
`SettledTurnsOff` (`KeepsReporting`), which does not hold without it (see below).
`stec_settled` has no `overflow`: a sensor that fills the queue at all times
starves the minute tick and everything else, in HA too, and no fairness of tasks
helps.

**The contract.** `UnitContract` knows nobody, a person or the sensor in charge, a
countdown while a person is, and the calls. It says that the sensor is never
handed over to a running countdown, that a countdown starts at its full length
only, that turn_on calls go out to the whole set and only in the sensor's name,
and turn_off calls only when the sensor or an ended countdown lets go. The
mapping reads `owner` off the blob (`Owner`, `TimeLeft`).

**Proved** (`SensorThresholdControllerProofs`), for every set of entities, every
configuration and bound, from `ConfigAssumption`, `BoundsAssumption` and
`NoneAssumption` (`None` is neither a number nor a blob):

- `TypeCorrect`: `Spec => []TypeOK`; that a baseline is a value rests on the
  minimum of a non-empty set of naturals (`LowestType`).
- `ContractTheorem`: `Spec => KeepsContract`. Every run is one of five outcomes
  (`Outcome`, lemmas `SensorOutcome`, `SwitchOutcome`, `TimerOutcome`), each
  outcome a step of the contract or a stutter (`OutcomeAllowed`). The invariant
  it needs is `ManagedNoTimer`: without it an override would keep a countdown
  under the sensor.
- `NoEarlyOffTheorem`: `Spec => NoEarlyOff` where no run is lost (`NoRunLost`),
  along `OnLongEnough`: for everything on, the time left plus the time it has
  been on covers the timeout, unless its going on is still queued.

Model-checked only: the liveness properties.

**Known differences.** Each has a counterexample when the run admits it:

- Release is looked at on SENSOR runs only, against the maximum of the window
  (`logic.py:369`), and the maximum falls by time alone. If the settling reading
  comes while the spike is in the window and the sensor is silent from then on, the
  set stays on for good: the blueprint has no time trigger, and the minute timer
  leaves a managed set alone. So `SettledTurnsOff` has the premise
  `KeepsReporting`, against
  `sensor_threshold_entity_controller.md:90`, "When humidity returns to normal
  across all sensors, the entities turn OFF".
- Two entities turned off together are two SWITCH runs that both see all off
  (`logic.py:458`): one hand counts as the double-off of
  `sensor_threshold_entity_controller.md:62`.
- The samples survive the double-off (`logic.py:464`): the next reading, even a
  lower one, detects the old spike again.
- Only all off counts as an override (`logic.py:420`), where the document says "if
  any is manually turned off".
- A countdown of before a disabled period, whose switch events nobody saw, cuts
  short what was turned on during it (`logic.py:206`): `NoEarlyOff` does not hold
  with `toggle` in `Env`, and neither does it with dropped runs.

**Not modelled in STEC.** Notification texts; the `initialized` flag and the
startup branch of `_handle_switch` (`logic.py:410`): `handle_service_call` sets
the flag on every blob it bootstraps and `to_dict` saves it, so no saved blob
reaches that branch; malformed blobs, which are handled as missing ones; renames,
which leave the blob under the old diagnostic entity and concern the lifecycle
module; NaN and text readings, which `parse_float` makes `None`.

### RouteConfig and RouteManager

| Variable | Code |
|---|---|
| `file`, `changed` | the YAML file; whether its mtime is not `last_config_mtime` |
| `live`, `queued` | the routes Z-Wave JS reports; what it holds for a sleeping node |
| `pending`, `applied` | the dictionaries of `ZrmInstanceState`, per slot |
| `elapsed`, `again` | `last_reconcile_dt` against the interval; `reconcile_pending` |
| `circuit` | `CircuitBreakerState` |
| `notes` | the notifications shown, by what they are about |
| `run` | the reconcile under way and what it has read so far |
| `strikes`, `calm` | history; the surroundings leave everything alone |

A slot is a node with one of its two priority routes. Durations are flags that
time sets (the interval elapsed, a request overdue, a circuit cooled down), which
keeps the model finite without a clock; a reconcile takes its `now` at its start,
so that time sets them between reconciles only.

A reconcile is `Begin` (argparse, mtime), `ReadConfig` (text, parse, gates),
`Fetch` or one of `FetchTimesOut`, `FetchRefused`, `FetchMismatch` (the bridge,
then `resolve_entities` and `diff_and_plan`), and `Apply` or one of
`ApplyRefused`, `ApplyRejected`, `ApplyCut` (the actions, and `Record`). Edits,
hands and nodes come between any two of them.

| Run | What it shows | Instance |
|---|---|---|
| `zrm_safety` | see `PROJECT.json`; files that do not parse or resolve, an answer that leaves a node or a route out, late and refused calls, nodes that do not acknowledge, driver and HA restarts | lamp, sleepy lock, plug; one route type; 4 files; breaker threshold 2 |
| `zrm_converge` | convergence and notifications after time-outs, rejections, cut connections, routes changed by hand, reloads | as above, one file |

**Bounds.** Three nodes are the fewest with a repeater, an awake and a sleeping
client; a node that is both listed and gone needs no fourth. Two of the files route
the lock through different repeaters, so that a stale route is told from a right one. One answer leaves one
thing out (`MaxHidden`). One route type: the types do not interact but in the set
of failed types of a node, which `Record` keeps apart by slot. A threshold of 2
tells "one failure" from "open"; the code's 3 adds one more of the same.

**Fairness.** Weak for the steps of a reconcile and the waking of nodes, strong
for the three durations (a long reconcile may hold them back). The surroundings
become calm at some point; convergence is claimed after that only.

**Known differences.** One rejected action bails the whole reconcile out
(`handler.py:711`): commands sent to sleeping nodes in it are not tracked and are
sent again; `NoEarlyResend` is checked without `reject`. An error in the file
while the circuit is open sweeps the breaker's notification. A successful argparse
dismisses the configuration error of the run before for a moment on every run. An
awake device that drops its routes silently is sent them every interval and shown
as applied. Promotion of an awake node drops its `timeout_count`. A clear whose
route reads as none is forgotten, and sent again early. The document's
"minute-granularity tick" is a timer of the configured interval.

**Not modelled.** The messages of the websocket, the diagnostic entity, the
per-attempt timeout notifications (each has an id of its own and is never swept by
what is modelled here).

**Proved**, for every house, set of files, threshold and `Env`; assumed are
`ConfigAssumption` (speeds are speeds, the lists of a file are finite sequences) and
`RouteAssumption` (the other constants have their types, `None` is none of them).

Of the file: `NoLineLost`: a file that resolves loses no
line, because a line's repeater is one of the entries' repeaters, hence what it stands
for does not depend on which other nodes answered. `RoutesAreReal`: it gives each of
its nodes a route with a speed. Of several lines for a node the last one exists
because places in a file are triples of bounded numbers (`GreatestNat`, from the
library's well-foundedness of the naturals).

Of the manager: `TypeOK`, `ListedNeverCleared` and `BackOff` in all
surroundings, `NoEarlyResend` and `AppliedLanded` where `Env` has neither `cut` nor
`reject`: both fail with them, as told under the known differences (a reconcile that
sent and is not recorded leaves `applied` and `pending` as they were).

- `TypeInv` adds to `TypeOK` the shape of the reconcile under way (`RunOK`), that it
  has read a file without parse errors (`ConfigOK`) and, once it applies, resolved it
  without errors and kept what it saw (`PlanOK`). With the two theorems about files it
  gives `WantedFacts`, hence `ListedNeverCleared` and the types of all that is sent.
- `BackOffInv`: scheduled strikes are among the calls the breaker counts until it
  opens, a cooled circuit has none and opens at the next, and no scheduled reconcile
  gets past an open one (`StrikesOK`, `GateOK`).
- `LandedInv`: of a sleeping node with a waiting command a reconcile has seen what the
  node still has, or nothing (`SeenOK`).
- `ResendInv` adds that while an untouched command waits the file is the one the
  reconcile has read (`FileOK`), and that such a command is pending or the node has
  what the file says (`HeldOK`). `HeldApplied` is the heart of it: a slot that a
  recorded reconcile neither sends for nor keeps pending matched what it saw.

TLC checks `TypeInv` and `ResendInv` on the instance of `zrm_safety`, too. The
liveness properties are only model-checked.

### ParameterPolicy, ParameterPolicyLaws

The pure part of ZPM: `config.py` (the policy file), `adapter.py` (from a node to a
device and its parameters), `logic.py` (selectors, `resolve` of a concept on a
device, `evaluate_policies`). Every text is a model value, compared casefolded in
the code; floats are exact here (`round` of a half goes to the even neighbour, as
in Python). `ParameterPolicyLaws` states what they promise over samples: every
range 0..1 to 0..3 with every labelling of its states, plans of every combination
of four overlapping policies and three devices. How the mapping table is parsed is
not modelled; that it does not parse is (`mapping` of `ParameterManager`).

**Known differences.** A concept in minutes on a parameter in "%" is converted as a
percentage. `on` and `off` can map to the same raw value if one label is
recognised and the other falls back; the words of low and high are looked for in
labels that may hold both (`logic.py:687`). Two concepts that resolve to one parameter
are not a conflict: `OneAnswer` is about what the conflict check promises, and its
samples have no such pair. The law `UnusedIsUseless` looks at writes and errors,
as the report does, not at warnings.

**Proved** (`LawsProofs`), for every input and not only the samples: all four laws.
What is assumed is `LawsAssumption` (the policies have distinct names and settings of
known concepts, as in a file without errors; no parameter stands for two concepts)
and `CatalogAssumption` (scales and ranges are integers in order, units are positive,
a parameter id is there once on a device, and no concept of a time is located on a
parameter in "%", the known difference above). Both are evaluated by `laws`.

- `EveryAskIsAnswered`: an ask that resolves is written or in conflict, one that does
  not is warned of or an error; two writes to one parameter come from one concept,
  and asks of one concept with two values are a conflict, which takes both out.
- `UnusedSettingsAreUseless`: the asks without the setting are those of the plan less
  its own. It is useless if another policy asks the same; otherwise its write, its
  error or the conflict it is in is missing from the other plan.
- `QuantitiesAreNearest` and `ScalesKeepOrder` rest on the arithmetic of
  the module's first part: `RoundedNear` (rounding a quotient half to even is nearest),
  `RoundedOrder` (and keeps order), `ClampedNearest` (a clamp of the nearest integer
  is the nearest integer of a range), `ScaleOnRange`. The quantities of the theorem
  are all tenths; the law that TLC checks names six of them.

### ParameterManager

| Variable | Code |
|---|---|
| `pending` | `zpm_pending.json`: `issued_at`, the commands |
| `session` | `zwave-js-info.json`: counters, `last_reset_at` |
| `driver`, `queue`, `actual` | the driver and its counter, the writes it holds, the values of the nodes |
| `memory` | `ZpmInstanceState`: `last_config_mtime` against the file (`changed`, `edited`), `last_configured_nodes` |
| `notes`, `desired` | what is shown |
| `run` | per actor (handler, zwavectl, session monitor) the run under way, with the counters it has sampled |
| `clock` | resets recorded so far: a time is what happened before it |

`Load`, `SampleSession`, `ReadSession`, `Decide`, `Merge`, `Report` are the
reconcile between its awaits; `CliBegin`, `CliSession`, `CliDecide`, `CliMerge` are
`zwavectl param-manager apply`, which may be killed or fail at a write;
`MonitorSamples` and `Monitor` the session monitor. All three sample the counters
first and fold them into the record later (`Fold`): whether the driver restarted in
between is kept as `current`, so that a stale sample folded after a newer one, which
looks like a reset, happens. Each file is read and
replaced under its lock, hence in one step. Both plan with
`PlanOf`, that is with `EvaluatePolicies` of `ParameterPolicy`.

| Run | What it shows | Instance |
|---|---|---|
| `zpm` | what the pending file holds back is in flight; the handler repeats a write only after a reset; parameters and reports converge | one sleepy sensor, which may join later, one parameter, 3 files, one of them with an error, one driver restart, one run of zwavectl, one reset before the monitor stops sampling |
| `zpm_issued_once` | `IssuedOnce` is violated, see the known differences | the same |

**Bounds.** The counter stays at its maximum of 1: only "lower than recorded" is
ever asked, and a driver that starts over at 0 is lower. One restart and one run of
zwavectl: what they disturb is repaired by the next reconcile, so that a second one
starts from a state the first can too. The monitor samples no more once a reset is
recorded (`MaxResets`); until then handler, zwavectl and monitor may each hold an old
sample, and up to three resets are recorded after the one restart, two of them
spurious. One parameter: keys
meet only in the plan (`Contested`, see `laws`) and in the time of the file, which a
node that joins does not change. For the two safety properties the proofs need none
of these arguments.
Either somebody uses zwavectl or somebody edits the file (`shared`).

**Fairness.** Weak for the handler's steps (its tick comes again), each landing
write and the driver's coming back.

**Known differences.** These are excluded by guards that name them. Counters that
climb past the recorded ones before anybody looks, or past those zwavectl dumped
before the restart and records after it, hide a restart. A value nobody issued
last stays pending when HA is cut off between the calls and the merge (`cut`) of a
file that was edited, when zwavectl runs next to an edited file, or when a node
joins while it runs (`joincli`): the reconcile that planned without the node
merges its commands into the file zwavectl has renewed after a restart. A parameter
changed out of band that the pending file lists is taken for in flight until the
driver restarts; a write the driver loses or the node rejects stays pending
likewise.

One difference has a run of its own. "A command issued before the last driver restart
was flushed, so it is re-issued; one issued after is still queued and stays
suppressed" (`zwave_parameter_manager.md:166`; likewise `:28`, "at most once per
pending cycle", and `apply.py:9`). The reconcile that finds a restart stamps what it
issues with the time it began, before the reset (`handler.py:378`), so the next one
takes it for flushed and issues it again into the same queue: `IssuedOnce` is
violated (`zpm_issued_once`). What does hold is `RepeatsFollowReset`: with the start
of the issuing reconcile instead of the time of issue.

Writes to nodes without a device entry are recorded as pending
and never issued (`Known`). Keys of removed policies linger. Without a home id
writes are issued at every reconcile.

**Proved** (`ParameterManagerProofs`, every set of nodes and policy files, every
bound, all surroundings): `TypeOK`; `RepeatsFollowReset`; `PendingIsQueued` unless nodes join
while zwavectl runs, or reconciles are cut off where people edit the file. TLC
finds `PendingIsQueued` violated in both cases, hence the two hypotheses. What is
assumed of the constants is `ManagerAssumption`: node ids are unique, zwavectl is
used with files the handler may have, `None` is neither a time, a write nor a file.

- A plan is a function of the file and of the nodes there are, and what it wants of
  a node does not change when others join (`WritesOfPlan`, `AsksOfDevice`,
  `PlanIsStable`); so a run that planned before a node joined is not wrong, only
  incomplete.
- `Basics` adds to the types what every reachable state has in common: an unnoticed
  restart shows in the counters, for zwavectl's dump, too (`Counters`); a run began
  before the reset it acts on (`Times`); nothing is wanted, listed or queued for a
  node that is not there, and a driver that is down holds nothing (`Grounded`).
- Without edits, whatever is wanted, listed or queued is what the policies say
  (`OnTarget`); zwavectl even aims at all of it. `Kept`: what the file lists for this
  session is done, and so is what a run has issued and will list, where its list
  will be of this session. The order of the two stamps decides: a reconcile that
  began before the reset lists under a time that is over.
- With edits, the handler is alone. What is listed may then be overtaken by a value
  of a later file, but only by a reconcile that is about to list it (`KeptAlone`).
- `RepeatsFollowReset` is about a reconcile that decides; what stands between a write
  in the queue and its repetition depends on how far the reconcile is (`AccountedFor`):
  the file lists it under a time no earlier than the reconcile that issued it, or its
  value has arrived, or a reset is recorded since or a restart unnoticed, or it is in
  the list about to be merged (`Accounted`). It is inductive with what keeps a write
  wanted (`Aimed`: the file is not edited under it, `Unedited`) and what a reconcile
  knows of the queue (`Informed`: a driver it found down, or whose restart it has not
  seen, holds nothing). `ClockStep` says why a restart does not go unnoticed without a
  reset.

The proofs step through what an action leaves behind (`AfterLoad`, ..., `Decides`,
`Merges`), which holds for handler and zwavectl alike. `ParametersConverge` and
`ReportsSettle` are liveness and only model-checked.

### DeviceChecks

The evaluation of the Device and Battery Watchdogs as operators on a *house* (the
registry in its order, device names, states with the time they were last
reported, batteries) and the options, the validation of directives, and the fix of
disabled diagnostics. `laws` checks, for 11 houses and every combination of small
options, that a directive reported as unmatched excludes nothing, and that a
submitted repair leaves none and touches no other device.

A regex line is the set of texts it finds, with and without regard to case.

**Known differences.** `validate_and_join_regex_patterns` compiles lines with
regard to case (`helpers_logic.py:705`), `matches_pattern` ignores it
(`helpers_logic.py:613`): a line in another case is reported as unmatched although
it excludes, against "flagged as unmatched precisely when it wouldn't filter
anything" (`AUTOMATIONS.md:217`). The samples have such lines, and
`UnmatchedIsUseless` excepts them (`Miscased`). An inline flag in one joined line
acts on the others. Taking away the last include is left out of the law: an empty
include means everything.

**Proved** (`LawsProofs`), for every house and all options: both laws. Assumed is
`ChecksAssumption`: an entity_id is in the registry once, the records have their
fields, `None` is no integration. Regex lines may find anything.

- `RepairIsDone`: the fix enables what the scan recommended and nothing else, an
  entity that is enabled is recommended no more, and what the scan finds of a device
  depends on that device's entries alone, so that the others keep theirs.
- `UnmatchedDirectivesAreUseless`: each kind of directive is taken away in turn.
  A list item that is no candidate, or a line that finds none, excludes no entity
  and no device unless it finds a candidate in another case (`Matched` over the
  candidates is unchanged), hence the inputs of the
  evaluation are the same.

### Watchdog

| Variable | Code |
|---|---|
| `insts` | `_instances`: per entity_id the timer (with the id its tick captured) and the payloads of the published repairs |
| `tracked`, `kicks` | the enable tracker's entity_ids; tasks about to call `automation.trigger` |
| `auto`, `input`, `entry`, `ha` | the automation, its inputs, the config entry, HA |
| `run` | the run of the automation (`mode: single`), and the instance object it got |
| `world` | the findings that hold |
| `dropped` | history: a kick was dropped for a scan that arms no timer any more |
| `notes`, `issues` | what HA shows |
| `trouble` | how often the surroundings may still interfere |

`Call` is the service up to the evaluation, which runs in an executor; `Publish`
what follows, on the object `Call` got, wherever that is by then. A reload may stop
the run or leave it. `Submit` is the flow of an issue: the fix service looks the
payload up over all instances, and HA deletes the issue whatever it found.

One run, `watchdog`: three findings, two of them with a fix service, a cap of one
repair and of one notification, two entity_ids, four interferences of any kind,
between scans and during them. Three findings are the fewest that exceed both caps;
four interferences let any two kinds meet with two others before, between or after
them. The findings are numbers: the handlers
differ in how they compute them, and `world` changes under any of them.

**Fairness.** Weak for scans, kicks and set-up; strong for the ticks of each timer,
which a scan under way turns down (`mode: single`) but not for ever.

**Known differences.** `automation.reload` keeps the run of an automation it need
not replace, `on_reload` cancels the timer all the same (`helpers_lifecycle.py:444`),
and the kick that would re-arm it is dropped by `mode: single` if the scan still
evaluates; likewise after a set-up that finds the run of the handler before. Nothing
scans then until the next reload, enabling or start by hand, although a reload is to
bring up what is configured (`AUTOMATIONS.md:412`) and "the next scan" is to clear
and bring back findings (`AUTOMATIONS.md:581`). After a rename the timer
and the tracker know the old id. `FindingsSettle` holds but for these two
(`Stranded`, `Unheard`), and the run has both; notes and issues under the old id are
never swept,
and removal leaves them too. After an unload, a removal or a rename a Submit of an
issue left behind finds no payload and ends as if it had (`left`). The note of a
crashed fix service is not under the instance's prefix, hence never swept. The
enable kick does not ask whether the automation is still enabled.

**Proved** (`WatchdogProofs`), for every set of entity_ids and findings, every cap
and all surroundings: `TypeOK`, `UnloadedIsQuiet`,
`OneSurface`, `SubmitFixes`. Assumed are `WatchdogAssumption` (numbers, a finite set
of findings) and `NoneAssumption` (`None` is neither an instance nor a run).

`OneSurface` is inductive: a batch sweeps what is under the prefix of its instance
and names its findings on one surface, and no other step adds to either. The others
hold as parts of `WInv == TypeOK /\ UnloadedIsQuiet /\ RunOK /\ IssuesOK`, because a
run publishes through the object it got before the evaluation. `RunOK`: that object
is still in the table or has been dropped, and dropped it is once the blueprint is
unregistered; only a rename parts its id from the run's. Without it a run that
outlives an unload could put its payloads into a table that should be empty, and
even the types of the table would not be inductive. `IssuesOK`: an issue that is not
left behind has its payload, and no run under way writes under another name to the
instance it belongs to; this needs that before the rename all issues have the old
id. The proof has a lemma per conjunct with a step per action; actions that only
start, end or cut a run share `RunKept`, `RunTriggered` and `IssuesKept`.

### Installer

| Variable | Code |
|---|---|
| `disk`, `stuck` | what stands at each destination; parents that refuse writes |
| `bundle`, `options`, `entry` | this release, the options, the config entry |
| `work` | the set-up under way: plan, conflicts, errors, force |
| `pending`, `reloads` | `pending_force_destinations`; set-ups requested |
| `issues` | the two Repairs issues |
| `token` | the refresh token, the one in the file (which may be empty), the last made; history: whether the last step that wrote or deleted the file failed or was cut |

`Begin` is `async_setup_entry` up to the plan, `Do` one action of the plan or half
an update, `Surface`, `Token`, `Write`, `Register` the rest. `TokenFails` and
`WriteFails` are the errors of the token that the set-up logs and goes on from
(`__init__.py:316`). HA may stop between any two of them; people change files, options, permissions and the token.

One run, `install`: a blueprint and a tool, two CLI directories or none, three
interferences. One path of each root is enough: `apply` treats paths one by one,
and what relates them is the plan. Three interferences allow a conflict, its
forced Submit and something else in between.

**Fairness.** Weak for the set-up as a whole: HA runs one at a time to its end.

**Known differences.** A Submit whose set-up fails again creates its issue anew and
HA deletes it at the end of the flow, so that the failure is hidden until the next
set-up (`repairs.py:10`). Changing or clearing the CLI directory leaves the links
in the old one, also when the entry is removed (`__init__.py:415`). A set-up that
fails to write the token file (`cli_token.py:88`), or is cut off before it, leaves an
older or an empty file for good: a file that is there is taken for the right one
(`cli_token.py:62`). Without an owner nothing is revoked or deleted
(`cli_token.py:45`), and a file that cannot be deleted stays beside a revoked token
(`cli_token.py:58`). `TokenUsable` and `OptionsTakeEffect` except the file since such
a failure (`failed`), never the token. What somebody puts at a path between plan and
apply may be unlinked (`touched`). A forced directory ends in a failure.

**Proved** (`InstallerProofs`), for every bundle, any directories and surroundings:
`TypeOK`, `Accounted`, `NothingClobbered` and `TokenUsable`. Assumed is `InstallerAssumption` (`None` is no path, no action of a plan
and no set-up).

The plan is made at one time and carried out at others, path by path, next to people
who change the paths. `TodoOK` says what it still knows of a path nobody touched
since (`PlanOK`): an action that is left to do meets nothing foreign unless it is
forced, one that keeps a link finds it, a destination of the release is to be done,
linked or named by the set-up, a link of ours that no release asks for is to be removed or
failed. `DoIsOneUpdate` reduces `Do` to one update of one path, so that each action
of the plan is compared with `PlanOK` of its own path and leaves the others'. From
`TodoOK`, with nothing left to do, `Surface` establishes `Accounted`; and the only
step that changes the disk without interference is a `Do` on a path that is forced,
touched or not foreign, which is `NothingClobbered` (`Spared` is its step).
`TokenUsable` is not inductive, since a new token is live before it is in the file:
`TokenOK` excepts the step before `Write`. It does not need that earlier steps
succeeded: the last one is enough.

### EntityDefaults

| Variable | Code |
|---|---|
| `reg` | the entity registry: id, names, cached name, alias, a script's key |
| `excluded` | `exclude_entity_ids` |
| `repairs` | the payloads of the last scan, one per issue |
| `orphans`, `doubled` | ids of registry entries whose script is no more; keys that two blocks of `scripts.yaml` have |
| `since`, `seen`, `failed` | history: what was done since the last scan, the registry that scan saw, whether a submit failed |

`Scan` is `run_evaluation` with the reservations of ids in the order of the code;
`FixIdDrift`, `FixNameDrift`, `FixCachedName`, `FixVisibleAliased`, `FixScriptKey`
are the fix services; `FixScriptKeyLoses` is the last where another block has the
key, `FixScriptKeyFails` where it raises. A name is a pair: whether it begins with the device's default
name, and the rest; an id is a domain, a name and a number.

One run, `edw_settle`: a device with two entities and a helper, or two scripts, all
initial ids, names and keys over two words, one interference, every order of
submits and scans. Two of a kind are the fewest that compete for an id, with every
suffix they can get. The two words are interchangeable (`AnyName`): an id depends on
which names are equal, and its number on the ids in use.

`FixesEnd` says that submitting ends without counting submits. Once something was
submitted, a script is lost, or every entity is as the scan saw it or lower in
`Cost`, and one lower: fewer faults; with
as many faults, an id made of its present name instead of a former one; with that
too, a smaller suffix; with the same id, a script key that fits it. A new name makes
the id drift and a new id the key, so a fix may make worse what comes later in the
four, but nothing that comes before; a key fix that undoes an id fix goes back to
what the scan saw, with a better key. It also says that no submit is void while
nobody touches the registry.

**Proved** (`EntityDefaultsProofs`), for every device, any number of entities and
scripts, any names, options and surroundings: `TypeOK`, which says that no two
entities share an id and that a rename stays in its domain, `FixesDoNotClash` and
`FixesEnd`; and `BetterIsWellFounded`: for every set of entities `Better` has no
infinite descent, so that `FixesEnd` means what its name says. Assumed is
`DefaultsAssumption` (an entity has one place in the scan, scripts have no device).

- `AvailableIsFree`: one more number than there are ids in use is enough, so that
  `Available` finds one (a pigeonhole), the id is nobody else's and not reserved, and
  its number is the smallest such. An id that somebody holds is handed out to nobody
  else, so an entity's own id is free to it: with the right name in its id already,
  it is recommended a smaller suffix or none (`ScannedCloser`).
- `ExpectedIsGivenOut`: from place to place, the ids a scan hands out are distinct,
  of the domain of their entity, and held by no other entity.
- `FreshOf` is the invariant of the payloads while nobody touches the registry. Not
  only are the targets of the renames distinct; no target is held by anybody, is an
  orphan's id, or is the id a script gets back with its key, since `FixScriptKey`
  undoes a rename and leaves the target to the orphan; and each key to be replaced
  is that of one script, or one that a fix has doubled. `ScannedIsFresh` establishes it.
- `RenamedAlong`: after each rename of a payload an entity has its old id or a target
  of that payload, and with nothing in the way (`Unopposed`) none is refused. So the
  other payloads find the registry as `FreshOf` wants it, and `StaysFresh` says what
  the fixes of names, caches, aliases and keys must not change.
- `Progress` is the invariant behind `FixesEnd`, which alone is not inductive. Each
  entity is as the scan saw it or `Improved`, under an id that nobody had in `seen`,
  so that who has an id of a payload is who had it then (`HolderIsOld`). Each payload
  left is still `Planned`: it names entities of `seen`, and what it does to them is
  closer to the recommendation than what the scan saw; a script whose key is to be
  replaced still has the old one. `OrphansApart` keeps the ids of lost registry
  entries and of entities apart. One lemma per fix service (`FixNameProgress` and the
  others), `ScanProgress` for the scan; `ProgressMakesBetter` reads `Better` off it.
- `BetterIsWellFounded`: a descent of four numbers ends (`LowestCost`), so each entity
  comes to rest (`EntityRests`), and a registry has finitely many
  (`NumbersHaveBound` gives the step after which none moves).

**Known differences.** `rename_top_level_yaml_key` counts the blocks of the old key
only (`logic.py:1690`, "without corrupting the file", `logic.py:1686`): where another
block has the new key, HA reads the later of the two, a script is lost, and a fix of
the doubled key raises from then on (`FixScriptKeyLoses`, `doubled`). Two scripts
whose keys are swapped get there by submitting both repairs. `FixesDoNotClash`
excepts that failure alone. An id that another script took since is left out. A stale key fix after an id fix leaves a
registry entry behind and undoes the id, and an orphan's entry with the id of the
payload goes (modelled). Entities with a state and no
registry entry get a repair whose Submit does nothing. A key fix drops
customisations of the registry.

**Not modelled.** Slugs, translations and the text of names; the notifications
that replace repairs when `create_repairs` is off (see `Watchdog`).

## Not modelled

- The Reference Watchdog's scan: it finds what looks like an entity reference in
  YAML, templates and JSON storage, which is text and tree walking over formats of
  HA. Its runs and what it shows follow `Watchdog`.
- The Trigger Alert Controller: a blueprint executed by HA's script engine.
- The subcommands of zwavectl that display, the release and development scripts.
- Everywhere: wording, translations, logging, diagnostic entities.

## Plan

Modelled and checked: all components above. Proved: the types of every state machine,
every safety invariant and action property that a run checks, all laws of the pure
parts, and that the STEC implements `UnitContract`. Only model-checked is:

- Liveness (`AutoOffHappens`, `MotionTurnsOn`, `ForcedBackOn`, `SettledTurnsOff`,
  `ManagedStaysOn`, `RoutesConverge`, `NotesSettle`, `ParametersConverge`,
  `ReportsSettle`, `FindingsSettle`, `OptionsTakeEffect`) needs fairness and
  `ENABLED`, which are beyond the prover.
