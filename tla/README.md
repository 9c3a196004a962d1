# cinnamon-settings-daemon in TLA+

TLA+ modules, TLC configurations and TLAPS proofs for
[cinnamon-settings-daemon](../src), the daemon of the Cinnamon desktop that
applies settings, watches hardware and performs the session's power policy.
The source is the reference: every definition that `PROJECT.json` maps names
the lines it was translated from. Line numbers below refer to `src/`; *csd-pm*
stands for `src/plugins/power/csd-power-manager.c`.

Contents: [inventory](#inventory), [plan](#plan),
[modules](#modules-and-how-they-correspond-to-the-code), [runs](#runs),
[bounds](#bounds-and-why-they-are-enough), [fairness](#fairness),
[proofs](#proofs), [known deviations](#known-deviations-of-the-code),
[what is left out](#not-modelled).

## Inventory

The daemon is one process with one GLib main loop. It loads plugins (shared
modules), each with a *manager* object that `start`s and `stop`s, and from then
on everything is a callback: GSettings changes, D-Bus methods, signals and
replies, X events, timers and idles. There is one thread besides the main one (smart cards). What
makes the code hard is therefore not shared memory but *order*: requests that
are answered later, signals that overtake each other, nested main loops,
handlers that run after the object was stopped, caches of what another process
holds, and the X server, which goes on while the daemon is busy.

| Component | State it keeps | Operations | Talks to | Hard behaviour | What makes it correct |
|---|---|---|---|---|---|
| Plugin manager (`cinnamon-settings-manager.c`, `-plugin-info.c`) | plugins by priority; `enabled`, `active`, `available`, the object | load, activate by priority, setting changed, unload, signals | GSettings, the bus | three copies of "should it run"; keys written at any moment; modules that fail | plugins follow their settings, start in order, are stopped |
| `main.c` | two bus names, session registration, SIGTERM | acquire, lose, stop, quit | bus, session manager | two daemons, names lost one at a time | one daemon owns the names; one that stays registers and stops its plugins |
| Session tracking (`cinnamon-settings-session.c`) | `state` | logind monitor; ConsoleKit call chain | logind, ConsoleKit | read before flush; handler connected after the answer | the state is the session's |
| Idle alarms (`gpm-idletime.c`) | alarms, `reset_set`, the reset alarm | set, remove, event filter | X SYNC | input between an alarm and the arming of the reset alarm; stale events | every idle period that was noticed is ended by input |
| Power: idle modes (`csd-pm`) | `current_idle_mode`, `pre_dim_brightness`, panel | alarms, reset, `idle_configure`, lid, D-Bus methods, user switch | X, the backlight helper, session manager | saved level against everyone else who moves the backlight | the user gets back the brightness chosen, and never gets stuck |
| Power: keyboard light | `kbd_brightness_now`, `_old`, `_pre_dim` | dim, toggle, set, step, UPower's signal | UPower | two memories undone in a fixed order; a stale cache | as above; the cache agrees |
| Power: batteries | devices, composite, warning baselines, alert loop, action timers | property changes, add, remove, timers | UPower | orders of signals, UPower before and since 0.99, missed crossings | the critical action follows; alerts end |
| Power: notifications | weak pointer to the notification | warn, hide, closed | notification server | signals of older notifications | no dangling pointer, no leak |
| Power: suspend | the delay lock and its reply, the locker | PrepareForSleep, Inhibit's reply, stop, start | logind, screensaver | suspends, resumes, replies and refusals cross | locked when asleep; no lock leaked |
| Power: lid | the handle-lid-switch lock, two timers, what is known of the monitors | RandR events, lid, timers | logind, RandR | timers around hot-plugging, stale view of monitors | a closed lid suspends the undocked machine, and only it |
| Automount (`csd-automount-manager.c`) | the volume queue, session and screensaver state, the proxy | volume events, session, screensaver appears, vanishes, switches | GVolumeMonitor, screensaver | proxies made asynchronously for a name that goes and returns | nothing waits without need, nothing is mounted behind a lock |
| Screensaver proxy | cookies by sender, watched names | Inhibit, UnInhibit, name vanished, stop | session manager, clients | one client's end against another's inhibitors | an inhibitor lasts until it is given back or its client is gone |
| XRandR (`csd-xrandr-manager.c`) | stored and backed-up configurations, the cycle of fn-F7, open questions | hotplug, lid, keys, store and call, confirm, restore, start | X, the user, a settings program | a main loop inside an idle, and again inside that one | something is on the screen; only what was confirmed stays |
| Orientation | previous orientation, request in flight, lock | uevent, poll, lock, rotation key, stop | accelerometer, XRandR part | changes during a request, behind the lock | the screen follows the device |
| Colour | devices and profiles known to colord | outputs come and go, profile changes, session active | colord, X | chains of calls about an output that has gone | every output shows its profile |
| Housekeeping: disk space | records of notified mounts, ignored paths, notice, dialog | check, mounts change, notice's actions | mounts, the user | nested dialog on old measurements | one notice per real change |
| Housekeeping: thumbnails | two limits, two timers | settings change, purge | files | 32-bit products | no more is deleted than the limits ask for |
| Smart cards | worker thread, pipe, table of cards | look, write, read, stop | NSS | exchanges faster than looks; a thread that ends; null pointers that end the daemon | removals follow insertions, the table of a daemon that lives is right |
| Print notifications | subscription, lease timers, connection attempts | start, test, renew, stop | CUPS, local or remote | leases, restarts of the server, late timers | subscribed as long as it runs, once |
| Media keys: receivers | MPRIS proxy and others; stack of players that called | appear, vanish, grab, release, name news | the bus, players | three sources of news of a name; timestamps | a key reaches a live player |
| Clipboard | contents, conversions, the requestor | save targets, paste, incremental transfers, clear | X clients | transfers that overlap with changes of owner | what is sent stays until it is sent |
| Accessibility: keyboard | the server's original controls, the notification, dialogs | settings, control events, shortcuts, answers | X (XKB), the user | two masters of the same controls; old notifications | controls and settings agree in the end |
| Mouse | touchpads, syndaemon, custom command | hotplug, settings, child ends | X, syndaemon | news of a child that was already replaced | pads and helper follow the settings |
| XSettings | tiers of values, serials, GTK modules, overrides | changes of each source, notify idle, stop | X, GSettings, files | coalesced notifications, directory time stamps | what is published is what is set |
| Date and time mechanism (a service of its own) | kill timer, calls | set time, zone, hardware clock, NTP | PolicyKit, files, tools | partial failures; calls at the timer's end | what was promised as done is so |
| Autorun, keyboard layouts, Wacom, sound, background, cursor, start idles | a window, a flag or a timer each | see `PROJECT.json` | nautilus-like dialogs, libxklavier, X | start idles that outlive stop | nothing happens after stop |

How they interact: `main.c` owns the plugin manager, which owns the plugins.
The power and automount plugins both read the session state and listen to its
changes. Inside the power plugin the idle alarms drive the mode, the mode
drives screen and keyboard; the lid drives the same screen and keyboard behind
the mode's back and shares logind's locks with suspend; the battery part ends
in the same power action as the lid. Automount and suspend both talk to the
screensaver. The screensaver proxy adds inhibitors at the session manager,
whose signal makes the power plugin reconfigure its alarms. The orientation
plugin and the rotation key of the media keys call XRandR over the bus. The
remaining plugins share nothing but the main loop: each talks to an outside
service of its own.

Every component, with its sources and its status, is in `PROJECT.json`
(`components`); every hazard, at its line and with the properties that would
catch it, under `hazards`.

## Plan

Done, in this order: `IdleTime`; `PowerIdle` and `KbdBacklight`;
`PowerIdleSystem`, which composes the first with the mode machine and is shown
to implement it; `PowerBattery`; `LogindLock`, `PowerSleep`, `PowerLid` and
their composition `PowerLogind`; `PowerNotice`; `SettingsManager`,
`SettingsSession`, `ScreensaverProxy`, `Automount`; `DaemonNames`; the display
(`Xrandr`, `Orientation`, `ColorDevices`); the services (`Smartcard`,
`DiskSpace`, `Thumbnails`, `PrintSubscription`, `MprisNames`, `MediaPlayers`,
`Clipboard`); the input and the rest (`A11yKeyboard`, `Mouse`, `XSettings`,
`DatetimeMechanism`); proofs about eight modules (see Proofs).

Components that share no state with others are gathered in `IdleParts`,
`DisplayParts`, `ServiceParts` and `SmallParts`, one run each.

What is left, most important first:

1. Autorun prompts (`csd-autorun.c`: the permission that expires after a
   mount) in `Automount`.
2. The lifecycle of the power plugin: stop and start with timers, the lid and
   the monitors, in `PowerLogind` (hazard csd-pm:4341), and one module for the
   start idles of all plugins.
3. The keyboard's input source switcher, the mode switch of tablets, the flush
   timer of the sound theme.
4. An abstract "saved level" that `PowerIdle` and `KbdBacklight` implement.
5. Proofs: that these abstract modules are implemented, and the safety half of
   `InhibitorsKept`. Every invariant a passing run checks is stated by a theorem
   now.

## Modules and how they correspond to the code

Operators keep the names of the C functions they stand for, in TLA+'s case
(`idle_set_mode` is `IdleSetMode`), and variables those of the private fields.
Operators after a comment "Mutation:" are slips of the pen a maintainer could
make; they are not part of any specification and serve to show that the
property next to them can fail.

**`IdleTime`** - `gpm-idletime.c` and the X SYNC counter it watches. `Tick` and
`Activity` are the server: they move the counter and queue AlarmNotify events
by the rules of positive and negative transitions. `AlarmSet`, `AlarmRemove`
and the `Dispatch` actions are the client. `gpm_idletime_set_reset_alarm`
arms the reset alarm and *then* asks for the counter, which is a round trip:
the two halves are `SetResetAlarm` and `QueryCounter`, and input can arrive
between them. An event whose alarm was destroyed stays in the queue as `Stale`.

**`PowerIdle`** - `idle_set_mode` for the screen, with whoever else moves it:
the D-Bus methods, the lid, fast user switching. A call that can fail has its
outcome drawn from `Outcome`. `user` is a history variable: the level its user
chose last.

**`KbdBacklight`** - the same for the keyboard: DIM uses one memory
(`preDim`), BLANK, the lid and `Toggle` another (`old`), and all compare with a
cache (`now`) of the level UPower holds (`hw`). One handler makes several calls
in a row, so these are functions from state to state.

**`PowerIdleSystem`** - `idle_configure`, `refresh_idle_dim_settings` and the
callbacks of the alarms, over `IT == INSTANCE IdleTime`. `plan` is what is left
of an `idle_configure` that has read the idle time and then makes blocking
calls; the counter goes on meanwhile by up to `Delay`. The property
`IdleTimeSpec` says that the composition implements `IdleTime` under the
identity mapping of its variables.

**`PowerBattery`** - from a reading of the proxies to the warning level (by
percentage or by time, per device or for the composite), the comparison with
the baseline, the alert loop and the critical action. `machine` says which
devices there are and which build it is, since UPower 0.99 changed when the
handler runs.

**`LogindLock`, `PowerSleep`, `PowerLid`, `PowerLogind`** - `LogindLock` is the
pattern that both locks follow (`inhibit_*`, `inhibit_*_done`,
`uninhibit_*`): a flag set before the call is answered, a descriptor, and what
logind holds. `PowerSleep` is suspend and resume with the screensaver;
`PowerLid` the lid, the monitors and two timers. `PowerLogind` composes them:
one main loop, which stands still while the machine sleeps, serves both.

**`PowerNotice`** - the location that holds a notification, which libnotify
clears through a weak pointer when the object dies.

**`SettingsManager`** - the plugin manager from loading to unloading, in phases
because `main()` runs them one after the other; only in phase `main` are
callbacks dispatched, but keys are written at any time.

**`SettingsSession`** - `cinnamon-settings-session.c` for both services.

**`ScreensaverProxy`** - the proxy, its clients and the session manager's
inhibitors. What `name_vanished_cb` does with its variable `sender` after the
loop is modelled as it is: any owner in the table can be the one that is
dropped (`LastSender`).

**`Automount`** - the automounter, with the bus delivering the screensaver's
messages in order and proxies being made asynchronously.
`CheckVolumeQueue` models the list walk that reads a freed link by its two
outcomes.

**`DaemonNames`** - `main.c`: several daemons at one bus, each asking for two
names one after the other, with Stop and SIGTERM at any moment. Nobody takes a
name from its owner, so who asks second waits behind it and is told "lost".

**`Xrandr`** - `csd-xrandr-manager.c`. The two files are variables; saving moves
one to the other. `asking` is the stack of questions whose main loops are nested
in each other, innermost last. Which outputs a configuration turns on is kept,
where it places them is not. **`Orientation`** - `csd-orientation-manager.c` with
`rotate_to` of the former and the rotation key; each asynchronous step of the
start is an action. **`ColorDevices`** - the part of `csd-color-manager.c` that
keeps a device in colord for every output; colord deals with requests in order.

**`Smartcard`** - the worker thread (`Look`, `Write`) and the main loop
(`Read`), with the pipe between them. NSS counts insertions (`series`), which is
how an exchange between two looks is noticed. Two null pointers are dereferenced, of
a key (`Fall`) and of a card (`GetAllCardsNull`): the daemon is gone and with it
all it knew (`Crash`); the session starts it again, which is `StartWorkers` once
more. **`DiskSpace`** -
`csd-disk-space.c` and the dialog; `inside` is the dialog's nested loop.
**`Thumbnails`** - the purge with C's `int` products (`% 2^w` by `Width`).
**`PrintSubscription`** - the subscription and its timers, one unit of time per
step. **`MprisNames`** - `bus-watch-namespace.c` with `mpris-controller.c`;
**`MediaPlayers`** - the list of players that called GrabMediaPlayerKeys, with
32-bit time stamps. **`Clipboard`** - the heap of contents with reference
counts, conversions and the requestor, against X clients that come and go.

**`A11yKeyboard`** - settings and XKB controls, of which either may change the
other, with slow and sticky keys standing for all features.
**`Mouse`** - touchpads, hotplug commands and syndaemon. **`XSettings`** - the
tiers of `csd-xsettings-gtk.c`/`xsettings-manager.c`, serials and the notify
idle. **`DatetimeMechanism`** - each method is a sequence of steps any of which
may fail; `Result` is what the program answers and `Promise` what it means.

**`IdleParts`, `DisplayParts`, `ServiceParts`, `SmallParts`** - modules that
share no variable, side by side: `IdleTime` and `ScreensaverProxy`;
`KbdBacklight`, `Xrandr`, `Orientation` and `ColorDevices`; `Smartcard` and the
six other services; `PowerIdle`, `Automount`, `SettingsSession`, `PowerNotice`,
`DaemonNames`, `A11yKeyboard`, `DatetimeMechanism`, `Mouse` and `XSettings`.
Interleaving them could show nothing, so `part` says which of them moves in a
behaviour, and the others keep one initial state. The set of behaviours of the
moving part is the whole set of that module's own specification.

*Scenarios.* A statement like "the user's level comes back" is true only if no
other client interferes. Instead of a constant per run, each of these modules
has a variable (`upsets`, `machine`, `scene`) that is chosen at the start from
the constant `Scenarios` (`Machines`) and never changes: it says what may
happen in this behaviour. A property that needs calm says so itself
(`upsets = {} => ...`); the others hold whatever happens. Both kinds are then
checked in the same run and proved of the same `Spec`. In `PowerLogind` a part
to which something unusual happens is looked at with the other at rest: the
locks share no state, and calm parts are interleaved with each other.

## Runs

| Run | Module | Distinct states | Shows |
|---|---|---|---|
| `idle_parts` | `IdleParts` | 173 232 | An alarm that was signalled has its reset alarm armed (`IdleHasReset`); when arming is done the next input fires it (`NextInputResets`); and it does, in the end (`InputEndsIdle`). An inhibitor ends only when somebody gives its cookie back or its client is gone, and then, with one client and no restart, it does (`InhibitorsKept`) |
| `idle_system` | `MCPowerIdleSystem` | 875 817 | No active session sticks in an idle mode (`NotStuck`); alarms lie ahead of the counter and inhibitors are honoured (`AlarmsAccounted`); the user finds the session awake (`UserIsBack`); the composition implements `IdleTime` |
| `battery` | `MCPowerBattery` | 257 628 | No crossing of a threshold is lost, the critical action follows, the alert loop ends on AC |
| `logind` | `PowerLogind` | 63 948 | Locks are neither leaked nor doubled (`LockAccounted`) and are there when needed (`LocksKept`); a machine that sleeps is locked in the end; a closed lid suspends it once undocked |
| `manager` | `MCSettingsManager` | 458 539 | Plugins follow their settings, start in order, come to run |
| `display_parts` | `DisplayParts` | 681 255 | The keyboard's level is restored and its cache agrees; something is on the screen (`SomethingToSee`); only what was confirmed stays, also after a crash (`OnlyConfirmedStays`); the screen follows the tablet; every output shows its profile |
| `service_parts` | `MCServiceParts` | 695 022 | A daemon that lives knows its card, removals are paired; the print subscription is kept; media keys arrive at a live player; a paste keeps its data; low mounts do not nag and a purge deletes no more than it must (`HousekeepingKeeps`) |
| `small_parts` | `MCSmallParts` | 1 007 498 | The user's level is kept, a session in NORMAL mode is visible; volumes wait only for what unlocks; one daemon owns the names and knows its session (`DaemonSettled`); notifications are accounted for; controls, pads and XSETTINGS follow the settings (`SettingsReachServer`); what the date and time service said is done is done (`PromisesKept`) |
| `sleep_unlocked` | `PowerSleep` | - | *Violated*: the delay lock is lifted before the screensaver has locked (csd-pm:3983 against the comment at 3924) |
| `battery_plugged` | `MCPowerBattery` | - | *Violated*: the critical action is taken although the machine was plugged in (csd-pm:1670 against the message at 1469) |
| `automount_unlock` | `Automount` | - | *Violated*: one unlock mounts one of the queued volumes and drops the rest (csd-automount-manager.c:194 against 208) |
| `xrandr_first` | `Xrandr` | - | *Violated*: the first configuration ever stored stays on the screen although nobody confirmed it (csd-xrandr-manager.c:542 against the message at 577) |

Five runs do not check for deadlock, since the system really may stop there: in
`manager` and `small_parts` a daemon ends, in `idle_parts` all clients of the
proxy may have left, in `display_parts` the orientation's manager may have
stopped, in `service_parts` the worker thread. In the others TLC shows that the
system can always go on.

## Bounds and why they are enough

| Constant | Value | Why |
|---|---|---|
| `IdleTime`: `Alarm`, `Timeouts` | 2 alarms, timeouts 2 and 3 | two alarms that go off together, one after the other, or while the first is being armed |
| `MaxIdle`, `MaxQueue` | 4, 4 (queue 2 in `idle_system`) | the counter passes every wait value and the reset value, and a full idle period fits into a queue; the code compares values with each other only, so larger ones add nothing new |
| `Prompt` | TRUE | see Fairness and Known deviations |
| `Settings` | dim = blank < sleep, dim only | equal timeouts, an unset timeout; `Fade` 1, `GiveUp` 6, `Delay` 1 keep the order of the real 10 s, 86400 s and 1 s |
| `PowerIdle`: `Min`, `Max`, `DimPercent` | 2, 6, 30 | `Min` above 0, levels below and above the dim level, steps that hit both ends |
| `KMax`, `DimPercent`, `MaxSignals` | 3, 34, 3 | off, dim, two brighter levels; one handler sends up to two signals, a third overtakes |
| `Full`, thresholds | 4; 70/50/25 %, 3/2/1 | each warning level is one energy unit: every crossing, and jumps over a level, occur |
| `Machines` | five | a battery, UPS and mouse; two batteries; an old and a new UPower with every upset |
| `MaxTimers` | 2 | a second critical action while one waits |
| `MaxInbox` | 3 | a reply, a suspend and a resume under way together |
| three plugins | priorities 1, 2, 2 | two of equal and one of higher priority |
| `Volume`, `MaxMessages`, `MaxProxies` | 2, 4, 3 | two queued volumes; the screensaver leaves and returns twice |
| `MaxSignals` (session) | 8 | several switches around each call of the chain |
| `Client`, `Cookie`, `MaxCalls` | 2, 3, 2 | one client with two inhibitors and one with one |
| `MaxNotices` | 5 | notifications whose signals overlap |
| `External`, `MaxAsks` | 1, 2 | laptop and monitor, a question inside a question |
| `Settings`, `MaxEvents` (orientation) | drivers that allow two or four directions, 2 | an event while a call is under way, one more behind it |
| `Connector`, `Profile`, `MaxChanges` | 2, 1, 2 | an output that goes while its device is made, and returns; the primary one moves |
| `MaxSeries` | 5 | two exchanges between looks |
| `Fstab`, `FreeLevels`, `LowFree` | 2, {0, 2, 3}, 2 | below, at and above the threshold |
| `Name`, `Sizes`, `Limit`, `Megabyte`, `Width` | 3, {1, 3}, -1..1, 2, 16 | unlimited, zero and positive limits; products stay within the width here, with a `Width` of 4 they wrap (Known deviations) |
| `Lease`, `Renew`, `Test` | 4, 3, 2 | the order of the real 3600, 3500 and 300 s |
| `Player`, `MaxWaiting`; `Application`, `Client` | 3, 2; 2, 2 | one connected, one waiting, one that appears meanwhile |
| `App`, `Target`, `Long` | 2, 2, 1 | one transfer at once, one in pieces |
| `Daemon` | 2 | each may be first at one of the names |
| `Delays`, `MaxKeys`, `MaxQuestions` | {3}, 1, 1 | one key or question under way; two are a known deviation |
| `Zone`, `Kill`, `MaxCalls` | 3, 1, 2 | two zones with one file's contents, one that is refused; a call at the timer's end |
| `Pad`, `MaxHelpers` | 2, 3 | a helper killed while its successor runs |
| `Translated`, `Extra`, `Value`, `MaxWrites` | 1, 1, 2, 2 | one key of each kind, overwritten while a notification waits |

The bounds are guards of the environment (what the X server, the bus or a user
may have under way), never of a handler: a handler is never kept from running
by a bound, except that it may wait until what it sends fits.

## Fairness

Only what GLib's main loop, a daemon that runs, or a service that answers
justifies:

- `IdleTime`, `PowerIdleSystem`: queued X events are dispatched, a handler that
  has begun finishes. In the composition dispatching needs strong fairness,
  since configuring keeps it from being enabled continuously; GLib serves
  sources of equal priority in turn. Nothing makes the user move or the
  counter advance.
- `Prompt` states that the main loop empties its queue between two units of
  the counter (a unit is a second or more there). Without it `NextInputResets`
  is false: see Known deviations.
- `PowerLogind`: a machine that sleeps is woken up one day; the main loop
  dispatches, the connection to the screensaver comes about, the screensaver
  answers, timers expire. Strong fairness, as suspends interrupt them.
- `SettingsManager`: a pending "changed" signal is dispatched.
- `IdleParts`: as `IdleTime`; the proxy's main loop serves calls and vanished
  names.

The other modules state no fairness: their properties are about what has
happened once everything queued has been dealt with.

## Proofs

TLC shows the properties on the instances above; TLAPS (`tlapm`) proves these
for every value of the constants that satisfies the modules' assumptions. A
component that shares no state with others has its proofs in the module of the
parts it is checked with. Its properties are proved of its own specification
and lifted to `AllSpec`: a behaviour of the parts is one of every part
(lemmas `PartIs...`).

| Theorem | Property | Argument |
|---|---|---|
| `IdleTimeProofs!TypeCorrect`, `OutstandingAlarmHasReset`, `NoInputMissed` | `TypeOK`, `IdleHasReset`, `NextInputResets` | one inductive invariant `IInv` of four parts: types; `EventsInv`, an alarm event in the queue carries the timeout it fired at, so that arming at `value - 1` is possible; `ResetInv`, `reset_set` is up exactly if the reset alarm exists, and whenever an alarm is outstanding or the counter is being asked for; and `PromptInv`, for a client that keeps up: the counter still stands at the value of every queued event or input has set it to 0, and so does it while the counter is asked for. `NextInputResets` alone is not inductive: `QueryCounter` can only tell "input came" from "nothing came" because of `PromptInv`. `NoInputMissed` assumes `Prompt` |
| `PowerIdleSystemProofs!ImplementsIdleTime` | `IdleTimeSpec` | step simulation: each handler of the manager maps to one `AlarmSet`, `AlarmRemove` or dispatch of `IdleTime`, or to a stutter. It needs `PlanInv` only: what an interrupted `idle_configure` has still to set are timeouts the client may ask for, of at least 2 s, which `idle_adjust_timeout` keeps above the idle time it has read. With it the theorems of `IdleTimeProofs` hold of the composition, and are used in the next two |
| `PowerIdleSystemProofs!AlarmsStayAccounted`, `InhibitorsHonoured` | `AlarmsAccounted` | the property has two halves. `HonourInv`: from the time the manager heard of the inhibitor every alarm still set is about to be removed. `AheadInv`, for `Prompt` and `Delay <= 1` (the margin of 2 s allows for no more): an alarm lies ahead of the idle time or beyond `GiveUp`, which needs `PromptInv`, that an event is dispatched before the counter moves on or the counter has fallen to 0 |
| `PowerIdleSystemProofs!NeverStuck` | `NotStuck` | each callback that leaves NORMAL finds `reset_set` raised by the alarm that called it |
| `SmallPartsProofs!TypeCorrect`, `BrightnessKept`, `PanelOn` | `TypeOK`, `UserLevelKept`, `NormalIsVisible` | `TypeOK` is inductive whatever goes wrong. `UserLevelKept` is not: `Saved` adds which of level and `preDim` holds the user's level, and that NORMAL has nothing saved, so that DIM saves the user's level and nothing else. `Visible` extends `NormalIsVisible` to virtual machines, whose panel no mode touches. For every range and dim level, also with `Min` above 0 |
| `DisplayPartsProofs!CacheCorrect`, `UserLevelBack` | `CacheAgrees`, `UserLevelRestored` | `CacheInv`: the last signal under way carries the level that UPower holds; with none the cache does. `KeptInv` adds, for an undisturbed keyboard, where the user's level is in each mode: on the hardware, in `preDim` or in `old` |
| `PowerBatteryProofs!QuietOnAC`, `NoCrossingLost`, `ActionStarted` | `LoopStopsOnAC`, `BaselineFresh`, `ActionFollows` | the first is inductive as it stands, for builds that hear of every change of the client. `BaselineInv` ties each baseline to the warning level of the reading it was taken from; of the composite, that its parts are the batteries on the list; that the composite depends on the readings of its own batteries only is shown by unfolding the finite sum. `ActionInv` adds that a target at the action level has its action started |
| `PowerLogindProofs!NoLockLeaks`, `LocksAreKept` | `LockAccounted`, `LocksKept` | types; at most one reply that grants the lock is under way (`OneReply`); and the four stages of a lock, asked for, granted, in hand, none, in the first three of which the flag is up that keeps the manager from asking again (`Stages`). `LocksKept` needs `CalmInv`, what can be in the inbox in each phase of a sleep, and `LidInv`, the same stages for the lid's lock and that a monitor which was seen has it taken |
| `SettingsManagerProofs!TypeCorrect`, `PluginsFollow`, `StartOrder` | `TypeOK`, `FollowsSetting`, `StartedInOrder` | `FollowsSetting` speaks of the main loop only and is not inductive: `Followed` says for each phase how far the copies have come. While files are loaded nothing runs (`Loading`); in the start-up pass what was visited runs exactly if it is enabled and can be loaded (`Starting`); and a plugin without a pending change was loaded with what its key says (`LoadedAsSet`), which is where keys written between load and main loop are accounted for |
| `SmallPartsProofs!NoticesAccounted` | `NoticeAccounted` | `NoticeInv`: the notifications that are shown or being closed have been made, so that a new one is none of them |
| `SmallPartsProofs!DaemonsSettle` | `DaemonSettled` | `SessionInv`: the last answer under way, or with none the cached flag, is the state of the session, at each point of the connection. `NamesInv`, for any number of daemons: what is in a daemon's inbox, "acquired" before "lost" and each at most once, agrees with its place in the bus's queues |
| `SmallPartsProofs!VolumesWait` | `VolumesWaitForUnlock` | `LockInv`: if the last signal of the screensaver in the inbox says locked, or none is there and the flag does, it is; each event that makes the automounter forget is followed by silence until the next proxy. `QueueInv`: what waits is plugged in, once, and only while session and screensaver are active |
| `SmallPartsProofs!SettingsArrive` | `SettingsReachServer` | three invariants. `AccessInv`: between reading GSettings and writing the server's controls the copy in hand agrees with what was read. `MouseInv`: the newest event in the queue about a pad says whether it is there, and a pad without an event is known if there; helper and pads follow from it. `PubInv`: whatever differs from the published property is stamped later than it and waits for the idle |
| `DisplayPartsProofs!FollowsTablet` | `FollowsAccelerometer` | `TabletInv`: the last event or the answer under way carries how the tablet is held, unless it was turned where nobody could look |
| `DisplayPartsProofs!ConfirmedStays` | `OnlyConfirmedStays` | `MonitorsInv`: `StoredInv` relates the two files to what the user agreed to, with the question open, closed, or after a crash; `FailInv` relates them to the screen where calls fail |
| `DisplayPartsProofs!DefaultsShown` | `ShowsDefaults` | `ColorInv` reads the requests to colord, its answers and its signals as one queue for each output: a device is there or about to be created (`Known`); after an answer that is out of date comes the news that it is (`Noticed`); while "assign already in progress" holds the device will be asked for, and no profile of an earlier answer comes later (`InProgress`); and the default is loaded, or something in the queue loads it or asks for it, and nothing wrong comes after that (`Shows`). Any outputs, profiles and number of changes |
| `ServicePartsProofs!TypeCorrect`, `NoUnpairedRemoval`, `CardKnown` | `TypeOK`, `RemovalsPaired`, `KnowsCard` | the worker decides on up to three reports at once and writes them one by one: `Owed` says that what is left to write continues what was written and ends with an insertion exactly if the table has a card, or with the removal after which the worker falls; `Counted`, that a card that was seen has been counted. `KInv` adds that the last report in the pipe, or with none the manager's table, is what the worker knew. A crash empties all of them. `CardKnown` is therefore about a daemon that lives and has reported something: where a whole card was missed it crashes first. For any number of insertions |
| `ServicePartsProofs!PrintEventsArrive` | `StaysSubscribed` | `PrintInv`: a lease is the one whose number the manager holds, and, in calm, either nothing was subscribed yet and one attempt is under way (`Trying`), or one timer is set that ends before the lease (`Renewing`) |
| `ServicePartsProofs!KeysArrive` | `MediaKeysArrive` | of the players' own calls, `MediaInv`: entries and watches are one to one, a watch whose connection left has its news under way (`Attended`), and the list is ordered by the time of grabbing, the latest first (`Dated`, `Latest`, `Paired`). Of MPRIS, `MprisInv`: of each player the last report under way is right, or with none the watcher knows it or is about to ask; and the proxy, the one being made and those that wait are, without repeats, the players that were reported. For any numbers of players, clients, watches and messages |
| `ServicePartsProofs!ClipboardServes` | `ClipboardKept` | `ClipInv`: each address is held as often as contents and transfers use it, and what a transfer sends is not still being received (`Held`); the events are in an order (`InOrder`): after a request to save comes nothing that would end it, an answer is the last of its conversion, and what carries a time carries the server's; a request to save finds the manager idle and its application the owner (`Requested`); one conversion is under way, and until its targets are there no transfer uses contents, so that what was not converted may be freed (`Converted`); contents is there for the owner, for the conversion, or for a requestor whose end is queued (`Owned`); and an application pastes one thing at a time (`Pasted`). Any applications, targets, events and changes of owner |
| `SmallPartsProofs!ServiceKeepsPromises` | `PromisesKept` | `DateInv` follows each promise into what it is about: the zone into the link or file of local time and every configuration file there is (`ZoneKept`), the clock, the hardware clock and NTP. Then the names that are read, in their order, are searched: before the promised one comes none that is valid (`ZoneFound`). Any zones, files and number of calls |
| `SmallPartsProofs!PartsTyped` | `PartsTypeOK` | the invariants above with the types of what they do not speak of, each inductive without hypotheses: `StateTyped` for the session, `AccessTypes`, `FontsTyped` and `Stamped` for what is published and when, `ServiceTypes` also where tools fail silently, `PadTypes` |
| `DisplayPartsProofs!AlwaysInSight` | `SomethingToSee` | three invariants. `SeenInv`: what is shown has something on, and what is stored for a set of monitors, before or after a question, or offered by fn-F7 fits that set or is none. `SceneInv`: monitors that a scene does not move are there, and a daemon it does not kill runs. `InSight`: a dark screen, with the lid open and the daemon running, means that an event of the monitors that moved is still to come and has not been handled; handling it leaves a configuration `Fit` for the monitors that are there. The outputs are placed from the left one by one, so that what `Sanitize` drops is bounded by how many fit |
| `DisplayPartsProofs!PartsTyped` | `PartsTypeOK` | the types of the keyboard's levels, of the tablet and of colord's queues, and `SeenInv` of the monitors |
| `ServicePartsProofs!HousekeepingHolds` | `HousekeepingKeeps` | both halves are action properties. `NeverNags`: what was told of a mount and when agrees with the notice kept for it, so that a second warning is at least the period later and of less space. `PurgesFit`: the files are removed in the order of their age while a limit is exceeded; the sum that the loop keeps by subtraction is the sum over what is left, so that it stops at the first file it need not take. Sizes, limits and numbers of files are any |
| `ServicePartsProofs!PartsTyped` | `PartsTypeOK` | the types that the invariants of the seven parts carry: watches are those of the entries, the controller keeps one player or waits for one, addresses point into the heap |

Assumptions on the constants are named in the modules, and TLC evaluates them
in the runs. They say no more than that ranges are ranges (`Min < Max`); that
timeouts exceed 1 (`gpm_idletime_set_reset_alarm` arms at `value - 1`, which
must stay reachable), the one to give up included; that sets of devices, pads
and bounds are finite; that a lease is longer than the interval in which it is
renewed; that the owner of a name who is no daemon is none of the daemons
(`ForeignAssumption`) and that no key of GSettings is translated to the two
settings which come from elsewhere (`TranslatedAssumption`); that players are
finitely many and the stand-in for "none" is none of them (`PlayerAssumption`),
watches are numbered (`WatchAssumption`), what is no name of a zone is not among
the zones (`ZonesAssumption`) and the configuration files form a sequence
(`FilesAssumption`); that outputs are finitely many (`ConnectorAssumption`) and what
is no profile is none (`ProfileAssumption`); and that targets are finitely many and
the windows that own a clipboard differ (`ClipboardAssumption`); that mounts come
from a sequence and space is counted in naturals, some of it not low
(`DiskAssumption`), thumbnails are finitely many and their limits integers
(`ThumbnailAssumption`); and that bounds are naturals (`CountsAssumption`,
`AsksAssumption`, `BoundsAssumption`). `ScenesAssumption` adds what a scene of the
monitors is: one of four settings at start, and where calls of the server fail
nothing else happens but requests. Those on
`Scenarios` and `Scenes` list what a behaviour may combine, as does
`SettingsAssumption` for the tablet; what they leave out is among the known
deviations. Theorems with hypotheses of their own: `NoInputMissed` and
`AlarmsStayAccounted`, above, and `ActionStarted`, which takes the action level
to be below 100 %: at 100 a full battery would be there before any level changed;
`KeysArrive`, for times of grabbing that do not come round (`MaxWatches + 1 < Wrap`)
and connections that serve one application each; `ServiceKeepsPromises`, for
tools that do not fail silently and zones whose data is not found under a refused
name only (`Twin`), as then the service answers "UTC"; and `DefaultsShown`, for
outputs that are not replugged before their removal is dealt with (`~Flaps`); and
`ClipboardServes`, for applications that convert to MULTIPLE (`Refusing = {}`) and do
not copy while the clipboard of another is saved (`~Overlaps`): the known
deviations say what happens to the others; the service's `PartsTyped` has the
hypotheses of these two, the display's has `~Flaps`. `HousekeepingHolds` is for
limits that fit an `int` (`LimitsFit`; one that does not is a known deviation), and
`AlwaysInSight` for scenes with `RoomForMost`: without one of its monitors
everything fits on the screen, and monitors are not moved while the daemon may be
dead. With more monitors too many there is no configuration that shows what is
left after one is unplugged, and with "do-nothing" a daemon that was killed while
a monitor was unplugged shows nothing when it is back. The scenes of the run all
satisfy it.

Sums over a finite set are folds of the community modules, which are recursive
functions. What is needed of them is proved by unfolding one element, and by the
least number for which a claim fails (`Least`, from well-foundedness of the
naturals) in place of induction, whose theorems take an operator and cannot be
used. Where a sum is compared at two times, as `HousekeepingKeeps` does, the fold
is followed along a sequence of the files: `FoldExists` gives the function that
the fold is, and `Reaches` that what holds of no file and carries over from one
to the next holds of all.

Only model-checked: all liveness properties (`InputEndsIdle`, `UserIsBack`,
`SleepIsLocked`, `BackpackSuspends`, `SwitchedOnRuns`), since the prover has no
rules for fairness and ENABLED; and `InhibitorsKept`, which ends in one (the end
of a client's inhibitors) and whose other half, that an inhibitor ends only on
request or with its client, has no proof yet.
No module that is proved about, or that one of them uses, declares a RECURSIVE
operator.

## Known deviations of the code

Besides the four runs above, these came up while the scenarios were being
chosen. Where a property or a scenario is named in brackets TLC shows the
deviation when the scenario is in the cfg and the guard of the property is
taken away; they are the reason for the guards. Most of the others are behaviour of the
models as well, without a property that forbids it; those that lie in lines a
model leaves out are noted here only.

Idle and screen:
- gpm-idletime.c:231 - the counter is compared with `<` while the server's
  transition needs a fall from *above* the wait value: a main loop that lags by
  an idle period and reads exactly the wait value misses the next input
  (`NextInputResets` with `Prompt = FALSE`).
- csd-pm:3322-3335 - the margin "for messaging delay" is 2 s, but an alarm set
  2 s after the idle time was read is missed (`AlarmsAccounted` with `Delay = 2`).
- csd-pm:3231 - a level set by a client while the screen is dimmed is
  overwritten on NORMAL (`UserLevelKept`, "adjust"); csd-pm:3075 - after a
  restore that failed, the next dim saves the dim level as the user's
  ("fault").
- csd-pm:2264 - opening the lid lights the panel while the mode stays BLANK.
- csd-pm:2962 - stepping down ends at `MAX (now - step, 0)` although the lowest
  level may be above 0: the call fails at the bottom.

Keyboard (`UserLevelRestored`):
- csd-pm:3248 - a keyboard its user toggled off is toggled on by leaving an idle
  mode ("toggle"); 3249 - with few levels the dim level is 0 and what was
  toggled off is saved as 0 (`KMax = 2`, 30 %); 2073 - a request that is served
  before an older signal is skipped ("lag"); 4529 - Toggle replies with
  (guint) -1 (`ReplyIsPercentage`).

Batteries:
- csd-pm:1808, 1630 - a warning ignored on AC becomes the baseline ("late");
  983 - a daemon started at the action level never acts ("low"); 1069 - since
  UPower 0.99 a battery that is added later is not watched ("hotplug"); 1018 -
  levels between UPower's own thresholds are not looked at ("missed"); 1002 -
  the composite's baseline leaves out the last battery (two batteries, not
  legacy); 4175 - the loop does not stop on AC since 0.99; 475 - a mouse is
  never CRITICAL, as `< 26` is tested before `< 13`.

logind:
- csd-pm:3935 - a lock that is refused leaves `inhibit_suspend_taken` set for
  good (`ReadyToDelay`, "again"); 2158 - the lid is given back to logind after
  the first external monitor, against the comment at 4142; 4169 - a daemon that
  starts with the lid closed never performs the policy (`BackpackSuspends`,
  "closed"); 1114 - the weak pointer of an old notification clears the location
  of the new one, and two are shown.

Daemon core, session, screensaver:
- cinnamon-settings-manager.c:153 - `emit_signal` always emits PluginActivated
  (`HeardIsSo`); 311 - a plugin switched on at run time is not stopped
  (`StoppedInOrder`). Both are stated in `SettingsManager` and can be added to
  its cfg as they are.
- cinnamon-settings-session.c:75 - a switch between read and flush is lost until
  the next one (`missed` in `SettingsSession`).
- csd-screensaver-proxy-manager.c:276 - UnInhibit passes on any cookie of any
  sender, so that one client can end another's inhibitor (`ReleasedOnRequest`
  asks for a request only, not for the owner's).
- csd-screensaver-proxy-manager.c:215 - the end of one client may take away the
  watch on another; 410 - stopping the plugin forgets the inhibitors
  (`GoneIsReleased` without `Alone`).
- main.c - two daemons that start together may each lose one name to the other,
  and both quit (`SomebodyStays`); plugins are started before the names are
  asked for, and a daemon told to stop runs them beside its successor; SIGTERM
  before a name is acquired kills the daemon without stopping its plugins; Stop
  is lost if it is sent before `got_client_proxy` has connected.

XRandR:
- csd-xrandr-manager.c:1049 - what does not fit is trimmed from the left, against
  the comment at 1066; 1208 - `sanitize` stops after the first duplicate; fn-F7
  sticks at a configuration that cannot be applied.
- A second question inside the first: the outer countdown ends the inner loop,
  whose `response_id` was never set, and the outer question has no countdown
  left ("overlap"). fn-F7 and the rotation leave a backup that a start after a
  crash restores ("crash" with "keys"); a first configuration that was never
  confirmed is applied after a crash ("first"); "dock" without a monitor leaves
  an open laptop dark.
Orientation:
- csd-orientation-manager.c:312 - events behind the lock are dropped and the
  unlock works on the orientation before (comment at 330, `UnlockCatchesUp`);
  locking and unlocking quickly leaves two polling timers; 238 - rotations during
  a call, or before there is a proxy, are dropped; 538 - stop leaves an idle,
  timers and the call, and `on_bus_gotten` then dereferences NULL.
Colour:
- A quick replug fails to create the device, which still exists, and the late
  answer about the old one deletes it (`ShowsDefaults` with `Flaps = TRUE`).

Housekeeping:
- csd-disk-space.c:534 - a mount that gets low while a notice is up is recorded as
  notified (`EntryMeansNotice`); the dialog works on old measurements;
  `csd_ldsm_get_config` and csd-ldsm-dialog.c:164 take `G_N_ELEMENTS` of a
  pointer, 1, so that one ignored path only is read or kept;
  `csd_ldsm_clean` frees `ignore_paths` and leaves the pointer.
- csd-housekeeping-manager.c:203 - the limits are computed in an int: 4096 MB is 0
  and deletes everything, 2048 MB is negative and lifts the limit; without a
  limit on the age that on the size is not enforced.
Smart cards:
- csd-smartcard-manager.c:1362 - where a whole card came and went between two
  looks, `key` was given to the table and set to NULL at 1350, and `slot_id_hash`
  dereferences it (:335): the daemon crashes after it has reported removal,
  insertion and removal (`Fall`). 841-856 - the cards at the start are taken from
  the slots without PK11_IsPresent: for a slot that has had no card
  `_csd_smartcard_new` returns NULL (csd-smartcard.c:441), whose name is then read
  (`GetAllCardsNull`), and one whose card has left meanwhile counts as full.
- csd-smartcard-manager.c:1304 - two insertions may be reported without a removal
  between them (`InsertionsPaired`); a card that is taken out before the worker
  first looked is never reported; a thread that fails tells nobody; `stop_worker` runs twice; a worker may outlive stop.
Print:
- the answer to a renewal is not looked at: after a suspend longer than the lease
  the notifications have ended for good; a remote server without printers gets a
  further renewal timer at every test.
- csd-print-notifications-manager.c:1092 - the start idle drops what
  `cups_connection_test` returns, so that with a local server that is late nothing
  tries again before RENEW_INTERVAL is over ("late" without "remote"); 1132 - stop
  does not take back the start idle, which then subscribes for a stopped manager
  ("hasty"), as do an attempt under way and the timer of a late server ("remote"
  with "restart").
Media keys:
- csd-media-keys-manager.c:1057 - time stamps are compared as unsigned
  differences of 32 bits (`LastRegisteredReceives` with `Wrap = 4`); a client
  with two applications leaves an entry behind (`Shares = TRUE`; several clients
  may grab for one application in any case, :1081).
- mpris-controller.c - a player that waits and leaves stays in the list, so that
  keys go to a dead name although others live; a proxy that cannot be made
  leaves the others waiting (`slipped`).
Clipboard (with `Overlaps = TRUE`):
- a copy between SAVE_TARGETS and the change of owner is refused or lost; a target
  that is not there is answered with success; a requestor that dies in the middle
  of a paste in pieces leaves its conversion for good; stop leaves the start
  idle.
- csd-clipboard-manager.c:785 - an application that does not convert to MULTIPLE
  is told that nothing is saved, but the list of its targets stays in `contents`,
  so that every later request to save is refused at 419 until the plugin stops
  (`RefusedWhenBusy` with `Refusing`).

Accessibility, mouse, XSettings:
- csd-a11y-keyboard-manager.c:438 - `on_notification_closed` lets go of whichever
  notification is current, so that after two warnings the buttons of the second
  are dead (`ButtonsWork` with two questions); 895 - a key event writes back the
  server's values of features that are off (`DelayKept`); 954 - a key between
  the two X calls at start is missed; an answer after stop switches AccessX off.
- csd-mouse-manager.c:565 - the end of a killed syndaemon resets the flag of its
  successor, a second one is started and the first never stopped, against 543
  ("to avoid running several of them"; `Lingers = TRUE`); a pad that is switched
  off and unplugged is not noticed; stop leaves syndaemon running.
- csd-xsettings-manager.c:708 - changes of the enabled or disabled GTK modules are
  left to CsdXSettingsGtk, which does not listen (`ModulesFollow`); an override
  replaced by one of a type that is not accepted keeps its old value (`Unknown`
  not empty); stop leaves `notify_idle` (`NoLateIdle`); the second of two changes
  of the module directory within a second is missed.
Date and time:
- csd-datetime-mechanism.c:395, 497 - SetDate and a zone name with ".." are never
  answered; 428 - AdjustTime and SetDate read the clock before the dialog of
  PolicyKit or the external tool; "done" is told when tools fail (`PromisesKept`
  with `ToolsFail = TRUE`); calls that come when the kill timer ends are lost;
  a zone that is "Etc/GMT+1" is found as UTC (system-timezone.c:710); a failure
  leaves /etc/localtime changed and the configuration files old (FIXME at 902).

## Not modelled

Not modelled, or in part only; the note of each component in `PROJECT.json` says
what is missing:

- the autorun prompts, the keyboard plugin's input source switcher, the tablets,
  the accessibility switch, the sound theme's flush timer, background and cursor:
  one flag, window or timer each; they come last in the plan;
- what the media keys do (volume, brightness, screenshots, programs), what print
  notifications say, the translation of each XSETTING, and most device
  properties of the mouse: stateless reactions, one call per value;
- the start of a plugin after a stop, except where a module says so, and the
  plugins' start idles that outlive a stop.

For good left out: texts and formatting (`gpm-common.c`), the phones of a service
that no longer exists (`gpm-phone.c`), EDID and profile parsing (data), drawing
(on-screen displays), thin wrappers of X, vendored code (`cut-n-paste`),
generated code and build files, and `.pc`, which holds copies of earlier
versions of the same files as patches were applied to them: almost half of
the tree's C code is there, of which nothing is built.

Inside the modelled parts: reference counts and memory (except where freed
memory decides what happens next, in `Automount`, `ScreensaverProxy` and
`Clipboard`); plugins whose own `start` fails; stop and start of the power plugin
outside `PowerSleep`; failing calls of the session manager in
`ScreensaverProxy`, which end the program.
