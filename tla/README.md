# Ghostlane, specified

TLA+ specifications of the parts of Ghostlane in which several goroutines,
coroutines, processes or failures meet, what TLC checks of them, and what TLAPS
proves. `PROJECT.json` maps every definition to the source lines it models.

## The system and its models

Ghostlane connects a machine to the internet through a *line* (a sing-box, Xray
or olcRTC process with a local port) chosen from subscription lists, and keeps
traffic from leaving beside it with a kill switch. Three programs do that with
state of their own: the Linux daemon of the CLI, the desktop app, and on a Mac
the root helper the app asks for a tunnel.

| part | where | here |
|---|---|---|
| Linux daemon: requests, connect loop, kill switch, stored config | `cli/internal/daemon` | `Daemon`, `Session` |
| its lists, the selection and what a refresh does to it | `cli/internal/daemon`, `links`, `store` | `Lists`, `Selection` |
| policy rules and the kill switch in the kernel | `cli/internal/routes` | `Routes` |
| macOS tunnel helper | `desktopApp/tunneldaemon` | `Helper` |
| desktop app's session in the Linux tunnel | `sharedUI/.../vpn/DesktopVpnManager.kt`, `.../vpn/desktop` | `Desktop` |
| control socket, engines, config file of the CLI | `cli/internal/ipc`, `engine`, `store` | what the daemon sees of them |
| everything else | | "Not modelled", below |

The three views of the Linux daemon divide it. `Daemon` has every goroutine and
mutex and takes lists, lines and whole netlink operations as choices; `Selection`
(over `Lists`) has the lists and lines and takes bringing a line up as a choice;
`Routes` has every netlink call and the few steps of the daemon around them.

### `Daemon` and `Session`

`Daemon.Run` cleans up what an earlier process left in the kernel, reads the
config, serves the control socket (one goroutine per request), starts
`refreshLoop` and connects the stored selection. A `connect` reads the lists,
stores the selection under `d.mu`, saves the file under `saveMu`, and then,
under `connectMu`, stops the old connection and starts the new one. Stopping
takes `d.cancel` and `d.loopDone` out of the daemon, cancels the loop and waits
for its done channel **with `connectMu` held**. Starting installs or removes the
kill switch and spawns a new `connectLoop`. The loop takes candidates in turn:
engine, own-address rules, front, a probe, supervision, tear-down, and so on
until its context ends. `disconnect`, `remove`, a clean stop and `afterRefresh`
go through the same mutex. `afterRefresh` compares the line that is up with the
lists **under `connectMu`** (`Compare`), reading them again, and fetching and saving
where a cache file is missing; then it leaves the line alone (`Same`) or takes the
loop away and starts anew (`Changed`).

| in the code | in `Daemon` |
|---|---|
| the process, `ctx` of `Run` | `proc`, `ctxDone` |
| `connectMu` | `connectMu` (who holds it) |
| `d.cfg.Selection`, `d.sel`, `d.state`, `d.cur`, `d.loopLive`, `d.ksOn` | the variables of the same names (`cfgSelection` for the first) |
| `d.cancel` and `d.loopDone` | `loopDone`, the loop they belong to |
| a goroutine's place and locals | `pc`, `verb`, `arg`, `clone`, `done` |
| a loop's place and locals | `lpc`, `lsel`, `cancelled`, `lclone`, `anyUp`, `eng`, `front`, `lown` |
| `config.yaml` | `disk` (its selection) |
| rules in the kernel | `ksIn`, `own`; what failed since the last cleanup: `refused` |

A step ends where another goroutine can see what it left: at the end of a
critical section of `d.mu`, before a write of the config file, at a wait. A
finished loop's identity is free again, so `Loops` bounds how many loops can
live at once and not how many there ever are.

`Session` is what the daemon promises, without its threads: at most one selection
is connected, the next only after the last has ended; one with the kill switch
runs only behind a closed box; the box opens or closes only between selections.

### `Routes`

A kernel with or without IPv6, the rules and routes in it, and every call of
`Sync`, `Clear`, `InstallKillSwitch`, `RemoveKillSwitch` and `CleanupStale`, each
of which may be refused (`Faults`) or be the last one the process makes. Two
goroutines: the daemon's (`"caller"`, one at a time under `connectMu` or in its
loop) and `WatchAddresses`'s (`"watcher"`), which are kept apart by `Manager.mu`
(`mu`) and joined by `stop`. The host's addresses change at any moment and the
notification comes later (`updates`, `armed` is its debounce timer). A broken
subscription closes the channel (`WatchBreaks`); the receive at `routes.go:326` does
not ask for that, so the goroutine starts its timer anew in a loop and never again
calls `Sync` (`"spin"`), until it is stopped.

### `Lists` and `Selection`

`Lists`: `add`, `remove`, `refresh` and the fetches they start, over hosts that
serve a list, refuse the device or do not answer. `cfg.subs` is
`d.cfg.Subscriptions`, `cache` the cache files, a refresh runs `Slots` fetches
at a time. `Selection` adds `links.Select`, the resolution of a label, an index
or a country, `remember`, the connect loop's rounds over the lists, `connect`,
`remove` and `afterRefresh`. The config's selection is a pointer to the handler's
local one, so the copy a connect starts with is read while `remember` writes
(`handlers.go:334`): `Copy` takes it field by field, in either order.
`allEntries` copies the subscriptions under `d.mu` and reads the lists one after
the other without it (`daemon.go:129`), so `Snapshot` is one step and every `Read`
another, with a fetch in between where there is no cache file: the lists, the
hosts and the cache may change between two of them. `Only(s, S)` keeps the elements
of `s` that are in `S`, by position; `SelectionMC` checks that it is `SelectSeq`.
A scope is a list's URL or a prefix of several: `Matches` gives the lists it covers.

Candidates are a set, as no property here depends on their order; the ordinal of
a repeated label is left out of ids, as lists in the instance do not repeat
labels; the steps before `startStored` and late or failing saves are in `Daemon`: in
`Selection` a save that fails, and with it `connect`'s and `remove`'s early return
after one, does not happen.

### `Helper`

The root daemon on a Mac. Its threads are the accept loop (`pc`, `req`), the
SIGTERM handler (`term`) and one per death of the tunnel's sing-box (`deaths`);
one `NSLock` lets one of them in at a time. `process`, `stands`, `token` are the
fields of `TunnelChild` and `TrafficHold`; `block` (pf's rules) and `names` (the
resolver's key) are the system's and outlive the daemon. A request's data are the
block it asks for, whether names are to be set, and whether a stop keeps the
block. The binary may be replaced by an update, the daemon may crash and is
started again by launchd, sing-box may die or ignore SIGTERM, arming and starting
may fail, and somebody else may flush pf's anchor. A child of a daemon that
crashed is taken to die with it, as `Daemon.swift:54` does.

### `Desktop`

`DesktopVpnManager` in the Linux tunnel, with lines that are a sing-box or Xray
core. `startVpn` and `stopVpn` move `generation` and then wait for the mutex in a
coroutine of their own (`pc`); the mutex is held to start and stop processes and
let go for the checks. A start builds core, tunnel and session; another location
inside a session is a new line behind the tunnel that stays; a core that dies is
started again behind it (`launchLineAttempts`, `jobs` of its generation); a start
that finds no location ends in an error (`NoLocation`), and a change behind the tunnel
that throws or finds none becomes a full restart (`Restart`). After a
long outage other lines of the country are tried in its place (`Try` to `Moved`,
or `MovedNotUp` where the line stored is no longer up and is started again) and stored
only if the store still names the line that failed. The tunnel's death
ends the session, and with the kill switch leaves the block. `sessionLine`,
`lineGeneration`, `status`, `held`, `started` are the code's; a `SessionLine`
object is its location and a number, as the code compares by identity; `run` is
the location whose core listens, whoever started it. The number is one that
nothing still refers to (`Fresh`), so an identity never runs out and none is used
twice at once. `owed` says that the block has to stand: from the death of a
verified session's tunnel until a Disconnect or a session whose tunnel runs.

The setting of the kill switch is fixed for a behaviour. What the far end answers,
whether a process starts, whether the outage is long enough and whether the
administrator's dialog is closed are choices. A hev process can be stopped and the
dummy device exists. A `lineIsUp` that throws is a check that fails. A cancelled
coroutine ends where it is suspended, except at the mutex, which a free mutex grants
without a look at the job.

## Runs

| run | instance | shows |
|---|---|---|
| `daemon_faults` | one client, two selections, rules and saves refused, crashes | never two loops (`OneLoop`), nothing runs that nobody can stop (`NoOrphan`), the status names what runs (`ShownIsRunning`); the switch and the own-address rules stand as long as they are needed and no longer (`SwitchStands`, `InboundRules`, `IdleIsOpen`, `SwitchHeld`); `Daemon` implements `Session` (`SessionSpec`) |
| `daemon_live` | one client, refreshes, `remove` | the fields a refresh decides by are exact (`LoopLiveExact`, `CurIsHeld`), and who waits for `connectMu` is answered (`Answered`) |
| `routes_faults` | both kinds of kernel, one address, any call refused, a crash after any call | a switch that counts as on is whole (`Closed`), its drop rule always has its route (`DropHasRoute`), nothing is left when it is off (`FailedInstallOpens`, `IdleIsClean`); a `Sync` leads to exactly the addresses it was given (`SyncIsExact`), none comes after a stop (`NoLateSync`) |
| `routes_live` | two addresses, three changes | a notified change is followed (`Follows`), `stop` returns (`StopReturns`) |
| `selection` | a remote list that changes its lines, refuses or is down, an inline list, three stored configs, one request beside ticks | a selection tries lines of its own list only (`TriesItsList`) and stays bound to it, in its loop (`KeepsItsList`) and on record (`StaysInItsList`), comes back when its line is served again (`ComesBack`); a rotated line does not stay up (`Rotates`) |
| `helper` | two blocks, two tunnels, three requests, two faults | until its end is asked for, a block goes only in a start that cannot arm its own (`BlockStays`), a tunnel runs behind its own block (`Behind`), one at a time (`OneTunnel`), and the resolver is its own (`NamesAreKept`) and comes back (`NamesComeBack`) |
| `desktop` | two lines, three requests, two deaths, switch on or off | Connected is said of the line that runs and is stored (`OnItsLine`), Reconnecting only while somebody tries (`SomebodyTries`); the block stands after a death (`HeldAfterDeath`) and is said (`BlockIsSaid`); a last Disconnect wins (`StopWins`); every death is noticed (`Noticed`) |

Each module's `TypeOK` is checked once beside these.

**Bounds.** In `Daemon` two loops suffice for a second one to appear if it could;
two selections are one that wants the switch and one that does not; the proofs
remove these bounds, the number of clients included. In `Routes` an address stands
for all of a kind, as rules are added and removed independently; the proofs hold for
any set. In `Selection` the remote list has two contents that differ in order, in a
line that comes and goes and in the text of one that stays; a second list has a line
of the same label, so that a wrong one could be taken, and a scope that is a prefix
covers both; one request runs beside the loop and the refresher, which is every pair
of the three. In `Helper` three requests are a start, what disturbs it and another
start; the proofs remove the bounds. In `Desktop` three requests are a session, a
change and what supersedes it, and two deaths are those of both processes, or of a
core and of the one started in its place; the proofs remove these bounds too. The
runs that use `CHECK_DEADLOCK FALSE` have such a bound on what arrives from outside,
and end when it is used up.

**Fairness.** `Daemon`: the Go scheduler runs every goroutine (weak); Go's mutex
is handed to a waiter after 1 ms, so a goroutine that finds it free again and
again gets it (strong, on entering); a round of the loop reads finitely many
lists (strong, on leaving the list phase); a supervised line ends when its
context does. `Routes`: both goroutines run and a timer that is not started anew
fires. `Selection`: every goroutine runs; the refresh ticker ticks, and again and
again with every list due, as the due time of each passes (strong, on such
ticks). `Helper`: the threads run, launchd starts a daemon that went down, a
process that was sent SIGKILL ends. `Desktop`: coroutines run and delays end
(weak on the attempts); Kotlin's `Mutex` is first come, first served, so a request
or a report is not kept out for ever by attempts that take and leave it
(strong). Nothing makes requests arrive, lines die, hosts answer or checks pass.

### Where the code does not do what is written of it

Each of these is a run that TLC finds violated:

* `daemon_stored`: `fetchInto` and `remember` copy the config under `d.mu` and
  save it later; an old copy can be saved after a connect's, and with nothing in
  flight a loop runs what the file does not have. Two connects can come to that by
  another way: they store in one order and start in the other.
* `daemon_stop`: a connect in flight can install the kill switch after the clean
  stop has removed it.
* `routes_v6`: on a kernel without IPv6 the own-address rules cannot be listed,
  so the install whose v6 half was "skipped, nothing else" removes the switch.
* `helper_arm`: `arm` calls `release` where pf cannot be used, so a start that fails
  there takes away the block that a tunnel's death had left (`Held`).
* `lists_rollback`: an `add` whose fetch fails drops the *last* list, which is
  that of another add that came meanwhile and was answered with success.

Seen while modelling and kept out of the runs:

* a torn copy at `handlers.go:334` starts a loop that knows its line and not its
  list; if the lists change then, the stored selection can end in another list.
  `StaysInItsList` leaves out a loop that has no line yet, and one without a list
  once the list on record was removed;
* `shutDown` of the helper says "Nothing of it is left on the machine, the block
  least of all" (`Daemon.swift:115`); the accept loop's own `exit(0)` after an
  update (`main.swift:114`) takes no lock and can come between `shutDown`'s two
  steps. `LeavesNothing` speaks of `shutDown`'s own exit;
* `TrafficHold.release` ignores what `pfctl` answers; every release of `Helper`
  succeeds;
* `stopVpn`'s coroutine does not compare its generation, so a Disconnect overtaken
  on the way to the mutex by a newer start stops that one. `StopWins` is about a
  Disconnect that is the last request.

## Proofs

TLAPS proves the following for every value of the constants that satisfies the
named assumptions of the module. Few of the properties are inductive as they stand;
each proof module states an `IInv` that is, with the reasons the properties hold.

**`DaemonProofs`** (any sets of handlers, loops and selections, any
`Faults`; `KillSwitch ⊆ Tun ⊆ Selections`, null values are not members, the
goroutines are distinct): `Types`, `AtMostOneLoop`, `Reachable`, `SwitchOnExactly`,
`RulesAroundTun`, `IdleLeavesNothing`, `LoopLiveIsTrue`, `ReportedLineIsHeld`,
`ShownSelectionRuns` (`Spec => []P`), `SwitchOpensOnlyWhenTold` (the action property
`SwitchHeld`) and `Refinement` (`Spec => SessionSpec`). `IInv` adds

* `Control`: a goroutine is inside `connectMu` exactly when its `pc` says so; a
  live loop is the one `d.cancel` reaches or the one the holder of `connectMu`
  waits for, and who is inside has taken `d.cancel` away. So at most one loop
  lives, and none does once the wait is over (`Alone`);
* `Arguments`, `Lines`: at `spawn` the switch is as the selection wants it; it
  changes only while no loop lives, so it stays so; the own-address rules are
  whole at every label at which a tun may stand;
* `Kernel`, `Idle`, `Reported`: without refusals, what stands in the kernel is held
  by the switch or by a line; "idle" is written only where nothing runs;
  `loopLive` and `cur` follow the one loop.

Most of a step is a frame: `OutsideMove` and `LoopMove` say once what the steps
outside `connectMu` and the steps of a loop leave alone.

**`RoutesProofs`** (any addresses, kernels that have IPv4, any
`Faults`): `RoutesTypes`, `SwitchIsWhole`, `DropNeverDangles`, `OffMeansNothing`,
`SyncReachesItsTarget`, `NoSyncFollows` and `IdleLeavesNothing` (`IdleIsClean`).
`IInv` adds `Locked` (who edits rules holds `mu`), `Control` (where the two
goroutines can be, in which job), `Closing` (how far the switch is at each call of
an install without errors), `Opening` (how far it is gone at each call of a
removal that was not refused), `Drained` (`syncLocked`'s two lists are empty between
calls, and only a connection or an install lists addresses) and `Clean` (without
refusals, own-address rules and sing-box's stand only from the call that adds them
to the call that removes them, `OwnTime` and `BoxTime`).

**`HelperProofs`** (any blocks, requests and bounds): `HelperTypes`, `BlockOutlives`
(the action property `BlockStays`), `TunnelBehindItsBlock`, `TunnelsTakeTurns`,
`NamesOfTheRunning` and `NothingIsLeft` (`LeavesNothing`). `IInv` adds `Order` (one
thread has the lock, and a daemon that is gone has none), `Owned` (a sing-box that
runs and was not killed is the child's, the one a stop waits for, or the one a start
has not kept yet), `Standing` (what `TrafficHold` remembers of the block, and that
the block is the running tunnel's or the one being started), `Ending` and `Asked`
(nothing is owed while a request or a signal that gives the block up is on its way),
from which each step is shown to keep the block or to be a start that cannot arm its
own.

**`DesktopTypes`, `DesktopControl`, `DesktopProofs`** (any locations and lines, any
number of requests and deaths; `None` is none of them): `Types`,
`SessionOnItsLine` (`OnItsLine`), `SomebodyAlwaysTries` (`SomebodyTries`),
`BlockHeldAfterDeath` (`HeldAfterDeath`), `StandingBlockIsSaid` (`BlockIsSaid`) and
`DisconnectWins` (`StopWins`). `IInv` is stated part by part in `DesktopTypes`:

* `Locking`: who is between two steps under the mutex holds it;
* `Served`: the line's generation is that of the newest start that got through,
  so a session whose generation is not the newest has a request waiting for it;
* `Made`: what a session has, and what a start has while it makes one;
* `Tried`: at most the newest attempts are those of the session, and they follow
  it from line to line; the others, though still running, are of an older
  generation or of no session, find that out at the mutex and end (`Own`);
* `Cores`, `Named`: which core runs and which line the store names, while a trial
  is on and otherwise;
* `Reconnecting`: whoever leaves "reconnecting" behind leaves somebody to go on;
* `Stopped`, `Blocked`: what a Disconnect leaves, and that a block which is owed
  stands, is held, and is not hidden by a status; one that stands unheld is that of
  a session that is up or being made.

The steps of a coroutine that touch nothing but itself are one case (`JobMove`,
`JobMoves`), and so is what a request's step does to the mutex (`RequestMove`).
`Fresh` is shown to be fresh from the finiteness of what is referred to, which is
part of `TypeOK`.

**`SelectionSteps`, `SelectionProofs`** (any handlers, any of them refreshing, any
lists, hosts and lines, any requests; the goroutines are distinct, `None` is no
value, the config on disk is one the program wrote, what a host serves is a list of
lines): `SelectionTyped` (`TypeOK`), `LoopTriesItsList` (`TriesItsList`) and
`LoopKeepsItsList` (the action property `KeepsItsList`), all of `SelSpec`, without
fairness. `IInv`, in `SelectionSteps`, has

* `Places`, `VerbAt`: where each kind of goroutine can be, and for which request;
* `Mutex`: `connectMu` is held by who is inside (`Inside`), and no loop runs once a
  start or a stop has waited for it, so a new loop never overwrites a live one's
  selection;
* `Args`, `Loops`: a goroutine that reads the lists or starts a loop has a
  selection, and a loop runs exactly when it has one;
* `Fetches`: who fetches has a list to fetch, who saves has that list's answer, and
  who reads has a list left to read, so `all` holds lines of lists at any moment;
* `NoDuplicates`: no list is on record twice.

The heart is `ResolveIsSound`: whatever the lines are, `Resolve` gives lines of the
list the resulting selection is bound to, and a selection that has a line of a list
(`Whole`) keeps that list. It rests on `OnlyKeeps`, what filtering a sequence by
position returns, and that on `NthExists`: counting positions is one to one from a
finite set into the numbers up to its size, and so onto them, which needs no
induction. `SelectionSteps` has one lemma per action, most of it the frame lemmas
`Moves`, `LoopMoves`, `FetcherMoves` and `ReadingMoves`, and takes what it needs of
`Only` and `Resolve` as hypotheses; `SelectionProofs` proves those and the theorems.

The provers are told which of them to use where it matters (`Zenon`, `SMTT`).

**Only model-checked.** Liveness (`Answered`, `Follows`, `StopReturns`, `ComesBack`,
`Rotates`, `NamesComeBack`, `Noticed`), which the prover does not do under
fairness. `StaysInItsList`: it is true of the instance and not for every value of the
constants. With two handlers a torn copy (`handlers.go:334`) can have the line of one
list and the name of another, and its loop leaves the one for the other; so what is
proved is `KeepsItsList`, about a selection whose line and list belong together, which
is what the loop itself writes. The properties of the violation runs do not hold.
`SelSpec` has no `RollbackPanics`: the process that dies in it is in the
`lists_rollback` run.

## Not modelled

* **Vendored C** (`androidApp/src/main/jni`: lwip, hev-socks5-tunnel, yaml,
  hev-task-system): other projects' code, and most of the repository's lines. The
  mapped definitions are about three thousand lines, the state machines of the CLI,
  the helper and the desktop session, and so a small share of the whole repository.
* **Desktop: a room's engine, the Windows and macOS tunnels, proxy mode, LAN
  sharing.** They share the manager's mutex and generation with what is modelled and
  differ in the processes; each would be another instance of the same machine. A
  list refresh that makes another entry the active one without a start
  (`DesktopVpnManager.kt:3315`) is not an action of `Desktop`: the store's location
  changes with requests and trials only, and the part of `OnItsLine` about the store
  is about those. What a `lineIsUp` that throws has done before it throws is not
  told apart, and `setKillSwitch` beside a teardown and what a new app process finds
  left over are not actions of `Desktop`.
* **Android's VPN service and the iOS packet tunnel**: session managers of their own
  on their systems' lifecycles, not shared with the desktop's.
* **Timing**: backoff, the counting of an outage, the order of candidates,
  `last-good.json`. The models take every choice these could make.
* **Parsers, decryption, config and link conversion, HTTP, updates**: pure
  conversions or one request each, covered by table tests.
* **User interface**: renders the state above.
