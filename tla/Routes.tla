------------------------------- MODULE Routes -------------------------------
(***************************************************************************)
(* The policy rules of the daemon (cli/internal/routes), one netlink call  *)
(* at a time: the own-address rules, the kill switch in both address       *)
(* families, the cleanup after a crash and the watch on the host's         *)
(* addresses, driven the way cli/internal/daemon drives them.              *)
(*                                                                         *)
(* Two goroutines meet here.  "caller" is whoever holds connectMu, or the  *)
(* connect loop while nobody does (module Daemon shows that there is one   *)
(* at a time).  "watcher" is the goroutine of WatchAddresses.              *)
(***************************************************************************)
EXTENDS Naturals, FiniteSets

CONSTANTS Addresses,    \* global addresses the host may have
          TunAddress,   \* the address of the tun
          Kernels,      \* sets of address families a kernel may have
          Faults,       \* netlink calls that may fail: "list", "add", "remove", "watch"
          MaxChanges    \* bound: changes of the host's addresses, and lines brought up

Families == {"v4", "v6"}

KsRules == {"lan", "self", "drop"}

ASSUME AddressAssumption == TunAddress \notin Addresses

ASSUME KernelAssumption == \A K \in Kernels : "v4" \in K /\ K \subseteq Families

ASSUME BoundAssumption == MaxChanges \in Nat /\ Faults \subseteq {"list", "add", "remove", "watch"}

VARIABLES
  \* the host and its kernel
  fams,         \* the families the kernel has
  addrs,        \* the host's global addresses, without the tun's
  tun,          \* the tun is there
  own,          \* addresses with a rule of OwnAddressPriority
  ksRules,      \* the kill switch's rules, by family
  unreachable,  \* families with the unreachable default in KillSwitchTable
  singbox,      \* families with sing-box's rules and table
  changes,      \* how often the host's addresses changed or a line was brought up
  refused,      \* the kinds of netlink calls that failed
  \* the daemon
  ctxDone,      \* the context of Run is cancelled
  ksOn,         \* d.ksOn
  ownRules,     \* live.ownRules of the line that is up or coming up
  mu,           \* who holds Manager.mu
  pc,           \* where the two goroutines are
  listed,       \* the addresses each is to Sync
  job,          \* what the caller is doing
  \* locals of the call that holds mu
  del, add,     \* the rest of syncLocked's two loops
  kop,          \* "install", "undo" (its own removal after an error) or "remove"
  fam,          \* the family at hand
  left,         \* the rest of the loop over the kill switch's rules
  errs,         \* an error was collected
  \* WatchAddresses
  stopping,     \* stop was called
  updates,      \* address updates in the channel
  armed         \* fire is the timer's channel

kernelVars == <<fams, addrs, tun, own, ksRules, unreachable, singbox, changes>>
callVars   == <<del, add, kop, fam, left, errs>>
watchVars  == <<stopping, updates, armed>>
vars == <<kernelVars, refused, ctxDone, ksOn, ownRules, mu, pc, listed, job, callVars, watchVars>>

Goroutines == {"caller", "watcher"}

Goto(q, label) == pc' = [pc EXCEPT ![q] = label]

\* A call of kind k fails.
Refuse(k) == k \in Faults /\ refused' = refused \cup {k}

\* The rules of a family are listed in the order of their priorities.
First(R) == IF "lan" \in R THEN "lan" ELSE IF "self" \in R THEN "self" ELSE "drop"

\* An address was added or removed: whoever is subscribed is told.
Notify == updates' = IF pc["watcher"] \notin {"off", "spin"} THEN updates + 1 ELSE updates

\* One of the changes that MaxChanges bounds.
Change == changes < MaxChanges /\ changes' = changes + 1
-----------------------------------------------------------------------------
(* The host, and the process as a whole.                                   *)

Init ==
  /\ fams \in Kernels /\ addrs \in SUBSET Addresses /\ tun = FALSE
  /\ own = {} /\ ksRules = [f \in Families |-> {}] /\ unreachable = {} /\ singbox = {}
  /\ changes = 0 /\ refused = {}
  /\ ctxDone = FALSE /\ ksOn = FALSE /\ ownRules = FALSE /\ mu = "none"
  /\ pc = [q \in Goroutines |-> "off"] /\ listed = [q \in Goroutines |-> {}]
  /\ job = "none"
  /\ del = {} /\ add = {} /\ kop = "none" /\ fam = "v4" /\ left = {} /\ errs = FALSE
  /\ stopping = FALSE /\ updates = 0 /\ armed = FALSE

\* The host gains or loses an address.
AddressChange(a) ==
  /\ addrs' = IF a \in addrs THEN addrs \ {a} ELSE addrs \cup {a}
  /\ Change /\ Notify
  /\ UNCHANGED <<fams, tun, own, ksRules, unreachable, singbox, refused, ctxDone, ksOn, ownRules,
                 mu, pc, listed, job, callVars, stopping, armed>>

\* Run starts with CleanupStale, and that with syncLocked(nil).
Boot ==
  /\ pc["caller"] = "off"
  /\ job' = "boot"
  /\ Goto("caller", "sync")
  /\ UNCHANGED <<kernelVars, refused, ctxDone, ksOn, ownRules, mu, listed, callVars, watchVars>>

\* SIGTERM: the contexts of the loop and of the watcher end with Run's.
Terminate ==
  /\ pc["caller"] # "off" /\ ~ctxDone
  /\ ctxDone' = TRUE
  /\ UNCHANGED <<kernelVars, refused, ksOn, ownRules, mu, pc, listed, job, callVars, watchVars>>

\* The process is gone, and with it the tun; the rules stay.
ProcessEnds ==
  /\ tun' = FALSE /\ ctxDone' = FALSE /\ ksOn' = FALSE /\ ownRules' = FALSE /\ mu' = "none"
  /\ pc' = [q \in Goroutines |-> "off"] /\ listed' = [q \in Goroutines |-> {}]
  /\ job' = "none"
  /\ del' = {} /\ add' = {} /\ kop' = "none" /\ fam' = "v4" /\ left' = {} /\ errs' = FALSE
  /\ stopping' = FALSE /\ updates' = 0 /\ armed' = FALSE
  /\ UNCHANGED <<fams, addrs, own, ksRules, unreachable, singbox, changes, refused>>

\* After the clean stop.
Exit == pc["caller"] = "idle" /\ ctxDone /\ ~ksOn /\ ProcessEnds

Crash == pc["caller"] # "off" /\ ProcessEnds
-----------------------------------------------------------------------------
(* Sync, from syncOwnRules, Clear and CleanupStale.                        *)

\* The caller is done, with or without success.
Idle == /\ Goto("caller", "idle")
        /\ job' = "none" /\ ownRules' = FALSE

\* The caller goes on with its job.
GoOn == UNCHANGED <<job, ownRules>>

\* The caller clears the own-address rules.
ToClear == /\ Goto("caller", "sync")
           /\ listed' = [listed EXCEPT !["caller"] = {}]

\* syncOwnRules failed, or Sync did, in the caller: a connection gives up, and
\* installKillSwitch removes the switch again.
SyncFailed ==
  \/ job = "install" /\ Goto("caller", "removeSwitch") /\ GoOn
  \/ job = "up" /\ Idle

\* Mutant: filterGlobal keeps the loopback address.
AddrListLoopback(q) ==
  /\ pc[q] = "addrs"
  /\ listed' = [listed EXCEPT ![q] = (IF tun THEN addrs \cup {TunAddress} ELSE addrs) \cup {"loopback"}]
  /\ Goto(q, "link")
  /\ UNCHANGED <<kernelVars, refused, ctxDone, ksOn, ownRules, mu, job, callVars, watchVars>>

\* GlobalAddresses reads the addresses first ...
AddrList(q) ==
  /\ pc[q] = "addrs"
  /\ listed' = [listed EXCEPT ![q] = IF tun THEN addrs \cup {TunAddress} ELSE addrs]
  /\ Goto(q, "link")
  /\ UNCHANGED <<kernelVars, refused, ctxDone, ksOn, ownRules, mu, job, callVars, watchVars>>

AddrListFails(q) ==
  /\ pc[q] = "addrs" /\ Refuse("list")
  /\ \/ q = "watcher" /\ Goto(q, "select") /\ GoOn
     \/ q = "caller" /\ SyncFailed
  /\ UNCHANGED <<kernelVars, ctxDone, ksOn, mu, listed, callVars, watchVars>>

\* Mutant: the tun's address is not filtered out.
LinkByNameKeeps(q) ==
  /\ pc[q] = "link"
  /\ UNCHANGED listed
  /\ Goto(q, "sync")
  /\ UNCHANGED <<kernelVars, refused, ctxDone, ksOn, ownRules, mu, job, callVars, watchVars>>

\* ... and then drops the tun's, if the tun is still there.
LinkByName(q) ==
  /\ pc[q] = "link"
  /\ listed' = [listed EXCEPT ![q] = IF tun THEN @ \ {TunAddress} ELSE @]
  /\ Goto(q, "sync")
  /\ UNCHANGED <<kernelVars, refused, ctxDone, ksOn, ownRules, mu, job, callVars, watchVars>>

\* syncLocked: existing lists the rules of both families.
Existing(q) ==
  /\ pc[q] = "sync" /\ mu = "none" /\ fams = Families
  /\ mu' = q
  /\ del' = own \ listed[q] /\ add' = listed[q] \ own /\ errs' = FALSE
  /\ Goto(q, "edit")
  /\ UNCHANGED <<kernelVars, refused, ctxDone, ksOn, ownRules, listed, job, kop, fam, left, watchVars>>

\* A family cannot be listed: nothing is changed.
ExistingFails(q) ==
  /\ pc[q] = "sync" /\ mu = "none"
  /\ \/ fams # Families /\ UNCHANGED refused
     \/ Refuse("list")
  /\ mu' = q
  /\ errs' = TRUE
  /\ Goto(q, "edit")
  /\ UNCHANGED <<kernelVars, ctxDone, ksOn, ownRules, listed, job, del, add, kop, fam, left, watchVars>>

RuleDel(q, a) ==
  /\ pc[q] = "edit" /\ a \in del
  /\ del' = del \ {a}
  /\ \/ own' = own \ {a} /\ UNCHANGED <<errs, refused>>
     \/ Refuse("remove") /\ errs' = TRUE /\ UNCHANGED own
  /\ UNCHANGED <<fams, addrs, tun, ksRules, unreachable, singbox, changes, ctxDone, ksOn, ownRules,
                 mu, pc, listed, job, add, kop, fam, left, watchVars>>

\* Mutant: an error of RuleAdd is not collected.
RuleAddQuiet(q, a) ==
  /\ pc[q] = "edit" /\ del = {} /\ a \in add
  /\ add' = add \ {a}
  /\ \/ own' = own \cup {a} /\ UNCHANGED refused
     \/ Refuse("add") /\ UNCHANGED own
  /\ UNCHANGED <<fams, addrs, tun, ksRules, unreachable, singbox, changes, ctxDone, ksOn, ownRules,
                 mu, pc, listed, job, del, kop, fam, left, errs, watchVars>>

RuleAdd(q, a) ==
  /\ pc[q] = "edit" /\ del = {} /\ a \in add
  /\ add' = add \ {a}
  /\ \/ own' = own \cup {a} /\ UNCHANGED <<errs, refused>>
     \/ Refuse("add") /\ errs' = TRUE /\ UNCHANGED own
  /\ UNCHANGED <<fams, addrs, tun, ksRules, unreachable, singbox, changes, ctxDone, ksOn, ownRules,
                 mu, pc, listed, job, del, kop, fam, left, watchVars>>

\* syncLocked returns.  CleanupStale goes on under mu.
SyncReturns(q) ==
  /\ pc[q] = "edit" /\ del = {} /\ add = {}
  /\ mu' = IF q = "caller" /\ job = "boot" THEN mu ELSE "none"
  /\ kop' = IF q = "caller" /\ job = "boot" THEN "remove" ELSE kop
  /\ errs' = FALSE /\ listed' = [listed EXCEPT ![q] = {}]
  /\ \/ q = "watcher" /\ Goto(q, "select") /\ GoOn
     \/ q = "caller" /\ errs /\ SyncFailed
     \/ q = "caller" /\ ~errs /\ job = "install" /\ Goto(q, "watch") /\ GoOn
     \/ q = "caller" /\ ~errs /\ job = "up" /\ Goto(q, "front") /\ GoOn
     \/ q = "caller" /\ job = "boot" /\ Goto(q, "rules") /\ GoOn
     \/ q = "caller" /\ job = "remove" /\ Goto(q, "removeSwitch") /\ GoOn
     \/ q = "caller" /\ job = "down" /\ Idle
  /\ UNCHANGED <<kernelVars, refused, ctxDone, ksOn, del, add, fam, left, watchVars>>
-----------------------------------------------------------------------------
(* The kill switch: InstallKillSwitch and removeKillSwitchLocked, which    *)
(* both go through the families in turn.                                   *)

\* What the steps on the switch's rules leave alone.
SwitchFrame ==
  UNCHANGED <<fams, addrs, tun, own, singbox, changes, ctxDone, ksOn, listed, del, add,
              watchVars>>

\* installKillSwitch begins with Routes.InstallKillSwitch.
Install ==
  /\ pc["caller"] = "idle" /\ ~ksOn /\ mu = "none"
  /\ mu' = "caller" /\ job' = "install" /\ kop' = "install" /\ fam' = "v4" /\ errs' = FALSE
  /\ Goto("caller", "rules")
  /\ SwitchFrame /\ UNCHANGED <<ksRules, unreachable, refused, ownRules, left>>

\* Routes.RemoveKillSwitch.
Remove ==
  /\ pc["caller"] = "removeSwitch" /\ mu = "none"
  /\ mu' = "caller" /\ kop' = "remove" /\ fam' = "v4"
  /\ Goto("caller", "rules")
  /\ SwitchFrame /\ UNCHANGED <<ksRules, unreachable, refused, job, ownRules, left, errs>>

\* removeKillSwitchRules lists the rules of the family.  A kernel without IPv6
\* is tolerated.
RuleList ==
  /\ pc["caller"] = "rules"
  /\ \/ fam \in fams /\ left' = ksRules[fam] /\ UNCHANGED <<errs, refused>>
     \/ fam \notin fams /\ UNCHANGED <<left, errs, refused>>
     \/ Refuse("list") /\ errs' = TRUE /\ UNCHANGED left
  /\ Goto("caller", "flush")
  /\ SwitchFrame /\ UNCHANGED <<ksRules, unreachable, mu, job, ownRules, kop, fam>>

\* It deletes them, one after the other.
Flush ==
  /\ pc["caller"] = "flush" /\ left # {}
  /\ left' = left \ {First(left)}
  /\ \/ ksRules' = [ksRules EXCEPT ![fam] = @ \ {First(left)}] /\ UNCHANGED <<errs, refused>>
     \/ Refuse("remove") /\ errs' = TRUE /\ UNCHANGED ksRules
  /\ SwitchFrame /\ UNCHANGED <<unreachable, mu, pc, job, ownRules, kop, fam>>

\* The loop over the families goes on, or ends.
NextFamily ==
  \/ fam = "v4" /\ fam' = "v6" /\ Goto("caller", "rules")
  \/ fam = "v6" /\ fam' = "v4" /\ Goto("caller", "return")

\* Mutant: the rules go in without the route they send to.
RouteReplaceLate ==
  /\ pc["caller"] = "flush" /\ left = {} /\ kop = "install"
  /\ \/ fam \in fams /\ left' = KsRules /\ Goto("caller", "add") /\ UNCHANGED <<fam, errs, refused>>
     \/ fam \notin fams /\ NextFamily /\ UNCHANGED <<left, errs, refused>>
  /\ UNCHANGED unreachable
  /\ SwitchFrame /\ UNCHANGED <<ksRules, mu, job, ownRules, kop>>

\* InstallKillSwitch puts the unreachable default in first; without it the
\* family gets no rules.
RouteReplace ==
  /\ pc["caller"] = "flush" /\ left = {} /\ kop = "install"
  /\ \/ /\ fam \in fams
        /\ unreachable' = unreachable \cup {fam} /\ left' = KsRules
        /\ Goto("caller", "add") /\ UNCHANGED <<fam, errs, refused>>
     \/ fam \notin fams /\ NextFamily /\ UNCHANGED <<unreachable, left, errs, refused>>
     \/ fam \in fams /\ Refuse("add") /\ errs' = TRUE /\ NextFamily /\ UNCHANGED <<unreachable, left>>
  /\ SwitchFrame /\ UNCHANGED <<ksRules, mu, job, ownRules, kop>>

\* Mutant: a rule that is refused is skipped in silence.
AddRuleQuiet ==
  /\ pc["caller"] = "add" /\ left # {}
  /\ left' = left \ {First(left)}
  /\ \/ ksRules' = [ksRules EXCEPT ![fam] = @ \cup {First(left)}] /\ UNCHANGED <<errs, refused>>
     \/ Refuse("add") /\ UNCHANGED <<ksRules, errs>>
  /\ SwitchFrame /\ UNCHANGED <<unreachable, mu, pc, job, ownRules, kop, fam>>

\* Then the rules, one after the other.  A rule that is there already (its
\* deletion failed) is an error too.
AddRule ==
  /\ pc["caller"] = "add" /\ left # {}
  /\ left' = left \ {First(left)}
  /\ \/ /\ First(left) \notin ksRules[fam]
        /\ ksRules' = [ksRules EXCEPT ![fam] = @ \cup {First(left)}] /\ UNCHANGED <<errs, refused>>
     \/ First(left) \in ksRules[fam] /\ errs' = TRUE /\ UNCHANGED <<ksRules, refused>>
     \/ Refuse("add") /\ errs' = TRUE /\ UNCHANGED ksRules
  /\ SwitchFrame /\ UNCHANGED <<unreachable, mu, pc, job, ownRules, kop, fam>>

AddedRules ==
  /\ pc["caller"] = "add" /\ left = {}
  /\ NextFamily
  /\ SwitchFrame /\ UNCHANGED <<ksRules, unreachable, refused, mu, job, ownRules, kop, left, errs>>

\* removeKillSwitchLocked empties KillSwitchTable after the rules.
RouteDel ==
  /\ pc["caller"] = "flush" /\ left = {} /\ kop \in {"undo", "remove"}
  /\ \/ unreachable' = unreachable \ {fam} /\ UNCHANGED <<errs, refused>>
     \/ (Refuse("list") \/ Refuse("remove")) /\ errs' = TRUE /\ UNCHANGED unreachable
  /\ NextFamily
  /\ SwitchFrame /\ UNCHANGED <<ksRules, mu, job, ownRules, kop, left>>

\* Mutant: an install that failed half-way is left as it is.
InstallReturnsAsIs ==
  /\ pc["caller"] = "return" /\ kop = "install"
  /\ errs' = FALSE
  /\ \/ errs /\ mu' = "none" /\ kop' = "none" /\ Idle
     \/ ~errs /\ mu' = "none" /\ kop' = "none" /\ Goto("caller", "addrs") /\ GoOn
  /\ SwitchFrame /\ UNCHANGED <<ksRules, unreachable, refused, fam, left>>

\* Both families are done.  With an error everything is removed again, still
\* under mu; else syncOwnRules follows.
InstallReturns ==
  /\ pc["caller"] = "return" /\ kop = "install"
  /\ errs' = FALSE
  /\ \/ errs /\ kop' = "undo" /\ Goto("caller", "rules") /\ UNCHANGED mu /\ GoOn
     \/ ~errs /\ mu' = "none" /\ kop' = "none" /\ Goto("caller", "addrs") /\ GoOn
  /\ SwitchFrame /\ UNCHANGED <<ksRules, unreachable, refused, fam, left>>

\* A removal is over; its errors are logged.  CleanupStale goes on under mu.
RemoveReturns ==
  /\ pc["caller"] = "return" /\ kop \in {"undo", "remove"}
  /\ errs' = FALSE /\ kop' = "none"
  /\ \/ job = "boot" /\ Goto("caller", "stale") /\ UNCHANGED mu /\ GoOn
     \/ job # "boot" /\ mu' = "none" /\ Idle
  /\ SwitchFrame /\ UNCHANGED <<ksRules, unreachable, refused, fam, left>>

\* CleanupStale removes sing-box's rules and table, family by family.  Here a
\* kernel without IPv6 is an error like any other; all of them are logged.
CleanupStale ==
  /\ pc["caller"] = "stale"
  /\ \/ fam \in fams /\ singbox' = singbox \ {fam} /\ UNCHANGED refused
     \/ fam \notin fams /\ UNCHANGED <<singbox, refused>>
     \/ fam \in fams /\ (Refuse("list") \/ Refuse("remove")) /\ UNCHANGED singbox
  /\ \/ fam = "v4" /\ fam' = "v6" /\ UNCHANGED <<mu, pc>> /\ GoOn
     \/ fam = "v6" /\ fam' = "v4" /\ mu' = "none" /\ Idle
  /\ UNCHANGED <<fams, addrs, tun, own, ksRules, unreachable, changes, ctxDone, ksOn, listed,
                 del, add, kop, left, errs, watchVars>>
-----------------------------------------------------------------------------
(* The daemon around them: the line, the watcher, the switch.              *)

\* bringUp of a tun: the own-address rules ride the line unless the switch
\* holds them.
BringUp ==
  /\ pc["caller"] = "idle" /\ ~ctxDone /\ Change
  /\ job' = "up" /\ ownRules' = ~ksOn
  /\ Goto("caller", IF ksOn THEN "front" ELSE "addrs")
  /\ UNCHANGED <<fams, addrs, tun, own, ksRules, unreachable, singbox, refused, ctxDone, ksOn, mu, listed, callVars, watchVars>>

\* The front makes the tun, and sing-box its rules.
StartFront ==
  /\ pc["caller"] = "front"
  /\ tun' = TRUE /\ singbox' = fams /\ Notify
  /\ Goto("caller", "confirm")
  /\ UNCHANGED <<fams, addrs, own, ksRules, unreachable, changes, refused, ctxDone, ksOn, ownRules,
                 mu, listed, job, callVars, stopping, armed>>

\* No port for the probe, or no front: the rules are cleared.
FrontFails ==
  /\ pc["caller"] = "front"
  /\ \/ ownRules /\ ToClear /\ job' = "down" /\ UNCHANGED ownRules
     \/ ~ownRules /\ Idle /\ UNCHANGED listed
  /\ UNCHANGED <<kernelVars, refused, ctxDone, ksOn, mu, callVars, watchVars>>

\* The line answers through the front, or it is torn down.
Confirm ==
  /\ pc["caller"] = "confirm"
  /\ \/ Goto("caller", IF ownRules THEN "watch" ELSE "up") /\ UNCHANGED job
     \/ Goto("caller", "close") /\ job' = "down"
  /\ UNCHANGED <<kernelVars, refused, ctxDone, ksOn, ownRules, mu, listed, callVars, watchVars>>

\* WatchAddresses, at the start of supervise or the end of installKillSwitch.
\* A failure is logged and the caller goes on without a watcher.
WatchAddresses ==
  /\ pc["caller"] = "watch"
  /\ LET next == IF job = "up" THEN "up" ELSE "idle" IN
     \/ pc' = [pc EXCEPT !["caller"] = next, !["watcher"] = "select"] /\ UNCHANGED refused
     \/ Refuse("watch") /\ Goto("caller", next)
  /\ ksOn' = (ksOn \/ job = "install")
  /\ job' = IF job = "install" THEN "none" ELSE job
  /\ UNCHANGED <<kernelVars, ctxDone, ownRules, mu, listed, callVars, watchVars>>

\* supervise returns: the line is dead or the loop is cancelled.
LineEnds ==
  /\ pc["caller"] = "up"
  /\ job' = "down"
  /\ Goto("caller", IF ownRules THEN "stop" ELSE "close")
  /\ UNCHANGED <<kernelVars, refused, ctxDone, ksOn, ownRules, mu, listed, callVars, watchVars>>

\* removeKillSwitch.
RemoveSwitch ==
  /\ pc["caller"] = "idle" /\ ksOn
  /\ ksOn' = FALSE
  /\ job' = "remove"
  /\ Goto("caller", "stop")
  /\ UNCHANGED <<kernelVars, refused, ctxDone, ownRules, mu, listed, callVars, watchVars>>

\* Mutant: the rules are locked before the watcher is stopped.
StopLocked ==
  /\ pc["caller"] = "stop" /\ mu = "none"
  /\ stopping' = TRUE /\ mu' = "caller"
  /\ Goto("caller", "join")
  /\ UNCHANGED <<kernelVars, refused, ctxDone, ksOn, ownRules, listed, job, callVars, updates, armed>>

\* stop cancels the watcher ...
Stop ==
  /\ pc["caller"] = "stop"
  /\ stopping' = TRUE
  /\ Goto("caller", "join")
  /\ UNCHANGED <<kernelVars, refused, ctxDone, ksOn, ownRules, mu, listed, job, callVars, updates, armed>>

\* Mutant: stop does not wait.
FinishedAlways == TRUE

\* The watcher's finished channel is closed.
Finished == pc["watcher"] = "off"

\* ... and waits for it.
Join ==
  /\ pc["caller"] = "join" /\ Finished
  /\ stopping' = FALSE
  /\ \/ job = "remove" /\ ToClear
     \/ job = "down" /\ Goto("caller", "close") /\ UNCHANGED listed
  /\ UNCHANGED <<kernelVars, refused, ctxDone, ksOn, ownRules, mu, job, callVars, updates, armed>>

\* Mutant: tearDown leaves the own-address rules in.
CloseFrontKeeps ==
  /\ pc["caller"] = "close"
  /\ tun' = FALSE /\ singbox' = {} /\ Notify
  /\ Idle /\ UNCHANGED listed
  /\ UNCHANGED <<fams, addrs, own, ksRules, unreachable, changes, refused, ctxDone, ksOn, mu,
                 callVars, stopping, armed>>

\* tearDown: the front closes, then the own-address rules are cleared.
CloseFront ==
  /\ pc["caller"] = "close"
  /\ tun' = FALSE /\ singbox' = {} /\ Notify
  /\ \/ ownRules /\ ToClear /\ GoOn
     \/ ~ownRules /\ Idle /\ UNCHANGED listed
  /\ UNCHANGED <<fams, addrs, own, ksRules, unreachable, changes, refused, ctxDone, ksOn, mu,
                 callVars, stopping, armed>>

\* An update arrives and starts the timer, or starts it anew.
WatchUpdate ==
  /\ pc["watcher"] = "select" /\ updates > 0
  /\ updates' = updates - 1 /\ armed' = TRUE
  /\ UNCHANGED <<kernelVars, refused, ctxDone, ksOn, ownRules, mu, pc, listed, job, callVars, stopping>>

\* The timer fires: onChange is syncOwnRules.
WatchFire ==
  /\ pc["watcher"] = "select" /\ armed
  /\ armed' = FALSE
  /\ Goto("watcher", "addrs")
  /\ UNCHANGED <<kernelVars, refused, ctxDone, ksOn, ownRules, mu, listed, job, callVars, stopping,
                 updates>>

\* The subscription breaks and its channel is closed: every receive from it
\* succeeds at once and starts the timer anew, so that it never fires.
WatchBreaks ==
  /\ pc["watcher"] = "select" /\ updates = 0 /\ Refuse("watch")
  /\ armed' = FALSE
  /\ Goto("watcher", "spin")
  /\ UNCHANGED <<kernelVars, ctxDone, ksOn, ownRules, mu, listed, job, callVars, stopping, updates>>

\* Its context is done, by stop or with Run's.
WatchEnds ==
  /\ pc["watcher"] \in {"select", "spin"} /\ (stopping \/ ctxDone)
  /\ updates' = 0 /\ armed' = FALSE
  /\ Goto("watcher", "off")
  /\ UNCHANGED <<kernelVars, refused, ctxDone, ksOn, ownRules, mu, listed, job, callVars, stopping>>
-----------------------------------------------------------------------------
SyncStep(q) ==
  \/ AddrList(q) \/ AddrListFails(q) \/ LinkByName(q) \/ Existing(q) \/ ExistingFails(q)
  \/ \E a \in del : RuleDel(q, a)
  \/ \E a \in add : RuleAdd(q, a)
  \/ SyncReturns(q)

SwitchStep ==
  \/ Remove \/ RuleList \/ Flush \/ RouteReplace \/ AddRule \/ AddedRules \/ RouteDel
  \/ InstallReturns \/ RemoveReturns \/ CleanupStale

LineStep == StartFront \/ FrontFails \/ Confirm \/ WatchAddresses \/ Stop \/ Join \/ CloseFront

WatchStep == WatchUpdate \/ WatchFire \/ WatchBreaks \/ WatchEnds

Begin == Install \/ BringUp \/ LineEnds \/ RemoveSwitch

ProcessStep == Boot \/ Terminate \/ Exit \/ Crash

Next ==
  \/ \E a \in Addresses : AddressChange(a)
  \/ \E q \in Goroutines : SyncStep(q)
  \/ SwitchStep \/ LineStep \/ WatchStep \/ Begin \/ ProcessStep

Spec == Init /\ [][Next]_vars

\* Both goroutines run: netlink calls return, a closed channel is seen, a timer
\* that is not started anew fires.
FairSpec == /\ Spec
            /\ WF_vars(SyncStep("caller") \/ SwitchStep \/ LineStep)
            /\ WF_vars(SyncStep("watcher")) /\ WF_vars(WatchFire) /\ WF_vars(WatchEnds)
            /\ WF_vars(WatchUpdate)
-----------------------------------------------------------------------------
(* Properties.                                                             *)

SyncLabels == {"addrs", "link", "sync", "edit"}

Labels == SyncLabels \cup {"off", "idle", "select", "spin", "rules", "flush", "add", "return", "stale",
                           "removeSwitch", "front", "confirm", "watch", "up", "stop", "join", "close"}

KernelTypes ==
  /\ fams \in SUBSET Families /\ addrs \in SUBSET Addresses /\ tun \in BOOLEAN
  /\ own \in SUBSET (Addresses \cup {TunAddress})
  /\ ksRules \in [Families -> SUBSET KsRules]
  /\ unreachable \in SUBSET Families /\ singbox \in SUBSET Families
  /\ changes \in Nat

DaemonTypes ==
  /\ refused \in SUBSET Faults
  /\ ctxDone \in BOOLEAN /\ ksOn \in BOOLEAN /\ ownRules \in BOOLEAN
  /\ mu \in Goroutines \cup {"none"}
  /\ pc \in [Goroutines -> Labels]
  /\ job \in {"none", "boot", "install", "remove", "up", "down"}
  /\ kop \in {"none", "install", "undo", "remove"} /\ fam \in Families

CallTypes ==
  /\ listed \in [Goroutines -> SUBSET (Addresses \cup {TunAddress})]
  /\ del \in SUBSET (Addresses \cup {TunAddress}) /\ add \in SUBSET (Addresses \cup {TunAddress})
  /\ left \in SUBSET KsRules /\ errs \in BOOLEAN
  /\ stopping \in BOOLEAN /\ updates \in Nat /\ armed \in BOOLEAN

\* The types of the kernel's state, the daemon's fields and the locals of calls.
TypeOK == KernelTypes /\ DaemonTypes /\ CallTypes

\* While the daemon counts the kill switch as on, it is whole in every family
\* the kernel has: InstallKillSwitch returns nil for nothing less, and no Sync
\* of the watcher and no line disturbs it.
Closed == ksOn => \A f \in fams : ksRules[f] = KsRules /\ f \in unreachable

\* The drop rule never points at an empty table, whichever call the process
\* stops after: InstallKillSwitch puts the route in before the rules and
\* removeKillSwitchLocked takes it out after them.  A rule that cannot be
\* listed or deleted is the exception, as the route goes all the same.
DropHasRoute ==
  refused \cap {"list", "remove"} = {} =>
    \A f \in Families : "drop" \in ksRules[f] => f \in unreachable

\* With no line and no switch the kernel holds nothing of the daemon's, after
\* any order of installs, failed installs, lines and crashes, as long as no
\* call on rules or routes is refused.
IdleIsClean ==
  pc["caller"] = "idle" /\ ~ksOn /\ refused \subseteq {"watch"} =>
    /\ own = {} /\ unreachable = {} /\ singbox = {}
    /\ \A f \in Families : ksRules[f] = {}

\* InstallKillSwitch that fails leaves no part of the switch, unless the kernel
\* would not list or delete it.
FailedInstallOpens ==
  pc["caller"] = "idle" /\ ~ksOn /\ refused \cap {"list", "remove"} = {} =>
    unreachable = {} /\ \A f \in Families : ksRules[f] = {}

\* What syncLocked still has to do leads to exactly the addresses it was given,
\* unless an error was collected, at every edit on the way.
SyncIsExact ==
  \A q \in Goroutines : pc[q] = "edit" /\ ~errs => (own \ del) \cup add = listed[q]

\* "no Sync follows" (WatchAddresses): a watcher lives only under a switch or a
\* line that is up, so whoever stopped it clears the rules for good.
NoLateSync ==
  pc["watcher"] # "off" => ksOn \/ pc["caller"] \in {"up", "stop", "join"}

\* A watcher that was told of a change comes to rest with the rules those of the
\* host's addresses, once the addresses rest, unless it is stopped first or its
\* subscription breaks.  The tun's address, which GlobalAddresses takes for the
\* host's when the tun closes between its two calls, goes too.
Follows ==
  (pc["watcher"] # "off" /\ (updates > 0 \/ armed)) ~>
    \/ pc["watcher"] = "select" /\ updates = 0 /\ ~armed /\ own = addrs
    \/ stopping \/ ctxDone \/ pc["watcher"] \in {"off", "spin"}

\* stop returns: the watcher never waits for what its stopper holds.
StopReturns == (pc["caller"] = "join") ~> (pc["caller"] # "join")

\* "the v6 half of the switch is skipped, nothing else" (tolerableV6): on a
\* kernel without IPv6 that refuses nothing, the switch is never removed by the
\* install that put it in.
V6HalfIsSkipped == refused = {} => ~(job = "install" /\ pc["caller"] = "removeSwitch")
=============================================================================
