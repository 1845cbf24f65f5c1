------------------------------- MODULE Daemon -------------------------------
(***************************************************************************)
(* The control plane of the Linux daemon (cli/internal/daemon): the        *)
(* goroutines that may start or stop a connection, the mutex that          *)
(* serialises them, the connect loop they start and cancel, the kill       *)
(* switch, the stored selection, and crashes and restarts of the process.  *)
(*                                                                         *)
(* A step ends where another goroutine can see or change what it left: at  *)
(* the end of a critical section of d.mu, before a write of the config     *)
(* file, at a wait.  What the holder of connectMu does to the kernel while *)
(* no loop runs is one step.  The lines of a list, the addresses of the    *)
(* host and the netlink calls inside Routes are abstracted here.           *)
(***************************************************************************)
CONSTANTS Handlers,      \* goroutines that serve control requests
          Run,           \* the goroutine of Daemon.Run
          RefreshLoop,   \* the goroutine of Daemon.refreshLoop
          Loops,         \* identities of connect loops (a finished one is free again)
          Selections,    \* what a person can ask to be connected
          Tun,           \* the selections of mode "tun"
          KillSwitch,    \* those of them with the kill switch
          Verbs,         \* the control requests (and refresh ticks) that arrive
          Faults,        \* what may fail: "add", "remove", "save" (see refused), "crash"
          Free,          \* nobody holds connectMu
          None,          \* no selection
          NoLoop         \* no connect loop

Procs == Handlers \cup {Run, RefreshLoop}

ASSUME ModeAssumption == KillSwitch \subseteq Tun /\ Tun \subseteq Selections

ASSUME NullAssumption == /\ Free \notin Procs
                         /\ None \notin Selections
                         /\ NoLoop \notin Loops

ASSUME ProcsAssumption == /\ Run \notin Handlers
                          /\ RefreshLoop \notin Handlers
                          /\ Run # RefreshLoop

ASSUME VerbsAssumption == /\ Verbs \subseteq {"connect", "disconnect", "remove", "refresh"}
                          /\ Faults \subseteq {"add", "remove", "save", "crash"}

VARIABLES
  proc,          \* the process: "stopped", "running" or "crashed"
  ctxDone,       \* the context of Run is cancelled (SIGTERM)
  connectMu,     \* who holds the mutex of starts and stops
  cfgSelection,  \* d.cfg.Selection
  sel,           \* d.sel
  state,         \* d.state
  cur,           \* d.cur: the loop whose line is up
  loopDone,      \* d.cancel and d.loopDone: the loop they belong to
  loopLive,      \* d.loopLive
  ksOn,          \* d.ksOn
  \* goroutines: where each is, and its locals
  pc,
  verb,          \* what it is doing
  arg,           \* the selection it is to start
  clone,         \* the selection in the config copy it is to save
  done,          \* the loop it waits for in stopConnectLocked
  \* connect loops: where each is ("none" once its done channel is closed)
  lpc,
  lsel,          \* its selection
  cancelled,     \* its own cancel was called
  lclone,        \* the selection in the config copy it is to save
  anyUp,         \* a line was up in this round
  eng,           \* it has an engine running
  front,         \* it has a front running
  lown,          \* live.ownRules: the own-address rules belong to its line
  \* outside the process
  disk,          \* the selection in config.yaml
  ksIn,          \* rules of the kill switch stand in the kernel: all of them while
                 \* ksOn, else perhaps some that it would not remove
  own,           \* the own-address rules: "none", "part" of them or "all"
  refused        \* what failed since the last whole cleanup: adding rules, removing
                 \* rules, saving the file

fieldVars  == <<cfgSelection, sel, state, cur, loopDone, loopLive, ksOn>>
localVars  == <<verb, arg, clone, done>>
loopVars   == <<lpc, lsel, cancelled, lclone, anyUp, eng, front, lown>>
kernelVars == <<ksIn, own, refused>>
vars == <<proc, ctxDone, connectMu, fieldVars, pc, localVars, loopVars, disk, kernelVars>>

Maybe(S, x) == S \cup {x}

Goto(p, label) == pc' = [pc EXCEPT ![p] = label]

LGoto(l, label) == lpc' = [lpc EXCEPT ![l] = label]

\* Calls of the kinds K failed.
Refuse(K) == K \subseteq Faults /\ refused' = refused \cup K

Live(l) == lpc[l] # "none"

\* Mutant: the loop's context does not follow its own cancel.
StoppingDeaf(l) == ctxDone

\* ctx.Err() # nil in the loop: its own cancel, or the end of Run's context.
Stopping(l) == cancelled[l] \/ ctxDone

\* Mutants: every tun gets the switch; none does; a switch that is on already
\* falls into the branch that removes it.
WantsSwitchTun(s) == s \in Tun

WantsSwitchNever(s) == FALSE

WantsSwitchOnce(s) == s \in KillSwitch /\ ~ksOn

\* startConnectLocked asks for the switch.
WantsSwitch(s) == s \in KillSwitch

\* Mutant: the caller does not wait.
LoopEndedNoWait(p) == TRUE

\* The wait for the done channel of the loop that p cancelled is over.
LoopEnded(p) == done[p] # NoLoop => ~Live(done[p])

\* Mutant: the condition on the switch is inverted.
OwnRulesInverted(l) == lsel[l] \in Tun /\ ksOn

\* The own-address rules ride the line unless the kill switch holds them.
OwnRules(l) == lsel[l] \in Tun /\ ~ksOn

\* Mutant: a failed line leaves its engine running.
StopEngineNot(l) == UNCHANGED eng

StopEngine(l) == eng' = [eng EXCEPT ![l] = FALSE]

Starting(p) == verb[p] \in {"connect", "startStored", "refresh"}
-----------------------------------------------------------------------------
(* Daemon.Run and the process around it.                                   *)

Init ==
  /\ proc = "stopped" /\ ctxDone = FALSE /\ connectMu = Free
  /\ cfgSelection = None /\ sel = None /\ state = "idle"
  /\ cur = NoLoop /\ loopDone = NoLoop /\ loopLive = FALSE /\ ksOn = FALSE
  /\ pc = [p \in Procs |-> "idle"] /\ verb = [p \in Procs |-> "none"]
  /\ arg = [p \in Procs |-> None] /\ clone = [p \in Procs |-> None]
  /\ done = [p \in Procs |-> NoLoop]
  /\ lpc = [l \in Loops |-> "none"]
  /\ lsel = [l \in Loops |-> None] /\ lclone = [l \in Loops |-> None]
  /\ cancelled = [l \in Loops |-> FALSE] /\ anyUp = [l \in Loops |-> FALSE]
  /\ eng = [l \in Loops |-> FALSE] /\ front = [l \in Loops |-> FALSE]
  /\ lown = [l \in Loops |-> FALSE]
  /\ disk = None /\ ksIn = FALSE /\ own = "none" /\ refused = {}

\* The process is gone with all its memory; the disk and the kernel keep theirs.
ProcessEnds ==
  /\ ctxDone' = FALSE /\ connectMu' = Free
  /\ cfgSelection' = None /\ sel' = None /\ state' = "idle"
  /\ cur' = NoLoop /\ loopDone' = NoLoop /\ loopLive' = FALSE /\ ksOn' = FALSE
  /\ pc' = [p \in Procs |-> "idle"] /\ verb' = [p \in Procs |-> "none"]
  /\ arg' = [p \in Procs |-> None] /\ clone' = [p \in Procs |-> None]
  /\ done' = [p \in Procs |-> NoLoop]
  /\ lpc' = [l \in Loops |-> "none"]
  /\ lsel' = [l \in Loops |-> None] /\ lclone' = [l \in Loops |-> None]
  /\ cancelled' = [l \in Loops |-> FALSE] /\ anyUp' = [l \in Loops |-> FALSE]
  /\ eng' = [l \in Loops |-> FALSE] /\ front' = [l \in Loops |-> FALSE]
  /\ lown' = [l \in Loops |-> FALSE]
  /\ UNCHANGED <<disk, kernelVars>>

\* Routes.CleanupStale: what an earlier run left is removed, or stays and is logged.
CleanupStale ==
  \/ ksIn' = FALSE /\ own' = "none" /\ refused' = {}
  \/ ksIn' \in {ksIn, FALSE} /\ own' \in {own, "none"} /\ Refuse({"remove"})

\* Run up to startStored: cleanup, ensureConfig, the control socket, refreshLoop.
Boot ==
  /\ proc # "running"
  /\ CleanupStale
  /\ proc' = "running"
  /\ cfgSelection' = disk
  /\ verb' = [verb EXCEPT ![Run] = "startStored"]
  /\ Goto(Run, "lock")
  /\ UNCHANGED <<ctxDone, connectMu, sel, state, cur, loopDone, loopLive, ksOn,
                 arg, clone, done, loopVars, disk>>

\* The config cannot be read or the socket cannot be made: Run returns an error.
BootFails ==
  /\ proc # "running"
  /\ CleanupStale
  /\ proc' = "stopped"
  /\ UNCHANGED <<ctxDone, connectMu, fieldVars, pc, localVars, loopVars, disk>>

\* SIGTERM or SIGINT ends Run's context.
Terminate ==
  /\ proc = "running" /\ ~ctxDone
  /\ ctxDone' = TRUE
  /\ UNCHANGED <<proc, connectMu, fieldVars, pc, localVars, loopVars, disk, kernelVars>>

\* <-ctx.Done(), then stopAll(false).
Shutdown ==
  /\ pc[Run] = "serving" /\ ctxDone
  /\ verb' = [verb EXCEPT ![Run] = "shutdown"]
  /\ Goto(Run, "lock")
  /\ UNCHANGED <<proc, ctxDone, connectMu, fieldVars, arg, clone, done, loopVars, disk, kernelVars>>

\* Run returns and the process ends; nothing waits for the other goroutines.
Exit ==
  /\ pc[Run] = "exit"
  /\ proc' = "stopped"
  /\ ProcessEnds

\* SIGKILL, a panic, a power cut that the disk survives.
Crash ==
  /\ proc = "running" /\ "crash" \in Faults
  /\ proc' = "crashed"
  /\ ProcessEnds
-----------------------------------------------------------------------------
(* Control requests and refreshes outside connectMu.                       *)

\* What these steps leave alone.
OutsideFrame ==
  UNCHANGED <<proc, ctxDone, connectMu, sel, state, cur, loopDone, loopLive, ksOn, done,
              loopVars, ksIn, own>>

Answer(p) ==
  /\ Goto(p, "idle")
  /\ verb' = [verb EXCEPT ![p] = "none"]
  /\ arg' = [arg EXCEPT ![p] = None]

\* A connect for s arrives; its lists are read first.
RequestConnect(h, s) ==
  /\ proc = "running" /\ pc[h] = "idle" /\ "connect" \in Verbs
  /\ verb' = [verb EXCEPT ![h] = "connect"]
  /\ arg' = [arg EXCEPT ![h] = s]
  /\ Goto(h, "lists")
  /\ OutsideFrame /\ UNCHANGED <<cfgSelection, clone, disk, refused>>

RequestDisconnect(h) ==
  /\ proc = "running" /\ pc[h] = "idle" /\ "disconnect" \in Verbs
  /\ verb' = [verb EXCEPT ![h] = "disconnect"]
  /\ Goto(h, "lock")
  /\ OutsideFrame /\ UNCHANGED <<cfgSelection, arg, clone, disk, refused>>

\* A refresh request, or refreshLoop's tick.
RequestRefresh(p) ==
  /\ proc = "running" /\ pc[p] = "idle"
  /\ p # Run /\ "refresh" \in Verbs
  /\ verb' = [verb EXCEPT ![p] = "refresh"]
  /\ Goto(p, "lists")
  /\ OutsideFrame /\ UNCHANGED <<cfgSelection, arg, clone, disk, refused>>

\* remove edits the subscriptions and decides, from d.sel as it is now,
\* whether the selection goes too: drop says it is scoped to a removed list.
RequestRemove(h, drop) ==
  /\ proc = "running" /\ pc[h] = "idle" /\ "remove" \in Verbs
  /\ drop => sel # None
  /\ verb' = [verb EXCEPT ![h] = "remove"]
  /\ Goto(h, IF drop THEN "lock" ELSE "clone")
  /\ OutsideFrame /\ UNCHANGED <<cfgSelection, arg, clone, disk, refused>>

\* A list is fetched: fetchInto copies the config under d.mu and saves it
\* later.  afterRefresh may have to fetch while it holds connectMu: one fetch
\* stands for those of the lists it finds without a cache.
FetchInto(p) ==
  /\ pc[p] \in {"lists", "compare"}
  /\ clone' = [clone EXCEPT ![p] = cfgSelection]
  /\ Goto(p, IF pc[p] = "lists" THEN "fetched" ELSE "refetched")
  /\ OutsideFrame /\ UNCHANGED <<cfgSelection, verb, arg, disk, refused>>

\* connect: no list, a bad mode, or nothing matches the selector.
Reject(p) ==
  /\ pc[p] = "lists" /\ verb[p] = "connect"
  /\ Answer(p)
  /\ OutsideFrame /\ UNCHANGED <<cfgSelection, clone, disk, refused>>

\* connect stores the selection and copies the config, under d.mu only.
Store(p) ==
  /\ pc[p] = "lists" /\ verb[p] = "connect"
  /\ cfgSelection' = arg[p]
  /\ clone' = [clone EXCEPT ![p] = arg[p]]
  /\ Goto(p, "save")
  /\ OutsideFrame /\ UNCHANGED <<verb, arg, disk, refused>>

\* Every due list was fetched, or failed to be: afterRefresh is next.
Refreshed(p) ==
  /\ pc[p] = "lists" /\ verb[p] = "refresh"
  /\ Goto(p, "lock")
  /\ OutsideFrame /\ UNCHANGED <<cfgSelection, verb, arg, clone, disk, refused>>

\* disconnect and remove copy the config for the file.
Clone(p) ==
  /\ pc[p] = "clone"
  /\ clone' = [clone EXCEPT ![p] = cfgSelection]
  /\ Goto(p, "save")
  /\ OutsideFrame /\ UNCHANGED <<cfgSelection, verb, arg, disk, refused>>

\* fetchInto returns: to the lists that remain, or to the comparison.
GoOn(p) ==
  /\ Goto(p, IF pc[p] = "fetched" THEN "lists" ELSE "compared")
  /\ UNCHANGED <<verb, arg>>

\* saveConfig: the file is replaced whole.  A connect goes on to start.
Save(p) ==
  /\ pc[p] \in {"fetched", "refetched", "save"}
  /\ disk' = clone[p]
  /\ clone' = [clone EXCEPT ![p] = None]
  /\ \/ pc[p] # "save" /\ GoOn(p)
     \/ pc[p] = "save" /\ verb[p] = "connect" /\ Goto(p, "lock") /\ UNCHANGED <<verb, arg>>
     \/ pc[p] = "save" /\ verb[p] # "connect" /\ Answer(p)
  /\ OutsideFrame /\ UNCHANGED <<cfgSelection, refused>>

\* saveConfig fails: fetchInto logs it, a request is answered with "io".
SaveFails(p) ==
  /\ pc[p] \in {"fetched", "refetched", "save"}
  /\ Refuse({"save"})
  /\ clone' = [clone EXCEPT ![p] = None]
  /\ \/ pc[p] # "save" /\ GoOn(p)
     \/ pc[p] = "save" /\ Answer(p)
  /\ OutsideFrame /\ UNCHANGED <<cfgSelection, disk>>
-----------------------------------------------------------------------------
(* startConnectLocked, stopAll, startStored and afterRefresh, all of them  *)
(* inside connectMu.                                                       *)

\* Run goes on to serve or to exit, a disconnect or a remove to its save.
Leave(p) ==
  LET next == CASE verb[p] = "startStored" -> "serving"
                [] verb[p] = "shutdown" -> "exit"
                [] verb[p] \in {"disconnect", "remove"} -> "clone"
                [] OTHER -> "idle"
  IN /\ connectMu' = Free
     /\ Goto(p, next)
     /\ verb' = [verb EXCEPT ![p] = IF next = "idle" THEN "none" ELSE @]
     /\ arg' = [arg EXCEPT ![p] = None]

\* startStored and afterRefresh change nothing: nothing is stored, or a loop
\* runs and (for a refresh) no line is up.
LeaveAlone(p) ==
  /\ pc[p] = "lock" /\ connectMu = Free
  /\ verb[p] \in {"startStored", "refresh"}
  /\ cfgSelection = None \/ (loopLive /\ (verb[p] = "refresh" => cur = NoLoop))
  /\ Leave(p)
  /\ UNCHANGED <<proc, ctxDone, fieldVars, clone, done, loopVars, disk, kernelVars>>

\* A line is up: afterRefresh keeps the stored selection it read and, inside
\* connectMu, reads the lists again to compare the line with its list.
Compare(p) ==
  /\ pc[p] = "lock" /\ connectMu = Free
  /\ verb[p] = "refresh" /\ cfgSelection # None /\ loopLive /\ cur # NoLoop
  /\ connectMu' = p
  /\ arg' = [arg EXCEPT ![p] = cfgSelection]
  /\ Goto(p, "compare")
  /\ UNCHANGED <<proc, ctxDone, fieldVars, verb, clone, done, loopVars, disk, kernelVars>>

\* The line is in its list as it was, or no list can be read.
Same(p) ==
  /\ pc[p] \in {"compare", "compared"}
  /\ Leave(p)
  /\ UNCHANGED <<proc, ctxDone, fieldVars, clone, done, loopVars, disk, kernelVars>>

\* Mutant: the status is cleared before the loop has ended.
TakeLoopClears(p) ==
  /\ connectMu' = p
  /\ done' = [done EXCEPT ![p] = loopDone]
  /\ loopDone' = NoLoop /\ sel' = None
  /\ cancelled' = [l \in Loops |-> cancelled[l] \/ l = loopDone]
  /\ Goto(p, "await")
  /\ UNCHANGED <<proc, ctxDone, cfgSelection, state, cur, loopLive, ksOn, verb, clone,
                 lpc, lsel, lclone, anyUp, eng, front, lown, disk, kernelVars>>

\* stopConnectLocked takes the loop's cancel and done and cancels it ...
TakeLoop(p) ==
  /\ connectMu' = p
  /\ done' = [done EXCEPT ![p] = loopDone]
  /\ loopDone' = NoLoop
  /\ cancelled' = [l \in Loops |-> cancelled[l] \/ l = loopDone]
  /\ Goto(p, "await")
  /\ UNCHANGED <<proc, ctxDone, cfgSelection, sel, state, cur, loopLive, ksOn, verb, clone,
                 lpc, lsel, lclone, anyUp, eng, front, lown, disk, kernelVars>>

\* ... for a connect or a stop, and for startStored and afterRefresh when no
\* loop runs what is stored ...
Cancel(p) ==
  /\ pc[p] = "lock" /\ connectMu = Free
  /\ \/ /\ verb[p] \in {"startStored", "refresh"} /\ cfgSelection # None /\ ~loopLive
        /\ arg' = [arg EXCEPT ![p] = cfgSelection]
     \/ verb[p] \notin {"startStored", "refresh"} /\ UNCHANGED arg
  /\ TakeLoop(p)

\* ... and for afterRefresh when the line has changed in its list ...
Changed(p) ==
  /\ pc[p] \in {"compare", "compared"}
  /\ TakeLoop(p) /\ UNCHANGED arg

\* ... waits for it to end, and clears the status.
Await(p) ==
  /\ pc[p] = "await"
  /\ LoopEnded(p)
  /\ done' = [done EXCEPT ![p] = NoLoop]
  /\ state' = "idle" /\ sel' = None
  /\ Goto(p, IF Starting(p) /\ WantsSwitch(arg[p]) THEN "install" ELSE "takeOut")
  /\ UNCHANGED <<proc, ctxDone, connectMu, cfgSelection, cur, loopDone, loopLive, ksOn,
                 verb, arg, clone, loopVars, disk, kernelVars>>

\* installKillSwitch: nothing to do when the switch is on; else its rules, the
\* own-address rules and their watcher.
Install(p) ==
  /\ pc[p] = "install"
  /\ \/ ksOn /\ UNCHANGED <<ksOn, kernelVars>>
     \/ ~ksOn /\ ksOn' = TRUE /\ ksIn' = TRUE /\ own' = "all" /\ UNCHANGED refused
  /\ Goto(p, "spawn")
  /\ UNCHANGED <<proc, ctxDone, connectMu, cfgSelection, sel, state, cur, loopDone, loopLive,
                 localVars, loopVars, disk>>

\* The kernel refuses the switch or the own-address rules: what was added is
\* taken out again, as far as the kernel lets it, but the own-address rules stay.
\* No loop is started and the status says why.
InstallFails(p) ==
  /\ pc[p] = "install" /\ ~ksOn
  /\ \E K \in (SUBSET {"add", "remove"}) \ {{}} :
       /\ Refuse(K)
       /\ ksIn' \in IF "remove" \in K THEN BOOLEAN ELSE {FALSE}
  /\ own' \in {own, "part"}
  /\ sel' = arg[p] /\ state' = "failed"
  /\ Leave(p)
  /\ UNCHANGED <<proc, ctxDone, cfgSelection, cur, loopDone, loopLive, ksOn, clone, done,
                 loopVars, disk>>

\* Mutant: the switch goes and its own-address rules stay.
RemoveSwitchOnly ==
  /\ ksOn' = FALSE
  /\ ksIn' = IF ksOn THEN FALSE ELSE ksIn
  /\ UNCHANGED <<own, refused>>

\* removeKillSwitch: nothing to do when it is off; else its watcher ends, the
\* own-address rules go, then the switch's.  Errors are logged.
RemoveSwitch ==
  /\ ksOn' = FALSE
  /\ IF ksOn
     THEN \/ own' = "none" /\ ksIn' = FALSE /\ UNCHANGED refused
          \/ own' \in {own, "part", "none"} /\ ksIn' \in {ksIn, FALSE} /\ Refuse({"remove"})
     ELSE UNCHANGED kernelVars

\* startConnectLocked for a selection without the switch.
TakeOut(p) ==
  /\ pc[p] = "takeOut" /\ Starting(p)
  /\ RemoveSwitch
  /\ Goto(p, "spawn")
  /\ UNCHANGED <<proc, ctxDone, connectMu, cfgSelection, sel, state, cur, loopDone, loopLive,
                 localVars, loopVars, disk>>

\* The rest of stopAll; a disconnect or a remove forgets the stored selection.
StopAll(p) ==
  /\ pc[p] = "takeOut" /\ ~Starting(p)
  /\ RemoveSwitch
  /\ cfgSelection' = IF verb[p] = "shutdown" THEN cfgSelection ELSE None
  /\ Leave(p)
  /\ UNCHANGED <<proc, ctxDone, sel, state, cur, loopDone, loopLive, clone, done, loopVars, disk>>

\* The new loop is registered under d.mu and its goroutine started.
Spawn(p) ==
  /\ pc[p] = "spawn"
  /\ \E l \in Loops :
       /\ ~Live(l)
       /\ loopDone' = l
       /\ LGoto(l, "round")
       /\ lsel' = [lsel EXCEPT ![l] = arg[p]]
       /\ cancelled' = [cancelled EXCEPT ![l] = FALSE]
  /\ loopLive' = TRUE
  /\ sel' = arg[p] /\ state' = "connecting"
  /\ Leave(p)
  /\ UNCHANGED <<proc, ctxDone, cfgSelection, cur, ksOn, clone, done, lclone, anyUp, eng,
                 front, lown, disk, kernelVars>>
-----------------------------------------------------------------------------
(* connectLoop.                                                            *)

\* What these steps leave alone.
LoopFrame ==
  UNCHANGED <<proc, ctxDone, connectMu, cfgSelection, sel, loopDone, ksOn, pc, localVars,
              lsel, cancelled, ksIn>>

\* The top of a round.
LoopRound(l) ==
  /\ lpc[l] = "round"
  /\ LGoto(l, IF Stopping(l) THEN "exit" ELSE "lists")
  /\ LoopFrame
  /\ UNCHANGED <<state, cur, loopLive, lclone, anyUp, eng, front, lown, disk, own, refused>>

\* allEntries and resolve: fetchInto and remember copy the config for the file;
\* then there are candidates, or no list can be read, or nothing matches.
LoopResolve(l) ==
  /\ lpc[l] = "lists"
  /\ \/ LGoto(l, "save") /\ lclone' = [lclone EXCEPT ![l] = cfgSelection] /\ UNCHANGED <<state, anyUp>>
     \/ LGoto(l, "try") /\ anyUp' = [anyUp EXCEPT ![l] = FALSE] /\ UNCHANGED <<state, lclone>>
     \/ LGoto(l, "sleep") /\ state' = "failed" /\ UNCHANGED <<lclone, anyUp>>
     \/ LGoto(l, "exit") /\ state' = "failed" /\ UNCHANGED <<lclone, anyUp>>
  /\ LoopFrame /\ UNCHANGED <<cur, loopLive, eng, front, lown, disk, own, refused>>

\* The copy is written; a failure is logged.
LoopSave(l) ==
  /\ lpc[l] = "save"
  /\ \/ disk' = lclone[l] /\ UNCHANGED refused
     \/ UNCHANGED disk /\ Refuse({"save"})
  /\ lclone' = [lclone EXCEPT ![l] = None]
  /\ LGoto(l, "lists")
  /\ LoopFrame /\ UNCHANGED <<state, cur, loopLive, anyUp, eng, front, lown, own>>

\* Mutant: a status no client knows.
LoopTryNamed(l) ==
  /\ lpc[l] = "try" /\ LGoto(l, "engine") /\ state' = "trying"
  /\ LoopFrame /\ UNCHANGED <<cur, loopLive, lclone, anyUp, eng, front, lown, disk, own, refused>>

\* The next candidate.
LoopTry(l) ==
  /\ lpc[l] = "try"
  /\ \/ Stopping(l) /\ LGoto(l, "exit") /\ UNCHANGED state
     \/ ~Stopping(l) /\ LGoto(l, "engine") /\ state' = "connecting"
  /\ LoopFrame /\ UNCHANGED <<cur, loopLive, lclone, anyUp, eng, front, lown, disk, own, refused>>

\* bringUp: the line is proven through its engine or, without one, in a
\* pre-flight front; or it is not, and nothing of it stays.
LoopEngine(l) ==
  /\ lpc[l] = "engine"
  /\ \/ LGoto(l, "next") /\ UNCHANGED eng
     \/ LGoto(l, "rules") /\ \E e \in BOOLEAN : eng' = [eng EXCEPT ![l] = e]
  /\ LoopFrame /\ UNCHANGED <<state, cur, loopLive, lclone, anyUp, front, lown, disk, own, refused>>

\* A tun line brings the own-address rules, or fails with some of them.
LoopRules(l) ==
  /\ lpc[l] = "rules"
  /\ \/ /\ OwnRules(l)
        /\ own' = "all"
        /\ lown' = [lown EXCEPT ![l] = TRUE]
        /\ LGoto(l, "front") /\ UNCHANGED <<eng, refused>>
     \/ /\ OwnRules(l)
        /\ own' \in {own, "part"} /\ Refuse({"add"})
        /\ StopEngine(l)
        /\ LGoto(l, "next") /\ UNCHANGED lown
     \/ /\ ~OwnRules(l)
        /\ LGoto(l, "front") /\ UNCHANGED <<own, lown, eng, refused>>
  /\ LoopFrame /\ UNCHANGED <<state, cur, loopLive, lclone, anyUp, front, disk>>

\* Routes.Clear for a line that holds the own-address rules.
ClearOwn(l) ==
  /\ lown' = [lown EXCEPT ![l] = FALSE]
  /\ \/ lown[l] /\ own' = "none" /\ UNCHANGED refused
     \/ lown[l] /\ own' \in {own, "part"} /\ Refuse({"remove"})
     \/ ~lown[l] /\ UNCHANGED <<own, refused>>

\* StartFront; a failure clears the line's rules and stops its engine.
LoopFront(l) ==
  /\ lpc[l] = "front"
  /\ \/ /\ front' = [front EXCEPT ![l] = TRUE]
        /\ LGoto(l, "confirm") /\ UNCHANGED <<eng, own, lown, refused>>
     \/ /\ ClearOwn(l)
        /\ StopEngine(l)
        /\ LGoto(l, "next") /\ UNCHANGED front
  /\ LoopFrame /\ UNCHANGED <<state, cur, loopLive, lclone, anyUp, disk>>

\* The last probe of bringUp: markUp when it answers, tearDown when not.
LoopConfirm(l) ==
  /\ lpc[l] = "confirm"
  /\ \/ LGoto(l, "up") /\ anyUp' = [anyUp EXCEPT ![l] = TRUE] /\ cur' = l /\ state' = "up"
     \/ LGoto(l, "close") /\ UNCHANGED <<anyUp, cur, state>>
  /\ LoopFrame /\ UNCHANGED <<loopLive, lclone, eng, front, lown, disk, own, refused>>

\* supervise returns: the context ended, the engine stopped or probes failed.
LoopSupervise(l) ==
  /\ lpc[l] = "up"
  /\ LGoto(l, "close")
  /\ LoopFrame
  /\ UNCHANGED <<state, cur, loopLive, lclone, anyUp, eng, front, lown, disk, own, refused>>

\* tearDown closes the front and stops the engine ...
LoopClose(l) ==
  /\ lpc[l] = "close"
  /\ front' = [front EXCEPT ![l] = FALSE]
  /\ StopEngine(l)
  /\ LGoto(l, "clear")
  /\ LoopFrame /\ UNCHANGED <<state, cur, loopLive, lclone, anyUp, lown, disk, own, refused>>

\* Mutant: the line stays the current one.
DropCurNot(l) == UNCHANGED cur

DropCur(l) == cur' = IF cur = l THEN NoLoop ELSE cur

\* ... then clears the line's rules and d.cur.
LoopClear(l) ==
  /\ lpc[l] = "clear"
  /\ ClearOwn(l)
  /\ DropCur(l)
  /\ LGoto(l, "next")
  /\ LoopFrame /\ UNCHANGED <<state, loopLive, lclone, anyUp, eng, front, disk>>

\* After a candidate: another one, another round or, when the round brought
\* nothing up, a pause.
LoopNext(l) ==
  /\ lpc[l] = "next"
  /\ \/ LGoto(l, "try") /\ UNCHANGED state
     \/ anyUp[l] /\ LGoto(l, "round") /\ UNCHANGED state
     \/ ~anyUp[l] /\ LGoto(l, "sleep") /\ state' = "failed"
  /\ LoopFrame /\ UNCHANGED <<cur, loopLive, lclone, anyUp, eng, front, lown, disk, own, refused>>

\* sleepCtx: the backoff passes, or the context ends.
LoopSleep(l) ==
  /\ lpc[l] = "sleep"
  /\ LGoto(l, IF Stopping(l) THEN "exit" ELSE "round")
  /\ LoopFrame
  /\ UNCHANGED <<state, cur, loopLive, lclone, anyUp, eng, front, lown, disk, own, refused>>

\* Mutant: loopLive is not reset.
LoopExitKeeps(l) ==
  /\ lpc[l] = "exit" /\ LGoto(l, "closing")
  /\ LoopFrame
  /\ UNCHANGED <<state, cur, loopLive, lclone, anyUp, eng, front, lown, disk, own, refused>>

\* The goroutine ends: loopLive under d.mu, then the done channel.
LoopExit(l) ==
  /\ lpc[l] = "exit"
  /\ loopLive' = FALSE
  /\ LGoto(l, "closing")
  /\ LoopFrame /\ UNCHANGED <<state, cur, lclone, anyUp, eng, front, lown, disk, own, refused>>

LoopDone(l) ==
  /\ lpc[l] = "closing"
  /\ LGoto(l, "none")
  /\ lsel' = [lsel EXCEPT ![l] = None]
  /\ cancelled' = [cancelled EXCEPT ![l] = FALSE]
  /\ anyUp' = [anyUp EXCEPT ![l] = FALSE]
  /\ UNCHANGED <<proc, ctxDone, connectMu, fieldVars, pc, localVars, lclone, eng, front, lown,
                 disk, kernelVars>>
-----------------------------------------------------------------------------
RunStep == Boot \/ BootFails \/ Terminate \/ Shutdown \/ Exit \/ Crash

RequestStep(h) ==
  \/ \E s \in Selections : RequestConnect(h, s)
  \/ RequestDisconnect(h)
  \/ \E drop \in BOOLEAN : RequestRemove(h, drop)

OutsideStep(p) ==
  \/ FetchInto(p) \/ Reject(p) \/ Store(p) \/ Refreshed(p)
  \/ Clone(p) \/ Save(p) \/ SaveFails(p)

EnterStep(p) == LeaveAlone(p) \/ Compare(p) \/ Cancel(p)

LockedStep(p) ==
  \/ Same(p) \/ Changed(p)
  \/ Await(p) \/ Install(p) \/ InstallFails(p) \/ TakeOut(p) \/ StopAll(p) \/ Spawn(p)

LoopStep(l) ==
  \/ LoopRound(l) \/ LoopResolve(l) \/ LoopSave(l) \/ LoopTry(l) \/ LoopEngine(l) \/ LoopRules(l)
  \/ LoopFront(l) \/ LoopConfirm(l) \/ LoopClose(l) \/ LoopClear(l)
  \/ LoopNext(l) \/ LoopSleep(l) \/ LoopExit(l) \/ LoopDone(l)

Next ==
  \/ RunStep
  \/ \E h \in Handlers : RequestStep(h)
  \/ \E p \in Procs : RequestRefresh(p) \/ OutsideStep(p) \/ EnterStep(p) \/ LockedStep(p)
  \/ \E l \in Loops : LoopStep(l) \/ LoopSupervise(l)

Spec == Init /\ [][Next]_vars

\* The Go scheduler runs every goroutine, and a Go mutex is handed to a waiter
\* that has waited long enough, so one that finds it free again and again gets
\* it.  A round reads finitely many lists.  A supervised line ends when its
\* context does.  Nothing makes requests arrive, lines die or the process end.
Fairness ==
  /\ WF_vars(Shutdown) /\ WF_vars(Exit)
  /\ \A p \in Procs : WF_vars(OutsideStep(p) \/ LockedStep(p)) /\ SF_vars(EnterStep(p))
  /\ \A l \in Loops :
       /\ WF_vars(LoopStep(l))
       /\ SF_vars(LoopResolve(l) /\ lpc'[l] # "save")
       /\ WF_vars(Stopping(l) /\ LoopSupervise(l))

FairSpec == Spec /\ Fairness
-----------------------------------------------------------------------------
(* Types.                                                                  *)

Outside == {"idle", "serving", "exit", "lists", "fetched", "save", "clone", "lock"}

\* Labels inside connectMu at which no loop runs.
Quiesced == {"install", "takeOut", "spawn"}

\* Labels of afterRefresh's comparison, inside connectMu beside the loop.
Comparing == {"compare", "refetched", "compared"}

Locked == {"await"} \cup Quiesced \cup Comparing

Labels == Outside \cup Locked

\* Labels of bringUp, supervise and tearDown.
Holding == {"rules", "front", "confirm", "up", "close", "clear"}

LoopLabels == Holding \cup {"none", "round", "lists", "save", "try", "engine", "next", "sleep",
                            "exit", "closing"}

\* The fields, locals and kernel state stay within their types.
TypeOK ==
  /\ proc \in {"stopped", "running", "crashed"} /\ ctxDone \in BOOLEAN
  /\ connectMu \in Maybe(Procs, Free)
  /\ cfgSelection \in Maybe(Selections, None) /\ sel \in Maybe(Selections, None)
  /\ state \in {"idle", "connecting", "up", "failed"}
  /\ cur \in Maybe(Loops, NoLoop) /\ loopDone \in Maybe(Loops, NoLoop)
  /\ loopLive \in BOOLEAN /\ ksOn \in BOOLEAN
  /\ pc \in [Procs -> Labels]
  /\ verb \in [Procs -> Verbs \cup {"none", "startStored", "shutdown"}]
  /\ arg \in [Procs -> Maybe(Selections, None)]
  /\ clone \in [Procs -> Maybe(Selections, None)]
  /\ done \in [Procs -> Maybe(Loops, NoLoop)]
  /\ lpc \in [Loops -> LoopLabels]
  /\ lsel \in [Loops -> Maybe(Selections, None)]
  /\ lclone \in [Loops -> Maybe(Selections, None)]
  /\ cancelled \in [Loops -> BOOLEAN] /\ anyUp \in [Loops -> BOOLEAN]
  /\ eng \in [Loops -> BOOLEAN] /\ front \in [Loops -> BOOLEAN]
  /\ lown \in [Loops -> BOOLEAN]
  /\ disk \in Maybe(Selections, None)
  /\ ksIn \in BOOLEAN /\ own \in {"none", "part", "all"} /\ refused \subseteq Faults
-----------------------------------------------------------------------------
(* Safety.                                                                 *)

\* Two callers of startConnect or stopConnect never overlap in a way that
\* leaves two connect loops (the bug that connectMu's comment names).
OneLoop == \A l, m \in Loops : Live(l) /\ Live(m) => l = m

\* No engine and no front runs that nobody can stop: its loop is the one that
\* d.cancel reaches, or the one that the holder of connectMu waits for.
NoOrphan ==
  \A l \in Loops :
    (eng[l] \/ front[l]) =>
      loopDone = l \/ \E p \in Procs : connectMu = p /\ pc[p] = "await" /\ done[p] = l

\* While a selection with the kill switch is being connected, in whatever
\* phase its loop is, the switch's rules stand; and a selection without it
\* never runs while the daemon holds the switch on.
SwitchStands ==
  \A l \in Loops : Live(l) => IF lsel[l] \in KillSwitch THEN ksIn /\ ksOn ELSE ~ksOn

\* A tun is never up without the rules that keep inbound services on their
\* route, whoever they belong to: they come before the front and go after it.
InboundRules ==
  \A l \in Loops : front[l] /\ lsel[l] \in Tun => own = "all"

\* Between control operations, "idle" means that the box is as it was: no loop,
\* no line, no switch and no rules, unless the kernel refused something.
IdleIsOpen ==
  connectMu = Free /\ state = "idle" =>
    /\ \A l \in Loops : ~Live(l)
    /\ sel = None /\ cur = NoLoop /\ ~ksOn
    /\ (proc = "running" /\ refused \subseteq {"save"}) => (~ksIn /\ own = "none")

\* loopLive says exactly whether a loop still has work to do, so startStored
\* and afterRefresh neither restart a running selection nor leave one unserved.
LoopLiveExact ==
  loopLive <=> \E l \in Loops : lpc[l] \notin {"none", "closing"}

\* d.sel, which status shows and by which remove decides whether the selection
\* goes with its list, is the selection of whatever loop still runs, from its
\* start until it has ended.
ShownIsRunning == \A l \in Loops : Live(l) => sel = lsel[l]

\* The line that status reports is one its loop still holds.
CurIsHeld == cur # NoLoop => lpc[cur] \in {"up", "close", "clear"}

\* The switch's rules leave the kernel only while no loop runs, and only for a
\* stop, for a selection without the switch, for rules the kernel refused, or
\* when a new process replaces what a crash left: neither a reconnect nor a
\* failover of a selection with the switch opens the box.
SwitchHeld ==
  [][ksIn /\ ~ksIn' =>
       /\ \A l \in Loops : ~Live(l)
       /\ \/ proc # "running"
          \/ ~(refused' \subseteq {"save"})
          \/ \E p \in Procs : connectMu = p /\ arg[p] \notin KillSwitch]_vars

\* At the level of selections, the daemon is the session that Session describes.
SessionOf == INSTANCE Session WITH running <- {lsel[l] : l \in {m \in Loops : Live(m)}},
                                   shut <- ksIn

SessionSpec == SessionOf!Spec

\* Every goroutine that needs connectMu gets it and leaves it again: a stop
\* waits for a loop, and the loop never waits for the one who stops it.
Answered ==
  \A p \in Procs : pc[p] = "lock" ~> pc[p] \in {"idle", "serving", "exit"}
-----------------------------------------------------------------------------
(* What the documentation says of the whole.                               *)

\* Nothing is in flight, and the disk has refused nothing.
Quiet ==
  /\ proc = "running" /\ ~ctxDone /\ connectMu = Free
  /\ \A p \in Procs : pc[p] \in {"idle", "serving"}
  /\ \A l \in Loops : lpc[l] # "save"
  /\ "save" \notin refused

\* "The selection is stored: the service reconnects it after a reboot": with
\* nothing in flight, what runs is what the file holds.
StoredIsRunning == Quiet => \A l \in Loops : Live(l) => lsel[l] = disk

\* "`disconnect` and a clean stop of the service open the box again".
CleanStopOpens == proc = "stopped" /\ refused = {} => ~ksIn
=============================================================================
