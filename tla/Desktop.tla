------------------------------- MODULE Desktop -------------------------------
(***************************************************************************)
(* The desktop app's session (DesktopVpnManager) in the Linux tunnel, for  *)
(* lines that are a sing-box or Xray core: the requests the screen makes,  *)
(* the watchers on the tunnel's and the core's process, the restart of a   *)
(* line behind a tunnel that stays, the look at other lines of the country *)
(* that a long outage leads to, and the kill switch's block.               *)
(*                                                                         *)
(* Everything is a coroutine on Dispatchers.IO.  One mutex is held to      *)
(* start and to stop processes and let go for every check that waits on    *)
(* the far end; a request moves `generation' before it waits for the       *)
(* mutex, so whoever holds it learns that it was superseded.  A stretch    *)
(* under the mutex is one step here wherever only `generation' could move  *)
(* inside it with the same effect before or after.                         *)
(***************************************************************************)
EXTENDS Naturals, FiniteSets

CONSTANTS Locations,      \* lines of one country, in the store
          MaxRequests,    \* bound: startVpn and stopVpn calls
          MaxDeaths,      \* bound: processes that die by themselves
          None

Gens  == 1..MaxRequests
Ids   == Nat \ {0}
Lines == Locations \X Ids     \* SessionLine objects: the location, and which object

ASSUME BoundsAssumption == MaxRequests \in Nat /\ MaxDeaths \in Nat

ASSUME NoneAssumption ==
  None \notin Locations \cup Lines \cup Gens \cup (Lines \X Gens) \cup {"start", "stop"}
                \cup ({"request", "attempts"} \X Gens)

VARIABLES
  generation, lineGeneration,
  req, pc,        \* a request's verb and where its coroutine is
  mutex,          \* who holds it across steps: <<"request", g>> or <<"attempts", g>>
  status,
  sessionLine,
  run,            \* the location whose core runs, whoever started it
  tun, tunAlive,  \* tunProcess, and whether hev runs
  job, jobs,      \* lineRestartJob; the coroutines of launchLineAttempts, the current one and
                  \* those cancelled, by the generation they were launched for
  coreWatch, tunWatch,       \* armed watchers
  coreReports, tunReports,   \* deaths on their way to the mutex
  active, chosen, \* the store's active location; a choice whose startVpn has not come yet
  fits,           \* the settings are those the session was built with
  loc,            \* the location a start has read
  ks, started, held, block,  \* the setting; LinuxTunController's two flags; the rules in the kernel
  owed,           \* history: a verified session's tunnel died with the switch on
  deaths

asked   == <<generation, req, chosen, active, fits>>
session == <<sessionLine, status, lineGeneration>>
procs   == <<run, tun, tunAlive>>
work    == <<job, jobs>>
watch   == <<coreWatch, tunWatch, coreReports, tunReports>>
switch  == <<ks, started, held, block, owed>>
vars    == <<asked, pc, mutex, session, procs, work, watch, switch, loc, deaths>>

Idle == [pc |-> "idle", line |-> None, next |-> None, left |-> {}]

Init ==
  /\ generation = 0 /\ lineGeneration = 0
  /\ req = [g \in Gens |-> None] /\ pc = [g \in Gens |-> "none"]
  /\ mutex = None /\ status = "off" /\ sessionLine = None
  /\ run = None /\ tun = 0 /\ tunAlive = FALSE
  /\ job = None /\ jobs = [g \in Gens |-> Idle]
  /\ coreWatch = None /\ tunWatch = 0 /\ coreReports = {} /\ tunReports = {}
  /\ active \in Locations /\ chosen = FALSE /\ fits = TRUE /\ loc = None
  /\ ks \in BOOLEAN /\ started = FALSE /\ held = FALSE /\ block = FALSE /\ owed = FALSE
  /\ deaths = 0

-----------------------------------------------------------------------------
(* What the screen does.                                                     *)

Issue(verb) ==
  /\ generation < MaxRequests
  /\ generation' = generation + 1
  /\ req' = [req EXCEPT ![generation'] = verb]
  /\ pc' = [pc EXCEPT ![generation'] = "wait"]

StartVpn ==
  /\ Issue("start") /\ chosen' = FALSE
  /\ UNCHANGED <<active, fits, mutex, session, procs, work, watch, switch, loc, deaths>>

StopVpn ==
  /\ Issue("stop")
  /\ UNCHANGED <<active, chosen, fits, mutex, session, procs, work, watch, switch, loc, deaths>>

(* Another location, or other settings, stored before the startVpn that      *)
(* comes with them.                                                          *)
Choose(l, f) ==
  /\ ~chosen /\ generation < MaxRequests /\ (l # active \/ ~f)
  /\ chosen' = TRUE /\ active' = l /\ fits' = (fits /\ f)
  /\ UNCHANGED <<generation, req, pc, mutex, session, procs, work, watch, switch, loc, deaths>>

-----------------------------------------------------------------------------
(* Shared steps.                                                             *)

Current(g) == g = generation

(* setStatus: a block with no tunnel in front of it is what is shown.        *)
Shown(s, h, t) == IF h /\ t = 0 /\ s \in {"off", "error"} THEN "held" ELSE s

(* An identity that is not one of S.                                         *)
Fresh(S) == CHOOSE n \in 1..(Cardinality(S) + 1) : n \notin S

(* A SessionLine object, and a process, nobody has a reference to.           *)
Referred == {sessionLine} \cup {jobs[g].line : g \in Gens} \cup {jobs[g].next : g \in Gens}
              \cup (IF coreWatch = None THEN {} ELSE {coreWatch[1]})
              \cup {r[1] : r \in coreReports}
NewLine(l) == <<l, Fresh({r[2] : r \in {x \in Referred \ {None} : x[1] = l}})>>
NewTun == Fresh(tunReports)

(* A cancelled coroutine ends where it is suspended, unless it is about to   *)
(* take the mutex, which a free mutex grants without a look at the job.      *)
AtLock == {"confirmed", "trying", "checked", "unchecked", "restore"}
Cancelled == [g \in Gens |-> IF g = job /\ jobs[g].pc \notin AtLock THEN Idle ELSE jobs[g]]

(* launchLineAttempts: a generation launches its attempts only once the ones *)
(* before are idle, so it never has two coroutines at once.                  *)
Launch(line, g, at) ==
  /\ job' = g
  /\ jobs' = [jobs EXCEPT ![g] = [Idle EXCEPT !.pc = at, !.line = line]]

(* Mutant: only a hold that stands already is kept. *)
KeepsBlockIfHeld(final) == held

(* stopDesktopMode: whether LinuxTunController keeps the block.  A verified  *)
(* session whose tunnel died, stopped by anything but a Disconnect, holds    *)
(* (holdAfterTunDeath); a hold stays until endHold.                          *)
KeepsBlock(final) ==
  IF ~final /\ sessionLine # None /\ tun # 0 /\ ~tunAlive
    THEN ks /\ started /\ block
    ELSE held

(* Mutant: a cleanup is taken to have worked. *)
LeftStandingNever(b) == FALSE

(* blockLeftStanding, asked after a cleanup.                                 *)
LeftStanding(b) == b

(* Mutant: the tunnel's watcher is left running. *)
CancelJobsWatching == job' = None /\ jobs' = Cancelled /\ coreWatch' = None /\ UNCHANGED tunWatch

(* cancelProcessJobs.                                                        *)
CancelJobs == job' = None /\ jobs' = Cancelled /\ coreWatch' = None /\ tunWatch' = 0

(* stopDesktopMode and LinuxTunController.stop: the line is forgotten, every *)
(* job cancelled, the tunnel stopped; its block goes with it, unless it is   *)
(* kept or the cleanup's password dialog is closed.                          *)
StopMode(final, s) ==
  /\ sessionLine' = None
  /\ CancelJobs
  /\ IF KeepsBlock(final)
       THEN held' = TRUE /\ UNCHANGED <<started, block>>
       ELSE started' = FALSE /\ block' \in {FALSE, block} /\ held' = LeftStanding(block')
  /\ tun' = 0 /\ tunAlive' = FALSE /\ run' = None
  /\ status' = Shown(s, held', 0)
  /\ owed' = (owed /\ (held \/ ~final))
  /\ UNCHANGED <<ks, coreReports>>

(* takeAsSessionLine.                                                        *)
Take(line) == sessionLine' = line /\ coreWatch' = None

(* lineIsUp, and the end of startDesktopMode: Connected, watched, no restart *)
(* running, no hold.                                                         *)
Up(line, g) ==
  /\ status' = "connected"
  /\ coreWatch' = <<line, g>>
  /\ held' = FALSE /\ owed' = (owed /\ ~tunAlive)

-----------------------------------------------------------------------------
(* A request.                                                                *)

Lock(g) == mutex = None /\ pc[g] = "wait"
At(g, p) == mutex = <<"request", g>> /\ pc[g] = p
Done(g) == mutex' = None /\ pc' = [pc EXCEPT ![g] = "done"]
On(g, p) == mutex' = <<"request", g>> /\ pc' = [pc EXCEPT ![g] = p]

Stop(g) ==
  /\ Lock(g) /\ req[g] = "stop"
  /\ Done(g)
  /\ IF status = "off" /\ tun = 0
       THEN sessionLine' = None /\ CancelJobs /\ UNCHANGED <<procs, switch, status, coreReports>>
       ELSE StopMode(TRUE, "off")
  /\ UNCHANGED <<asked, lineGeneration, tunReports, loc, deaths>>

Superseded(g) ==
  /\ Lock(g) /\ req[g] = "start" /\ ~Current(g)
  /\ Done(g)
  /\ UNCHANGED <<asked, session, procs, work, watch, switch, loc, deaths>>

InSession == status \in {"connected", "connecting", "reconnecting"} \/ tun # 0
BehindTun == sessionLine # None /\ tunAlive /\ fits

(* Mutant: the line keeps the generation of the start before it. *)
ChangeLineStays(g) ==
  /\ Lock(g) /\ req[g] = "start" /\ Current(g) /\ InSession /\ BehindTun
  /\ On(g, "change")
  /\ status' = "reconnecting"
  /\ Take(NewLine(active))
  /\ job' = None /\ jobs' = Cancelled
  /\ UNCHANGED <<asked, lineGeneration, procs, tunWatch, coreReports, tunReports, switch, loc, deaths>>

(* changeLineBehindTun: the chosen location becomes the session's line ...   *)
ChangeLine(g) ==
  /\ Lock(g) /\ req[g] = "start" /\ Current(g) /\ InSession /\ BehindTun
  /\ On(g, "change")
  /\ lineGeneration' = g /\ status' = "reconnecting"
  /\ Take(NewLine(active))
  /\ job' = None /\ jobs' = Cancelled
  /\ UNCHANGED <<asked, procs, tunWatch, coreReports, tunReports, switch, loc, deaths>>

(* Mutant: a new line that did not start is not tried again. *)
ChangedOnce(g) ==
  /\ At(g, "change") /\ Done(g)
  /\ run' \in {None, sessionLine[1]}
  /\ IF Current(g) /\ run' # None
       THEN Launch(sessionLine, g, "confirm")
       ELSE UNCHANGED work
  /\ UNCHANGED <<asked, session, tun, tunAlive, watch, switch, loc, deaths>>

(* ... the old core is stopped and the new one started, or not, and whether  *)
(* it came up is for the attempts to find out.                               *)
Changed(g) ==
  /\ At(g, "change") /\ Done(g)
  /\ run' \in {None, sessionLine[1]}
  /\ IF Current(g)
       THEN Launch(sessionLine, g, IF run' = None THEN "wait" ELSE "confirm")
       ELSE UNCHANGED work
  /\ UNCHANGED <<asked, session, tun, tunAlive, watch, switch, loc, deaths>>

(* The full restart: whatever there is goes first.  It is also what is left  *)
(* when the store has no location to change to, or the new line cannot be    *)
(* prepared.                                                                 *)
Restart(g) ==
  /\ Lock(g) /\ req[g] = "start" /\ Current(g) /\ InSession
  /\ On(g, "restart")
  /\ StopMode(FALSE, "stopping")
  /\ UNCHANGED <<asked, lineGeneration, tunReports, loc, deaths>>

(* Mutant: a superseded start goes on. *)
BeginAnyway(g) ==
  /\ \/ Lock(g) /\ req[g] = "start" /\ ~InSession
     \/ At(g, "restart")
  /\ On(g, "core")
  /\ lineGeneration' = g
  /\ status' = IF pc[g] = "restart" THEN "reconnecting" ELSE "connecting"
  /\ loc' = active /\ fits' = TRUE
  /\ UNCHANGED <<generation, req, chosen, active, sessionLine, procs, work, watch, switch, deaths>>

(* startDesktopMode.                                                         *)
Begin(g) ==
  /\ \/ Lock(g) /\ req[g] = "start" /\ Current(g) /\ ~InSession
     \/ At(g, "restart")
  /\ IF Current(g)
       THEN /\ On(g, "core")
            /\ lineGeneration' = g
            /\ status' = IF pc[g] = "restart" THEN "reconnecting" ELSE "connecting"
            /\ loc' = active /\ fits' = TRUE
       ELSE Done(g) /\ UNCHANGED <<lineGeneration, status, loc, fits>>
  /\ UNCHANGED <<generation, req, chosen, active, sessionLine, procs, work, watch, switch, deaths>>

(* The store has no complete location to start: as far as the error.         *)
NoLocation(g) ==
  /\ \/ Lock(g) /\ req[g] = "start" /\ ~InSession
     \/ At(g, "restart")
  /\ Current(g) /\ Done(g)
  /\ lineGeneration' = g /\ status' = Shown("error", held, tun)
  /\ UNCHANGED <<asked, sessionLine, procs, work, watch, switch, loc, deaths>>

Fails(g) == pc' = [pc EXCEPT ![g] = "fail"] /\ UNCHANGED mutex

StartCore(g) ==
  /\ At(g, "core")
  /\ run' \in {None, loc}
  /\ IF run' # None /\ Current(g) THEN On(g, "tun") ELSE Fails(g)
  /\ UNCHANGED <<asked, session, tun, tunAlive, work, watch, switch, loc, deaths>>

(* LinuxTunController.start: over a block that is held the scripts are the   *)
(* kill switch's, and the plain ones begin by emptying the table.            *)
StartTun(g) ==
  /\ At(g, "tun")
  /\ started' = (ks \/ held) /\ block' = started' /\ held' = (held /\ started')
  /\ tun' = NewTun /\ tunAlive' = TRUE
  /\ IF Current(g) /\ run # None
       THEN On(g, "verify") /\ tunWatch' = tun'
       ELSE Fails(g) /\ UNCHANGED tunWatch
  /\ UNCHANGED <<asked, session, run, work, coreWatch, coreReports, tunReports, ks, owed, loc, deaths>>

TunFails(g) ==
  /\ At(g, "tun") /\ Fails(g)
  /\ started' = (ks \/ held) /\ block' \in {block, started'}
  /\ UNCHANGED <<asked, session, procs, work, watch, ks, held, owed, loc, deaths>>

(* The check, with the mutex held: a request that comes meanwhile waits.     *)
Verify(g) ==
  /\ At(g, "verify")
  /\ IF Current(g)
       THEN \/ Fails(g)
            \/ run # None /\ On(g, "up")
       ELSE Fails(g)
  /\ UNCHANGED <<asked, session, procs, work, watch, switch, loc, deaths>>

Connected(g) ==
  /\ At(g, "up") /\ Done(g)
  /\ sessionLine' = NewLine(loc) /\ loc' = None
  /\ Up(sessionLine', g)
  /\ UNCHANGED <<asked, lineGeneration, procs, work, tunWatch, coreReports, tunReports, ks, started,
                 block, deaths>>

Failed(g) ==
  /\ At(g, "fail") /\ Done(g)
  /\ StopMode(FALSE, IF Current(g) THEN "error" ELSE "stopping") /\ loc' = None
  /\ UNCHANGED <<asked, lineGeneration, tunReports, deaths>>

-----------------------------------------------------------------------------
(* Deaths and their reports.                                                 *)

CoreDies ==
  /\ run # None /\ deaths < MaxDeaths
  /\ run' = None /\ deaths' = deaths + 1
  /\ UNCHANGED <<asked, pc, mutex, session, tun, tunAlive, work, watch, switch, loc>>

TunDies ==
  /\ tunAlive /\ deaths < MaxDeaths
  /\ tunAlive' = FALSE /\ deaths' = deaths + 1
  /\ owed' = (owed \/ (sessionLine # None /\ ks /\ started /\ block))
  /\ UNCHANGED <<asked, pc, mutex, session, run, tun, work, watch, ks, started, held, block, loc>>

(* startCoreWatcher: asked every few seconds; superseded, it ends.           *)
CoreWatch ==
  /\ coreWatch # None
  /\ LET stale == ~Current(coreWatch[2]) \/ sessionLine # coreWatch[1]
     IN /\ stale \/ run = None
        /\ coreReports' = IF stale THEN coreReports ELSE coreReports \cup {coreWatch}
  /\ coreWatch' = None
  /\ UNCHANGED <<asked, pc, mutex, session, procs, work, tunWatch, tunReports, switch, loc, deaths>>

(* startTunExitWatcher: waits on the process.                                *)
TunWatch ==
  /\ tunWatch # 0 /\ ~tunAlive
  /\ tunReports' = tunReports \cup {tunWatch} /\ tunWatch' = 0
  /\ UNCHANGED <<asked, pc, mutex, session, procs, work, coreWatch, coreReports, switch, loc, deaths>>

(* A core's death, unless superseded, begins the restart behind the tunnel,  *)
(* one per outage.                                                           *)
CoreReport(r) ==
  /\ mutex = None /\ r \in coreReports
  /\ coreReports' = coreReports \ {r}
  /\ IF Current(r[2]) /\ sessionLine = r[1] /\ job = None
       THEN /\ coreWatch' = None
            /\ status' = "reconnecting"
            /\ Launch(r[1], r[2], "wait")
       ELSE UNCHANGED <<coreWatch, status, work>>
  /\ UNCHANGED <<asked, pc, mutex, sessionLine, lineGeneration, procs, tunWatch, tunReports,
                 switch, loc, deaths>>

(* The tunnel's own death ends the session.  What is compared is the         *)
(* generation of the line the tunnel carries now, not the one it was started *)
(* for.                                                                      *)
TunReport(t) ==
  /\ mutex = None /\ t \in tunReports
  /\ lineGeneration = generation /\ tun = t
  /\ StopMode(FALSE, "error")
  /\ tunReports' = tunReports \ {t}
  /\ UNCHANGED <<asked, pc, mutex, lineGeneration, loc, deaths>>

TunReportStale(t) ==
  /\ mutex = None /\ t \in tunReports
  /\ lineGeneration # generation \/ tun # t
  /\ tunReports' = tunReports \ {t}
  /\ UNCHANGED <<asked, pc, mutex, session, procs, work, coreWatch, tunWatch, coreReports, switch,
                 loc, deaths>>

-----------------------------------------------------------------------------
(* The attempts at a line that is not up (launchLineAttempts), by generation.*)

J(g) == jobs[g]
Go(g, p) == jobs' = [jobs EXCEPT ![g].pc = p]
End(g) == jobs' = [jobs EXCEPT ![g] = Idle]
Mine(g) == Current(g) /\ sessionLine = J(g).line

(* verifyLine, with no mutex: whatever core listens on the port is asked.    *)
Check(g) ==
  /\ J(g).pc = "confirm"
  /\ \/ ~Current(g) /\ End(g)
     \/ Current(g) /\ run # None /\ Go(g, "confirmed")
     \/ Current(g) /\ Go(g, "failed")
  /\ UNCHANGED <<asked, pc, mutex, session, procs, job, watch, switch, loc, deaths>>

(* confirmLine's second half: asked again, once the mutex is taken back.     *)
Confirm(g) ==
  /\ J(g).pc = "confirmed" /\ mutex = None
  /\ IF Mine(g) /\ run # None
       THEN End(g) /\ Up(J(g).line, g) /\ job' = None
       ELSE /\ IF Mine(g) THEN Go(g, "failed") ELSE End(g)
            /\ UNCHANGED <<status, coreWatch, held, owed, job>>
  /\ UNCHANGED <<asked, pc, mutex, sessionLine, lineGeneration, procs, tunWatch, coreReports,
                 tunReports, ks, started, block, loc, deaths>>

(* countAndLook: superseded, the attempts end; otherwise the next attempt is *)
(* waited for, or the outage has lasted and the other lines are looked at,   *)
(* while the store still names this one.                                     *)
Failure(g) ==
  /\ J(g).pc = "failed"
  /\ IF ~Mine(g) THEN End(g)
       ELSE \/ Go(g, "wait")
            \/ /\ active = J(g).line[1]
               /\ jobs' = [jobs EXCEPT ![g].pc = "look", ![g].left = Locations \ {active}]
  /\ UNCHANGED <<asked, pc, mutex, session, procs, job, watch, switch, loc, deaths>>

(* lookAtOtherLines: the next candidate whose probe passes, in its order.    *)
Look(g) ==
  /\ J(g).pc = "look"
  /\ \/ ~Mine(g) /\ End(g)
     \/ Mine(g) /\ jobs' = [jobs EXCEPT ![g].pc = "wait", ![g].left = {}]
     \/ /\ Mine(g)
        /\ \E l \in J(g).left :
             jobs' = [jobs EXCEPT ![g].pc = "trying", ![g].next = NewLine(l), ![g].left = @ \ {l}]
  /\ UNCHANGED <<asked, pc, mutex, session, procs, job, watch, switch, loc, deaths>>

(* tryBehindTun's first half: the candidate takes the line's place, in the   *)
(* session and on its port; never a full restart.                            *)
Try(g) ==
  /\ J(g).pc = "trying" /\ mutex = None
  /\ IF Mine(g) /\ tunAlive
       THEN mutex' = <<"attempts", g>> /\ Take(J(g).next) /\ Go(g, "replace")
       ELSE /\ IF Mine(g) THEN jobs' = [jobs EXCEPT ![g].pc = "wait", ![g].next = None, ![g].left = {}]
                          ELSE End(g)
            /\ UNCHANGED <<mutex, sessionLine, coreWatch>>
  /\ UNCHANGED <<asked, pc, status, lineGeneration, procs, job, tunWatch, coreReports, tunReports,
                 switch, loc, deaths>>

(* Mutant: the candidate's core is left running. *)
BackRunning(g) == sessionLine' = J(g).line /\ UNCHANGED run

(* backToOwnLine: the candidate's core is stopped and the line is the        *)
(* session's again.                                                          *)
Back(g) == sessionLine' = J(g).line /\ run' = None

Again(g, p) == jobs' = [jobs EXCEPT ![g].pc = p, ![g].next = None,
                                    ![g].left = IF p = "wait" THEN {} ELSE @]

Replace(g) ==
  /\ mutex = <<"attempts", g>> /\ J(g).pc = "replace" /\ mutex' = None
  /\ \/ ~Current(g) /\ run' \in {None, J(g).next[1]} /\ End(g) /\ UNCHANGED sessionLine
     \/ Current(g) /\ run' = J(g).next[1] /\ Go(g, "check") /\ UNCHANGED sessionLine
     \/ Current(g) /\ Back(g) /\ Again(g, "look")
  /\ UNCHANGED <<asked, pc, status, lineGeneration, tun, tunAlive, job, watch, switch, loc, deaths>>

(* verifyLine again, for the candidate: carried or not.                      *)
Checked(g) ==
  /\ J(g).pc = "check"
  /\ \/ run # None /\ Go(g, "checked")
     \/ Go(g, "unchecked")
  /\ UNCHANGED <<asked, pc, mutex, session, procs, job, watch, switch, loc, deaths>>

(* finishTrial: superseded, whoever did it deals with the line it finds; a   *)
(* candidate that did not carry goes back ...                                *)
OnTrial(g) == Current(g) /\ sessionLine = J(g).next

TrialOver(g) ==
  /\ J(g).pc \in {"checked", "unchecked"} /\ mutex = None
  /\ ~OnTrial(g) /\ End(g)
  /\ UNCHANGED <<asked, pc, mutex, session, procs, job, watch, switch, loc, deaths>>

TrialFails(g) ==
  /\ J(g).pc \in {"checked", "unchecked"} /\ mutex = None
  /\ OnTrial(g) /\ (J(g).pc = "checked" => run = None)
  /\ Back(g) /\ Again(g, "look")
  /\ UNCHANGED <<asked, pc, mutex, status, lineGeneration, tun, tunAlive, job, watch, switch, loc, deaths>>

(* ... and one that did becomes the active location, if the store can be     *)
(* written and still names the line that failed (moveActiveLocation).        *)
TrialMoves(g) ==
  /\ J(g).pc = "checked" /\ mutex = None
  /\ OnTrial(g) /\ run # None
  /\ active = J(g).line[1] /\ active' = J(g).next[1]
  /\ mutex' = <<"attempts", g>> /\ Go(g, "moved")
  /\ UNCHANGED <<generation, req, chosen, fits, pc, session, procs, job, watch, switch, loc, deaths>>

TrialNotStored(g) ==
  /\ J(g).pc = "checked" /\ mutex = None
  /\ OnTrial(g) /\ run # None
  /\ Back(g) /\ Again(g, "wait")
  /\ UNCHANGED <<asked, pc, mutex, status, lineGeneration, tun, tunAlive, job, watch, switch, loc, deaths>>

Moved(g) ==
  /\ J(g).pc = "moved" /\ mutex' = None /\ End(g)
  /\ IF Current(g)
       THEN Up(J(g).next, g) /\ job' = None
       ELSE UNCHANGED <<status, coreWatch, held, owed, job>>
  /\ UNCHANGED <<asked, pc, sessionLine, lineGeneration, procs, tunWatch, coreReports, tunReports, ks,
                 started, block, loc, deaths>>

(* The move is made and lineIsUp throws: the new line gets attempts of its   *)
(* own.                                                                      *)
MovedNotUp(g) ==
  /\ J(g).pc = "moved" /\ Current(g) /\ mutex' = None
  /\ Launch(J(g).next, g, "wait") /\ status' = "reconnecting"
  /\ UNCHANGED <<asked, pc, sessionLine, lineGeneration, procs, watch, switch, loc, deaths>>

Waited(g) ==
  /\ J(g).pc = "wait" /\ Go(g, "restore")
  /\ UNCHANGED <<asked, pc, mutex, session, procs, job, watch, switch, loc, deaths>>

(* restoreLine: whatever of the line is not running is started; what runs is *)
(* left alone.                                                               *)
Restore(g) ==
  /\ J(g).pc = "restore" /\ mutex = None
  /\ IF Mine(g)
       THEN IF run # None
              THEN UNCHANGED run /\ Go(g, "confirm")
              ELSE run' \in {None, J(g).line[1]} /\ Go(g, IF run' = None THEN "failed" ELSE "confirm")
       ELSE UNCHANGED run /\ End(g)
  /\ UNCHANGED <<asked, pc, mutex, session, tun, tunAlive, job, watch, switch, loc, deaths>>

-----------------------------------------------------------------------------
Request(g) ==
  \/ Stop(g) \/ Superseded(g) \/ ChangeLine(g) \/ Changed(g) \/ Restart(g) \/ Begin(g) \/ NoLocation(g)
  \/ StartCore(g) \/ StartTun(g) \/ TunFails(g) \/ Verify(g) \/ Connected(g) \/ Failed(g)

Trial(g) == Try(g) \/ Replace(g) \/ Checked(g) \/ TrialOver(g) \/ TrialFails(g)
              \/ TrialMoves(g) \/ TrialNotStored(g) \/ Moved(g) \/ MovedNotUp(g)

Attempts(g) == Check(g) \/ Confirm(g) \/ Failure(g) \/ Look(g) \/ Trial(g) \/ Waited(g) \/ Restore(g)

Reports == \/ \E r \in coreReports : CoreReport(r)
           \/ \E t \in tunReports : TunReport(t) \/ TunReportStale(t)

Next ==
  \/ StartVpn \/ StopVpn \/ \E l \in Locations, f \in BOOLEAN : Choose(l, f)
  \/ \E g \in Gens : Request(g)
  \/ CoreDies \/ TunDies \/ CoreWatch \/ TunWatch \/ Reports
  \/ \E g \in Gens : Attempts(g)

Spec == Init /\ [][Next]_vars

(* The requests and the attempts that have a step left.                     *)
Underway == {g \in Gens : pc[g] \notin {"none", "done"}}
Working  == {g \in Gens : J(g).pc # "idle"}

(* Coroutines run and delays end.  Kotlin's Mutex is first come, first       *)
(* served: whoever waits for it while the attempts take and leave it without *)
(* end is served, hence the strong fairness.  Nothing is assumed of what     *)
(* the far end answers, of the screen or of the deaths.                      *)
Fair ==
  /\ SF_vars(CoreWatch \/ TunWatch \/ Reports \/ \E g \in Underway : Request(g))
  /\ WF_vars(\E g \in Working : Attempts(g))

FairSpec == Spec /\ Fair

-----------------------------------------------------------------------------
(* The types; a watcher is on the tunnel there is or on none, and a hold is  *)
(* of a block that is there.                                                 *)
Places == {"none", "wait", "change", "restart", "core", "tun", "verify", "up", "fail", "done"}

JobPlaces == {"idle", "confirm", "confirmed", "failed", "wait", "restore", "look", "trying",
              "replace", "check", "checked", "unchecked", "moved"}

Job == [pc : JobPlaces, line : Lines \cup {None}, next : Lines \cup {None}, left : SUBSET Locations]

RequestTypes ==
  /\ generation \in 0..MaxRequests /\ lineGeneration \in 0..generation
  /\ req \in [Gens -> {None, "start", "stop"}] /\ pc \in [Gens -> Places]
  /\ \A g \in Gens : (pc[g] = "none" <=> req[g] = None) /\ (req[g] = None <=> g > generation)
  /\ mutex \in ({"request", "attempts"} \X Gens) \cup {None}

SessionTypes ==
  /\ status \in {"off", "connecting", "connected", "reconnecting", "stopping", "error", "held"}
  /\ sessionLine \in Lines \cup {None}
  /\ run \in Locations \cup {None} /\ loc \in Locations \cup {None} /\ active \in Locations
  /\ tun \in Nat /\ tunAlive \in BOOLEAN /\ (tunAlive => tun # 0) /\ tunWatch \in {0, tun}
  /\ chosen \in BOOLEAN /\ fits \in BOOLEAN

WorkTypes ==
  /\ job \in Gens \cup {None} /\ jobs \in [Gens -> Job]
  /\ coreWatch \in (Lines \X Gens) \cup {None} /\ coreReports \subseteq (Lines \X Gens)
  /\ tunReports \subseteq Ids /\ IsFiniteSet(coreReports) /\ IsFiniteSet(tunReports)

SwitchTypes ==
  /\ ks \in BOOLEAN /\ started \in BOOLEAN /\ held \in BOOLEAN /\ block \in BOOLEAN
  /\ owed \in BOOLEAN /\ (held => block)
  /\ deaths \in 0..MaxDeaths

TypeOK == RequestTypes /\ SessionTypes /\ WorkTypes /\ SwitchTypes

Settled == mutex = None /\ \A g \in Gens : pc[g] \in {"none", "done"}

(* A session that says Connected is on the line it says, and on the one the  *)
(* store names: the core that runs, if one does, was started for the         *)
(* session's line, never left by a line it only tried, and the location is   *)
(* the user's or one the session moved to by itself and stored.              *)
OnItsLine ==
  status = "connected" /\ mutex = None =>
    /\ sessionLine # None /\ run \in {None, sessionLine[1]}
    /\ Settled /\ ~chosen => active = sessionLine[1]

(* Reconnecting is never said with nobody trying: with no request under way, *)
(* attempts at the session's own line, or a trial of another in its place,   *)
(* are running.                                                              *)
SomebodyTries ==
  status = "reconnecting" /\ Settled =>
    /\ job # None /\ jobs[job].pc # "idle" /\ Current(job)
    /\ sessionLine \in {jobs[job].line, jobs[job].next}

(* The kill switch: from the death of a verified session's tunnel on, with   *)
(* the switch on, the block stands until a session is verified with a tunnel *)
(* that lives, or a Disconnect ends the session before the death was acted   *)
(* on; whatever fails, restarts, stops or supersedes in between.             *)
HeldAfterDeath == owed => block

(* A block that is left with no tunnel in front of it is said: neither       *)
(* "disconnected" nor another error is shown over a machine whose traffic is *)
(* held.                                                                     *)
BlockIsSaid == status \in {"off", "error"} /\ mutex = None => ~block

(* The last word is the user's: when the last request was a Disconnect and   *)
(* every coroutine of a request is through, nothing runs, and no restart,    *)
(* trial or late report brings anything back.                                *)
StopWins ==
  Settled /\ generation > 0 /\ req[generation] = "stop" =>
    /\ status \in {"off", "held"} /\ tun = 0 /\ run = None /\ sessionLine = None

(* A process's death is always noticed: a Connected session whose core or    *)
(* tunnel is gone does not go on saying so.                                  *)
Noticed == (status = "connected" /\ (run = None \/ ~tunAlive)) ~> (status # "connected")
=============================================================================
