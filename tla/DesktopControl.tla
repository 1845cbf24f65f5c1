---------------------------- MODULE DesktopControl ---------------------------
(***************************************************************************)
(* Who holds the desktop manager's mutex, whose the session is, and which  *)
(* attempts are current: the parts of the inductive invariant that the     *)
(* others rest on.                                                         *)
(***************************************************************************)
EXTENDS DesktopTypes

USE DEF asked, session, procs, work, watch, switch, vars, Gens, Ids
-----------------------------------------------------------------------------
(* The mutex.                                                                *)

(* A step of a request takes the mutex or has it, while no attempts do.      *)
RequestMove(g) ==
  /\ mutex \in {None, <<"request", g>>} /\ pc[g] \notin {"none", "done"}
  /\ \E p \in Holding \cup {"done"} :
       /\ pc' = [pc EXCEPT ![g] = p]
       /\ mutex' = IF p = "done" THEN None ELSE <<"request", g>>
  /\ \A h \in Gens : h # g => pc[h] \notin Holding /\ pc'[h] = pc[h]
  /\ \A h \in Gens : /\ jobs[h].pc \notin {"replace", "moved"}
                     /\ jobs'[h].pc \notin {"replace", "moved"}

(* Every step of a request is such a step.                                   *)
LEMMA RequestMoves ==
  ASSUME TypeOK, Locking, NEW g \in Gens, Request(g) PROVE RequestMove(g)
<1> USE NoneAssumption
<1>1. mutex \in {None, <<"request", g>>} /\ pc[g] \notin {"none", "done"}
  BY Zenon DEF Request, Stop, Superseded, ChangeLine, Changed, Restart, Begin, NoLocation, StartCore, StartTun,
         TunFails, Verify, Connected, Failed, Lock, At
<1>2. \E p \in Holding \cup {"done"} :
        /\ pc' = [pc EXCEPT ![g] = p]
        /\ mutex' = IF p = "done" THEN None ELSE <<"request", g>>
  <2>1. ASSUME NEW p \in Holding, On(g, p)
        PROVE pc' = [pc EXCEPT ![g] = p] /\ p # "done" /\ mutex' = <<"request", g>>
    BY <2>1, Zenon DEF On, Holding, Starting
  <2>2. ASSUME Done(g) PROVE pc' = [pc EXCEPT ![g] = "done"] /\ mutex' = None
    BY <2>2, Zenon DEF Done
  <2>3. ASSUME NEW p \in Holding, At(g, p), Fails(g)
        PROVE pc' = [pc EXCEPT ![g] = "fail"] /\ mutex' = <<"request", g>>
    BY <2>3, Zenon DEF Fails, At
  <2>4. CASE Stop(g) \/ Superseded(g) \/ Changed(g) \/ Connected(g) \/ Failed(g) \/ NoLocation(g)
    BY <2>2, <2>4, Zenon DEF Stop, Superseded, Changed, Connected, Failed, NoLocation
  <2>5. CASE ChangeLine(g) \/ Restart(g)  BY <2>1, <2>5, ZenonT(40) DEF ChangeLine, Restart, Holding
  <2>6. CASE Begin(g)  BY <2>1, <2>2, <2>6, Zenon DEF Begin, Holding, Starting
  <2>7. CASE StartCore(g) \/ StartTun(g) \/ TunFails(g) \/ Verify(g)
    BY <2>1, <2>3, <2>7 DEF StartCore, StartTun, TunFails, Verify, Holding, Starting
  <2> QED  BY <2>4, <2>5, <2>6, <2>7, Zenon DEF Request
<1>3. \A h \in Gens : jobs[h].pc \notin {"replace", "moved"}
  BY <1>1 DEF Locking
<1>4. ASSUME jobs' \in {jobs, Cancelled} PROVE \A h \in Gens : jobs'[h].pc \notin {"replace", "moved"}
  <2>1. \A h \in Gens : Cancelled[h] \in {Idle, jobs[h]}  BY Zenon DEF Cancelled
  <2>2. Idle.pc = "idle"  BY Zenon DEF Idle
  <2> QED  BY <1>3, <1>4, <2>1, <2>2, Zenon
<1>5. \A h \in Gens : jobs'[h].pc \notin {"replace", "moved"}
  <2>1. CASE Changed(g)
    <3>1. ASSUME NEW at \in {"wait", "confirm"}, Launch(sessionLine, g, at)
          PROVE  \A h \in Gens : jobs'[h].pc \notin {"replace", "moved"}
      BY <1>3, <3>1, Zenon DEF Launch, Idle, TypeOK, WorkTypes
    <3> QED  BY <1>4, <2>1, <3>1, Zenon DEF Changed
  <2>2. CASE Stop(g) \/ Restart(g) \/ Failed(g) \/ ChangeLine(g)
    BY <1>4, <2>2, ZenonT(40) DEF Stop, Restart, Failed, ChangeLine, StopMode, CancelJobs
  <2>3. CASE Superseded(g) \/ Begin(g) \/ NoLocation(g) \/ StartCore(g) \/ StartTun(g) \/ TunFails(g)
               \/ Verify(g) \/ Connected(g)
    BY <1>4, <2>3 DEF Superseded, Begin, NoLocation, StartCore, StartTun, TunFails, Verify, Connected
  <2> QED  BY <2>1, <2>2, <2>3, Zenon DEF Request
<1>6. \A h \in Gens : h # g => pc[h] \notin Holding /\ pc'[h] = pc[h]
  <2>1. pc \in [Gens -> Places]  BY DEF TypeOK, RequestTypes
  <2>2. \A h \in Gens : h # g => pc[h] \notin Holding
    <3>1. \A h \in Gens : h # g => mutex # <<"request", h>>  BY ONLY <1>1, NoneAssumption, g \in Gens
    <3> QED  BY <3>1, Zenon DEF Locking
  <2> QED  BY <1>2, <2>1, <2>2, Zenon
<1> QED  BY <1>1, <1>2, <1>3, <1>5, <1>6, Zenon DEF RequestMove

(* Who is between two steps under the mutex holds it, after every step.      *)
LEMMA LockingStep ==
  ASSUME TypeOK, Locking, Tried, [Next]_vars PROVE Locking'
<1> USE NoneAssumption DEF Locking
<1>0. /\ pc \in [Gens -> Places] /\ jobs \in [Gens -> Job]
      /\ \A g, h \in Gens : None # <<"request", g>> /\ None # <<"attempts", g>>
                          /\ <<"request", g>> # <<"attempts", h>>
  BY DEF TypeOK, RequestTypes, WorkTypes
<1>1. ASSUME NEW g \in Gens, RequestMove(g) PROVE Locking'
  BY <1>0, <1>1 DEF RequestMove, Holding, Starting
<1>2. ASSUME NEW verb, Issue(verb), UNCHANGED <<mutex, jobs>> PROVE Locking'
  <2>1. generation + 1 \in Gens /\ pc[generation + 1] = "none"
    BY <1>2, BoundsAssumption DEF Issue, TypeOK, RequestTypes
  <2>2. pc' = [pc EXCEPT ![generation + 1] = "wait"]  BY <1>2, Zenon DEF Issue
  <2> QED  BY <1>0, <1>2, <2>1, <2>2, Zenon DEF Holding, Starting
<1>3. ASSUME UNCHANGED <<pc, mutex>>,
             \A g \in Gens : jobs'[g].pc \in {"replace", "moved"} <=> jobs[g].pc \in {"replace", "moved"}
      PROVE  Locking'
  BY <1>3, Zenon
<1>4. ASSUME NEW g \in Gens, JobMove(g) PROVE Locking'
  BY <1>0, <1>3, <1>4, Zenon DEF JobMove
<1>5. ASSUME NEW g \in Gens, NEW p \in JobPlaces, JobTo(g, p), UNCHANGED pc,
             \/ mutex = None \/ mutex = <<"attempts", g>>,
             mutex' = IF p \in {"replace", "moved"} THEN <<"attempts", g>> ELSE None
      PROVE  Locking'
  BY <1>0, <1>5 DEF JobTo
<1>6. ASSUME NEW g \in Gens, Attempts(g) PROVE Locking'
  <2> USE JobGoes DEF JobPlaces, J
  <2>1. CASE Confirm(g) /\ Mine(g) /\ run # None  BY <1>5, <1>6, <2>1, Zenon DEF Confirm
  <2>2. CASE Try(g) /\ Mine(g) /\ tunAlive  BY <1>5, <1>6, <2>2, Zenon DEF Try
  <2>3. CASE Replace(g)  BY <1>5, <1>6, <2>3, Zenon DEF Replace
  <2>4. CASE TrialFails(g) \/ TrialNotStored(g)  BY <1>5, <1>6, <2>4, Zenon DEF TrialFails, TrialNotStored
  <2>5. CASE TrialMoves(g)  BY <1>5, <1>6, <2>5 DEF TrialMoves
  <2>6. CASE Moved(g)  BY <1>5, <1>6, <2>6, Zenon DEF Moved
  <2>7. CASE Restore(g) /\ Mine(g) /\ run = None  BY <1>5, <1>6, <2>7, Zenon DEF Restore
  <2>8. CASE MovedNotUp(g)
    <3>1. /\ pc' = pc /\ mutex = <<"attempts", g>> /\ mutex' = None
          /\ jobs'[g].pc = "wait" /\ \A h \in Gens : h # g => jobs'[h] = jobs[h]
      BY <1>0, <2>8 DEF MovedNotUp, Launch, Idle
    <3>2. \A h \in Gens : h # g => jobs[h].pc \notin {"replace", "moved"}  BY ONLY <3>1, Locking
    <3>3. \A h \in Gens : pc[h] \notin Holding  BY <1>0, <3>1, Zenon
    <3>4. \A h \in Gens : mutex' # <<"request", h>> /\ mutex' # <<"attempts", h>>  BY <1>0, <3>1, Zenon
    <3>5. \A h \in Gens : jobs'[h].pc \notin {"replace", "moved"}  BY ONLY <3>1, <3>2
    <3> QED  BY <3>1, <3>3, <3>4, <3>5, Zenon
  <2> QED
    BY <1>4, <1>6, <2>1, <2>2, <2>3, <2>4, <2>5, <2>6, <2>7, <2>8, JobMoves DEF Attempts, Trial
<1>7. CASE StartVpn \/ StopVpn  BY <1>2, <1>7 DEF StartVpn, StopVpn
<1>8. CASE CoreDies \/ TunDies \/ CoreWatch \/ TunWatch \/ UNCHANGED vars
  BY <1>3, <1>8, Zenon DEF CoreDies, TunDies, CoreWatch, TunWatch
<1>9. ASSUME NEW l, NEW f, Choose(l, f) PROVE Locking'  BY <1>3, <1>9 DEF Choose
<1>10. ASSUME NEW r \in coreReports, CoreReport(r) PROVE Locking'
  <2>1. r[2] \in Gens  BY <1>10, Zenon DEF TypeOK, WorkTypes
  <2>2. \A h \in Gens : jobs[h].pc \notin {"replace", "moved"}  BY <1>0, <1>10, Zenon DEF CoreReport
  <2>3. CASE UNCHANGED jobs  BY <1>3, <1>10, <2>3, Zenon DEF CoreReport
  <2>4. CASE Launch(r[1], r[2], "wait")
    BY <1>0, <1>3, <1>10, <2>1, <2>2, <2>4, Zenon DEF CoreReport, Launch, Idle
  <2> QED  BY <1>10, <2>3, <2>4, Zenon DEF CoreReport
<1>11. ASSUME NEW u, TunReport(u) \/ TunReportStale(u) PROVE Locking'
  <2>1. CASE TunReport(u)
    <3>1. \A h \in Gens : jobs[h].pc \notin {"replace", "moved"}  BY <1>0, <2>1, Zenon DEF TunReport
    <3> QED  BY <1>0, <1>3, <2>1, <3>1, Zenon DEF TunReport, StopMode, CancelJobs, Cancelled, Idle
  <2>2. CASE TunReportStale(u)  BY <1>3, <2>2, Zenon DEF TunReportStale
  <2> QED  BY <1>11, <2>1, <2>2, Zenon
<1> HIDE DEF Locking
<1> QED
  BY <1>1, <1>6, <1>7, <1>8, <1>9, <1>10, <1>11, RequestMoves, Zenon DEF Next, Reports

-----------------------------------------------------------------------------
(* The requests.                                                             *)

(* Nobody but the screen and the requests themselves moves a request.        *)
LEMMA Others ==
  ASSUME [Next]_vars
  PROVE  \/ StartVpn \/ StopVpn \/ \E g \in Gens : Request(g)
         \/ UNCHANGED <<generation, req, pc, lineGeneration>>
<1> DEFINE Same == UNCHANGED <<generation, req, pc, lineGeneration>>
<1>1. ASSUME NEW g \in Gens, Attempts(g) PROVE Same
  <2>1. CASE Check(g) \/ Confirm(g) \/ Failure(g) \/ Look(g)
    BY <2>1, Zenon DEF Check, Confirm, Failure, Look
  <2>2. CASE Try(g) \/ Replace(g) \/ Checked(g) \/ TrialOver(g) \/ TrialFails(g)
    BY <2>2, Zenon DEF Try, Replace, Checked, TrialOver, TrialFails
  <2>3. CASE TrialMoves(g) \/ TrialNotStored(g) \/ Moved(g) \/ MovedNotUp(g) \/ Waited(g) \/ Restore(g)
    BY <2>3 DEF TrialMoves, TrialNotStored, Moved, MovedNotUp, Waited, Restore
  <2> QED  BY <1>1, <2>1, <2>2, <2>3, Zenon DEF Attempts, Trial
<1>2. ASSUME CoreDies \/ TunDies \/ CoreWatch \/ TunWatch \/ UNCHANGED vars PROVE Same
  BY <1>2, Zenon DEF CoreDies, TunDies, CoreWatch, TunWatch
<1>3. ASSUME NEW l, NEW f, Choose(l, f) PROVE Same  BY <1>3, Zenon DEF Choose
<1>4. ASSUME Reports PROVE Same  BY <1>4, ZenonT(40) DEF Reports, CoreReport, TunReport, TunReportStale
<1> HIDE DEF Same
<1>5. StartVpn \/ StopVpn \/ (\E g \in Gens : Request(g)) \/ Same
  BY <1>1, <1>2, <1>3, <1>4, Zenon DEF Next
<1> QED  BY <1>5, Zenon DEF Same

(* The newest start that got through is the line's.                          *)
LEMMA ServedStep ==
  ASSUME TypeOK, Locking, Served, Made, [Next]_vars PROVE Served'
<1> USE NoneAssumption, BoundsAssumption
<1>0. /\ generation \in 0..MaxRequests /\ lineGeneration \in 0..generation
      /\ pc \in [Gens -> Places] /\ req \in [Gens -> {None, "start", "stop"}]
  BY Zenon DEF TypeOK, RequestTypes
<1>1. CASE UNCHANGED <<generation, req, pc, lineGeneration>>
  BY <1>1, Zenon DEF Served
<1>2. CASE StartVpn \/ StopVpn
  <2>1. PICK verb \in {"start", "stop"} : Issue(verb)  BY <1>2, Zenon DEF StartVpn, StopVpn
  <2>2. lineGeneration' = lineGeneration  BY <1>2, Zenon DEF StartVpn, StopVpn
  <2>3. generation' \in Gens /\ generation' = generation + 1 /\ pc[generation'] = "none"
    BY <1>0, <2>1 DEF Issue, TypeOK, RequestTypes
  <2>4. /\ pc' = [pc EXCEPT ![generation'] = "wait"] /\ req' = [req EXCEPT ![generation'] = verb]
    BY <2>1, Zenon DEF Issue
  <2>5. lineGeneration > 0 => lineGeneration \in Gens /\ lineGeneration # generation'
    BY ONLY <1>0, <2>3, BoundsAssumption
  <2> QED  BY <1>0, <2>2, <2>3, <2>4, <2>5, Zenon DEF Served, Holding, Starting
<1>3. ASSUME NEW g \in Gens, Request(g) PROVE Served'
  <2>1. PICK p \in Holding \cup {"done"} : pc' = [pc EXCEPT ![g] = p]
    BY <1>3, RequestMoves, Zenon DEF RequestMove
  <2>2. \A h \in Gens : pc[h] \in Holding => h = g
    BY <1>3, RequestMoves, Zenon DEF RequestMove
  <2>3. UNCHANGED <<generation, req>> /\ pc[g] # "none"
    BY <1>3, Zenon DEF Request, Stop, Superseded, ChangeLine, Changed, Restart, Begin, NoLocation, StartCore, StartTun,
                TunFails, Verify, Connected, Failed, Lock, At
  <2> USE DEF Served, Holding, Starting
  <2>a. ASSUME pc' = [pc EXCEPT ![g] = "done"], lineGeneration' = lineGeneration,
               pc[g] = "wait" => req[g] = "stop" \/ g # generation,
               pc[g] = "restart" => g # generation
        PROVE  Served'
    BY <1>0, <2>2, <2>3, <2>a
  <2>4. CASE Stop(g) \/ Superseded(g)
    BY <2>a, <2>4, ZenonT(40) DEF Stop, Superseded, Lock, Done, Current
  <2>5. CASE ChangeLine(g)
    BY <1>0, <2>2, <2>3, <2>5, Zenon DEF ChangeLine, Lock, On, Current
  <2>6. CASE Restart(g)
    BY <1>0, <2>2, <2>3, <2>6 DEF Restart, Lock, On
  <2>7. CASE Begin(g)
    BY <1>0, <2>2, <2>3, <2>7 DEF Begin, Lock, At, On, Done, Current
  <2>b. CASE NoLocation(g)
    BY <1>0, <2>2, <2>3, <2>b DEF NoLocation, Lock, At, Done, Current
  <2>8. CASE Changed(g) \/ Connected(g) \/ Failed(g)
    BY <2>a, <2>8, Zenon DEF Changed, Connected, Failed, At, Done
  <2>9. CASE StartCore(g) \/ StartTun(g) \/ TunFails(g) \/ Verify(g)
    <3>1. /\ lineGeneration' = lineGeneration /\ pc[g] \in Starting
          /\ \E q \in Starting : pc' = [pc EXCEPT ![g] = q]
      BY <2>9 DEF StartCore, StartTun, TunFails, Verify, At, On, Fails
    <3> QED  BY <1>0, <2>2, <2>3, <3>1
  <2> QED  BY <1>3, <2>4, <2>5, <2>6, <2>7, <2>b, <2>8, <2>9 DEF Request
<1> QED  BY <1>1, <1>2, <1>3, Others, Zenon

-----------------------------------------------------------------------------
(* The session.                                                              *)

(* What stopDesktopMode does to it.                                          *)
LEMMA StopModeDoes ==
  ASSUME TypeOK, NEW final, NEW s \in {"off", "error", "stopping"}, StopMode(final, s)
  PROVE  /\ sessionLine' = None /\ tun' = 0 /\ ~tunAlive' /\ run' = None /\ job' = None
         /\ status' = IF held' /\ s # "stopping" THEN "held" ELSE s
         /\ coreWatch' = None /\ coreReports' = coreReports
         /\ \A g \in Gens : jobs'[g].pc # "idle" => jobs'[g] = jobs[g]
         /\ jobs' \in [Gens -> Job]
<1>1. jobs' = Cancelled  BY Zenon DEF StopMode, CancelJobs
<1>2. \A g \in Gens : Cancelled[g] \in {Idle, jobs[g]}  BY Zenon DEF Cancelled
<1>3. Idle.pc = "idle"  BY Zenon DEF Idle
<1>4. \A g \in Gens : jobs'[g].pc # "idle" => jobs'[g] = jobs[g]  BY <1>1, <1>2, <1>3, Zenon
<1>5. status' = IF held' /\ s # "stopping" THEN "held" ELSE s  BY Zenon DEF StopMode, Shown
<1> QED  BY <1>1, <1>4, <1>5, CancelledTypes, Zenon DEF StopMode, CancelJobs

(* ... and without it, for a Disconnect with nothing to stop.                *)
LEMMA StopDoes ==
  ASSUME TypeOK, Made, NEW g \in Gens, Stop(g)
  PROVE  /\ sessionLine' = None /\ tun' = 0 /\ ~tunAlive' /\ job' = None /\ status' \in {"off", "held"}
         /\ UNCHANGED <<generation, lineGeneration, req, active, chosen, loc>>
         /\ coreWatch' = None /\ coreReports' = coreReports
         /\ \A h \in Gens : jobs'[h].pc # "idle" => jobs'[h] = jobs[h]
         /\ jobs' \in [Gens -> Job]
         /\ run' = None \/ (run' = run /\ sessionLine = None)
<1>1. CASE StopMode(TRUE, "off")
  <2>1. /\ sessionLine' = None /\ tun' = 0 /\ ~tunAlive' /\ run' = None /\ job' = None
        /\ status' = IF held' THEN "held" ELSE "off"
        /\ coreWatch' = None /\ coreReports' = coreReports
        /\ \A h \in Gens : jobs'[h].pc # "idle" => jobs'[h] = jobs[h]
        /\ jobs' \in [Gens -> Job]
    BY <1>1, StopModeDoes, Zenon
  <2>2. UNCHANGED <<generation, lineGeneration, req, active, chosen, loc>>  BY Zenon DEF Stop
  <2> QED  BY <2>1, <2>2, Zenon
<1>2. CASE ~StopMode(TRUE, "off")
  <2>1. jobs' = Cancelled  BY <1>2, ZenonT(40) DEF Stop, CancelJobs
  <2>2. \A h \in Gens : Cancelled[h] \in {Idle, jobs[h]}  BY Zenon DEF Cancelled
  <2>3. Idle.pc = "idle"  BY Zenon DEF Idle
  <2>4. \A h \in Gens : jobs'[h].pc # "idle" => jobs'[h] = jobs[h]  BY <2>1, <2>2, <2>3, Zenon
  <2> QED  BY <1>2, <2>1, <2>4, CancelledTypes, Zenon DEF Stop, CancelJobs, TypeOK, SessionTypes, Made
<1> QED  BY <1>1, <1>2, Zenon

(* What a session has, through stops, attempts and starts.                   *)
LEMMA MadeStep ==
  ASSUME TypeOK, Locking, Served, Made, Tried, [Next]_vars PROVE Made'
<1> USE NoneAssumption, BoundsAssumption
<1>0. /\ generation \in 0..MaxRequests /\ lineGeneration \in 0..generation
      /\ pc \in [Gens -> Places]
  BY Zenon DEF TypeOK, RequestTypes
<1>1. CASE UNCHANGED <<sessionLine, status, lineGeneration, tun, job, pc, loc>>
  BY <1>1, Zenon DEF Made
<1>2. CASE StartVpn \/ StopVpn
  <2>1. PICK verb \in {"start", "stop"} : Issue(verb)  BY <1>2 DEF StartVpn, StopVpn
  <2>2. UNCHANGED <<sessionLine, status, lineGeneration, tun, job, loc>>
    BY <1>2, Zenon DEF StartVpn, StopVpn
  <2>3. generation' \in Gens /\ pc' = [pc EXCEPT ![generation'] = "wait"]
    BY <1>0, <2>1 DEF Issue
  <2> QED  BY <1>0, <2>2, <2>3, Zenon DEF Made, Starting
<1>3. CASE CoreDies \/ TunDies \/ CoreWatch \/ TunWatch \/ UNCHANGED vars
  BY <1>1, <1>3 DEF CoreDies, TunDies, CoreWatch, TunWatch
<1>4. ASSUME NEW l, NEW f, Choose(l, f) PROVE Made'  BY <1>1, <1>4, Zenon DEF Choose
<1>5. ASSUME \A g \in Gens : pc'[g] \notin Holding,
             sessionLine' # None => tun' # 0,
             status' = "connected" => sessionLine' # None /\ job' = None,
             job' # None => sessionLine' # None /\ job' = lineGeneration'
      PROVE  Made'
  BY <1>5, Zenon DEF Made, Holding, Starting
<1>6. ASSUME mutex = None \/ \E g \in Gens : mutex = <<"attempts", g>>, pc' = pc
      PROVE  \A g \in Gens : pc'[g] \notin Holding
  BY <1>6 DEF Locking
<1>7. ASSUME Reports PROVE Made'
  <2>1. \A g \in Gens : pc'[g] \notin Holding
    BY <1>6, <1>7, ZenonT(40) DEF Reports, CoreReport, TunReport, TunReportStale
  <2>2. ASSUME NEW r \in coreReports, CoreReport(r) PROVE Made'
    <3>1. r[1] \in Lines /\ r[2] \in Gens  BY <2>2, Zenon DEF TypeOK, WorkTypes
    <3>2. CASE Launch(r[1], r[2], "wait") /\ Current(r[2]) /\ sessionLine = r[1]
      <4>0. r[2] = generation /\ r[2] <= lineGeneration  BY <2>2, <3>2, Zenon DEF Current, Tried
      <4>1. r[2] = lineGeneration  BY ONLY <1>0, <3>1, <4>0, BoundsAssumption
      <4>2. /\ sessionLine' # None /\ tun' # 0 /\ pc' = pc /\ lineGeneration' = lineGeneration
            /\ status' # "connected" \/ UNCHANGED <<status, job>>
        BY <2>2, <3>1, <3>2 DEF CoreReport, Made
      <4>3. job' # None => job' = lineGeneration'  BY <3>2, <4>1, <4>2, Zenon DEF Launch, Made
      <4>4. status' = "connected" => job' = None  BY <3>2, <4>2, Zenon DEF Launch, Made
      <4> QED  BY <1>5, <2>1, <4>2, <4>3, <4>4, Zenon
    <3>3. CASE ~(Launch(r[1], r[2], "wait") /\ Current(r[2]) /\ sessionLine = r[1])
      BY <1>1, <2>2, <3>3 DEF CoreReport
    <3> QED  BY <3>2, <3>3, Zenon
  <2>3. ASSUME NEW u, TunReport(u) PROVE Made'
    BY <1>5, <2>1, <2>3, StopModeDoes, ZenonT(40) DEF TunReport
  <2>4. ASSUME NEW u, TunReportStale(u) PROVE Made'
    BY <1>1, <2>4, Zenon DEF TunReportStale
  <2> QED  BY <1>7, <2>2, <2>3, <2>4, Zenon DEF Reports
<1>8. ASSUME NEW g \in Gens, Attempts(g) PROVE Made'
  <2>1. CASE JobMove(g)  BY <1>1, <2>1 DEF JobMove
  <2>2. CASE Restore(g) \/ TrialMoves(g)  BY <1>1, <2>2 DEF Restore, TrialMoves
  <2>3. CASE Confirm(g) /\ Mine(g) /\ run # None
    BY <1>5, <1>6, <2>3 DEF Confirm, Mine, J, Up, Tried, Made
  <2>4. CASE Try(g) /\ Mine(g) /\ tunAlive
    BY <1>5, <1>6, <2>4 DEF Try, Mine, J, Take, Tried, Made
  <2>5. CASE Replace(g)
    BY <1>5, <1>6, <2>5 DEF Replace, J, Back, Tried, Made, Away, Trying
  <2>6. CASE TrialFails(g) \/ TrialNotStored(g)
    BY <1>5, <1>6, <2>6 DEF TrialFails, TrialNotStored, J, Back, OnTrial, Tried, Made, Away, Trying
  <2>7. CASE Moved(g)
    <3>1. mutex = <<"attempts", g>> /\ sessionLine = jobs[g].next /\ jobs[g].next # None
      BY <2>7 DEF Moved, J, Locking, Tried, Away
    <3> QED  BY <1>5, <1>6, <2>7, <3>1 DEF Moved, Up, Made
  <2>8. CASE MovedNotUp(g)
    <3>1. /\ mutex = <<"attempts", g>> /\ job = g /\ job' = g
          /\ UNCHANGED <<sessionLine, lineGeneration, tun, pc>> /\ status' = "reconnecting"
      BY <2>8 DEF MovedNotUp, Launch, J, Locking, Tried
    <3>2. sessionLine # None /\ tun # 0 /\ lineGeneration = g  BY <3>1 DEF Made
    <3> QED  BY <1>5, <1>6, <3>1, <3>2
  <2> QED
    BY <1>8, <2>1, <2>2, <2>3, <2>4, <2>5, <2>6, <2>7, <2>8, JobMoves DEF Attempts, Trial
<1>9. ASSUME NEW g \in Gens, Request(g) PROVE Made'
  <2>1. PICK p \in Holding \cup {"done"} : pc' = [pc EXCEPT ![g] = p]
    BY <1>9, RequestMoves, Zenon DEF RequestMove
  <2>2. \A h \in Gens : h # g => pc'[h] \notin Holding
    BY <1>9, RequestMoves, Zenon DEF RequestMove
  <2>3. ASSUME Done(g) PROVE \A h \in Gens : pc'[h] \notin Holding
    BY <1>0, <2>2, <2>3, Zenon DEF Done, Holding, Starting
  <2>4. CASE Stop(g)  BY <1>5, <2>3, <2>4, StopDoes, ZenonT(40) DEF Stop
  <2>5. CASE Superseded(g)  BY <1>5, <2>3, <2>5 DEF Superseded, Made
  <2>6. ASSUME NEW q \in Holding, pc' = [pc EXCEPT ![g] = q],
               sessionLine' # None => tun' # 0,
               status' = "connected" => sessionLine' # None /\ job' = None,
               job' # None => sessionLine' # None /\ job' = lineGeneration',
               q \in Starting => sessionLine' = None /\ status' \in {"connecting", "reconnecting"},
               q \in {"core", "tun", "verify", "up"} => loc' # None,
               q \in {"core", "tun"} => tun' = 0,
               q \in {"verify", "up"} => tun' # 0,
               q = "restart" => sessionLine' = None /\ status' = "stopping" /\ tun' = 0,
               q = "change" => sessionLine' # None /\ status' = "reconnecting" /\ job' = None
        PROVE  Made'
    BY <1>0, <2>2, <2>6 DEF Made, Holding, Starting
  <2>7. CASE ChangeLine(g)
    <3>1. NewLine(active) \in Lines  BY New DEF TypeOK, SessionTypes
    <3>2. sessionLine' # None /\ tun' # 0 /\ status' = "reconnecting" /\ job' = None
      BY <2>7, <3>1 DEF ChangeLine, Take, BehindTun, Made
    <3> QED  BY <2>6, <2>7, <3>2 DEF ChangeLine, On, Holding, Starting
  <2>8. CASE Changed(g)
    <3>1. /\ sessionLine' # None /\ tun' # 0 /\ job = None /\ lineGeneration' = g
          /\ status' = "reconnecting"
      BY <2>8, Zenon DEF Changed, At, Made, Served
    <3>2. job' \in {None, g}  BY <2>8, <3>1, Zenon DEF Changed, Launch
    <3> QED  BY <1>5, <2>3, <2>8, <3>1, <3>2, Zenon DEF Changed
  <2>9. CASE Restart(g)
    <3>1. sessionLine' = None /\ tun' = 0 /\ status' = "stopping" /\ job' = None
      BY <2>9, StopModeDoes, Zenon DEF Restart
    <3> QED  BY <2>6, <2>9, <3>1, Zenon DEF Restart, On, Holding, Starting
  <2>10. CASE Begin(g)
    <3>1. sessionLine = None /\ tun = 0 /\ job = None
      BY <2>10, Zenon DEF Begin, Lock, At, InSession, Made
    <3>2. CASE Current(g)
      <4>1. /\ sessionLine' = None /\ tun' = 0 /\ job' = None /\ loc' # None
            /\ status' \in {"connecting", "reconnecting"} /\ pc' = [pc EXCEPT ![g] = "core"]
        BY <2>10, <3>1, <3>2 DEF Begin, On, TypeOK, SessionTypes
      <4> QED  BY <2>6, <4>1 DEF Holding, Starting
    <3>3. CASE ~Current(g)  BY <1>5, <2>3, <2>10, <3>1, <3>3 DEF Begin, Made
    <3> QED  BY <3>2, <3>3, Zenon
  <2>b. CASE NoLocation(g)
    <3>1. sessionLine = None /\ tun = 0 /\ job = None
      BY <2>b, Zenon DEF NoLocation, Lock, At, InSession, Made
    <3>2. status' \in {"error", "held"}  BY <2>b, Zenon DEF NoLocation, Shown
    <3> QED  BY <1>5, <2>3, <2>b, <3>1, <3>2 DEF NoLocation
  <2>11. ASSUME At(g, "core") \/ At(g, "tun") \/ At(g, "verify") \/ At(g, "up") \/ At(g, "fail")
         PROVE  sessionLine = None /\ job = None /\ status \in {"connecting", "reconnecting"}
    BY <2>11, Zenon DEF At, Made, Starting
  <2>12. CASE StartCore(g)
    <3>1. PICK q \in {"tun", "fail"} : pc' = [pc EXCEPT ![g] = q]  BY <2>12 DEF StartCore, On, Fails
    <3>2. loc # None /\ tun = 0  BY <2>12 DEF StartCore, At, Made
    <3> QED  BY <2>6, <2>11, <2>12, <3>1, <3>2, Zenon DEF StartCore, Holding, Starting
  <2>13. CASE StartTun(g)
    <3>1. PICK q \in {"verify", "fail"} : pc' = [pc EXCEPT ![g] = q]  BY <2>13 DEF StartTun, On, Fails
    <3>2. loc # None /\ tun' # 0  BY <2>13, New DEF StartTun, At, Made
    <3> QED  BY <2>6, <2>11, <2>13, <3>1, <3>2, ZenonT(40) DEF StartTun, Holding, Starting
  <2>14. CASE TunFails(g)
    BY <2>6, <2>11, <2>14 DEF TunFails, Fails, Holding, Starting
  <2>15. CASE Verify(g)
    <3>1. PICK q \in {"up", "fail"} : pc' = [pc EXCEPT ![g] = q]  BY <2>15 DEF Verify, On, Fails
    <3>2. loc # None /\ tun # 0  BY <2>15, Zenon DEF Verify, At, Made
    <3> QED  BY <2>6, <2>11, <2>15, <3>1, <3>2, ZenonT(40) DEF Verify, Holding, Starting
  <2>16. CASE Connected(g)
    <3>1. loc # None /\ tun # 0  BY <2>16, Zenon DEF Connected, At, Made
    <3>2. NewLine(loc) \in Lines  BY <3>1, New DEF TypeOK, SessionTypes
    <3> QED  BY <1>5, <2>3, <2>11, <2>16, <3>1, <3>2 DEF Connected
  <2>17. CASE Failed(g)
    <3>1. PICK s \in {"error", "stopping"} : StopMode(FALSE, s)  BY <2>17, Zenon DEF Failed
    <3> QED  BY <1>5, <2>3, <2>17, <3>1, StopModeDoes, Zenon DEF Failed
  <2> QED
    BY <1>9, <2>4, <2>5, <2>7, <2>8, <2>9, <2>10, <2>b, <2>12, <2>13, <2>14, <2>15, <2>16, <2>17
       DEF Request
<1> QED
  BY <1>2, <1>3, <1>4, <1>7, <1>8, <1>9 DEF Next

-----------------------------------------------------------------------------
(* The attempts.                                                             *)

(* Attempts that do more than move on by themselves are those of the line    *)
(* the session has: a cancelled coroutine that still gets the mutex finds    *)
(* another line, or another generation, and ends.                            *)
LEMMA Own ==
  ASSUME TypeOK, Locking, Made, Tried, NEW g \in Gens, Attempts(g), ~JobMove(g)
  PROVE  /\ job = g /\ lineGeneration = g /\ sessionLine # None /\ jobs[g].pc # "idle"
         /\ sessionLine = IF jobs[g].pc \in Away THEN jobs[g].next ELSE jobs[g].line
         /\ \A h \in Gens : pc[h] \notin Holding
         /\ UNCHANGED <<pc, lineGeneration, generation, req, chosen, tun, tunAlive>>
<1> USE NoneAssumption DEF J
<1>0. generation \in Nat /\ lineGeneration \in 0..generation  BY BoundsAssumption DEF TypeOK, RequestTypes
<1>1. ASSUME job = g, jobs[g].pc # "idle",
             mutex = None \/ mutex = <<"attempts", g>>,
             UNCHANGED <<pc, lineGeneration, generation, req, chosen, tun, tunAlive>>
      PROVE  /\ job = g /\ lineGeneration = g /\ sessionLine # None /\ jobs[g].pc # "idle"
             /\ sessionLine = IF jobs[g].pc \in Away THEN jobs[g].next ELSE jobs[g].line
             /\ \A h \in Gens : pc[h] \notin Holding
             /\ UNCHANGED <<pc, lineGeneration, generation, req, chosen, tun, tunAlive>>
  <2>1. job # None /\ \A h \in Gens : mutex # <<"request", h>>  BY ONLY <1>1, NoneAssumption, g \in Gens
  <2>2. sessionLine # None /\ lineGeneration = g  BY <1>1, <2>1, Zenon DEF Made
  <2>3. sessionLine = IF jobs[g].pc \in Away THEN jobs[g].next ELSE jobs[g].line
    BY <1>1, Zenon DEF Tried
  <2>4. \A h \in Gens : pc[h] \notin Holding  BY <2>1, Zenon DEF Locking
  <2> QED  BY <1>1, <2>2, <2>3, <2>4, Zenon
<1>2. ASSUME jobs[g].pc # "idle", Current(g), sessionLine # None PROVE job = g
  <2>1. g = generation /\ (g = job \/ g < lineGeneration)  BY <1>2, Zenon DEF Tried, Current
  <2> QED  BY ONLY <1>0, <2>1
<1>3. CASE Confirm(g) /\ Mine(g) /\ run # None  BY <1>1, <1>2, <1>3 DEF Confirm, Mine, Tried
<1>4. CASE Try(g) /\ Mine(g) /\ tunAlive  BY <1>1, <1>2, <1>4, Zenon DEF Try, Mine, Tried
<1>5. CASE Replace(g)  BY <1>1, <1>5 DEF Replace, Tried
<1>6. CASE TrialFails(g) \/ TrialMoves(g) \/ TrialNotStored(g)
  BY <1>1, <1>2, <1>6 DEF TrialFails, TrialMoves, TrialNotStored, OnTrial, Tried, Away, Trying
<1>7. CASE Moved(g) \/ MovedNotUp(g)  BY <1>1, <1>7 DEF Moved, MovedNotUp, Tried, Locking
<1>8. CASE Restore(g) /\ Mine(g) /\ run = None  BY <1>1, <1>2, <1>8 DEF Restore, Mine, Tried
<1> QED
  BY <1>3, <1>4, <1>5, <1>6, <1>7, <1>8, JobMoves DEF Attempts, Trial

(* A start that gets through comes after the line's.                         *)
LEMMA Later ==
  ASSUME TypeOK, Served, NEW g \in Gens, pc[g] \in {"wait", "restart"}, Current(g)
  PROVE  lineGeneration < g
BY BoundsAssumption DEF Current, TypeOK, RequestTypes, Served

(* At most the newest attempts are current, and they follow the session.     *)
LEMMA TriedStep ==
  ASSUME TypeOK, Locking, Served, Made, Tried, [Next]_vars PROVE Tried'
<1> USE NoneAssumption, BoundsAssumption
<1>0. /\ generation \in 0..MaxRequests /\ lineGeneration \in 0..generation
      /\ pc \in [Gens -> Places] /\ jobs \in [Gens -> Job]
  BY DEF TypeOK, RequestTypes, WorkTypes
<1>a. \A h \in Gens : jobs[h].pc # "idle" => h <= lineGeneration  BY Zenon DEF Tried
<1>b. \A r \in coreReports : r[2] \in Nat /\ r[2] <= lineGeneration
  <2>1. \A r \in coreReports : r[2] \in Nat  BY DEF TypeOK, WorkTypes
  <2> QED  BY <2>1, Zenon DEF Tried
<1>c. coreWatch # None => coreWatch[2] \in Nat /\ coreWatch[2] <= lineGeneration
  <2>1. coreWatch # None => coreWatch[2] \in Nat  BY DEF TypeOK, WorkTypes
  <2> QED  BY <2>1, Zenon DEF Tried
<1>d. ASSUME NEW g \in Gens, lineGeneration < g
      PROVE  /\ \A h \in Gens : jobs[h].pc # "idle" => h < g /\ h <= g
             /\ \A r \in coreReports : r[2] <= g
             /\ coreWatch # None => coreWatch[2] <= g
  <2>1. lineGeneration \in Nat /\ Gens \subseteq Nat  BY ONLY <1>0, BoundsAssumption
  <2> QED  BY ONLY <1>a, <1>b, <1>c, <1>d, <2>1
<1>1. ASSUME UNCHANGED <<sessionLine, lineGeneration, job, jobs, coreReports, coreWatch>>,
             \A g \in Gens : pc'[g] \in Starting \cup {"change"} => pc[g] \in Starting \cup {"change"}
      PROVE  Tried'
  BY <1>1 DEF Tried
<1>2. CASE StartVpn \/ StopVpn
  <2>1. PICK verb \in {"start", "stop"} : Issue(verb)  BY <1>2 DEF StartVpn, StopVpn
  <2>2. generation' \in Gens /\ pc' = [pc EXCEPT ![generation'] = "wait"]
    BY <1>0, <2>1, SMTT(30) DEF Issue
  <2> QED  BY <1>0, <1>1, <1>2, <2>2 DEF StartVpn, StopVpn, Starting
<1>3. CASE CoreDies \/ TunDies \/ TunWatch \/ UNCHANGED vars
  BY <1>1, <1>3 DEF CoreDies, TunDies, TunWatch
<1>4. CASE CoreWatch
  <2>1. /\ \A r \in coreReports' : r[2] <= lineGeneration'
        /\ coreWatch' = None /\ UNCHANGED <<sessionLine, lineGeneration, job, jobs, pc>>
    BY <1>4 DEF CoreWatch, Tried
  <2> QED  BY <2>1, Zenon DEF Tried
<1>5. ASSUME NEW l, NEW f, Choose(l, f) PROVE Tried'  BY <1>1, <1>5 DEF Choose
<1>6. ASSUME NEW g \in Gens, JobMove(g) PROVE Tried'
  <2>1. PICK new \in Job :
          /\ jobs' = [jobs EXCEPT ![g] = new]
          /\ new.pc \notin {"replace", "moved"}
          /\ \/ new.pc = "idle"
             \/ /\ new.pc # "idle" /\ new.line = jobs[g].line
                /\ new.pc \in Away <=> jobs[g].pc \in Away
                /\ new.pc \in Away => new.next = jobs[g].next
                /\ new.pc = "trying" => new.next # None
    BY <1>6, ZenonT(40) DEF JobMove
  <2>2. /\ UNCHANGED <<sessionLine, lineGeneration, job, coreReports, coreWatch, pc>>
        /\ jobs[g].pc # "idle"
    BY <1>6 DEF JobMove
  <2>3. jobs'[g] = new /\ \A h \in Gens : h # g => jobs'[h] = jobs[h]  BY <1>0, <2>1
  <2> QED  BY <2>1, <2>2, <2>3 DEF Tried
<1>7. ASSUME NEW g \in Gens, NEW p \in JobPlaces, JobTo(g, p), job' = g \/ (job' = None /\ p = "idle"),
             job = g, lineGeneration = g, sessionLine # None, jobs[g].pc # "idle",
             \A h \in Gens : pc[h] \notin Holding, UNCHANGED <<pc, lineGeneration, coreReports>>,
             p = "idle" => sessionLine' = sessionLine,
             p # "idle" => sessionLine' = IF p \in Away THEN jobs[g].next ELSE jobs[g].line,
             p = "trying" => FALSE, p \in Away => jobs[g].next # None,
             coreWatch' \in {coreWatch, None} \/ coreWatch'[2] = g
      PROVE  Tried'
  <2>1. PICK new \in Job :
          /\ jobs' = [jobs EXCEPT ![g] = new]
          /\ new.pc = p
          /\ p # "idle" => new.line = jobs[g].line
          /\ p \in Away => new.next = jobs[g].next
    BY <1>7, ZenonT(40) DEF JobTo
  <2>2. jobs'[g] = new /\ \A h \in Gens : h # g => jobs'[h] = jobs[h]  BY <1>0, <2>1, Zenon
  <2>3. \A h \in Gens : pc'[h] \notin Starting \cup {"change"}  BY <1>7, Zenon DEF Holding
  <2>4. \A h \in Gens : h # g /\ jobs[h].pc # "idle" => h < lineGeneration
    BY <1>7 DEF Tried
  <2>5. \A r \in coreReports' : r[2] <= lineGeneration'  BY <1>7 DEF Tried
  <2>6. coreWatch' # None => coreWatch'[2] <= lineGeneration'  BY <1>7 DEF Tried
  <2>7. ASSUME NEW h \in Gens, jobs'[h].pc # "idle"
        PROVE  /\ h <= lineGeneration' /\ jobs'[h].line # None
               /\ jobs'[h].pc \in Away \cup {"trying"} => jobs'[h].next # None
               /\ h = job' \/ h < lineGeneration' \/ sessionLine' = None
    <3>1. /\ jobs[h].pc # "idle" /\ h <= lineGeneration' /\ jobs[h].line # None
          /\ jobs[h].pc \in Away \cup {"trying"} => jobs[h].next # None
      BY <1>7, <2>2, <2>7, Zenon DEF Tried
    <3>2. CASE h = g  BY <1>7, <2>1, <2>2, <2>7, <3>1, <3>2, Zenon
    <3>3. CASE h # g  BY <1>7, <2>2, <2>4, <3>1, <3>3, Zenon
    <3> QED  BY <3>2, <3>3
  <2>8. ASSUME NEW h \in Gens, jobs'[h].pc \in {"replace", "moved"} PROVE job' = h
    BY <1>7, <2>1, <2>2, <2>8, SMTT(30) DEF Tried
  <2>9. ASSUME NEW h \in Gens, job' = h, jobs'[h].pc # "idle"
        PROVE  sessionLine' = IF jobs'[h].pc \in Away THEN jobs'[h].next ELSE jobs'[h].line
    BY <1>7, <2>1, <2>2, <2>9
  <2> QED  BY <2>3, <2>5, <2>6, <2>7, <2>8, <2>9 DEF Tried
<1>8. ASSUME NEW g \in Gens, Attempts(g) PROVE Tried'
  <2> USE JobGoes DEF JobPlaces, J, Away, Trying
  <2>0. CASE JobMove(g)  BY <1>6, <2>0, Zenon
  <2> SUFFICES ASSUME ~JobMove(g) PROVE Tried'  BY <2>0, Zenon
  <2>1. /\ job = g /\ lineGeneration = g /\ sessionLine # None /\ jobs[g].pc # "idle"
        /\ sessionLine = IF jobs[g].pc \in Away THEN jobs[g].next ELSE jobs[g].line
        /\ \A h \in Gens : pc[h] \notin Holding
        /\ UNCHANGED <<pc, lineGeneration>>
    BY <1>8, Own, Zenon
  <2>a. "idle" \in JobPlaces /\ "idle" \notin Away  BY Zenon
  <2>2. CASE Confirm(g) /\ Mine(g) /\ run # None
    <3>1. End(g) /\ job' = None /\ sessionLine' = sessionLine /\ coreReports' = coreReports
      BY <2>2, Zenon DEF Confirm
    <3>2. coreWatch' = <<jobs[g].line, g>>  BY <2>2, Zenon DEF Confirm, Up
    <3>3. coreWatch'[2] = g  BY ONLY <3>2
    <3> QED  BY <1>7, <2>1, <2>a, <3>1, <3>3, Zenon
  <2>3. CASE Try(g) /\ Mine(g) /\ tunAlive  BY <1>7, <2>1, <2>3, Zenon DEF Try, Take, Tried
  <2>4. CASE Replace(g)  BY <1>7, <2>1, <2>4 DEF Replace, Back
  <2>5. CASE TrialFails(g) \/ TrialNotStored(g)
    BY <1>7, <2>1, <2>5, Zenon DEF TrialFails, TrialNotStored, Back
  <2>6. CASE TrialMoves(g)  BY <1>7, <2>1, <2>6, Zenon DEF TrialMoves
  <2>7. CASE Moved(g)
    <3>1. /\ End(g) /\ sessionLine' = sessionLine /\ coreReports' = coreReports
          /\ job' = None \/ job' = job
      BY <2>7, Zenon DEF Moved
    <3>2. coreWatch' = coreWatch \/ coreWatch' = <<jobs[g].next, g>>  BY <2>7, Zenon DEF Moved, Up
    <3>3. coreWatch' = coreWatch \/ coreWatch'[2] = g  BY ONLY <3>2
    <3> QED  BY <1>7, <2>1, <2>a, <3>1, <3>3, Zenon
  <2>8. CASE Restore(g) /\ Mine(g) /\ run = None  BY <1>7, <2>1, <2>8 DEF Restore
  <2>9. CASE MovedNotUp(g)
    <3>1. /\ UNCHANGED <<sessionLine, lineGeneration, coreReports, coreWatch, pc>> /\ job' = g
          /\ jobs'[g].pc = "wait" /\ jobs'[g].line = jobs[g].next /\ jobs[g].pc = "moved"
          /\ \A h \in Gens : h # g => jobs'[h] = jobs[h]
      BY <1>0, <2>9, Zenon DEF MovedNotUp, Launch, Idle
    <3>2. jobs[g].next = sessionLine  BY <2>1, <3>1, Zenon
    <3>3. \A h \in Gens : jobs[h].pc # "idle" => h <= lineGeneration  BY <1>a, Zenon
    <3>4. \A h \in Gens : h # g /\ jobs[h].pc # "idle" => h < lineGeneration  BY <2>1 DEF Tried
    <3>5. \A h \in Gens : h # g => jobs[h].pc \notin {"replace", "moved"}  BY <2>1, Zenon DEF Tried
    <3>6. \A h \in Gens : pc'[h] \notin Starting \cup {"change"}  BY <2>1, <3>1, Zenon DEF Holding
    <3> QED  BY <2>1, <3>1, <3>2, <3>3, <3>4, <3>5, <3>6, Zenon DEF Tried
  <2> QED
    BY <1>8, <2>2, <2>3, <2>4, <2>5, <2>6, <2>7, <2>8, <2>9, JobMoves DEF Attempts, Trial
<1>9. ASSUME job' = None, sessionLine' = None, coreWatch' = None,
             UNCHANGED <<lineGeneration, coreReports>>,
             \A h \in Gens : jobs'[h].pc # "idle" => jobs'[h] = jobs[h],
             \A h \in Gens : jobs'[h].pc \notin {"replace", "moved"},
             \A h \in Gens : pc'[h] \notin Starting \cup {"change"}
      PROVE  Tried'
  BY <1>9 DEF Tried
<1>10. ASSUME Reports PROVE Tried'
  <2>1. mutex = None /\ pc' = pc  BY <1>10, Zenon DEF Reports, CoreReport, TunReport, TunReportStale
  <2>2. \A h \in Gens : pc'[h] \notin Starting \cup {"change"} /\ jobs[h].pc \notin {"replace", "moved"}
    BY <2>1 DEF Locking, Holding
  <2>3. ASSUME NEW r \in coreReports, CoreReport(r) PROVE Tried'
    <3>1. r[1] \in Lines /\ r[2] \in Gens /\ r[2] <= lineGeneration  BY <2>3 DEF TypeOK, WorkTypes, Tried
    <3>2. coreReports' \subseteq coreReports /\ UNCHANGED <<sessionLine, lineGeneration>>
      BY <2>3 DEF CoreReport
    <3>3. CASE UNCHANGED <<coreWatch, job, jobs>>  BY <2>1, <3>2, <3>3 DEF Tried
    <3>4. CASE Current(r[2]) /\ sessionLine = r[1] /\ job = None /\ coreWatch' = None
                 /\ Launch(r[1], r[2], "wait")
      <4>0. r[2] = generation  BY <3>4, Zenon DEF Current
      <4>1. r[2] = lineGeneration  BY ONLY <1>0, <3>1, <4>0, BoundsAssumption
      <4>2. /\ jobs'[r[2]].pc = "wait" /\ jobs'[r[2]].line = r[1]
            /\ \A h \in Gens : h # r[2] => jobs'[h] = jobs[h]
        BY <1>0, <3>1, <3>4, Zenon DEF Launch, Idle
      <4>3. \A h \in Gens : h # r[2] /\ jobs[h].pc # "idle" => h < lineGeneration
        BY <3>1, <3>4 DEF Tried
      <4>4. job' = r[2] /\ job' # None  BY <3>1, <3>4, Zenon DEF Launch
      <4>5. r[2] <= lineGeneration  BY <3>1
      <4>6. \A h \in Gens : h # r[2] /\ jobs[h].pc # "idle" => h <= lineGeneration  BY <1>a, Zenon
      <4> QED
        BY <2>2, <3>1, <3>2, <3>4, <4>1, <4>2, <4>3, <4>4, <4>5, <4>6, Zenon DEF Tried, Away, Trying
    <3> QED  BY <2>3, <3>3, <3>4 DEF CoreReport
  <2>4. ASSUME NEW u, TunReport(u) PROVE Tried'
    <3>1. /\ sessionLine' = None /\ job' = None /\ coreWatch' = None /\ coreReports' = coreReports
          /\ \A g \in Gens : jobs'[g].pc # "idle" => jobs'[g] = jobs[g]
      BY <2>4, StopModeDoes, ZenonT(40) DEF TunReport
    <3>2. lineGeneration' = lineGeneration  BY <2>4, Zenon DEF TunReport
    <3> QED  BY <1>9, <2>2, <3>1, <3>2
  <2>5. ASSUME NEW u, TunReportStale(u) PROVE Tried'  BY <1>1, <2>1, <2>5 DEF TunReportStale
  <2> QED  BY <1>10, <2>3, <2>4, <2>5 DEF Reports
<1>11. ASSUME NEW g \in Gens, Request(g) PROVE Tried'
  <2>1. PICK p \in Holding \cup {"done"} : pc' = [pc EXCEPT ![g] = p]
    BY <1>11, RequestMoves, Zenon DEF RequestMove
  <2>2. /\ \A h \in Gens : h # g => pc'[h] \notin Holding
        /\ \A h \in Gens : jobs'[h].pc \notin {"replace", "moved"}
    BY <1>11, RequestMoves, Zenon DEF RequestMove
  <2>3. ASSUME NEW q \in {"done", "restart"}, pc' = [pc EXCEPT ![g] = q]
        PROVE  \A h \in Gens : pc'[h] \notin Starting \cup {"change"}
    BY <1>0, <2>2, <2>3, Zenon DEF Holding, Starting
  <2>4. CASE Stop(g)
    <3>1. /\ sessionLine' = None /\ job' = None /\ coreWatch' = None /\ coreReports' = coreReports
          /\ \A h \in Gens : jobs'[h].pc # "idle" => jobs'[h] = jobs[h]
          /\ lineGeneration' = lineGeneration
      BY <2>4, StopDoes
    <3> QED  BY <1>9, <2>2, <2>3, <2>4, <3>1 DEF Stop, Done
  <2>5. ASSUME Restart(g) \/ Failed(g) PROVE Tried'
    <3>1. PICK s \in {"error", "stopping"} : StopMode(FALSE, s)  BY <2>5, Zenon DEF Failed, Restart
    <3>2. /\ sessionLine' = None /\ job' = None /\ coreWatch' = None /\ coreReports' = coreReports
          /\ \A h \in Gens : jobs'[h].pc # "idle" => jobs'[h] = jobs[h]
      BY <3>1, StopModeDoes, ZenonT(40)
    <3>3. lineGeneration' = lineGeneration /\ (pc' = [pc EXCEPT ![g] = "done"] \/ pc' = [pc EXCEPT ![g] = "restart"])
      BY <2>5, ZenonT(40) DEF Restart, Failed, Done, On
    <3> QED  BY <1>9, <2>2, <2>3, <3>2, <3>3
  <2>6. CASE Superseded(g)
    BY <1>1, <2>3, <2>6 DEF Superseded, Done
  <2>7. CASE StartCore(g) \/ StartTun(g) \/ TunFails(g) \/ Verify(g)
    <3>1. pc[g] \in Starting /\ UNCHANGED <<sessionLine, lineGeneration, job, jobs, coreReports, coreWatch>>
      BY <2>7, Zenon DEF StartCore, StartTun, TunFails, Verify, At, Starting
    <3> QED  BY <1>1, <2>2, <3>1 DEF Holding
  <2>8. CASE Begin(g)
    <3>1. UNCHANGED <<sessionLine, job, jobs, coreReports, coreWatch>> /\ job = None
      BY <2>8 DEF Begin, Lock, At, InSession, Made
    <3>2. CASE Current(g)
      <4>1. lineGeneration' = g /\ lineGeneration < g  BY <2>8, <3>2, Later DEF Begin, Lock, At
      <4>2. \A h \in Gens : jobs[h].pc # "idle" => h < g /\ h <= g  BY <1>d, <4>1, Zenon
      <4>3. \A h \in Gens : pc'[h] \in Starting \cup {"change"} => h = g  BY <2>2 DEF Holding
      <4>4. \A r \in coreReports : r[2] <= g  BY <1>d, <4>1, Zenon
      <4>5. coreWatch # None => coreWatch[2] <= g  BY <1>d, <4>1, Zenon
      <4> QED  BY <2>2, <3>1, <4>1, <4>2, <4>3, <4>4, <4>5, Zenon DEF Tried
    <3>3. CASE ~Current(g)
      BY <1>1, <2>3, <2>8, <3>1, <3>3, Zenon DEF Begin, Done
    <3> QED  BY <3>2, <3>3, Zenon
  <2>b. CASE NoLocation(g)
    <3>1. /\ UNCHANGED <<sessionLine, job, jobs, coreReports, coreWatch>> /\ job = None
          /\ pc' = [pc EXCEPT ![g] = "done"]
      BY <2>b DEF NoLocation, Lock, At, InSession, Made, Done
    <3>2. lineGeneration' = g /\ lineGeneration < g  BY <2>b, Later DEF NoLocation, Lock, At
    <3>3. /\ \A h \in Gens : jobs[h].pc # "idle" => h < g /\ h <= g
          /\ \A r \in coreReports : r[2] <= g
          /\ coreWatch # None => coreWatch[2] <= g
      BY <1>d, <3>2, Zenon
    <3>4. \A h \in Gens : pc'[h] \notin Starting \cup {"change"}  BY <2>3, <3>1
    <3> QED  BY <2>2, <3>1, <3>2, <3>3, <3>4, Zenon DEF Tried
  <2>9. CASE ChangeLine(g)
    <3>1. /\ lineGeneration' = g /\ lineGeneration < g /\ job' = None /\ coreWatch' = None
          /\ coreReports' = coreReports /\ jobs' = Cancelled
      BY <2>9, Later, Zenon DEF ChangeLine, Take, Lock
    <3>2. \A h \in Gens : Cancelled[h] \in {Idle, jobs[h]}  BY DEF Cancelled
    <3>3. \A h \in Gens : jobs'[h].pc # "idle" => jobs'[h] = jobs[h]  BY ONLY <3>1, <3>2 DEF Idle
    <3>4. \A h \in Gens : jobs'[h].pc # "idle" => h < g /\ h <= g  BY <1>d, <3>1, <3>3, Zenon
    <3>5. \A r \in coreReports : r[2] <= g  BY <1>d, <3>1, Zenon
    <3> QED  BY <2>2, <3>1, <3>3, <3>4, <3>5, ZenonT(40) DEF Tried, Holding
  <2>10. CASE Changed(g)
    <3>1. /\ lineGeneration = g /\ job = None /\ sessionLine # None
          /\ UNCHANGED <<sessionLine, lineGeneration, coreReports, coreWatch>>
      BY <2>10 DEF Changed, At, Made, Served
    <3>2. \A h \in Gens : jobs[h].pc # "idle" => h < g  BY <2>10 DEF Changed, At, Tried
    <3>3. \A h \in Gens : pc'[h] \notin Starting \cup {"change"}  BY <2>3, <2>10 DEF Changed, Done
    <3>4. CASE UNCHANGED <<job, jobs>>  BY <1>1, <3>1, <3>3, <3>4
    <3>5. ASSUME NEW at \in {"wait", "confirm"}, Launch(sessionLine, g, at) PROVE Tried'
      <4>1. /\ jobs'[g].pc = at /\ jobs'[g].line = sessionLine /\ job' = g
            /\ \A h \in Gens : h # g => jobs'[h] = jobs[h]
        BY <1>0, <3>5, Zenon DEF Launch, Idle
      <4>2. \A h \in Gens : jobs[h].pc # "idle" => h <= g  BY <1>a, <3>1, Zenon
      <4>3. g <= g  BY ONLY g \in Gens, BoundsAssumption
      <4> QED  BY <2>2, <3>1, <3>2, <3>3, <3>5, <4>1, <4>2, <4>3, Zenon DEF Tried, Away, Trying
    <3> QED  BY <2>10, <3>4, <3>5 DEF Changed
  <2>11. CASE Connected(g)
    <3>1. /\ lineGeneration = g /\ job = None /\ coreWatch'[2] = g
          /\ UNCHANGED <<lineGeneration, coreReports, job, jobs>>
      BY <2>11 DEF Connected, Up, At, Made, Served, Starting
    <3>2. \A h \in Gens : jobs[h].pc # "idle" => h < g  BY <2>11 DEF Connected, At, Tried, Starting
    <3>3. \A h \in Gens : pc'[h] \notin Starting \cup {"change"}  BY <2>3, <2>11, Zenon DEF Connected, Done
    <3>4. g <= g  BY ONLY g \in Gens, BoundsAssumption
    <3> QED  BY <1>b, <2>2, <3>1, <3>2, <3>3, <3>4, Zenon DEF Tried
  <2> QED
    BY <1>11, <2>4, <2>5, <2>6, <2>7, <2>8, <2>b, <2>9, <2>10, <2>11 DEF Request
<1> QED  BY <1>2, <1>3, <1>4, <1>5, <1>8, <1>10, <1>11 DEF Next
=============================================================================
