---------------------------- MODULE DesktopProofs ----------------------------
(***************************************************************************)
(* What is proved about Desktop, for any number of locations, requests and *)
(* deaths.                                                                 *)
(***************************************************************************)
EXTENDS DesktopControl

(* The inductive invariant.                                                  *)
IInv == TypeOK /\ Locking /\ Served /\ Made /\ Tried /\ Cores /\ Named /\ Reconnecting /\ Stopped
          /\ Blocked

USE DEF asked, session, procs, work, watch, switch, vars, Gens, Ids
-----------------------------------------------------------------------------
(* The core that runs.                                                       *)

(* Which core runs: that of the line, wherever the mutex is free.            *)
LEMMA CoresStep ==
  ASSUME TypeOK, Locking, Served, Made, Tried, Cores, [Next]_vars PROVE Cores'
<1> USE NoneAssumption, BoundsAssumption
<1>0. pc \in [Gens -> Places] /\ jobs \in [Gens -> Job]
  BY Zenon DEF TypeOK, RequestTypes, WorkTypes
<1>1. ASSUME run' \in {run, None}, UNCHANGED <<sessionLine, loc>>,
             \A g \in Gens : pc'[g] = pc[g] \/ (pc[g] \notin Holding /\ pc'[g] \notin Holding),
             \A g \in Gens : jobs[g].pc = "replace" => jobs'[g].pc = "replace"
      PROVE  Cores'
  BY <1>1, Zenon DEF Cores, Holding, Starting
<1>2. ASSUME run' = None PROVE Cores'  BY <1>2, Zenon DEF Cores
<1>3. CASE StartVpn \/ StopVpn
  <2>1. PICK verb \in {"start", "stop"} : Issue(verb)  BY <1>3, Zenon DEF StartVpn, StopVpn
  <2>2. generation' \in Gens /\ pc' = [pc EXCEPT ![generation'] = "wait"] /\ pc[generation'] = "none"
    BY <2>1 DEF Issue, TypeOK, RequestTypes
  <2> QED  BY <1>0, <1>1, <1>3, <2>2, Zenon DEF StartVpn, StopVpn, Holding, Starting
<1>4. CASE CoreDies \/ TunDies \/ CoreWatch \/ TunWatch \/ UNCHANGED vars
  BY <1>1, <1>4 DEF CoreDies, TunDies, CoreWatch, TunWatch
<1>5. ASSUME NEW l, NEW f, Choose(l, f) PROVE Cores'  BY <1>1, <1>5, Zenon DEF Choose
<1>6. ASSUME Reports PROVE Cores'
  <2>1. ASSUME NEW r \in coreReports, CoreReport(r) PROVE Cores'
    BY <1>1, <2>1 DEF CoreReport, Locking
  <2>2. ASSUME NEW u, TunReport(u) PROVE Cores'  BY <1>2, <2>2, StopModeDoes, Zenon DEF TunReport
  <2>3. ASSUME NEW u, TunReportStale(u) PROVE Cores'  BY <1>1, <2>3, Zenon DEF TunReportStale
  <2> QED  BY <1>6, <2>1, <2>2, <2>3, Zenon DEF Reports
<1>7. ASSUME NEW g \in Gens, JobMove(g) PROVE Cores'
  <2>1. /\ UNCHANGED <<run, sessionLine, loc, pc>> /\ jobs[g].pc # "replace"
        /\ \E new : jobs' = [jobs EXCEPT ![g] = new]
    BY <1>7, ZenonT(40) DEF JobMove
  <2> QED  BY <1>0, <1>1, <2>1, Zenon
<1>8. ASSUME NEW g \in Gens, Attempts(g) PROVE Cores'
  <2> USE DEF J
  <2>0. CASE JobMove(g)  BY <1>7, <2>0, Zenon
  <2> SUFFICES ASSUME ~JobMove(g) PROVE Cores'  BY <2>0, Zenon
  <2>1. /\ sessionLine # None /\ pc' = pc
        /\ sessionLine = IF jobs[g].pc \in Away THEN jobs[g].next ELSE jobs[g].line
        /\ \A h \in Gens : pc[h] \notin Holding
    BY <1>8, Own, Zenon
  <2>2. ASSUME sessionLine' # None,
               (\A h \in Gens : jobs'[h].pc # "replace") => run' \in {None, sessionLine'[1]}
        PROVE  Cores'
    BY <2>1, <2>2, Zenon DEF Cores, Holding, Starting
  <2>3. ASSUME \A h \in Gens : jobs[h].pc # "replace", UNCHANGED <<run, sessionLine>> PROVE Cores'
    BY <2>1, <2>2, <2>3, Zenon DEF Cores, Holding
  <2>4. CASE Confirm(g) /\ Mine(g) /\ run # None  BY <2>3, <2>4 DEF Confirm, Locking
  <2>5. CASE Try(g) /\ Mine(g) /\ tunAlive
    <3>1. jobs'[g].pc = "replace"  BY <1>0, <2>5 DEF Try, Go, Job
    <3>2. sessionLine' # None  BY <2>5, Zenon DEF Try, Take, Tried
    <3> QED  BY <2>2, <3>1, <3>2, Zenon
  <2>6. CASE Replace(g)
    <3>1. sessionLine = jobs[g].next /\ jobs[g].line # None
      BY <2>1, <2>6, Zenon DEF Replace, Away, Trying, Tried
    <3> QED  BY <2>1, <2>2, <2>6, <3>1, Zenon DEF Replace, Back
  <2>7. CASE TrialFails(g) \/ TrialNotStored(g)
    BY <1>2, <2>7 DEF TrialFails, TrialNotStored, Back
  <2>8. CASE TrialMoves(g)  BY <2>3, <2>8 DEF TrialMoves, Locking
  <2>9. CASE Moved(g)
    <3>1. \A h \in Gens : jobs[h].pc # "replace"  BY <2>9 DEF Moved, Locking
    <3> QED  BY <2>3, <2>9, <3>1, Zenon DEF Moved
  <2>a. CASE MovedNotUp(g)
    <3>1. \A h \in Gens : jobs[h].pc # "replace"  BY <2>a DEF MovedNotUp, Locking
    <3> QED  BY <2>3, <2>a, <3>1, Zenon DEF MovedNotUp
  <2>10. CASE Restore(g) /\ Mine(g) /\ run = None
    <3>1. sessionLine = jobs[g].line  BY <2>10, Zenon DEF Mine
    <3> QED  BY <2>1, <2>2, <2>10, <3>1, Zenon DEF Restore
  <2> QED
    BY <1>8, <2>4, <2>5, <2>6, <2>7, <2>8, <2>9, <2>a, <2>10, JobMoves, Zenon DEF Attempts, Trial
<1>9. ASSUME NEW g \in Gens, Request(g) PROVE Cores'
  <2>1. PICK p \in Holding \cup {"done"} : pc' = [pc EXCEPT ![g] = p]
    BY <1>9, RequestMoves, Zenon DEF RequestMove
  <2>2. /\ \A h \in Gens : h # g => pc[h] \notin Holding /\ pc'[h] \notin Holding
        /\ \A h \in Gens : jobs[h].pc # "replace"
    BY <1>9, RequestMoves, Zenon DEF RequestMove
  <2>3. ASSUME pc[g] \notin Starting, sessionLine = None PROVE run = None
    BY <2>2, <2>3, Zenon DEF Cores, Holding
  <2>4. CASE Stop(g)
    <3>1. pc[g] \notin Starting  BY <2>4, Zenon DEF Stop, Lock, Starting
    <3> QED  BY <1>2, <2>3, <2>4, <3>1, StopDoes, Zenon
  <2>5. CASE Superseded(g)  BY <1>0, <1>1, <2>5, Zenon DEF Superseded, Lock, Done, Holding, Starting
  <2>6. CASE ChangeLine(g)
    <3>1. NewLine(active) \in Lines  BY New, Zenon DEF TypeOK, SessionTypes
    <3>2. sessionLine' # None /\ pc'[g] = "change"  BY <1>0, <2>6, <3>1, Zenon DEF ChangeLine, Take, On
    <3> QED  BY <2>2, <3>2, Zenon DEF Cores, Holding, Starting
  <2>7. CASE Changed(g)
    <3>1. sessionLine # None /\ pc'[g] = "done"  BY <1>0, <2>7, Zenon DEF Changed, At, Made, Done
    <3>2. run' \in {None, sessionLine[1]} /\ sessionLine' = sessionLine  BY <2>7, Zenon DEF Changed
    <3> QED  BY <2>2, <3>1, <3>2, Zenon DEF Cores, Holding, Starting
  <2>8. CASE Restart(g) \/ Failed(g)
    <3>1. PICK s \in {"error", "stopping"} : StopMode(FALSE, s)  BY <2>8, ZenonT(40) DEF Failed, Restart
    <3> QED  BY <1>2, <3>1, StopModeDoes, ZenonT(40)
  <2>9. CASE Begin(g) \/ NoLocation(g)
    <3>1. sessionLine = None /\ pc[g] \notin Starting /\ run' = run
      BY <2>9, Zenon DEF Begin, NoLocation, Lock, At, InSession, Made, Starting
    <3> QED  BY <1>2, <2>3, <3>1, Zenon
  <2>10. ASSUME pc'[g] \in Starting \ {"core"}, sessionLine' = None,
                pc'[g] = "fail" \/ run' \in {None, loc'}
         PROVE  Cores'
    BY <2>2, <2>10, Zenon DEF Cores, Holding, Starting
  <2>11. CASE StartCore(g) \/ StartTun(g) \/ TunFails(g) \/ Verify(g)
    <3>1. pc'[g] \in {"tun", "verify", "up", "fail"}
      BY <1>0, <2>11 DEF StartCore, StartTun, TunFails, Verify, On, Fails
    <3>2. sessionLine' = None /\ loc' = loc
      BY <2>11 DEF StartCore, StartTun, TunFails, Verify, At, Made, Starting
    <3>3. run' \in {None, loc}
      BY <2>11 DEF StartCore, StartTun, TunFails, Verify, At, Cores
    <3> QED  BY <2>10, <3>1, <3>2, <3>3, Zenon DEF Starting
  <2>12. CASE Connected(g)
    <3>1. loc \in Locations /\ run \in {None, loc} /\ pc'[g] = "done" /\ run' = run
      BY <1>0, <2>12, Zenon DEF Connected, At, Made, Done, TypeOK, SessionTypes, Cores
    <3>2. sessionLine' \in Lines /\ sessionLine'[1] = loc  BY <2>12, <3>1, New DEF Connected
    <3> QED  BY <2>2, <3>1, <3>2, Zenon DEF Cores, Holding, Starting
  <2> QED
    BY <1>9, <2>4, <2>5, <2>6, <2>7, <2>8, <2>9, <2>11, <2>12, Zenon DEF Request
<1> QED  BY <1>3, <1>4, <1>5, <1>6, <1>8, <1>9, Zenon DEF Next

-----------------------------------------------------------------------------
(* The line the store names.                                                 *)

(* Which line the store names: the one the session runs.                     *)
LEMMA NamedStep ==
  ASSUME TypeOK, Locking, Served, Made, Tried, Named, [Next]_vars PROVE Named'
<1> USE NoneAssumption, BoundsAssumption
<1>0. /\ pc \in [Gens -> Places] /\ jobs \in [Gens -> Job]
      /\ generation \in 0..MaxRequests /\ lineGeneration \in 0..generation
  BY Zenon DEF TypeOK, RequestTypes, WorkTypes
<1> DEFINE Making == {"core", "tun", "verify", "up"}
           OnTry == \E g \in Gens : job = g /\ jobs[g].pc \in Trying
<1>1. ASSUME UNCHANGED <<sessionLine, chosen, generation, lineGeneration, job, jobs, active, loc>>,
             \A g \in Gens : pc'[g] \in Making => pc[g] \in Making
      PROVE  Named'
  BY <1>1, Zenon DEF Named, Current
<1>2. ASSUME \A g \in Gens : pc'[g] \notin Making, sessionLine' = None PROVE Named'
  BY <1>2, Zenon DEF Named
<1>3. ASSUME \A g \in Gens : pc'[g] \notin Making, ~OnTry', active' = sessionLine'[1] PROVE Named'
  BY <1>3, Zenon DEF Named
<1>4. ASSUME \A g \in Gens : pc'[g] \notin Making, OnTry', active' = jobs'[job'].line[1] PROVE Named'
  BY <1>4, Zenon DEF Named
<1>5. CASE StartVpn \/ StopVpn
  <2>1. PICK verb \in {"start", "stop"} : Issue(verb)  BY <1>5, Zenon DEF StartVpn, StopVpn
  <2>2. /\ generation' = generation + 1 /\ generation' \in Gens /\ lineGeneration' = lineGeneration
        /\ pc' = [pc EXCEPT ![generation'] = "wait"]
    BY <1>0, <1>5, <2>1 DEF Issue, StartVpn, StopVpn
  <2> QED  BY <1>0, <2>2 DEF Named, Current
<1>6. ASSUME NEW l, NEW f, Choose(l, f) PROVE Named'  BY <1>6, Zenon DEF Choose, Named
<1>7. CASE CoreDies \/ TunDies \/ CoreWatch \/ TunWatch \/ UNCHANGED vars
  BY <1>1, <1>7 DEF CoreDies, TunDies, CoreWatch, TunWatch
<1>8. ASSUME Reports PROVE Named'
  <2>0. mutex = None /\ pc' = pc  BY <1>8, ZenonT(40) DEF Reports, CoreReport, TunReport, TunReportStale
  <2>1. \A g \in Gens : pc'[g] \notin Making  BY <2>0 DEF Locking, Holding, Starting
  <2>2. ASSUME NEW r \in coreReports, CoreReport(r) PROVE Named'
    <3>1. CASE UNCHANGED <<job, jobs>>  BY <1>1, <2>2, <3>1, Zenon DEF CoreReport
    <3>2. CASE job = None /\ Launch(r[1], r[2], "wait")
      <4>1. UNCHANGED <<sessionLine, chosen, generation, lineGeneration, active>>
        BY <2>2, Zenon DEF CoreReport
      <4>2. r[2] \in Gens  BY <2>2, Zenon DEF TypeOK, WorkTypes
      <4>3. ~OnTry  BY <3>2, Zenon
      <4>4. job' = r[2] /\ jobs'[r[2]].pc = "wait"  BY <1>0, <3>2, <4>2, Zenon DEF Launch, Idle
      <4>5. ~OnTry'  BY <4>4, Zenon DEF Trying
      <4> QED  BY <2>1, <4>1, <4>3, <4>5, Zenon DEF Named, Current
    <3> QED  BY <2>2, <3>1, <3>2, Zenon DEF CoreReport
  <2>3. ASSUME NEW u, TunReport(u) PROVE Named'
    BY <1>2, <2>1, <2>3, StopModeDoes, Zenon DEF TunReport
  <2>4. ASSUME NEW u, TunReportStale(u) PROVE Named'  BY <1>1, <2>4, Zenon DEF TunReportStale
  <2> QED  BY <1>8, <2>2, <2>3, <2>4, Zenon DEF Reports
<1>9. ASSUME NEW g \in Gens, JobMove(g) PROVE Named'
  <2>1. PICK new \in Job :
          /\ jobs' = [jobs EXCEPT ![g] = new]
          /\ new.pc \notin {"replace", "moved"}
          /\ \/ new.pc = "idle" /\ ~(job = g /\ Current(g))
             \/ /\ new.pc # "idle" /\ new.line = jobs[g].line
                /\ new.pc \in Away <=> jobs[g].pc \in Away
    BY <1>9, ZenonT(40) DEF JobMove
  <2>2. /\ UNCHANGED <<sessionLine, chosen, generation, lineGeneration, job, active, loc, pc>>
        /\ jobs[g].pc \notin {"replace", "moved"}
    BY <1>9, Zenon DEF JobMove
  <2>3. jobs'[g] = new /\ \A h \in Gens : h # g => jobs'[h] = jobs[h]  BY <1>0, <2>1, Zenon
  <2>4. CASE job # g
    <3>1. OnTry' <=> OnTry  BY <2>2, <2>3, <2>4, Zenon
    <3>2. OnTry => jobs'[job'] = jobs[job]  BY <2>2, <2>3, <2>4, Zenon
    <3> QED  BY <2>2, <3>1, <3>2, Zenon DEF Named, Current
  <2>5. CASE job = g /\ ~Current(g)
    <3>1. ~Current(lineGeneration)  BY <2>5 DEF Made
    <3> QED  BY <2>2, <3>1, Zenon DEF Named, Current
  <2>6. CASE job = g /\ Current(g)
    <3>1. new.line = jobs[g].line /\ (new.pc \in Trying <=> jobs[g].pc \in Trying)
      BY <2>1, <2>2, <2>6, Zenon DEF Away
    <3>2. OnTry' <=> OnTry  BY <2>2, <2>3, <2>6, <3>1, Zenon
    <3>3. jobs'[job'].line = jobs[job].line  BY <2>2, <2>3, <2>6, <3>1, Zenon
    <3> QED  BY <2>2, <3>2, <3>3 DEF Named, Current
  <2> QED  BY <2>4, <2>5, <2>6, Zenon
<1>10. ASSUME NEW g \in Gens, Attempts(g) PROVE Named'
  <2> USE JobGoes DEF JobPlaces, J
  <2>0. CASE JobMove(g)  BY <1>9, <2>0, Zenon
  <2> SUFFICES ASSUME ~JobMove(g) PROVE Named'  BY <2>0, Zenon
  <2>1. /\ job = g /\ lineGeneration = g /\ sessionLine # None /\ jobs[g].pc # "idle"
        /\ sessionLine = IF jobs[g].pc \in Away THEN jobs[g].next ELSE jobs[g].line
        /\ \A h \in Gens : pc[h] \notin Holding
        /\ UNCHANGED <<pc, lineGeneration, generation, chosen>>
    BY <1>10, Own, Zenon
  <2>2. \A h \in Gens : pc'[h] \notin Making  BY <2>1, Zenon DEF Holding, Starting
  <2>3. ASSUME chosen' \/ ~Current(lineGeneration)' PROVE Named'  BY <2>2, <2>3, Zenon DEF Named
  <2> SUFFICES ASSUME ~chosen, Current(g) PROVE Named'  BY <2>1, <2>3, Zenon DEF Current
  <2>4. jobs[g].pc \in Trying => active = jobs[g].line[1]  BY <2>1 DEF Named
  <2>5. jobs[g].pc \notin Trying => active = sessionLine[1]  BY <2>1, Zenon DEF Named
  <2>6. ASSUME NEW p \in JobPlaces, JobTo(g, p), job' \in {g, None}, p \notin Trying,
               active' = sessionLine'[1]
        PROVE  Named'
    <3>1. jobs'[g].pc = p  BY <1>0, <2>6 DEF JobTo
    <3>2. ~OnTry'  BY <2>6, <3>1
    <3> QED  BY <1>3, <2>2, <2>6, <3>2, Zenon
  <2>7. ASSUME NEW p \in JobPlaces, JobTo(g, p), job' = g, p \in Trying, active' = active,
               active = jobs[g].line[1]
        PROVE  Named'
    <3>1. jobs'[g].pc = p /\ jobs'[g].line = jobs[g].line  BY <1>0, <2>7 DEF JobTo, Trying
    <3>2. OnTry'  BY <2>7, <3>1, Zenon
    <3> QED  BY <1>4, <2>2, <2>7, <3>1, <3>2
  <2> USE DEF Trying
  <2>8. CASE Confirm(g) /\ Mine(g) /\ run # None  BY <2>1, <2>5, <2>6, <2>8 DEF Confirm
  <2>9. CASE Try(g) /\ Mine(g) /\ tunAlive
    <3>1. active = jobs[g].line[1]  BY <2>5, <2>9, Zenon DEF Try, Mine
    <3> QED  BY <2>1, <2>7, <2>9, <3>1, Zenon DEF Try
  <2>10. CASE Replace(g)  BY <2>1, <2>4, <2>6, <2>7, <2>10 DEF Replace, Back
  <2>11. CASE TrialFails(g) \/ TrialNotStored(g)
    BY <2>1, <2>4, <2>6, <2>11 DEF TrialFails, TrialNotStored, Back
  <2>12. CASE TrialMoves(g)
    <3>1. sessionLine' = jobs[g].next /\ active' = jobs[g].next[1]  BY <2>12 DEF TrialMoves, OnTrial
    <3> QED  BY <2>1, <2>6, <2>12, <3>1 DEF TrialMoves
  <2>13. CASE Moved(g)  BY <2>1, <2>5, <2>6, <2>13 DEF Moved
  <2>a. CASE MovedNotUp(g)
    <3>1. /\ job' = g /\ jobs'[g].pc = "wait" /\ UNCHANGED <<sessionLine, active>>
          /\ jobs[g].pc = "moved"
      BY <1>0, <2>a, Zenon DEF MovedNotUp, Launch, Idle
    <3>2. ~OnTry'  BY <3>1
    <3> QED  BY <1>3, <2>2, <2>5, <3>1, <3>2
  <2>14. CASE Restore(g) /\ Mine(g) /\ run = None  BY <2>1, <2>5, <2>6, <2>14 DEF Restore
  <2> QED
    BY <1>10, <2>8, <2>9, <2>10, <2>11, <2>12, <2>13, <2>a, <2>14, JobMoves DEF Attempts, Trial
<1>11. ASSUME NEW g \in Gens, Request(g) PROVE Named'
  <2>1. PICK p \in Holding \cup {"done"} : pc' = [pc EXCEPT ![g] = p]
    BY <1>11, RequestMoves, Zenon DEF RequestMove
  <2>2. \A h \in Gens : h # g => pc[h] \notin Holding /\ pc'[h] \notin Holding
    BY <1>11, RequestMoves, Zenon DEF RequestMove
  <2>3. ASSUME pc'[g] \notin Making PROVE \A h \in Gens : pc'[h] \notin Making
    BY <2>2, <2>3, Zenon DEF Holding, Starting
  <2>4. CASE Stop(g)
    <3>1. pc'[g] = "done"  BY <1>0, <2>4, Zenon DEF Stop, Done
    <3> QED  BY <1>2, <2>3, <2>4, <3>1, StopDoes, Zenon
  <2>5. CASE Restart(g) \/ Failed(g)
    <3>1. PICK s \in {"error", "stopping"} : StopMode(FALSE, s)  BY <2>5, ZenonT(40) DEF Failed, Restart
    <3>2. pc'[g] \in {"restart", "done"}  BY <1>0, <2>5, ZenonT(40) DEF Failed, Restart, On, Done
    <3> QED  BY <1>2, <2>3, <3>1, <3>2, StopModeDoes, ZenonT(40)
  <2>6. CASE Superseded(g)
    <3>1. pc'[g] = "done"  BY <1>0, <2>6 DEF Superseded, Done
    <3> QED  BY <1>1, <2>3, <2>6, <3>1, Zenon DEF Superseded
  <2>7. CASE ChangeLine(g)
    <3>1. NewLine(active)[1] = active  BY New, Zenon DEF TypeOK, SessionTypes
    <3>2. pc'[g] = "change" /\ job' = None /\ active' = sessionLine'[1]
      BY <1>0, <2>7, <3>1, Zenon DEF ChangeLine, On, Take
    <3> QED  BY <1>3, <2>3, <3>2
  <2>8. CASE Changed(g)
    <3>1. pc'[g] = "done" /\ job = None
      BY <1>0, <2>8 DEF Changed, Done, At, Made
    <3>2. ~OnTry  BY <3>1
    <3>3. ~OnTry'
      <4>1. CASE UNCHANGED <<job, jobs>>  BY <3>2, <4>1
      <4>2. ASSUME NEW at \in {"wait", "confirm"}, Launch(sessionLine, g, at) PROVE ~OnTry'
        <5>1. job' = g /\ jobs'[g].pc = at  BY <1>0, <4>2, Zenon DEF Launch, Idle
        <5> QED  BY <5>1, Zenon DEF Trying
      <4> QED  BY <2>8, <4>1, <4>2 DEF Changed
    <3>4. UNCHANGED <<sessionLine, chosen, generation, lineGeneration, active>>  BY <2>8, Zenon DEF Changed
    <3>5. \A h \in Gens : pc'[h] \notin Making  BY <2>3, <3>1
    <3> QED  BY <3>2, <3>3, <3>4, <3>5, Zenon DEF Named, Current
  <2>9. CASE Begin(g)
    <3>1. sessionLine' = None  BY <2>9 DEF Begin, Lock, At, InSession, Made
    <3>2. CASE Current(g)
      <4>1. loc' = active'  BY <2>9, <3>2 DEF Begin
      <4> QED  BY <2>2, <3>1, <4>1, Zenon DEF Named, Holding, Starting
    <3>3. CASE ~Current(g)
      <4>1. pc'[g] = "done"  BY <1>0, <2>9, <3>3, Zenon DEF Begin, Done
      <4> QED  BY <1>2, <2>3, <3>1, <4>1
    <3> QED  BY <3>2, <3>3, Zenon
  <2>b. CASE NoLocation(g)
    <3>1. sessionLine' = None  BY <2>b DEF NoLocation, Lock, At, InSession, Made
    <3>2. pc'[g] = "done"  BY <1>0, <2>b, Zenon DEF NoLocation, Done
    <3> QED  BY <1>2, <2>3, <3>1, <3>2
  <2>10. CASE StartCore(g) \/ StartTun(g) \/ TunFails(g) \/ Verify(g)
    <3>1. pc[g] \in Making
          /\ UNCHANGED <<sessionLine, chosen, generation, lineGeneration, job, jobs, active, loc>>
      BY <2>10, Zenon DEF StartCore, StartTun, TunFails, Verify, At
    <3> QED  BY <1>1, <2>2, <3>1, Zenon DEF Holding, Starting
  <2>11. CASE Connected(g)
    <3>1. /\ pc'[g] = "done" /\ job' = None /\ lineGeneration = g /\ loc \in Locations
          /\ UNCHANGED <<chosen, generation, lineGeneration, active>>
      BY <1>0, <2>11 DEF Connected, Done, At, Made, Served, Starting, TypeOK, SessionTypes
    <3>2. sessionLine'[1] = loc  BY <2>11, <3>1, New DEF Connected
    <3>3. ~chosen /\ Current(g) => loc = active  BY <2>11, Zenon DEF Connected, At, Named
    <3>4. \A h \in Gens : pc'[h] \notin Making  BY <2>3, <3>1, Zenon
    <3> QED  BY <3>1, <3>2, <3>3, <3>4, Zenon DEF Named, Current
  <2> QED
    BY <1>11, <2>4, <2>5, <2>6, <2>7, <2>8, <2>9, <2>b, <2>10, <2>11, Zenon DEF Request
<1> HIDE DEF Making, OnTry
<1> QED  BY <1>5, <1>6, <1>7, <1>8, <1>10, <1>11 DEF Next

-----------------------------------------------------------------------------
(* Who tries, and what a Disconnect leaves.                                  *)

(* A start that is overtaken while it holds the mutex has the newest request *)
(* waiting for it.                                                           *)
LEMMA NewestWaits ==
  ASSUME TypeOK, Locking, Served, Stopped, NEW g \in Gens, pc[g] \in Starting \cup {"change"},
         ~Current(g)
  PROVE  generation # lineGeneration /\ pc[generation] = "wait"
<1> USE NoneAssumption, BoundsAssumption
<1>1. generation \in 0..MaxRequests /\ pc \in [Gens -> Places]  BY Zenon DEF TypeOK, RequestTypes
<1>2. generation \in Gens /\ req[generation] \in {"start", "stop"} /\ pc[generation] # "none"
  BY <1>1 DEF TypeOK, RequestTypes, Starting
<1>3. pc[generation] \notin Holding /\ generation # lineGeneration
  BY <1>2 DEF Locking, Served, Current, Holding
<1>4. pc[generation] \in {"wait", "done"}  BY <1>1, <1>2, <1>3, Zenon DEF Places, Holding, Starting
<1>5. CASE req[generation] = "start"  BY <1>2, <1>3, <1>4, <1>5 DEF Served
<1>6. CASE req[generation] = "stop"  BY <1>2, <1>3, <1>4, <1>6 DEF Stopped, Holding
<1> QED  BY <1>2, <1>5, <1>6, Zenon

(* "Reconnecting" is left to somebody who goes on with it.                   *)
LEMMA ReconnectingStep ==
  ASSUME TypeOK, Locking, Served, Made, Tried, Reconnecting, Stopped, [Next]_vars PROVE Reconnecting'
<1> USE NoneAssumption, BoundsAssumption
<1>0. /\ pc \in [Gens -> Places] /\ jobs \in [Gens -> Job]
      /\ generation \in 0..MaxRequests /\ lineGeneration \in 0..generation
  BY Zenon DEF TypeOK, RequestTypes, WorkTypes
<1>1. ASSUME status' # "reconnecting" PROVE Reconnecting'  BY <1>1, Zenon DEF Reconnecting
<1>2. ASSUME NEW g \in Gens, pc'[g] \in Starting \cup {"change"} PROVE Reconnecting'
  BY <1>2, Zenon DEF Reconnecting
<1>3. ASSUME job' \in Gens, job' = generation', jobs'[job'].pc # "idle" PROVE Reconnecting'
  BY <1>3, Zenon DEF Reconnecting
<1>4. ASSUME UNCHANGED <<status, generation, lineGeneration, pc, job, jobs>> PROVE Reconnecting'
  BY <1>4, Zenon DEF Reconnecting
<1>5. CASE StartVpn \/ StopVpn
  <2>1. PICK verb \in {"start", "stop"} : Issue(verb)  BY <1>5 DEF StartVpn, StopVpn
  <2>2. /\ generation' = generation + 1 /\ generation' \in Gens /\ lineGeneration' = lineGeneration
        /\ pc' = [pc EXCEPT ![generation'] = "wait"]
    BY <1>0, <1>5, <2>1, SMTT(30) DEF Issue, StartVpn, StopVpn
  <2>3. generation' # lineGeneration' /\ pc'[generation'] = "wait"  BY <1>0, <2>2
  <2> QED  BY <2>3, Zenon DEF Reconnecting
<1>6. CASE CoreDies \/ TunDies \/ CoreWatch \/ TunWatch \/ UNCHANGED vars
  BY <1>4, <1>6 DEF CoreDies, TunDies, CoreWatch, TunWatch
<1>7. ASSUME NEW l, NEW f, Choose(l, f) PROVE Reconnecting'  BY <1>4, <1>7 DEF Choose
<1>8. ASSUME Reports PROVE Reconnecting'
  <2>1. ASSUME NEW r \in coreReports, CoreReport(r) PROVE Reconnecting'
    <3>1. r[2] \in Gens  BY <2>1, Zenon DEF TypeOK, WorkTypes
    <3>2. CASE UNCHANGED <<status, job, jobs>>  BY <1>4, <2>1, <3>2 DEF CoreReport
    <3>3. CASE Current(r[2]) /\ Launch(r[1], r[2], "wait")
      <4>1. job' = r[2] /\ jobs'[r[2]].pc = "wait"  BY <1>0, <3>1, <3>3, Zenon DEF Launch, Idle
      <4> QED  BY <1>3, <2>1, <3>1, <3>3, <4>1 DEF CoreReport, Current
    <3> QED  BY <2>1, <3>2, <3>3, Zenon DEF CoreReport
  <2>2. ASSUME NEW u, TunReport(u) PROVE Reconnecting'
    BY <1>1, <2>2, StopModeDoes, Zenon DEF TunReport
  <2>3. ASSUME NEW u, TunReportStale(u) PROVE Reconnecting'  BY <1>4, <2>3, Zenon DEF TunReportStale
  <2> QED  BY <1>8, <2>1, <2>2, <2>3 DEF Reports
<1>9. ASSUME NEW g \in Gens, UNCHANGED <<status, generation, lineGeneration, pc, job>>,
             NEW p, NEW new, new.pc = p, jobs' = [jobs EXCEPT ![g] = new],
             p = "idle" => ~(job = g /\ Current(g))
      PROVE  Reconnecting'
  <2>1. jobs'[g] = new /\ \A h \in Gens : h # g => jobs'[h] = jobs[h]  BY <1>0, <1>9, Zenon
  <2> QED  BY <1>9, <2>1, Zenon DEF Reconnecting, Current
<1>10. ASSUME NEW g \in Gens, Attempts(g) PROVE Reconnecting'
  <2> USE JobGoes DEF JobPlaces, J
  <2>0. CASE JobMove(g)
    <3>1. UNCHANGED <<status, generation, lineGeneration, pc, job>>  BY <2>0 DEF JobMove
    <3>2. PICK new : jobs' = [jobs EXCEPT ![g] = new] /\ (new.pc = "idle" => ~(job = g /\ Current(g)))
      BY <2>0, ZenonT(40) DEF JobMove
    <3> QED  BY <1>9, <3>1, <3>2, Zenon
  <2> SUFFICES ASSUME ~JobMove(g) PROVE Reconnecting'  BY <2>0
  <2>1. UNCHANGED <<pc, lineGeneration, generation>>  BY <1>10, Own, Zenon
  <2>2. ASSUME NEW p \in JobPlaces, JobTo(g, p), UNCHANGED <<status, job>>,
               p = "idle" => ~(job = g /\ Current(g))
        PROVE  Reconnecting'
    <3>1. PICK new \in Job : jobs' = [jobs EXCEPT ![g] = new] /\ new.pc = p  BY <2>2, Zenon DEF JobTo
    <3> QED  BY <1>9, <2>1, <2>2, <3>1, Zenon
  <2>3. CASE Confirm(g) /\ Mine(g) /\ run # None  BY <1>1, <2>3 DEF Confirm, Up
  <2>4. CASE Try(g) /\ Mine(g) /\ tunAlive  BY <2>2, <2>4, Zenon DEF Try
  <2>5. CASE Replace(g)  BY <2>2, <2>5 DEF Replace
  <2>6. CASE TrialFails(g) \/ TrialNotStored(g)  BY <2>2, <2>6 DEF TrialFails, TrialNotStored
  <2>7. CASE TrialMoves(g)  BY <2>2, <2>7 DEF TrialMoves
  <2>8. CASE Moved(g)
    <3>1. CASE Current(g)  BY <1>1, <2>8, <3>1 DEF Moved, Up
    <3>2. CASE ~Current(g)  BY <2>2, <2>8, <3>2 DEF Moved
    <3> QED  BY <3>1, <3>2
  <2>a. CASE MovedNotUp(g)
    <3>1. job' = g /\ jobs'[g].pc = "wait"  BY <1>0, <2>a, Zenon DEF MovedNotUp, Launch, Idle
    <3>2. g = generation'  BY <2>a DEF MovedNotUp, Current
    <3> QED  BY <1>3, <3>1, <3>2
  <2>9. CASE Restore(g) /\ Mine(g) /\ run = None  BY <2>2, <2>9 DEF Restore
  <2> QED
    BY <1>10, <2>3, <2>4, <2>5, <2>6, <2>7, <2>8, <2>a, <2>9, JobMoves DEF Attempts, Trial
<1>11. ASSUME NEW g \in Gens, Request(g) PROVE Reconnecting'
  <2>1. CASE Stop(g)  BY <1>1, <2>1, StopDoes, Zenon
  <2>2. CASE Superseded(g)
    <3>1. /\ UNCHANGED <<status, generation, lineGeneration, job, jobs>>
          /\ g # generation /\ pc' = [pc EXCEPT ![g] = "done"]
      BY <2>2, Zenon DEF Superseded, Done, Current
    <3>2. \A h \in Gens : pc[h] \notin Holding  BY <2>2 DEF Superseded, Lock, Locking
    <3>3. pc[generation] = "wait" /\ generation # lineGeneration => pc'[generation] = "wait"
      BY <1>0, <3>1, SMTT(30)
    <3> QED  BY <3>1, <3>2, <3>3 DEF Reconnecting, Holding
  <2>3. CASE ChangeLine(g)
    <3>1. pc'[g] = "change"  BY <1>0, <2>3, Zenon DEF ChangeLine, On
    <3> QED  BY <1>2, <3>1
  <2>4. CASE Changed(g)
    <3>1. CASE Current(g)
      <4>1. PICK at \in {"wait", "confirm"} : Launch(sessionLine, g, at)  BY <2>4, <3>1 DEF Changed
      <4>2. job' = g /\ jobs'[g].pc = at  BY <1>0, <4>1, Zenon DEF Launch, Idle
      <4> QED  BY <1>3, <2>4, <3>1, <4>2 DEF Changed, Current
    <3>2. CASE ~Current(g)
      <4>1. generation # lineGeneration /\ pc[generation] = "wait"
        BY <2>4, <3>2, NewestWaits DEF Changed, At
      <4>2. pc'[generation'] = "wait" /\ generation' # lineGeneration'
        BY <1>0, <2>4, <3>2, <4>1 DEF Changed, Done, Current
      <4> QED  BY <4>2 DEF Reconnecting
    <3> QED  BY <3>1, <3>2
  <2>5. CASE Restart(g) \/ Failed(g)
    <3>1. PICK s \in {"error", "stopping"} : StopMode(FALSE, s)  BY <2>5, ZenonT(40) DEF Failed, Restart
    <3> QED  BY <1>1, <3>1, StopModeDoes, Zenon
  <2>6. CASE Begin(g)
    <3>1. CASE Current(g)
      <4>1. pc'[g] = "core"  BY <1>0, <2>6, <3>1 DEF Begin, On
      <4> QED  BY <1>2, <4>1, Zenon DEF Starting
    <3>2. CASE ~Current(g)  BY <1>1, <2>6, <3>2 DEF Begin, At, Made
    <3> QED  BY <3>1, <3>2, Zenon
  <2>b. CASE NoLocation(g)  BY <1>1, <2>b DEF NoLocation, Shown
  <2>7. CASE StartCore(g) \/ StartTun(g) \/ TunFails(g) \/ Verify(g)
    <3>1. pc'[g] \in {"tun", "verify", "up", "fail"}
      BY <1>0, <2>7 DEF StartCore, StartTun, TunFails, Verify, On, Fails
    <3> QED  BY <1>2, <3>1 DEF Starting
  <2>8. CASE Connected(g)  BY <1>1, <2>8, Zenon DEF Connected, Up
  <2> QED
    BY <1>11, <2>1, <2>2, <2>3, <2>4, <2>5, <2>6, <2>b, <2>7, <2>8 DEF Request
<1> QED  BY <1>5, <1>6, <1>7, <1>8, <1>10, <1>11, Zenon DEF Next

(* A Disconnect that got through leaves nothing behind.                      *)
LEMMA StoppedStep ==
  ASSUME TypeOK, Locking, Served, Made, Tried, Cores, Stopped, [Next]_vars PROVE Stopped'
<1> USE NoneAssumption, BoundsAssumption
<1>0. pc \in [Gens -> Places] /\ generation \in 0..MaxRequests /\ lineGeneration \in 0..generation
  BY DEF TypeOK, RequestTypes
<1>1. ASSUME UNCHANGED <<sessionLine, tun, status, generation, req, pc>>, run' \in {run, None}
      PROVE  Stopped'
  BY <1>1, Zenon DEF Stopped
<1>2. CASE StartVpn \/ StopVpn
  <2>1. PICK verb \in {"start", "stop"} : Issue(verb)  BY <1>2 DEF StartVpn, StopVpn
  <2>2. generation' \in Gens /\ pc' = [pc EXCEPT ![generation'] = "wait"]  BY <1>0, <2>1, SMTT(30) DEF Issue
  <2> QED  BY <1>0, <2>2, Zenon DEF Stopped
<1>3. CASE CoreDies \/ TunDies \/ CoreWatch \/ TunWatch \/ UNCHANGED vars
  BY <1>1, <1>3 DEF CoreDies, TunDies, CoreWatch, TunWatch
<1>4. ASSUME NEW l, NEW f, Choose(l, f) PROVE Stopped'  BY <1>1, <1>4, Zenon DEF Choose
<1>5. ASSUME Reports PROVE Stopped'
  <2>1. ASSUME NEW r \in coreReports, CoreReport(r) PROVE Stopped'
    <3>1. r[1] # None  BY <2>1 DEF TypeOK, WorkTypes
    <3>2. UNCHANGED <<sessionLine, run, tun, generation, req, pc>>
          /\ (sessionLine # None \/ status' = status)
      BY <2>1, <3>1 DEF CoreReport
    <3> QED  BY <3>2, Zenon DEF Stopped
  <2>2. ASSUME NEW u, TunReport(u) PROVE Stopped'
    <3>1. lineGeneration = generation /\ UNCHANGED <<generation, req>>  BY <2>2 DEF TunReport
    <3> QED  BY <1>0, <3>1, Zenon DEF Stopped, Served
  <2>3. ASSUME NEW u, TunReportStale(u) PROVE Stopped'  BY <1>1, <2>3 DEF TunReportStale
  <2> QED  BY <1>5, <2>1, <2>2, <2>3, Zenon DEF Reports
<1>6. ASSUME NEW g \in Gens, Attempts(g) PROVE Stopped'
  <2>1. CASE JobMove(g)  BY <1>1, <2>1 DEF JobMove
  <2>2. CASE ~JobMove(g)
    <3>1. sessionLine # None /\ UNCHANGED <<generation, req, pc>>  BY <1>6, <2>2, Own, Zenon
    <3> QED  BY <3>1 DEF Stopped
  <2> QED  BY <2>1, <2>2, Zenon
<1>7. ASSUME NEW g \in Gens, Request(g) PROVE Stopped'
  <2>1. PICK p \in Holding \cup {"done"} : pc' = [pc EXCEPT ![g] = p]
    BY <1>7, RequestMoves, Zenon DEF RequestMove
  <2>2. /\ \A h \in Gens : h # g => pc[h] \notin Holding /\ pc'[h] \notin Holding
        /\ UNCHANGED <<generation, req>>
    <3>1. UNCHANGED <<generation, req>>
      BY <1>7, Zenon DEF Request, Stop, Superseded, ChangeLine, Changed, Restart, Begin, NoLocation, StartCore,
                  StartTun, TunFails, Verify, Connected, Failed
    <3> QED  BY <1>7, <3>1, RequestMoves, Zenon DEF RequestMove
  <2>3. CASE Stop(g)
    <3>1. /\ sessionLine' = None /\ tun' = 0 /\ status' \in {"off", "held"}
          /\ run' = None \/ (run' = run /\ sessionLine = None)
      BY <2>3, StopDoes
    <3>2. pc[g] = "wait" /\ pc'[g] = "done"  BY <1>0, <2>3, Zenon DEF Stop, Lock, Done
    <3>3. \A h \in Gens : pc[h] \notin Starting  BY <2>2, <3>2, Zenon DEF Holding, Starting
    <3>4. run' = None  BY <3>1, <3>3, Zenon DEF Cores
    <3> QED  BY <2>2, <3>1, <3>2, <3>4 DEF Stopped, Holding, Starting
  <2>4. CASE Superseded(g)
    <3>1. UNCHANGED <<sessionLine, tun, status, run>> /\ g # generation /\ pc'[g] = "done"
      BY <1>0, <2>4 DEF Superseded, Done, Current
    <3>2. generation > 0 => pc'[generation] = pc[generation]  BY <1>0, <2>1, <3>1, SMTT(30)
    <3> QED  BY <2>2, <3>1, <3>2, Zenon DEF Stopped, Holding, Starting
  <2>5. ASSUME req[g] = "start", Current(g) PROVE Stopped'  BY <2>2, <2>5, Zenon DEF Current, Stopped
  <2>6. ASSUME pc[g] \in Holding PROVE Stopped'
    <3>1. CASE Current(g)  BY <2>5, <2>6, <3>1, Zenon DEF Served
    <3>2. CASE ~Current(g)
      <4>1. generation > 0 => pc'[generation] = pc[generation]  BY <1>0, <2>1, <3>2 DEF Current
      <4> QED  BY <2>2, <2>6, <4>1, Zenon DEF Stopped
    <3> QED  BY <3>1, <3>2, Zenon
  <2>7. CASE ChangeLine(g) \/ Restart(g)  BY <2>5, <2>7, ZenonT(40) DEF ChangeLine, Restart
  <2>8. CASE Begin(g) \/ NoLocation(g)  BY <2>5, <2>6, <2>8 DEF Begin, NoLocation, At, Holding
  <2>9. CASE Changed(g) \/ StartCore(g) \/ StartTun(g) \/ TunFails(g) \/ Verify(g) \/ Connected(g)
               \/ Failed(g)
    BY <2>6, <2>9, Zenon DEF Changed, StartCore, StartTun, TunFails, Verify, Connected, Failed, At, Holding,
                      Starting
  <2> QED
    BY <1>7, <2>3, <2>4, <2>7, <2>8, <2>9 DEF Request
<1> QED  BY <1>2, <1>3, <1>4, <1>5, <1>6, <1>7 DEF Next

-----------------------------------------------------------------------------
(* The block.                                                                *)

(* A stop keeps a block that is owed, and leaves none that is not said.      *)
LEMMA StopBlocks ==
  ASSUME TypeOK, Blocked, NEW final \in BOOLEAN, NEW s \in {"off", "error", "stopping"},
         StopMode(final, s)
  PROVE  /\ status' \in {"off", "error"} => tun' = 0 /\ ~block'
         /\ block' => held'
         /\ held' => sessionLine' = None
         /\ owed' => block' /\ ks' /\ held'
<1>1. /\ sessionLine' = None /\ tun' = 0
      /\ status' = IF held' /\ s # "stopping" THEN "held" ELSE s
  BY StopModeDoes
<1>2. ks' = ks /\ (held => block)  BY Zenon DEF StopMode, TypeOK, SwitchTypes
<1>3. CASE KeepsBlock(final)
  <2>1. held' = TRUE /\ block' = block  BY <1>3, Zenon DEF StopMode
  <2>2. owed' => owed  BY Zenon DEF StopMode
  <2> QED  BY <1>1, <1>2, <2>1, <2>2, Zenon DEF Blocked
<1>4. CASE ~KeepsBlock(final)
  <2>1. held' = block'  BY <1>4, Zenon DEF StopMode, LeftStanding
  <2>2. ~owed'
    <3>1. CASE held
      <4>1. sessionLine = None  BY <3>1, Zenon DEF Blocked
      <4> QED  BY <1>4, <3>1, <4>1, Zenon DEF KeepsBlock
    <3>2. CASE ~held
      <4> SUFFICES ASSUME owed' PROVE FALSE  BY Zenon
      <4>1. owed /\ ~final  BY <3>2, ZenonT(40) DEF StopMode
      <4>2. sessionLine # None /\ tun # 0 /\ ~tunAlive /\ started /\ block /\ ks
        BY <3>2, <4>1, Zenon DEF Blocked
      <4> QED  BY <1>4, <4>1, <4>2, Zenon DEF KeepsBlock
    <3> QED  BY <3>1, <3>2, Zenon
  <2> QED  BY <1>1, <2>1, <2>2, Zenon
<1> QED  BY <1>3, <1>4, Zenon

(* A block that is owed stands, and a block that stands is said.             *)
LEMMA BlockedStep ==
  ASSUME TypeOK, Locking, Served, Made, Tried, Blocked, [Next]_vars PROVE Blocked'
<1> USE NoneAssumption, BoundsAssumption
<1>0. pc \in [Gens -> Places]  BY Zenon DEF TypeOK, RequestTypes
<1>1. ASSUME UNCHANGED <<tun, tunAlive, ks, started, held, block, owed>>,
             sessionLine' = sessionLine \/ (sessionLine # None /\ sessionLine' # None),
             status' = status \/ status' \in {"connected", "connecting", "reconnecting"},
             \A g \in Gens : pc'[g] \in {"verify", "up"} => pc[g] \in {"verify", "up"}
      PROVE  Blocked'
  BY <1>1, Zenon DEF Blocked
<1>2. ASSUME NEW final \in BOOLEAN, NEW s \in {"off", "error", "stopping"}, StopMode(final, s),
             \A g \in Gens : pc'[g] \notin {"verify", "up"}
      PROVE  Blocked'
  <2>1. /\ status' \in {"off", "error"} => tun' = 0 /\ ~block'
        /\ block' => held'
        /\ held' => sessionLine' = None
        /\ owed' => block' /\ ks' /\ held'
    BY <1>2, StopBlocks, Zenon
  <2> QED  BY <1>2, <2>1, Zenon DEF Blocked
<1>3. CASE StartVpn \/ StopVpn
  <2>1. PICK verb \in {"start", "stop"} : Issue(verb)  BY <1>3, Zenon DEF StartVpn, StopVpn
  <2>2. generation' \in Gens /\ pc' = [pc EXCEPT ![generation'] = "wait"]
    <3>1. /\ generation < MaxRequests /\ generation' = generation + 1
          /\ pc' = [pc EXCEPT ![generation'] = "wait"]
      BY <2>1, Zenon DEF Issue
    <3>2. generation \in 0..MaxRequests  BY DEF TypeOK, RequestTypes
    <3> QED  BY ONLY <3>1, <3>2, BoundsAssumption
  <2> QED  BY <1>0, <1>1, <1>3, <2>2 DEF StartVpn, StopVpn
<1>4. CASE CoreDies \/ CoreWatch \/ TunWatch \/ UNCHANGED vars
  BY <1>1, <1>4 DEF CoreDies, CoreWatch, TunWatch
<1>5. CASE TunDies
  <2>1. tun # 0 /\ ~tunAlive'  BY <1>5 DEF TunDies, TypeOK, SessionTypes
  <2>2. UNCHANGED <<pc, status, tun, sessionLine, ks, started, held, block>>  BY <1>5, Zenon DEF TunDies
  <2>3. owed' => owed \/ (sessionLine # None /\ ks /\ started /\ block)  BY <1>5, ZenonT(40) DEF TunDies
  <2> QED  BY <2>1, <2>2, <2>3, Zenon DEF Blocked
<1>6. ASSUME NEW l, NEW f, Choose(l, f) PROVE Blocked'  BY <1>1, <1>6, Zenon DEF Choose
<1>7. ASSUME Reports PROVE Blocked'
  <2>1. mutex = None /\ pc' = pc  BY <1>7, Zenon DEF Reports, CoreReport, TunReport, TunReportStale
  <2>2. \A g \in Gens : pc'[g] \notin {"verify", "up"}
    <3>1. \A g \in Gens : mutex # <<"request", g>>  BY ONLY <2>1, NoneAssumption
    <3> QED  BY <2>1, <3>1, Zenon DEF Locking, Holding, Starting
  <2>3. ASSUME NEW r \in coreReports, CoreReport(r) PROVE Blocked'
    BY <1>1, <2>3 DEF CoreReport
  <2>4. ASSUME NEW u, TunReport(u) PROVE Blocked'  BY <1>2, <2>2, <2>4, ZenonT(40) DEF TunReport
  <2>5. ASSUME NEW u, TunReportStale(u) PROVE Blocked'  BY <1>1, <2>5 DEF TunReportStale
  <2> QED  BY <1>7, <2>3, <2>4, <2>5, Zenon DEF Reports
<1>8. ASSUME NEW g \in Gens, Attempts(g) PROVE Blocked'
  <2> USE DEF J
  <2>0. CASE JobMove(g)  BY <1>1, <2>0 DEF JobMove
  <2> SUFFICES ASSUME ~JobMove(g) PROVE Blocked'  BY <2>0, Zenon
  <2>1. /\ sessionLine # None /\ jobs[g].pc # "idle" /\ UNCHANGED <<pc, tun, tunAlive>>
        /\ \A h \in Gens : pc[h] \notin Holding
    BY <1>8, Own
  <2>2. ~held /\ (owed => block /\ ks /\ tun # 0 /\ ~tunAlive /\ started)  BY <2>1 DEF Blocked
  <2>3. ASSUME status' = "connected", held' = FALSE, owed' = (owed /\ ~tunAlive),
               UNCHANGED <<sessionLine, ks, started, block>>
        PROVE  Blocked'
    BY <2>1, <2>2, <2>3, Zenon DEF Blocked, Holding, Starting
  <2>4. CASE Confirm(g) /\ Mine(g) /\ run # None  BY <2>3, <2>4, ZenonT(40) DEF Confirm, Up
  <2>5. CASE Try(g) /\ Mine(g) /\ tunAlive
    <3>1. sessionLine' # None  BY <2>5, Zenon DEF Try, Take, Tried
    <3> QED  BY <1>1, <2>1, <2>5, <3>1, Zenon DEF Try
  <2>6. CASE Replace(g)
    <3>1. sessionLine' # None  BY <2>1, <2>6 DEF Replace, Back, Tried
    <3> QED  BY <1>1, <2>1, <2>6, <3>1 DEF Replace
  <2>7. CASE TrialFails(g) \/ TrialNotStored(g)
    <3>1. sessionLine' # None  BY <2>1, <2>7 DEF TrialFails, TrialNotStored, Back, Tried
    <3> QED  BY <1>1, <2>1, <2>7, <3>1 DEF TrialFails, TrialNotStored
  <2>8. CASE TrialMoves(g)  BY <1>1, <2>8 DEF TrialMoves
  <2>9. CASE Moved(g)
    <3>1. CASE Current(g)  BY <2>3, <2>9, <3>1, ZenonT(40) DEF Moved, Up
    <3>2. CASE ~Current(g)  BY <1>1, <2>9, <3>2 DEF Moved
    <3> QED  BY <3>1, <3>2
  <2>a. CASE MovedNotUp(g)  BY <1>1, <2>a DEF MovedNotUp
  <2>10. CASE Restore(g) /\ Mine(g) /\ run = None  BY <1>1, <2>10 DEF Restore
  <2> QED
    BY <1>8, <2>4, <2>5, <2>6, <2>7, <2>8, <2>9, <2>a, <2>10, JobMoves, Zenon DEF Attempts, Trial
<1>9. ASSUME NEW g \in Gens, Request(g) PROVE Blocked'
  <2>1. PICK p \in Holding \cup {"done"} : pc' = [pc EXCEPT ![g] = p]
    BY <1>9, RequestMoves, Zenon DEF RequestMove
  <2>2. \A h \in Gens : h # g => pc'[h] \notin Holding
    BY <1>9, RequestMoves, Zenon DEF RequestMove
  <2>3. ASSUME pc'[g] \notin {"verify", "up"} PROVE \A h \in Gens : pc'[h] \notin {"verify", "up"}
    BY <2>2, <2>3, Zenon DEF Holding, Starting
  <2>4. CASE Stop(g)
    <3>1. \A h \in Gens : pc'[h] \notin {"verify", "up"}  BY <1>0, <2>3, <2>4 DEF Stop, Done
    <3>2. CASE StopMode(TRUE, "off")  BY <1>2, <3>1, <3>2, Zenon
    <3>3. CASE ~StopMode(TRUE, "off")
      <4>1. tun = 0 /\ sessionLine' = None /\ UNCHANGED <<tun, status, ks, started, held, block, owed>>
        BY <2>4, <3>3, Zenon DEF Stop
      <4> QED  BY <3>1, <4>1 DEF Blocked
    <3> QED  BY <3>2, <3>3, Zenon
  <2>5. CASE Restart(g) \/ Failed(g)
    <3>1. PICK s \in {"error", "stopping"} : StopMode(FALSE, s)  BY <2>5, Zenon DEF Failed, Restart
    <3>2. pc'[g] \in {"restart", "done"}  BY <1>0, <2>5, ZenonT(40) DEF Failed, Restart, On, Done
    <3> QED  BY <1>2, <2>3, <3>1, <3>2, ZenonT(40)
  <2>6. CASE Superseded(g) \/ Changed(g) \/ StartCore(g)
    <3>1. pc'[g] \notin {"verify", "up"}
      BY <1>0, <2>6, Zenon DEF Superseded, Changed, StartCore, Done, On, Fails
    <3> QED  BY <1>1, <2>3, <2>6, <3>1 DEF Superseded, Changed, StartCore
  <2>7. CASE ChangeLine(g)
    <3>1. NewLine(active) \in Lines  BY New, Zenon DEF TypeOK, SessionTypes
    <3>2. pc'[g] = "change" /\ sessionLine # None /\ sessionLine' # None /\ status' = "reconnecting"
      BY <1>0, <2>7, <3>1 DEF ChangeLine, On, Take, BehindTun
    <3> QED  BY <1>1, <2>3, <2>7, <3>2, Zenon DEF ChangeLine
  <2>8. CASE Begin(g)
    <3>1. pc'[g] \in {"core", "done"}  BY <1>0, <2>8 DEF Begin, On, Done
    <3>2. status' = status \/ status' \in {"connecting", "reconnecting"}  BY <2>8 DEF Begin
    <3> QED  BY <1>1, <2>3, <2>8, <3>1, <3>2 DEF Begin
  <2>b. CASE NoLocation(g)
    <3>1. tun = 0 /\ status \notin {"connected", "connecting", "reconnecting"}
      BY <2>b DEF NoLocation, At, InSession, Made
    <3>2. block => held  BY <3>1, Zenon DEF Blocked
    <3>3. UNCHANGED <<sessionLine, tun, tunAlive, ks, started, held, block, owed>>
      BY <2>b, Zenon DEF NoLocation
    <3>4. status' = IF held THEN "held" ELSE "error"  BY <2>b, <3>1, Zenon DEF NoLocation, Shown
    <3>5. \A h \in Gens : pc'[h] \notin {"verify", "up"}  BY <1>0, <2>3, <2>b DEF NoLocation, Done
    <3>6. status' \in {"off", "error"} => tun' = 0 /\ ~block'  BY <3>1, <3>2, <3>3, <3>4, Zenon
    <3> QED  BY <3>2, <3>3, <3>5, <3>6, Zenon DEF Blocked
  <2>9. ASSUME At(g, "tun") \/ At(g, "verify") \/ At(g, "up")
        PROVE  /\ sessionLine = None /\ status \in {"connecting", "reconnecting"}
               /\ owed => held /\ block /\ ks
    BY <2>9 DEF At, Made, Starting, Blocked
  <2>10. CASE StartTun(g)
    <3>1. /\ started' = (ks \/ held) /\ block' = started' /\ held' = (held /\ started')
          /\ UNCHANGED <<sessionLine, status, ks, owed>>
      BY <2>10 DEF StartTun
    <3>2. ks \in BOOLEAN /\ held \in BOOLEAN  BY DEF TypeOK, SwitchTypes
    <3>3. ks => started'  BY <3>1, <3>2, Zenon
    <3>4. sessionLine = None /\ status \in {"connecting", "reconnecting"} /\ (owed => held /\ block /\ ks)
      BY <2>9, <2>10 DEF StartTun
    <3>5. owed' => block' /\ ks' /\ held'  BY <3>1, <3>2, <3>4, ZenonT(40)
    <3> QED  BY <3>1, <3>3, <3>4, <3>5 DEF Blocked
  <2>11. CASE TunFails(g)
    <3>1. /\ started' = (ks \/ held) /\ block' \in {block, started'}
          /\ UNCHANGED <<sessionLine, status, ks, held, owed>>
      BY <2>11 DEF TunFails
    <3>2. pc'[g] = "fail"  BY <1>0, <2>11 DEF TunFails, Fails
    <3>3. \A h \in Gens : pc'[h] \notin {"verify", "up"}  BY <2>3, <3>2, Zenon
    <3>4. sessionLine = None /\ status \in {"connecting", "reconnecting"} /\ (owed => held /\ block /\ ks)
      BY <2>9, <2>11 DEF TunFails
    <3>5. owed' => block' /\ ks' /\ held'  BY <3>1, <3>4, ZenonT(40)
    <3> QED  BY <3>1, <3>3, <3>4, <3>5 DEF Blocked
  <2>12. CASE Verify(g)
    <3>1. pc[g] = "verify"  BY <2>12, Zenon DEF Verify, At
    <3> QED  BY <1>1, <2>2, <2>12, <3>1 DEF Verify, Holding, Starting
  <2>13. CASE Connected(g)
    <3>1. loc \in Locations /\ tun # 0 /\ pc[g] = "up" /\ pc'[g] = "done"
      BY <1>0, <2>13 DEF Connected, At, Made, Done, TypeOK, SessionTypes
    <3>2. sessionLine' # None  BY <2>13, <3>1, New DEF Connected
    <3>3. \A h \in Gens : pc'[h] \notin {"verify", "up"}  BY <2>3, <3>1
    <3>4. /\ status' = "connected" /\ held' = FALSE /\ owed' = (owed /\ ~tunAlive)
          /\ UNCHANGED <<tun, tunAlive, ks, started, block>>
      BY <2>13 DEF Connected, Up
    <3>5. owed => block /\ ks /\ started  BY <2>9, <2>13, <3>1 DEF Connected, Blocked
    <3> QED  BY <3>1, <3>2, <3>3, <3>4, <3>5, ZenonT(40) DEF Blocked
  <2> QED
    BY <1>9, <2>4, <2>5, <2>6, <2>7, <2>8, <2>b, <2>10, <2>11, <2>12, <2>13 DEF Request
<1> QED  BY <1>3, <1>4, <1>5, <1>6, <1>7, <1>8, <1>9 DEF Next

-----------------------------------------------------------------------------
(* The theorems.                                                             *)

(* The manager starts with nothing in hand.                                  *)
LEMMA InitIInv == Init => IInv
<1> SUFFICES ASSUME Init PROVE IInv  BY Zenon
<1> USE NoneAssumption, BoundsAssumption DEF Init
<1>1. Idle \in Job /\ Idle.pc = "idle"  BY DEF Idle, Job, JobPlaces
<1>2. \A g \in Gens : jobs[g].pc = "idle" /\ pc[g] = "none"  BY <1>1, Zenon
<1>3. RequestTypes
  <2>1. req \in [Gens -> {None, "start", "stop"}] /\ pc \in [Gens -> Places]  BY Zenon DEF Places
  <2>2. \A g \in Gens : pc[g] = "none" /\ req[g] = None /\ g > generation  OBVIOUS
  <2> QED  BY <2>1, <2>2 DEF RequestTypes
<1>4. SessionTypes /\ SwitchTypes
  <2>1. tunAlive => tun # 0  BY Zenon
  <2>2. /\ started \in BOOLEAN /\ held \in BOOLEAN /\ block \in BOOLEAN /\ owed \in BOOLEAN
        /\ (held => block) /\ tunAlive \in BOOLEAN /\ chosen \in BOOLEAN /\ fits \in BOOLEAN
    BY ZenonT(40)
  <2>3. SessionTypes  BY <2>1, <2>2, Zenon DEF SessionTypes
  <2>4. SwitchTypes  BY <2>2 DEF SwitchTypes
  <2> QED  BY <2>3, <2>4, Zenon
<1>5. WorkTypes  BY <1>1, FS_EmptySet, Zenon DEF WorkTypes
<1>6. Locking /\ Made /\ Tried  BY <1>2, SMTT(30) DEF Locking, Made, Tried, Holding, Starting
<1>7. Served /\ Cores /\ Named  BY <1>2, SMTT(30) DEF Served, Cores, Named, Holding, Starting
<1>8. Reconnecting /\ Stopped /\ Blocked  BY <1>2, SMTT(30) DEF Reconnecting, Stopped, Blocked
<1> QED  BY <1>3, <1>4, <1>5, <1>6, <1>7, <1>8, Zenon DEF IInv, TypeOK

(* Every step keeps the inductive invariant.                                 *)
LEMMA IInvStep == IInv /\ [Next]_vars => IInv'
BY TypeStep, LockingStep, ServedStep, MadeStep, TriedStep, CoresStep, NamedStep, ReconnectingStep,
   StoppedStep, BlockedStep, Zenon DEF IInv

(* The inductive invariant holds throughout.                                 *)
LEMMA Invariance == Spec => []IInv
BY InitIInv, IInvStep, PTL DEF Spec

(* With every request through, a session is the newest request's.            *)
LEMMA NewestIsTheLines ==
  ASSUME TypeOK, Served, Stopped, Settled, sessionLine # None PROVE Current(lineGeneration)
<1>1. generation \in 0..MaxRequests /\ lineGeneration \in 0..generation
  BY Zenon DEF TypeOK, RequestTypes
<1>2. CASE generation = 0  BY <1>1, <1>2 DEF Current
<1>3. CASE generation \in Gens
  <2>1. req[generation] \in {"start", "stop"} /\ pc[generation] = "done"
    BY <1>3, BoundsAssumption DEF TypeOK, RequestTypes, Settled
  <2> QED  BY <1>3, <2>1 DEF Served, Stopped, Current
<1> QED  BY <1>1, <1>2, <1>3, BoundsAssumption

(* Types: what the coroutines leave in the manager is of the kind the next   *)
(* one expects, however many requests, processes and reports there were.     *)
THEOREM Types == Spec => []TypeOK
<1>1. IInv => TypeOK  BY Zenon DEF IInv
<1> QED  BY <1>1, Invariance, PTL

(* Connected is on the line it says and on the one the store names.          *)
THEOREM SessionOnItsLine == Spec => []OnItsLine
<1>1. IInv => OnItsLine
  <2> SUFFICES ASSUME IInv, status = "connected", mutex = None
               PROVE  /\ sessionLine # None /\ run \in {None, sessionLine[1]}
                      /\ Settled /\ ~chosen => active = sessionLine[1]
    BY Zenon DEF OnItsLine
  <2>1. sessionLine # None  BY Zenon DEF IInv, Made
  <2>2. \A g \in Gens : pc[g] \notin Holding /\ jobs[g].pc \notin {"replace", "moved"}
    BY NoneAssumption DEF IInv, TypeOK, RequestTypes, Locking
  <2>3. run \in {None, sessionLine[1]}  BY <2>1, <2>2, Zenon DEF IInv, Cores, Holding
  <2>4. ASSUME Settled, ~chosen PROVE active = sessionLine[1]
    <3>1. Current(lineGeneration)  BY <2>1, <2>4, NewestIsTheLines, Zenon DEF IInv
    <3>2. job \notin Gens  BY NoneAssumption, Zenon DEF IInv, Made
    <3> QED  BY <2>1, <2>4, <3>1, <3>2, Zenon DEF IInv, Named
  <2> QED  BY <2>1, <2>3, <2>4, Zenon
<1> QED  BY <1>1, Invariance, PTL

(* Reconnecting is never said with nobody trying.                            *)
THEOREM SomebodyAlwaysTries == Spec => []SomebodyTries
<1>1. IInv => SomebodyTries
  <2> SUFFICES ASSUME IInv, status = "reconnecting", Settled
               PROVE  /\ job # None /\ jobs[job].pc # "idle" /\ Current(job)
                      /\ sessionLine \in {jobs[job].line, jobs[job].next}
    BY Zenon DEF SomebodyTries
  <2>1. \A g \in Gens : pc[g] \notin Starting \cup {"change"}  BY Zenon DEF Settled, Starting
  <2>2. generation # lineGeneration => generation \in Gens
    BY BoundsAssumption DEF IInv, TypeOK, RequestTypes
  <2>3. ~(generation # lineGeneration /\ pc[generation] = "wait")  BY <2>2, Zenon DEF Settled
  <2>4. job \in Gens /\ job = generation /\ jobs[job].pc # "idle"
    BY <2>1, <2>3, Zenon DEF IInv, Reconnecting
  <2> QED  BY <2>4, NoneAssumption, Zenon DEF IInv, Tried, Current
<1> QED  BY <1>1, Invariance, PTL

(* The kill switch's block stands from a verified session's tunnel's death   *)
(* on.                                                                       *)
THEOREM BlockHeldAfterDeath == Spec => []HeldAfterDeath
<1>1. IInv => HeldAfterDeath  BY Zenon DEF IInv, Blocked, HeldAfterDeath
<1> QED  BY <1>1, Invariance, PTL

(* Neither "disconnected" nor an error is shown over a machine whose traffic *)
(* is held, whoever holds the mutex.                                         *)
THEOREM StandingBlockIsSaid == Spec => []BlockIsSaid
<1>1. IInv => BlockIsSaid  BY Zenon DEF IInv, Blocked, BlockIsSaid
<1> QED  BY <1>1, Invariance, PTL

(* A Disconnect has the last word.                                           *)
THEOREM DisconnectWins == Spec => []StopWins
<1>1. IInv => StopWins
  <2> SUFFICES ASSUME IInv, Settled, generation > 0, req[generation] = "stop"
               PROVE  /\ status \in {"off", "held"} /\ tun = 0 /\ run = None /\ sessionLine = None
    BY Zenon DEF StopWins
  <2>1. generation \in Gens  BY BoundsAssumption, SMTT(30) DEF IInv, TypeOK, RequestTypes
  <2>2. pc[generation] = "done"
    BY <2>1, NoneAssumption DEF IInv, TypeOK, RequestTypes, Settled
  <2> QED  BY <2>2, Zenon DEF IInv, Stopped
<1> QED  BY <1>1, Invariance, PTL
=============================================================================
