---------------------------- MODULE DaemonProofs ----------------------------
(***************************************************************************)
(* What is proved about Daemon, for any sets of handlers, loops and        *)
(* selections and any failures.  The inductive invariant has the types, who*)
(* may touch a connect loop and what the goroutines inside connectMu and the*)
(* loops hold; then what stands in the kernel, and what the daemon says of *)
(* it.  Most of a step is a frame: OutsideMove and LoopMove say once what  *)
(* the steps outside connectMu and the steps of a loop leave alone, so that*)
(* each part of the invariant is argued only for the actions that can      *)
(* disturb it.                                                             *)
(***************************************************************************)
EXTENDS Daemon, TLAPS

\* connectMu is held by the goroutine that is inside it, and by no other.
Mutex == \A p \in Procs : pc[p] \in Locked <=> connectMu = p

\* A loop that lives can be cancelled, or has been and is being waited for.
Known ==
  \A l \in Loops : Live(l) =>
    loopDone = l \/ \E p \in Procs : connectMu = p /\ pc[p] = "await" /\ done[p] = l

\* Who is inside connectMu has taken the loop away from d, or is comparing.
Taken == \A p \in Procs : pc[p] \in Locked \ Comparing => loopDone = NoLoop

\* No process, no goroutines.
Dead ==
  proc # "running" =>
    /\ ~ksOn /\ connectMu = Free
    /\ \A p \in Procs : pc[p] = "idle"
    /\ \A l \in Loops : ~Live(l)

\* Who may touch a loop.
Control == Mutex /\ Known /\ Taken /\ Dead

\* What a step outside connectMu, or of a comparison, does to what is inside.
OutsideMove(p) ==
  /\ OutsideFrame
  /\ proc = "running" \/ pc[p] # "idle"
  /\ \/ pc[p] \in Outside /\ pc'[p] \in Outside
     \/ pc[p] \in Comparing /\ pc'[p] \in Comparing
  /\ \A q \in Procs \ {p} : pc'[q] = pc[q] /\ verb'[q] = verb[q] /\ arg'[q] = arg[q]

\* What a step of a loop does to the others.
LoopMove(l) ==
  /\ UNCHANGED <<proc, connectMu, sel, loopDone, ksOn, pc, localVars, ksIn>>
  /\ Live(l)
  /\ lpc'[l] # "none" => lsel'[l] = lsel[l]
  /\ \A m \in Loops \ {l} : /\ lpc'[m] = lpc[m] /\ lsel'[m] = lsel[m]
                            /\ eng'[m] = eng[m] /\ front'[m] = front[m] /\ lown'[m] = lown[m]

\* What a goroutine is to start, at each of its labels.
Arguments ==
  \A p \in Procs :
    /\ verb[p] = "connect" => arg[p] \in Selections
    /\ pc[p] \in {"idle", "serving", "exit", "clone"} \/ ~Starting(p) => arg[p] = None
    /\ pc[p] \in Locked /\ Starting(p) => arg[p] \in Selections
    /\ pc[p] = "install" => Starting(p) /\ arg[p] \in KillSwitch
    /\ pc[p] = "takeOut" => arg[p] \notin KillSwitch
    /\ pc[p] = "spawn" => Starting(p) /\ (arg[p] \in KillSwitch <=> ksOn)

\* What a loop holds at each of its labels.
LineHeld ==
  \A l \in Loops :
    /\ eng[l] => lpc[l] \in {"rules", "front", "confirm", "up", "close"}
    /\ front[l] => lpc[l] \in {"confirm", "up", "close"}
    /\ lown[l] => lpc[l] \in {"front", "confirm", "up", "close", "clear"} /\ ~ksOn

\* The switch is on exactly for the selections that want it, and the
\* own-address rules are whole wherever a tun may stand.
Switch ==
  /\ ksOn => ksIn /\ own = "all"
  /\ \A l \in Loops : Live(l) => lsel[l] \in Selections /\ (lsel[l] \in KillSwitch <=> ksOn)
  /\ \A l \in Loops : lpc[l] \in {"front", "confirm", "up", "close"} /\ lsel[l] \in Tun => own = "all"

\* What the loops hold, and the switch they run behind.
Lines == LineHeld /\ Switch
-----------------------------------------------------------------------------
\* Whatever a step assigns is of the type TypeOK gives it.
LEMMA TypeStep == ASSUME TypeOK, [Next]_vars PROVE TypeOK'
<1> USE DEF TypeOK, Procs, Maybe, Goto, LGoto, Refuse
<1> USE DEF fieldVars, localVars, loopVars, kernelVars
<1>1. ASSUME Boot PROVE TypeOK'
  <2>1. ksIn' \in BOOLEAN  BY <1>1, Zenon DEF Boot, CleanupStale
  <2>2. own' \in {"none", "part", "all"}  BY <1>1, Zenon DEF Boot, CleanupStale
  <2>3. refused' \subseteq Faults  BY <1>1, Zenon DEF Boot, CleanupStale
  <2> QED  BY <1>1, <2>1, <2>2, <2>3 DEF Boot, Labels, Outside, Quiesced, Locked, Comparing
<1>2. ASSUME BootFails PROVE TypeOK'
  <2>1. ksIn' \in BOOLEAN  BY <1>2, Zenon DEF BootFails, CleanupStale
  <2>2. own' \in {"none", "part", "all"}  BY <1>2, Zenon DEF BootFails, CleanupStale
  <2>3. refused' \subseteq Faults  BY <1>2, Zenon DEF BootFails, CleanupStale
  <2> QED  BY <1>2, <2>1, <2>2, <2>3 DEF BootFails, Outside
<1>3. ASSUME Terminate PROVE TypeOK'
  BY <1>3 DEF Terminate, Outside, Labels, Locked, Quiesced, Comparing
<1>4. ASSUME Shutdown PROVE TypeOK'
  BY <1>4 DEF Shutdown, Outside, Labels, Locked, Quiesced, Comparing
<1>5. ASSUME Exit PROVE TypeOK'
  BY <1>5, Zenon DEF Exit, ProcessEnds, Outside, Labels, LoopLabels
<1>6. ASSUME Crash PROVE TypeOK'
  BY <1>6, Zenon DEF Crash, ProcessEnds, Outside, Labels, LoopLabels
<1>7. ASSUME NEW h \in Handlers, NEW s \in Selections, RequestConnect(h, s) PROVE TypeOK'
  BY <1>7 DEF RequestConnect, OutsideFrame, Outside, Labels, Locked, Quiesced, Comparing
<1>8. ASSUME NEW h \in Handlers, RequestDisconnect(h) PROVE TypeOK'
  BY <1>8 DEF RequestDisconnect, OutsideFrame, Outside, Labels, Locked, Quiesced, Comparing
<1>9. ASSUME NEW h \in Handlers, NEW drop \in BOOLEAN, RequestRemove(h, drop) PROVE TypeOK'
  BY <1>9 DEF RequestRemove, OutsideFrame, Outside, Labels, Locked, Quiesced, Comparing
<1>10. ASSUME NEW p \in Procs, RequestRefresh(p) PROVE TypeOK'
  BY <1>10 DEF RequestRefresh, OutsideFrame, Outside, Labels, Locked, Quiesced, Comparing
<1>11. ASSUME NEW p \in Procs, FetchInto(p) PROVE TypeOK'
  BY <1>11 DEF FetchInto, OutsideFrame, Answer, Outside, Labels, Locked, Quiesced, Comparing
<1>12. ASSUME NEW p \in Procs, Reject(p) PROVE TypeOK'
  BY <1>12 DEF Reject, OutsideFrame, Answer, Outside, Labels, Locked, Quiesced, Comparing
<1>13. ASSUME NEW p \in Procs, Store(p) PROVE TypeOK'
  BY <1>13 DEF Store, OutsideFrame, Answer, Outside, Labels, Locked, Quiesced, Comparing
<1>14. ASSUME NEW p \in Procs, Refreshed(p) PROVE TypeOK'
  BY <1>14 DEF Refreshed, OutsideFrame, Answer, Outside, Labels, Locked, Quiesced, Comparing
<1>15. ASSUME NEW p \in Procs, Clone(p) PROVE TypeOK'
  BY <1>15 DEF Clone, OutsideFrame, Answer, Outside, Labels, Locked, Quiesced, Comparing
<1>16. ASSUME NEW p \in Procs, Save(p) PROVE TypeOK'
  BY <1>16 DEF Save, GoOn, OutsideFrame, Answer, Outside, Labels, Locked, Quiesced, Comparing
<1>17. ASSUME NEW p \in Procs, SaveFails(p) PROVE TypeOK'
  BY <1>17 DEF SaveFails, GoOn, OutsideFrame, Answer, Outside, Labels, Locked, Quiesced, Comparing
<1>18. ASSUME NEW p \in Procs, LeaveAlone(p) PROVE TypeOK'
  BY <1>18 DEF LeaveAlone, Leave, Outside, Labels, Locked, Quiesced, Comparing
<1>19. ASSUME NEW p \in Procs, InstallFails(p) PROVE TypeOK'
  <2>1. ksIn' \in BOOLEAN  BY <1>19, Zenon DEF InstallFails
  <2>2. own' \in {"none", "part", "all"}  BY <1>19, Zenon DEF InstallFails
  <2>3. refused' \subseteq Faults  BY <1>19, Zenon DEF InstallFails
  <2> QED  BY <1>19, <2>1, <2>2, <2>3 DEF InstallFails, Leave, Labels, Outside, Quiesced,
     Locked, Comparing
<1>20. ASSUME NEW p \in Procs, StopAll(p) PROVE TypeOK'
  <2>1. ksOn' \in BOOLEAN  BY <1>20, Zenon DEF StopAll, RemoveSwitch
  <2>2. ksIn' \in BOOLEAN  BY <1>20, Zenon DEF StopAll, RemoveSwitch
  <2>3. own' \in {"none", "part", "all"}  BY <1>20, Zenon DEF StopAll, RemoveSwitch
  <2>4. refused' \subseteq Faults  BY <1>20, Zenon DEF StopAll, RemoveSwitch
  <2> QED  BY <1>20, <2>1, <2>2, <2>3, <2>4 DEF StopAll, Leave, Labels, Outside, Quiesced,
     Locked, Comparing
<1>21. ASSUME NEW p \in Procs, Spawn(p) PROVE TypeOK'
  <2>1. loopDone' \in Loops  BY <1>21, Zenon DEF Spawn, LoopLabels
  <2>2. lpc' \in [Loops -> LoopLabels]  BY <1>21, Zenon DEF Spawn, LoopLabels
  <2>3. lsel' \in [Loops -> Maybe(Selections, None)]  BY <1>21, Zenon DEF Spawn, LoopLabels
  <2>4. cancelled' \in [Loops -> BOOLEAN]  BY <1>21, Zenon DEF Spawn
  <2> QED  BY <1>21, <2>1, <2>2, <2>3, <2>4 DEF Spawn, Leave, Labels, Outside, Quiesced, Locked, Comparing
<1>22. ASSUME NEW p \in Procs, Cancel(p) PROVE TypeOK'
  BY <1>22 DEF Cancel, TakeLoop, Outside, Labels, Locked, Quiesced, Comparing
<1>23. ASSUME NEW p \in Procs, Await(p) PROVE TypeOK'
  BY <1>23 DEF Await, Outside, Labels, Locked, Quiesced, Comparing
<1>24. ASSUME NEW p \in Procs, Install(p) PROVE TypeOK'
  <2>1. ksOn' \in BOOLEAN  BY <1>24, Zenon DEF Install
  <2>2. ksIn' \in BOOLEAN  BY <1>24, Zenon DEF Install
  <2>3. own' \in {"none", "part", "all"}  BY <1>24, Zenon DEF Install
  <2> QED  BY <1>24, <2>1, <2>2, <2>3 DEF Install, Labels, Outside, Quiesced, Locked, Comparing
<1>25. ASSUME NEW p \in Procs, TakeOut(p) PROVE TypeOK'
  <2>1. ksOn' \in BOOLEAN  BY <1>25, Zenon DEF TakeOut, RemoveSwitch
  <2>2. ksIn' \in BOOLEAN  BY <1>25, Zenon DEF TakeOut, RemoveSwitch
  <2>3. own' \in {"none", "part", "all"}  BY <1>25, Zenon DEF TakeOut, RemoveSwitch
  <2>4. refused' \subseteq Faults  BY <1>25, Zenon DEF TakeOut, RemoveSwitch
  <2> QED  BY <1>25, <2>1, <2>2, <2>3, <2>4 DEF TakeOut, Labels, Outside, Quiesced, Locked, Comparing
<1>26. ASSUME NEW l \in Loops, LoopRound(l) PROVE TypeOK'
  BY <1>26 DEF LoopRound, LoopFrame, LoopLabels, Holding
<1>27. ASSUME NEW l \in Loops, LoopResolve(l) PROVE TypeOK'
  <2>1. lpc' \in [Loops -> LoopLabels]  BY <1>27 DEF LoopResolve, LoopLabels, Holding
  <2>2. anyUp' \in [Loops -> BOOLEAN]  BY <1>27, Zenon DEF LoopResolve, LoopLabels, Holding
  <2> QED  BY <1>27, <2>1, <2>2 DEF LoopResolve, LoopFrame
<1>28. ASSUME NEW l \in Loops, LoopSave(l) PROVE TypeOK'
  BY <1>28 DEF LoopSave, LoopFrame, LoopLabels, Holding
<1>29. ASSUME NEW l \in Loops, LoopTry(l) PROVE TypeOK'
  BY <1>29 DEF LoopTry, LoopFrame, LoopLabels, Holding
<1>30. ASSUME NEW l \in Loops, LoopEngine(l) PROVE TypeOK'
  BY <1>30 DEF LoopEngine, LoopFrame, LoopLabels, Holding
<1>31. ASSUME NEW l \in Loops, LoopRules(l) PROVE TypeOK'
  <2>1. lpc' \in [Loops -> LoopLabels]  BY <1>31, Zenon DEF LoopRules, StopEngine, LoopLabels,
     Holding
  <2>2. eng' \in [Loops -> BOOLEAN]  BY <1>31, Zenon DEF LoopRules, StopEngine, LoopLabels, Holding
  <2>3. lown' \in [Loops -> BOOLEAN]  BY <1>31, Zenon DEF LoopRules, StopEngine, LoopLabels, Holding
  <2> QED  BY <1>31, <2>1, <2>2, <2>3 DEF LoopRules, LoopFrame
<1>32. ASSUME NEW l \in Loops, LoopFront(l) PROVE TypeOK'
  <2>1. lpc' \in [Loops -> LoopLabels]  BY <1>32 DEF LoopFront, StopEngine, ClearOwn,
     LoopLabels, Holding
  <2>2. eng' \in [Loops -> BOOLEAN]  BY <1>32, Zenon DEF LoopFront, StopEngine, ClearOwn, LoopLabels,
     Holding
  <2>3. front' \in [Loops -> BOOLEAN]  BY <1>32, Zenon DEF LoopFront, StopEngine, ClearOwn,
     LoopLabels, Holding
  <2>4. lown' \in [Loops -> BOOLEAN]  BY <1>32, Zenon DEF LoopFront, StopEngine, ClearOwn,
     LoopLabels, Holding
  <2> QED  BY <1>32, <2>1, <2>2, <2>3, <2>4 DEF LoopFront, LoopFrame, ClearOwn
<1>33. ASSUME NEW l \in Loops, LoopConfirm(l) PROVE TypeOK'
  <2>1. lpc' \in [Loops -> LoopLabels]  BY <1>33 DEF LoopConfirm, LoopLabels, Holding
  <2>2. anyUp' \in [Loops -> BOOLEAN]  BY <1>33, Zenon DEF LoopConfirm, LoopLabels, Holding
  <2> QED  BY <1>33, <2>1, <2>2 DEF LoopConfirm, LoopFrame
<1>34. ASSUME NEW l \in Loops, LoopSupervise(l) PROVE TypeOK'
  BY <1>34 DEF LoopSupervise, LoopFrame, LoopLabels, Holding
<1>35. ASSUME NEW l \in Loops, LoopClose(l) PROVE TypeOK'
  BY <1>35 DEF LoopClose, LoopFrame, StopEngine, LoopLabels, Holding
<1>36. ASSUME NEW l \in Loops, LoopClear(l) PROVE TypeOK'
  BY <1>36 DEF LoopClear, LoopFrame, ClearOwn, DropCur, LoopLabels, Holding
<1>37. ASSUME NEW l \in Loops, LoopNext(l) PROVE TypeOK'
  BY <1>37 DEF LoopNext, LoopFrame, LoopLabels, Holding
<1>38. ASSUME NEW l \in Loops, LoopSleep(l) PROVE TypeOK'
  BY <1>38 DEF LoopSleep, LoopFrame, LoopLabels, Holding
<1>39. ASSUME NEW l \in Loops, LoopExit(l) PROVE TypeOK'
  <2>1. lpc' \in [Loops -> LoopLabels]  BY <1>39, Zenon DEF LoopExit, LoopLabels, Holding
  <2>2. loopLive' \in BOOLEAN  BY <1>39, Zenon DEF LoopExit, LoopLabels, Holding
  <2> QED  BY <1>39, <2>1, <2>2 DEF LoopExit, LoopFrame
<1>40. ASSUME NEW l \in Loops, LoopDone(l) PROVE TypeOK'
  BY <1>40 DEF LoopDone, LoopFrame, LoopLabels, Holding
<1>41. ASSUME NEW p \in Procs, Compare(p) PROVE TypeOK'
  BY <1>41 DEF Compare, Outside, Labels, Locked, Quiesced, Comparing
<1>42. ASSUME NEW p \in Procs, Same(p) PROVE TypeOK'
  BY <1>42 DEF Same, Leave, Outside, Labels, Locked, Quiesced, Comparing
<1>43. ASSUME NEW p \in Procs, Changed(p) PROVE TypeOK'
  BY <1>43 DEF Changed, TakeLoop, Outside, Labels, Locked, Quiesced, Comparing
<1>44. ASSUME UNCHANGED vars PROVE TypeOK'
  BY <1>44 DEF vars
<1> QED
  BY <1>1, <1>2, <1>3, <1>4, <1>5, <1>6, <1>7, <1>8, <1>9, <1>10, <1>11, <1>12, <1>13, <1>14,
     <1>15, <1>16, <1>17, <1>18, <1>19, <1>20, <1>21, <1>22, <1>23, <1>24, <1>25, <1>26,
     <1>27, <1>28, <1>29, <1>30, <1>31, <1>32, <1>33, <1>34, <1>35, <1>36, <1>37, <1>38,
     <1>39, <1>40, <1>41, <1>42, <1>43, <1>44, Zenon DEF Next, RunStep, RequestStep, OutsideStep, EnterStep, LockedStep,
     LoopStep

USE DEF Maybe, Goto, LGoto, Refuse, fieldVars, localVars, loopVars, kernelVars

\* Requests and refreshes outside connectMu touch no loop, no rule and no lock.
LEMMA OutsideMoves ==
  ASSUME TypeOK, NEW p \in Procs,
         (p \in Handlers /\ RequestStep(p)) \/ RequestRefresh(p) \/ OutsideStep(p)
  PROVE  OutsideMove(p)
<1> USE DEF OutsideMove, TypeOK, Outside, Comparing
<1>1. ASSUME NEW s \in Selections, RequestConnect(p, s) PROVE OutsideMove(p)
  BY <1>1, Zenon DEF RequestConnect, OutsideFrame
<1>2. CASE RequestDisconnect(p)  BY <1>2, Zenon DEF RequestDisconnect, OutsideFrame
<1>3. ASSUME NEW drop \in BOOLEAN, RequestRemove(p, drop) PROVE OutsideMove(p)
  BY <1>3, Zenon DEF RequestRemove, OutsideFrame
<1>4. CASE RequestRefresh(p)  BY <1>4, Zenon DEF RequestRefresh, OutsideFrame
<1>5. CASE FetchInto(p)  BY <1>5, Zenon DEF FetchInto, OutsideFrame
<1>6. CASE Reject(p)  BY <1>6, Zenon DEF Reject, Answer, OutsideFrame
<1>7. CASE Store(p)  BY <1>7, Zenon DEF Store, OutsideFrame
<1>8. CASE Refreshed(p)  BY <1>8, Zenon DEF Refreshed, OutsideFrame
<1>9. CASE Clone(p)  BY <1>9, Zenon DEF Clone, OutsideFrame
<1>10. CASE Save(p)  BY <1>10, Zenon DEF Save, GoOn, Answer, OutsideFrame
<1>11. CASE SaveFails(p)  BY <1>11, Zenon DEF SaveFails, GoOn, Answer, OutsideFrame
<1> QED
  BY <1>1, <1>2, <1>3, <1>4, <1>5, <1>6, <1>7, <1>8, <1>9, <1>10, <1>11
     DEF RequestStep, OutsideStep

\* A step of one loop leaves the goroutines, the switch and the other loops alone.
LEMMA LoopMoves ==
  ASSUME TypeOK, NEW l \in Loops, LoopStep(l) \/ LoopSupervise(l)
  PROVE  LoopMove(l)
<1> USE DEF LoopMove, TypeOK, LoopFrame, Live
<1>1. CASE LoopRound(l)  BY <1>1, Zenon DEF LoopRound
<1>2. CASE LoopResolve(l)  BY <1>2, Zenon DEF LoopResolve
<1>3. CASE LoopSave(l)  BY <1>3, Zenon DEF LoopSave
<1>4. CASE LoopTry(l)  BY <1>4, Zenon DEF LoopTry
<1>5. CASE LoopEngine(l)  BY <1>5, Zenon DEF LoopEngine
<1>6. CASE LoopRules(l)  BY <1>6, Zenon DEF LoopRules, StopEngine
<1>7. CASE LoopFront(l)  BY <1>7, Zenon DEF LoopFront, StopEngine, ClearOwn
<1>8. CASE LoopConfirm(l)  BY <1>8, Zenon DEF LoopConfirm
<1>9. CASE LoopSupervise(l)  BY <1>9, Zenon DEF LoopSupervise
<1>10. CASE LoopClose(l)  BY <1>10, Zenon DEF LoopClose, StopEngine
<1>11. CASE LoopClear(l)  BY <1>11, Zenon DEF LoopClear, ClearOwn
<1>12. CASE LoopNext(l)  BY <1>12, Zenon DEF LoopNext
<1>13. CASE LoopSleep(l)  BY <1>13, Zenon DEF LoopSleep
<1>14. CASE LoopExit(l)  BY <1>14, Zenon DEF LoopExit
<1>15. CASE LoopDone(l)  BY <1>15, Zenon DEF LoopDone
<1> QED
  BY <1>1, <1>2, <1>3, <1>4, <1>5, <1>6, <1>7, <1>8, <1>9, <1>10, <1>11, <1>12, <1>13,
     <1>14, <1>15, Zenon DEF LoopStep

\* connectMu and d.cancel keep every loop within reach.
LEMMA ControlStep == ASSUME TypeOK, TypeOK', Control, [Next]_vars PROVE Control'
<1>0. /\ pc \in [Procs -> Labels] /\ connectMu \in Maybe(Procs, Free)
      /\ loopDone \in Maybe(Loops, NoLoop) /\ done \in [Procs -> Maybe(Loops, NoLoop)]
      /\ lpc \in [Loops -> LoopLabels]
  BY Zenon DEF TypeOK
<1> USE <1>0, NullAssumption, ProcsAssumption
<1> USE DEF Control, Mutex, Known, Taken, Dead, Live, Locked, Quiesced, Comparing
<1>1. CASE Boot  BY <1>1, Zenon DEF Boot, Procs
<1>2. CASE BootFails  BY <1>2, Zenon DEF BootFails
<1>3. CASE Terminate  BY <1>3, Zenon DEF Terminate
<1>4. CASE Shutdown  BY <1>4, Zenon DEF Shutdown, Procs
<1>5. CASE Exit \/ Crash  BY <1>5 DEF Exit, Crash, ProcessEnds
<1>6. ASSUME NEW p \in Procs, OutsideMove(p) PROVE Control'
  BY <1>6 DEF OutsideMove, OutsideFrame, Outside
<1>7. ASSUME NEW p \in Procs, LeaveAlone(p) PROVE Control'
  BY <1>7, Zenon DEF LeaveAlone, Leave
<1>8. ASSUME NEW p \in Procs, Cancel(p) \/ Changed(p) PROVE Control'
  <2>1. TakeLoop(p) /\ pc[p] \in {"lock"} \cup Comparing
    BY <1>8, Zenon DEF Cancel, Changed
  <2>2. connectMu \in {p, Free}  BY <1>8, Zenon DEF Cancel, Changed
  <2> QED  BY <2>1, <2>2 DEF TakeLoop
<1>9. ASSUME NEW p \in Procs, Await(p) PROVE Control'
  BY <1>9 DEF Await, LoopEnded
<1>10. ASSUME NEW p \in Procs, Install(p) PROVE Control'
  BY <1>10 DEF Install
<1>11. ASSUME NEW p \in Procs, InstallFails(p) PROVE Control'
  BY <1>11 DEF InstallFails, Leave
<1>12. ASSUME NEW p \in Procs, TakeOut(p) PROVE Control'
  BY <1>12 DEF TakeOut
<1>13. ASSUME NEW p \in Procs, StopAll(p) PROVE Control'
  BY <1>13 DEF StopAll, Leave
<1>14. ASSUME NEW p \in Procs, Spawn(p) PROVE Control'
  BY <1>14 DEF Spawn, Leave
<1>15. ASSUME NEW l \in Loops, LoopMove(l) PROVE Control'
  BY <1>15 DEF LoopMove
<1>16. CASE UNCHANGED vars  BY <1>16, Zenon DEF vars
<1>17. ASSUME NEW p \in Procs, Compare(p) PROVE Control'
  BY <1>17 DEF Compare
<1>18. ASSUME NEW p \in Procs, Same(p) PROVE Control'
  BY <1>18 DEF Same, Leave
<1> QED
  BY <1>1, <1>2, <1>3, <1>4, <1>5, <1>6, <1>7, <1>8, <1>9, <1>10, <1>11, <1>12, <1>13,
     <1>14, <1>15, <1>16, <1>17, <1>18, OutsideMoves, LoopMoves, Zenon
     DEF Next, RunStep, EnterStep, LockedStep, Procs

\* Inside connectMu, once the old loop has ended, no loop lives.
LEMMA Alone ==
  ASSUME Control, NEW p \in Procs, pc[p] \in Quiesced PROVE \A l \in Loops : ~Live(l)
BY NullAssumption, Zenon DEF Control, Mutex, Known, Taken, Locked, Quiesced, Comparing

\* Two loops that live are one.
LEMMA Single ==
  ASSUME Control, NEW l \in Loops, Live(l), NEW m \in Loops, Live(m) PROVE l = m
BY NullAssumption DEF Control, Known, Taken, Locked, Quiesced, Comparing
-----------------------------------------------------------------------------
\* Outside connectMu a connect carries its selection and nobody else does.
LEMMA ArgumentsOutside ==
  ASSUME TypeOK, TypeOK', Control, Arguments, NEW p \in Procs,
         (p \in Handlers /\ RequestStep(p)) \/ RequestRefresh(p) \/ OutsideStep(p)
  PROVE  Arguments'
<1>0. /\ pc \in [Procs -> Labels]
      /\ verb \in [Procs -> Verbs \cup {"none", "startStored", "shutdown"}]
      /\ arg \in [Procs -> Maybe(Selections, None)]
      /\ cfgSelection \in Maybe(Selections, None)
  BY Zenon DEF TypeOK
<1> USE <1>0
<1> USE DEF Arguments, Starting, Locked, Quiesced, Comparing, OutsideFrame
<1>1. ASSUME NEW s \in Selections, RequestConnect(p, s) PROVE Arguments'
  BY <1>1, Zenon DEF RequestConnect
<1>2. CASE RequestDisconnect(p)  BY <1>2, Zenon DEF RequestDisconnect
<1>3. ASSUME NEW drop \in BOOLEAN, RequestRemove(p, drop) PROVE Arguments'
  BY <1>3, Zenon DEF RequestRemove
<1>4. CASE RequestRefresh(p)  BY <1>4, Zenon DEF RequestRefresh
<1>5. CASE FetchInto(p)  BY <1>5, Zenon DEF FetchInto
<1>6. CASE Reject(p)  BY <1>6, Zenon DEF Reject, Answer
<1>7. CASE Store(p)  BY <1>7, Zenon DEF Store
<1>8. CASE Refreshed(p)  BY <1>8, Zenon DEF Refreshed
<1>9. CASE Clone(p)  BY <1>9, Zenon DEF Clone
<1>10. CASE Save(p)  BY <1>10 DEF Save, GoOn, Answer
<1>11. CASE SaveFails(p)  BY <1>11 DEF SaveFails, GoOn, Answer
<1> HIDE DEF Arguments, Starting, Locked, Quiesced, Comparing, OutsideFrame
<1> QED
  BY <1>1, <1>2, <1>3, <1>4, <1>5, <1>6, <1>7, <1>8, <1>9, <1>10, <1>11, Zenon
     DEF RequestStep, OutsideStep

\* Inside connectMu the switch is made as the selection to start wants it.
LEMMA ArgumentsInside ==
  ASSUME TypeOK, TypeOK', Control, Arguments, NEW p \in Procs, EnterStep(p) \/ LockedStep(p)
  PROVE  Arguments'
<1>0. /\ pc \in [Procs -> Labels]
      /\ verb \in [Procs -> Verbs \cup {"none", "startStored", "shutdown"}]
      /\ arg \in [Procs -> Maybe(Selections, None)]
      /\ cfgSelection \in Maybe(Selections, None)
  BY Zenon DEF TypeOK
<1> USE <1>0
<1> USE DEF Arguments, Control, Mutex, Starting, Locked, Quiesced, Comparing
<1> USE NullAssumption, ModeAssumption
<1>12. ASSUME Leave(p), UNCHANGED ksOn PROVE Arguments'
  <2>1. /\ pc'[p] \in {"idle", "serving", "exit", "clone"} /\ arg'[p] = None /\ verb'[p] # "connect"
        /\ \A q \in Procs \ {p} : pc'[q] = pc[q] /\ verb'[q] = verb[q] /\ arg'[q] = arg[q]
    BY <1>12 DEF Leave
  <2> QED  BY <1>12, <2>1
<1>1. CASE LeaveAlone(p)  BY <1>1, <1>12, Zenon DEF LeaveAlone
<1>2. CASE Cancel(p)  BY <1>2 DEF Cancel, TakeLoop
<1>3. CASE Await(p)  BY <1>3 DEF Await, WantsSwitch
<1>4. CASE Install(p)  BY <1>4 DEF Install
<1>5. CASE InstallFails(p)  BY <1>5 DEF InstallFails, Leave
<1>6. CASE TakeOut(p)  BY <1>6 DEF TakeOut, RemoveSwitch
<1>7. CASE StopAll(p)  BY <1>7, Zenon DEF StopAll, Leave
<1>8. CASE Spawn(p)  BY <1>8 DEF Spawn, Leave
<1>9. CASE Compare(p)  BY <1>9 DEF Compare
<1>10. CASE Same(p)  BY <1>10, <1>12, Zenon DEF Same
<1>11. CASE Changed(p)  BY <1>11 DEF Changed, TakeLoop
<1> QED
  BY <1>1, <1>2, <1>3, <1>4, <1>5, <1>6, <1>7, <1>8, <1>9, <1>10, <1>11 DEF EnterStep, LockedStep

\* The switch is as the selection wants it when the loop is spawned.
LEMMA ArgumentsStep ==
  ASSUME TypeOK, TypeOK', Control, Arguments, [Next]_vars PROVE Arguments'
<1>0. /\ pc \in [Procs -> Labels]
      /\ verb \in [Procs -> Verbs \cup {"none", "startStored", "shutdown"}]
      /\ arg \in [Procs -> Maybe(Selections, None)]
      /\ cfgSelection \in Maybe(Selections, None)
  BY DEF TypeOK
<1> USE <1>0
<1> USE DEF Arguments, Control, Dead, Starting, Locked, Quiesced, Comparing
<1> USE NullAssumption, ProcsAssumption
<1>1. CASE Boot  BY <1>1 DEF Boot, Procs
<1>2. CASE BootFails \/ Terminate  BY <1>2 DEF BootFails, Terminate
<1>3. CASE Shutdown  BY <1>3 DEF Shutdown, Procs
<1>4. CASE Exit \/ Crash  BY <1>4 DEF Exit, Crash, ProcessEnds
<1>5. ASSUME NEW l \in Loops, LoopMove(l) PROVE Arguments'
  BY <1>5 DEF LoopMove
<1>6. CASE UNCHANGED vars  BY <1>6, Zenon DEF vars
<1> HIDE DEF Arguments, Control, Dead, Starting, Locked, Quiesced, Comparing
<1> QED
  BY <1>1, <1>2, <1>3, <1>4, <1>5, <1>6, ArgumentsOutside, ArgumentsInside, LoopMoves, Zenon
     DEF Next, RunStep, Procs

\* The rules come before the front and go after it.
LEMMA LinesLoop ==
  ASSUME TypeOK, TypeOK', Control, Lines, NEW l \in Loops, LoopStep(l) \/ LoopSupervise(l)
  PROVE  Lines'
<1> DEFINE Held == {"rules", "front", "confirm", "up", "close", "clear"}
<1>1. LoopMove(l)  BY LoopMoves, Zenon
<1>2. \A m \in Loops : Live(m) => m = l  BY <1>1, Single DEF LoopMove
<1>0. /\ lpc \in [Loops -> LoopLabels] /\ lsel \in [Loops -> Maybe(Selections, None)]
      /\ eng \in [Loops -> BOOLEAN] /\ front \in [Loops -> BOOLEAN] /\ lown \in [Loops -> BOOLEAN]
  BY Zenon DEF TypeOK
<1> USE <1>0
<1> USE DEF Lines, LineHeld, Switch, Live
<1>3. ASSUME lpc'[l] \in {"front", "confirm", "up", "close"} /\ lsel[l] \in Tun => own' = "all",
             ksOn => own' = "all",
             eng'[l] => lpc'[l] \in {"rules", "front", "confirm", "up", "close"},
             front'[l] => lpc'[l] \in {"confirm", "up", "close"},
             lown'[l] => lpc'[l] \in {"front", "confirm", "up", "close", "clear"} /\ ~ksOn
      PROVE Lines'
  BY <1>1, <1>2, <1>3 DEF LoopMove
<1>4. ASSUME UNCHANGED <<eng, front, lown, own>>,
             lpc[l] \notin Held, lpc'[l] \notin {"front", "confirm", "up", "close"}
      PROVE Lines'
  BY <1>3, <1>4
<1>5. CASE LoopRound(l) \/ LoopResolve(l) \/ LoopSave(l)
  BY <1>4, <1>5 DEF LoopRound, LoopResolve, LoopSave
<1>6. CASE LoopTry(l) \/ LoopNext(l) \/ LoopSleep(l)
  BY <1>4, <1>6 DEF LoopTry, LoopNext, LoopSleep
<1>7. CASE LoopExit(l) \/ LoopDone(l)  BY <1>4, <1>7 DEF LoopExit, LoopDone
<1>8. CASE LoopEngine(l)  BY <1>3, <1>8 DEF LoopEngine
<1>9. CASE LoopRules(l)  BY <1>3, <1>9 DEF LoopRules, OwnRules, StopEngine
<1>10. CASE LoopFront(l)  BY <1>3, <1>10 DEF LoopFront, ClearOwn, StopEngine
<1>11. CASE LoopConfirm(l) \/ LoopSupervise(l)
  BY <1>3, <1>11 DEF LoopConfirm, LoopSupervise
<1>12. CASE LoopClose(l)  BY <1>3, <1>12, Zenon DEF LoopClose, StopEngine
<1>13. CASE LoopClear(l)  BY <1>3, <1>13 DEF LoopClear, ClearOwn
<1> HIDE DEF Lines, LineHeld, Switch, Live
<1> QED
  BY <1>5, <1>6, <1>7, <1>8, <1>9, <1>10, <1>11, <1>12, <1>13, Zenon DEF LoopStep

\* The switch changes only between loops.
LEMMA LinesStep ==
  ASSUME TypeOK, TypeOK', Control, Arguments, Lines, [Next]_vars PROVE Lines'
<1>0. /\ lpc \in [Loops -> LoopLabels] /\ lsel \in [Loops -> Maybe(Selections, None)]
      /\ eng \in [Loops -> BOOLEAN] /\ front \in [Loops -> BOOLEAN] /\ lown \in [Loops -> BOOLEAN]
  BY DEF TypeOK
<1> USE <1>0
<1> USE DEF Lines, LineHeld, Switch, Live
<1>1. CASE Boot \/ BootFails
  <2>1. ~ksOn /\ \A l \in Loops : ~Live(l)  BY <1>1 DEF Boot, BootFails, Control, Dead
  <2>2. UNCHANGED <<ksOn, loopVars>>  BY <1>1, Zenon DEF Boot, BootFails
  <2> QED  BY <2>1, <2>2, Zenon
<1>2. CASE Terminate \/ Shutdown  BY <1>2 DEF Terminate, Shutdown
<1>3. CASE Exit \/ Crash  BY <1>3 DEF Exit, Crash, ProcessEnds
<1>4. ASSUME NEW p \in Procs, OutsideMove(p) PROVE Lines'
  BY <1>4 DEF OutsideMove, OutsideFrame
<1>5. ASSUME NEW p \in Procs, EnterStep(p) \/ Same(p) \/ Changed(p) \/ Await(p) PROVE Lines'
  <2>1. UNCHANGED <<ksOn, ksIn, own, lpc, lsel, eng, front, lown>>
    BY <1>5, Zenon DEF EnterStep, LeaveAlone, Compare, Cancel, Same, Changed, TakeLoop, Await
  <2> QED  BY <2>1, Zenon
<1>6. ASSUME NEW p \in Procs, pc[p] \in Quiesced, UNCHANGED loopVars, (ksOn => ksIn /\ own = "all")'
      PROVE Lines'
  BY <1>6, Alone, Zenon
<1>7. ASSUME NEW p \in Procs, Install(p) PROVE Lines'
  BY <1>6, <1>7 DEF Install, Quiesced
<1>8. ASSUME NEW p \in Procs, InstallFails(p) PROVE Lines'
  BY <1>6, <1>8 DEF InstallFails, Quiesced
<1>9. ASSUME NEW p \in Procs, TakeOut(p) \/ StopAll(p) PROVE Lines'
  <2>1. pc[p] \in Quiesced /\ UNCHANGED loopVars /\ ~ksOn'
    BY <1>9, Zenon DEF TakeOut, StopAll, RemoveSwitch, Quiesced
  <2> QED  BY <1>6, <2>1
<1>10. ASSUME NEW p \in Procs, Spawn(p) PROVE Lines'
  <2>1. pc[p] \in Quiesced  BY <1>10, Zenon DEF Spawn, Quiesced
  <2>2. \A l \in Loops : ~Live(l)  BY <2>1, Alone, Zenon
  <2>3. arg[p] \in Selections /\ (arg[p] \in KillSwitch <=> ksOn)
    BY <1>10, Zenon DEF Spawn, Arguments, Locked, Quiesced, Comparing
  <2>4. PICK l \in Loops : LGoto(l, "round") /\ lsel' = [lsel EXCEPT ![l] = arg[p]]
    BY <1>10, Zenon DEF Spawn
  <2>5. UNCHANGED <<ksOn, ksIn, own, eng, front, lown>>  BY <1>10 DEF Spawn
  <2> QED  BY <2>2, <2>3, <2>4, <2>5, Zenon
<1>11. CASE UNCHANGED vars  BY <1>11 DEF vars
<1> HIDE DEF Lines, LineHeld, Switch, Live
<1> QED
  BY <1>1, <1>2, <1>3, <1>4, <1>5, <1>7, <1>8, <1>9, <1>10, <1>11, OutsideMoves, LinesLoop, Zenon
     DEF Next, RunStep, LockedStep, Procs

-----------------------------------------------------------------------------
\* Without refusals the kernel holds what the daemon or a line holds.
Kernel ==
  proc = "running" /\ refused \subseteq {"save"} =>
    /\ ksIn => ksOn
    /\ own = "none" \/ ksOn \/ \E l \in Loops : lown[l]

\* "idle" is said only when nothing runs and the switch is off.
Idle ==
  /\ \A l \in Loops : Live(l) => state # "idle"
  /\ \A p \in Procs : pc[p] \in Quiesced => sel = None
  /\ (\A p \in Procs : pc[p] \in Locked => pc[p] \in Comparing) /\ state = "idle" =>
       sel = None /\ ~ksOn

\* What status and the decisions to restart read.
Reported == CurIsHeld /\ LoopLiveExact /\ ShownIsRunning

\* The inductive invariant.
IInv == TypeOK /\ Control /\ Arguments /\ Lines /\ Kernel /\ Idle /\ Reported
-----------------------------------------------------------------------------
USE DEF Maybe, Goto, LGoto, Refuse, fieldVars, localVars, loopVars, kernelVars

\* A line's rules go with it, and no other line has any.
LEMMA KernelLoop ==
  ASSUME TypeOK, Control, Lines, Kernel, NEW l \in Loops, LoopStep(l) \/ LoopSupervise(l)
  PROVE  Kernel'
<1>0. lown \in [Loops -> BOOLEAN]  BY Zenon DEF TypeOK
<1>1. LoopMove(l)  BY LoopMoves, Zenon
<1>2. \A m \in Loops \ {l} : ~lown[m]
  BY <1>1, Single, Zenon DEF Lines, LineHeld, Live, LoopMove
<1>3. UNCHANGED <<proc, ksOn, ksIn>>  BY <1>1, Zenon DEF LoopMove
<1>4. ASSUME UNCHANGED <<own, lown>>, refused \subseteq refused' PROVE Kernel'
  BY <1>3, <1>4, Zenon DEF Kernel
<1>5. CASE LoopRound(l) \/ LoopResolve(l) \/ LoopSave(l) \/ LoopTry(l)
  BY <1>4, <1>5, Zenon DEF LoopRound, LoopResolve, LoopSave, LoopTry
<1>6. CASE LoopEngine(l) \/ LoopConfirm(l) \/ LoopSupervise(l) \/ LoopClose(l)
  BY <1>4, <1>6, Zenon DEF LoopEngine, LoopConfirm, LoopSupervise, LoopClose
<1>7. CASE LoopNext(l) \/ LoopSleep(l) \/ LoopExit(l) \/ LoopDone(l)
  BY <1>4, <1>7, Zenon DEF LoopNext, LoopSleep, LoopExit, LoopDone
<1>8. ASSUME Refuse({"add"}) \/ Refuse({"remove"}) PROVE Kernel'
  BY <1>8 DEF Kernel
<1>9. CASE LoopRules(l)
  <2>1. CASE lown' = [lown EXCEPT ![l] = TRUE] /\ UNCHANGED refused
    BY <1>0, <1>3, <2>1, Zenon DEF Kernel
  <2> QED  BY <1>4, <1>8, <1>9, <2>1, Zenon DEF LoopRules
<1>10. ASSUME ClearOwn(l) PROVE Kernel'
  <2>1. CASE own' = "none" /\ UNCHANGED refused  BY <1>3, <2>1, Zenon DEF Kernel
  <2>2. CASE ~lown[l] /\ UNCHANGED <<own, refused>>
    BY <1>0, <1>2, <1>3, <1>10, <2>2, Zenon DEF Kernel, ClearOwn
  <2> QED  BY <1>8, <1>10, <2>1, <2>2, Zenon DEF ClearOwn
<1>11. CASE LoopFront(l)  BY <1>4, <1>10, <1>11, Zenon DEF LoopFront
<1>12. CASE LoopClear(l)  BY <1>10, <1>12, Zenon DEF LoopClear
<1> QED  BY <1>5, <1>6, <1>7, <1>9, <1>11, <1>12, Zenon DEF LoopStep

\* What stands in the kernel without refusals is held by somebody.
LEMMA KernelStep ==
  ASSUME TypeOK, Control, Lines, Kernel, [Next]_vars PROVE Kernel'
<1>1. ASSUME UNCHANGED <<proc, ksOn, ksIn, own, lown>>, refused \subseteq refused' PROVE Kernel'
  BY <1>1, Zenon DEF Kernel
<1>2. ASSUME Refuse({"remove"}) PROVE Kernel'  BY <1>2, Zenon DEF Kernel
<1>3. CASE Boot \/ BootFails
  <2>1. CASE ksIn' = FALSE /\ own' = "none"  BY <2>1, Zenon DEF Kernel
  <2> QED  BY <1>2, <1>3, <2>1, Zenon DEF Boot, BootFails, CleanupStale
<1>4. CASE Terminate \/ Shutdown \/ UNCHANGED vars
  BY <1>1, <1>4, Zenon DEF Terminate, Shutdown, vars
<1>5. CASE Exit \/ Crash
  <2>1. proc' # "running"  BY <1>5, Zenon DEF Exit, Crash
  <2> QED  BY <2>1, Zenon DEF Kernel
<1>6. ASSUME NEW p \in Procs, (p \in Handlers /\ RequestStep(p)) \/ RequestRefresh(p) \/ OutsideStep(p)
      PROVE Kernel'
  <2>1. OutsideMove(p)  BY <1>6, OutsideMoves, Zenon
  <2>2. refused \subseteq refused'
    BY <1>6, Zenon DEF RequestStep, RequestConnect, RequestDisconnect, RequestRemove, RequestRefresh,
                OutsideStep, FetchInto, Reject, Store, Refreshed, Clone, Save, SaveFails
  <2> QED  BY <1>1, <2>1, <2>2, Zenon DEF OutsideMove, OutsideFrame
<1>7. ASSUME NEW p \in Procs, EnterStep(p) \/ Same(p) \/ Changed(p) \/ Await(p) \/ Spawn(p)
      PROVE Kernel'
  BY <1>1, <1>7, Zenon DEF EnterStep, LeaveAlone, Compare, Cancel, Same, Changed, TakeLoop, Await, Spawn
<1>8. ASSUME NEW p \in Procs, Install(p) PROVE Kernel'
  <2>1. CASE ksOn' = TRUE  BY <2>1, Zenon DEF Kernel
  <2> QED  BY <1>1, <1>8, <2>1, Zenon DEF Install
<1>9. ASSUME NEW p \in Procs, InstallFails(p) PROVE Kernel'
  <2>1. PICK K \in (SUBSET {"add", "remove"}) \ {{}} : Refuse(K)  BY <1>9 DEF InstallFails
  <2>2. \E k \in K : k \in refused' /\ k # "save"  BY <2>1, Zenon
  <2> QED  BY <2>2, Zenon DEF Kernel
<1>10. ASSUME RemoveSwitch, UNCHANGED <<proc, lown>> PROVE Kernel'
  <2>1. CASE ~ksOn
    <3>1. ksOn = FALSE  BY <2>1, Zenon DEF TypeOK
    <3> QED  BY <1>1, <1>10, <3>1, Zenon DEF RemoveSwitch
  <2>2. CASE own' = "none" /\ ksIn' = FALSE  BY <2>2, Zenon DEF Kernel
  <2> QED  BY <1>2, <1>10, <2>1, <2>2, Zenon DEF RemoveSwitch
<1>11. ASSUME NEW p \in Procs, TakeOut(p) \/ StopAll(p) PROVE Kernel'
  BY <1>10, <1>11, Zenon DEF TakeOut, StopAll
<1> QED
  BY <1>3, <1>4, <1>5, <1>6, <1>7, <1>8, <1>9, <1>11, KernelLoop, Zenon
     DEF Next, RunStep, LockedStep, Procs

\* "idle" is written only where nothing runs.
LEMMA IdleStep ==
  ASSUME TypeOK, TypeOK', Control, Control', Idle, [Next]_vars PROVE Idle'
<1>0. pc \in [Procs -> Labels] /\ lpc \in [Loops -> LoopLabels]
  BY Zenon DEF TypeOK
<1> USE <1>0 DEF Idle, Live
<1> USE NullAssumption, ProcsAssumption
<1> USE DEF Locked, Quiesced, Comparing
<1>1. CASE Boot  BY <1>1 DEF Boot, Procs, Control, Dead
<1>2. CASE BootFails \/ Terminate  BY <1>2 DEF BootFails, Terminate
<1>3. CASE Shutdown  BY <1>3 DEF Shutdown, Procs
<1>4. CASE Exit \/ Crash  BY <1>4, Zenon DEF Exit, Crash, ProcessEnds
<1>5. ASSUME NEW p \in Procs, OutsideMove(p) PROVE Idle'
  BY <1>5 DEF OutsideMove, OutsideFrame, Outside
<1>6. ASSUME NEW p \in Procs, LeaveAlone(p) PROVE Idle'
  BY <1>6 DEF LeaveAlone, Leave
<1>7. ASSUME NEW p \in Procs, Cancel(p) \/ Changed(p) PROVE Idle'
  <2>1. TakeLoop(p)  BY <1>7, Zenon DEF Cancel, Changed
  <2> QED  BY <2>1 DEF TakeLoop
<1>15. ASSUME NEW p \in Procs, Compare(p) PROVE Idle'
  BY <1>15 DEF Compare, Control, Mutex
<1>16. ASSUME NEW p \in Procs, Same(p) PROVE Idle'
  BY <1>16 DEF Same, Leave, Control, Mutex
<1>8. ASSUME NEW p \in Procs, Await(p) PROVE Idle'
  <2>1. \A l \in Loops : ~Live(l)
    BY <1>8 DEF Await, LoopEnded, Control, Mutex, Known, Taken, Locked
  <2>2. connectMu' # Free
    BY <1>8, Zenon DEF Await, Control, Mutex, Locked
  <2> QED  BY <1>8, <2>1, <2>2 DEF Await
<1>9. ASSUME NEW p \in Procs, Install(p) \/ TakeOut(p) PROVE Idle'
  <2>1. sel = None /\ UNCHANGED <<connectMu, sel, state, lpc>>
    BY <1>9, Zenon DEF Install, TakeOut, Quiesced
  <2>2. pc'[p] \in Locked \ Comparing  BY <1>9 DEF Install, TakeOut
  <2> QED  BY <2>1, <2>2, Zenon
<1>10. ASSUME NEW p \in Procs, InstallFails(p) \/ Spawn(p) PROVE Idle'
  <2>1. state' # "idle" /\ connectMu' = Free  BY <1>10, Zenon DEF InstallFails, Spawn, Leave
  <2> QED  BY <2>1, Zenon DEF Control, Mutex, Locked
<1>11. ASSUME NEW p \in Procs, StopAll(p) PROVE Idle'
  <2>1. sel = None /\ ~ksOn' /\ UNCHANGED <<sel, state, lpc>>
    BY <1>11, Zenon DEF StopAll, RemoveSwitch, Quiesced
  <2> QED  BY <2>1, Zenon
<1>12. ASSUME NEW l \in Loops, LoopMove(l), state' # "idle" \/ UNCHANGED state PROVE Idle'
  BY <1>12, Zenon DEF LoopMove
<1>13. ASSUME NEW l \in Loops, LoopStep(l) \/ LoopSupervise(l) PROVE Idle'
  <2>1. LoopMove(l)  BY <1>13, LoopMoves, Zenon
  <2>2. state' # "idle" \/ UNCHANGED state
    BY <1>13, Zenon DEF LoopStep, LoopRound, LoopResolve, LoopSave, LoopTry, LoopEngine, LoopRules,
                 LoopFront, LoopConfirm, LoopSupervise, LoopClose, LoopClear, LoopNext, LoopSleep,
                 LoopExit, LoopDone
  <2> QED  BY <1>12, <2>1, <2>2, Zenon
<1>14. CASE UNCHANGED vars  BY <1>14, Zenon DEF vars
<1> HIDE DEF Idle, Live, Locked, Quiesced, Comparing
<1> QED
  BY <1>1, <1>2, <1>3, <1>4, <1>5, <1>6, <1>7, <1>8, <1>9, <1>10, <1>11, <1>13, <1>14,
     <1>15, <1>16, OutsideMoves, Zenon
     DEF Next, RunStep, EnterStep, LockedStep, Procs

\* loopLive and d.cur follow the loop ...
LEMMA ReportedLoop ==
  ASSUME TypeOK, Control, Reported, NEW l \in Loops, LoopStep(l) \/ LoopSupervise(l)
  PROVE  Reported'
<1>0. lpc \in [Loops -> LoopLabels]  BY Zenon DEF TypeOK
<1>1. LoopMove(l)  BY LoopMoves, Zenon
<1>10. ShownIsRunning'  BY <1>1, Zenon DEF Reported, ShownIsRunning, LoopMove, Live
<1> USE <1>0, <1>10, NullAssumption DEF Reported, CurIsHeld, LoopLiveExact
<1>2. ASSUME UNCHANGED <<cur, loopLive>>,
             lpc[l] \notin {"none", "closing"}, lpc'[l] \notin {"none", "closing"},
             lpc[l] \in {"up", "close", "clear"} => lpc'[l] \in {"up", "close", "clear"}
      PROVE Reported'
  BY <1>1, <1>2, Zenon DEF LoopMove, TypeOK
<1>3. CASE LoopRound(l) \/ LoopResolve(l) \/ LoopSave(l) \/ LoopTry(l)
  BY <1>2, <1>3, Zenon DEF LoopRound, LoopResolve, LoopSave, LoopTry
<1>4. CASE LoopEngine(l) \/ LoopRules(l) \/ LoopFront(l)
  BY <1>2, <1>4, Zenon DEF LoopEngine, LoopRules, LoopFront
<1>5. CASE LoopSupervise(l) \/ LoopClose(l) \/ LoopNext(l) \/ LoopSleep(l)
  BY <1>2, <1>5, Zenon DEF LoopSupervise, LoopClose, LoopNext, LoopSleep
<1>6. CASE LoopConfirm(l)  BY <1>2, <1>6, Zenon DEF LoopConfirm
<1>7. CASE LoopClear(l)  BY <1>7 DEF LoopClear, DropCur, TypeOK
<1>8. CASE LoopExit(l)
  <2>1. \A m \in Loops : Live(m) => m = l  BY <1>1, Single, Zenon DEF LoopMove
  <2> QED  BY <1>8, <2>1 DEF LoopExit, Live, TypeOK
<1>9. CASE LoopDone(l)  BY <1>9 DEF LoopDone, TypeOK
<1> HIDE DEF Reported, CurIsHeld, LoopLiveExact
<1> QED  BY <1>3, <1>4, <1>5, <1>6, <1>7, <1>8, <1>9, Zenon DEF LoopStep

\* ... and only the loop, its start and the end of the process write them.
LEMMA ReportedStep ==
  ASSUME TypeOK, Control, Reported, [Next]_vars PROVE Reported'
<1>0. ASSUME UNCHANGED <<cur, loopLive, lpc>>, ShownIsRunning' PROVE Reported'
  BY <1>0, Zenon DEF Reported, CurIsHeld, LoopLiveExact
<1>1. ASSUME UNCHANGED <<cur, loopLive, lpc, lsel, sel>> PROVE Reported'
  BY <1>0, <1>1, Zenon DEF Reported, ShownIsRunning, Live
<1>2. CASE Boot \/ BootFails \/ Terminate \/ Shutdown \/ UNCHANGED vars
  BY <1>1, <1>2, Zenon DEF Boot, BootFails, Terminate, Shutdown, vars
<1>3. CASE Exit \/ Crash
  BY <1>3, NullAssumption, Zenon DEF Exit, Crash, ProcessEnds, Reported, CurIsHeld, LoopLiveExact,
     ShownIsRunning, Live
<1>4. ASSUME NEW p \in Procs, OutsideMove(p) PROVE Reported'
  BY <1>1, <1>4, Zenon DEF OutsideMove, OutsideFrame
<1>5. ASSUME NEW p \in Procs, EnterStep(p) \/ Same(p) \/ Changed(p) PROVE Reported'
  BY <1>1, <1>5, Zenon DEF EnterStep, LeaveAlone, Compare, Cancel, Same, Changed, TakeLoop
<1>6. ASSUME NEW p \in Procs, Await(p) PROVE Reported'
  <2>1. connectMu = p /\ loopDone = NoLoop
    BY <1>6, Zenon DEF Await, Control, Mutex, Taken, Locked, Comparing
  <2>2. \A l \in Loops : ~Live(l)
    BY <1>6, <2>1, NullAssumption DEF Await, LoopEnded, Control, Known
  <2> QED  BY <1>0, <1>6, <2>2, Zenon DEF Await, ShownIsRunning, Live
<1>8. ASSUME NEW p \in Procs, Install(p) \/ TakeOut(p) \/ StopAll(p) PROVE Reported'
  BY <1>1, <1>8, Zenon DEF Install, TakeOut, StopAll
<1>9. ASSUME NEW p \in Procs, InstallFails(p) PROVE Reported'
  <2>1. \A l \in Loops : ~Live(l)  BY <1>9, Alone, Zenon DEF InstallFails, Quiesced
  <2> QED  BY <1>0, <1>9, <2>1, Zenon DEF InstallFails, ShownIsRunning, Live
<1>7. ASSUME NEW p \in Procs, Spawn(p) PROVE Reported'
  <2>1. \A l \in Loops : ~Live(l)  BY <1>7, Alone, Zenon DEF Spawn, Quiesced
  <2>2. ShownIsRunning'  BY <1>7, <2>1, Zenon DEF Spawn, ShownIsRunning, Live, TypeOK
  <2> QED  BY <1>7, <2>2, Zenon DEF Spawn, Live, TypeOK, Reported, CurIsHeld, LoopLiveExact
<1> QED
  BY <1>2, <1>3, <1>4, <1>5, <1>6, <1>7, <1>8, <1>9, OutsideMoves, ReportedLoop, Zenon
     DEF Next, RunStep, LockedStep, Procs
-----------------------------------------------------------------------------
\* The first start finds a box that nothing has touched.
LEMMA InitIInv == Init => IInv
<1> SUFFICES ASSUME Init PROVE IInv  BY Zenon
<1> USE NullAssumption
<1>1. TypeOK  BY Zenon DEF Init, TypeOK, Labels, Outside, LoopLabels
<1>2. Control
  BY Zenon DEF Init, Control, Mutex, Known, Taken, Dead, Locked, Quiesced, Comparing, Live
<1>3. Arguments
  BY Zenon DEF Init, Arguments, Locked, Quiesced, Comparing, Starting
<1>4. Lines  BY Zenon DEF Init, Lines, LineHeld, Switch, Live
<1>5. Kernel  BY Zenon DEF Init, Kernel
<1>6. Idle  BY Zenon DEF Init, Idle, Quiesced, Locked, Comparing, Live
<1>7. Reported  BY Zenon DEF Init, Reported, CurIsHeld, LoopLiveExact, ShownIsRunning, Live
<1> QED  BY <1>1, <1>2, <1>3, <1>4, <1>5, <1>6, <1>7, Zenon DEF IInv

\* The parts hold each other up.
LEMMA IInvStep == IInv /\ [Next]_vars => IInv'
<1> SUFFICES ASSUME IInv, [Next]_vars PROVE IInv'  BY Zenon
<1> USE DEF IInv
<1>1. TypeOK'  BY TypeStep, Zenon
<1>2. Control'  BY <1>1, ControlStep, Zenon
<1>3. Arguments'  BY <1>1, ArgumentsStep, Zenon
<1>4. Lines'  BY <1>1, LinesStep, Zenon
<1>5. Kernel'  BY KernelStep, Zenon
<1>6. Idle'  BY <1>1, <1>2, IdleStep, Zenon
<1>7. Reported'  BY ReportedStep, Zenon
<1> QED  BY <1>1, <1>2, <1>3, <1>4, <1>5, <1>6, <1>7, Zenon

\* The invariant holds always.
THEOREM Invariance == Spec => []IInv
BY InitIInv, IInvStep, PTL DEF Spec

\* What Daemon declares of its variables holds always.
THEOREM Types == Spec => []TypeOK
<1>1. IInv => TypeOK  BY Zenon DEF IInv
<1> QED  BY <1>1, Invariance, PTL

\* Two connect loops never live at once, however starts and stops interleave.
THEOREM AtMostOneLoop == Spec => []OneLoop
<1>1. IInv => OneLoop  BY Single, Zenon DEF IInv, OneLoop
<1> QED  BY <1>1, Invariance, PTL

\* Whatever runs can be stopped: by d.cancel, or by who waits in connectMu.
THEOREM Reachable == Spec => []NoOrphan
<1>1. IInv => NoOrphan
  BY DEF IInv, Lines, LineHeld, Control, Known, Live, NoOrphan
<1> QED  BY <1>1, Invariance, PTL

\* A selection with the kill switch is served behind it, and no other is.
THEOREM SwitchOnExactly == Spec => []SwitchStands
<1>1. IInv => SwitchStands  BY Zenon DEF IInv, Lines, Switch, SwitchStands
<1> QED  BY <1>1, Invariance, PTL

\* The own-address rules stand around every tun.
THEOREM RulesAroundTun == Spec => []InboundRules
<1>1. IInv => InboundRules
  BY Zenon DEF IInv, TypeOK, Lines, LineHeld, Switch, InboundRules
<1> QED  BY <1>1, Invariance, PTL

\* A daemon that says "idle" outside connectMu has left nothing behind that
\* the kernel let it remove.
THEOREM IdleLeavesNothing == Spec => []IdleIsOpen
<1>1. ASSUME IInv, connectMu = Free, state = "idle"
      PROVE  \A l \in Loops : lpc[l] = "none" /\ ~lown[l]
  <2>1. \A l \in Loops : ~Live(l)  BY <1>1, Zenon DEF IInv, Idle
  <2> QED  BY <1>1, <2>1 DEF IInv, Lines, LineHeld, Live
<1>2. ASSUME IInv, connectMu = Free, state = "idle"
      PROVE  sel = None /\ cur = NoLoop /\ ~ksOn
  <2>1. \A p \in Procs : pc[p] \notin Locked
    BY <1>2, NullAssumption, Zenon DEF IInv, Control, Mutex
  <2> QED  BY <1>1, <1>2, <2>1, Zenon DEF IInv, Idle, Reported, CurIsHeld, TypeOK
<1>3. ASSUME IInv, connectMu = Free, state = "idle", proc = "running", refused \subseteq {"save"}
      PROVE  ~ksIn /\ own = "none"
  BY <1>1, <1>2, <1>3 DEF IInv, Kernel
<1>4. IInv => IdleIsOpen  BY <1>1, <1>2, <1>3, Zenon DEF IdleIsOpen, Live
<1> QED  BY <1>4, Invariance, PTL

\* loopLive tells startStored and afterRefresh the truth.
THEOREM LoopLiveIsTrue == Spec => []LoopLiveExact
<1>1. IInv => LoopLiveExact  BY Zenon DEF IInv, Reported
<1> QED  BY <1>1, Invariance, PTL

\* d.sel, which status shows and remove decides by, is what runs, whoever
\* starts, stops and refreshes beside it.
THEOREM ShownSelectionRuns == Spec => []ShownIsRunning
<1>1. IInv => ShownIsRunning  BY Zenon DEF IInv, Reported
<1> QED  BY <1>1, Invariance, PTL

\* d.cur, which status reports, names a line whose loop has not let go of it.
THEOREM ReportedLineIsHeld == Spec => []CurIsHeld
<1>1. IInv => CurIsHeld  BY Zenon DEF IInv, Reported
<1> QED  BY <1>1, Invariance, PTL
-----------------------------------------------------------------------------
\* The switch opens only between loops and only for the reasons listed.
THEOREM SwitchOpensOnlyWhenTold == Spec => SwitchHeld
<1> DEFINE Allowed == /\ \A l \in Loops : ~Live(l)
                      /\ \/ proc # "running"
                         \/ ~(refused' \subseteq {"save"})
                         \/ \E p \in Procs : connectMu = p /\ arg[p] \notin KillSwitch
<1>1. ASSUME IInv, [Next]_vars, ksIn, ~ksIn' PROVE Allowed
  <2>1. CASE Boot \/ BootFails
    BY <2>1, <1>1, Zenon DEF Boot, BootFails, IInv, Control, Dead
  <2>2. ASSUME NEW p \in Procs, InstallFails(p) PROVE Allowed
    <3>1. PICK K \in (SUBSET {"add", "remove"}) \ {{}} : Refuse(K)  BY <2>2, Zenon DEF InstallFails
    <3>2. \E k \in K : k \in refused' /\ k # "save"  BY <3>1, Zenon
    <3>3. \A l \in Loops : ~Live(l)  BY <1>1, <2>2, Alone, Zenon DEF InstallFails, Quiesced, IInv
    <3> QED  BY <3>2, <3>3, Zenon
  <2>3. ASSUME NEW p \in Procs, TakeOut(p) \/ StopAll(p) PROVE Allowed
    <3>1. pc[p] = "takeOut"  BY <2>3, Zenon DEF TakeOut, StopAll
    <3>2. \A l \in Loops : ~Live(l)  BY <1>1, <3>1, Alone, Zenon DEF Quiesced, IInv
    <3>3. connectMu = p /\ arg[p] \notin KillSwitch
      BY <1>1, <3>1, Zenon DEF IInv, Control, Mutex, Arguments, Locked, Quiesced, Comparing
    <3> QED  BY <3>2, <3>3, Zenon
  <2>4. CASE UNCHANGED ksIn  BY <1>1, <2>4, Zenon
  <2>5. CASE Terminate \/ Shutdown \/ Exit \/ Crash \/ UNCHANGED vars
    BY <2>4, <2>5, Zenon DEF Terminate, Shutdown, Exit, Crash, ProcessEnds, vars
  <2>6. ASSUME NEW p \in Procs, OutsideMove(p) PROVE Allowed
    BY <2>4, <2>6 DEF OutsideMove, OutsideFrame
  <2>7. ASSUME NEW p \in Procs, EnterStep(p) \/ Same(p) \/ Changed(p) \/ Await(p) \/ Spawn(p)
        PROVE Allowed
    BY <2>4, <2>7 DEF EnterStep, LeaveAlone, Compare, Cancel, Same, Changed, TakeLoop, Await, Spawn
  <2>8. ASSUME NEW p \in Procs, Install(p) PROVE Allowed
    <3>1. CASE ksIn' = TRUE  BY <1>1, <3>1, Zenon
    <3> QED  BY <2>4, <2>8, <3>1, Zenon DEF Install
  <2>9. ASSUME NEW l \in Loops, LoopMove(l) PROVE Allowed
    BY <2>4, <2>9 DEF LoopMove
  <2> HIDE DEF Allowed
  <2>10. TypeOK  BY <1>1, Zenon DEF IInv
  <2> QED
    BY <1>1, <2>1, <2>2, <2>3, <2>5, <2>6, <2>7, <2>8, <2>9, <2>10, OutsideMoves, LoopMoves, Zenon
       DEF Next, RunStep, LockedStep, Procs
<1>2. IInv /\ [Next]_vars => (ksIn /\ ~ksIn' => Allowed)  BY <1>1, Zenon
<1> QED  BY <1>2, Invariance, PTL DEF Spec, SwitchHeld
-----------------------------------------------------------------------------
(* The daemon implements Session.                                          *)

\* The selections being connected.
Running == {lsel[l] : l \in {m \in Loops : Live(m)}}

\* A step maps to a step of Session or to a stutter.
LEMMA SessionStep ==
  ASSUME IInv, IInv', [Next]_vars PROVE [SessionOf!Next]_(SessionOf!vars)
<1> DEFINE Goal == [SessionOf!Next]_(SessionOf!vars)
<1> USE DEF IInv
<1>1. ASSUME Running' = Running, ksIn' = ksIn PROVE Goal
  BY <1>1, Zenon DEF SessionOf!vars, Running
<1>2. ASSUME Running = {}, Running' = {} PROVE Goal
  <2>1. ksIn \in BOOLEAN /\ ksIn' \in BOOLEAN  BY DEF TypeOK
  <2> QED
    BY <1>2, <2>1, Zenon DEF SessionOf!vars, SessionOf!Next, SessionOf!Shut, SessionOf!Open, Running
<1>3. ASSUME Running' = {}, ksIn' = ksIn PROVE Goal
  BY <1>3 DEF SessionOf!Next, SessionOf!End, Running
<1>4. ASSUME NEW s \in Selections, Running = {}, Running' = {s}, ksIn' = ksIn, s \in KillSwitch => ksIn
      PROVE Goal
  BY <1>4, Zenon DEF SessionOf!Next, SessionOf!Begin, Running
<1> HIDE DEF Goal, IInv
<1>5. ASSUME \A l \in Loops : ~Live(l), UNCHANGED lpc PROVE Goal
  BY <1>2, <1>5, Zenon DEF Running, Live
<1>6. ASSUME Boot \/ BootFails PROVE Goal
  BY <1>5, <1>6, Zenon DEF Boot, BootFails, IInv, Control, Dead
<1>7. ASSUME NEW p \in Procs, Install(p) \/ InstallFails(p) \/ TakeOut(p) \/ StopAll(p) PROVE Goal
  BY <1>5, <1>7, Alone, Zenon DEF Install, InstallFails, TakeOut, StopAll, Quiesced, IInv
<1>8. ASSUME NEW p \in Procs, Spawn(p) PROVE Goal
  <2>1. \A l \in Loops : ~Live(l)  BY <1>8, Alone DEF Spawn, Quiesced, IInv
  <2>2. PICK l \in Loops : LGoto(l, "round") /\ lsel' = [lsel EXCEPT ![l] = arg[p]]
    BY <1>8, Zenon DEF Spawn
  <2>3. Running = {}  BY <2>1, Zenon DEF Running
  <2>4. Running' = {arg[p]}
    BY <2>1, <2>2 DEF Running, Live, IInv, TypeOK
  <2>5. arg[p] \in Selections /\ (arg[p] \in KillSwitch => ksIn) /\ ksIn' = ksIn
    BY <1>8 DEF Spawn, IInv, Arguments, Lines, Switch, Locked, Quiesced, Comparing
  <2> QED  BY <1>4, <2>3, <2>4, <2>5, Zenon
<1>9. ASSUME Exit \/ Crash PROVE Goal
  BY <1>3, <1>9, Zenon DEF Exit, Crash, ProcessEnds, Running, Live
<1>10. ASSUME NEW l \in Loops, LoopMove(l) PROVE Goal
  <2>1. \A m \in Loops : Live(m) => m = l
    BY <1>10, Single DEF LoopMove, IInv
  <2>2. CASE lpc'[l] = "none"
    BY <1>3, <1>10, <2>1, <2>2 DEF LoopMove, Running, Live
  <2>3. CASE lpc'[l] # "none"
    BY <1>1, <1>10, <2>1, <2>3 DEF LoopMove, Running, Live
  <2> QED  BY <2>2, <2>3, Zenon
<1>11. ASSUME UNCHANGED <<lpc, lsel, ksIn>> PROVE Goal
  BY <1>1, <1>11, Zenon DEF Running, Live
<1>12. ASSUME Terminate \/ Shutdown \/ UNCHANGED vars PROVE Goal
  BY <1>11, <1>12, Zenon DEF Terminate, Shutdown, vars
<1>13. ASSUME NEW p \in Procs, OutsideMove(p) PROVE Goal
  BY <1>11, <1>13, Zenon DEF OutsideMove, OutsideFrame
<1>14. ASSUME NEW p \in Procs, EnterStep(p) \/ Same(p) \/ Changed(p) \/ Await(p) PROVE Goal
  BY <1>11, <1>14, Zenon DEF EnterStep, LeaveAlone, Compare, Cancel, Same, Changed, TakeLoop, Await
<1>15. TypeOK  BY Zenon DEF IInv
<1>16. Goal
  BY <1>6, <1>7, <1>8, <1>9, <1>10, <1>12, <1>13, <1>14, <1>15, OutsideMoves, LoopMoves, Zenon
     DEF Next, RunStep, LockedStep, Procs
<1> QED  BY <1>16, Zenon DEF Goal

\* At most one selection at a time, the next only after the last has ended,
\* and the box opened or closed only in between.
THEOREM Refinement == Spec => SessionSpec
<1>1. Init => SessionOf!Init  BY DEF Init, SessionOf!Init, Live
<1>2. IInv /\ IInv' /\ [Next]_vars => [SessionOf!Next]_(SessionOf!vars)  BY SessionStep, Zenon
<1> QED  BY <1>1, <1>2, Invariance, PTL DEF Spec, SessionSpec, SessionOf!Spec
=============================================================================
