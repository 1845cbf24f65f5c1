---------------------------- MODULE DesktopTypes -----------------------------
(***************************************************************************)
(* The parts of Desktop's inductive invariant, and the proof that types    *)
(* hold.                                                                   *)
(***************************************************************************)
EXTENDS Desktop, FiniteSetTheorems, TLAPS

(* Where a request holds the mutex, and where it is starting a session.      *)
Starting == {"core", "tun", "verify", "up", "fail"}
Holding  == Starting \cup {"change", "restart"}

(* Where the attempts have another line in the session's place.              *)
Trying == {"replace", "check", "checked", "unchecked"}
Away   == Trying \cup {"moved"}

(* Who is between two steps under the mutex holds it.                        *)
Locking ==
  /\ \A g \in Gens : pc[g] \in Holding <=> mutex = <<"request", g>>
  /\ \A g \in Gens : jobs[g].pc \in {"replace", "moved"} <=> mutex = <<"attempts", g>>

(* Requests are served for the newest only: the line's generation is that of *)
(* a start that got through, and the newest start that did is the line's.    *)
Served ==
  /\ lineGeneration > 0 =>
       req[lineGeneration] = "start" /\ pc[lineGeneration] \notin {"none", "wait", "restart"}
  /\ \A g \in Gens : pc[g] \in Holding => req[g] = "start"
  /\ \A g \in Gens : pc[g] \in Starting \cup {"change"} => lineGeneration = g
  /\ generation > 0 /\ req[generation] = "start" /\ pc[generation] \notin {"wait", "restart"} =>
       lineGeneration = generation

(* What a session has, and what a start has while it makes one.              *)
Made ==
  /\ sessionLine # None => tun # 0
  /\ status = "connected" => sessionLine # None /\ job = None
  /\ job # None => sessionLine # None /\ job = lineGeneration
  /\ \A g \in Gens :
       /\ pc[g] \in Starting => sessionLine = None /\ status \in {"connecting", "reconnecting"}
       /\ pc[g] \in {"core", "tun", "verify", "up"} => loc # None
       /\ pc[g] \in {"core", "tun"} => tun = 0
       /\ pc[g] \in {"verify", "up"} => tun # 0
       /\ pc[g] = "restart" => sessionLine = None /\ status = "stopping" /\ tun = 0
       /\ pc[g] = "change" => sessionLine # None /\ status = "reconnecting" /\ job = None

(* The attempts: at most the newest are current, and what they have in hand  *)
(* is the session's.                                                         *)
Tried ==
  /\ \A g \in Gens : jobs[g].pc # "idle" =>
       /\ g <= lineGeneration /\ jobs[g].line # None
       /\ jobs[g].pc \in Away \cup {"trying"} => jobs[g].next # None
       /\ g = job \/ g < lineGeneration \/ sessionLine = None
  /\ \A g, h \in Gens : pc[g] \in Starting \cup {"change"} /\ jobs[h].pc # "idle" => h < g
  /\ \A g \in Gens : jobs[g].pc \in {"replace", "moved"} => job = g
  /\ \A g \in Gens : job = g /\ jobs[g].pc # "idle" =>
       sessionLine = IF jobs[g].pc \in Away THEN jobs[g].next ELSE jobs[g].line
  /\ \A r \in coreReports : r[2] <= lineGeneration
  /\ coreWatch # None => coreWatch[2] <= lineGeneration

(* Which core runs.                                                          *)
Cores ==
  /\ \A g \in Gens : pc[g] = "core" => run = None
  /\ \A g \in Gens : pc[g] \in {"tun", "verify", "up"} => run \in {None, loc}
  /\ (\A g \in Gens : pc[g] # "change" /\ jobs[g].pc # "replace") /\ sessionLine # None =>
       run \in {None, sessionLine[1]}
  /\ (\A g \in Gens : pc[g] \notin Starting) /\ sessionLine = None => run = None

(* Which line the store names.                                               *)
Named ==
  /\ sessionLine # None /\ ~chosen /\ Current(lineGeneration) =>
       IF \E g \in Gens : job = g /\ jobs[g].pc \in Trying
         THEN active = jobs[job].line[1]
         ELSE active = sessionLine[1]
  /\ \A g \in Gens : pc[g] \in {"core", "tun", "verify", "up"} /\ ~chosen /\ Current(g) => loc = active

(* Who is bringing the line back.                                            *)
Reconnecting ==
  status = "reconnecting" =>
    \/ \E g \in Gens : pc[g] \in Starting \cup {"change"}
    \/ generation # lineGeneration /\ pc[generation] = "wait"
    \/ job \in Gens /\ job = generation /\ jobs[job].pc # "idle"

(* What a Disconnect leaves, until the next request.                         *)
Stopped ==
  generation > 0 /\ req[generation] = "stop" /\ pc[generation] = "done" =>
    /\ sessionLine = None /\ tun = 0 /\ run = None /\ status \in {"off", "held"}
    /\ \A g \in Gens : pc[g] \notin Holding

(* The block.                                                                *)
Blocked ==
  /\ status \in {"off", "error"} => tun = 0 /\ ~block
  /\ block => held \/ status \in {"connected", "connecting", "reconnecting"}
  /\ held => sessionLine = None
  /\ owed => /\ block /\ ks
             /\ held \/ (sessionLine # None /\ tun # 0 /\ ~tunAlive /\ started)
  /\ \A g \in Gens : pc[g] \in {"verify", "up"} /\ ks => started

-----------------------------------------------------------------------------
(* New objects.                                                              *)

(* The image of a finite set is finite.                                      *)
LEMMA FiniteImage ==
  ASSUME NEW S, IsFiniteSet(S), NEW f, f \in [S -> {f[x] : x \in S}]
  PROVE  IsFiniteSet({f[x] : x \in S})
<1> DEFINE T == {f[x] : x \in S}
<1>1. f \in Surjection(S, T)  BY Zenon DEF Surjection
<1> HIDE DEF T
<1>2. IsFiniteSet(T)  BY <1>1, FS_Surjection, Zenon
<1> QED  BY <1>2, Zenon DEF T

(* Some identity is not in use.                                              *)
LEMMA FreshIsNew ==
  ASSUME NEW S, IsFiniteSet(S) PROVE Fresh(S) \in Ids /\ Fresh(S) \notin S
<1> DEFINE n == Cardinality(S) + 1
<1>1. Cardinality(S) \in Nat  BY FS_CardinalityType, Zenon
<1>2. IsFiniteSet(1..n) /\ Cardinality(1..n) = n  BY <1>1, FS_Interval
<1>3. ~(1..n \subseteq S)  BY <1>1, <1>2, FS_Subset
<1>4. \E m \in 1..n : m \notin S  BY <1>3, Zenon
<1>5. Fresh(S) \in 1..n /\ Fresh(S) \notin S  BY <1>4, Zenon DEF Fresh
<1> QED  BY <1>1, <1>5 DEF Ids

(* NewLine and NewTun make what they are asked for.                          *)
LEMMA New ==
  ASSUME TypeOK
  PROVE  /\ \A l \in Locations : NewLine(l) \in Lines /\ NewLine(l)[1] = l
         /\ NewTun \in Ids
<1> DEFINE line == [g \in Gens |-> jobs[g].line]
           next == [g \in Gens |-> jobs[g].next]
           seen == [r \in coreReports |-> r[1]]
           watched == IF coreWatch = None THEN {} ELSE {coreWatch[1]}
<1>1. IsFiniteSet(Gens)  BY BoundsAssumption, FS_Interval DEF Gens
<1>2. IsFiniteSet({line[g] : g \in Gens}) /\ IsFiniteSet({next[g] : g \in Gens})
  <2>1. line \in [Gens -> {line[g] : g \in Gens}] /\ next \in [Gens -> {next[g] : g \in Gens}]
    BY Zenon
  <2> HIDE DEF line, next
  <2> QED  BY <1>1, <2>1, FiniteImage
<1>3. IsFiniteSet({seen[r] : r \in coreReports})
  <2>1. seen \in [coreReports -> {seen[r] : r \in coreReports}]  BY Zenon
  <2>2. IsFiniteSet(coreReports)  BY Zenon DEF TypeOK, WorkTypes
  <2> HIDE DEF seen
  <2> QED  BY <2>1, <2>2, FiniteImage, Zenon
<1>4. IsFiniteSet(watched) /\ IsFiniteSet({sessionLine})  BY FS_EmptySet, FS_Singleton
<1>5. IsFiniteSet(Referred)
  <2>1. Referred = {sessionLine} \cup {line[g] : g \in Gens} \cup {next[g] : g \in Gens}
                     \cup watched \cup {seen[r] : r \in coreReports}
    BY Zenon DEF Referred
  <2> HIDE DEF line, next, watched, seen
  <2> QED  BY <1>2, <1>3, <1>4, <2>1, FS_Union
<1>6. ASSUME NEW l \in Locations PROVE NewLine(l) \in Lines /\ NewLine(l)[1] = l
  <2> DEFINE S == {x \in Referred \ {None} : x[1] = l}
             id == [r \in S |-> r[2]]
  <2>1. IsFiniteSet(S)  BY <1>5, FS_Subset, Zenon
  <2>2. id \in [S -> {id[r] : r \in S}]  BY Zenon
  <2>3. IsFiniteSet({id[r] : r \in S})
    <3> HIDE DEF S, id
    <3> QED  BY <2>1, <2>2, FiniteImage, Zenon
  <2>4. {id[r] : r \in S} = {r[2] : r \in S}  OBVIOUS
  <2>5. Fresh({r[2] : r \in S}) \in Ids  BY <2>3, <2>4, FreshIsNew, Zenon
  <2> QED  BY <1>6, <2>5, Zenon DEF NewLine, Lines
<1>7. NewTun \in Ids  BY FreshIsNew, Zenon DEF NewTun, TypeOK, WorkTypes
<1> QED  BY <1>6, <1>7, Zenon

-----------------------------------------------------------------------------
(* Types.                                                                    *)
USE DEF asked, session, procs, work, watch, switch, vars, Gens, Ids

(* What a step leaves alone stays typed.                                     *)
LEMMA TypeFrame ==
  ASSUME TypeOK
  PROVE  /\ UNCHANGED <<generation, lineGeneration, req, pc, mutex>> => RequestTypes'
         /\ UNCHANGED <<status, sessionLine, run, loc, active, tun, tunAlive, tunWatch, chosen, fits>> =>
              SessionTypes'
         /\ UNCHANGED <<job, jobs, coreWatch, coreReports, tunReports>> => WorkTypes'
         /\ UNCHANGED <<ks, started, held, block, owed, deaths>> => SwitchTypes'
<1> USE DEF TypeOK
<1>1. ASSUME UNCHANGED <<generation, lineGeneration, req, pc, mutex>> PROVE RequestTypes'
  BY <1>1, Zenon DEF RequestTypes
<1>2. ASSUME UNCHANGED <<status, sessionLine, run, loc, active, tun, tunAlive, tunWatch, chosen, fits>>
      PROVE  SessionTypes'
  BY <1>2, Zenon DEF SessionTypes
<1>3. ASSUME UNCHANGED <<job, jobs, coreWatch, coreReports, tunReports>> PROVE WorkTypes'
  BY <1>3, Zenon DEF WorkTypes
<1>4. ASSUME UNCHANGED <<ks, started, held, block, owed, deaths>> PROVE SwitchTypes'
  BY <1>4, Zenon DEF SwitchTypes
<1> QED  BY <1>1, <1>2, <1>3, <1>4, Zenon

(* A cancelled coroutine is a coroutine or none.                             *)
LEMMA CancelledTypes == ASSUME TypeOK PROVE Cancelled \in [Gens -> Job]
BY Zenon DEF Cancelled, TypeOK, WorkTypes, Job, Idle, JobPlaces

(* Where a request that was issued goes on.                                  *)
LEMMA GoOn ==
  ASSUME RequestTypes, NEW g \in Gens, pc[g] # "none", NEW p \in Places \ {"none"},
         \/ Done(g) \/ On(g, p) \/ Fails(g),
         UNCHANGED <<generation, req>>, lineGeneration' \in 0..generation
  PROVE  RequestTypes'
<1>1. PICK q \in Places \ {"none"} : pc' = [pc EXCEPT ![g] = q]
  BY Zenon DEF Done, On, Fails, Places
<1>2. pc' \in [Gens -> Places] /\ \A h \in Gens : pc'[h] = "none" <=> pc[h] = "none"
  BY <1>1, Zenon DEF RequestTypes
<1>3. mutex' \in ({"request", "attempts"} \X Gens) \cup {None}
  BY DEF Done, On, Fails, RequestTypes
<1> QED  BY <1>2, <1>3, Zenon DEF RequestTypes

(* What stopDesktopMode leaves is typed.                                     *)
LEMMA StopTypes ==
  ASSUME TypeOK, NEW final \in BOOLEAN, NEW s \in {"off", "error", "stopping"}, StopMode(final, s),
         UNCHANGED <<asked, deaths>>, loc' \in {loc, None},
         tunReports' \subseteq tunReports, IsFiniteSet(tunReports')
  PROVE  SessionTypes' /\ WorkTypes' /\ SwitchTypes'
<1>1. WorkTypes'  BY CancelledTypes, Zenon DEF StopMode, CancelJobs, TypeOK, WorkTypes
<1>2. SwitchTypes'  BY DEF StopMode, KeepsBlock, LeftStanding, TypeOK, SwitchTypes
<1>3. status' \in {"off", "connecting", "connected", "reconnecting", "stopping", "error", "held"}
  BY Zenon DEF StopMode, Shown
<1>4. SessionTypes'  BY <1>3 DEF StopMode, CancelJobs, TypeOK, SessionTypes
<1> QED  BY <1>1, <1>2, <1>4, Zenon

(* Requests ...                                                              *)
LEMMA TypeRequest ==
  ASSUME TypeOK, Made, NEW g \in Gens, Request(g) PROVE TypeOK'
<1> USE BoundsAssumption, NoneAssumption
<1>0. generation \in Nat /\ lineGeneration \in 0..generation
  BY DEF TypeOK, RequestTypes
<1>a. ASSUME NEW p \in Places, Lock(g) \/ At(g, p) \/ pc[g] = p, p # "none" PROVE pc[g] # "none"
  BY <1>a, Zenon DEF Lock, At
<1> USE DEF TypeOK
<1>1. CASE Stop(g)
  <2>1. RequestTypes'  BY <1>1, <1>0, GoOn, Zenon DEF Stop, Lock, Places
  <2>2. CASE StopMode(TRUE, "off")  BY <1>1, <2>1, <2>2, StopTypes DEF Stop, WorkTypes
  <2>3. CASE ~StopMode(TRUE, "off")
    BY <1>1, <2>1, <2>3, CancelledTypes DEF Stop, CancelJobs, SessionTypes, WorkTypes, SwitchTypes
  <2> QED  BY <2>2, <2>3
<1>2. CASE Superseded(g)
  BY <1>2, <1>0, GoOn DEF Superseded, Lock, Places, SessionTypes, WorkTypes, SwitchTypes
<1>3. CASE ChangeLine(g)
  <2>1. NewLine(active) \in Lines  BY New, Zenon DEF SessionTypes
  <2>2. RequestTypes'  BY <1>3, <1>0, GoOn DEF ChangeLine, Lock, Current, Places
  <2>3. SessionTypes'  BY <1>3, <2>1, Zenon DEF ChangeLine, Take, SessionTypes
  <2> QED
    BY <1>3, <2>2, <2>3, CancelledTypes, Zenon DEF ChangeLine, Take, WorkTypes, SwitchTypes
<1>4. CASE Changed(g)
  <2>1. RequestTypes'  BY <1>4, <1>0, GoOn, Zenon DEF Changed, At, Places
  <2>2. sessionLine \in Lines  BY <1>4, Zenon DEF Changed, At, Made, SessionTypes
  <2>3. SessionTypes'  BY <1>4, <2>2, Zenon DEF Changed, SessionTypes, Lines
  <2>4. ASSUME NEW at \in {"wait", "confirm"}, Launch(sessionLine, g, at) PROVE WorkTypes'
    BY <1>4, <2>2, <2>4 DEF Changed, Launch, WorkTypes, Job, JobPlaces, Idle
  <2>5. WorkTypes'  BY <1>4, <2>4, Zenon DEF Changed, WorkTypes
  <2> QED  BY <1>4, <2>1, <2>3, <2>5, Zenon DEF Changed, SwitchTypes
<1>5. CASE Restart(g)
  <2>1. RequestTypes'  BY <1>5, <1>0, GoOn, Zenon DEF Restart, Lock, Places
  <2> QED  BY <1>5, <2>1, StopTypes DEF Restart, WorkTypes
<1>6. CASE Begin(g)
  <2>1. RequestTypes'  BY <1>6, <1>0, GoOn DEF Begin, Lock, At, Current, Places
  <2>2. SessionTypes'
    <3>1. CASE Current(g)  BY <1>6, <3>1, Zenon DEF Begin, SessionTypes
    <3>2. CASE ~Current(g)  BY <1>6, <3>2, Zenon DEF Begin, SessionTypes
    <3> QED  BY <3>1, <3>2, Zenon
  <2> QED  BY <1>6, <2>1, <2>2, Zenon DEF Begin, WorkTypes, SwitchTypes
<1>b. CASE NoLocation(g)
  <2>1. RequestTypes'  BY <1>b, <1>0, GoOn DEF NoLocation, Lock, At, Current, Places
  <2>2. status' \in {"error", "held"}  BY <1>b, Zenon DEF NoLocation, Shown
  <2>3. SessionTypes'  BY <1>b, <2>2 DEF NoLocation, SessionTypes
  <2> QED  BY <1>b, <2>1, <2>3, Zenon DEF NoLocation, WorkTypes, SwitchTypes
<1>7. CASE StartCore(g)
  <2>1. RequestTypes'  BY <1>7, <1>0, GoOn, Zenon DEF StartCore, At, Places
  <2> QED  BY <1>7, <2>1 DEF StartCore, SessionTypes, WorkTypes, SwitchTypes
<1>8. CASE StartTun(g)
  <2>1. NewTun \in Ids  BY New, Zenon
  <2>2. RequestTypes'  BY <1>8, <1>0, GoOn, Zenon DEF StartTun, At, Places
  <2>3. tunWatch' \in {0, tun'}
    BY <1>8, Zenon DEF StartTun, At, Made, SessionTypes
  <2>4. SessionTypes'  BY <1>8, <2>1, <2>3, Zenon DEF StartTun, SessionTypes
  <2> QED  BY <1>8, <2>2, <2>4, Zenon DEF StartTun, WorkTypes, SwitchTypes
<1>9. CASE TunFails(g)
  <2>1. RequestTypes'  BY <1>9, <1>0, GoOn, Zenon DEF TunFails, At, Places
  <2> QED  BY <1>9, <2>1 DEF TunFails, SessionTypes, WorkTypes, SwitchTypes
<1>10. CASE Verify(g)
  <2>1. RequestTypes'  BY <1>10, <1>0, GoOn, Zenon DEF Verify, At, Places
  <2> QED  BY <1>10, <2>1 DEF Verify, SessionTypes, WorkTypes, SwitchTypes
<1>11. CASE Connected(g)
  <2>1. RequestTypes'  BY <1>11, <1>0, GoOn, Zenon DEF Connected, At, Places
  <2>2. NewLine(loc) \in Lines  BY <1>11, New, Zenon DEF Connected, At, Made, SessionTypes
  <2> QED  BY <1>11, <2>1, <2>2 DEF Connected, Up, SessionTypes, WorkTypes, SwitchTypes
<1>12. CASE Failed(g)
  <2>1. RequestTypes'  BY <1>12, <1>0, GoOn, Zenon DEF Failed, At, Places
  <2> QED  BY <1>12, <2>1, StopTypes DEF Failed, WorkTypes
<1> QED
  BY <1>1, <1>2, <1>3, <1>4, <1>5, <1>6, <1>b, <1>7, <1>8, <1>9, <1>10, <1>11, <1>12, Zenon
     DEF Request

(* A step of the attempts that touches nothing but their own coroutine: it   *)
(* ends, unless it is the current one, or goes on with the line it has.      *)
JobMove(g) ==
  /\ UNCHANGED <<asked, pc, mutex, session, procs, job, watch, switch, loc, deaths>>
  /\ jobs[g].pc \notin {"idle", "replace", "moved"}
  /\ \E new \in Job :
       /\ jobs' = [jobs EXCEPT ![g] = new]
       /\ new.pc \notin {"replace", "moved"}
       /\ \/ new.pc = "idle" /\ ~(job = g /\ Current(g))
          \/ /\ new.pc # "idle" /\ new.line = jobs[g].line
             /\ new.pc \in Away <=> jobs[g].pc \in Away
             /\ new.pc \in Away => new.next = jobs[g].next
             /\ new.pc = "trying" => new.next # None

LEMMA JobMoves ==
  ASSUME TypeOK, Tried, NEW g \in Gens,
         \/ Check(g) \/ Failure(g) \/ Look(g) \/ Checked(g) \/ TrialOver(g) \/ Waited(g)
         \/ Confirm(g) /\ ~(Mine(g) /\ run # None)
         \/ Try(g) /\ ~(Mine(g) /\ tunAlive)
         \/ Restore(g) /\ ~(Mine(g) /\ run = None)
  PROVE  JobMove(g)
<1> USE NoneAssumption
<1>0. jobs \in [Gens -> Job] /\ jobs[g] \in Job /\ Idle \in Job
  BY Zenon DEF TypeOK, WorkTypes, Job, JobPlaces, Idle
<1> DEFINE Frame == UNCHANGED <<asked, pc, mutex, session, procs, job, watch, switch, loc, deaths>>
<1>1. ASSUME Frame, jobs[g].pc \notin {"idle", "replace", "moved"}, End(g), ~(job = g /\ Current(g))
      PROVE  JobMove(g)
  BY <1>0, <1>1 DEF JobMove, End, Idle
<1>2. ASSUME Frame, jobs[g].pc \notin {"idle", "replace", "moved"}, NEW new \in Job,
             jobs' = [jobs EXCEPT ![g] = new],
             new.pc \notin {"idle", "replace", "moved"}, new.line = jobs[g].line,
             new.pc \in Away <=> jobs[g].pc \in Away,
             new.pc \in Away => new.next = jobs[g].next,
             new.pc = "trying" => new.next # None
      PROVE  JobMove(g)
  BY <1>2 DEF JobMove
<1>3. ASSUME Frame, jobs[g].pc \notin {"idle", "replace", "moved"},
             NEW p \in JobPlaces \ {"idle", "replace", "moved", "trying"}, Go(g, p),
             p \in Away <=> jobs[g].pc \in Away
      PROVE  JobMove(g)
  <2> DEFINE new == [jobs[g] EXCEPT !.pc = p]
  <2>1. new \in Job /\ new.pc = p /\ new.line = jobs[g].line /\ new.next = jobs[g].next
    BY <1>0, Zenon DEF Job
  <2>2. jobs' = [jobs EXCEPT ![g] = new]  BY <1>0, <1>3, Zenon DEF Go
  <2> HIDE DEF new
  <2> QED  BY <1>2, <1>3, <2>1, <2>2
<1>4. ASSUME job = g, Current(g), jobs[g].pc # "idle", jobs[g].pc \notin Away PROVE Mine(g)
  BY <1>4, Zenon DEF Tried, Mine, J
<1>5. CASE Check(g)
  BY <1>1, <1>3, <1>5, Zenon DEF Check, J, JobPlaces, Away, Trying
<1>6. CASE Failure(g)
  <2>1. CASE ~Mine(g)
    BY <1>1, <1>4, <1>6, <2>1, Zenon DEF Failure, J, Away, Trying
  <2>2. CASE Mine(g) /\ Go(g, "wait")
    BY <1>3, <1>6, <2>2, Zenon DEF Failure, J, JobPlaces, Away, Trying
  <2>3. CASE Mine(g) /\ ~Go(g, "wait")
    <3> DEFINE new == [jobs[g] EXCEPT !.pc = "look", !.left = Locations \ {active}]
    <3>1. new \in Job /\ new.pc = "look" /\ new.line = jobs[g].line /\ new.next = jobs[g].next
      BY <1>0 DEF Job, JobPlaces
    <3>2. jobs' = [jobs EXCEPT ![g] = new]  BY <1>0, <1>6, <2>3 DEF Failure
    <3> HIDE DEF new
    <3> QED  BY <1>2, <1>6, <3>1, <3>2 DEF Failure, J, Away, Trying
  <2> QED  BY <2>1, <2>2, <2>3, Zenon
<1>7. CASE Look(g)
  <2>1. CASE ~Mine(g)
    BY <1>1, <1>4, <1>7, <2>1 DEF Look, J, Away, Trying
  <2>2. ASSUME jobs' = [jobs EXCEPT ![g].pc = "wait", ![g].left = {}] PROVE JobMove(g)
    <3> DEFINE new == [jobs[g] EXCEPT !.pc = "wait", !.left = {}]
    <3>1. new \in Job /\ new.pc = "wait" /\ new.line = jobs[g].line /\ new.next = jobs[g].next
      BY <1>0 DEF Job, JobPlaces
    <3>2. jobs' = [jobs EXCEPT ![g] = new]  BY <1>0, <2>2
    <3> HIDE DEF new
    <3> QED  BY <1>2, <1>7, <3>1, <3>2 DEF Look, J, Away, Trying
  <2>3. ASSUME NEW l \in J(g).left,
               jobs' = [jobs EXCEPT ![g].pc = "trying", ![g].next = NewLine(l), ![g].left = @ \ {l}]
        PROVE JobMove(g)
    <3> DEFINE new == [jobs[g] EXCEPT !.pc = "trying", !.next = NewLine(l), !.left = @ \ {l}]
    <3>1. NewLine(l) \in Lines  BY <1>0, <2>3, New, Zenon DEF J, Job
    <3>2. new \in Job /\ new.pc = "trying" /\ new.line = jobs[g].line /\ new.next # None
      BY <1>0, <3>1 DEF Job, JobPlaces
    <3>3. jobs' = [jobs EXCEPT ![g] = new]  BY <1>0, <2>3
    <3> HIDE DEF new
    <3> QED  BY <1>2, <1>7, <3>2, <3>3 DEF Look, J, Away, Trying
  <2> QED  BY <1>7, <2>1, <2>2, <2>3 DEF Look
<1>8. CASE Checked(g) \/ Waited(g)
  BY <1>3, <1>8 DEF Checked, Waited, J, JobPlaces, Away, Trying
<1>9. CASE TrialOver(g)
  <2>1. ~(job = g /\ Current(g))  BY <1>9, Zenon DEF TrialOver, OnTrial, Tried, J, Away, Trying
  <2> QED  BY <1>1, <1>9, <2>1 DEF TrialOver, J
<1>10. CASE Confirm(g) /\ ~(Mine(g) /\ run # None)
  BY <1>1, <1>3, <1>4, <1>10, Zenon DEF Confirm, J, JobPlaces, Away, Trying
<1>11. CASE Try(g) /\ ~(Mine(g) /\ tunAlive)
  <2>1. CASE ~Mine(g)
    BY <1>1, <1>4, <1>11, <2>1, Zenon DEF Try, J, Away, Trying
  <2>2. CASE Mine(g)
    <3> DEFINE new == [jobs[g] EXCEPT !.pc = "wait", !.next = None, !.left = {}]
    <3>1. new \in Job /\ new.pc = "wait" /\ new.line = jobs[g].line
      BY <1>0 DEF Job, JobPlaces
    <3>2. jobs' = [jobs EXCEPT ![g] = new]  BY <1>0, <1>11, <2>2 DEF Try
    <3> HIDE DEF new
    <3> QED  BY <1>2, <1>11, <2>2, <3>1, <3>2 DEF Try, J, Away, Trying
  <2> QED  BY <2>1, <2>2, Zenon
<1>12. CASE Restore(g) /\ ~(Mine(g) /\ run = None)
  BY <1>1, <1>3, <1>4, <1>12, Zenon DEF Restore, J, JobPlaces, Away, Trying
<1> QED  BY <1>5, <1>6, <1>7, <1>8, <1>9, <1>10, <1>11, <1>12, Zenon

(* A coroutine of attempts goes to p with the line, and the other, it has.   *)
JobTo(g, p) ==
  \E new \in Job :
    /\ jobs' = [jobs EXCEPT ![g] = new]
    /\ new.pc = p
    /\ p # "idle" => new.line = jobs[g].line
    /\ p \in Away => new.next = jobs[g].next

LEMMA JobGoes ==
  ASSUME TypeOK, NEW g \in Gens
  PROVE  /\ \A p \in JobPlaces : Go(g, p) => JobTo(g, p)
         /\ \A p \in {"look", "wait"} : Again(g, p) => JobTo(g, p)
         /\ End(g) => JobTo(g, "idle")
<1>0. jobs \in [Gens -> Job] /\ jobs[g] \in Job /\ Idle \in Job
  BY Zenon DEF TypeOK, WorkTypes, Job, JobPlaces, Idle
<1>1. ASSUME NEW p \in JobPlaces, Go(g, p) PROVE JobTo(g, p)
  <2> DEFINE new == [jobs[g] EXCEPT !.pc = p]
  <2>1. new \in Job /\ new.pc = p /\ new.line = jobs[g].line /\ new.next = jobs[g].next
    BY <1>0, Zenon DEF Job
  <2>2. jobs' = [jobs EXCEPT ![g] = new]  BY <1>0, <1>1, Zenon DEF Go
  <2> HIDE DEF new
  <2> QED  BY <2>1, <2>2 DEF JobTo
<1>2. ASSUME NEW p \in {"look", "wait"}, Again(g, p) PROVE JobTo(g, p)
  <2> DEFINE new == [jobs[g] EXCEPT !.pc = p, !.next = None, !.left = IF p = "wait" THEN {} ELSE @]
  <2>1. new \in Job /\ new.pc = p /\ new.line = jobs[g].line
    BY <1>0, <1>2 DEF Job, JobPlaces
  <2>2. jobs' = [jobs EXCEPT ![g] = new]  BY <1>0, <1>2 DEF Again
  <2> HIDE DEF new
  <2> QED  BY <1>2, <2>1, <2>2 DEF JobTo, Away, Trying
<1>3. ASSUME End(g) PROVE JobTo(g, "idle")
  BY <1>0, <1>3 DEF End, JobTo, Idle, Away, Trying
<1> QED  BY <1>1, <1>2, <1>3, Zenon

(* ... attempts ...                                                          *)
LEMMA TypeAttempts ==
  ASSUME TypeOK, Tried, NEW g \in Gens, Attempts(g) PROVE TypeOK'
<1> USE NoneAssumption
<1>0. jobs \in [Gens -> Job]  BY Zenon DEF TypeOK, WorkTypes
<1>1. ASSUME JobMove(g) PROVE TypeOK'
  <2>1. jobs' \in [Gens -> Job]  BY <1>0, <1>1 DEF JobMove
  <2> QED  BY <1>1, <2>1 DEF JobMove, TypeOK, RequestTypes, SessionTypes, WorkTypes, SwitchTypes
<1>2. ASSUME NEW p, JobTo(g, p) PROVE jobs' \in [Gens -> Job]
  BY <1>0, <1>2, Zenon DEF JobTo
<1>3. ASSUME jobs[g].pc # "idle" PROVE jobs[g].line \in Lines
  BY <1>0, <1>3, Zenon DEF Tried, Job
<1>4. ASSUME jobs[g].pc \in Away \cup {"trying"} PROVE jobs[g].next \in Lines
  BY <1>0, <1>4, Zenon DEF Tried, Job, Away, Trying
<1> USE DEF TypeOK, J
<1>5. CASE Confirm(g) /\ Mine(g) /\ run # None
  <2>1. jobs' \in [Gens -> Job] /\ jobs[g].line \in Lines  BY JobGoes, <1>2, <1>3, <1>5, Zenon DEF Confirm
  <2>2. RequestTypes'  BY <1>5, Zenon DEF Confirm, RequestTypes
  <2>3. WorkTypes'  BY <1>5, <2>1 DEF Confirm, Up, WorkTypes
  <2> QED  BY <1>5, <2>2, <2>3 DEF Confirm, Up, SessionTypes, SwitchTypes
<1>6. CASE Try(g) /\ Mine(g) /\ tunAlive
  <2>1. jobs' \in [Gens -> Job] /\ jobs[g].next \in Lines  BY JobGoes, <1>2, <1>4, <1>6, Zenon DEF Try, JobPlaces
  <2> QED  BY <1>6, <2>1 DEF Try, Take, RequestTypes, SessionTypes, WorkTypes, SwitchTypes
<1>7. CASE Replace(g)
  <2>1. jobs' \in [Gens -> Job]  BY JobGoes, <1>2, <1>7, Zenon DEF Replace, JobPlaces
  <2>2. jobs[g].next[1] \in Locations /\ jobs[g].line \in Lines
    BY <1>3, <1>4, <1>7, Zenon DEF Replace, Away, Trying, Lines
  <2> QED
    BY <1>7, <2>1, <2>2 DEF Replace, Back, RequestTypes, SessionTypes, WorkTypes, SwitchTypes
<1>8. CASE TrialFails(g) \/ TrialNotStored(g)
  <2>1. jobs' \in [Gens -> Job]  BY JobGoes, <1>2, <1>8, Zenon DEF TrialFails, TrialNotStored
  <2>2. jobs[g].line \in Lines  BY <1>3, <1>8 DEF TrialFails, TrialNotStored
  <2>3. RequestTypes' /\ SwitchTypes'
    BY <1>8, TypeFrame, Zenon DEF TrialFails, TrialNotStored
  <2>4. WorkTypes'  BY <1>8, <2>1 DEF TrialFails, TrialNotStored, WorkTypes
  <2>5. SessionTypes'  BY <1>8, <2>2 DEF TrialFails, TrialNotStored, Back, SessionTypes
  <2> QED  BY <2>3, <2>4, <2>5
<1>9. CASE TrialMoves(g)
  <2>1. jobs' \in [Gens -> Job]  BY JobGoes, <1>2, <1>9 DEF TrialMoves, JobPlaces
  <2>2. jobs[g].next[1] \in Locations  BY <1>4, <1>9, Zenon DEF TrialMoves, Away, Trying, Lines
  <2> QED
    BY <1>9, <2>1, <2>2 DEF TrialMoves, RequestTypes, SessionTypes, WorkTypes, SwitchTypes
<1>10. CASE Moved(g)
  <2>1. jobs' \in [Gens -> Job]  BY JobGoes, <1>2, <1>10, Zenon DEF Moved
  <2>2. jobs[g].next \in Lines  BY <1>4, <1>10, Zenon DEF Moved, Away
  <2>3. RequestTypes'  BY <1>10, Zenon DEF Moved, RequestTypes
  <2>4. WorkTypes'  BY <1>10, <2>1, <2>2 DEF Moved, Up, WorkTypes
  <2>5. SessionTypes'  BY <1>10, Zenon DEF Moved, Up, SessionTypes
  <2>6. SwitchTypes'  BY <1>10 DEF Moved, Up, SwitchTypes
  <2> QED  BY <2>3, <2>4, <2>5, <2>6, Zenon
<1>a. CASE MovedNotUp(g)
  <2>1. jobs[g].next \in Lines  BY <1>4, <1>a, Zenon DEF MovedNotUp, Away
  <2>2. WorkTypes'  BY <1>a, <2>1 DEF MovedNotUp, Launch, WorkTypes, Job, JobPlaces, Idle
  <2>3. RequestTypes' /\ SwitchTypes'  BY <1>a, TypeFrame, Zenon DEF MovedNotUp, RequestTypes
  <2> QED  BY <1>a, <2>2, <2>3, Zenon DEF MovedNotUp, SessionTypes
<1>11. CASE Restore(g) /\ Mine(g) /\ run = None
  <2>1. jobs' \in [Gens -> Job]  BY JobGoes, <1>2, <1>11, Zenon DEF Restore, JobPlaces
  <2>2. jobs[g].line[1] \in Locations  BY <1>3, <1>11, Zenon DEF Restore, Lines
  <2> QED
    BY <1>11, <2>1, <2>2 DEF Restore, RequestTypes, SessionTypes, WorkTypes, SwitchTypes
<1> QED
  BY <1>1, <1>5, <1>6, <1>7, <1>8, <1>9, <1>10, <1>a, <1>11, JobMoves DEF Attempts, Trial

(* ... and everything else.                                                  *)
LEMMA TypeStep ==
  ASSUME TypeOK, Made, Tried, [Next]_vars PROVE TypeOK'
<1> USE BoundsAssumption, NoneAssumption DEF TypeOK
<1>1. ASSUME NEW verb \in {"start", "stop"}, Issue(verb), UNCHANGED <<lineGeneration, mutex>>
      PROVE  RequestTypes'
  <2>1. generation' \in 1..MaxRequests /\ generation' = generation + 1
    BY <1>1 DEF Issue, RequestTypes
  <2>2. /\ pc \in [Gens -> Places] /\ req \in [Gens -> {None, "start", "stop"}]
        /\ pc' = [pc EXCEPT ![generation'] = "wait"] /\ req' = [req EXCEPT ![generation'] = verb]
        /\ "wait" \in Places
    BY <1>1, Zenon DEF Issue, RequestTypes, Places
  <2>4. pc' \in [Gens -> Places]  BY ONLY <2>2
  <2>5. req' \in [Gens -> {None, "start", "stop"}]  BY ONLY <2>2, verb \in {"start", "stop"}
  <2>6. /\ generation' \in 0..MaxRequests /\ lineGeneration' \in 0..generation'
        /\ mutex' \in ({"request", "attempts"} \X Gens) \cup {None}
    BY <1>1, <2>1 DEF RequestTypes
  <2>3. ASSUME NEW g \in Gens
        PROVE  (pc'[g] = "none" <=> req'[g] = None) /\ (req'[g] = None <=> g > generation')
    <3>1. CASE g = generation'  BY <1>1, <2>1, <3>1 DEF Issue, RequestTypes
    <3>2. CASE g # generation'  BY <1>1, <2>1, <3>2 DEF Issue, RequestTypes
    <3> QED  BY <3>1, <3>2, Zenon
  <2> QED  BY <2>3, <2>4, <2>5, <2>6, Zenon DEF RequestTypes
<1>2. CASE StartVpn \/ StopVpn
  <2>1. RequestTypes'  BY <1>1, <1>2, Zenon DEF StartVpn, StopVpn
  <2>2. WorkTypes' /\ SwitchTypes'  BY <1>2, TypeFrame, Zenon DEF StartVpn, StopVpn
  <2>3. CASE StartVpn  BY <2>1, <2>2, <2>3 DEF StartVpn, SessionTypes
  <2>4. CASE StopVpn  BY <2>1, <2>2, <2>4, Zenon DEF StopVpn, SessionTypes
  <2> QED  BY <1>2, <2>3, <2>4, Zenon
<1>3. ASSUME NEW l \in Locations, NEW f \in BOOLEAN, Choose(l, f) PROVE TypeOK'
  BY <1>3 DEF Choose, RequestTypes, SessionTypes, WorkTypes, SwitchTypes
<1>4. CASE CoreDies  BY <1>4 DEF CoreDies, RequestTypes, SessionTypes, WorkTypes, SwitchTypes
<1>5. CASE TunDies
  <2>1. RequestTypes' /\ WorkTypes'  BY <1>5, TypeFrame DEF TunDies
  <2>2. SwitchTypes'  BY <1>5 DEF TunDies, SwitchTypes
  <2> QED  BY <1>5, <2>1, <2>2 DEF TunDies, SessionTypes
<1>6. CASE CoreWatch
  <2>1. WorkTypes'  BY <1>6, FS_AddElement DEF CoreWatch, WorkTypes
  <2> QED  BY <1>6, <2>1 DEF CoreWatch, RequestTypes, SessionTypes, SwitchTypes
<1>7. CASE TunWatch
  <2>1. WorkTypes'  BY <1>7, FS_AddElement, Zenon DEF TunWatch, WorkTypes, SessionTypes
  <2> QED  BY <1>7, <2>1 DEF TunWatch, RequestTypes, SessionTypes, SwitchTypes
<1>8. ASSUME NEW r \in coreReports, CoreReport(r) PROVE TypeOK'
  <2>1. coreReports' \subseteq Lines \X Gens /\ IsFiniteSet(coreReports')
    BY <1>8, FS_RemoveElement DEF CoreReport, WorkTypes
  <2>2. r[1] \in Lines /\ r[2] \in Gens  BY <1>8 DEF WorkTypes
  <2>3. ASSUME Launch(r[1], r[2], "wait") PROVE job' \in Gens /\ jobs' \in [Gens -> Job]
    <3> DEFINE new == [Idle EXCEPT !.pc = "wait", !.line = r[1]]
    <3>1. new \in Job  BY <2>2 DEF Job, JobPlaces, Idle
    <3>2. job' = r[2] /\ jobs' = [jobs EXCEPT ![r[2]] = new] /\ jobs \in [Gens -> Job]
      BY <2>3, Zenon DEF Launch, WorkTypes
    <3> HIDE DEF new
    <3> QED  BY ONLY <2>2, <3>1, <3>2, Zenon
  <2>4. WorkTypes'  BY <1>8, <2>1, <2>3, Zenon DEF CoreReport, WorkTypes
  <2> QED  BY <1>8, <2>4 DEF CoreReport, RequestTypes, SessionTypes, SwitchTypes
<1>9. ASSUME NEW u \in tunReports, TunReport(u) \/ TunReportStale(u) PROVE TypeOK'
  <2>1. tunReports' \subseteq tunReports /\ IsFiniteSet(tunReports')
    BY <1>9, FS_RemoveElement DEF TunReport, TunReportStale, WorkTypes
  <2>2. CASE TunReport(u)
    BY <2>1, <2>2, StopTypes DEF TunReport, RequestTypes
  <2>3. CASE TunReportStale(u)
    BY <2>1, <2>3 DEF TunReportStale, RequestTypes, SessionTypes, WorkTypes, SwitchTypes
  <2> QED  BY <1>9, <2>2, <2>3
<1>10. CASE UNCHANGED vars
  BY <1>10 DEF RequestTypes, SessionTypes, WorkTypes, SwitchTypes
<1> QED
  BY <1>2, <1>3, <1>4, <1>5, <1>6, <1>7, <1>8, <1>9, <1>10, TypeRequest, TypeAttempts, Zenon
     DEF Next, Reports
=============================================================================
