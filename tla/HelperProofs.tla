---------------------------- MODULE HelperProofs ----------------------------
(***************************************************************************)
(* Proofs about Helper, for any requests, blocks and bounds: the block     *)
(* that a start put in place is taken away by a request, a SIGTERM or a    *)
(* start that fails to arm its own only, a tunnel runs behind its own      *)
(* block only, one tunnel runs at a time, a late death takes no other      *)
(* tunnel's names, and a SIGTERM leaves nothing behind.                    *)
(***************************************************************************)
EXTENDS Helper, FiniteSetTheorems, TLAPS

\* One thread at a time has the lock, and a daemon that is gone has none.
Order ==
  /\ ~(MainIn /\ TermIn)
  /\ up # "run" => pc = "accept" /\ term = "none"

\* Who may run: the child's process, the one a stop waits for, the one a
\* start has not yet kept; and the first of these is none while a stop or a
\* start is under way.
Owned ==
  /\ victim # None => pc \in {"stopping", "undo"} \/ term = "stopping"
  /\ pc \in {"stopping", "stopped", "check", "run", "assign", "undo"} => process = None
  /\ TermIn => process = None
  /\ pc \in {"assign", "sleep", "ask"} => starts # 0
  /\ \A n \in alive \ killed : n = process \/ n = victim \/ (pc = "assign" /\ n = starts)
  /\ exits \cap alive = {}

\* What TrafficHold remembers, and whose block it is.
Standing ==
  /\ up = "run" /\ pc # "check" /\ block # None => stands
  /\ pc \in {"check", "run"} => block = None \/ block = req.hold
  /\ pc = "assign" => block = None \/ block = holdOf[starts]
  /\ process # None => block = None \/ block = holdOf[process]

\* How far a SIGTERM has got.
Ending == term = "release" => names = None

\* Whoever asked for the block's end is being served, and a start that checks
\* its block is not one of them.
Asked ==
  /\ pc # "accept" /\ GivesUp(req) => held = None
  /\ term # "none" => held = None
  /\ pc = "check" => req.verb = "start" /\ req.hold # None

\* What BlockStays says of a step.
BlockKept == held' # None /\ block # None /\ block' = None => GivenUp

\* What NamesAreKept says of a step.
NamesStay == names # None /\ names' = None => ~(Running /\ LockFree)

\* The inductive invariant.
IInv == TypeOK /\ Order /\ Owned /\ Standing /\ Ending /\ Asked /\ LeavesNothing
-----------------------------------------------------------------------------
\* The flags stay flags.
LEMMA FlagStep == Flags /\ [Next]_vars => Flags'
  <1> SUFFICES ASSUME Flags, [Next]_vars PROVE Flags'
    OBVIOUS
  <1> USE DEF Flags
  <1>1. ASSUME NEW r \in Requests, Receive(r) PROVE Flags'
    BY <1>1 DEF Receive, tunnel, system, GivesUp, hold
  <1>2. CASE Handle
    <2>1. CASE StopTunnel
      BY <2>1 DEF StopTunnel, Terminate, Running, Enter, LockFree, MainIn, TermIn, hold, system
    <2>2. CASE StoppedTunnel
      BY <2>2 DEF StoppedTunnel, Killed, hold, system
    <2>3. CASE StartLine
      BY <2>3 DEF StartLine, Enter, LockFree, MainIn, TermIn, tunnel, hold, system
    <2>4. CASE LineStop
      BY <2>4 DEF LineStop, Enter, LockFree, MainIn, TermIn, tunnel, hold, system
    <2>5. CASE ReleaseAsked
      BY <2>5 DEF ReleaseAsked, Release, Enter, LockFree, MainIn, TermIn, tunnel, system
    <2>6. CASE Looked
      BY <2>6 DEF Looked, Enter, LockFree, MainIn, TermIn, tunnel, hold, system
    <2>7. CASE Stopped
      BY <2>7 DEF Stopped, Release, Keeps, tunnel, hold, system
    <2>8. CASE NoHold
      BY <2>8 DEF NoHold, Release, Starting, tunnel, hold, system
    <2>9. CASE Load
      BY <2>9 DEF Load, Starting, tunnel, hold, system
    <2>10. CASE Check
      BY <2>10 DEF Check, Release, tunnel, system
    <2>11. CASE Run
      BY <2>11 DEF Run, hold, system
    <2>12. CASE RunFails
      BY <2>12 DEF RunFails, tunnel, hold, system
    <2>13. CASE Assign
      BY <2>13 DEF Assign, hold, system
    <2>14. CASE Awake
      BY <2>14 DEF Awake, Running, tunnel, hold, system
    <2>15. CASE Ask
      BY <2>15 DEF Ask, tunnel, hold, system
    <2>16. CASE Undone
      BY <2>16 DEF Undone, Killed, hold, system
    <2>17. CASE Reply
      BY <2>17 DEF Reply, Running, tunnel, system
    <2>18. CASE Sent
      BY <2>18 DEF Sent, tunnel, hold, system
    <2>19. CASE QuitAfterReply
      BY <2>19 DEF QuitAfterReply, Gone
    <2>20. QED BY <1>2, <2>1, <2>2, <2>3, <2>4, <2>5, <2>6, <2>7, <2>8, <2>9, <2>10, <2>11, <2>12,
             <2>13, <2>14, <2>15, <2>16, <2>17, <2>18, <2>19 DEF Handle
  <1>3. CASE Ends
    <2>1. CASE ShutDown
      BY <2>1 DEF ShutDown, LockFree, MainIn, TermIn, Terminate, Running, asker, hold
    <2>2. CASE ShutDownStopped
      BY <2>2 DEF ShutDownStopped, Killed, asker, hold
    <2>3. CASE ShutDownEnds
      BY <2>3 DEF ShutDownEnds, Release, Gone
    <2>4. QED BY <1>3, <2>1, <2>2, <2>3 DEF Ends
  <1>4. CASE ArmFails
    BY <1>4 DEF ArmFails, Fault, Release, Starting, tunnel, hold
  <1>5. CASE AskFails
    BY <1>5 DEF AskFails, Fault, Terminate, Running, hold
  <1>6. CASE Crash
    BY <1>6 DEF Crash, Fault, Gone
  <1>7. CASE Boot
    BY <1>7 DEF Boot, asker, tunnel
  <1>8. CASE Signal
    BY <1>8 DEF Signal, Fault, asker, tunnel
  <1>9. CASE LineEnds
    BY <1>9 DEF LineEnds, asker, tunnel, hold, system
  <1>10. CASE Replace
    BY <1>10 DEF Replace, Fault, asker, tunnel, hold
  <1>11. CASE Hand
    BY <1>11 DEF Hand, Fault, asker, tunnel
  <1>12. ASSUME NEW n \in Tunnels, Exits(n) PROVE Flags'
    BY <1>12 DEF Exits, asker, hold, system
  <1>13. ASSUME NEW n \in Tunnels, Ended(n) PROVE Flags'
    BY <1>13 DEF Ended, asker, hold, system
  <1>14. ASSUME NEW n \in Tunnels, TunnelDied(n) PROVE Flags'
    BY <1>14 DEF TunnelDied, Running, LockFree, MainIn, TermIn, asker, hold, system
  <1>15. CASE UNCHANGED vars
    BY <1>15 DEF vars, asker, tunnel, hold, system
  <1>16. QED BY <1>1, <1>2, <1>3, <1>4, <1>5, <1>6, <1>7, <1>8, <1>9, <1>10, <1>11, <1>12, <1>13,
           <1>14, <1>15 DEF Next

\* The other types are kept.
LEMMA TypeStep == Values /\ Order /\ Owned /\ [Next]_vars => Values'
  <1> SUFFICES ASSUME Values, Order, Owned, [Next]_vars PROVE Values'
    OBVIOUS
  <1>0. /\ MaxStarts \in Nat /\ MaxRequests \in Nat /\ MaxFaults \in Nat
        /\ None \notin Holds /\ None \notin Nat
        /\ \A r \in Requests : r.hold \in Holds \cup {None}
    BY HelperAssumption
  <1> USE <1>0 DEF Values, Tunnels, Owned
  <1>1. ASSUME NEW r \in Requests, Receive(r) PROVE Values'
    BY <1>1 DEF Receive, tunnel, system, GivesUp, hold
  <1>2. CASE Handle
    <2>1. CASE StopTunnel
      BY <2>1 DEF StopTunnel, Terminate, Running, Enter, LockFree, MainIn, TermIn, hold, system
    <2>2. CASE StoppedTunnel
      BY <2>2 DEF StoppedTunnel, Killed, hold, system
    <2>3. CASE StartLine
      BY <2>3 DEF StartLine, Enter, LockFree, MainIn, TermIn, tunnel, hold, system
    <2>4. CASE LineStop
      BY <2>4 DEF LineStop, Enter, LockFree, MainIn, TermIn, tunnel, hold, system
    <2>5. CASE ReleaseAsked
      BY <2>5 DEF ReleaseAsked, Release, Enter, LockFree, MainIn, TermIn, tunnel, system
    <2>6. CASE Looked
      BY <2>6 DEF Looked, Enter, LockFree, MainIn, TermIn, tunnel, hold, system
    <2>7. CASE Stopped
      BY <2>7 DEF Stopped, Release, Keeps, tunnel, hold, system
    <2>8. CASE NoHold
      BY <2>8 DEF NoHold, Release, Starting, tunnel, hold, system
    <2>9. CASE Load
      BY <2>9 DEF Load, Starting, tunnel, hold, system
    <2>10. CASE Check
      BY <2>10 DEF Check, Release, tunnel, system
    <2>11. CASE Run
      BY <2>11 DEF Run, hold, system
    <2>12. CASE RunFails
      BY <2>12 DEF RunFails, tunnel, hold, system
    <2>13. CASE Assign
      BY <2>13 DEF Assign, hold, system
    <2>14. CASE Awake
      BY <2>14 DEF Awake, Running, tunnel, hold, system
    <2>15. CASE Ask
      BY <2>15 DEF Ask, tunnel, hold, system
    <2>16. CASE Undone
      BY <2>16 DEF Undone, Killed, hold, system
    <2>17. CASE Reply
      BY <2>17 DEF Reply, Running, tunnel, system
    <2>18. CASE Sent
      BY <2>18 DEF Sent, tunnel, hold, system
    <2>19. CASE QuitAfterReply
      BY <2>19 DEF QuitAfterReply, Gone
    <2>20. QED BY <1>2, <2>1, <2>2, <2>3, <2>4, <2>5, <2>6, <2>7, <2>8, <2>9, <2>10, <2>11, <2>12,
             <2>13, <2>14, <2>15, <2>16, <2>17, <2>18, <2>19 DEF Handle
  <1>3. CASE Ends
    <2>1. CASE ShutDown
      BY <2>1 DEF ShutDown, LockFree, MainIn, TermIn, Terminate, Running, asker, hold
    <2>2. CASE ShutDownStopped
      BY <2>2 DEF ShutDownStopped, Killed, asker, hold
    <2>3. CASE ShutDownEnds
      BY <2>3 DEF ShutDownEnds, Release, Gone
    <2>4. QED BY <1>3, <2>1, <2>2, <2>3 DEF Ends
  <1>4. CASE ArmFails
    BY <1>4 DEF ArmFails, Fault, Release, Starting, tunnel, hold
  <1>5. CASE AskFails
    BY <1>5 DEF AskFails, Fault, Terminate, Running, hold
  <1>6. CASE Crash
    BY <1>6 DEF Crash, Fault, Gone
  <1>7. CASE Boot
    BY <1>7 DEF Boot, asker, tunnel
  <1>8. CASE Signal
    BY <1>8 DEF Signal, Fault, asker, tunnel
  <1>9. CASE LineEnds
    BY <1>9 DEF LineEnds, asker, tunnel, hold, system
  <1>10. CASE Replace
    BY <1>10 DEF Replace, Fault, asker, tunnel, hold
  <1>11. CASE Hand
    BY <1>11 DEF Hand, Fault, asker, tunnel
  <1>12. ASSUME NEW n \in Tunnels, Exits(n) PROVE Values'
    BY <1>12 DEF Exits, asker, hold, system
  <1>13. ASSUME NEW n \in Tunnels, Ended(n) PROVE Values'
    <2>1. CASE process = n
      <3>1. exits' \subseteq exits /\ process' = None /\ deaths' \subseteq 1..starts
        BY <1>13, <2>1 DEF Ended
      <3>2. UNCHANGED <<victim, starts, alive, killed, holdOf, asker, hold, system, names, line>>
        BY <1>13 DEF Ended
      <3>3. QED BY <3>1, <3>2 DEF asker, hold, system
    <2>2. CASE process # n
      <3>1. exits' \subseteq exits /\ UNCHANGED <<process, deaths>>
        BY <1>13, <2>2 DEF Ended
      <3>2. UNCHANGED <<victim, starts, alive, killed, holdOf, asker, hold, system, names, line>>
        BY <1>13 DEF Ended
      <3>3. QED BY <3>1, <3>2 DEF asker, hold, system
    <2>3. QED BY <2>1, <2>2
  <1>14. ASSUME NEW n \in Tunnels, TunnelDied(n) PROVE Values'
    BY <1>14 DEF TunnelDied, Running, LockFree, MainIn, TermIn, asker, hold, system
  <1>15. CASE UNCHANGED vars
    BY <1>15 DEF vars, asker, tunnel, hold, system
  <1>16. QED BY <1>1, <1>2, <1>3, <1>4, <1>5, <1>6, <1>7, <1>8, <1>9, <1>10, <1>11, <1>12, <1>13,
           <1>14, <1>15 DEF Next

\* The lock is.
LEMMA OrderStep == TypeOK /\ Order /\ [Next]_vars => Order'
  <1> SUFFICES ASSUME TypeOK, Order, [Next]_vars PROVE Order'
    OBVIOUS
  <1> USE DEF Order, MainIn, TermIn, LockFree
  <1>1. ASSUME NEW r \in Requests, Receive(r) PROVE Order'
    BY <1>1 DEF Receive, tunnel, system, GivesUp, hold
  <1>2. CASE Handle
    <2>1. CASE StopTunnel
      BY <2>1 DEF StopTunnel, Terminate, Running, Enter, hold, system
    <2>2. CASE StoppedTunnel
      BY <2>2 DEF StoppedTunnel, Killed, hold, system
    <2>3. CASE StartLine
      BY <2>3 DEF StartLine, Enter, tunnel, hold, system
    <2>4. CASE LineStop
      BY <2>4 DEF LineStop, Enter, tunnel, hold, system
    <2>5. CASE ReleaseAsked
      BY <2>5 DEF ReleaseAsked, Release, Enter, tunnel, system
    <2>6. CASE Looked
      BY <2>6 DEF Looked, Enter, tunnel, hold, system
    <2>7. CASE Stopped
      BY <2>7 DEF Stopped, Release, Keeps, tunnel, hold, system
    <2>8. CASE NoHold
      BY <2>8 DEF NoHold, Release, Starting, tunnel, hold, system
    <2>9. CASE Load
      BY <2>9 DEF Load, Starting, tunnel, hold, system
    <2>10. CASE Check
      BY <2>10 DEF Check, Release, tunnel, system
    <2>11. CASE Run
      BY <2>11 DEF Run, hold, system
    <2>12. CASE RunFails
      BY <2>12 DEF RunFails, tunnel, hold, system
    <2>13. CASE Assign
      BY <2>13 DEF Assign, hold, system
    <2>14. CASE Awake
      BY <2>14 DEF Awake, Running, tunnel, hold, system
    <2>15. CASE Ask
      BY <2>15 DEF Ask, tunnel, hold, system
    <2>16. CASE Undone
      BY <2>16 DEF Undone, Killed, hold, system
    <2>17. CASE Reply
      BY <2>17 DEF Reply, Running, tunnel, system
    <2>18. CASE Sent
      BY <2>18 DEF Sent, tunnel, hold, system
    <2>19. CASE QuitAfterReply
      BY <2>19 DEF QuitAfterReply, Gone
    <2>20. QED BY <1>2, <2>1, <2>2, <2>3, <2>4, <2>5, <2>6, <2>7, <2>8, <2>9, <2>10, <2>11, <2>12,
             <2>13, <2>14, <2>15, <2>16, <2>17, <2>18, <2>19 DEF Handle
  <1>3. CASE Ends
    <2>1. CASE ShutDown
      BY <2>1 DEF ShutDown, Terminate, Running, asker, hold
    <2>2. CASE ShutDownStopped
      BY <2>2 DEF ShutDownStopped, Killed, asker, hold
    <2>3. CASE ShutDownEnds
      BY <2>3 DEF ShutDownEnds, Release, Gone
    <2>4. QED BY <1>3, <2>1, <2>2, <2>3 DEF Ends
  <1>4. CASE ArmFails
    BY <1>4 DEF ArmFails, Fault, Release, Starting, tunnel, hold
  <1>5. CASE AskFails
    BY <1>5 DEF AskFails, Fault, Terminate, Running, hold
  <1>6. CASE Crash
    BY <1>6 DEF Crash, Fault, Gone
  <1>7. CASE Boot
    BY <1>7 DEF Boot, asker, tunnel
  <1>8. CASE Signal
    BY <1>8 DEF Signal, Fault, asker, tunnel
  <1>9. CASE LineEnds
    BY <1>9 DEF LineEnds, asker, tunnel, hold, system
  <1>10. CASE Replace
    BY <1>10 DEF Replace, Fault, asker, tunnel, hold
  <1>11. CASE Hand
    BY <1>11 DEF Hand, Fault, asker, tunnel
  <1>12. ASSUME NEW n \in Tunnels, Exits(n) PROVE Order'
    BY <1>12 DEF Exits, asker, hold, system
  <1>13. ASSUME NEW n \in Tunnels, Ended(n) PROVE Order'
    BY <1>13 DEF Ended, asker, hold, system
  <1>14. ASSUME NEW n \in Tunnels, TunnelDied(n) PROVE Order'
    BY <1>14 DEF TunnelDied, Running, asker, hold, system
  <1>15. CASE UNCHANGED vars
    BY <1>15 DEF vars, asker, tunnel, hold, system
  <1>16. QED BY <1>1, <1>2, <1>3, <1>4, <1>5, <1>6, <1>7, <1>8, <1>9, <1>10, <1>11, <1>12, <1>13,
           <1>14, <1>15 DEF Next

\* Every tunnel that runs is somebody's.
LEMMA OwnedStep == TypeOK /\ Order /\ Owned /\ [Next]_vars => Owned'
  <1> SUFFICES ASSUME TypeOK, Order, Owned, [Next]_vars PROVE Owned'
    OBVIOUS
  <1>0. /\ None \notin Nat /\ MaxStarts \in Nat /\ starts \in 0..MaxStarts
        /\ alive \subseteq 1..starts /\ exits \subseteq 1..starts /\ killed \subseteq alive
        /\ process \in Tunnels \cup {None} /\ victim \in Tunnels \cup {None}
    BY HelperAssumption DEF TypeOK, Values
  <1> USE <1>0 DEF Order, Owned, MainIn, TermIn, LockFree, Running, Tunnels
  <1>1. ASSUME NEW r \in Requests, Receive(r) PROVE Owned'
    BY <1>1 DEF Receive, tunnel, system, GivesUp, hold
  <1>2. CASE Handle
    <2>1. CASE StopTunnel
      BY <2>1 DEF StopTunnel, Terminate, Enter, hold, system
    <2>2. CASE StoppedTunnel
      BY <2>2 DEF StoppedTunnel, Killed, hold, system
    <2>3. CASE StartLine
      BY <2>3 DEF StartLine, Enter, tunnel, hold, system
    <2>4. CASE LineStop
      BY <2>4 DEF LineStop, Enter, tunnel, hold, system
    <2>5. CASE ReleaseAsked
      BY <2>5 DEF ReleaseAsked, Release, Enter, tunnel, system
    <2>6. CASE Looked
      BY <2>6 DEF Looked, Enter, tunnel, hold, system
    <2>7. CASE Stopped
      BY <2>7 DEF Stopped, Release, Keeps, tunnel, hold, system
    <2>8. CASE NoHold
      BY <2>8 DEF NoHold, Release, Starting, tunnel, hold, system
    <2>9. CASE Load
      BY <2>9 DEF Load, Starting, tunnel, hold, system
    <2>10. CASE Check
      BY <2>10 DEF Check, Release, tunnel, system
    <2>11. CASE Run
      BY <2>11 DEF Run, hold, system
    <2>12. CASE RunFails
      BY <2>12 DEF RunFails, tunnel, hold, system
    <2>13. CASE Assign
      BY <2>13 DEF Assign, hold, system
    <2>14. CASE Awake
      BY <2>14 DEF Awake, tunnel, hold, system
    <2>15. CASE Ask
      BY <2>15 DEF Ask, tunnel, hold, system
    <2>16. CASE Undone
      BY <2>16 DEF Undone, Killed, hold, system
    <2>17. CASE Reply
      BY <2>17 DEF Reply, tunnel, system
    <2>18. CASE Sent
      BY <2>18 DEF Sent, tunnel, hold, system
    <2>19. CASE QuitAfterReply
      BY <2>19 DEF QuitAfterReply, Gone
    <2>20. QED BY <1>2, <2>1, <2>2, <2>3, <2>4, <2>5, <2>6, <2>7, <2>8, <2>9, <2>10, <2>11, <2>12,
             <2>13, <2>14, <2>15, <2>16, <2>17, <2>18, <2>19 DEF Handle
  <1>3. CASE Ends
    <2>1. CASE ShutDown
      BY <2>1 DEF ShutDown, Terminate, asker, hold
    <2>2. CASE ShutDownStopped
      BY <2>2 DEF ShutDownStopped, Killed, asker, hold
    <2>3. CASE ShutDownEnds
      BY <2>3 DEF ShutDownEnds, Release, Gone
    <2>4. QED BY <1>3, <2>1, <2>2, <2>3 DEF Ends
  <1>4. CASE ArmFails
    BY <1>4 DEF ArmFails, Fault, Release, Starting, tunnel, hold
  <1>5. CASE AskFails
    BY <1>5 DEF AskFails, Fault, Terminate, hold
  <1>6. CASE Crash
    BY <1>6 DEF Crash, Fault, Gone
  <1>7. CASE Boot
    BY <1>7 DEF Boot, asker, tunnel
  <1>8. CASE Signal
    BY <1>8 DEF Signal, Fault, asker, tunnel
  <1>9. CASE LineEnds
    BY <1>9 DEF LineEnds, asker, tunnel, hold, system
  <1>10. CASE Replace
    BY <1>10 DEF Replace, Fault, asker, tunnel, hold
  <1>11. CASE Hand
    BY <1>11 DEF Hand, Fault, asker, tunnel
  <1>12. ASSUME NEW n \in Tunnels, Exits(n) PROVE Owned'
    BY <1>12 DEF Exits, asker, hold, system
  <1>13. ASSUME NEW n \in Tunnels, Ended(n) PROVE Owned'
    BY <1>13 DEF Ended, asker, hold, system
  <1>14. ASSUME NEW n \in Tunnels, TunnelDied(n) PROVE Owned'
    BY <1>14 DEF TunnelDied, asker, hold, system
  <1>15. CASE UNCHANGED vars
    BY <1>15 DEF vars, asker, tunnel, hold, system
  <1>16. QED BY <1>1, <1>2, <1>3, <1>4, <1>5, <1>6, <1>7, <1>8, <1>9, <1>10, <1>11, <1>12, <1>13,
           <1>14, <1>15 DEF Next

\* The block is the one of whoever runs, and is remembered.
LEMMA StandingStep == TypeOK /\ Order /\ Owned /\ Standing /\ [Next]_vars => Standing'
  <1> SUFFICES ASSUME TypeOK, Order, Owned, Standing, [Next]_vars PROVE Standing'
    OBVIOUS
  <1>0. /\ None \notin Nat /\ MaxStarts \in Nat /\ starts \in 0..MaxStarts
        /\ process \in Tunnels \cup {None} /\ holdOf \in [Tunnels -> Holds \cup {None}]
    BY HelperAssumption DEF TypeOK, Values
  <1> USE <1>0 DEF Order, Owned, Standing, MainIn, TermIn, LockFree, Running, Tunnels
  <1>1. ASSUME NEW r \in Requests, Receive(r) PROVE Standing'
    BY <1>1 DEF Receive, tunnel, system, GivesUp, hold
  <1>2. CASE Handle
    <2>1. CASE StopTunnel
      BY <2>1 DEF StopTunnel, Terminate, Enter, hold, system
    <2>2. CASE StoppedTunnel
      BY <2>2 DEF StoppedTunnel, Killed, hold, system
    <2>3. CASE StartLine
      BY <2>3 DEF StartLine, Enter, tunnel, hold, system
    <2>4. CASE LineStop
      BY <2>4 DEF LineStop, Enter, tunnel, hold, system
    <2>5. CASE ReleaseAsked
      BY <2>5 DEF ReleaseAsked, Release, Enter, tunnel, system
    <2>6. CASE Looked
      BY <2>6 DEF Looked, Enter, tunnel, hold, system
    <2>7. CASE Stopped
      BY <2>7 DEF Stopped, Release, Keeps, tunnel, hold, system
    <2>8. CASE NoHold
      BY <2>8 DEF NoHold, Release, Starting, tunnel, hold, system
    <2>9. CASE Load
      BY <2>9 DEF Load, Starting, tunnel, hold, system
    <2>10. CASE Check
      BY <2>10 DEF Check, Release, tunnel, system
    <2>11. CASE Run
      BY <2>11 DEF Run, hold, system
    <2>12. CASE RunFails
      BY <2>12 DEF RunFails, tunnel, hold, system
    <2>13. CASE Assign
      BY <2>13 DEF Assign, hold, system
    <2>14. CASE Awake
      BY <2>14 DEF Awake, tunnel, hold, system
    <2>15. CASE Ask
      BY <2>15 DEF Ask, tunnel, hold, system
    <2>16. CASE Undone
      BY <2>16 DEF Undone, Killed, hold, system
    <2>17. CASE Reply
      BY <2>17 DEF Reply, tunnel, system
    <2>18. CASE Sent
      BY <2>18 DEF Sent, tunnel, hold, system
    <2>19. CASE QuitAfterReply
      BY <2>19 DEF QuitAfterReply, Gone
    <2>20. QED BY <1>2, <2>1, <2>2, <2>3, <2>4, <2>5, <2>6, <2>7, <2>8, <2>9, <2>10, <2>11, <2>12,
             <2>13, <2>14, <2>15, <2>16, <2>17, <2>18, <2>19 DEF Handle
  <1>3. CASE Ends
    <2>1. CASE ShutDown
      BY <2>1 DEF ShutDown, Terminate, asker, hold
    <2>2. CASE ShutDownStopped
      BY <2>2 DEF ShutDownStopped, Killed, asker, hold
    <2>3. CASE ShutDownEnds
      BY <2>3 DEF ShutDownEnds, Release, Gone
    <2>4. QED BY <1>3, <2>1, <2>2, <2>3 DEF Ends
  <1>4. CASE ArmFails
    BY <1>4 DEF ArmFails, Fault, Release, Starting, tunnel, hold
  <1>5. CASE AskFails
    BY <1>5 DEF AskFails, Fault, Terminate, hold
  <1>6. CASE Crash
    BY <1>6 DEF Crash, Fault, Gone
  <1>7. CASE Boot
    BY <1>7 DEF Boot, asker, tunnel
  <1>8. CASE Signal
    BY <1>8 DEF Signal, Fault, asker, tunnel
  <1>9. CASE LineEnds
    BY <1>9 DEF LineEnds, asker, tunnel, hold, system
  <1>10. CASE Replace
    BY <1>10 DEF Replace, Fault, asker, tunnel, hold
  <1>11. CASE Hand
    BY <1>11 DEF Hand, Fault, asker, tunnel
  <1>12. ASSUME NEW n \in Tunnels, Exits(n) PROVE Standing'
    BY <1>12 DEF Exits, asker, hold, system
  <1>13. ASSUME NEW n \in Tunnels, Ended(n) PROVE Standing'
    BY <1>13 DEF Ended, asker, hold, system
  <1>14. ASSUME NEW n \in Tunnels, TunnelDied(n) PROVE Standing'
    BY <1>14 DEF TunnelDied, asker, hold, system
  <1>15. CASE UNCHANGED vars
    BY <1>15 DEF vars, asker, tunnel, hold, system
  <1>16. QED BY <1>1, <1>2, <1>3, <1>4, <1>5, <1>6, <1>7, <1>8, <1>9, <1>10, <1>11, <1>12, <1>13,
           <1>14, <1>15 DEF Next

\* A SIGTERM gets further, and what nobody asked to end is still wanted.
LEMMA EndStep == TypeOK /\ Order /\ Ending /\ Asked /\ LeavesNothing /\ [Next]_vars => (Ending /\ Asked /\ LeavesNothing)'
  <1> SUFFICES ASSUME TypeOK, Order, Ending, Asked, LeavesNothing, [Next]_vars PROVE (Ending /\ Asked /\ LeavesNothing)'
    OBVIOUS
  <1> USE DEF Order, Ending, Asked, LeavesNothing, GivesUp, MainIn, TermIn, LockFree
  <1>1. ASSUME NEW r \in Requests, Receive(r) PROVE (Ending /\ Asked /\ LeavesNothing)'
    BY <1>1 DEF Receive, tunnel, system, GivesUp, hold
  <1>2. CASE Handle
    <2>1. CASE StopTunnel
      BY <2>1 DEF StopTunnel, Terminate, Running, Enter, hold, system
    <2>2. CASE StoppedTunnel
      BY <2>2 DEF StoppedTunnel, Killed, hold, system
    <2>3. CASE StartLine
      BY <2>3 DEF StartLine, Enter, tunnel, hold, system
    <2>4. CASE LineStop
      BY <2>4 DEF LineStop, Enter, tunnel, hold, system
    <2>5. CASE ReleaseAsked
      BY <2>5 DEF ReleaseAsked, Release, Enter, tunnel, system
    <2>6. CASE Looked
      BY <2>6 DEF Looked, Enter, tunnel, hold, system
    <2>7. CASE Stopped
      BY <2>7 DEF Stopped, Release, Keeps, tunnel, hold, system
    <2>8. CASE NoHold
      BY <2>8 DEF NoHold, Release, Starting, tunnel, hold, system
    <2>9. CASE Load
      BY <2>9 DEF Load, Starting, tunnel, hold, system
    <2>10. CASE Check
      BY <2>10 DEF Check, Release, tunnel, system
    <2>11. CASE Run
      BY <2>11 DEF Run, hold, system
    <2>12. CASE RunFails
      BY <2>12 DEF RunFails, tunnel, hold, system
    <2>13. CASE Assign
      BY <2>13 DEF Assign, hold, system
    <2>14. CASE Awake
      BY <2>14 DEF Awake, Running, tunnel, hold, system
    <2>15. CASE Ask
      BY <2>15 DEF Ask, tunnel, hold, system
    <2>16. CASE Undone
      BY <2>16 DEF Undone, Killed, hold, system
    <2>17. CASE Reply
      BY <2>17 DEF Reply, Running, tunnel, system
    <2>18. CASE Sent
      BY <2>18 DEF Sent, tunnel, hold, system
    <2>19. CASE QuitAfterReply
      BY <2>19 DEF QuitAfterReply, Gone
    <2>20. QED BY <1>2, <2>1, <2>2, <2>3, <2>4, <2>5, <2>6, <2>7, <2>8, <2>9, <2>10, <2>11, <2>12,
             <2>13, <2>14, <2>15, <2>16, <2>17, <2>18, <2>19 DEF Handle
  <1>3. CASE Ends
    <2>1. CASE ShutDown
      BY <2>1 DEF ShutDown, Terminate, Running, asker, hold
    <2>2. CASE ShutDownStopped
      BY <2>2 DEF ShutDownStopped, Killed, asker, hold
    <2>3. CASE ShutDownEnds
      BY <2>3 DEF ShutDownEnds, Release, Gone
    <2>4. QED BY <1>3, <2>1, <2>2, <2>3 DEF Ends
  <1>4. CASE ArmFails
    BY <1>4 DEF ArmFails, Fault, Release, Starting, tunnel, hold
  <1>5. CASE AskFails
    BY <1>5 DEF AskFails, Fault, Terminate, Running, hold
  <1>6. CASE Crash
    BY <1>6 DEF Crash, Fault, Gone
  <1>7. CASE Boot
    BY <1>7 DEF Boot, asker, tunnel
  <1>8. CASE Signal
    BY <1>8 DEF Signal, Fault, asker, tunnel
  <1>9. CASE LineEnds
    BY <1>9 DEF LineEnds, asker, tunnel, hold, system
  <1>10. CASE Replace
    BY <1>10 DEF Replace, Fault, asker, tunnel, hold
  <1>11. CASE Hand
    BY <1>11 DEF Hand, Fault, asker, tunnel
  <1>12. ASSUME NEW n \in Tunnels, Exits(n) PROVE (Ending /\ Asked /\ LeavesNothing)'
    BY <1>12 DEF Exits, asker, hold, system
  <1>13. ASSUME NEW n \in Tunnels, Ended(n) PROVE (Ending /\ Asked /\ LeavesNothing)'
    BY <1>13 DEF Ended, asker, hold, system
  <1>14. ASSUME NEW n \in Tunnels, TunnelDied(n) PROVE (Ending /\ Asked /\ LeavesNothing)'
    BY <1>14 DEF TunnelDied, Running, asker, hold, system
  <1>15. CASE UNCHANGED vars
    BY <1>15 DEF vars, asker, tunnel, hold, system
  <1>16. QED BY <1>1, <1>2, <1>3, <1>4, <1>5, <1>6, <1>7, <1>8, <1>9, <1>10, <1>11, <1>12, <1>13,
           <1>14, <1>15 DEF Next

\* What takes a wanted block is a start that fails to arm its own.
LEMMA BlockStep == Asked /\ [Next]_vars => BlockKept
  <1> SUFFICES ASSUME Asked, [Next]_vars PROVE BlockKept
    OBVIOUS
  <1> USE DEF BlockKept, GivenUp, Asked, GivesUp
  <1>1. ASSUME NEW r \in Requests, Receive(r) PROVE BlockKept
    BY <1>1 DEF Receive, tunnel, system, GivesUp, hold
  <1>2. CASE Handle
    <2>1. CASE StopTunnel
      BY <2>1 DEF StopTunnel, Terminate, Running, Enter, hold, system
    <2>2. CASE StoppedTunnel
      BY <2>2 DEF StoppedTunnel, Killed, hold, system
    <2>3. CASE StartLine
      BY <2>3 DEF StartLine, Enter, tunnel, hold, system
    <2>4. CASE LineStop
      BY <2>4 DEF LineStop, Enter, tunnel, hold, system
    <2>5. CASE ReleaseAsked
      BY <2>5 DEF ReleaseAsked, Release, Enter, tunnel, system
    <2>6. CASE Looked
      BY <2>6 DEF Looked, Enter, tunnel, hold, system
    <2>7. CASE Stopped
      BY <2>7 DEF Stopped, Release, Keeps, tunnel, hold, system
    <2>8. CASE NoHold
      BY <2>8 DEF NoHold, Release, Starting, tunnel, hold, system
    <2>9. CASE Load
      BY <2>9 DEF Load, Starting, tunnel, hold, system
    <2>10. CASE Check
      BY <2>10 DEF Check, Release, tunnel, system
    <2>11. CASE Run
      BY <2>11 DEF Run, hold, system
    <2>12. CASE RunFails
      BY <2>12 DEF RunFails, tunnel, hold, system
    <2>13. CASE Assign
      BY <2>13 DEF Assign, hold, system
    <2>14. CASE Awake
      BY <2>14 DEF Awake, Running, tunnel, hold, system
    <2>15. CASE Ask
      BY <2>15 DEF Ask, tunnel, hold, system
    <2>16. CASE Undone
      BY <2>16 DEF Undone, Killed, hold, system
    <2>17. CASE Reply
      BY <2>17 DEF Reply, Running, tunnel, system
    <2>18. CASE Sent
      BY <2>18 DEF Sent, tunnel, hold, system
    <2>19. CASE QuitAfterReply
      BY <2>19 DEF QuitAfterReply, Gone
    <2>20. QED BY <1>2, <2>1, <2>2, <2>3, <2>4, <2>5, <2>6, <2>7, <2>8, <2>9, <2>10, <2>11, <2>12,
             <2>13, <2>14, <2>15, <2>16, <2>17, <2>18, <2>19 DEF Handle
  <1>3. CASE Ends
    <2>1. CASE ShutDown
      BY <2>1 DEF ShutDown, Terminate, Running, asker, hold
    <2>2. CASE ShutDownStopped
      BY <2>2 DEF ShutDownStopped, Killed, asker, hold
    <2>3. CASE ShutDownEnds
      BY <2>3 DEF ShutDownEnds, Release, Gone
    <2>4. QED BY <1>3, <2>1, <2>2, <2>3 DEF Ends
  <1>4. CASE ArmFails
    BY <1>4 DEF ArmFails, Fault, Release, Starting, tunnel, hold
  <1>5. CASE AskFails
    BY <1>5 DEF AskFails, Fault, Terminate, Running, hold
  <1>6. CASE Crash
    BY <1>6 DEF Crash, Fault, Gone
  <1>7. CASE Boot
    BY <1>7 DEF Boot, asker, tunnel
  <1>8. CASE Signal
    BY <1>8 DEF Signal, Fault, asker, tunnel
  <1>9. CASE LineEnds
    BY <1>9 DEF LineEnds, asker, tunnel, hold, system
  <1>10. CASE Replace
    BY <1>10 DEF Replace, Fault, asker, tunnel, hold
  <1>11. CASE Hand
    BY <1>11 DEF Hand, Fault, asker, tunnel
  <1>12. ASSUME NEW n \in Tunnels, Exits(n) PROVE BlockKept
    BY <1>12 DEF Exits, asker, hold, system
  <1>13. ASSUME NEW n \in Tunnels, Ended(n) PROVE BlockKept
    BY <1>13 DEF Ended, asker, hold, system
  <1>14. ASSUME NEW n \in Tunnels, TunnelDied(n) PROVE BlockKept
    BY <1>14 DEF TunnelDied, Running, asker, hold, system
  <1>15. CASE UNCHANGED vars
    BY <1>15 DEF vars, asker, tunnel, hold, system
  <1>16. QED BY <1>1, <1>2, <1>3, <1>4, <1>5, <1>6, <1>7, <1>8, <1>9, <1>10, <1>11, <1>12, <1>13,
           <1>14, <1>15 DEF Next

\* What takes the names holds the lock, finds no tunnel, or is a daemon that starts.
LEMMA NamesStep == [Next]_vars => NamesStay
  <1> SUFFICES ASSUME [Next]_vars PROVE NamesStay
    OBVIOUS
  <1> USE DEF NamesStay, MainIn, TermIn, LockFree
  <1>1. ASSUME NEW r \in Requests, Receive(r) PROVE NamesStay
    BY <1>1 DEF Receive, tunnel, system, GivesUp, hold
  <1>2. CASE Handle
    <2>1. CASE StopTunnel
      BY <2>1 DEF StopTunnel, Terminate, Running, Enter, hold, system
    <2>2. CASE StoppedTunnel
      BY <2>2 DEF StoppedTunnel, Killed, hold, system
    <2>3. CASE StartLine
      BY <2>3 DEF StartLine, Enter, tunnel, hold, system
    <2>4. CASE LineStop
      BY <2>4 DEF LineStop, Enter, tunnel, hold, system
    <2>5. CASE ReleaseAsked
      BY <2>5 DEF ReleaseAsked, Release, Enter, tunnel, system
    <2>6. CASE Looked
      BY <2>6 DEF Looked, Enter, tunnel, hold, system
    <2>7. CASE Stopped
      BY <2>7 DEF Stopped, Release, Keeps, tunnel, hold, system
    <2>8. CASE NoHold
      BY <2>8 DEF NoHold, Release, Starting, tunnel, hold, system
    <2>9. CASE Load
      BY <2>9 DEF Load, Starting, tunnel, hold, system
    <2>10. CASE Check
      BY <2>10 DEF Check, Release, tunnel, system
    <2>11. CASE Run
      BY <2>11 DEF Run, hold, system
    <2>12. CASE RunFails
      BY <2>12 DEF RunFails, tunnel, hold, system
    <2>13. CASE Assign
      BY <2>13 DEF Assign, hold, system
    <2>14. CASE Awake
      BY <2>14 DEF Awake, Running, tunnel, hold, system
    <2>15. CASE Ask
      BY <2>15 DEF Ask, tunnel, hold, system
    <2>16. CASE Undone
      BY <2>16 DEF Undone, Killed, hold, system
    <2>17. CASE Reply
      BY <2>17 DEF Reply, Running, tunnel, system
    <2>18. CASE Sent
      BY <2>18 DEF Sent, tunnel, hold, system
    <2>19. CASE QuitAfterReply
      BY <2>19 DEF QuitAfterReply, Gone
    <2>20. QED BY <1>2, <2>1, <2>2, <2>3, <2>4, <2>5, <2>6, <2>7, <2>8, <2>9, <2>10, <2>11, <2>12,
             <2>13, <2>14, <2>15, <2>16, <2>17, <2>18, <2>19 DEF Handle
  <1>3. CASE Ends
    <2>1. CASE ShutDown
      BY <2>1 DEF ShutDown, Terminate, Running, asker, hold
    <2>2. CASE ShutDownStopped
      BY <2>2 DEF ShutDownStopped, Killed, asker, hold
    <2>3. CASE ShutDownEnds
      BY <2>3 DEF ShutDownEnds, Release, Gone
    <2>4. QED BY <1>3, <2>1, <2>2, <2>3 DEF Ends
  <1>4. CASE ArmFails
    BY <1>4 DEF ArmFails, Fault, Release, Starting, tunnel, hold
  <1>5. CASE AskFails
    BY <1>5 DEF AskFails, Fault, Terminate, Running, hold
  <1>6. CASE Crash
    BY <1>6 DEF Crash, Fault, Gone
  <1>7. CASE Boot
    BY <1>7 DEF Boot, asker, tunnel
  <1>8. CASE Signal
    BY <1>8 DEF Signal, Fault, asker, tunnel
  <1>9. CASE LineEnds
    BY <1>9 DEF LineEnds, asker, tunnel, hold, system
  <1>10. CASE Replace
    BY <1>10 DEF Replace, Fault, asker, tunnel, hold
  <1>11. CASE Hand
    BY <1>11 DEF Hand, Fault, asker, tunnel
  <1>12. ASSUME NEW n \in Tunnels, Exits(n) PROVE NamesStay
    BY <1>12 DEF Exits, asker, hold, system
  <1>13. ASSUME NEW n \in Tunnels, Ended(n) PROVE NamesStay
    BY <1>13 DEF Ended, asker, hold, system
  <1>14. ASSUME NEW n \in Tunnels, TunnelDied(n) PROVE NamesStay
    BY <1>14 DEF TunnelDied, Running, asker, hold, system
  <1>15. CASE UNCHANGED vars
    BY <1>15 DEF vars, asker, tunnel, hold, system
  <1>16. QED BY <1>1, <1>2, <1>3, <1>4, <1>5, <1>6, <1>7, <1>8, <1>9, <1>10, <1>11, <1>12, <1>13,
           <1>14, <1>15 DEF Next

-----------------------------------------------------------------------------
\* The invariant is inductive.
LEMMA Invariant == Spec => []IInv
  <1>1. Init => IInv
    <2> SUFFICES ASSUME Init PROVE IInv
      OBVIOUS
    <2>1. Flags
      BY DEF Init, Flags
    <2>2. Values
      BY HelperAssumption DEF Init, Values, Tunnels
    <2>3. Order /\ Owned /\ Standing /\ Ending /\ Asked /\ LeavesNothing
      BY DEF Init, Order, Owned, Standing, Ending, Asked, LeavesNothing, MainIn, TermIn
    <2> QED BY <2>1, <2>2, <2>3 DEF IInv, TypeOK
  <1>2. IInv /\ [Next]_vars => IInv'
    BY FlagStep, TypeStep, OrderStep, OwnedStep, StandingStep, EndStep DEF IInv, TypeOK
  <1>3. QED BY <1>1, <1>2, PTL DEF Spec

\* The types of Helper's state.
THEOREM HelperTypes == Spec => []TypeOK
  BY Invariant, PTL DEF IInv

\* The kill switch: from the moment a start armed it until its end is asked
\* for, the daemon takes a block away only where a start fails to arm its own;
\* a death, a crash, an update, a keeping stop or a new block leave no gap.
THEOREM BlockOutlives == Spec => BlockStays
  <1>1. IInv /\ [Next]_vars => [BlockKept]_vars
    BY BlockStep DEF IInv
  <1> QED BY <1>1, Invariant, PTL DEF Spec, BlockStays, BlockKept

\* No tunnel runs behind another's block.
THEOREM TunnelBehindItsBlock == Spec => []Behind
  <1>1. IInv => Behind
    <2> SUFFICES ASSUME IInv, Running, block # None PROVE block = holdOf[process]
      BY DEF Behind
    <2>1. process # None
      BY HelperAssumption DEF IInv, TypeOK, Values, Running
    <2> QED BY <2>1 DEF IInv, Standing
  <1> QED BY <1>1, Invariant, PTL

\* A tunnel is started only after the one before it ended or was killed.
THEOREM TunnelsTakeTurns == Spec => []OneTunnel
  <1>1. IInv => OneTunnel
    <2> SUFFICES ASSUME IInv PROVE Cardinality(alive \ killed) <= 1
      BY DEF OneTunnel
    <2>1. \A m, n \in alive \ killed : m = n
      BY HelperAssumption DEF IInv, TypeOK, Values, Order, Owned, MainIn, TermIn, Tunnels
    <2>2. CASE alive \ killed = {}
      BY <2>2, FS_EmptySet
    <2>3. CASE alive \ killed # {}
      <3>1. PICK n : alive \ killed = {n}
        BY <2>1, <2>3
      <3> QED BY <3>1, FS_Singleton
    <2> QED BY <2>2, <2>3
  <1> QED BY <1>1, Invariant, PTL

\* No late report of a death takes the names of the tunnel that runs.
THEOREM NamesOfTheRunning == Spec => NamesAreKept
  <1>1. [Next]_vars => [names # None /\ names' = None => ~(Running /\ LockFree)]_vars
    BY NamesStep DEF NamesStay
  <1> QED BY <1>1, PTL DEF Spec, NamesAreKept

\* A SIGTERM that gets to its own exit leaves nothing on the machine.
THEOREM NothingIsLeft == Spec => []LeavesNothing
  BY Invariant, PTL DEF IInv
=============================================================================
