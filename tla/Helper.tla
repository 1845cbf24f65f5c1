------------------------------- MODULE Helper -------------------------------
(***************************************************************************)
(* The macOS helper (desktopApp/tunneldaemon): the root daemon that runs   *)
(* the tunnel's sing-box, points the system's resolver at it while it      *)
(* runs, and holds the machine's traffic with pf rules when it does not.   *)
(* Its threads are the accept loop, launchd's SIGTERM and one for every    *)
(* death of the tunnel; NSLock lets one of them in at a time.  The block   *)
(* is the kernel's and the resolver's key is the system's: both outlive    *)
(* the daemon.                                                             *)
(***************************************************************************)
EXTENDS Naturals, FiniteSets

CONSTANTS Holds,        \* what a hold asks pf for: the tunnel's interface and the addresses let out
          Requests,     \* the requests an app sends
          MaxRequests,  \* bound: how many are sent
          MaxStarts,    \* bound: sing-box processes started
          MaxFaults,    \* bound: crashes, SIGTERMs, updates, failures, outside hands
          None          \* nil

Tunnels == 1..MaxStarts

ASSUME HelperAssumption ==
    /\ None \notin Holds /\ None \notin Nat
    /\ MaxStarts \in Nat /\ MaxRequests \in Nat /\ MaxFaults \in Nat
    /\ Requests \subseteq [verb : {"start", "stop", "line", "line-stop", "release", "status", "bad"},
                           hold : Holds \cup {None}, names : BOOLEAN, keep : BOOLEAN]

VARIABLES
  up,        \* the daemon: "run"; "down" when it crashed or stepped aside; "ended" by shutDown
  replaced,  \* the binary on disk is not the one that runs
  pc, req,   \* the accept loop and its request
  quit,      \* quitAfterReply
  term,      \* the SIGTERM handler: "none", "wait", "stopping", "release"
  process,   \* TunnelChild.process
  victim,    \* the task a stop() waits for
  starts,    \* sing-box processes started so far
  alive, killed,  \* the ones that run, the ones sent SIGKILL
  exits,     \* ended, their terminationHandler not yet called
  deaths,    \* ended unasked, their onDeath waiting for the lock
  holdOf,    \* the hold each was started under
  names,     \* the resolver's key: the tunnel it was set for
  block,     \* the rules in pf's anchor
  stands, token,  \* TrafficHold's own
  line,      \* LineChild.process runs
  held,      \* history: the block a start put in place, until a request or a SIGTERM asks
             \* for its end or an outside hand removes it
  sent, faults    \* requests sent and faults met so far

asker   == <<pc, req, quit, sent>>
tunnel  == <<process, victim, starts, alive, killed, exits, deaths, holdOf>>
hold    == <<block, stands, token, held>>
system  == <<up, replaced, term, faults>>
vars    == <<asker, tunnel, hold, system, names, line>>

Init ==
  /\ up = "run" /\ replaced = FALSE /\ term = "none"
  /\ pc = "accept" /\ req = None /\ quit = FALSE
  /\ process = None /\ victim = None /\ starts = 0
  /\ alive = {} /\ killed = {} /\ exits = {} /\ deaths = {}
  /\ holdOf = [n \in Tunnels |-> None]
  /\ names = None /\ block = None /\ stands = FALSE /\ token = FALSE /\ held = None
  /\ line = FALSE /\ sent = 0 /\ faults = 0

Running  == process \in alive
MainIn   == pc \notin {"accept", "asked", "sent"}
TermIn   == term \in {"stopping", "release"}
LockFree == up = "run" /\ ~MainIn /\ ~TermIn

Fault == faults < MaxFaults /\ faults' = faults + 1

-----------------------------------------------------------------------------
(* TrafficHold.release: the anchor is flushed and pf's reference given back. *)
Release == /\ block' = None /\ stands' = FALSE /\ token' = FALSE
           /\ UNCHANGED held

(* TunnelChild.stop, its first half: the process is forgotten, and told to   *)
(* end if it runs.                                                           *)
Terminate ==
  /\ process' = None
  /\ victim' = IF Running THEN process ELSE None
  /\ UNCHANGED <<starts, alive, killed, exits, deaths, holdOf>>

(* Mutant: the child that does not go is left to itself. *)
KilledNever ==
  /\ victim' = None
  /\ UNCHANGED <<process, starts, alive, killed, exits, deaths, holdOf>>

(* Mutant: the kill is sent without asking whether there is a child. *)
KilledAnyway ==
  /\ killed' = killed \cup {victim}
  /\ victim' = None
  /\ UNCHANGED <<process, starts, alive, exits, deaths, holdOf>>

(* The rest of it: five seconds to go by itself, then SIGKILL, without       *)
(* waiting for it to be gone.                                                *)
Killed ==
  /\ killed' = killed \cup ({victim} \cap alive)
  /\ victim' = None
  /\ UNCHANGED <<process, starts, alive, exits, deaths, holdOf>>

-----------------------------------------------------------------------------
(* Requests.                                                                 *)

GivesUp(r) == \/ r.verb = "release"
              \/ r.verb = "stop" /\ ~r.keep
              \/ r.verb = "start" /\ r.hold = None

Receive(r) ==
  /\ up = "run" /\ pc = "accept" /\ sent < MaxRequests
  /\ pc' = "asked" /\ req' = r /\ sent' = sent + 1
  /\ held' = IF GivesUp(r) THEN None ELSE held
  /\ UNCHANGED <<quit, tunnel, block, stands, token, system, names, line>>

Enter == pc = "asked" /\ LockFree

(* A start, or a stop, or a request that finds a newer daemon on disk, stops *)
(* the tunnel first.                                                         *)
StopTunnel ==
  /\ Enter
  /\ \/ req.verb \in {"start", "stop"}
     \/ req.verb = "line" /\ replaced
  /\ quit' = replaced
  /\ pc' = "stopping"
  /\ Terminate
  /\ UNCHANGED <<req, sent, hold, system, names, line>>

StoppedTunnel ==
  /\ pc = "stopping"
  /\ Killed
  /\ names' = None
  /\ pc' = "stopped"
  /\ UNCHANGED <<req, quit, sent, hold, system, line>>

StartLine ==
  /\ Enter /\ req.verb = "line" /\ ~replaced
  /\ line' \in BOOLEAN
  /\ pc' = "reply"
  /\ UNCHANGED <<req, quit, sent, tunnel, hold, system, names>>

LineStop ==
  /\ Enter /\ req.verb = "line-stop"
  /\ line' = FALSE
  /\ pc' = "reply"
  /\ UNCHANGED <<req, quit, sent, tunnel, hold, system, names>>

ReleaseAsked ==
  /\ Enter /\ req.verb = "release"
  /\ Release
  /\ pc' = "reply"
  /\ UNCHANGED <<req, quit, sent, tunnel, system, names, line>>

(* A status, and every request that is refused before it changes anything.   *)
Looked ==
  /\ Enter /\ req.verb \in {"status", "bad"}
  /\ pc' = "reply"
  /\ UNCHANGED <<req, quit, sent, tunnel, hold, system, names, line>>

Keeps == req.verb # "stop" \/ req.keep

(* Mutant: every stop takes the block with it. *)
StoppedReleases ==
  /\ pc = "stopped" /\ (req.verb = "stop" \/ quit)
  /\ line' = (line /\ ~quit)
  /\ block' = None /\ stands' = FALSE /\ token' = FALSE /\ UNCHANGED held
  /\ pc' = "reply"
  /\ UNCHANGED <<req, quit, sent, tunnel, system, names>>

Stopped ==
  /\ pc = "stopped" /\ (req.verb = "stop" \/ quit)
  /\ line' = (line /\ ~quit)
  /\ IF Keeps THEN UNCHANGED hold ELSE Release
  /\ pc' = "reply"
  /\ UNCHANGED <<req, quit, sent, tunnel, system, names>>

Starting == pc = "stopped" /\ req.verb = "start" /\ ~quit

NoHold ==
  /\ Starting /\ req.hold = None
  /\ IF stands THEN Release ELSE UNCHANGED hold
  /\ pc' = "run"
  /\ UNCHANGED <<req, quit, sent, tunnel, system, names, line>>

(* TrafficHold.arm: the rules in place of those that stood, in one step.     *)
Load ==
  /\ Starting /\ req.hold # None
  /\ token' = TRUE
  /\ block' = req.hold
  /\ pc' = "check"
  /\ UNCHANGED <<req, quit, sent, stands, held, tunnel, system, names, line>>

(* Loaded is not in force: pf enabled, the anchor handed over to, the rules  *)
(* there.                                                                    *)
Check ==
  /\ pc = "check"
  /\ IF block # None
       THEN /\ stands' = TRUE /\ pc' = "run" /\ UNCHANGED <<block, token>>
            /\ held' = IF term = "none" THEN block ELSE held
       ELSE Release /\ pc' = "reply"
  /\ UNCHANGED <<req, quit, sent, tunnel, system, names, line>>

ArmFails ==
  /\ Fault
  /\ \/ Starting /\ req.hold # None
     \/ pc = "check"
  /\ Release
  /\ pc' = "reply"
  /\ UNCHANGED <<req, quit, sent, tunnel, up, replaced, term, names, line>>

(* TunnelChild.start: the task runs before the child has it as its process.  *)
Run ==
  /\ pc = "run" /\ starts < MaxStarts
  /\ starts' = starts + 1
  /\ alive' = alive \cup {starts'}
  /\ holdOf' = [holdOf EXCEPT ![starts'] = req.hold]
  /\ pc' = "assign"
  /\ UNCHANGED <<req, quit, sent, process, victim, killed, exits, deaths, hold, system, names, line>>

RunFails ==
  /\ pc = "run"
  /\ pc' = "reply"
  /\ UNCHANGED <<req, quit, sent, tunnel, hold, system, names, line>>

Assign ==
  /\ pc = "assign"
  /\ process' = starts
  /\ pc' = "sleep"
  /\ UNCHANGED <<req, quit, sent, victim, starts, alive, killed, exits, deaths, holdOf,
                 hold, system, names, line>>

(* A second later: the child still runs, or the start has failed.            *)
Awake ==
  /\ pc = "sleep"
  /\ pc' = IF Running /\ req.names THEN "ask" ELSE "reply"
  /\ UNCHANGED <<req, quit, sent, tunnel, hold, system, names, line>>

Ask ==
  /\ pc = "ask"
  /\ names' = starts
  /\ pc' = "reply"
  /\ UNCHANGED <<req, quit, sent, tunnel, hold, system, line>>

AskFails ==
  /\ pc = "ask" /\ Fault
  /\ Terminate
  /\ pc' = "undo"
  /\ UNCHANGED <<req, quit, sent, hold, up, replaced, term, names, line>>

Undone ==
  /\ pc = "undo"
  /\ Killed
  /\ pc' = "reply"
  /\ UNCHANGED <<req, quit, sent, hold, system, names, line>>

(* With a tunnel up the answer is what this process remembers; with none it  *)
(* is pf's own, and is remembered.                                           *)
Reply ==
  /\ pc = "reply"
  /\ stands' = IF Running THEN stands ELSE block # None
  /\ pc' = "sent"
  /\ UNCHANGED <<req, quit, sent, tunnel, block, token, held, system, names, line>>

-----------------------------------------------------------------------------
(* The daemon's ends.                                                        *)

(* Whatever the process had is gone, its children with it; pf's rules and    *)
(* the resolver's key are not the process's.                                 *)
Gone ==
  /\ pc' = "accept" /\ req' = None /\ quit' = FALSE /\ sent' = sent
  /\ process' = None /\ victim' = None /\ alive' = {} /\ killed' = {}
  /\ exits' = {} /\ deaths' = {}
  /\ starts' = starts /\ holdOf' = holdOf
  /\ term' = "none" /\ line' = FALSE

Sent ==
  /\ pc = "sent" /\ ~quit
  /\ pc' = "accept" /\ req' = None
  /\ UNCHANGED <<quit, sent, tunnel, hold, system, names, line>>

(* Beside the SIGTERM handler: nothing makes the accept loop wait for it.    *)
QuitAfterReply ==
  /\ pc = "sent" /\ quit
  /\ Gone
  /\ up' = "down" /\ stands' = FALSE /\ token' = FALSE
  /\ UNCHANGED <<replaced, faults, block, held, names>>

Crash ==
  /\ up = "run" /\ Fault
  /\ Gone
  /\ up' = "down" /\ stands' = FALSE /\ token' = FALSE
  /\ UNCHANGED <<replaced, block, held, names>>

(* Mutant: the new daemon does not look for a block that stands. *)
BootForgets ==
  /\ up \in {"down", "ended"}
  /\ up' = "run" /\ replaced' = FALSE
  /\ stands' = FALSE
  /\ names' = None
  /\ UNCHANGED <<asker, tunnel, block, token, held, term, faults, line>>

(* launchd's KeepAlive, and Daemon.init.                                     *)
Boot ==
  /\ up \in {"down", "ended"}
  /\ up' = "run" /\ replaced' = FALSE
  /\ stands' = (block # None)
  /\ names' = None
  /\ UNCHANGED <<asker, tunnel, block, token, held, term, faults, line>>

Signal ==
  /\ up = "run" /\ term = "none" /\ Fault
  /\ term' = "wait" /\ held' = None
  /\ UNCHANGED <<asker, tunnel, block, stands, token, up, replaced, names, line>>

ShutDown ==
  /\ term = "wait" /\ LockFree
  /\ Terminate
  /\ term' = "stopping"
  /\ UNCHANGED <<asker, hold, up, replaced, faults, names, line>>

ShutDownStopped ==
  /\ term = "stopping"
  /\ Killed
  /\ names' = None /\ line' = FALSE
  /\ term' = "release"
  /\ UNCHANGED <<asker, hold, up, replaced, faults>>

ShutDownEnds ==
  /\ term = "release"
  /\ Release
  /\ Gone
  /\ up' = "ended"
  /\ UNCHANGED <<replaced, faults, names>>

-----------------------------------------------------------------------------
(* What happens around it.                                                   *)

(* sing-box exits: by itself, told to, or killed.                            *)
Exits(n) ==
  /\ n \in alive
  /\ alive' = alive \ {n} /\ killed' = killed \ {n}
  /\ exits' = exits \cup {n}
  /\ UNCHANGED <<process, victim, starts, deaths, holdOf, asker, hold, system, names, line>>

(* Mutant: the death is told to nobody. *)
EndedQuiet(n) ==
  /\ n \in exits
  /\ exits' = exits \ {n}
  /\ IF process = n THEN process' = None ELSE UNCHANGED process
  /\ UNCHANGED <<deaths, victim, starts, alive, killed, holdOf, asker, hold, system, names, line>>

(* TunnelChild.ended: unless a stop took it first, nobody asked it to go.    *)
Ended(n) ==
  /\ n \in exits
  /\ exits' = exits \ {n}
  /\ IF process = n
       THEN process' = None /\ deaths' = deaths \cup {n}
       ELSE UNCHANGED <<process, deaths>>
  /\ UNCHANGED <<victim, starts, alive, killed, holdOf, asker, hold, system, names, line>>

(* Mutant: whatever runs now, the resolver is given back. *)
TunnelDiedAlways(n) ==
  /\ n \in deaths /\ LockFree
  /\ deaths' = deaths \ {n}
  /\ names' = None
  /\ UNCHANGED <<process, victim, starts, alive, killed, exits, holdOf, asker, hold, system, line>>

TunnelDied(n) ==
  /\ n \in deaths /\ LockFree
  /\ deaths' = deaths \ {n}
  /\ names' = IF Running THEN names ELSE None
  /\ UNCHANGED <<process, victim, starts, alive, killed, exits, holdOf, asker, hold, system, line>>

LineEnds ==
  /\ line /\ line' = FALSE
  /\ UNCHANGED <<asker, tunnel, hold, system, names>>

(* An app update under a daemon that runs.                                   *)
Replace ==
  /\ up = "run" /\ ~replaced /\ Fault
  /\ replaced' = TRUE
  /\ UNCHANGED <<asker, tunnel, hold, up, term, names, line>>

(* Somebody else takes the rules away.                                       *)
Hand ==
  /\ block # None /\ Fault
  /\ block' = None /\ held' = None
  /\ UNCHANGED <<asker, tunnel, stands, token, up, replaced, term, names, line>>

-----------------------------------------------------------------------------
Handle ==
  \/ StopTunnel \/ StoppedTunnel \/ StartLine \/ LineStop \/ ReleaseAsked \/ Looked
  \/ Stopped \/ NoHold \/ Load \/ Check
  \/ Run \/ RunFails \/ Assign \/ Awake \/ Ask \/ Undone
  \/ Reply \/ Sent \/ QuitAfterReply

Ends == ShutDown \/ ShutDownStopped \/ ShutDownEnds

Next ==
  \/ \E r \in Requests : Receive(r)
  \/ Handle \/ ArmFails \/ AskFails
  \/ Crash \/ Boot \/ Signal \/ Ends
  \/ \E n \in Tunnels : Exits(n) \/ Ended(n) \/ TunnelDied(n)
  \/ LineEnds \/ Replace \/ Hand

Spec == Init /\ [][Next]_vars

(* The threads run and launchd restarts what is to be kept alive; a killed   *)
(* process goes.  Nothing is assumed of the app, of sing-box or of faults.   *)
Fair ==
  /\ WF_vars(Handle) /\ WF_vars(Ends)
  /\ WF_vars(up = "down" /\ Boot)
  /\ \A n \in Tunnels : /\ WF_vars(Ended(n)) /\ WF_vars(TunnelDied(n))
                        /\ WF_vars(n \in killed /\ Exits(n))

FairSpec == Spec /\ Fair

-----------------------------------------------------------------------------
Flags ==
  /\ replaced \in BOOLEAN /\ quit \in BOOLEAN
  /\ stands \in BOOLEAN /\ token \in BOOLEAN /\ line \in BOOLEAN

Values ==
  /\ up \in {"run", "down", "ended"} /\ term \in {"none", "wait", "stopping", "release"}
  /\ pc \in {"accept", "asked", "stopping", "stopped", "check", "run", "assign", "sleep", "ask",
             "undo", "reply", "sent"}
  /\ req \in Requests \cup {None} /\ (pc # "accept" => req \in Requests)
  /\ process \in Tunnels \cup {None} /\ victim \in Tunnels \cup {None}
  /\ starts \in 0..MaxStarts
  /\ alive \subseteq 1..starts /\ killed \subseteq alive
  /\ exits \subseteq 1..starts /\ deaths \subseteq 1..starts
  /\ holdOf \in [Tunnels -> Holds \cup {None}]
  /\ names \in Tunnels \cup {None}
  /\ block \in Holds \cup {None} /\ held \in Holds \cup {None}
  /\ sent \in 0..MaxRequests /\ faults \in 0..MaxFaults

(* The types: no tunnel but a started one, and SIGKILL to those that run.    *)
TypeOK == Flags /\ Values

(* "Nothing else" takes the block away (docs/macos-tunnel-daemon.md): once a  *)
(* start has put one in place, some block stands in every state until a      *)
(* request or a SIGTERM asks for its end or an outside hand removes it.      *)
Held == held # None => block # None

(* An arm fails: pf refuses the rules or they are not in force.              *)
GivenUp == pc \in {"stopped", "check"} /\ pc' = "reply" /\ req.verb = "start" /\ req.hold # None

(* What there is of it: the tunnel's death, the daemon's crash or update, a  *)
(* stop that keeps the block, a start that fails and the change to another   *)
(* block leave no gap.  Until its end is asked for, the daemon takes a block *)
(* away in one step only, that of a start whose own block cannot be armed.   *)
BlockStays == [][held' # None /\ block # None /\ block' = None => GivenUp]_vars

(* The tunnel is let out by the block that stands: no tunnel runs behind the *)
(* block of another, and none started without one behind any (Daemon.swift,  *)
(* start: "its tunnel is in no rule of it").                                 *)
Behind == Running /\ block # None => block = holdOf[process]

(* A tunnel is started only after the one before it ended or was killed.     *)
OneTunnel == Cardinality(alive \ killed) <= 1

(* A tunnel that runs keeps the system's names: a late report of an earlier  *)
(* tunnel's death never takes them (tunnelDied: "the key is that one's"),    *)
(* only a request, the SIGTERM, or a daemon's end do.                        *)
NamesAreKept ==
  [][names # None /\ names' = None => ~(Running /\ LockFree)]_vars

(* A daemon told to end by SIGTERM that gets to its own exit leaves nothing  *)
(* of itself on the machine: no resolver, no block, no line's program.       *)
LeavesNothing == up = "ended" => names = None /\ block = None /\ ~line

(* Names never go on being asked of a tunnel that is gone, whichever way it, *)
(* or the daemon, went.                                                      *)
NamesComeBack == names # None /\ names \notin alive ~> names = None \/ names \in alive
=============================================================================
