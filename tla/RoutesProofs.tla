---------------------------- MODULE RoutesProofs ----------------------------
(***************************************************************************)
(* Proofs about Routes, for any addresses, kernels and refusals: the kill  *)
(* switch is whole while it counts as on, its drop rule never points at an *)
(* empty table, an install that failed leaves nothing, Sync reaches what   *)
(* it was given, no Sync follows a stopped watcher, and an idle daemon     *)
(* leaves no rule, route or table behind.                                  *)
(*                                                                         *)
(* First come the types, where the two goroutines can be and in which job, *)
(* and which of them holds Manager.mu; then what stands in the kernel.     *)
(***************************************************************************)
EXTENDS Routes, TLAPS

\* Labels of the caller at which it holds Manager.mu.
Held == {"edit", "rules", "flush", "add", "return", "stale"}

\* One goroutine edits rules at a time, and it holds mu.
Locked ==
  /\ pc["caller"] \in Held <=> mu = "caller"
  /\ pc["watcher"] = "edit" <=> mu = "watcher"

\* Where the two goroutines can be, and in which job the caller is there.
Control ==
  /\ pc["watcher"] \in SyncLabels \cup {"off", "select", "spin"}
  /\ pc["caller"] # "select"
  /\ pc["caller"] \in {"off", "idle"} => job = "none"
  /\ pc["caller"] \in {"addrs", "link", "watch"} => job \in {"install", "up"}
  /\ pc["caller"] \in {"sync", "edit"} => job # "none"
  /\ pc["caller"] \in {"rules", "flush", "return"} =>
       \/ job = "install" /\ kop # "none"
       \/ job \in {"boot", "remove"} /\ kop = "remove"
  /\ pc["caller"] = "add" => job = "install" /\ kop = "install"
  /\ pc["caller"] = "stale" => job = "boot"
  /\ pc["caller"] = "removeSwitch" => job \in {"install", "remove"}
  /\ pc["caller"] \in {"front", "confirm", "up"} => job = "up"
  /\ pc["caller"] \in {"stop", "join"} => job \in {"remove", "down"}
  /\ pc["caller"] = "close" => job = "down"
  /\ ksOn => pc["caller"] \in {"idle", "front", "confirm", "up", "close"}
  /\ job \in {"up", "down"} => ownRules = ~ksOn
  /\ pc["caller"] \notin {"rules", "flush", "add", "stale"} => fam = "v4"

\* The three together are inductive.
Order == Locked /\ Control /\ NoLateSync

-----------------------------------------------------------------------------
\* The kernel's state keeps its types.
LEMMA KernelTypesStep == TypeOK /\ [Next]_vars => KernelTypes'
  <1> SUFFICES ASSUME TypeOK, [Next]_vars PROVE KernelTypes'
    BY Zenon
  <1>0. KernelTypes /\ add \in SUBSET (Addresses \cup {TunAddress}) /\ left \in SUBSET KsRules /\ fam \in Families
    BY Zenon DEF TypeOK, CallTypes, DaemonTypes
  <1> USE <1>0 DEF KernelTypes, KsRules, Families
  <1>1. ASSUME NEW a \in Addresses, AddressChange(a) PROVE KernelTypes'
    BY <1>1 DEF AddressChange, Change
  <1>2. ASSUME NEW q \in Goroutines, SyncStep(q) PROVE KernelTypes'
    <2>1. CASE AddrList(q)
      BY <2>1, Zenon DEF AddrList, kernelVars
    <2>2. CASE AddrListFails(q)
      BY <2>2, Zenon DEF AddrListFails, kernelVars
    <2>3. CASE LinkByName(q)
      BY <2>3, Zenon DEF LinkByName, kernelVars
    <2>4. CASE Existing(q)
      BY <2>4, Zenon DEF Existing, kernelVars
    <2>5. CASE ExistingFails(q)
      BY <2>5, Zenon DEF ExistingFails, kernelVars
    <2>6. ASSUME NEW a \in del, RuleDel(q, a) PROVE KernelTypes'
      BY <2>6, Zenon DEF RuleDel
    <2>7. ASSUME NEW a \in add, RuleAdd(q, a) PROVE KernelTypes'
      BY <2>7, Zenon DEF RuleAdd
    <2>8. CASE SyncReturns(q)
      BY <2>8, Zenon DEF SyncReturns, kernelVars
    <2>9. QED BY <1>2, <2>1, <2>2, <2>3, <2>4, <2>5, <2>6, <2>7, <2>8, Zenon DEF SyncStep
  <1>3. CASE SwitchStep
    <2>1. CASE Remove
      BY <2>1, Zenon DEF Remove, SwitchFrame
    <2>2. CASE RuleList
      BY <2>2, Zenon DEF RuleList, SwitchFrame
    <2>3. CASE Flush
      BY <2>3 DEF Flush, SwitchFrame, First
    <2>4. CASE RouteReplace
      BY <2>4, Zenon DEF RouteReplace, SwitchFrame
    <2>5. CASE AddRule
      BY <2>5 DEF AddRule, SwitchFrame, First
    <2>6. CASE AddedRules
      BY <2>6, Zenon DEF AddedRules, SwitchFrame
    <2>7. CASE RouteDel
      BY <2>7, Zenon DEF RouteDel, SwitchFrame
    <2>8. CASE InstallReturns
      BY <2>8, Zenon DEF InstallReturns, SwitchFrame
    <2>9. CASE RemoveReturns
      BY <2>9, Zenon DEF RemoveReturns, SwitchFrame
    <2>10. CASE CleanupStale
      BY <2>10, Zenon DEF CleanupStale
    <2>11. QED BY <1>3, <2>1, <2>2, <2>3, <2>4, <2>5, <2>6, <2>7, <2>8, <2>9, <2>10, Zenon DEF SwitchStep
  <1>4. CASE LineStep
    <2>1. CASE StartFront
      BY <2>1, Zenon DEF StartFront
    <2>2. CASE FrontFails
      BY <2>2, Zenon DEF FrontFails, kernelVars
    <2>3. CASE Confirm
      BY <2>3, Zenon DEF Confirm, kernelVars
    <2>4. CASE WatchAddresses
      BY <2>4, Zenon DEF WatchAddresses, kernelVars
    <2>5. CASE Stop
      BY <2>5, Zenon DEF Stop, kernelVars
    <2>6. CASE Join
      BY <2>6, Zenon DEF Join, kernelVars
    <2>7. CASE CloseFront
      BY <2>7, Zenon DEF CloseFront
    <2>8. QED BY <1>4, <2>1, <2>2, <2>3, <2>4, <2>5, <2>6, <2>7, Zenon DEF LineStep
  <1>5. CASE WatchStep
    <2>1. CASE WatchUpdate
      BY <2>1, Zenon DEF WatchUpdate, kernelVars
    <2>2. CASE WatchFire
      BY <2>2, Zenon DEF WatchFire, kernelVars
    <2>3. CASE WatchEnds
      BY <2>3, Zenon DEF WatchEnds, kernelVars
    <2>4. CASE WatchBreaks
      BY <2>4, Zenon DEF WatchBreaks, Refuse, kernelVars
    <2>5. QED BY <1>5, <2>1, <2>2, <2>3, <2>4, Zenon DEF WatchStep
  <1>6. CASE Begin
    <2>1. CASE Install
      BY <2>1, Zenon DEF Install, SwitchFrame
    <2>2. CASE BringUp
      BY <2>2 DEF BringUp, Change
    <2>3. CASE LineEnds
      BY <2>3, Zenon DEF LineEnds, kernelVars
    <2>4. CASE RemoveSwitch
      BY <2>4, Zenon DEF RemoveSwitch, kernelVars
    <2>5. QED BY <1>6, <2>1, <2>2, <2>3, <2>4, Zenon DEF Begin
  <1>7. CASE ProcessStep
    <2>1. CASE Boot
      BY <2>1, Zenon DEF Boot, kernelVars
    <2>2. CASE Terminate
      BY <2>2, Zenon DEF Terminate, kernelVars
    <2>3. CASE Exit
      BY <2>3, Zenon DEF Exit, ProcessEnds
    <2>4. CASE Crash
      BY <2>4, Zenon DEF Crash, ProcessEnds
    <2>5. QED BY <1>7, <2>1, <2>2, <2>3, <2>4, Zenon DEF ProcessStep
  <1>8. CASE UNCHANGED vars
    BY <1>8, Zenon DEF vars, kernelVars
  <1>9. QED BY <1>1, <1>2, <1>3, <1>4, <1>5, <1>6, <1>7, <1>8, Zenon DEF Next

\* The daemon's fields keep their types.
LEMMA DaemonTypesStep == TypeOK /\ [Next]_vars => DaemonTypes'
  <1> SUFFICES ASSUME TypeOK, [Next]_vars PROVE DaemonTypes'
    BY Zenon
  <1>0. DaemonTypes
    BY Zenon DEF TypeOK
  <1> USE <1>0 DEF DaemonTypes, Goroutines, Labels, SyncLabels, Families
  <1>1. ASSUME NEW a \in Addresses, AddressChange(a) PROVE DaemonTypes'
    BY <1>1 DEF AddressChange, Notify, callVars
  <1>2. ASSUME NEW q \in Goroutines, SyncStep(q) PROVE DaemonTypes'
    <2>1. CASE AddrList(q)
      BY <2>1 DEF AddrList, Goto, callVars
    <2>2. CASE AddrListFails(q)
      <3>1. pc' \in [Goroutines -> Labels]
        BY <2>2 DEF AddrListFails, SyncFailed, GoOn, Idle, Refuse, Goto, callVars
      <3>2. ownRules' \in BOOLEAN /\ job' \in {"none", "boot", "install", "remove", "up", "down"}
        BY <2>2, Zenon DEF AddrListFails, SyncFailed, GoOn, Idle, Refuse, Goto, callVars
      <3>3. refused' \in SUBSET Faults /\ mu' \in Goroutines \cup {"none"} /\ fam' \in Families
        BY <2>2, Zenon DEF AddrListFails, SyncFailed, GoOn, Idle, Refuse, Goto, callVars
      <3>4. kop' \in {"none", "install", "undo", "remove"} /\ ctxDone' \in BOOLEAN /\ ksOn' \in BOOLEAN
        BY <2>2, Zenon DEF AddrListFails, SyncFailed, GoOn, Idle, Refuse, Goto, callVars
      <3>5. QED BY <3>1, <3>2, <3>3, <3>4, Zenon DEF DaemonTypes
    <2>3. CASE LinkByName(q)
      BY <2>3 DEF LinkByName, Goto, callVars
    <2>4. CASE Existing(q)
      BY <2>4 DEF Existing, Goto
    <2>5. CASE ExistingFails(q)
      BY <2>5 DEF ExistingFails, Refuse, Goto
    <2>6. ASSUME NEW a \in del, RuleDel(q, a) PROVE DaemonTypes'
      BY <2>6 DEF RuleDel, Refuse
    <2>7. ASSUME NEW a \in add, RuleAdd(q, a) PROVE DaemonTypes'
      BY <2>7 DEF RuleAdd, Refuse
    <2>8. CASE SyncReturns(q)
      <3>1. pc' \in [Goroutines -> Labels]
        BY <2>8 DEF SyncReturns, SyncFailed, GoOn, Idle, Goto
      <3>2. ownRules' \in BOOLEAN /\ job' \in {"none", "boot", "install", "remove", "up", "down"}
        BY <2>8, Zenon DEF SyncReturns, SyncFailed, GoOn, Idle, Goto
      <3>3. refused' \in SUBSET Faults /\ mu' \in Goroutines \cup {"none"} /\ fam' \in Families
        BY <2>8, Zenon DEF SyncReturns, SyncFailed, GoOn, Idle, Goto
      <3>4. kop' \in {"none", "install", "undo", "remove"} /\ ctxDone' \in BOOLEAN /\ ksOn' \in BOOLEAN
        BY <2>8, Zenon DEF SyncReturns, SyncFailed, GoOn, Idle, Goto
      <3>5. QED BY <3>1, <3>2, <3>3, <3>4, Zenon DEF DaemonTypes
    <2>9. QED BY <1>2, <2>1, <2>2, <2>3, <2>4, <2>5, <2>6, <2>7, <2>8, Zenon DEF SyncStep
  <1>3. CASE SwitchStep
    <2>1. CASE Remove
      BY <2>1, Zenon DEF Remove, SwitchFrame, Goto
    <2>2. CASE RuleList
      BY <2>2 DEF RuleList, SwitchFrame, Refuse, Goto
    <2>3. CASE Flush
      BY <2>3 DEF Flush, SwitchFrame, Refuse
    <2>4. CASE RouteReplace
      BY <2>4 DEF RouteReplace, SwitchFrame, Refuse, NextFamily, Goto
    <2>5. CASE AddRule
      BY <2>5 DEF AddRule, SwitchFrame, Refuse
    <2>6. CASE AddedRules
      BY <2>6 DEF AddedRules, SwitchFrame, NextFamily, Goto
    <2>7. CASE RouteDel
      BY <2>7 DEF RouteDel, SwitchFrame, Refuse, NextFamily, Goto
    <2>8. CASE InstallReturns
      BY <2>8 DEF InstallReturns, SwitchFrame, GoOn, Goto
    <2>9. CASE RemoveReturns
      BY <2>9, ZenonT(20) DEF RemoveReturns, SwitchFrame, GoOn, Idle, Goto
    <2>10. CASE CleanupStale
      <3>1. pc' \in [Goroutines -> Labels]
        BY <2>10, Zenon DEF CleanupStale, GoOn, Idle, Refuse, Goto
      <3>2. ownRules' \in BOOLEAN /\ job' \in {"none", "boot", "install", "remove", "up", "down"}
        BY <2>10, Zenon DEF CleanupStale, GoOn, Idle, Refuse, Goto
      <3>3. refused' \in SUBSET Faults /\ mu' \in Goroutines \cup {"none"} /\ fam' \in Families
        BY <2>10, Zenon DEF CleanupStale, GoOn, Idle, Refuse, Goto
      <3>4. kop' \in {"none", "install", "undo", "remove"} /\ ctxDone' \in BOOLEAN /\ ksOn' \in BOOLEAN
        BY <2>10, Zenon DEF CleanupStale, GoOn, Idle, Refuse, Goto
      <3>5. QED BY <3>1, <3>2, <3>3, <3>4, Zenon DEF DaemonTypes
    <2>11. QED BY <1>3, <2>1, <2>2, <2>3, <2>4, <2>5, <2>6, <2>7, <2>8, <2>9, <2>10, Zenon DEF SwitchStep
  <1>4. CASE LineStep
    <2>1. CASE StartFront
      BY <2>1 DEF StartFront, Notify, Goto, callVars
    <2>2. CASE FrontFails
      BY <2>2, ZenonT(60) DEF FrontFails, ToClear, Idle, Goto, callVars
    <2>3. CASE Confirm
      BY <2>3 DEF Confirm, Goto, callVars
    <2>4. CASE WatchAddresses
      BY <2>4 DEF WatchAddresses, Refuse, Goto, callVars
    <2>5. CASE Stop
      BY <2>5 DEF Stop, Goto, callVars
    <2>6. CASE Join
      BY <2>6 DEF Join, ToClear, Finished, Goto, callVars
    <2>7. CASE CloseFront
      <3>1. pc' \in [Goroutines -> Labels]
        BY <2>7, Zenon DEF CloseFront, Notify, ToClear, GoOn, Idle, Goto, callVars
      <3>2. ownRules' \in BOOLEAN /\ job' \in {"none", "boot", "install", "remove", "up", "down"}
        BY <2>7, Zenon DEF CloseFront, Notify, ToClear, GoOn, Idle, Goto, callVars
      <3>3. refused' \in SUBSET Faults /\ mu' \in Goroutines \cup {"none"} /\ fam' \in Families
        BY <2>7, Zenon DEF CloseFront, Notify, ToClear, GoOn, Idle, Goto, callVars
      <3>4. kop' \in {"none", "install", "undo", "remove"} /\ ctxDone' \in BOOLEAN /\ ksOn' \in BOOLEAN
        BY <2>7, Zenon DEF CloseFront, Notify, ToClear, GoOn, Idle, Goto, callVars
      <3>5. QED BY <3>1, <3>2, <3>3, <3>4, Zenon DEF DaemonTypes
    <2>8. QED BY <1>4, <2>1, <2>2, <2>3, <2>4, <2>5, <2>6, <2>7, Zenon DEF LineStep
  <1>5. CASE WatchStep
    <2>1. CASE WatchUpdate
      BY <2>1 DEF WatchUpdate, callVars
    <2>2. CASE WatchFire
      BY <2>2 DEF WatchFire, Goto, callVars
    <2>3. CASE WatchEnds
      BY <2>3 DEF WatchEnds, Goto, callVars
    <2>4. CASE WatchBreaks
      BY <2>4 DEF WatchBreaks, Refuse, Goto, callVars
    <2>5. QED BY <1>5, <2>1, <2>2, <2>3, <2>4, Zenon DEF WatchStep
  <1>6. CASE Begin
    <2>1. CASE Install
      BY <2>1, Zenon DEF Install, SwitchFrame, Goto
    <2>2. CASE BringUp
      BY <2>2, Zenon DEF BringUp, Goto, callVars
    <2>3. CASE LineEnds
      BY <2>3, Zenon DEF LineEnds, Goto, callVars
    <2>4. CASE RemoveSwitch
      BY <2>4, Zenon DEF RemoveSwitch, Goto, callVars
    <2>5. QED BY <1>6, <2>1, <2>2, <2>3, <2>4, Zenon DEF Begin
  <1>7. CASE ProcessStep
    <2>1. CASE Boot
      BY <2>1, Zenon DEF Boot, Goto, callVars
    <2>2. CASE Terminate
      BY <2>2, Zenon DEF Terminate, callVars
    <2>3. CASE Exit
      BY <2>3, Zenon DEF Exit, ProcessEnds
    <2>4. CASE Crash
      BY <2>4, ZenonT(20) DEF Crash, ProcessEnds
    <2>5. QED BY <1>7, <2>1, <2>2, <2>3, <2>4, Zenon DEF ProcessStep
  <1>8. CASE UNCHANGED vars
    BY <1>8, Zenon DEF vars, callVars
  <1>9. QED BY <1>1, <1>2, <1>3, <1>4, <1>5, <1>6, <1>7, <1>8, Zenon DEF Next

\* The locals of the calls keep their types.
LEMMA CallTypesStep == TypeOK /\ [Next]_vars => CallTypes'
  <1> SUFFICES ASSUME TypeOK, [Next]_vars PROVE CallTypes'
    BY Zenon
  <1>0. CallTypes /\ KernelTypes
    BY Zenon DEF TypeOK
  <1>10. /\ addrs \in SUBSET Addresses /\ own \in SUBSET (Addresses \cup {TunAddress})
         /\ ksRules[fam] \in SUBSET KsRules
    BY Zenon DEF TypeOK, KernelTypes, DaemonTypes
  <1> USE <1>0, <1>10 DEF CallTypes, Goroutines
  <1>1. ASSUME NEW a \in Addresses, AddressChange(a) PROVE CallTypes'
    BY <1>1 DEF AddressChange, Notify, callVars
  <1>2. ASSUME NEW q \in Goroutines, SyncStep(q) PROVE CallTypes'
    <2>1. CASE AddrList(q)
      BY <2>1, Zenon DEF AddrList, callVars, watchVars
    <2>2. CASE AddrListFails(q)
      BY <2>2, Zenon DEF AddrListFails, callVars, watchVars
    <2>3. CASE LinkByName(q)
      BY <2>3, Zenon DEF LinkByName, callVars, watchVars
    <2>4. CASE Existing(q)
      BY <2>4, Zenon DEF Existing, watchVars
    <2>5. CASE ExistingFails(q)
      BY <2>5, Zenon DEF ExistingFails, watchVars
    <2>6. ASSUME NEW a \in del, RuleDel(q, a) PROVE CallTypes'
      BY <2>6, Zenon DEF RuleDel, watchVars
    <2>7. ASSUME NEW a \in add, RuleAdd(q, a) PROVE CallTypes'
      BY <2>7, Zenon DEF RuleAdd, watchVars
    <2>8. CASE SyncReturns(q)
      BY <2>8, ZenonT(20) DEF SyncReturns, watchVars
    <2>9. QED BY <1>2, <2>1, <2>2, <2>3, <2>4, <2>5, <2>6, <2>7, <2>8, Zenon DEF SyncStep
  <1>3. CASE SwitchStep
    <2>1. CASE Remove
      BY <2>1, Zenon DEF Remove, SwitchFrame, watchVars
    <2>2. CASE RuleList
      BY <2>2, Zenon DEF RuleList, SwitchFrame, watchVars
    <2>3. CASE Flush
      BY <2>3, Zenon DEF Flush, SwitchFrame, watchVars, First
    <2>4. CASE RouteReplace
      BY <2>4, Zenon DEF RouteReplace, SwitchFrame, watchVars
    <2>5. CASE AddRule
      BY <2>5, ZenonT(20) DEF AddRule, SwitchFrame, watchVars, First
    <2>6. CASE AddedRules
      BY <2>6, Zenon DEF AddedRules, SwitchFrame, watchVars
    <2>7. CASE RouteDel
      BY <2>7, Zenon DEF RouteDel, SwitchFrame, watchVars
    <2>8. CASE InstallReturns
      BY <2>8, Zenon DEF InstallReturns, SwitchFrame, watchVars
    <2>9. CASE RemoveReturns
      BY <2>9, Zenon DEF RemoveReturns, SwitchFrame, watchVars
    <2>10. CASE CleanupStale
      BY <2>10, Zenon DEF CleanupStale, watchVars
    <2>11. QED BY <1>3, <2>1, <2>2, <2>3, <2>4, <2>5, <2>6, <2>7, <2>8, <2>9, <2>10, Zenon DEF SwitchStep
  <1>4. CASE LineStep
    <2>1. CASE StartFront
      BY <2>1, SMTT(30) DEF StartFront, Notify, callVars
    <2>2. CASE FrontFails
      BY <2>2, Zenon DEF FrontFails, ToClear, callVars, watchVars
    <2>3. CASE Confirm
      BY <2>3, Zenon DEF Confirm, callVars, watchVars
    <2>4. CASE WatchAddresses
      BY <2>4, Zenon DEF WatchAddresses, callVars, watchVars
    <2>5. CASE Stop
      BY <2>5, Zenon DEF Stop, callVars
    <2>6. CASE Join
      BY <2>6, Zenon DEF Join, ToClear, callVars
    <2>7. CASE CloseFront
      BY <2>7 DEF CloseFront, Notify, ToClear, callVars
    <2>8. QED BY <1>4, <2>1, <2>2, <2>3, <2>4, <2>5, <2>6, <2>7, Zenon DEF LineStep
  <1>5. CASE WatchStep
    <2>1. CASE WatchUpdate
      BY <2>1 DEF WatchUpdate, callVars
    <2>2. CASE WatchFire
      BY <2>2, Zenon DEF WatchFire, callVars
    <2>3. CASE WatchEnds
      BY <2>3, Zenon DEF WatchEnds, callVars
    <2>4. CASE WatchBreaks
      BY <2>4, Zenon DEF WatchBreaks, Refuse, callVars
    <2>5. QED BY <1>5, <2>1, <2>2, <2>3, <2>4, Zenon DEF WatchStep
  <1>6. CASE Begin
    <2>1. CASE Install
      BY <2>1, ZenonT(20) DEF Install, SwitchFrame, watchVars
    <2>2. CASE BringUp
      BY <2>2, Zenon DEF BringUp, callVars, watchVars
    <2>3. CASE LineEnds
      BY <2>3, Zenon DEF LineEnds, callVars, watchVars
    <2>4. CASE RemoveSwitch
      BY <2>4, Zenon DEF RemoveSwitch, callVars, watchVars
    <2>5. QED BY <1>6, <2>1, <2>2, <2>3, <2>4, Zenon DEF Begin
  <1>7. CASE ProcessStep
    <2>1. CASE Boot
      BY <2>1, Zenon DEF Boot, callVars, watchVars
    <2>2. CASE Terminate
      BY <2>2, Zenon DEF Terminate, callVars, watchVars
    <2>3. CASE Exit
      BY <2>3, Zenon DEF Exit, ProcessEnds
    <2>4. CASE Crash
      BY <2>4, Zenon DEF Crash, ProcessEnds
    <2>5. QED BY <1>7, <2>1, <2>2, <2>3, <2>4, Zenon DEF ProcessStep
  <1>8. CASE UNCHANGED vars
    BY <1>8, Zenon DEF vars, callVars, watchVars
  <1>9. QED BY <1>1, <1>2, <1>3, <1>4, <1>5, <1>6, <1>7, <1>8, Zenon DEF Next

\* Every label keeps its jobs, mu goes with the labels that edit rules, and a
\* watcher is started under a switch or a line and gone before either is.
LEMMA ControlStep == TypeOK /\ Order /\ [Next]_vars => Order'
  <1> SUFFICES ASSUME TypeOK, Order, [Next]_vars PROVE Order'
    BY Zenon
  <1>0. /\ pc \in [Goroutines -> Labels] /\ mu \in Goroutines \cup {"none"}
        /\ ksOn \in BOOLEAN /\ ownRules \in BOOLEAN
    BY Zenon DEF TypeOK, DaemonTypes
  <1> USE <1>0 DEF Order, Control, NoLateSync, Locked, Held, Goroutines, SyncLabels
  <1>1. ASSUME NEW a \in Addresses, AddressChange(a) PROVE Order'
    BY <1>1, SMTT(30) DEF AddressChange, Notify, callVars
  <1>2. ASSUME NEW q \in Goroutines, SyncStep(q) PROVE Order'
    <2>1. CASE AddrList(q)
      BY <2>1, Zenon DEF AddrList, Goto, callVars
    <2>2. CASE AddrListFails(q)
      BY <2>2, Zenon DEF AddrListFails, SyncFailed, GoOn, Idle, Goto, callVars
    <2>3. CASE LinkByName(q)
      BY <2>3, Zenon DEF LinkByName, Goto, callVars
    <2>4. CASE Existing(q)
      BY <2>4, Zenon DEF Existing, Goto
    <2>5. CASE ExistingFails(q)
      BY <2>5, Zenon DEF ExistingFails, Goto
    <2>6. ASSUME NEW a \in del, RuleDel(q, a) PROVE Order'
      BY <2>6, SMTT(30) DEF RuleDel
    <2>7. ASSUME NEW a \in add, RuleAdd(q, a) PROVE Order'
      BY <2>7, SMTT(30) DEF RuleAdd
    <2>8. CASE SyncReturns(q)
      BY <2>8, SMTT(30) DEF SyncReturns, SyncFailed, GoOn, Idle, Goto
    <2>9. QED BY <1>2, <2>1, <2>2, <2>3, <2>4, <2>5, <2>6, <2>7, <2>8, ZenonT(20) DEF SyncStep
  <1>3. CASE SwitchStep
    <2>1. CASE Remove
      BY <2>1, Zenon DEF Remove, SwitchFrame, Goto
    <2>2. CASE RuleList
      BY <2>2, Zenon DEF RuleList, SwitchFrame, Goto
    <2>3. CASE Flush
      BY <2>3, Zenon DEF Flush, SwitchFrame
    <2>4. CASE RouteReplace
      BY <2>4, Zenon DEF RouteReplace, SwitchFrame, NextFamily, Goto
    <2>5. CASE AddRule
      BY <2>5, Zenon DEF AddRule, SwitchFrame
    <2>6. CASE AddedRules
      BY <2>6, Zenon DEF AddedRules, SwitchFrame, NextFamily, Goto
    <2>7. CASE RouteDel
      BY <2>7, Zenon DEF RouteDel, SwitchFrame, NextFamily, Goto
    <2>8. CASE InstallReturns
      BY <2>8, Zenon DEF InstallReturns, SwitchFrame, GoOn, Goto
    <2>9. CASE RemoveReturns
      BY <2>9 DEF RemoveReturns, SwitchFrame, GoOn, Idle, Goto
    <2>10. CASE CleanupStale
      BY <2>10, Zenon DEF CleanupStale, GoOn, Idle, Goto
    <2>11. QED BY <1>3, <2>1, <2>2, <2>3, <2>4, <2>5, <2>6, <2>7, <2>8, <2>9, <2>10, ZenonT(20) DEF SwitchStep
  <1>4. CASE LineStep
    <2>1. CASE StartFront
      BY <2>1, Zenon DEF StartFront, Notify, Goto, callVars
    <2>2. CASE FrontFails
      BY <2>2, Zenon DEF FrontFails, ToClear, Idle, Goto, callVars
    <2>3. CASE Confirm
      BY <2>3, Zenon DEF Confirm, Goto, callVars
    <2>4. CASE WatchAddresses
      BY <2>4, ZenonT(20) DEF WatchAddresses, Goto, callVars
    <2>5. CASE Stop
      BY <2>5, Zenon DEF Stop, Goto, callVars
    <2>6. CASE Join
      BY <2>6, Zenon DEF Join, ToClear, Finished, Goto, callVars
    <2>7. CASE CloseFront
      BY <2>7, ZenonT(20) DEF CloseFront, Notify, ToClear, GoOn, Idle, Goto, callVars
    <2>8. QED BY <1>4, <2>1, <2>2, <2>3, <2>4, <2>5, <2>6, <2>7, ZenonT(20) DEF LineStep
  <1>5. CASE WatchStep
    <2>1. CASE WatchUpdate
      BY <2>1, Zenon DEF WatchUpdate, callVars
    <2>2. CASE WatchFire
      BY <2>2, Zenon DEF WatchFire, Goto, callVars
    <2>3. CASE WatchEnds
      BY <2>3, Zenon DEF WatchEnds, Goto, callVars
    <2>4. CASE WatchBreaks
      BY <2>4, Zenon DEF WatchBreaks, Refuse, Goto, callVars
    <2>5. QED BY <1>5, <2>1, <2>2, <2>3, <2>4, Zenon DEF WatchStep
  <1>6. CASE Begin
    <2>1. CASE Install
      BY <2>1, Zenon DEF Install, SwitchFrame, Goto
    <2>2. CASE BringUp
      BY <2>2, Zenon DEF BringUp, Goto, callVars
    <2>3. CASE LineEnds
      BY <2>3, ZenonT(20) DEF LineEnds, Goto, callVars
    <2>4. CASE RemoveSwitch
      BY <2>4, Zenon DEF RemoveSwitch, Goto, callVars
    <2>5. QED BY <1>6, <2>1, <2>2, <2>3, <2>4, ZenonT(20) DEF Begin
  <1>7. CASE ProcessStep
    <2>1. CASE Boot
      BY <2>1, Zenon DEF Boot, Goto, callVars
    <2>2. CASE Terminate
      BY <2>2, SMTT(30) DEF Terminate, callVars
    <2>3. CASE Exit
      BY <2>3, Zenon DEF Exit, ProcessEnds
    <2>4. CASE Crash
      BY <2>4, Zenon DEF Crash, ProcessEnds
    <2>5. QED BY <1>7, <2>1, <2>2, <2>3, <2>4 DEF ProcessStep
  <1>8. CASE UNCHANGED vars
    BY <1>8 DEF vars, callVars
  <1>9. QED BY <1>1, <1>2, <1>3, <1>4, <1>5, <1>6, <1>7, <1>8, Zenon DEF Next

-----------------------------------------------------------------------------
\* A family with all of the switch, and one with nothing of it.
Whole(f) == ksRules[f] = KsRules /\ f \in unreachable

Bare(f) == ksRules[f] = {} /\ f \notin unreachable

\* Nothing that removes was refused.
Removes == refused \cap {"list", "remove"} = {}

\* How far the switch is at each step of an install without errors.
Closing ==
  /\ fams \in Kernels
  /\ \A f \in Families \ fams : Bare(f)
  /\ pc["caller"] \notin {"flush", "add"} => left = {}
  /\ pc["caller"] = "flush" /\ (Removes \/ ~errs) => left = ksRules[fam]
  /\ pc["caller"] = "add" => fam \in fams /\ fam \in unreachable
  /\ pc["caller"] = "add" /\ ~errs => ksRules[fam] = KsRules \ left
  /\ kop = "install" /\ ~errs /\ pc["caller"] \in {"rules", "flush", "add"} /\ fam = "v6" => Whole("v4")
  /\ kop = "install" /\ ~errs /\ pc["caller"] = "return" => \A f \in fams : Whole(f)
  /\ job = "install" /\ pc["caller"] \in {"addrs", "link", "sync", "edit", "watch"} =>
       \A f \in fams : Whole(f)
  /\ ksOn => \A f \in fams : Whole(f)

\* How far it is at each step of a removal that is not refused.
Opening ==
  Removes =>
    /\ \A f \in Families : "drop" \in ksRules[f] => f \in unreachable
    /\ kop \in {"undo", "remove"} /\ pc["caller"] \in {"rules", "flush"} /\ fam = "v6" => Bare("v4")
    /\ kop \in {"undo", "remove"} /\ pc["caller"] = "return" => \A f \in Families : Bare(f)
    /\ pc["caller"] \in {"stale", "idle"} /\ ~ksOn => \A f \in Families : Bare(f)
    /\ job \in {"up", "down"} /\ ~ksOn => \A f \in Families : Bare(f)

\* Where the caller is while own-address rules may stand, and sing-box's, as
\* long as nothing on rules was refused.
OwnTime ==
  \/ pc["caller"] = "off" \/ ksOn
  \/ job = "boot" /\ pc["caller"] \in {"sync", "edit"}
  \/ job = "install" /\ pc["caller"] \in {"edit", "watch"}
  \/ job = "up" /\ pc["caller"] \in {"edit", "front", "confirm", "watch", "up"}
  \/ job \in {"down", "remove"} /\ pc["caller"] \in {"stop", "join", "close", "sync", "edit"}

BoxTime ==
  \/ pc["caller"] = "off"
  \/ job = "boot" /\ (pc["caller"] = "stale" /\ fam = "v6" => singbox \subseteq {"v6"})
  \/ job \in {"up", "down"} /\ pc["caller"] \in {"confirm", "watch", "up", "stop", "join", "close"}

\* syncLocked's two loops are empty between calls, only a connection or an
\* install lists addresses, and a kernel without IPv6 gets no own-address rules.
Drained ==
  /\ fams # Families => own = {} /\ add = {}
  /\ pc["caller"] # "edit" /\ pc["watcher"] # "edit" => del = {} /\ add = {}
  /\ pc["caller"] \notin {"link", "sync", "edit"} \/ job \in {"boot", "remove", "down"} =>
       listed["caller"] = {}

\* Whatever stands has its time, and an error in syncLocked has its cause.
Clean ==
  /\ singbox \subseteq fams
  /\ refused \subseteq {"watch"} =>
      /\ \A q \in Goroutines : pc[q] = "edit" /\ errs => fams # Families
      /\ own # {} => OwnTime
      /\ singbox # {} => BoxTime

\* The inductive invariant.
IInv == TypeOK /\ Order /\ SyncIsExact /\ Closing /\ Opening /\ Drained /\ Clean
-----------------------------------------------------------------------------
\* Only the goroutine that holds mu changes what SyncIsExact is about.
LEMMA ExactStep == TypeOK /\ Control /\ Locked /\ SyncIsExact /\ [Next]_vars => SyncIsExact'
  <1> SUFFICES ASSUME TypeOK, Control, Locked, SyncIsExact, [Next]_vars PROVE SyncIsExact'
    BY Zenon
  <1>0. /\ pc \in [Goroutines -> Labels]
        /\ listed \in [Goroutines -> SUBSET (Addresses \cup {TunAddress})]
        /\ pc["watcher"] \in SyncLabels \cup {"off", "select", "spin"}
    BY Zenon DEF TypeOK, DaemonTypes, CallTypes, Control
  <1> USE <1>0 DEF SyncIsExact, Locked, Held, Goroutines, SyncLabels
  <1>1. ASSUME NEW a \in Addresses, AddressChange(a) PROVE SyncIsExact'
    BY <1>1, Zenon DEF AddressChange, Notify, callVars
  <1>2. ASSUME NEW q \in Goroutines, SyncStep(q) PROVE SyncIsExact'
    <2>1. CASE AddrList(q)
      BY <2>1, Zenon DEF AddrList, Goto, kernelVars, callVars
    <2>2. CASE AddrListFails(q)
      BY <2>2, Zenon DEF AddrListFails, SyncFailed, Idle, Goto, kernelVars, callVars
    <2>3. CASE LinkByName(q)
      BY <2>3, Zenon DEF LinkByName, Goto, kernelVars, callVars
    <2>4. CASE Existing(q)
      BY <2>4, Zenon DEF Existing, Goto, kernelVars
    <2>5. CASE ExistingFails(q)
      BY <2>5, Zenon DEF ExistingFails, Goto, kernelVars
    <2>6. ASSUME NEW a \in del, RuleDel(q, a) PROVE SyncIsExact'
      BY <2>6 DEF RuleDel
    <2>7. ASSUME NEW a \in add, RuleAdd(q, a) PROVE SyncIsExact'
      BY <2>7 DEF RuleAdd
    <2>8. CASE SyncReturns(q)
      BY <2>8, Zenon DEF SyncReturns, SyncFailed, Idle, Goto, kernelVars
    <2>9. QED BY <1>2, <2>1, <2>2, <2>3, <2>4, <2>5, <2>6, <2>7, <2>8, Zenon DEF SyncStep
  <1>3. CASE SwitchStep
    <2>1. CASE Remove
      BY <2>1, Zenon DEF Remove, SwitchFrame, Goto
    <2>2. CASE RuleList
      BY <2>2, Zenon DEF RuleList, SwitchFrame, Goto
    <2>3. CASE Flush
      BY <2>3, Zenon DEF Flush, SwitchFrame
    <2>4. CASE RouteReplace
      BY <2>4, Zenon DEF RouteReplace, SwitchFrame, NextFamily, Goto
    <2>5. CASE AddRule
      BY <2>5, Zenon DEF AddRule, SwitchFrame
    <2>6. CASE AddedRules
      BY <2>6, Zenon DEF AddedRules, SwitchFrame, NextFamily, Goto
    <2>7. CASE RouteDel
      BY <2>7, Zenon DEF RouteDel, SwitchFrame, NextFamily, Goto
    <2>8. CASE InstallReturns
      BY <2>8, Zenon DEF InstallReturns, SwitchFrame, Goto
    <2>9. CASE RemoveReturns
      BY <2>9, Zenon DEF RemoveReturns, SwitchFrame, Idle, Goto
    <2>10. CASE CleanupStale
      BY <2>10, Zenon DEF CleanupStale, Idle, Goto
    <2>11. QED BY <1>3, <2>1, <2>2, <2>3, <2>4, <2>5, <2>6, <2>7, <2>8, <2>9, <2>10, Zenon DEF SwitchStep
  <1>4. CASE LineStep
    <2>1. CASE StartFront
      BY <2>1, Zenon DEF StartFront, Notify, Goto, callVars
    <2>2. CASE FrontFails
      BY <2>2, Zenon DEF FrontFails, ToClear, Idle, Goto, kernelVars, callVars
    <2>3. CASE Confirm
      BY <2>3, Zenon DEF Confirm, Goto, kernelVars, callVars
    <2>4. CASE WatchAddresses
      BY <2>4, Zenon DEF WatchAddresses, Goto, kernelVars, callVars
    <2>5. CASE Stop
      BY <2>5, Zenon DEF Stop, Goto, kernelVars, callVars
    <2>6. CASE Join
      BY <2>6, Zenon DEF Join, ToClear, Finished, Goto, kernelVars, callVars
    <2>7. CASE CloseFront
      BY <2>7, Zenon DEF CloseFront, Notify, ToClear, Idle, Goto, callVars
    <2>8. QED BY <1>4, <2>1, <2>2, <2>3, <2>4, <2>5, <2>6, <2>7, Zenon DEF LineStep
  <1>5. CASE WatchStep
    <2>1. CASE WatchUpdate
      BY <2>1, Zenon DEF WatchUpdate, kernelVars, callVars
    <2>2. CASE WatchFire
      BY <2>2, Zenon DEF WatchFire, Goto, kernelVars, callVars
    <2>3. CASE WatchEnds
      BY <2>3, Zenon DEF WatchEnds, Goto, kernelVars, callVars
    <2>4. CASE WatchBreaks
      BY <2>4, Zenon DEF WatchBreaks, Refuse, Goto, kernelVars, callVars
    <2>5. QED BY <1>5, <2>1, <2>2, <2>3, <2>4, Zenon DEF WatchStep
  <1>6. CASE Begin
    <2>1. CASE Install
      BY <2>1, Zenon DEF Install, SwitchFrame, Goto
    <2>2. CASE BringUp
      BY <2>2, Zenon DEF BringUp, Goto, callVars
    <2>3. CASE LineEnds
      BY <2>3, Zenon DEF LineEnds, Goto, kernelVars, callVars
    <2>4. CASE RemoveSwitch
      BY <2>4, Zenon DEF RemoveSwitch, Goto, kernelVars, callVars
    <2>5. QED BY <1>6, <2>1, <2>2, <2>3, <2>4, Zenon DEF Begin
  <1>7. CASE ProcessStep
    <2>1. CASE Boot
      BY <2>1, Zenon DEF Boot, Goto, kernelVars, callVars
    <2>2. CASE Terminate
      BY <2>2, Zenon DEF Terminate, kernelVars, callVars
    <2>3. CASE Exit
      BY <2>3, Zenon DEF Exit, ProcessEnds
    <2>4. CASE Crash
      BY <2>4, Zenon DEF Crash, ProcessEnds
    <2>5. QED BY <1>7, <2>1, <2>2, <2>3, <2>4, Zenon DEF ProcessStep
  <1>8. CASE UNCHANGED vars
    BY <1>8, Zenon DEF vars, kernelVars, callVars
  <1>9. QED BY <1>1, <1>2, <1>3, <1>4, <1>5, <1>6, <1>7, <1>8, Zenon DEF Next

\* An install without errors makes every family whole.
LEMMA ClosingStep == TypeOK /\ Control /\ Locked /\ Closing /\ [Next]_vars => Closing'
  <1> SUFFICES ASSUME TypeOK, Control, Locked, Closing, [Next]_vars PROVE Closing'
    BY Zenon
  <1>0. /\ pc \in [Goroutines -> Labels] /\ ksRules \in [Families -> SUBSET KsRules]
        /\ fam \in Families /\ fams \in SUBSET Families /\ "v4" \in fams
    BY KernelAssumption, Zenon DEF TypeOK, DaemonTypes, KernelTypes, Closing
  <1> USE <1>0 DEF Closing, Whole, Bare, Removes, Control, Locked, Held, Goroutines, Families, KsRules, SyncLabels
  <1>1. ASSUME NEW a \in Addresses, AddressChange(a) PROVE Closing'
    BY <1>1, SMTT(30) DEF AddressChange, Notify, callVars
  <1>2. ASSUME NEW q \in Goroutines, SyncStep(q) PROVE Closing'
    <2>1. CASE AddrList(q)
      BY <2>1 DEF AddrList, Goto, kernelVars, callVars
    <2>2. CASE AddrListFails(q)
      BY <2>2 DEF AddrListFails, SyncFailed, GoOn, Idle, Refuse, Goto, kernelVars, callVars
    <2>3. CASE LinkByName(q)
      BY <2>3 DEF LinkByName, Goto, kernelVars, callVars
    <2>4. CASE Existing(q)
      BY <2>4, Zenon DEF Existing, Goto, kernelVars
    <2>5. CASE ExistingFails(q)
      BY <2>5, Zenon DEF ExistingFails, Refuse, Goto, kernelVars
    <2>6. ASSUME NEW a \in del, RuleDel(q, a) PROVE Closing'
      BY <2>6, Zenon DEF RuleDel, Refuse
    <2>7. ASSUME NEW a \in add, RuleAdd(q, a) PROVE Closing'
      BY <2>7, Zenon DEF RuleAdd, Refuse
    <2>8. CASE SyncReturns(q)
      BY <2>8, SMTT(30) DEF SyncReturns, SyncFailed, GoOn, Idle, Goto, kernelVars
    <2>9. QED BY <1>2, <2>1, <2>2, <2>3, <2>4, <2>5, <2>6, <2>7, <2>8, ZenonT(20) DEF SyncStep
  <1>3. CASE SwitchStep
    <2>1. CASE Remove
      BY <2>1, Zenon DEF Remove, SwitchFrame, Goto
    <2>2. CASE RuleList
      BY <2>2, Zenon DEF RuleList, SwitchFrame, Refuse, Goto
    <2>3. CASE Flush
      BY <2>3 DEF Flush, SwitchFrame, Refuse, First
    <2>4. CASE RouteReplace
      BY <2>4, SMTT(30) DEF RouteReplace, SwitchFrame, Refuse, NextFamily, Goto
    <2>5. CASE AddRule
      BY <2>5 DEF AddRule, SwitchFrame, Refuse, First
    <2>6. CASE AddedRules
      BY <2>6 DEF AddedRules, SwitchFrame, NextFamily, Goto
    <2>7. CASE RouteDel
      BY <2>7, Zenon DEF RouteDel, SwitchFrame, Refuse, NextFamily, Goto
    <2>8. CASE InstallReturns
      BY <2>8 DEF InstallReturns, SwitchFrame, GoOn, Goto
    <2>9. CASE RemoveReturns
      BY <2>9, Zenon DEF RemoveReturns, SwitchFrame, GoOn, Idle, Goto
    <2>10. CASE CleanupStale
      BY <2>10, Zenon DEF CleanupStale, GoOn, Idle, Refuse, Goto
    <2>11. QED BY <1>3, <2>1, <2>2, <2>3, <2>4, <2>5, <2>6, <2>7, <2>8, <2>9, <2>10, ZenonT(20) DEF SwitchStep
  <1>4. CASE LineStep
    <2>1. CASE StartFront
      BY <2>1, Zenon DEF StartFront, Notify, Goto, callVars
    <2>2. CASE FrontFails
      BY <2>2, Zenon DEF FrontFails, ToClear, Idle, Goto, kernelVars, callVars
    <2>3. CASE Confirm
      BY <2>3, Zenon DEF Confirm, Goto, kernelVars, callVars
    <2>4. CASE WatchAddresses
      BY <2>4, ZenonT(20) DEF WatchAddresses, Refuse, Goto, kernelVars, callVars
    <2>5. CASE Stop
      BY <2>5, Zenon DEF Stop, Goto, kernelVars, callVars
    <2>6. CASE Join
      BY <2>6, Zenon DEF Join, ToClear, Finished, Goto, kernelVars, callVars
    <2>7. CASE CloseFront
      BY <2>7, Zenon DEF CloseFront, Notify, ToClear, GoOn, Idle, Goto, callVars
    <2>8. QED BY <1>4, <2>1, <2>2, <2>3, <2>4, <2>5, <2>6, <2>7, ZenonT(20) DEF LineStep
  <1>5. CASE WatchStep
    <2>1. CASE WatchUpdate
      BY <2>1 DEF WatchUpdate, kernelVars, callVars
    <2>2. CASE WatchFire
      BY <2>2 DEF WatchFire, Goto, kernelVars, callVars
    <2>3. CASE WatchEnds
      BY <2>3, SMTT(30) DEF WatchEnds, Goto, kernelVars, callVars
    <2>4. CASE WatchBreaks
      BY <2>4, SMTT(30) DEF WatchBreaks, Refuse, Goto, kernelVars, callVars
    <2>5. QED BY <1>5, <2>1, <2>2, <2>3, <2>4, ZenonT(30) DEF WatchStep
  <1>6. CASE Begin
    <2>1. CASE Install
      BY <2>1, Zenon DEF Install, SwitchFrame, Goto
    <2>2. CASE BringUp
      BY <2>2, Zenon DEF BringUp, Goto, callVars
    <2>3. CASE LineEnds
      BY <2>3, Zenon DEF LineEnds, Goto, kernelVars, callVars
    <2>4. CASE RemoveSwitch
      BY <2>4, Zenon DEF RemoveSwitch, Goto, kernelVars, callVars
    <2>5. QED BY <1>6, <2>1, <2>2, <2>3, <2>4, Zenon DEF Begin
  <1>7. CASE ProcessStep
    <2>1. CASE Boot
      BY <2>1, Zenon DEF Boot, Goto, kernelVars, callVars
    <2>2. CASE Terminate
      BY <2>2 DEF Terminate, kernelVars, callVars
    <2>3. CASE Exit
      BY <2>3, Zenon DEF Exit, ProcessEnds
    <2>4. CASE Crash
      BY <2>4, Zenon DEF Crash, ProcessEnds
    <2>5. QED BY <1>7, <2>1, <2>2, <2>3, <2>4, Zenon DEF ProcessStep
  <1>8. CASE UNCHANGED vars
    BY <1>8, SMTT(30) DEF vars, kernelVars, callVars
  <1>9. QED BY <1>1, <1>2, <1>3, <1>4, <1>5, <1>6, <1>7, <1>8, Zenon DEF Next

\* A removal that is not refused leaves every family bare.
LEMMA OpeningStep == TypeOK /\ Control /\ Closing /\ Opening /\ [Next]_vars => Opening'
  <1> SUFFICES ASSUME TypeOK, Control, Closing, Opening, [Next]_vars PROVE Opening'
    BY Zenon
  <1>0. /\ pc \in [Goroutines -> Labels] /\ ksRules \in [Families -> SUBSET KsRules]
        /\ fam \in Families /\ fams \in SUBSET Families
    BY Zenon DEF TypeOK, DaemonTypes, KernelTypes
  <1> USE <1>0 DEF Opening, Closing, Whole, Bare, Removes, Control, Goroutines, Families, KsRules, SyncLabels
  <1>1. ASSUME NEW a \in Addresses, AddressChange(a) PROVE Opening'
    BY <1>1, Zenon DEF AddressChange, Notify, callVars
  <1>2. ASSUME NEW q \in Goroutines, SyncStep(q) PROVE Opening'
    <2>1. CASE AddrList(q)
      BY <2>1, Zenon DEF AddrList, Goto, kernelVars, callVars
    <2>2. CASE AddrListFails(q)
      BY <2>2, Zenon DEF AddrListFails, SyncFailed, GoOn, Idle, Refuse, Goto, kernelVars, callVars
    <2>3. CASE LinkByName(q)
      BY <2>3, Zenon DEF LinkByName, Goto, kernelVars, callVars
    <2>4. CASE Existing(q)
      BY <2>4, Zenon DEF Existing, Goto, kernelVars
    <2>5. CASE ExistingFails(q)
      BY <2>5, Zenon DEF ExistingFails, Refuse, Goto, kernelVars
    <2>6. ASSUME NEW a \in del, RuleDel(q, a) PROVE Opening'
      BY <2>6, Zenon DEF RuleDel, Refuse
    <2>7. ASSUME NEW a \in add, RuleAdd(q, a) PROVE Opening'
      BY <2>7, Zenon DEF RuleAdd, Refuse
    <2>8. CASE SyncReturns(q)
      BY <2>8, SMTT(30) DEF SyncReturns, SyncFailed, GoOn, Idle, Goto, kernelVars
    <2>9. QED BY <1>2, <2>1, <2>2, <2>3, <2>4, <2>5, <2>6, <2>7, <2>8, ZenonT(20) DEF SyncStep
  <1>3. CASE SwitchStep
    <2>1. CASE Remove
      BY <2>1, Zenon DEF Remove, SwitchFrame, Goto
    <2>2. CASE RuleList
      BY <2>2, Zenon DEF RuleList, SwitchFrame, Refuse, Goto
    <2>3. CASE Flush
      BY <2>3, SMTT(30) DEF Flush, SwitchFrame, Refuse, First
    <2>4. CASE RouteReplace
      BY <2>4, Zenon DEF RouteReplace, SwitchFrame, Refuse, NextFamily, Goto
    <2>5. CASE AddRule
      BY <2>5, Zenon DEF AddRule, SwitchFrame, Refuse, First
    <2>6. CASE AddedRules
      BY <2>6, Zenon DEF AddedRules, SwitchFrame, NextFamily, Goto
    <2>7. CASE RouteDel
      BY <2>7, SMTT(30) DEF RouteDel, SwitchFrame, Refuse, NextFamily, Goto
    <2>8. CASE InstallReturns
      BY <2>8, Zenon DEF InstallReturns, SwitchFrame, GoOn, Goto
    <2>9. CASE RemoveReturns
      BY <2>9, Zenon DEF RemoveReturns, SwitchFrame, GoOn, Idle, Goto
    <2>10. CASE CleanupStale
      BY <2>10, Zenon DEF CleanupStale, GoOn, Idle, Refuse, Goto
    <2>11. QED BY <1>3, <2>1, <2>2, <2>3, <2>4, <2>5, <2>6, <2>7, <2>8, <2>9, <2>10, ZenonT(20) DEF SwitchStep
  <1>4. CASE LineStep
    <2>1. CASE StartFront
      BY <2>1, Zenon DEF StartFront, Notify, Goto, callVars
    <2>2. CASE FrontFails
      BY <2>2, Zenon DEF FrontFails, ToClear, Idle, Goto, kernelVars, callVars
    <2>3. CASE Confirm
      BY <2>3, Zenon DEF Confirm, Goto, kernelVars, callVars
    <2>4. CASE WatchAddresses
      BY <2>4, ZenonT(20) DEF WatchAddresses, Refuse, Goto, kernelVars, callVars
    <2>5. CASE Stop
      BY <2>5, Zenon DEF Stop, Goto, kernelVars, callVars
    <2>6. CASE Join
      BY <2>6, Zenon DEF Join, ToClear, Finished, Goto, kernelVars, callVars
    <2>7. CASE CloseFront
      BY <2>7, Zenon DEF CloseFront, Notify, ToClear, GoOn, Idle, Goto, callVars
    <2>8. QED BY <1>4, <2>1, <2>2, <2>3, <2>4, <2>5, <2>6, <2>7, ZenonT(20) DEF LineStep
  <1>5. CASE WatchStep
    <2>1. CASE WatchUpdate
      BY <2>1, Zenon DEF WatchUpdate, kernelVars, callVars
    <2>2. CASE WatchFire
      BY <2>2, Zenon DEF WatchFire, Goto, kernelVars, callVars
    <2>3. CASE WatchEnds
      BY <2>3, Zenon DEF WatchEnds, Goto, kernelVars, callVars
    <2>4. CASE WatchBreaks
      BY <2>4, Zenon DEF WatchBreaks, Refuse, Goto, kernelVars, callVars
    <2>5. QED BY <1>5, <2>1, <2>2, <2>3, <2>4, ZenonT(20) DEF WatchStep
  <1>6. CASE Begin
    <2>1. CASE Install
      BY <2>1, Zenon DEF Install, SwitchFrame, Goto
    <2>2. CASE BringUp
      BY <2>2, Zenon DEF BringUp, Goto, callVars
    <2>3. CASE LineEnds
      BY <2>3, Zenon DEF LineEnds, Goto, kernelVars, callVars
    <2>4. CASE RemoveSwitch
      BY <2>4, Zenon DEF RemoveSwitch, Goto, kernelVars, callVars
    <2>5. QED BY <1>6, <2>1, <2>2, <2>3, <2>4, Zenon DEF Begin
  <1>7. CASE ProcessStep
    <2>1. CASE Boot
      BY <2>1, Zenon DEF Boot, Goto, kernelVars, callVars
    <2>2. CASE Terminate
      BY <2>2, Zenon DEF Terminate, kernelVars, callVars
    <2>3. CASE Exit
      BY <2>3, Zenon DEF Exit, ProcessEnds
    <2>4. CASE Crash
      BY <2>4, Zenon DEF Crash, ProcessEnds
    <2>5. QED BY <1>7, <2>1, <2>2, <2>3, <2>4, Zenon DEF ProcessStep
  <1>8. CASE UNCHANGED vars
    BY <1>8, Zenon DEF vars, kernelVars, callVars
  <1>9. QED BY <1>1, <1>2, <1>3, <1>4, <1>5, <1>6, <1>7, <1>8, Zenon DEF Next

\* syncLocked's loops are empty between calls, and only a connection lists
\* addresses.
LEMMA DrainedStep == ASSUME TypeOK, Order, Drained, [Next]_vars PROVE Drained'
  <1>0. /\ pc \in [Goroutines -> Labels]
        /\ listed \in [Goroutines -> SUBSET (Addresses \cup {TunAddress})]
    BY Zenon DEF TypeOK, DaemonTypes, CallTypes
  <1> USE <1>0 DEF Drained, Order, Locked, Held, Control, Goroutines, SyncLabels, Goto, kernelVars,
        callVars
  <1>1. ASSUME NEW a \in Addresses, AddressChange(a) PROVE Drained'
    BY <1>1, Zenon DEF AddressChange, Notify
  <1>2. ASSUME NEW q \in Goroutines, SyncStep(q) PROVE Drained'
    <2>1. CASE AddrList(q)
      BY <2>1, Zenon DEF AddrList
    <2>2. CASE AddrListFails(q)
      BY <2>2, Zenon DEF AddrListFails, SyncFailed, GoOn, Idle, Refuse
    <2>3. CASE LinkByName(q)
      BY <2>3, Zenon DEF LinkByName
    <2>4. CASE Existing(q)
      BY <2>4, Zenon DEF Existing
    <2>5. CASE ExistingFails(q)
      BY <2>5, Zenon DEF ExistingFails, Refuse
    <2>6. ASSUME NEW a \in del, RuleDel(q, a) PROVE Drained'
      BY <2>6, Zenon DEF RuleDel, Refuse
    <2>7. ASSUME NEW a \in add, RuleAdd(q, a) PROVE Drained'
      BY <2>7, Zenon DEF RuleAdd, Refuse
    <2>8. CASE SyncReturns(q)
      BY <2>8, Zenon DEF SyncReturns, SyncFailed, GoOn, Idle
    <2> QED  BY <1>2, <2>1, <2>2, <2>3, <2>4, <2>5, <2>6, <2>7, <2>8, Zenon DEF SyncStep
  <1>3. CASE SwitchStep
    <2>1. CASE Remove
      BY <2>1, Zenon DEF Remove, SwitchFrame
    <2>2. CASE RuleList
      BY <2>2, Zenon DEF RuleList, SwitchFrame, Refuse
    <2>3. CASE Flush
      BY <2>3, Zenon DEF Flush, SwitchFrame, Refuse
    <2>4. CASE RouteReplace
      BY <2>4, Zenon DEF RouteReplace, SwitchFrame, Refuse, NextFamily
    <2>5. CASE AddRule
      BY <2>5, Zenon DEF AddRule, SwitchFrame, Refuse
    <2>6. CASE AddedRules
      BY <2>6, Zenon DEF AddedRules, SwitchFrame, NextFamily
    <2>7. CASE RouteDel
      BY <2>7, Zenon DEF RouteDel, SwitchFrame, Refuse, NextFamily
    <2>8. CASE InstallReturns
      BY <2>8, Zenon DEF InstallReturns, SwitchFrame, GoOn
    <2>9. CASE RemoveReturns
      BY <2>9, Zenon DEF RemoveReturns, SwitchFrame, GoOn, Idle
    <2>10. CASE CleanupStale
      BY <2>10, Zenon DEF CleanupStale, GoOn, Idle, Refuse
    <2> QED  BY <1>3, <2>1, <2>2, <2>3, <2>4, <2>5, <2>6, <2>7, <2>8, <2>9, <2>10, Zenon DEF SwitchStep
  <1>4. CASE LineStep
    <2>1. CASE StartFront
      BY <2>1, Zenon DEF StartFront, Notify
    <2>2. CASE FrontFails
      BY <2>2, Zenon DEF FrontFails, ToClear, Idle
    <2>3. CASE Confirm
      BY <2>3, Zenon DEF Confirm
    <2>4. CASE WatchAddresses
      <3>1. /\ pc["caller"] = "watch" /\ pc'["caller"] # "edit"
            /\ pc'["watcher"] = pc["watcher"] \/ pc'["watcher"] = "select"
            /\ UNCHANGED <<kernelVars, listed, callVars>>
        BY <2>4, Zenon DEF WatchAddresses
      <3>2. pc["watcher"] # "edit"  BY <3>1, Zenon DEF NoLateSync
      <3> QED  BY <3>1, <3>2, Zenon
    <2>5. CASE Stop
      BY <2>5, Zenon DEF Stop
    <2>6. CASE Join
      BY <2>6, Zenon DEF Join, ToClear, Finished
    <2>7. CASE CloseFront
      BY <2>7, Zenon DEF CloseFront, ToClear, GoOn, Idle, Notify
    <2> QED  BY <1>4, <2>1, <2>2, <2>3, <2>4, <2>5, <2>6, <2>7, Zenon DEF LineStep
  <1>5. CASE WatchStep
    <2>1. CASE WatchUpdate
      BY <2>1, Zenon DEF WatchUpdate
    <2>2. CASE WatchFire
      BY <2>2, Zenon DEF WatchFire
    <2>3. CASE WatchEnds
      BY <2>3, Zenon DEF WatchEnds
    <2>4. CASE WatchBreaks
      BY <2>4, Zenon DEF WatchBreaks, Refuse
    <2> QED  BY <1>5, <2>1, <2>2, <2>3, <2>4, Zenon DEF WatchStep
  <1>6. CASE Begin
    <2>1. CASE Install
      BY <2>1, Zenon DEF Install, SwitchFrame
    <2>2. CASE BringUp
      BY <2>2, Zenon DEF BringUp, Change
    <2>3. CASE LineEnds
      BY <2>3, Zenon DEF LineEnds
    <2>4. CASE RemoveSwitch
      BY <2>4, Zenon DEF RemoveSwitch
    <2> QED  BY <1>6, <2>1, <2>2, <2>3, <2>4, Zenon DEF Begin
  <1>7. CASE ProcessStep
    <2>1. CASE Boot
      BY <2>1, Zenon DEF Boot
    <2>2. CASE Terminate
      BY <2>2, Zenon DEF Terminate
    <2>3. CASE Exit
      BY <2>3, Zenon DEF Exit, ProcessEnds
    <2>4. CASE Crash
      BY <2>4, Zenon DEF Crash, ProcessEnds
    <2> QED  BY <1>7, <2>1, <2>2, <2>3, <2>4, Zenon DEF ProcessStep
  <1>8. CASE UNCHANGED vars
    BY <1>8, Zenon DEF vars
  <1> QED  BY <1>1, <1>2, <1>3, <1>4, <1>5, <1>6, <1>7, <1>8, Zenon DEF Next

\* Every path of the caller takes out what it put in, in the order that its
\* labels promise.
LEMMA CleanStep ==
  ASSUME TypeOK, Order, Drained, SyncIsExact, Clean, [Next]_vars PROVE Clean'
  <1>0. /\ pc \in [Goroutines -> Labels] /\ refused \in SUBSET Faults /\ fam \in Families
        /\ fams \in SUBSET Families /\ singbox \in SUBSET Families
        /\ listed \in [Goroutines -> SUBSET (Addresses \cup {TunAddress})]
    BY Zenon DEF TypeOK, KernelTypes, DaemonTypes, CallTypes
  <1> USE <1>0 DEF Clean, OwnTime, BoxTime, Drained, Order, Locked, Held, Control, NoLateSync,
        Goroutines, SyncLabels, Families, Goto, kernelVars, callVars
  <1>1. ASSUME NEW a \in Addresses, AddressChange(a) PROVE Clean'
    BY <1>1 DEF AddressChange, Notify
  <1>2. ASSUME NEW q \in Goroutines, SyncStep(q) PROVE Clean'
    <2>1. CASE AddrList(q)
      BY <2>1 DEF AddrList
    <2>2. CASE AddrListFails(q)
      BY <2>2, Zenon DEF AddrListFails, SyncFailed, GoOn, Idle, Refuse
    <2>3. CASE LinkByName(q)
      BY <2>3 DEF LinkByName
    <2>4. CASE Existing(q)
      BY <2>4, Zenon DEF Existing
    <2>5. CASE ExistingFails(q)
      BY <2>5 DEF ExistingFails, Refuse
    <2>6. ASSUME NEW a \in del, RuleDel(q, a) PROVE Clean'
      BY <2>6 DEF RuleDel, Refuse
    <2>7. ASSUME NEW a \in add, RuleAdd(q, a) PROVE Clean'
      <3>1. OwnTime
        <4>1. CASE q = "caller"  BY <2>7, <4>1, Zenon DEF RuleAdd, TypeOK, DaemonTypes
        <4>2. CASE q = "watcher"  BY <2>7, <4>2, Zenon DEF RuleAdd
        <4> QED  BY <4>1, <4>2, Zenon
      <3>2. UNCHANGED <<pc, job, ksOn, fam, singbox, fams>> /\ refused \subseteq refused'
        BY <2>7, Zenon DEF RuleAdd, Refuse
      <3>3. refused' \subseteq {"watch"} => errs' = errs  BY <2>7 DEF RuleAdd, Refuse
      <3> QED  BY <3>1, <3>2, <3>3
    <2>8. CASE SyncReturns(q)
      <3>1. UNCHANGED <<fams, own, singbox, refused, ksOn, fam>> /\ ~errs' /\ pc[q] = "edit"
        BY <2>8, Zenon DEF SyncReturns
      <3>2. CASE q = "watcher"
        <4>1. pc'["caller"] = pc["caller"] /\ job' = job /\ pc'["watcher"] = "select"
          BY <2>8, <3>2, Zenon DEF SyncReturns, GoOn
        <4> QED  BY <3>1, <4>1, Zenon
      <3>3. CASE q = "caller"
        <4>1. ~errs => own = listed["caller"]  BY <2>8, <3>3 DEF SyncReturns, SyncIsExact
        <4>2. CASE errs
          <5>1. refused \subseteq {"watch"} => own = {}  BY <3>1, <3>3, <4>2, Zenon
          <5> QED  BY <2>8, <3>1, <3>3, <4>2, <5>1, Zenon DEF SyncReturns, SyncFailed, GoOn, Idle
        <4>3. CASE ~errs
          BY <2>8, <3>1, <3>3, <4>1, <4>3, Zenon DEF SyncReturns, GoOn, Idle
        <4> QED  BY <4>2, <4>3, Zenon
      <3> QED  BY <3>2, <3>3, Zenon
    <2> QED  BY <1>2, <2>1, <2>2, <2>3, <2>4, <2>5, <2>6, <2>7, <2>8, Zenon DEF SyncStep
  <1>3. CASE SwitchStep
    <2>1. CASE Remove
      BY <2>1, Zenon DEF Remove, SwitchFrame
    <2>2. CASE RuleList
      BY <2>2, Zenon DEF RuleList, SwitchFrame, Refuse
    <2>3. CASE Flush
      BY <2>3, Zenon DEF Flush, SwitchFrame, Refuse
    <2>4. CASE RouteReplace
      BY <2>4, Zenon DEF RouteReplace, SwitchFrame, Refuse, NextFamily
    <2>5. CASE AddRule
      BY <2>5, Zenon DEF AddRule, SwitchFrame, Refuse
    <2>6. CASE AddedRules
      BY <2>6, Zenon DEF AddedRules, SwitchFrame, NextFamily
    <2>7. CASE RouteDel
      BY <2>7, Zenon DEF RouteDel, SwitchFrame, Refuse, NextFamily
    <2>8. CASE InstallReturns
      BY <2>8, Zenon DEF InstallReturns, SwitchFrame, GoOn
    <2>9. CASE RemoveReturns
      BY <2>9, Zenon DEF RemoveReturns, SwitchFrame, GoOn, Idle
    <2>10. CASE CleanupStale
      <3>1. /\ UNCHANGED <<fams, own, ksOn, errs>> /\ pc["caller"] = "stale" /\ job = "boot"
            /\ refused \subseteq refused' /\ singbox' \subseteq singbox
        BY <2>10, Zenon DEF CleanupStale, Refuse
      <3>2. pc'["watcher"] = pc["watcher"] /\ pc["watcher"] = "off"
        BY <2>10, <3>1, Zenon DEF CleanupStale, GoOn, Idle
      <3>3. refused' \subseteq {"watch"} => own' = {}  BY <3>1, Zenon
      <3>4. refused' \subseteq {"watch"} => fam \notin singbox'
        BY <2>10 DEF CleanupStale, Refuse
      <3>5. CASE fam = "v4"
        <4>1. pc' = pc /\ job' = job /\ fam' = "v6"  BY <2>10, <3>5, Zenon DEF CleanupStale, GoOn
        <4> QED  BY <3>1, <3>2, <3>3, <3>4, <3>5, <4>1, Zenon
      <3>6. CASE fam = "v6"
        <4>1. refused' \subseteq {"watch"} => singbox' = {}  BY <3>1, <3>4, <3>6
        <4>2. pc'["caller"] = "idle"  BY <2>10, <3>6, Zenon DEF CleanupStale, Idle
        <4> QED  BY <3>1, <3>2, <3>3, <4>1, <4>2
      <3> QED  BY <3>5, <3>6, Zenon
    <2> QED  BY <1>3, <2>1, <2>2, <2>3, <2>4, <2>5, <2>6, <2>7, <2>8, <2>9, <2>10, Zenon DEF SwitchStep
  <1>4. CASE LineStep
    <2>1. CASE StartFront
      BY <2>1, Zenon DEF StartFront, Notify
    <2>2. CASE FrontFails
      BY <2>2 DEF FrontFails, ToClear, Idle
    <2>3. CASE Confirm
      BY <2>3 DEF Confirm
    <2>4. CASE WatchAddresses
      BY <2>4 DEF WatchAddresses, Refuse
    <2>5. CASE Stop
      BY <2>5, Zenon DEF Stop
    <2>6. CASE Join
      BY <2>6 DEF Join, ToClear, Finished
    <2>7. CASE CloseFront
      BY <2>7 DEF CloseFront, ToClear, GoOn, Idle, Notify
    <2> QED  BY <1>4, <2>1, <2>2, <2>3, <2>4, <2>5, <2>6, <2>7, Zenon DEF LineStep
  <1>5. CASE WatchStep
    <2>1. CASE WatchUpdate
      BY <2>1, Zenon DEF WatchUpdate
    <2>2. CASE WatchFire
      BY <2>2, Zenon DEF WatchFire
    <2>3. CASE WatchEnds
      BY <2>3, Zenon DEF WatchEnds
    <2>4. CASE WatchBreaks
      BY <2>4, Zenon DEF WatchBreaks, Refuse
    <2> QED  BY <1>5, <2>1, <2>2, <2>3, <2>4, Zenon DEF WatchStep
  <1>6. CASE Begin
    <2>1. CASE Install
      BY <2>1, Zenon DEF Install, SwitchFrame
    <2>2. CASE BringUp
      BY <2>2, Zenon DEF BringUp, Change
    <2>3. CASE LineEnds
      BY <2>3, Zenon DEF LineEnds
    <2>4. CASE RemoveSwitch
      BY <2>4, Zenon DEF RemoveSwitch
    <2> QED  BY <1>6, <2>1, <2>2, <2>3, <2>4, Zenon DEF Begin
  <1>7. CASE ProcessStep
    <2>1. CASE Boot
      BY <2>1, Zenon DEF Boot
    <2>2. CASE Terminate
      BY <2>2, Zenon DEF Terminate
    <2>3. CASE Exit
      BY <2>3, Zenon DEF Exit, ProcessEnds
    <2>4. CASE Crash
      BY <2>4, Zenon DEF Crash, ProcessEnds
    <2> QED  BY <1>7, <2>1, <2>2, <2>3, <2>4, Zenon DEF ProcessStep
  <1>8. CASE UNCHANGED vars
    BY <1>8 DEF vars
  <1> QED  BY <1>1, <1>2, <1>3, <1>4, <1>5, <1>6, <1>7, <1>8, Zenon DEF Next

-----------------------------------------------------------------------------
\* Routes starts in the invariant.
LEMMA InitIInv == Init => IInv
  <1> SUFFICES ASSUME Init PROVE IInv
    BY Zenon
  <1>1. TypeOK
    BY KernelAssumption, Zenon DEF Init, TypeOK, KernelTypes, DaemonTypes, CallTypes, Goroutines, Labels,
       Families, KsRules
  <1>2. pc["caller"] = "off" /\ pc["watcher"] = "off"
    BY Zenon DEF Init, Goroutines
  <1>3. Locked /\ Control
    BY <1>2, Zenon DEF Init, Locked, Held, Control
  <1>4. NoLateSync /\ SyncIsExact
    BY <1>2, Zenon DEF NoLateSync, SyncIsExact, Goroutines
  <1>5. Closing /\ Opening
    BY <1>2, Zenon DEF Init, Closing, Opening, Bare, Families
  <1>6. Drained /\ Clean
    BY <1>2, Zenon DEF Init, Drained, Clean, Goroutines, Families
  <1>7. QED BY <1>1, <1>3, <1>4, <1>5, <1>6, Zenon DEF IInv, Order

\* Every step of Routes keeps the invariant.
LEMMA IInvStep == IInv /\ [Next]_vars => IInv'
  <1> SUFFICES ASSUME IInv, [Next]_vars PROVE IInv'
    BY Zenon
  <1>1. TypeOK'
    BY KernelTypesStep, DaemonTypesStep, CallTypesStep, Zenon DEF IInv, TypeOK
  <1>2. Order'
    BY ControlStep, Zenon DEF IInv
  <1>3. SyncIsExact' /\ Closing' /\ Opening'
    BY ExactStep, ClosingStep, OpeningStep, Zenon DEF IInv, Order
  <1>4. Drained' /\ Clean'
    BY DrainedStep, CleanStep, Zenon DEF IInv
  <1>5. QED BY <1>1, <1>2, <1>3, <1>4, Zenon DEF IInv

\* The inductive invariant holds throughout, whatever the kernel refuses and
\* wherever the process stops.
THEOREM RoutesInvariance == Spec => []IInv
  BY InitIInv, IInvStep, PTL DEF Spec

\* The state of the rules, the daemon and its calls keeps its types.
THEOREM RoutesTypes == Spec => []TypeOK
  BY RoutesInvariance, PTL DEF IInv

\* For every kernel, every refusal and every order of calls: the kill switch is
\* whole in every family the kernel has while ksOn says so.
THEOREM SwitchIsWhole == Spec => []Closed
  <1>1. IInv => Closed
    BY Zenon DEF IInv, Closing, Closed, Whole
  <1>2. QED BY <1>1, RoutesInvariance, PTL

\* The order of the netlink calls keeps the drop rule on a table with its route,
\* after a crash at any of them.
THEOREM DropNeverDangles == Spec => []DropHasRoute
  <1>1. IInv => DropHasRoute
    BY Zenon DEF IInv, Opening, Removes, DropHasRoute
  <1>2. QED BY <1>1, RoutesInvariance, PTL

\* With the switch off and nobody at work no part of it is left, be it after a
\* failed install, a removal or the cleanup of a crash.
THEOREM OffMeansNothing == Spec => []FailedInstallOpens
  <1>1. IInv => FailedInstallOpens
    <2> SUFFICES ASSUME IInv, pc["caller"] = "idle", ~ksOn, Removes
                 PROVE  unreachable = {} /\ \A f \in Families : ksRules[f] = {}
      BY Zenon DEF FailedInstallOpens, Removes
    <2>1. unreachable \in SUBSET Families
      BY Zenon DEF IInv, TypeOK, KernelTypes
    <2>2. \A f \in Families : Bare(f)
      BY Zenon DEF IInv, Opening
    <2>3. QED BY <2>1, <2>2, Zenon DEF Bare
  <1>2. QED BY <1>1, RoutesInvariance, PTL

\* Sync, for any set of addresses, is heading for exactly that set.
THEOREM SyncReachesItsTarget == Spec => []SyncIsExact
  BY RoutesInvariance, PTL DEF IInv

\* The watcher is gone before its rules are cleared.
THEOREM NoSyncFollows == Spec => []NoLateSync
  BY RoutesInvariance, PTL DEF IInv, Order

\* With no line and no switch, the kernel holds no rule, route or table of the
\* daemon's, after any order of installs, failed installs, lines, address
\* changes, crashes and cleanups, as long as no call on rules was refused.
THEOREM IdleLeavesNothing == Spec => []IdleIsClean
  <1>1. IInv /\ FailedInstallOpens => IdleIsClean
    <2> SUFFICES ASSUME IInv, FailedInstallOpens, pc["caller"] = "idle", ~ksOn,
                        refused \subseteq {"watch"}
                 PROVE  /\ own = {} /\ unreachable = {} /\ singbox = {}
                        /\ \A f \in Families : ksRules[f] = {}
      BY Zenon DEF IdleIsClean
    <2>1. unreachable = {} /\ \A f \in Families : ksRules[f] = {}
      BY Zenon DEF FailedInstallOpens
    <2>2. job = "none"
      BY Zenon DEF IInv, Order, Control
    <2>3. own = {} /\ singbox = {}
      BY <2>2, Zenon DEF IInv, Clean, OwnTime, BoxTime
    <2>4. QED BY <2>1, <2>3, Zenon
  <1>2. QED BY <1>1, RoutesInvariance, OffMeansNothing, PTL
=============================================================================
