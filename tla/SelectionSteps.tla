---------------------------- MODULE SelectionSteps --------------------------
(***************************************************************************)
(* The inductive invariant of module Selection, and the lemmas that every  *)
(* step keeps it.  What a step needs of Only and Resolve is a hypothesis   *)
(* of its lemma; module SelectionProofs proves it and has the theorems.    *)
(***************************************************************************)
EXTENDS Selection, TLAPS

\* The goroutines that take connectMu.
Who == Handlers \cup {Tick}

\* allEntries, with the fetches in it.
Reading == {"snap", "read", "fetch", "save", "had", "missed", "loaded"}

Starting == {"stopping", "stopped"}

TickPcs == {"idle", "wait", "after"} \cup Reading \cup Starting

Pcs == TickPcs \cup {"rollback", "copy", "id", "sub", "lock", "stop", "sem", "try", "next", "up"}

VerbSet == {"none", "add", "connect", "remove"}

Answers == (UNION Range(Hosts)) \cup {None}

\* The types of the variables.
ListTypes ==
  /\ up \in BOOLEAN
  /\ cfg \in [subs : Seq(Urls), sel : Selections \cup {None}]
  /\ cache \in [Remote -> Answers]
  /\ \A u \in Remote : cache[u] \in (Hosts[u] \ {Down}) \cup {None}
  /\ host \in [Remote -> Answers] /\ \A u \in Remote : host[u] \in Hosts[u]
  /\ pc \in [Threads -> Pcs]
  /\ verb \in [Threads -> VerbSet]
  /\ url \in [Threads -> Urls \cup {None}] /\ got \in [Threads -> Answers]

SelTypes ==
  /\ connectMu \in Who \cup {Free}
  /\ cur \in Line \cup {None} /\ cands \in SUBSET Line
  /\ lsel \in Selections \cup {None}
  /\ cancelled \in BOOLEAN
  /\ owner \in Handlers \cup {None} /\ hsel \in [Handlers -> Selections \cup {None}]
  /\ arg \in [Callers -> Selections \cup {None}]
  /\ todo \in [Callers -> Seq(Urls)] /\ all \in [Callers -> Seq(Line)]

\* Where each kind of thread can be.
HandlerPcs == TickPcs \cup {"rollback", "copy", "id", "sub", "lock", "stop"}

LoopPcs == Reading \cup {"idle", "try", "next", "up"}

Places ==
  /\ \A h \in Handlers : pc[h] \in HandlerPcs
  /\ pc[Tick] \in TickPcs /\ pc[Loop] \in LoopPcs
  /\ \A t \in Fetchers : pc[t] \in {"idle", "sem", "fetch", "save"}
  /\ ~up => \A t \in Threads : pc[t] = "idle"

\* The request v a handler at l serves.
VerbFits(l, v) ==
  /\ l \in {"idle", "wait", "after"} => v = "none"
  /\ l \in Reading => v \in {"none", "connect", "add"}
  /\ l \in Reading /\ v = "add" => l \in {"fetch", "save"}
  /\ l = "rollback" => v = "add"
  /\ l \in {"copy", "id", "sub", "lock"} => v = "connect"
  /\ l = "stop" => v = "remove"

VerbAt ==
  /\ verb[Tick] = "none" /\ verb[Loop] = "none"
  /\ \A h \in Handlers : VerbFits(pc[h], verb[h])

\* What a thread that fetches has: a list, the lists it has to read, and the
\* answer once there is one.
FetchFits(t) ==
  /\ pc[t] \in {"sem", "fetch", "save", "had"} => url[t] \in Remote
  /\ pc[t] \in {"save", "had"} => got[t] \in Hosts[url[t]] \ {Down}
  /\ t \in Callers /\ pc[t] \in {"read", "fetch", "save", "had", "missed"} /\ verb[t] # "add" =>
       todo[t] # <<>>

Fetches == \A t \in Threads : FetchFits(t)

\* connectMu is held from the lock to the start of the loop, and by an
\* afterRefresh that reads the lists.
Inside(l, v) == l \in Starting \/ (l \in Reading /\ v = "none")

Mutex ==
  \A t \in Who : /\ connectMu = t <=> Inside(pc[t], verb[t])
                 /\ pc[t] = "stopped" => pc[Loop] = "idle"

\* The selection a thread works with is there.
NeedsArg(l, v) ==
  \/ l \in Reading /\ v # "add"
  \/ l \in Starting /\ v # "remove"
  \/ l \in {"copy", "id", "sub", "lock"}

NeedsOwn(l) == l \in {"copy", "id", "sub"}

Args ==
  /\ \A t \in Who : NeedsArg(pc[t], verb[t]) => arg[t] # None
  /\ \A h \in Handlers : NeedsOwn(pc[h]) => hsel[h] # None

\* The loop and what it holds.
Loops ==
  /\ LoopLive <=> lsel # None
  /\ cur # None <=> pc[Loop] = "up"
  /\ cancelled => LoopLive

\* The inductive invariant.
IInv ==
  /\ ListTypes /\ SelTypes /\ Places /\ VerbAt /\ Fetches /\ Mutex /\ Args /\ Loops
  /\ TriesItsList /\ NoDuplicates

\* A resolution r of the selection s.
Sound(r, s) ==
  /\ r.lines \subseteq Line /\ r.sel \in Selections
  /\ Bound(r.sel) => \A e \in r.lines : e.sub = r.sel.sub
  /\ Whole(s) => Whole(r.sel) /\ r.sel.sub = s.sub

-----------------------------------------------------------------------------
\* The threads are different goroutines.
LEMMA Distinct ==
  /\ Handlers \subseteq Threads /\ Tick \in Threads /\ Loop \in Threads /\ Fetchers \subseteq Threads
  /\ Handlers \subseteq Callers /\ Tick \in Callers /\ Loop \in Callers /\ Callers \subseteq Threads
  /\ Handlers \subseteq Who /\ Tick \in Who /\ Who \subseteq Callers /\ Refreshers \subseteq Who
  /\ Tick \notin Handlers /\ Loop \notin Handlers /\ Loop # Tick /\ Loop \notin Who
  /\ Free \notin Who
  /\ \A t \in Fetchers : t \notin Callers
BY ThreadsAssumption, Zenon DEF Threads, Callers, Who

\* The lines of an answer are lines of the list.
LEMMA EntriesType ==
  ASSUME NEW u, NEW a, \/ u \in Remote /\ a \in Hosts[u] \ {Down}
                       \/ u \in Inline /\ a = u
  PROVE  Entries(u, a) \in Seq(Line)
<1>1. CASE a \in {Refused, Down}
  BY <1>1 DEF Entries
<1>2. CASE a \notin {Refused, Down}
  <2> DEFINE ls == Lines[u][a]
             P  == [label : Labels, raw : Raws]
  <2>1. ls \in Seq(P) /\ u \in Urls
    BY <1>2, LinesAssumption, Zenon DEF Urls
  <2>2. Entries(u, a) = [i \in DOMAIN ls |-> [sub |-> u, label |-> ls[i].label, raw |-> ls[i].raw]]
    BY <1>2, Zenon DEF Entries
  <2> HIDE DEF ls, P
  <2>3. Len(ls) \in Nat /\ DOMAIN ls = 1..Len(ls)
    BY <2>1
  <2>4. Entries(u, a) \in [1..Len(ls) -> Line]
    <3>1. ASSUME NEW i \in 1..Len(ls)
          PROVE  [sub |-> u, label |-> ls[i].label, raw |-> ls[i].raw] \in Line
      <4>1. ls[i] \in P
        BY <2>1, <2>3
      <4> QED
        BY ONLY <2>1, <4>1, Zenon DEF P, Line
    <3> QED
      BY ONLY <2>2, <2>3, <3>1, Zenon
  <2>5. PICK n \in Nat : Entries(u, a) \in [1..n -> Line]
    BY <2>3, <2>4, Zenon
  <2> QED
    BY <2>5
<1> QED
  BY <1>1, <1>2, Zenon

\* A step that changes none of the variables of the invariant.
LEMMA Frame ==
  ASSUME IInv, UNCHANGED <<up, cfg, cache, host, pc, verb, url, got, selVars>>
  PROVE  IInv'
<1>1. ListTypes' /\ Places' /\ VerbAt'
  BY Zenon DEF IInv, ListTypes, Places, VerbAt, selVars
<1>2. SelTypes'
  BY Zenon DEF IInv, SelTypes, selVars
<1>3. Fetches' /\ Mutex' /\ Args'
  BY Zenon DEF IInv, Fetches, FetchFits, Mutex, Args, selVars
<1>4. Loops' /\ TriesItsList' /\ NoDuplicates'
  BY Zenon DEF IInv, Loops, TriesItsList, NoDuplicates, LoopLive, selVars
<1> QED
  BY <1>1, <1>2, <1>3, <1>4, Zenon DEF IInv

\* A step of another thread leaves the loop what it has.
LEMMA LoopKept ==
  ASSUME IInv, pc'[Loop] = pc[Loop], UNCHANGED <<cur, lsel, cands>>,
         cancelled' => cancelled \/ LoopLive
  PROVE  Loops' /\ TriesItsList'
BY Zenon DEF IInv, Loops, TriesItsList, LoopLive

\* A handler or the tick moves to l, with the request v: what has to be shown of
\* it is about l and v alone.
LEMMA Moves ==
  ASSUME IInv, NEW t \in Who, NEW l \in HandlerPcs, NEW v \in VerbSet, up',
         t = Tick => l \in TickPcs /\ v = "none", t # Tick => VerbFits(l, v),
         pc' = [pc EXCEPT ![t] = l], verb' = [verb EXCEPT ![t] = v],
         connectMu' = t <=> Inside(l, v),
         \A x \in Who \ {t} : connectMu' = x <=> connectMu = x,
         l = "stopped" => pc[Loop] = "idle",
         NeedsArg(l, v) => arg'[t] # None, NeedsOwn(l) => hsel'[t] # None,
         \A x \in Who \ {t} : arg'[x] = arg[x],
         \A x \in Handlers \ {t} : hsel'[x] = hsel[x]
  PROVE  /\ Places' /\ VerbAt' /\ Mutex' /\ Args' /\ pc'[Loop] = pc[Loop]
         /\ pc' \in [Threads -> Pcs] /\ verb' \in [Threads -> VerbSet]
<1>1. /\ pc'[t] = l /\ verb'[t] = v
      /\ \A x \in Threads \ {t} : pc'[x] = pc[x] /\ verb'[x] = verb[x]
  BY Distinct, Zenon DEF IInv, ListTypes
<1>2. l \in Pcs
  BY Zenon DEF Pcs, HandlerPcs
<1>3. pc' \in [Threads -> Pcs] /\ verb' \in [Threads -> VerbSet]
  BY <1>2, Zenon DEF IInv, ListTypes
<1>4. Places'
  BY <1>1, <1>2, Distinct DEF IInv, Places
<1>5. VerbAt'
  BY <1>1, Distinct DEF IInv, VerbAt
<1>6. Mutex'
  BY <1>1, Distinct DEF IInv, Mutex
<1>7. Args'
  BY <1>1, Distinct DEF IInv, Args
<1> QED
  BY <1>1, <1>3, <1>4, <1>5, <1>6, <1>7, Distinct, Zenon

\* The loop moves, and ends or not.
LEMMA LoopMoves ==
  ASSUME IInv, pc[Loop] # "idle", NEW l \in LoopPcs, pc' = [pc EXCEPT ![Loop] = l],
         \A x \in Callers : verb'[x] = verb[x],
         \A h \in Handlers : hsel[h] # None => hsel'[h] # None,
         UNCHANGED <<up, connectMu, arg>>
  PROVE  Places' /\ VerbAt' /\ Mutex' /\ Args' /\ pc'[Loop] = l /\ pc' \in [Threads -> Pcs]
<1>1. pc'[Loop] = l /\ \A x \in Threads \ {Loop} : pc'[x] = pc[x]
  BY Distinct, Zenon DEF IInv, ListTypes
<1>2. l \in Pcs
  BY Zenon DEF LoopPcs, Pcs, TickPcs
<1>3. pc' \in [Threads -> Pcs]
  BY <1>2, Zenon DEF IInv, ListTypes
<1>4. up /\ up'
  BY Distinct, Zenon DEF IInv, ListTypes, Places
<1>5. Places'
  BY <1>1, <1>4, Distinct, Zenon DEF IInv, Places
<1>6. VerbAt'
  BY <1>1, Distinct, Zenon DEF IInv, VerbAt
<1>7. Mutex' /\ Args'
  BY <1>1, Distinct, Zenon DEF IInv, Mutex, Args
<1> QED
  BY <1>1, <1>3, <1>5, <1>6, <1>7, Zenon

\* A fetch of a refresh moves.
LEMMA FetcherMoves ==
  ASSUME IInv, NEW t \in Fetchers, NEW l \in {"idle", "fetch", "save"}, pc[t] # "idle",
         pc' = [pc EXCEPT ![t] = l], \A x \in Callers : verb'[x] = verb[x],
         UNCHANGED <<up, connectMu, arg, hsel, lsel, cur, cands, cancelled>>
  PROVE  /\ Places' /\ VerbAt' /\ Mutex' /\ Args' /\ Loops' /\ TriesItsList'
         /\ pc' \in [Threads -> Pcs]
<1>1. pc'[t] = l /\ \A x \in Threads \ {t} : pc'[x] = pc[x]
  BY Distinct, Zenon DEF IInv, ListTypes
<1>2. l \in Pcs
  BY Zenon DEF Pcs, TickPcs, Reading
<1>3. pc' \in [Threads -> Pcs]
  BY <1>2, Zenon DEF IInv, ListTypes
<1>4. up /\ up' /\ \A x \in Callers : x # t
  BY Distinct DEF IInv, ListTypes, Places
<1>5. Places'
  BY <1>1, <1>4, Distinct, Zenon DEF IInv, Places
<1>6. VerbAt'
  BY <1>1, <1>4, Distinct, Zenon DEF IInv, VerbAt
<1>7. Mutex' /\ Args'
  BY <1>1, <1>4, Distinct, Zenon DEF IInv, Mutex, Args
<1>8. Loops' /\ TriesItsList'
  BY <1>1, <1>4, Distinct, LoopKept, Zenon
<1> QED
  BY <1>3, <1>5, <1>6, <1>7, <1>8, Zenon

\* One thread moves: what the others fetch is as it was.
LEMMA FetchesKept ==
  ASSUME IInv, NEW t \in Threads, FetchFits(t)',
         \A x \in Threads \ {t} : pc'[x] = pc[x] /\ verb'[x] = verb[x] /\ url'[x] = url[x] /\ got'[x] = got[x],
         \A x \in Callers \ {t} : todo'[x] = todo[x]
  PROVE  Fetches'
<1>1. ASSUME NEW x \in Threads \ {t} PROVE FetchFits(x)'
  BY Distinct, Zenon DEF IInv, Fetches, FetchFits
<1> QED
  BY <1>1, Zenon DEF Fetches

\* A thread that reads the lists goes on reading them.
LEMMA ReadingMoves ==
  ASSUME IInv, NEW t \in Callers, pc[t] \in Reading, NEW l \in Reading,
         verb[t] = "add" => l \in {"fetch", "save"}, pc' = [pc EXCEPT ![t] = l],
         UNCHANGED <<up, verb, connectMu, arg, hsel, lsel, cur, cands, cancelled>>
  PROVE  /\ Places' /\ VerbAt' /\ Mutex' /\ Args' /\ Loops' /\ TriesItsList'
         /\ pc' \in [Threads -> Pcs]
<1>1. CASE t = Loop
  <2>1. Places' /\ VerbAt' /\ Mutex' /\ Args' /\ pc'[Loop] = l /\ pc' \in [Threads -> Pcs]
    BY <1>1, LoopMoves, Zenon DEF Reading, LoopPcs
  <2>2. Loops' /\ TriesItsList'
    BY <1>1, <2>1, Zenon DEF IInv, Loops, LoopLive, TriesItsList, Reading
  <2> QED
    BY <2>1, <2>2, Zenon
<1>2. CASE t # Loop
  <2>1. t \in Who /\ t \in Threads /\ verb[t] \in VerbSet /\ verb' = [verb EXCEPT ![t] = verb[t]]
    BY <1>2, Distinct, Zenon DEF IInv, ListTypes, Callers, Who
  <2>2. up'
    BY <2>1, Zenon DEF IInv, Places, Reading
  <2>3. (t = Tick => verb[t] = "none") /\ (t # Tick => t \in Handlers /\ VerbFits(pc[t], verb[t]))
    BY <2>1, Zenon DEF IInv, VerbAt, Who
  <2>4. t # Tick => VerbFits(l, verb[t])
    BY <2>3, Zenon DEF VerbFits, Reading
  <2>5. connectMu' = t <=> Inside(l, verb[t])
    BY <2>1, Zenon DEF IInv, Mutex, Inside, Reading, Starting
  <2>6. l # "stopped" /\ ~NeedsOwn(l) /\ l \in TickPcs /\ l \in HandlerPcs
    BY Zenon DEF Reading, NeedsOwn, TickPcs, HandlerPcs
  <2>7. NeedsArg(l, verb[t]) => arg'[t] # None
    BY <2>1, Zenon DEF IInv, Args, NeedsArg, Reading, Starting
  <2>8. /\ \A x \in Who \ {t} : (connectMu' = x <=> connectMu = x) /\ arg'[x] = arg[x]
        /\ \A x \in Handlers \ {t} : hsel'[x] = hsel[x]
    BY Zenon
  <2>9. /\ Places' /\ VerbAt' /\ Mutex' /\ Args' /\ pc'[Loop] = pc[Loop]
        /\ pc' \in [Threads -> Pcs]
    BY ONLY IInv, pc' = [pc EXCEPT ![t] = l], <2>1, <2>2, <2>3, <2>4, <2>5, <2>6, <2>7, <2>8, Moves, Zenon
  <2>10. Loops' /\ TriesItsList'
    BY <2>9, LoopKept, Zenon
  <2> QED
    BY <2>9, <2>10, Zenon
<1> QED
  BY <1>1, <1>2, Zenon

\* A request adds a list that is not there yet.
LEMMA AddStep ==
  ASSUME IInv, NEW h \in Handlers, NEW u \in Remote, u \notin Subs, Add(h, u), UNCHANGED selVars
  PROVE  IInv'
<1>0. /\ up /\ pc[h] = "idle"
      /\ cfg' = [cfg EXCEPT !.subs = Append(@, u)]
      /\ pc' = [pc EXCEPT ![h] = "fetch"]
      /\ verb' = [verb EXCEPT ![h] = "add"]
      /\ url' = [url EXCEPT ![h] = u]
      /\ UNCHANGED <<up, cache, host, got, connectMu, cur, lsel, cands, cancelled, owner, hsel, arg, todo, all>>
  BY Zenon DEF Add, Ask, Goto, localVars, selVars
<1>a. u \in Urls /\ Append(cfg.subs, u) \in Seq(Urls)
  BY DEF IInv, ListTypes, Urls
<1>1. /\ h \in Who /\ h \in Threads /\ "fetch" \in HandlerPcs /\ "add" \in VerbSet /\ up'
      /\ h = Tick => "fetch" \in TickPcs /\ "add" = "none"
  BY <1>0, Distinct DEF IInv, ListTypes, Places, VerbAt, HandlerPcs, TickPcs, VerbSet, Reading, Starting
<1>2. h # Tick => VerbFits("fetch", "add")
  BY Zenon DEF VerbFits, Reading, Starting
<1>3. connectMu' = h <=> Inside("fetch", "add")
  BY <1>0, <1>1, Distinct, Zenon DEF IInv, Mutex, Inside, Reading, Starting
<1>4. (NeedsArg("fetch", "add") => arg'[h] # None) /\ (NeedsOwn("fetch") => hsel'[h] # None)
  BY Zenon DEF NeedsArg, NeedsOwn, Reading, Starting
<1>5. /\ \A x \in Who \ {h} : (connectMu' = x <=> connectMu = x) /\ arg'[x] = arg[x]
      /\ \A x \in Handlers \ {h} : hsel'[x] = hsel[x]
  BY <1>0, Zenon
<1>6. pc' = [pc EXCEPT ![h] = "fetch"] /\ verb' = [verb EXCEPT ![h] = "add"] /\ ("fetch" = "stopped" => pc[Loop] = "idle")
  BY <1>0, <1>1, Zenon DEF IInv, ListTypes
<1>7. /\ Places' /\ VerbAt' /\ Mutex' /\ Args' /\ pc'[Loop] = pc[Loop]
      /\ pc' \in [Threads -> Pcs] /\ verb' \in [Threads -> VerbSet]
  BY ONLY IInv, <1>1, <1>2, <1>3, <1>4, <1>5, <1>6, Moves, Zenon
<1>8. Loops' /\ TriesItsList'
  BY <1>0, <1>7, LoopKept, Zenon DEF LoopLive
<1>9. \A x \in Threads \ {h} : pc'[x] = pc[x] /\ verb'[x] = verb[x] /\ url'[x] = url[x] /\ got'[x] = got[x]
  BY <1>0, Zenon DEF IInv, ListTypes
<1>10. FetchFits(h)'
  BY <1>0, <1>a, Distinct, Zenon DEF IInv, ListTypes, SelTypes, Fetches, FetchFits
<1>11. Fetches'
  BY <1>9, <1>10, <1>0, Distinct, FetchesKept, Zenon
<1>12. url' \in [Threads -> Urls \cup {None}]
  BY <1>0, <1>a, Zenon DEF IInv, ListTypes
<1>13. cfg' \in [subs : Seq(Urls), sel : Selections \cup {None}]
  BY <1>0, <1>a, Zenon DEF IInv, ListTypes, SelTypes
<1>14. ListTypes'
  BY <1>0, <1>7, <1>12, <1>13, Zenon DEF IInv, ListTypes
<1>15. NoDuplicates'
  BY <1>0, <1>a DEF IInv, ListTypes, NoDuplicates, IsInjective, Range, Subs
<1>16. SelTypes'
  BY <1>0, Zenon DEF IInv, SelTypes
<1> QED
  BY <1>7, <1>8, <1>11, <1>14, <1>15, <1>16, Zenon DEF IInv

\* A request adds an inline list.
LEMMA AddInlineStep ==
  ASSUME IInv, NEW h \in Handlers, NEW u \in Inline, u \notin Subs, AddInline(h, u), UNCHANGED selVars
  PROVE  IInv'
<1>0. /\ cfg' = [cfg EXCEPT !.subs = Append(@, u)]
      /\ UNCHANGED <<up, cache, host, pc, verb, url, got, connectMu, cur, lsel, cands, cancelled, owner, hsel, arg, todo, all>>
  BY Zenon DEF AddInline, Ask, localVars, selVars
<1>a. u \in Urls /\ Append(cfg.subs, u) \in Seq(Urls)
  BY DEF IInv, ListTypes, Urls
<1>1. cfg' \in [subs : Seq(Urls), sel : Selections \cup {None}]
  BY <1>0, <1>a, Zenon DEF IInv, ListTypes, SelTypes
<1>2. ListTypes'
  BY <1>0, <1>1, Zenon DEF IInv, ListTypes
<1>3. NoDuplicates'
  BY <1>0, <1>a DEF IInv, ListTypes, NoDuplicates, IsInjective, Range, Subs
<1>4. SelTypes' /\ Places' /\ VerbAt' /\ Fetches' /\ Mutex' /\ Args' /\ Loops' /\ TriesItsList'
  BY <1>0, Zenon DEF IInv, SelTypes, Places, VerbAt, Fetches, Mutex, Args, Loops, TriesItsList, FetchFits, LoopLive
<1> QED
  BY <1>2, <1>3, <1>4, Zenon DEF IInv

\* An add whose fetch failed drops the last list.
LEMMA RollbackStep ==
  ASSUME IInv, NEW h \in Handlers, Rollback(h), UNCHANGED selVars
  PROVE  IInv'
<1>0. /\ pc[h] = "rollback" /\ cfg.subs # <<>>
      /\ cfg' = [cfg EXCEPT !.subs = SubSeq(@, 1, Len(@) - 1)]
      /\ pc' = [pc EXCEPT ![h] = "idle"]
      /\ verb' = [verb EXCEPT ![h] = "none"]
      /\ url' = [url EXCEPT ![h] = None]
      /\ got' = [got EXCEPT ![h] = None]
      /\ UNCHANGED <<up, cache, host, connectMu, cur, lsel, cands, cancelled, owner, hsel, arg, todo, all>>
  BY Zenon DEF Rollback, Leave, Goto, localVars, selVars
<1>a. SubSeq(cfg.subs, 1, Len(cfg.subs) - 1) \in Seq(Urls)
  BY <1>0 DEF IInv, ListTypes
<1>b. None \in Answers
  BY Zenon DEF Answers
<1>1. /\ h \in Who /\ h \in Threads /\ "idle" \in HandlerPcs /\ "none" \in VerbSet /\ up'
      /\ h = Tick => "idle" \in TickPcs /\ "none" = "none"
  BY <1>0, Distinct, Zenon DEF IInv, ListTypes, Places, VerbAt, HandlerPcs, TickPcs, VerbSet, Reading, Starting
<1>2. h # Tick => VerbFits("idle", "none")
  BY Zenon DEF VerbFits, Reading, Starting
<1>3. connectMu' = h <=> Inside("idle", "none")
  BY <1>0, <1>1, Distinct, Zenon DEF IInv, Mutex, Inside, Reading, Starting
<1>4. (NeedsArg("idle", "none") => arg'[h] # None) /\ (NeedsOwn("idle") => hsel'[h] # None)
  BY <1>0, <1>1, Distinct, NoneAssumption, Zenon DEF IInv, SelTypes, Args, NeedsArg, NeedsOwn, Reading, Starting
<1>5. /\ \A x \in Who \ {h} : (connectMu' = x <=> connectMu = x) /\ arg'[x] = arg[x]
      /\ \A x \in Handlers \ {h} : hsel'[x] = hsel[x]
  BY <1>0, Zenon
<1>6. pc' = [pc EXCEPT ![h] = "idle"] /\ verb' = [verb EXCEPT ![h] = "none"] /\ ("idle" = "stopped" => pc[Loop] = "idle")
  BY <1>0, <1>1, Zenon DEF IInv, ListTypes
<1>7. /\ Places' /\ VerbAt' /\ Mutex' /\ Args' /\ pc'[Loop] = pc[Loop]
      /\ pc' \in [Threads -> Pcs] /\ verb' \in [Threads -> VerbSet]
  BY ONLY IInv, <1>1, <1>2, <1>3, <1>4, <1>5, <1>6, Moves, Zenon
<1>8. Loops' /\ TriesItsList'
  BY <1>0, <1>7, LoopKept, Zenon DEF LoopLive
<1>9. \A x \in Threads \ {h} : pc'[x] = pc[x] /\ verb'[x] = verb[x] /\ url'[x] = url[x] /\ got'[x] = got[x]
  BY <1>0, Zenon DEF IInv, ListTypes
<1>10. FetchFits(h)'
  BY <1>0, Distinct, Zenon DEF IInv, ListTypes, SelTypes, Fetches, FetchFits
<1>11. Fetches'
  BY <1>9, <1>10, <1>0, Distinct, FetchesKept, Zenon
<1>12. url' \in [Threads -> Urls \cup {None}]
  BY <1>0, Zenon DEF IInv, ListTypes
<1>13. got' \in [Threads -> Answers]
  BY <1>0, <1>b, Zenon DEF IInv, ListTypes
<1>14. cfg' \in [subs : Seq(Urls), sel : Selections \cup {None}]
  BY <1>0, <1>a, Zenon DEF IInv, ListTypes, SelTypes
<1>15. ListTypes'
  BY <1>0, <1>7, <1>12, <1>13, <1>14, Zenon DEF IInv, ListTypes
<1>16. NoDuplicates'
  BY <1>0 DEF IInv, ListTypes, NoDuplicates, IsInjective
<1>17. SelTypes'
  BY <1>0, Zenon DEF IInv, SelTypes
<1> QED
  BY <1>7, <1>8, <1>11, <1>15, <1>16, <1>17, Zenon DEF IInv

\* A request removes lists, and stops what was started for one of them.
LEMMA RemoveStep ==
  ASSUME IInv, NEW h \in Handlers, NEW N, NEW next \in {"stop", "idle"}, 
         Only(cfg.subs, Urls \ N) \in Seq(Urls) /\ IsInjective(Only(cfg.subs, Urls \ N)), RemoveSubs(h, N, next), UNCHANGED selVars
  PROVE  IInv'
<1>0. /\ up /\ pc[h] = "idle"
      /\ cfg' = [cfg EXCEPT !.subs = Only(@, Urls \ N)]
      /\ pc' = [pc EXCEPT ![h] = next]
      /\ verb' = [verb EXCEPT ![h] = IF next = "idle" THEN @ ELSE "remove"]
      /\ UNCHANGED <<up, cache, host, url, got, connectMu, cur, lsel, cands, cancelled, owner, hsel, arg, todo, all>>
  BY Zenon DEF RemoveSubs, Ask, Goto, localVars, selVars
<1>a. verb[h] = "none"
  BY <1>0, Zenon DEF IInv, VerbAt, VerbFits
<1>1. /\ h \in Who /\ h \in Threads /\ next \in HandlerPcs /\ (IF next = "idle" THEN "none" ELSE "remove") \in VerbSet /\ up'
      /\ h = Tick => next \in TickPcs /\ (IF next = "idle" THEN "none" ELSE "remove") = "none"
  BY <1>0, <1>a, Distinct DEF IInv, ListTypes, Places, VerbAt, HandlerPcs, TickPcs, VerbSet, Reading, Starting
<1>2. h # Tick => VerbFits(next, (IF next = "idle" THEN "none" ELSE "remove"))
  BY <1>0, Zenon DEF VerbFits, Reading, Starting
<1>3. connectMu' = h <=> Inside(next, (IF next = "idle" THEN "none" ELSE "remove"))
  BY <1>0, <1>1, Distinct, Zenon DEF IInv, Mutex, Inside, Reading, Starting
<1>4. (NeedsArg(next, (IF next = "idle" THEN "none" ELSE "remove")) => arg'[h] # None) /\ (NeedsOwn(next) => hsel'[h] # None)
  BY <1>0, <1>1, Distinct, NoneAssumption, Zenon DEF IInv, SelTypes, Args, NeedsArg, NeedsOwn, Reading, Starting
<1>5. /\ \A x \in Who \ {h} : (connectMu' = x <=> connectMu = x) /\ arg'[x] = arg[x]
      /\ \A x \in Handlers \ {h} : hsel'[x] = hsel[x]
  BY <1>0, Zenon
<1>6. pc' = [pc EXCEPT ![h] = next] /\ verb' = [verb EXCEPT ![h] = (IF next = "idle" THEN "none" ELSE "remove")] /\ (next = "stopped" => pc[Loop] = "idle")
  BY <1>0, <1>a, <1>1, Zenon DEF IInv, ListTypes
<1>7. /\ Places' /\ VerbAt' /\ Mutex' /\ Args' /\ pc'[Loop] = pc[Loop]
      /\ pc' \in [Threads -> Pcs] /\ verb' \in [Threads -> VerbSet]
  BY ONLY IInv, <1>1, <1>2, <1>3, <1>4, <1>5, <1>6, Moves, Zenon
<1>8. Loops' /\ TriesItsList'
  BY <1>0, <1>7, LoopKept, Zenon DEF LoopLive
<1>9. \A x \in Threads \ {h} : pc'[x] = pc[x] /\ verb'[x] = verb[x] /\ url'[x] = url[x] /\ got'[x] = got[x]
  BY <1>0, Zenon DEF IInv, ListTypes
<1>10. FetchFits(h)'
  BY <1>0, Distinct, Zenon DEF IInv, ListTypes, SelTypes, Fetches, FetchFits
<1>11. Fetches'
  BY <1>9, <1>10, <1>0, Distinct, FetchesKept, Zenon
<1>12. cfg' \in [subs : Seq(Urls), sel : Selections \cup {None}]
  BY <1>0, Zenon DEF IInv, ListTypes, SelTypes
<1>13. ListTypes'
  BY <1>0, <1>7, <1>12, Zenon DEF IInv, ListTypes
<1>14. NoDuplicates'
  BY <1>0, Zenon DEF IInv, ListTypes, NoDuplicates
<1>15. SelTypes'
  BY <1>0, Zenon DEF IInv, SelTypes
<1> QED
  BY <1>7, <1>8, <1>11, <1>13, <1>14, <1>15, Zenon DEF IInv

\* A request to connect begins to read the lists.
LEMMA ConnectStep ==
  ASSUME IInv, NEW h \in Handlers, NEW ask \in Asks, cfg.subs # <<>>, Connect(h, ask)
  PROVE  IInv'
<1>0. /\ up /\ pc[h] = "idle"
      /\ pc' = [pc EXCEPT ![h] = "snap"]
      /\ verb' = [verb EXCEPT ![h] = "connect"]
      /\ arg' = [arg EXCEPT ![h] = [ask |-> ask, id |-> None, sub |-> None]]
      /\ UNCHANGED <<up, cfg, cache, host, url, got, connectMu, cur, lsel, cands, cancelled, owner, hsel, todo, all>>
  BY Zenon DEF Connect, Ask, Goto, Selected, localVars, selVars
<1>a. [ask |-> ask, id |-> None, sub |-> None] \in Selections
  BY Zenon DEF Selections
<1>1. /\ h \in Who /\ h \in Threads /\ "snap" \in HandlerPcs /\ "connect" \in VerbSet /\ up'
      /\ h = Tick => "snap" \in TickPcs /\ "connect" = "none"
  BY <1>0, Distinct, Zenon DEF HandlerPcs, TickPcs, VerbSet, Reading
<1>2. h # Tick => VerbFits("snap", "connect")
  BY Zenon DEF VerbFits, Reading, Starting
<1>3. connectMu' = h <=> Inside("snap", "connect")
  BY <1>0, <1>1, Distinct, Zenon DEF IInv, Mutex, Inside, Reading, Starting
<1>4. (NeedsArg("snap", "connect") => arg'[h] # None) /\ (NeedsOwn("snap") => hsel'[h] # None)
  BY <1>0, <1>a, <1>1, Distinct, NoneAssumption, Zenon DEF IInv, SelTypes, Args, NeedsArg, NeedsOwn, Reading, Starting
<1>5. /\ \A x \in Who \ {h} : (connectMu' = x <=> connectMu = x) /\ arg'[x] = arg[x]
      /\ \A x \in Handlers \ {h} : hsel'[x] = hsel[x]
  BY <1>0, Distinct, Zenon DEF IInv, SelTypes
<1>6. pc' = [pc EXCEPT ![h] = "snap"] /\ verb' = [verb EXCEPT ![h] = "connect"] /\ ("snap" = "stopped" => pc[Loop] = "idle")
  BY <1>0, <1>1, Zenon DEF IInv, ListTypes
<1>7. /\ Places' /\ VerbAt' /\ Mutex' /\ Args' /\ pc'[Loop] = pc[Loop]
      /\ pc' \in [Threads -> Pcs] /\ verb' \in [Threads -> VerbSet]
  BY ONLY IInv, <1>1, <1>2, <1>3, <1>4, <1>5, <1>6, Moves, Zenon
<1>8. Loops' /\ TriesItsList'
  BY <1>0, <1>7, LoopKept, Zenon DEF LoopLive
<1>9. \A x \in Threads \ {h} : pc'[x] = pc[x] /\ verb'[x] = verb[x] /\ url'[x] = url[x] /\ got'[x] = got[x]
  BY <1>0, Zenon DEF IInv, ListTypes
<1>10. FetchFits(h)'
  BY <1>0, Distinct, Zenon DEF IInv, ListTypes, SelTypes, Fetches, FetchFits
<1>11. Fetches'
  BY <1>9, <1>10, <1>0, Distinct, FetchesKept, Zenon
<1>12. ListTypes'
  BY <1>0, <1>7, Zenon DEF IInv, ListTypes
<1>13. SelTypes'
  BY <1>0, <1>a, Distinct, Zenon DEF IInv, SelTypes
<1>14. NoDuplicates'
  BY <1>0, Zenon DEF IInv, NoDuplicates
<1> QED
  BY <1>7, <1>8, <1>11, <1>12, <1>13, <1>14, Zenon DEF IInv

\* A host answers a thread.
LEMMA FetchStep ==
  ASSUME IInv, NEW t \in Callers, Fetch(t), UNCHANGED selVars
  PROVE  IInv'
<1>0. /\ pc[t] = "fetch" /\ host[url[t]] # Down
      /\ pc' = [pc EXCEPT ![t] = "save"]
      /\ got' = [got EXCEPT ![t] = host[url[t]]]
      /\ UNCHANGED <<up, cfg, cache, host, verb, url, connectMu, cur, lsel, cands, cancelled, owner, hsel, arg, todo, all>>
  BY Zenon DEF Fetch, Goto, localVars, selVars
<1>a. url[t] \in Remote /\ host[url[t]] \in Hosts[url[t]] \ {Down} /\ host[url[t]] \in Answers
  BY <1>0, Distinct, Zenon DEF IInv, ListTypes, Fetches, FetchFits
<1>1. /\ Places' /\ VerbAt' /\ Mutex' /\ Args' /\ Loops' /\ TriesItsList'
      /\ pc' \in [Threads -> Pcs]
  BY <1>0, Distinct, ReadingMoves, Zenon DEF Reading
<1>2. \A x \in Threads \ {t} : pc'[x] = pc[x] /\ verb'[x] = verb[x] /\ url'[x] = url[x] /\ got'[x] = got[x]
  BY <1>0, Zenon DEF IInv, ListTypes
<1>3. FetchFits(t)'
  BY <1>0, <1>a, Distinct, Zenon DEF IInv, ListTypes, SelTypes, Fetches, FetchFits
<1>4. Fetches'
  BY <1>2, <1>3, <1>0, Distinct, FetchesKept, Zenon
<1>5. got' \in [Threads -> Answers]
  BY <1>0, <1>a, Zenon DEF IInv, ListTypes
<1>6. ListTypes'
  BY <1>0, <1>1, <1>5, Zenon DEF IInv, ListTypes
<1>7. SelTypes' /\ NoDuplicates'
  BY <1>0, Zenon DEF IInv, SelTypes, NoDuplicates
<1> QED
  BY <1>1, <1>4, <1>6, <1>7, Zenon DEF IInv

\* A host answers a fetch of a refresh.
LEMMA FetchOfRefresh ==
  ASSUME IInv, NEW t \in Fetchers, Fetch(t), UNCHANGED selVars
  PROVE  IInv'
<1>0. /\ pc[t] = "fetch" /\ host[url[t]] # Down
      /\ pc' = [pc EXCEPT ![t] = "save"]
      /\ got' = [got EXCEPT ![t] = host[url[t]]]
      /\ UNCHANGED <<up, cfg, cache, host, verb, url, connectMu, cur, lsel, cands, cancelled, owner, hsel, arg, todo, all>>
  BY Zenon DEF Fetch, Goto, localVars, selVars
<1>a. url[t] \in Remote /\ host[url[t]] \in Hosts[url[t]] \ {Down} /\ host[url[t]] \in Answers
  BY <1>0, Distinct, Zenon DEF IInv, ListTypes, Fetches, FetchFits
<1>1. /\ Places' /\ VerbAt' /\ Mutex' /\ Args' /\ Loops' /\ TriesItsList'
      /\ pc' \in [Threads -> Pcs]
  BY <1>0, Distinct, FetcherMoves, Zenon DEF Reading
<1>2. \A x \in Threads \ {t} : pc'[x] = pc[x] /\ verb'[x] = verb[x] /\ url'[x] = url[x] /\ got'[x] = got[x]
  BY <1>0, Zenon DEF IInv, ListTypes
<1>3. FetchFits(t)'
  BY <1>0, <1>a, Distinct, Zenon DEF IInv, ListTypes, SelTypes, Fetches, FetchFits
<1>4. Fetches'
  BY <1>2, <1>3, <1>0, Distinct, FetchesKept, Zenon
<1>5. got' \in [Threads -> Answers]
  BY <1>0, <1>a, Zenon DEF IInv, ListTypes
<1>6. ListTypes'
  BY <1>0, <1>1, <1>5, Zenon DEF IInv, ListTypes
<1>7. SelTypes' /\ NoDuplicates'
  BY <1>0, Zenon DEF IInv, SelTypes, NoDuplicates
<1> QED
  BY <1>1, <1>4, <1>6, <1>7, Zenon DEF IInv

\* A fetch of a refresh has its slot.
LEMMA AcquireStep ==
  ASSUME IInv, NEW t \in Fetchers, Acquire(t), UNCHANGED selVars
  PROVE  IInv'
<1>0. /\ pc[t] = "sem"
      /\ pc' = [pc EXCEPT ![t] = "fetch"]
      /\ UNCHANGED <<up, cfg, cache, host, verb, url, got, connectMu, cur, lsel, cands, cancelled, owner, hsel, arg, todo, all>>
  BY Zenon DEF Acquire, Goto, localVars, selVars
<1>1. /\ Places' /\ VerbAt' /\ Mutex' /\ Args' /\ Loops' /\ TriesItsList'
      /\ pc' \in [Threads -> Pcs]
  BY <1>0, Distinct, FetcherMoves, Zenon DEF Reading
<1>2. \A x \in Threads \ {t} : pc'[x] = pc[x] /\ verb'[x] = verb[x] /\ url'[x] = url[x] /\ got'[x] = got[x]
  BY <1>0, Zenon DEF IInv, ListTypes
<1>3. FetchFits(t)'
  BY <1>0, Distinct, Zenon DEF IInv, ListTypes, SelTypes, Fetches, FetchFits
<1>4. Fetches'
  BY <1>2, <1>3, <1>0, Distinct, FetchesKept, Zenon
<1>5. ListTypes'
  BY <1>0, <1>1, Zenon DEF IInv, ListTypes
<1>6. SelTypes' /\ NoDuplicates'
  BY <1>0, Zenon DEF IInv, SelTypes, NoDuplicates
<1> QED
  BY <1>1, <1>4, <1>5, <1>6, Zenon DEF IInv

\* A fetch fails, for a refresh.
LEMMA FetchFailsOfRefresh ==
  ASSUME IInv, NEW t \in Fetchers, FetchFails(t), UNCHANGED selVars
  PROVE  IInv'
<1>0. /\ pc[t] = "fetch"
      /\ pc' = [pc EXCEPT ![t] = "idle"]
      /\ verb' = [verb EXCEPT ![t] = "none"]
      /\ url' = [url EXCEPT ![t] = None]
      /\ got' = [got EXCEPT ![t] = None]
      /\ UNCHANGED <<up, cfg, cache, host, connectMu, cur, lsel, cands, cancelled, owner, hsel, arg, todo, all>>
  BY Zenon DEF FetchFails, Missed, Leave, Goto, localVars, selVars
<1>a. None \in Answers
  BY Zenon DEF Answers
<1>1. \A x \in Callers : verb'[x] = verb[x]
  BY <1>0, Distinct, Zenon DEF IInv, ListTypes, VerbAt
<1>2. /\ Places' /\ VerbAt' /\ Mutex' /\ Args' /\ Loops' /\ TriesItsList'
      /\ pc' \in [Threads -> Pcs]
  BY <1>0, <1>1, Distinct, FetcherMoves, Zenon DEF Reading
<1>3. \A x \in Threads \ {t} : pc'[x] = pc[x] /\ verb'[x] = verb[x] /\ url'[x] = url[x] /\ got'[x] = got[x]
  BY <1>0, Zenon DEF IInv, ListTypes
<1>4. FetchFits(t)'
  BY <1>0, Distinct, Zenon DEF IInv, ListTypes, SelTypes, Fetches, FetchFits
<1>5. Fetches'
  BY <1>3, <1>4, <1>0, Distinct, FetchesKept, Zenon
<1>6. verb' \in [Threads -> VerbSet]
  BY <1>0, Zenon DEF IInv, ListTypes, VerbSet
<1>7. url' \in [Threads -> Urls \cup {None}]
  BY <1>0, Zenon DEF IInv, ListTypes
<1>8. got' \in [Threads -> Answers]
  BY <1>0, <1>a, Zenon DEF IInv, ListTypes
<1>9. ListTypes'
  BY <1>0, <1>2, <1>6, <1>7, <1>8, Zenon DEF IInv, ListTypes
<1>10. SelTypes' /\ NoDuplicates'
  BY <1>0, Zenon DEF IInv, SelTypes, NoDuplicates
<1> QED
  BY <1>2, <1>5, <1>9, <1>10, Zenon DEF IInv

\* A fetch fails, for an add: it will be rolled back.
LEMMA FetchFailsOfAdd ==
  ASSUME IInv, NEW h \in Handlers, verb[h] = "add", FetchFails(h), UNCHANGED selVars
  PROVE  IInv'
<1>0. /\ pc[h] = "fetch"
      /\ pc' = [pc EXCEPT ![h] = "rollback"]
      /\ UNCHANGED <<up, cfg, cache, host, verb, url, got, connectMu, cur, lsel, cands, cancelled, owner, hsel, arg, todo, all>>
  BY Distinct, Zenon DEF FetchFails, Missed, Leave, Goto, localVars, selVars
<1>1. /\ h \in Who /\ h \in Threads /\ "rollback" \in HandlerPcs /\ verb[h] \in VerbSet /\ up'
      /\ h = Tick => "rollback" \in TickPcs /\ verb[h] = "none"
  BY <1>0, Distinct, Zenon DEF IInv, ListTypes, Places, VerbAt, HandlerPcs, TickPcs, VerbSet, Reading, Starting
<1>2. h # Tick => VerbFits("rollback", verb[h])
  BY <1>0, Zenon DEF VerbFits, Reading, Starting
<1>3. connectMu' = h <=> Inside("rollback", verb[h])
  BY <1>0, <1>1, Distinct, Zenon DEF IInv, Mutex, Inside, Reading, Starting
<1>4. (NeedsArg("rollback", verb[h]) => arg'[h] # None) /\ (NeedsOwn("rollback") => hsel'[h] # None)
  BY <1>0, <1>1, Distinct, NoneAssumption, Zenon DEF IInv, SelTypes, Args, NeedsArg, NeedsOwn, Reading, Starting
<1>5. /\ \A x \in Who \ {h} : (connectMu' = x <=> connectMu = x) /\ arg'[x] = arg[x]
      /\ \A x \in Handlers \ {h} : hsel'[x] = hsel[x]
  BY <1>0, Zenon
<1>6. pc' = [pc EXCEPT ![h] = "rollback"] /\ verb' = [verb EXCEPT ![h] = verb[h]] /\ ("rollback" = "stopped" => pc[Loop] = "idle")
  BY <1>0, <1>1, Zenon DEF IInv, ListTypes
<1>7. /\ Places' /\ VerbAt' /\ Mutex' /\ Args' /\ pc'[Loop] = pc[Loop]
      /\ pc' \in [Threads -> Pcs] /\ verb' \in [Threads -> VerbSet]
  BY ONLY IInv, <1>1, <1>2, <1>3, <1>4, <1>5, <1>6, Moves, Zenon
<1>8. Loops' /\ TriesItsList'
  BY <1>0, <1>7, LoopKept, Zenon DEF LoopLive
<1>9. \A x \in Threads \ {h} : pc'[x] = pc[x] /\ verb'[x] = verb[x] /\ url'[x] = url[x] /\ got'[x] = got[x]
  BY <1>0, Zenon DEF IInv, ListTypes
<1>10. FetchFits(h)'
  BY <1>0, Distinct, Zenon DEF IInv, ListTypes, SelTypes, Fetches, FetchFits
<1>11. Fetches'
  BY <1>9, <1>10, <1>0, Distinct, FetchesKept, Zenon
<1>12. ListTypes'
  BY <1>0, <1>7, Zenon DEF IInv, ListTypes
<1>13. SelTypes' /\ NoDuplicates'
  BY <1>0, Zenon DEF IInv, SelTypes, NoDuplicates
<1> QED
  BY <1>7, <1>8, <1>11, <1>12, <1>13, Zenon DEF IInv

\* A fetch fails, for a thread that reads the lists.
LEMMA FetchFailsOfCaller ==
  ASSUME IInv, NEW t \in Callers, verb[t] # "add", FetchFails(t), UNCHANGED selVars
  PROVE  IInv'
<1>0. /\ pc[t] = "fetch"
      /\ pc' = [pc EXCEPT ![t] = "missed"]
      /\ UNCHANGED <<up, cfg, cache, host, verb, url, got, connectMu, cur, lsel, cands, cancelled, owner, hsel, arg, todo, all>>
  BY Distinct, Zenon DEF FetchFails, Missed, Leave, Goto, localVars, selVars
<1>1. /\ Places' /\ VerbAt' /\ Mutex' /\ Args' /\ Loops' /\ TriesItsList'
      /\ pc' \in [Threads -> Pcs]
  BY <1>0, Distinct, ReadingMoves, Zenon DEF Reading
<1>2. \A x \in Threads \ {t} : pc'[x] = pc[x] /\ verb'[x] = verb[x] /\ url'[x] = url[x] /\ got'[x] = got[x]
  BY <1>0, Zenon DEF IInv, ListTypes
<1>3. FetchFits(t)'
  BY <1>0, Distinct, Zenon DEF IInv, ListTypes, SelTypes, Fetches, FetchFits
<1>4. Fetches'
  BY <1>2, <1>3, <1>0, Distinct, FetchesKept, Zenon
<1>5. ListTypes'
  BY <1>0, <1>1, Zenon DEF IInv, ListTypes
<1>6. SelTypes' /\ NoDuplicates'
  BY <1>0, Zenon DEF IInv, SelTypes, NoDuplicates
<1> QED
  BY <1>1, <1>4, <1>5, <1>6, Zenon DEF IInv

\* A fetched list is saved, for a refresh.
LEMMA SaveCacheOfRefresh ==
  ASSUME IInv, NEW t \in Fetchers, SaveCache(t), UNCHANGED selVars
  PROVE  IInv'
<1>0. /\ pc[t] = "save"
      /\ pc' = [pc EXCEPT ![t] = "idle"]
      /\ verb' = [verb EXCEPT ![t] = "none"]
      /\ url' = [url EXCEPT ![t] = None]
      /\ got' = [got EXCEPT ![t] = None]
      /\ cache' = [cache EXCEPT ![url[t]] = got[t]]
      /\ UNCHANGED <<up, cfg, host, connectMu, cur, lsel, cands, cancelled, owner, hsel, arg, todo, all>>
  BY Zenon DEF SaveCache, Had, Leave, Goto, localVars, selVars
<1>a. url[t] \in Remote /\ got[t] \in Hosts[url[t]] \ {Down} /\ got[t] \in Answers
  BY <1>0, Distinct, Zenon DEF IInv, ListTypes, Fetches, FetchFits
<1>b. None \in Answers
  BY Zenon DEF Answers
<1>1. \A x \in Callers : verb'[x] = verb[x]
  BY <1>0, Distinct, Zenon DEF IInv, ListTypes, VerbAt
<1>2. /\ Places' /\ VerbAt' /\ Mutex' /\ Args' /\ Loops' /\ TriesItsList'
      /\ pc' \in [Threads -> Pcs]
  BY <1>0, <1>1, Distinct, FetcherMoves, Zenon DEF Reading
<1>3. \A x \in Threads \ {t} : pc'[x] = pc[x] /\ verb'[x] = verb[x] /\ url'[x] = url[x] /\ got'[x] = got[x]
  BY <1>0, Zenon DEF IInv, ListTypes
<1>4. FetchFits(t)'
  BY <1>0, Distinct, Zenon DEF IInv, ListTypes, SelTypes, Fetches, FetchFits
<1>5. Fetches'
  BY <1>3, <1>4, <1>0, Distinct, FetchesKept, Zenon
<1>6. verb' \in [Threads -> VerbSet]
  BY <1>0, Zenon DEF IInv, ListTypes, VerbSet
<1>7. url' \in [Threads -> Urls \cup {None}]
  BY <1>0, Zenon DEF IInv, ListTypes
<1>8. got' \in [Threads -> Answers]
  BY <1>0, <1>b, Zenon DEF IInv, ListTypes
<1>9. cache' \in [Remote -> Answers] /\ \A u \in Remote : cache'[u] \in (Hosts[u] \ {Down}) \cup {None}
  BY <1>0, <1>a, Zenon DEF IInv, ListTypes
<1>10. ListTypes'
  BY <1>0, <1>2, <1>6, <1>7, <1>8, <1>9, Zenon DEF IInv, ListTypes
<1>11. SelTypes' /\ NoDuplicates'
  BY <1>0, Zenon DEF IInv, SelTypes, NoDuplicates
<1> QED
  BY <1>2, <1>5, <1>10, <1>11, Zenon DEF IInv

\* A fetched list is saved, for an add.
LEMMA SaveCacheOfAdd ==
  ASSUME IInv, NEW h \in Handlers, verb[h] = "add", SaveCache(h), UNCHANGED selVars
  PROVE  IInv'
<1>0. /\ pc[h] = "save"
      /\ pc' = [pc EXCEPT ![h] = "idle"]
      /\ verb' = [verb EXCEPT ![h] = "none"]
      /\ url' = [url EXCEPT ![h] = None]
      /\ got' = [got EXCEPT ![h] = None]
      /\ cache' = [cache EXCEPT ![url[h]] = got[h]]
      /\ UNCHANGED <<up, cfg, host, connectMu, cur, lsel, cands, cancelled, owner, hsel, arg, todo, all>>
  BY Distinct, Zenon DEF SaveCache, Had, Leave, Goto, localVars, selVars
<1>a. url[h] \in Remote /\ got[h] \in Hosts[url[h]] \ {Down} /\ got[h] \in Answers
  BY <1>0, Distinct, Zenon DEF IInv, ListTypes, Fetches, FetchFits
<1>b. None \in Answers
  BY Zenon DEF Answers
<1>1. /\ h \in Who /\ h \in Threads /\ "idle" \in HandlerPcs /\ "none" \in VerbSet /\ up'
      /\ h = Tick => "idle" \in TickPcs /\ "none" = "none"
  BY <1>0, Distinct, Zenon DEF IInv, ListTypes, Places, VerbAt, HandlerPcs, TickPcs, VerbSet, Reading, Starting
<1>2. h # Tick => VerbFits("idle", "none")
  BY Zenon DEF VerbFits, Reading, Starting
<1>3. connectMu' = h <=> Inside("idle", "none")
  BY <1>0, <1>1, Distinct, Zenon DEF IInv, Mutex, Inside, Reading, Starting
<1>4. (NeedsArg("idle", "none") => arg'[h] # None) /\ (NeedsOwn("idle") => hsel'[h] # None)
  BY <1>0, <1>1, Distinct, NoneAssumption, Zenon DEF IInv, SelTypes, Args, NeedsArg, NeedsOwn, Reading, Starting
<1>5. /\ \A x \in Who \ {h} : (connectMu' = x <=> connectMu = x) /\ arg'[x] = arg[x]
      /\ \A x \in Handlers \ {h} : hsel'[x] = hsel[x]
  BY <1>0, Zenon
<1>6. pc' = [pc EXCEPT ![h] = "idle"] /\ verb' = [verb EXCEPT ![h] = "none"] /\ ("idle" = "stopped" => pc[Loop] = "idle")
  BY <1>0, <1>1, Zenon DEF IInv, ListTypes
<1>7. /\ Places' /\ VerbAt' /\ Mutex' /\ Args' /\ pc'[Loop] = pc[Loop]
      /\ pc' \in [Threads -> Pcs] /\ verb' \in [Threads -> VerbSet]
  BY ONLY IInv, <1>1, <1>2, <1>3, <1>4, <1>5, <1>6, Moves, Zenon
<1>8. Loops' /\ TriesItsList'
  BY <1>0, <1>7, LoopKept, Zenon DEF LoopLive
<1>9. \A x \in Threads \ {h} : pc'[x] = pc[x] /\ verb'[x] = verb[x] /\ url'[x] = url[x] /\ got'[x] = got[x]
  BY <1>0, Zenon DEF IInv, ListTypes
<1>10. FetchFits(h)'
  BY <1>0, Distinct, Zenon DEF IInv, ListTypes, SelTypes, Fetches, FetchFits
<1>11. Fetches'
  BY <1>9, <1>10, <1>0, Distinct, FetchesKept, Zenon
<1>12. url' \in [Threads -> Urls \cup {None}]
  BY <1>0, Zenon DEF IInv, ListTypes
<1>13. got' \in [Threads -> Answers]
  BY <1>0, <1>b, Zenon DEF IInv, ListTypes
<1>14. cache' \in [Remote -> Answers] /\ \A u \in Remote : cache'[u] \in (Hosts[u] \ {Down}) \cup {None}
  BY <1>0, <1>a, Zenon DEF IInv, ListTypes
<1>15. ListTypes'
  BY <1>0, <1>7, <1>12, <1>13, <1>14, Zenon DEF IInv, ListTypes
<1>16. SelTypes' /\ NoDuplicates'
  BY <1>0, Zenon DEF IInv, SelTypes, NoDuplicates
<1> QED
  BY <1>7, <1>8, <1>11, <1>15, <1>16, Zenon DEF IInv

\* A fetched list is saved, for a thread that reads the lists.
LEMMA SaveCacheOfCaller ==
  ASSUME IInv, NEW t \in Callers, verb[t] # "add", SaveCache(t), UNCHANGED selVars
  PROVE  IInv'
<1>0. /\ pc[t] = "save"
      /\ pc' = [pc EXCEPT ![t] = "had"]
      /\ cache' = [cache EXCEPT ![url[t]] = got[t]]
      /\ UNCHANGED <<up, cfg, host, verb, url, got, connectMu, cur, lsel, cands, cancelled, owner, hsel, arg, todo, all>>
  BY Distinct, Zenon DEF SaveCache, Had, Leave, Goto, localVars, selVars
<1>a. url[t] \in Remote /\ got[t] \in Hosts[url[t]] \ {Down} /\ got[t] \in Answers
  BY <1>0, Distinct, Zenon DEF IInv, ListTypes, Fetches, FetchFits
<1>1. /\ Places' /\ VerbAt' /\ Mutex' /\ Args' /\ Loops' /\ TriesItsList'
      /\ pc' \in [Threads -> Pcs]
  BY <1>0, Distinct, ReadingMoves, Zenon DEF Reading
<1>2. \A x \in Threads \ {t} : pc'[x] = pc[x] /\ verb'[x] = verb[x] /\ url'[x] = url[x] /\ got'[x] = got[x]
  BY <1>0, Zenon DEF IInv, ListTypes
<1>3. FetchFits(t)'
  BY <1>0, <1>a, Distinct, Zenon DEF IInv, ListTypes, SelTypes, Fetches, FetchFits
<1>4. Fetches'
  BY <1>2, <1>3, <1>0, Distinct, FetchesKept, Zenon
<1>5. cache' \in [Remote -> Answers] /\ \A u \in Remote : cache'[u] \in (Hosts[u] \ {Down}) \cup {None}
  BY <1>0, <1>a, Zenon DEF IInv, ListTypes
<1>6. ListTypes'
  BY <1>0, <1>1, <1>5, Zenon DEF IInv, ListTypes
<1>7. SelTypes' /\ NoDuplicates'
  BY <1>0, Zenon DEF IInv, SelTypes, NoDuplicates
<1> QED
  BY <1>1, <1>4, <1>6, <1>7, Zenon DEF IInv

\* A thread begins to read the lists.
LEMMA SnapshotStep ==
  ASSUME IInv, NEW t \in Callers, InScope(ScopeOf(t)) \in Seq(Urls), Snapshot(t)
  PROVE  IInv'
<1>0. /\ pc[t] = "snap"
      /\ todo' = [todo EXCEPT ![t] = InScope(ScopeOf(t))]
      /\ pc' = [pc EXCEPT ![t] = IF InScope(ScopeOf(t)) = <<>> THEN "loaded" ELSE "read"]
      /\ UNCHANGED <<up, cfg, cache, host, verb, url, got, connectMu, cur, lsel, cands, cancelled, owner, hsel, arg, all>>
  BY Zenon DEF Snapshot, Proceed, Goto, localVars, selVars
<1>a. verb[t] # "add"
  BY <1>0, Distinct, Zenon DEF IInv, VerbAt, VerbFits, Reading, Callers
<1>b. todo'[t] = InScope(ScopeOf(t)) /\ pc'[t] = IF InScope(ScopeOf(t)) = <<>> THEN "loaded" ELSE "read"
  BY <1>0, Distinct, Zenon DEF IInv, ListTypes, SelTypes
<1>1. /\ Places' /\ VerbAt' /\ Mutex' /\ Args' /\ Loops' /\ TriesItsList'
      /\ pc' \in [Threads -> Pcs]
  BY <1>0, <1>a, Distinct, ReadingMoves, Zenon DEF Reading
<1>2. \A x \in Threads \ {t} : pc'[x] = pc[x] /\ verb'[x] = verb[x] /\ url'[x] = url[x] /\ got'[x] = got[x]
  BY <1>0, Zenon DEF IInv, ListTypes
<1>3. FetchFits(t)'
  BY <1>b, Zenon DEF FetchFits
<1>4. \A x \in Callers \ {t} : todo'[x] = todo[x]
  BY <1>0, Zenon DEF IInv, SelTypes
<1>5. Fetches'
  BY <1>2, <1>3, <1>4, Distinct, FetchesKept, Zenon
<1>6. ListTypes'
  BY <1>0, <1>1, Zenon DEF IInv, ListTypes
<1>7. SelTypes'
  BY <1>0, Distinct, Zenon DEF IInv, SelTypes
<1>8. NoDuplicates'
  BY <1>0, Zenon DEF IInv, NoDuplicates
<1> QED
  BY <1>1, <1>5, <1>6, <1>7, <1>8, Zenon DEF IInv

\* A list that has no cache file is fetched.
LEMMA ReadFetches ==
  ASSUME IInv, NEW t \in Callers, Head(todo[t]) \in Remote /\ ~Cached(Head(todo[t])), Read(t)
  PROVE  IInv'
<1>0. /\ pc[t] = "read"
      /\ pc' = [pc EXCEPT ![t] = "fetch"]
      /\ url' = [url EXCEPT ![t] = Head(todo[t])]
      /\ UNCHANGED <<up, cfg, cache, host, verb, got, connectMu, cur, lsel, cands, cancelled, owner, hsel, arg, todo, all>>
  BY Zenon DEF Read, Goto, localVars, selVars
<1>a. verb[t] # "add"
  BY <1>0, Distinct, Zenon DEF IInv, VerbAt, VerbFits, Reading, Callers
<1>b. Head(todo[t]) \in Remote /\ Head(todo[t]) \in Urls
  BY Zenon DEF Urls
<1>1. /\ Places' /\ VerbAt' /\ Mutex' /\ Args' /\ Loops' /\ TriesItsList'
      /\ pc' \in [Threads -> Pcs]
  BY <1>0, <1>a, Distinct, ReadingMoves, Zenon DEF Reading
<1>2. \A x \in Threads \ {t} : pc'[x] = pc[x] /\ verb'[x] = verb[x] /\ url'[x] = url[x] /\ got'[x] = got[x]
  BY <1>0, Zenon DEF IInv, ListTypes
<1>3. FetchFits(t)'
  BY <1>0, <1>a, Distinct, Zenon DEF IInv, ListTypes, SelTypes, Fetches, FetchFits
<1>4. Fetches'
  BY <1>2, <1>3, <1>0, Distinct, FetchesKept, Zenon
<1>5. url' \in [Threads -> Urls \cup {None}]
  BY <1>0, <1>b, Zenon DEF IInv, ListTypes
<1>6. ListTypes'
  BY <1>0, <1>1, <1>5, Zenon DEF IInv, ListTypes
<1>7. SelTypes' /\ NoDuplicates'
  BY <1>0, Zenon DEF IInv, SelTypes, NoDuplicates
<1> QED
  BY <1>1, <1>4, <1>6, <1>7, Zenon DEF IInv

\* A list that is inline or cached is read.
LEMMA ReadTakes ==
  ASSUME IInv, NEW t \in Callers, NEW u, u = Head(todo[t]), ~(u \in Remote /\ ~Cached(u)), Read(t)
  PROVE  IInv'
<1>0. /\ pc[t] = "read"
      /\ todo' = [todo EXCEPT ![t] = Tail(todo[t])]
      /\ pc' = [pc EXCEPT ![t] = IF Tail(todo[t]) = <<>> THEN "loaded" ELSE "read"]
      /\ all' = [all EXCEPT ![t] = @ \o Entries(u, IF u \in Inline THEN u ELSE cache[u])]
      /\ UNCHANGED <<up, cfg, cache, host, verb, url, got, connectMu, cur, lsel, cands, cancelled, owner, hsel, arg>>
  BY Zenon DEF Read, Proceed, Goto, localVars, selVars
<1>a. verb[t] # "add"
  BY <1>0, Distinct, Zenon DEF IInv, VerbAt, VerbFits, Reading, Callers
<1>b. todo[t] \in Seq(Urls)
  BY Zenon DEF IInv, SelTypes
<1>c. todo[t] # <<>>
  BY <1>0, <1>a, Distinct, Zenon DEF IInv, Fetches, FetchFits
<1>d. Tail(todo[t]) \in Seq(Urls) /\ Head(todo[t]) \in Urls
  BY ONLY <1>b, <1>c
<1>e. Entries(u, IF u \in Inline THEN u ELSE cache[u]) \in Seq(Line)
  BY <1>d, EntriesType, Zenon DEF IInv, ListTypes, Cached, Urls
<1>f. all[t] \o Entries(u, IF u \in Inline THEN u ELSE cache[u]) \in Seq(Line)
  BY <1>e DEF IInv, SelTypes
<1>1. /\ Places' /\ VerbAt' /\ Mutex' /\ Args' /\ Loops' /\ TriesItsList'
      /\ pc' \in [Threads -> Pcs]
  BY <1>0, <1>a, Distinct, ReadingMoves, Zenon DEF Reading
<1>2. \A x \in Threads \ {t} : pc'[x] = pc[x] /\ verb'[x] = verb[x] /\ url'[x] = url[x] /\ got'[x] = got[x]
  BY <1>0, Zenon DEF IInv, ListTypes
<1>3. FetchFits(t)'
  BY <1>0, <1>a, Distinct, Zenon DEF IInv, ListTypes, SelTypes, Fetches, FetchFits
<1>4. \A x \in Callers \ {t} : todo'[x] = todo[x]
  BY <1>0, Zenon DEF IInv, SelTypes
<1>5. Fetches'
  BY <1>2, <1>3, <1>4, Distinct, FetchesKept, Zenon
<1>6. ListTypes'
  BY <1>0, <1>1, Zenon DEF IInv, ListTypes
<1>7. SelTypes'
  BY <1>0, <1>d, <1>f, Distinct, Zenon DEF IInv, SelTypes
<1>8. NoDuplicates'
  BY <1>0, Zenon DEF IInv, NoDuplicates
<1> QED
  BY <1>1, <1>5, <1>6, <1>7, <1>8, Zenon DEF IInv

\* A list that was fetched is taken, or left out.
LEMMA ReturnStep ==
  ASSUME IInv, NEW t \in Callers, Return(t)
  PROVE  IInv'
<1>0. /\ pc[t] \in {"had", "missed"}
      /\ todo' = [todo EXCEPT ![t] = Tail(todo[t])]
      /\ pc' = [pc EXCEPT ![t] = IF Tail(todo[t]) = <<>> THEN "loaded" ELSE "read"]
      /\ url' = [url EXCEPT ![t] = None]
      /\ got' = [got EXCEPT ![t] = None]
      /\ all' = IF pc[t] = "had" THEN [all EXCEPT ![t] = @ \o Entries(url[t], got[t])] ELSE all
      /\ UNCHANGED <<up, cfg, cache, host, verb, connectMu, cur, lsel, cands, cancelled, owner, hsel, arg>>
  BY Zenon DEF Return, Proceed, Goto, localVars, selVars
<1>a. verb[t] # "add"
  BY <1>0, Distinct, Zenon DEF IInv, VerbAt, VerbFits, Reading, Callers
<1>b. todo[t] \in Seq(Urls)
  BY Zenon DEF IInv, SelTypes
<1>c. todo[t] # <<>>
  BY <1>0, <1>a, Distinct, Zenon DEF IInv, Fetches, FetchFits
<1>d. Tail(todo[t]) \in Seq(Urls) /\ Head(todo[t]) \in Urls
  BY ONLY <1>b, <1>c
<1>e. pc[t] = "had" => Entries(url[t], got[t]) \in Seq(Line)
  BY <1>0, Distinct, EntriesType, Zenon DEF IInv, Fetches, FetchFits
<1>f. all' \in [Callers -> Seq(Line)]
  BY <1>0, <1>e DEF IInv, SelTypes
<1>g. None \in Answers
  BY Zenon DEF Answers
<1>1. /\ Places' /\ VerbAt' /\ Mutex' /\ Args' /\ Loops' /\ TriesItsList'
      /\ pc' \in [Threads -> Pcs]
  BY <1>0, <1>a, Distinct, ReadingMoves, Zenon DEF Reading
<1>2. \A x \in Threads \ {t} : pc'[x] = pc[x] /\ verb'[x] = verb[x] /\ url'[x] = url[x] /\ got'[x] = got[x]
  BY <1>0, Zenon DEF IInv, ListTypes
<1>3. FetchFits(t)'
  BY <1>0, <1>a, Distinct, Zenon DEF IInv, ListTypes, SelTypes, Fetches, FetchFits
<1>4. \A x \in Callers \ {t} : todo'[x] = todo[x]
  BY <1>0, Zenon DEF IInv, SelTypes
<1>5. Fetches'
  BY <1>2, <1>3, <1>4, Distinct, FetchesKept, Zenon
<1>6. url' \in [Threads -> Urls \cup {None}]
  BY <1>0, Zenon DEF IInv, ListTypes
<1>7. got' \in [Threads -> Answers]
  BY <1>0, <1>g, Zenon DEF IInv, ListTypes
<1>8. ListTypes'
  BY <1>0, <1>1, <1>6, <1>7, Zenon DEF IInv, ListTypes
<1>9. SelTypes'
  BY <1>0, <1>d, <1>f, Zenon DEF IInv, SelTypes
<1>10. NoDuplicates'
  BY <1>0, Zenon DEF IInv, NoDuplicates
<1> QED
  BY <1>1, <1>5, <1>8, <1>9, <1>10, Zenon DEF IInv

\* The loop sees that it is cancelled.
LEMMA LoopStopsStep ==
  ASSUME IInv, LoopStops
  PROVE  IInv'
<1>0. /\ pc[Loop] \in {"snap", "try", "next", "up"}
      /\ pc' = [pc EXCEPT ![Loop] = "idle"]
      /\ verb' = [verb EXCEPT ![Loop] = "none"]
      /\ url' = [url EXCEPT ![Loop] = None]
      /\ got' = [got EXCEPT ![Loop] = None]
      /\ cur' = None /\ cands' = {} /\ lsel' = None /\ cancelled' = FALSE
      /\ UNCHANGED <<up, cfg, cache, host, connectMu, owner, hsel, arg, todo, all>>
  BY Zenon DEF LoopStops, Leave, Goto, localVars, selVars
<1>a. None \in Answers
  BY Zenon DEF Answers
<1>1. \A x \in Callers : verb'[x] = verb[x]
  BY <1>0, Distinct, Zenon DEF IInv, ListTypes, VerbAt
<1>2. /\ Places' /\ VerbAt' /\ Mutex' /\ Args' /\ pc'[Loop] = "idle"
      /\ pc' \in [Threads -> Pcs]
  BY <1>0, <1>1, LoopMoves, Zenon DEF LoopPcs, Reading
<1>3. Loops'
  BY <1>0, <1>2, NoneAssumption, Zenon DEF IInv, Loops, LoopLive, SelTypes
<1>4. TriesItsList'
  BY <1>0, <1>2, Zenon DEF IInv, Loops, LoopLive, TriesItsList
<1>5. \A x \in Threads \ {Loop} : pc'[x] = pc[x] /\ verb'[x] = verb[x] /\ url'[x] = url[x] /\ got'[x] = got[x]
  BY <1>0, Zenon DEF IInv, ListTypes
<1>6. FetchFits(Loop)'
  BY <1>0, Distinct, Zenon DEF IInv, ListTypes, SelTypes, Fetches, FetchFits
<1>7. Fetches'
  BY <1>5, <1>6, <1>0, Distinct, FetchesKept, Zenon
<1>8. verb' \in [Threads -> VerbSet]
  BY <1>0, Zenon DEF IInv, ListTypes, VerbSet
<1>9. url' \in [Threads -> Urls \cup {None}]
  BY <1>0, Zenon DEF IInv, ListTypes
<1>10. got' \in [Threads -> Answers]
  BY <1>0, <1>a, Zenon DEF IInv, ListTypes
<1>11. ListTypes'
  BY <1>0, <1>2, <1>8, <1>9, <1>10, Zenon DEF IInv, ListTypes
<1>12. SelTypes'
  BY <1>0, Zenon DEF IInv, SelTypes
<1>13. NoDuplicates'
  BY <1>0, Zenon DEF IInv, NoDuplicates
<1> QED
  BY <1>2, <1>3, <1>4, <1>7, <1>11, <1>12, <1>13, Zenon DEF IInv

\* The fetch of a loop that is cancelled fails.
LEMMA LoopFetchStopsStep ==
  ASSUME IInv, LoopFetchStops
  PROVE  IInv'
<1>0. /\ pc[Loop] = "fetch"
      /\ pc' = [pc EXCEPT ![Loop] = "missed"]
      /\ UNCHANGED <<up, cfg, cache, host, verb, url, got, connectMu, cur, lsel, cands, cancelled, owner, hsel, arg, todo, all>>
  BY Zenon DEF LoopFetchStops, Goto, localVars, selVars
<1>a. verb[Loop] = "none"
  BY Zenon DEF IInv, VerbAt
<1>1. /\ Places' /\ VerbAt' /\ Mutex' /\ Args' /\ Loops' /\ TriesItsList'
      /\ pc' \in [Threads -> Pcs]
  BY <1>0, <1>a, Distinct, ReadingMoves, Zenon DEF Reading
<1>2. \A x \in Threads \ {Loop} : pc'[x] = pc[x] /\ verb'[x] = verb[x] /\ url'[x] = url[x] /\ got'[x] = got[x]
  BY <1>0, Zenon DEF IInv, ListTypes
<1>3. FetchFits(Loop)'
  BY <1>0, <1>a, Distinct, Zenon DEF IInv, ListTypes, SelTypes, Fetches, FetchFits
<1>4. Fetches'
  BY <1>2, <1>3, <1>0, Distinct, FetchesKept, Zenon
<1>5. ListTypes'
  BY <1>0, <1>1, Zenon DEF IInv, ListTypes
<1>6. SelTypes' /\ NoDuplicates'
  BY <1>0, Zenon DEF IInv, SelTypes, NoDuplicates
<1> QED
  BY <1>1, <1>4, <1>5, <1>6, Zenon DEF IInv

\* No list could be read: the loop begins a new round.
LEMMA LoopRetriesStep ==
  ASSUME IInv, LoopRetries
  PROVE  IInv'
<1>0. /\ pc[Loop] = "loaded"
      /\ pc' = [pc EXCEPT ![Loop] = "snap"]
      /\ all' = [all EXCEPT ![Loop] = <<>>]
      /\ UNCHANGED <<up, cfg, cache, host, verb, url, got, connectMu, cur, lsel, cands, cancelled, owner, hsel, arg, todo>>
  BY Zenon DEF LoopRetries, Loaded, Drained, Goto, localVars, selVars
<1>a. verb[Loop] = "none"
  BY Zenon DEF IInv, VerbAt
<1>b. <<>> \in Seq(Line)
  OBVIOUS
<1>1. /\ Places' /\ VerbAt' /\ Mutex' /\ Args' /\ Loops' /\ TriesItsList'
      /\ pc' \in [Threads -> Pcs]
  BY <1>0, <1>a, Distinct, ReadingMoves, Zenon DEF Reading
<1>2. \A x \in Threads \ {Loop} : pc'[x] = pc[x] /\ verb'[x] = verb[x] /\ url'[x] = url[x] /\ got'[x] = got[x]
  BY <1>0, Zenon DEF IInv, ListTypes
<1>3. FetchFits(Loop)'
  BY <1>0, <1>a, Distinct, Zenon DEF IInv, ListTypes, SelTypes, Fetches, FetchFits
<1>4. Fetches'
  BY <1>2, <1>3, <1>0, Distinct, FetchesKept, Zenon
<1>5. ListTypes'
  BY <1>0, <1>1, Zenon DEF IInv, ListTypes
<1>6. SelTypes'
  BY <1>0, <1>b, Distinct, Zenon DEF IInv, SelTypes
<1>7. NoDuplicates'
  BY <1>0, Zenon DEF IInv, NoDuplicates
<1> QED
  BY <1>1, <1>4, <1>5, <1>6, <1>7, Zenon DEF IInv

\* The loop ends: nothing matches, or nothing that can be connected.
LEMMA LoopEndsStep ==
  ASSUME IInv, LoopEnds
  PROVE  IInv'
<1>0. /\ pc[Loop] \in {"loaded", "try"}
      /\ pc' = [pc EXCEPT ![Loop] = "idle"]
      /\ verb' = [verb EXCEPT ![Loop] = "none"]
      /\ url' = [url EXCEPT ![Loop] = None]
      /\ got' = [got EXCEPT ![Loop] = None]
      /\ all' = [all EXCEPT ![Loop] = <<>>]
      /\ lsel' = None /\ cancelled' = FALSE
      /\ UNCHANGED <<up, cfg, cache, host, connectMu, cur, cands, owner, hsel, arg, todo>>
  BY Zenon DEF LoopEnds, Loaded, Drained, Leave, Goto, localVars, selVars
<1>a. None \in Answers
  BY Zenon DEF Answers
<1>b. <<>> \in Seq(Line)
  OBVIOUS
<1>1. \A x \in Callers : verb'[x] = verb[x]
  BY <1>0, Distinct, Zenon DEF IInv, ListTypes, VerbAt
<1>2. /\ Places' /\ VerbAt' /\ Mutex' /\ Args' /\ pc'[Loop] = "idle"
      /\ pc' \in [Threads -> Pcs]
  BY <1>0, <1>1, LoopMoves, Zenon DEF LoopPcs, Reading
<1>3. Loops'
  BY <1>0, <1>2, NoneAssumption, Zenon DEF IInv, Loops, LoopLive, SelTypes
<1>4. TriesItsList'
  BY <1>0, <1>2, Zenon DEF IInv, Loops, LoopLive, TriesItsList
<1>5. \A x \in Threads \ {Loop} : pc'[x] = pc[x] /\ verb'[x] = verb[x] /\ url'[x] = url[x] /\ got'[x] = got[x]
  BY <1>0, Zenon DEF IInv, ListTypes
<1>6. FetchFits(Loop)'
  BY <1>0, Distinct, Zenon DEF IInv, ListTypes, SelTypes, Fetches, FetchFits
<1>7. Fetches'
  BY <1>5, <1>6, <1>0, Distinct, FetchesKept, Zenon
<1>8. verb' \in [Threads -> VerbSet]
  BY <1>0, Zenon DEF IInv, ListTypes, VerbSet
<1>9. url' \in [Threads -> Urls \cup {None}]
  BY <1>0, Zenon DEF IInv, ListTypes
<1>10. got' \in [Threads -> Answers]
  BY <1>0, <1>a, Zenon DEF IInv, ListTypes
<1>11. ListTypes'
  BY <1>0, <1>2, <1>8, <1>9, <1>10, Zenon DEF IInv, ListTypes
<1>12. SelTypes'
  BY <1>0, <1>b, Distinct, Zenon DEF IInv, SelTypes
<1>13. NoDuplicates'
  BY <1>0, Zenon DEF IInv, NoDuplicates
<1> QED
  BY <1>2, <1>3, <1>4, <1>7, <1>11, <1>12, <1>13, Zenon DEF IInv

\* The loop has its lines, and the selection their list.
LEMMA LoopResolvesStep ==
  ASSUME IInv, Sound(Resolve(all[Loop], lsel), lsel), LoopResolves
  PROVE  IInv'
<1>0. /\ pc[Loop] = "loaded"
      /\ pc' = [pc EXCEPT ![Loop] = "try"]
      /\ all' = [all EXCEPT ![Loop] = <<>>]
      /\ lsel' = Resolve(all[Loop], lsel).sel
      /\ cands' = {e \in Resolve(all[Loop], lsel).lines : e.label \in Usable}
      /\ IF Resolve(all[Loop], lsel).sel # Resolve(all[Loop], lsel).was THEN Remembered(Resolve(all[Loop], lsel).sel) ELSE UNCHANGED <<cfg, hsel>>
      /\ UNCHANGED <<up, cache, host, verb, url, got, connectMu, cur, cancelled, owner, arg, todo>>
  BY Zenon DEF LoopResolves, Loaded, Drained, Goto, localVars, selVars
<1>a. <<>> \in Seq(Line)
  OBVIOUS
<1>b. cur = None
  BY <1>0, Zenon DEF IInv, Loops
<1>c. /\ lsel' \in Selections /\ lsel' # None /\ cands' \subseteq Line
      /\ Bound(lsel') => \A e \in cands' : e.sub = lsel'.sub
  BY <1>0, NoneAssumption, Zenon DEF Sound
<1>d. cfg' \in [subs : Seq(Urls), sel : Selections \cup {None}] /\ cfg'.subs = cfg.subs
  BY <1>0, <1>c, Zenon DEF Remembered, IInv, ListTypes
<1>e. hsel' \in [Handlers -> Selections \cup {None}] /\ \A h \in Handlers : hsel[h] # None => hsel'[h] # None
  BY <1>0, <1>c, Zenon DEF Remembered, IInv, SelTypes
<1>1. /\ Places' /\ VerbAt' /\ Mutex' /\ Args' /\ pc'[Loop] = "try"
      /\ pc' \in [Threads -> Pcs]
  BY <1>0, <1>e, LoopMoves, Zenon DEF LoopPcs, Reading
<1>2. Loops'
  BY <1>0, <1>b, <1>c, <1>1, NoneAssumption, Zenon DEF IInv, Loops, LoopLive, SelTypes
<1>3. TriesItsList'
  BY <1>0, <1>b, <1>c, <1>1, Zenon DEF IInv, Loops, LoopLive, TriesItsList
<1>4. \A x \in Threads \ {Loop} : pc'[x] = pc[x] /\ verb'[x] = verb[x] /\ url'[x] = url[x] /\ got'[x] = got[x]
  BY <1>0, Zenon DEF IInv, ListTypes
<1>5. FetchFits(Loop)'
  BY <1>0, Distinct, Zenon DEF IInv, ListTypes, SelTypes, Fetches, FetchFits
<1>6. Fetches'
  BY <1>4, <1>5, <1>0, Distinct, FetchesKept, Zenon
<1>7. cfg' \in [subs : Seq(Urls), sel : Selections \cup {None}]
  BY <1>0, <1>d, Zenon DEF IInv, ListTypes, SelTypes
<1>8. ListTypes'
  BY <1>0, <1>1, <1>7, Zenon DEF IInv, ListTypes
<1>9. SelTypes'
  BY <1>0, <1>a, <1>c, <1>e, Distinct, Zenon DEF IInv, SelTypes
<1>10. NoDuplicates'
  BY <1>0, <1>d, Zenon DEF IInv, ListTypes, NoDuplicates
<1> QED
  BY <1>1, <1>2, <1>3, <1>6, <1>8, <1>9, <1>10, Zenon DEF IInv

\* The loop tries a line.
LEMMA LoopTriesStep ==
  ASSUME IInv, NEW e \in cands, NEW ok \in BOOLEAN, LoopTries(e, ok)
  PROVE  IInv'
<1>0. /\ pc[Loop] \in {"try", "next"}
      /\ pc' = [pc EXCEPT ![Loop] = IF ok THEN "up" ELSE "next"]
      /\ cands' = cands \ {e} /\ cur' = IF ok THEN e ELSE None
      /\ UNCHANGED <<up, cfg, cache, host, verb, url, got, connectMu, lsel, cancelled, owner, hsel, arg, todo, all>>
  BY Zenon DEF LoopTries, Goto, localVars, selVars
<1>a. e \in Line /\ e # None
  BY NoneAssumption, Zenon DEF IInv, SelTypes
<1>1. /\ Places' /\ VerbAt' /\ Mutex' /\ Args' /\ pc'[Loop] = (IF ok THEN "up" ELSE "next")
      /\ pc' \in [Threads -> Pcs]
  BY <1>0, LoopMoves, Zenon DEF LoopPcs, Reading
<1>2. Loops'
  <2>1. LoopLive /\ LoopLive' /\ (cur' # None <=> pc'[Loop] = "up")
    BY <1>0, <1>a, <1>1 DEF LoopLive
  <2> QED
    BY <1>0, <2>1, Zenon DEF IInv, Loops
<1>3. TriesItsList'
  BY <1>0, <1>1, Zenon DEF IInv, Loops, LoopLive, TriesItsList
<1>4. \A x \in Threads \ {Loop} : pc'[x] = pc[x] /\ verb'[x] = verb[x] /\ url'[x] = url[x] /\ got'[x] = got[x]
  BY <1>0, Zenon DEF IInv, ListTypes
<1>5. FetchFits(Loop)'
  BY <1>0, Distinct, Zenon DEF IInv, ListTypes, SelTypes, Fetches, FetchFits
<1>6. Fetches'
  BY <1>4, <1>5, <1>0, Distinct, FetchesKept, Zenon
<1>7. ListTypes'
  BY <1>0, <1>1, Zenon DEF IInv, ListTypes
<1>8. SelTypes'
  BY <1>0, <1>a, Zenon DEF IInv, SelTypes
<1>9. NoDuplicates'
  BY <1>0, Zenon DEF IInv, NoDuplicates
<1> QED
  BY <1>1, <1>2, <1>3, <1>6, <1>7, <1>8, <1>9, Zenon DEF IInv

\* The line that is up ends.
LEMMA LineEndsStep ==
  ASSUME IInv, LineEnds
  PROVE  IInv'
<1>0. /\ pc[Loop] = "up"
      /\ pc' = [pc EXCEPT ![Loop] = "next"]
      /\ cur' = None
      /\ UNCHANGED <<up, cfg, cache, host, verb, url, got, connectMu, lsel, cands, cancelled, owner, hsel, arg, todo, all>>
  BY Zenon DEF LineEnds, Goto, localVars, selVars
<1>1. /\ Places' /\ VerbAt' /\ Mutex' /\ Args' /\ pc'[Loop] = "next"
      /\ pc' \in [Threads -> Pcs]
  BY <1>0, LoopMoves, Zenon DEF LoopPcs, Reading
<1>2. Loops'
  BY <1>0, <1>1, NoneAssumption, Zenon DEF IInv, Loops, LoopLive, SelTypes
<1>3. TriesItsList'
  BY <1>0, <1>1, Zenon DEF IInv, Loops, LoopLive, TriesItsList
<1>4. \A x \in Threads \ {Loop} : pc'[x] = pc[x] /\ verb'[x] = verb[x] /\ url'[x] = url[x] /\ got'[x] = got[x]
  BY <1>0, Zenon DEF IInv, ListTypes
<1>5. FetchFits(Loop)'
  BY <1>0, Distinct, Zenon DEF IInv, ListTypes, SelTypes, Fetches, FetchFits
<1>6. Fetches'
  BY <1>4, <1>5, <1>0, Distinct, FetchesKept, Zenon
<1>7. ListTypes'
  BY <1>0, <1>1, Zenon DEF IInv, ListTypes
<1>8. SelTypes'
  BY <1>0, Zenon DEF IInv, SelTypes
<1>9. NoDuplicates'
  BY <1>0, Zenon DEF IInv, NoDuplicates
<1> QED
  BY <1>1, <1>2, <1>3, <1>6, <1>7, <1>8, <1>9, Zenon DEF IInv

\* The next round begins.
LEMMA RoundEndsStep ==
  ASSUME IInv, RoundEnds
  PROVE  IInv'
<1>0. /\ pc[Loop] = "next"
      /\ pc' = [pc EXCEPT ![Loop] = "snap"]
      /\ UNCHANGED <<up, cfg, cache, host, verb, url, got, connectMu, cur, lsel, cands, cancelled, owner, hsel, arg, todo, all>>
  BY Zenon DEF RoundEnds, Goto, localVars, selVars
<1>1. /\ Places' /\ VerbAt' /\ Mutex' /\ Args' /\ pc'[Loop] = "snap"
      /\ pc' \in [Threads -> Pcs]
  BY <1>0, LoopMoves, Zenon DEF LoopPcs, Reading
<1>2. Loops'
  BY <1>0, <1>1, NoneAssumption, Zenon DEF IInv, Loops, LoopLive, SelTypes
<1>3. TriesItsList'
  BY <1>0, <1>1, Zenon DEF IInv, Loops, LoopLive, TriesItsList
<1>4. \A x \in Threads \ {Loop} : pc'[x] = pc[x] /\ verb'[x] = verb[x] /\ url'[x] = url[x] /\ got'[x] = got[x]
  BY <1>0, Zenon DEF IInv, ListTypes
<1>5. FetchFits(Loop)'
  BY <1>0, Distinct, Zenon DEF IInv, ListTypes, SelTypes, Fetches, FetchFits
<1>6. Fetches'
  BY <1>4, <1>5, <1>0, Distinct, FetchesKept, Zenon
<1>7. ListTypes'
  BY <1>0, <1>1, Zenon DEF IInv, ListTypes
<1>8. SelTypes' /\ NoDuplicates'
  BY <1>0, Zenon DEF IInv, SelTypes, NoDuplicates
<1> QED
  BY <1>1, <1>2, <1>3, <1>6, <1>7, <1>8, Zenon DEF IInv

\* A selector that matches nothing is refused.
LEMMA ConnectFailsStep ==
  ASSUME IInv, NEW h \in Handlers, ConnectFails(h)
  PROVE  IInv'
<1>0. /\ pc[h] = "loaded" /\ verb[h] = "connect"
      /\ pc' = [pc EXCEPT ![h] = "idle"]
      /\ verb' = [verb EXCEPT ![h] = "none"]
      /\ url' = [url EXCEPT ![h] = None]
      /\ got' = [got EXCEPT ![h] = None]
      /\ all' = [all EXCEPT ![h] = <<>>]
      /\ arg' = [arg EXCEPT ![h] = None]
      /\ UNCHANGED <<up, cfg, cache, host, connectMu, cur, lsel, cands, cancelled, owner, hsel, todo>>
  BY Zenon DEF ConnectFails, Loaded, Drained, Leave, Goto, localVars, selVars
<1>a. None \in Answers
  BY Zenon DEF Answers
<1>b. <<>> \in Seq(Line)
  OBVIOUS
<1>1. /\ h \in Who /\ h \in Threads /\ "idle" \in HandlerPcs /\ "none" \in VerbSet /\ up'
      /\ h = Tick => "idle" \in TickPcs /\ "none" = "none"
  BY <1>0, Distinct, Zenon DEF IInv, ListTypes, Places, VerbAt, HandlerPcs, TickPcs, VerbSet, Reading, Starting
<1>2. h # Tick => VerbFits("idle", "none")
  BY Zenon DEF VerbFits, Reading, Starting
<1>3. connectMu' = h <=> Inside("idle", "none")
  BY <1>0, <1>1, Distinct, Zenon DEF IInv, Mutex, Inside, Reading, Starting
<1>4. (NeedsArg("idle", "none") => arg'[h] # None) /\ (NeedsOwn("idle") => hsel'[h] # None)
  BY <1>0, <1>1, Distinct, NoneAssumption, Zenon DEF IInv, SelTypes, Args, NeedsArg, NeedsOwn, Reading, Starting
<1>5. /\ \A x \in Who \ {h} : (connectMu' = x <=> connectMu = x) /\ arg'[x] = arg[x]
      /\ \A x \in Handlers \ {h} : hsel'[x] = hsel[x]
  BY <1>0, Distinct, Zenon DEF IInv, SelTypes
<1>6. pc' = [pc EXCEPT ![h] = "idle"] /\ verb' = [verb EXCEPT ![h] = "none"] /\ ("idle" = "stopped" => pc[Loop] = "idle")
  BY <1>0, <1>1, Zenon DEF IInv, ListTypes
<1>7. /\ Places' /\ VerbAt' /\ Mutex' /\ Args' /\ pc'[Loop] = pc[Loop]
      /\ pc' \in [Threads -> Pcs] /\ verb' \in [Threads -> VerbSet]
  BY ONLY IInv, <1>1, <1>2, <1>3, <1>4, <1>5, <1>6, Moves, Zenon
<1>8. Loops' /\ TriesItsList'
  BY <1>0, <1>7, LoopKept, Zenon DEF LoopLive
<1>9. \A x \in Threads \ {h} : pc'[x] = pc[x] /\ verb'[x] = verb[x] /\ url'[x] = url[x] /\ got'[x] = got[x]
  BY <1>0, Zenon DEF IInv, ListTypes
<1>10. FetchFits(h)'
  BY <1>0, Distinct, Zenon DEF IInv, ListTypes, SelTypes, Fetches, FetchFits
<1>11. Fetches'
  BY <1>9, <1>10, <1>0, Distinct, FetchesKept, Zenon
<1>12. url' \in [Threads -> Urls \cup {None}]
  BY <1>0, Zenon DEF IInv, ListTypes
<1>13. got' \in [Threads -> Answers]
  BY <1>0, <1>a, Zenon DEF IInv, ListTypes
<1>14. ListTypes'
  BY <1>0, <1>7, <1>12, <1>13, Zenon DEF IInv, ListTypes
<1>15. SelTypes'
  BY <1>0, <1>b, Distinct, Zenon DEF IInv, SelTypes
<1>16. NoDuplicates'
  BY <1>0, Zenon DEF IInv, NoDuplicates
<1> QED
  BY <1>7, <1>8, <1>11, <1>14, <1>15, <1>16, Zenon DEF IInv

\* A selection is stored.
LEMMA StoreStep ==
  ASSUME IInv, NEW h \in Handlers, Store(h)
  PROVE  IInv'
<1>0. /\ pc[h] = "loaded" /\ verb[h] = "connect"
      /\ pc' = [pc EXCEPT ![h] = "copy"]
      /\ all' = [all EXCEPT ![h] = <<>>]
      /\ cfg' = [cfg EXCEPT !.sel = arg[h]]
      /\ hsel' = [hsel EXCEPT ![h] = arg[h]]
      /\ owner' = h
      /\ UNCHANGED <<up, cache, host, verb, url, got, connectMu, cur, lsel, cands, cancelled, arg, todo>>
  BY Zenon DEF Store, Loaded, Drained, Goto, localVars, selVars
<1>a. <<>> \in Seq(Line)
  OBVIOUS
<1>b. arg[h] \in Selections
  BY <1>0, Distinct, Zenon DEF IInv, SelTypes, Args, NeedsArg, Reading
<1>1. /\ h \in Who /\ h \in Threads /\ "copy" \in HandlerPcs /\ verb[h] \in VerbSet /\ up'
      /\ h = Tick => "copy" \in TickPcs /\ verb[h] = "none"
  BY <1>0, Distinct, Zenon DEF IInv, ListTypes, Places, VerbAt, HandlerPcs, TickPcs, VerbSet, Reading, Starting
<1>2. h # Tick => VerbFits("copy", verb[h])
  BY <1>0, Zenon DEF VerbFits, Reading, Starting
<1>3. connectMu' = h <=> Inside("copy", verb[h])
  BY <1>0, <1>1, Distinct, Zenon DEF IInv, Mutex, Inside, Reading, Starting
<1>4. (NeedsArg("copy", verb[h]) => arg'[h] # None) /\ (NeedsOwn("copy") => hsel'[h] # None)
  BY <1>0, <1>b, <1>1, Distinct, NoneAssumption, Zenon DEF IInv, SelTypes, Args, NeedsArg, NeedsOwn, Reading, Starting
<1>5. /\ \A x \in Who \ {h} : (connectMu' = x <=> connectMu = x) /\ arg'[x] = arg[x]
      /\ \A x \in Handlers \ {h} : hsel'[x] = hsel[x]
  BY <1>0, Distinct, Zenon DEF IInv, SelTypes
<1>6. pc' = [pc EXCEPT ![h] = "copy"] /\ verb' = [verb EXCEPT ![h] = verb[h]] /\ ("copy" = "stopped" => pc[Loop] = "idle")
  BY <1>0, <1>1, Zenon DEF IInv, ListTypes
<1>7. /\ Places' /\ VerbAt' /\ Mutex' /\ Args' /\ pc'[Loop] = pc[Loop]
      /\ pc' \in [Threads -> Pcs] /\ verb' \in [Threads -> VerbSet]
  BY ONLY IInv, <1>1, <1>2, <1>3, <1>4, <1>5, <1>6, Moves, Zenon
<1>8. Loops' /\ TriesItsList'
  BY <1>0, <1>7, LoopKept, Zenon DEF LoopLive
<1>9. \A x \in Threads \ {h} : pc'[x] = pc[x] /\ verb'[x] = verb[x] /\ url'[x] = url[x] /\ got'[x] = got[x]
  BY <1>0, Zenon DEF IInv, ListTypes
<1>10. FetchFits(h)'
  BY <1>0, Distinct, Zenon DEF IInv, ListTypes, SelTypes, Fetches, FetchFits
<1>11. Fetches'
  BY <1>9, <1>10, <1>0, Distinct, FetchesKept, Zenon
<1>12. cfg' \in [subs : Seq(Urls), sel : Selections \cup {None}]
  BY <1>0, <1>b, Zenon DEF IInv, ListTypes, SelTypes
<1>13. ListTypes'
  BY <1>0, <1>7, <1>12, Zenon DEF IInv, ListTypes
<1>14. SelTypes'
  BY <1>0, <1>a, <1>b, Distinct, Zenon DEF IInv, SelTypes
<1>15. NoDuplicates'
  BY <1>0, Zenon DEF IInv, ListTypes, NoDuplicates
<1> QED
  BY <1>7, <1>8, <1>11, <1>13, <1>14, <1>15, Zenon DEF IInv

\* One field of the selection is copied.
LEMMA CopyFirstStep ==
  ASSUME IInv, NEW h \in Handlers, NEW f \in {"id", "sub"}, pc[h] = "copy", Copy(h, f)
  PROVE  IInv'
<1>0. /\ pc[h] = "copy"
      /\ pc' = [pc EXCEPT ![h] = IF f = "id" THEN "sub" ELSE "id"]
      /\ arg' = [arg EXCEPT ![h] = [arg[h] EXCEPT ![f] = hsel[h][f]]]
      /\ UNCHANGED <<up, cfg, cache, host, verb, url, got, connectMu, cur, lsel, cands, cancelled, owner, hsel, todo, all>>
  BY Zenon DEF Copy, Goto, localVars, selVars
<1>a. verb[h] = "connect"
  BY <1>0, Distinct, Zenon DEF IInv, VerbAt, VerbFits
<1>b. [arg[h] EXCEPT ![f] = hsel[h][f]] \in Selections
  <2>1. arg[h] \in Selections /\ hsel[h] \in Selections
    BY <1>0, Distinct, Zenon DEF IInv, SelTypes, Args, NeedsArg, NeedsOwn
  <2>2. CASE f = "id"
    BY ONLY <2>1, <2>2, Zenon DEF Selections
  <2>3. CASE f = "sub"
    BY ONLY <2>1, <2>3, Zenon DEF Selections
  <2> QED
    BY <2>2, <2>3, Zenon
<1>1. /\ h \in Who /\ h \in Threads /\ (IF f = "id" THEN "sub" ELSE "id") \in HandlerPcs /\ verb[h] \in VerbSet /\ up'
      /\ h = Tick => (IF f = "id" THEN "sub" ELSE "id") \in TickPcs /\ verb[h] = "none"
  BY <1>0, Distinct, Zenon DEF IInv, ListTypes, Places, VerbAt, HandlerPcs, TickPcs, VerbSet, Reading, Starting
<1>2. h # Tick => VerbFits((IF f = "id" THEN "sub" ELSE "id"), verb[h])
  BY <1>0, <1>a, Zenon DEF VerbFits, Reading, Starting
<1>3. connectMu' = h <=> Inside((IF f = "id" THEN "sub" ELSE "id"), verb[h])
  BY <1>0, <1>1, Distinct, Zenon DEF IInv, Mutex, Inside, Reading, Starting
<1>4. (NeedsArg((IF f = "id" THEN "sub" ELSE "id"), verb[h]) => arg'[h] # None) /\ (NeedsOwn((IF f = "id" THEN "sub" ELSE "id")) => hsel'[h] # None)
  BY <1>0, <1>b, <1>1, Distinct, NoneAssumption, Zenon DEF IInv, SelTypes, Args, NeedsArg, NeedsOwn, Reading, Starting
<1>5. /\ \A x \in Who \ {h} : (connectMu' = x <=> connectMu = x) /\ arg'[x] = arg[x]
      /\ \A x \in Handlers \ {h} : hsel'[x] = hsel[x]
  BY <1>0, Distinct, Zenon DEF IInv, SelTypes
<1>6. pc' = [pc EXCEPT ![h] = (IF f = "id" THEN "sub" ELSE "id")] /\ verb' = [verb EXCEPT ![h] = verb[h]] /\ ((IF f = "id" THEN "sub" ELSE "id") = "stopped" => pc[Loop] = "idle")
  BY <1>0, <1>1, Zenon DEF IInv, ListTypes
<1>7. /\ Places' /\ VerbAt' /\ Mutex' /\ Args' /\ pc'[Loop] = pc[Loop]
      /\ pc' \in [Threads -> Pcs] /\ verb' \in [Threads -> VerbSet]
  BY ONLY IInv, <1>1, <1>2, <1>3, <1>4, <1>5, <1>6, Moves, Zenon
<1>8. Loops' /\ TriesItsList'
  BY <1>0, <1>7, LoopKept, Zenon DEF LoopLive
<1>9. \A x \in Threads \ {h} : pc'[x] = pc[x] /\ verb'[x] = verb[x] /\ url'[x] = url[x] /\ got'[x] = got[x]
  BY <1>0, Zenon DEF IInv, ListTypes
<1>10. FetchFits(h)'
  BY <1>0, Distinct, Zenon DEF IInv, ListTypes, SelTypes, Fetches, FetchFits
<1>11. Fetches'
  BY <1>9, <1>10, <1>0, Distinct, FetchesKept, Zenon
<1>12. ListTypes'
  BY <1>0, <1>7, Zenon DEF IInv, ListTypes
<1>13. SelTypes'
  BY <1>0, <1>b, Distinct, Zenon DEF IInv, SelTypes
<1>14. NoDuplicates'
  BY <1>0, Zenon DEF IInv, NoDuplicates
<1> QED
  BY <1>7, <1>8, <1>11, <1>12, <1>13, <1>14, Zenon DEF IInv

\* The other field is copied.
LEMMA CopySecondStep ==
  ASSUME IInv, NEW h \in Handlers, NEW f \in {"id", "sub"}, pc[h] = f, Copy(h, f)
  PROVE  IInv'
<1>0. /\ pc[h] \in {"id", "sub"}
      /\ pc' = [pc EXCEPT ![h] = "lock"]
      /\ arg' = [arg EXCEPT ![h] = [arg[h] EXCEPT ![f] = hsel[h][f]]]
      /\ hsel' = [hsel EXCEPT ![h] = None]
      /\ owner' = IF owner = h THEN None ELSE owner
      /\ UNCHANGED <<up, cfg, cache, host, verb, url, got, connectMu, cur, lsel, cands, cancelled, todo, all>>
  BY Zenon DEF Copy, Goto, localVars, selVars
<1>a. verb[h] = "connect"
  BY <1>0, Distinct, Zenon DEF IInv, VerbAt, VerbFits
<1>b. [arg[h] EXCEPT ![f] = hsel[h][f]] \in Selections
  <2>1. arg[h] \in Selections /\ hsel[h] \in Selections
    BY <1>0, Distinct, Zenon DEF IInv, SelTypes, Args, NeedsArg, NeedsOwn
  <2>2. CASE f = "id"
    BY ONLY <2>1, <2>2, Zenon DEF Selections
  <2>3. CASE f = "sub"
    BY ONLY <2>1, <2>3, Zenon DEF Selections
  <2> QED
    BY <2>2, <2>3, Zenon
<1>1. /\ h \in Who /\ h \in Threads /\ "lock" \in HandlerPcs /\ verb[h] \in VerbSet /\ up'
      /\ h = Tick => "lock" \in TickPcs /\ verb[h] = "none"
  BY <1>0, Distinct, Zenon DEF IInv, ListTypes, Places, VerbAt, HandlerPcs, TickPcs, VerbSet, Reading, Starting
<1>2. h # Tick => VerbFits("lock", verb[h])
  BY <1>0, <1>a, Zenon DEF VerbFits, Reading, Starting
<1>3. connectMu' = h <=> Inside("lock", verb[h])
  BY <1>0, <1>1, Distinct, Zenon DEF IInv, Mutex, Inside, Reading, Starting
<1>4. (NeedsArg("lock", verb[h]) => arg'[h] # None) /\ (NeedsOwn("lock") => hsel'[h] # None)
  BY <1>0, <1>b, <1>1, Distinct, NoneAssumption, Zenon DEF IInv, SelTypes, Args, NeedsArg, NeedsOwn, Reading, Starting
<1>5. /\ \A x \in Who \ {h} : (connectMu' = x <=> connectMu = x) /\ arg'[x] = arg[x]
      /\ \A x \in Handlers \ {h} : hsel'[x] = hsel[x]
  BY <1>0, Distinct, Zenon DEF IInv, SelTypes
<1>6. pc' = [pc EXCEPT ![h] = "lock"] /\ verb' = [verb EXCEPT ![h] = verb[h]] /\ ("lock" = "stopped" => pc[Loop] = "idle")
  BY <1>0, <1>1, Zenon DEF IInv, ListTypes
<1>7. /\ Places' /\ VerbAt' /\ Mutex' /\ Args' /\ pc'[Loop] = pc[Loop]
      /\ pc' \in [Threads -> Pcs] /\ verb' \in [Threads -> VerbSet]
  BY ONLY IInv, <1>1, <1>2, <1>3, <1>4, <1>5, <1>6, Moves, Zenon
<1>8. Loops' /\ TriesItsList'
  BY <1>0, <1>7, LoopKept, Zenon DEF LoopLive
<1>9. \A x \in Threads \ {h} : pc'[x] = pc[x] /\ verb'[x] = verb[x] /\ url'[x] = url[x] /\ got'[x] = got[x]
  BY <1>0, Zenon DEF IInv, ListTypes
<1>10. FetchFits(h)'
  BY <1>0, Distinct, Zenon DEF IInv, ListTypes, SelTypes, Fetches, FetchFits
<1>11. Fetches'
  BY <1>9, <1>10, <1>0, Distinct, FetchesKept, Zenon
<1>12. ListTypes'
  BY <1>0, <1>7, Zenon DEF IInv, ListTypes
<1>13. SelTypes'
  BY <1>0, <1>b, Distinct, Zenon DEF IInv, SelTypes
<1>14. NoDuplicates'
  BY <1>0, Zenon DEF IInv, NoDuplicates
<1> QED
  BY <1>7, <1>8, <1>11, <1>12, <1>13, <1>14, Zenon DEF IInv

\* A start or a stop takes connectMu and cancels the loop.
LEMMA LockStep ==
  ASSUME IInv, NEW h \in Handlers, Lock(h)
  PROVE  IInv'
<1>0. /\ pc[h] \in {"lock", "stop"} /\ connectMu = Free
      /\ pc' = [pc EXCEPT ![h] = "stopping"]
      /\ connectMu' = h /\ cancelled' = LoopLive
      /\ UNCHANGED <<up, cfg, cache, host, verb, url, got, cur, lsel, cands, owner, hsel, arg, todo, all>>
  BY Zenon DEF Lock, Goto, localVars, selVars
<1>a. IF pc[h] = "lock" THEN verb[h] = "connect" ELSE verb[h] = "remove"
  BY <1>0, Zenon DEF IInv, VerbAt, VerbFits
<1>1. /\ h \in Who /\ h \in Threads /\ "stopping" \in HandlerPcs /\ verb[h] \in VerbSet /\ up'
      /\ h = Tick => "stopping" \in TickPcs /\ verb[h] = "none"
  BY <1>0, Distinct, Zenon DEF IInv, ListTypes, Places, VerbAt, HandlerPcs, TickPcs, VerbSet, Reading, Starting
<1>2. h # Tick => VerbFits("stopping", verb[h])
  BY <1>0, <1>a, Zenon DEF VerbFits, Reading, Starting
<1>3. connectMu' = h <=> Inside("stopping", verb[h])
  BY <1>0, <1>1, Distinct, Zenon DEF IInv, Mutex, Inside, Reading, Starting
<1>4. (NeedsArg("stopping", verb[h]) => arg'[h] # None) /\ (NeedsOwn("stopping") => hsel'[h] # None)
  BY <1>0, <1>a, <1>1, Distinct, NoneAssumption, Zenon DEF IInv, SelTypes, Args, NeedsArg, NeedsOwn, Reading, Starting
<1>5. /\ \A x \in Who \ {h} : (connectMu' = x <=> connectMu = x) /\ arg'[x] = arg[x]
      /\ \A x \in Handlers \ {h} : hsel'[x] = hsel[x]
  BY <1>0, Distinct, Zenon DEF IInv, SelTypes
<1>6. pc' = [pc EXCEPT ![h] = "stopping"] /\ verb' = [verb EXCEPT ![h] = verb[h]] /\ ("stopping" = "stopped" => pc[Loop] = "idle")
  BY <1>0, <1>1, Zenon DEF IInv, ListTypes
<1>7. /\ Places' /\ VerbAt' /\ Mutex' /\ Args' /\ pc'[Loop] = pc[Loop]
      /\ pc' \in [Threads -> Pcs] /\ verb' \in [Threads -> VerbSet]
  BY ONLY IInv, <1>1, <1>2, <1>3, <1>4, <1>5, <1>6, Moves, Zenon
<1>8. Loops' /\ TriesItsList'
  BY <1>0, <1>7, LoopKept, Zenon DEF LoopLive
<1>9. \A x \in Threads \ {h} : pc'[x] = pc[x] /\ verb'[x] = verb[x] /\ url'[x] = url[x] /\ got'[x] = got[x]
  BY <1>0, Zenon DEF IInv, ListTypes
<1>10. FetchFits(h)'
  BY <1>0, Distinct, Zenon DEF IInv, ListTypes, SelTypes, Fetches, FetchFits
<1>11. Fetches'
  BY <1>9, <1>10, <1>0, Distinct, FetchesKept, Zenon
<1>12. ListTypes'
  BY <1>0, <1>7, Zenon DEF IInv, ListTypes
<1>13. SelTypes'
  BY <1>0, Distinct, Zenon DEF IInv, SelTypes, LoopLive
<1>14. NoDuplicates'
  BY <1>0, Zenon DEF IInv, NoDuplicates
<1> QED
  BY <1>7, <1>8, <1>11, <1>12, <1>13, <1>14, Zenon DEF IInv

\* A stop forgets the selection.
LEMMA ForgetStep ==
  ASSUME IInv, NEW h \in Handlers, Forget(h)
  PROVE  IInv'
<1>0. /\ pc[h] = "stopped"
      /\ pc' = [pc EXCEPT ![h] = "idle"]
      /\ verb' = [verb EXCEPT ![h] = "none"]
      /\ url' = [url EXCEPT ![h] = None]
      /\ got' = [got EXCEPT ![h] = None]
      /\ cfg' = [cfg EXCEPT !.sel = None] /\ owner' = None /\ connectMu' = Free
      /\ UNCHANGED <<up, cache, host, cur, lsel, cands, cancelled, hsel, arg, todo, all>>
  BY Zenon DEF Forget, Leave, Goto, localVars, selVars
<1>a. None \in Answers
  BY Zenon DEF Answers
<1>b. connectMu = h
  BY <1>0, Distinct, Zenon DEF IInv, Mutex, Inside, Starting
<1>1. /\ h \in Who /\ h \in Threads /\ "idle" \in HandlerPcs /\ "none" \in VerbSet /\ up'
      /\ h = Tick => "idle" \in TickPcs /\ "none" = "none"
  BY <1>0, Distinct, Zenon DEF IInv, ListTypes, Places, VerbAt, HandlerPcs, TickPcs, VerbSet, Reading, Starting
<1>2. h # Tick => VerbFits("idle", "none")
  BY Zenon DEF VerbFits, Reading, Starting
<1>3. connectMu' = h <=> Inside("idle", "none")
  BY <1>0, <1>1, Distinct, Zenon DEF IInv, Mutex, Inside, Reading, Starting
<1>4. (NeedsArg("idle", "none") => arg'[h] # None) /\ (NeedsOwn("idle") => hsel'[h] # None)
  BY <1>0, <1>1, Distinct, NoneAssumption, Zenon DEF IInv, SelTypes, Args, NeedsArg, NeedsOwn, Reading, Starting
<1>5. /\ \A x \in Who \ {h} : (connectMu' = x <=> connectMu = x) /\ arg'[x] = arg[x]
      /\ \A x \in Handlers \ {h} : hsel'[x] = hsel[x]
  BY <1>0, <1>b, Distinct, Zenon DEF IInv, SelTypes
<1>6. pc' = [pc EXCEPT ![h] = "idle"] /\ verb' = [verb EXCEPT ![h] = "none"] /\ ("idle" = "stopped" => pc[Loop] = "idle")
  BY <1>0, <1>1, Zenon DEF IInv, ListTypes
<1>7. /\ Places' /\ VerbAt' /\ Mutex' /\ Args' /\ pc'[Loop] = pc[Loop]
      /\ pc' \in [Threads -> Pcs] /\ verb' \in [Threads -> VerbSet]
  BY ONLY IInv, <1>1, <1>2, <1>3, <1>4, <1>5, <1>6, Moves, Zenon
<1>8. Loops' /\ TriesItsList'
  BY <1>0, <1>7, LoopKept, Zenon DEF LoopLive
<1>9. \A x \in Threads \ {h} : pc'[x] = pc[x] /\ verb'[x] = verb[x] /\ url'[x] = url[x] /\ got'[x] = got[x]
  BY <1>0, Zenon DEF IInv, ListTypes
<1>10. FetchFits(h)'
  BY <1>0, Distinct, Zenon DEF IInv, ListTypes, SelTypes, Fetches, FetchFits
<1>11. Fetches'
  BY <1>9, <1>10, <1>0, Distinct, FetchesKept, Zenon
<1>12. url' \in [Threads -> Urls \cup {None}]
  BY <1>0, Zenon DEF IInv, ListTypes
<1>13. got' \in [Threads -> Answers]
  BY <1>0, <1>a, Zenon DEF IInv, ListTypes
<1>14. cfg' \in [subs : Seq(Urls), sel : Selections \cup {None}]
  BY <1>0, Zenon DEF IInv, ListTypes, SelTypes
<1>15. ListTypes'
  BY <1>0, <1>7, <1>12, <1>13, <1>14, Zenon DEF IInv, ListTypes
<1>16. SelTypes'
  BY <1>0, Distinct, Zenon DEF IInv, SelTypes
<1>17. NoDuplicates'
  BY <1>0, Zenon DEF IInv, ListTypes, NoDuplicates
<1> QED
  BY <1>7, <1>8, <1>11, <1>15, <1>16, <1>17, Zenon DEF IInv

\* The loop has ended.
LEMMA StoppedStep ==
  ASSUME IInv, NEW t \in Who, Stopped(t)
  PROVE  IInv'
<1>0. /\ pc[t] = "stopping" /\ pc[Loop] = "idle"
      /\ pc' = [pc EXCEPT ![t] = "stopped"]
      /\ UNCHANGED <<up, cfg, cache, host, verb, url, got, connectMu, cur, lsel, cands, cancelled, owner, hsel, arg, todo, all>>
  BY Zenon DEF Stopped, LoopLive, Goto, localVars, selVars
<1>1. /\ t \in Who /\ t \in Threads /\ "stopped" \in HandlerPcs /\ verb[t] \in VerbSet /\ up'
      /\ t = Tick => "stopped" \in TickPcs /\ verb[t] = "none"
  BY <1>0, Distinct, Zenon DEF IInv, ListTypes, Places, VerbAt, HandlerPcs, TickPcs, VerbSet, Reading, Starting
<1>2. t # Tick => VerbFits("stopped", verb[t])
  BY <1>0, Zenon DEF VerbFits, Reading, Starting
<1>3. connectMu' = t <=> Inside("stopped", verb[t])
  BY <1>0, <1>1, Distinct, Zenon DEF IInv, Mutex, Inside, Reading, Starting
<1>4. (NeedsArg("stopped", verb[t]) => arg'[t] # None) /\ (NeedsOwn("stopped") => hsel'[t] # None)
  BY <1>0, <1>1, Distinct, NoneAssumption, Zenon DEF IInv, SelTypes, Args, NeedsArg, NeedsOwn, Reading, Starting
<1>5. /\ \A x \in Who \ {t} : (connectMu' = x <=> connectMu = x) /\ arg'[x] = arg[x]
      /\ \A x \in Handlers \ {t} : hsel'[x] = hsel[x]
  BY <1>0, Zenon
<1>6. pc' = [pc EXCEPT ![t] = "stopped"] /\ verb' = [verb EXCEPT ![t] = verb[t]] /\ ("stopped" = "stopped" => pc[Loop] = "idle")
  BY <1>0, <1>1, Zenon DEF IInv, ListTypes
<1>7. /\ Places' /\ VerbAt' /\ Mutex' /\ Args' /\ pc'[Loop] = pc[Loop]
      /\ pc' \in [Threads -> Pcs] /\ verb' \in [Threads -> VerbSet]
  BY ONLY IInv, <1>1, <1>2, <1>3, <1>4, <1>5, <1>6, Moves, Zenon
<1>8. Loops' /\ TriesItsList'
  BY <1>0, <1>7, LoopKept, Zenon DEF LoopLive
<1>9. \A x \in Threads \ {t} : pc'[x] = pc[x] /\ verb'[x] = verb[x] /\ url'[x] = url[x] /\ got'[x] = got[x]
  BY <1>0, Zenon DEF IInv, ListTypes
<1>10. FetchFits(t)'
  BY <1>0, Distinct, Zenon DEF IInv, ListTypes, SelTypes, Fetches, FetchFits
<1>11. Fetches'
  BY <1>9, <1>10, <1>0, Distinct, FetchesKept, Zenon
<1>12. ListTypes'
  BY <1>0, <1>7, Zenon DEF IInv, ListTypes
<1>13. SelTypes' /\ NoDuplicates'
  BY <1>0, Zenon DEF IInv, SelTypes, NoDuplicates
<1> QED
  BY <1>7, <1>8, <1>11, <1>12, <1>13, Zenon DEF IInv

\* The fetches of a refresh are over.
LEMMA FetchedStep ==
  ASSUME IInv, NEW p \in Refreshers, Fetched(p, "after"), UNCHANGED selVars
  PROVE  IInv'
<1>0. /\ pc[p] = "wait"
      /\ pc' = [pc EXCEPT ![p] = "after"]
      /\ UNCHANGED <<up, cfg, cache, host, verb, url, got, connectMu, cur, lsel, cands, cancelled, owner, hsel, arg, todo, all>>
  BY Zenon DEF Fetched, Goto, localVars, selVars
<1>a. p \in Who /\ p \in Callers /\ verb[p] = "none"
  BY <1>0, Distinct, Zenon DEF IInv, VerbAt, VerbFits, Who
<1>1. /\ p \in Who /\ p \in Threads /\ "after" \in HandlerPcs /\ verb[p] \in VerbSet /\ up'
      /\ p = Tick => "after" \in TickPcs /\ verb[p] = "none"
  BY <1>0, <1>a, Distinct, Zenon DEF IInv, ListTypes, Places, VerbAt, HandlerPcs, TickPcs, VerbSet, Reading, Starting
<1>2. p # Tick => VerbFits("after", verb[p])
  BY <1>0, <1>a, Zenon DEF VerbFits, Reading, Starting
<1>3. connectMu' = p <=> Inside("after", verb[p])
  BY <1>0, <1>a, <1>1, Distinct, Zenon DEF IInv, Mutex, Inside, Reading, Starting
<1>4. (NeedsArg("after", verb[p]) => arg'[p] # None) /\ (NeedsOwn("after") => hsel'[p] # None)
  BY <1>0, <1>a, <1>1, Distinct, NoneAssumption, Zenon DEF IInv, SelTypes, Args, NeedsArg, NeedsOwn, Reading, Starting
<1>5. /\ \A x \in Who \ {p} : (connectMu' = x <=> connectMu = x) /\ arg'[x] = arg[x]
      /\ \A x \in Handlers \ {p} : hsel'[x] = hsel[x]
  BY <1>0, Zenon
<1>6. pc' = [pc EXCEPT ![p] = "after"] /\ verb' = [verb EXCEPT ![p] = verb[p]] /\ ("after" = "stopped" => pc[Loop] = "idle")
  BY <1>0, <1>1, Zenon DEF IInv, ListTypes
<1>7. /\ Places' /\ VerbAt' /\ Mutex' /\ Args' /\ pc'[Loop] = pc[Loop]
      /\ pc' \in [Threads -> Pcs] /\ verb' \in [Threads -> VerbSet]
  BY ONLY IInv, <1>1, <1>2, <1>3, <1>4, <1>5, <1>6, Moves, Zenon
<1>8. Loops' /\ TriesItsList'
  BY <1>0, <1>7, LoopKept, Zenon DEF LoopLive
<1>9. \A x \in Threads \ {p} : pc'[x] = pc[x] /\ verb'[x] = verb[x] /\ url'[x] = url[x] /\ got'[x] = got[x]
  BY <1>0, Zenon DEF IInv, ListTypes
<1>10. FetchFits(p)'
  BY <1>0, Distinct, Zenon DEF IInv, ListTypes, SelTypes, Fetches, FetchFits
<1>11. Fetches'
  BY <1>9, <1>10, <1>0, Distinct, FetchesKept, Zenon
<1>12. ListTypes'
  BY <1>0, <1>7, Zenon DEF IInv, ListTypes
<1>13. SelTypes' /\ NoDuplicates'
  BY <1>0, Zenon DEF IInv, SelTypes, NoDuplicates
<1> QED
  BY <1>7, <1>8, <1>11, <1>12, <1>13, Zenon DEF IInv

\* A refresh starts a stored selection that no loop runs.
LEMMA AfterRefreshStarts ==
  ASSUME IInv, NEW p \in Refreshers, cfg.sel # None, ~LoopLive, AfterRefresh(p)
  PROVE  IInv'
<1>0. /\ pc[p] = "after" /\ connectMu = Free /\ cfg.sel # None
      /\ pc' = [pc EXCEPT ![p] = "stopping"]
      /\ connectMu' = p
      /\ arg' = [arg EXCEPT ![p] = cfg.sel]
      /\ UNCHANGED <<up, cfg, cache, host, verb, url, got, cur, lsel, cands, cancelled, owner, hsel, todo, all>>
  BY Zenon DEF AfterRefresh, Goto, localVars, selVars
<1>a. p \in Who /\ p \in Callers /\ verb[p] = "none"
  BY <1>0, Distinct, Zenon DEF IInv, VerbAt, VerbFits, Who
<1>b. cfg.sel \in Selections
  BY <1>0, Zenon DEF IInv, ListTypes
<1>1. /\ p \in Who /\ p \in Threads /\ "stopping" \in HandlerPcs /\ verb[p] \in VerbSet /\ up'
      /\ p = Tick => "stopping" \in TickPcs /\ verb[p] = "none"
  BY <1>0, <1>a, Distinct, Zenon DEF IInv, ListTypes, Places, VerbAt, HandlerPcs, TickPcs, VerbSet, Reading, Starting
<1>2. p # Tick => VerbFits("stopping", verb[p])
  BY <1>0, <1>a, Zenon DEF VerbFits, Reading, Starting
<1>3. connectMu' = p <=> Inside("stopping", verb[p])
  BY <1>0, <1>a, <1>1, Distinct, Zenon DEF IInv, Mutex, Inside, Reading, Starting
<1>4. (NeedsArg("stopping", verb[p]) => arg'[p] # None) /\ (NeedsOwn("stopping") => hsel'[p] # None)
  BY <1>0, <1>a, <1>b, <1>1, Distinct, NoneAssumption, Zenon DEF IInv, SelTypes, Args, NeedsArg, NeedsOwn, Reading, Starting
<1>5. /\ \A x \in Who \ {p} : (connectMu' = x <=> connectMu = x) /\ arg'[x] = arg[x]
      /\ \A x \in Handlers \ {p} : hsel'[x] = hsel[x]
  BY <1>0, Distinct, Zenon DEF IInv, SelTypes
<1>6. pc' = [pc EXCEPT ![p] = "stopping"] /\ verb' = [verb EXCEPT ![p] = verb[p]] /\ ("stopping" = "stopped" => pc[Loop] = "idle")
  BY <1>0, <1>1, Zenon DEF IInv, ListTypes
<1>7. /\ Places' /\ VerbAt' /\ Mutex' /\ Args' /\ pc'[Loop] = pc[Loop]
      /\ pc' \in [Threads -> Pcs] /\ verb' \in [Threads -> VerbSet]
  BY ONLY IInv, <1>1, <1>2, <1>3, <1>4, <1>5, <1>6, Moves, Zenon
<1>8. Loops' /\ TriesItsList'
  BY <1>0, <1>7, LoopKept, Zenon DEF LoopLive
<1>9. \A x \in Threads \ {p} : pc'[x] = pc[x] /\ verb'[x] = verb[x] /\ url'[x] = url[x] /\ got'[x] = got[x]
  BY <1>0, Zenon DEF IInv, ListTypes
<1>10. FetchFits(p)'
  BY <1>0, Distinct, Zenon DEF IInv, ListTypes, SelTypes, Fetches, FetchFits
<1>11. Fetches'
  BY <1>9, <1>10, <1>0, Distinct, FetchesKept, Zenon
<1>12. ListTypes'
  BY <1>0, <1>7, Zenon DEF IInv, ListTypes
<1>13. SelTypes'
  BY <1>0, <1>a, <1>b, Distinct, Zenon DEF IInv, SelTypes
<1>14. NoDuplicates'
  BY <1>0, Zenon DEF IInv, NoDuplicates
<1> QED
  BY <1>7, <1>8, <1>11, <1>12, <1>13, <1>14, Zenon DEF IInv

\* A refresh looks up the line that is up.
LEMMA AfterRefreshLooks ==
  ASSUME IInv, NEW p \in Refreshers, cfg.sel # None, LoopLive, cur # None, AfterRefresh(p)
  PROVE  IInv'
<1>0. /\ pc[p] = "after" /\ connectMu = Free /\ cfg.sel # None
      /\ pc' = [pc EXCEPT ![p] = "snap"]
      /\ connectMu' = p
      /\ arg' = [arg EXCEPT ![p] = cfg.sel]
      /\ UNCHANGED <<up, cfg, cache, host, verb, url, got, cur, lsel, cands, cancelled, owner, hsel, todo, all>>
  BY Zenon DEF AfterRefresh, Goto, localVars, selVars
<1>a. p \in Who /\ p \in Callers /\ verb[p] = "none"
  BY <1>0, Distinct, Zenon DEF IInv, VerbAt, VerbFits, Who
<1>b. cfg.sel \in Selections
  BY <1>0, Zenon DEF IInv, ListTypes
<1>1. /\ p \in Who /\ p \in Threads /\ "snap" \in HandlerPcs /\ verb[p] \in VerbSet /\ up'
      /\ p = Tick => "snap" \in TickPcs /\ verb[p] = "none"
  BY <1>0, <1>a, Distinct, Zenon DEF IInv, ListTypes, Places, VerbAt, HandlerPcs, TickPcs, VerbSet, Reading, Starting
<1>2. p # Tick => VerbFits("snap", verb[p])
  BY <1>0, <1>a, Zenon DEF VerbFits, Reading, Starting
<1>3. connectMu' = p <=> Inside("snap", verb[p])
  BY <1>0, <1>a, <1>1, Distinct, Zenon DEF IInv, Mutex, Inside, Reading, Starting
<1>4. (NeedsArg("snap", verb[p]) => arg'[p] # None) /\ (NeedsOwn("snap") => hsel'[p] # None)
  BY <1>0, <1>a, <1>b, <1>1, Distinct, NoneAssumption, Zenon DEF IInv, SelTypes, Args, NeedsArg, NeedsOwn, Reading, Starting
<1>5. /\ \A x \in Who \ {p} : (connectMu' = x <=> connectMu = x) /\ arg'[x] = arg[x]
      /\ \A x \in Handlers \ {p} : hsel'[x] = hsel[x]
  BY <1>0, Distinct, Zenon DEF IInv, SelTypes
<1>6. pc' = [pc EXCEPT ![p] = "snap"] /\ verb' = [verb EXCEPT ![p] = verb[p]] /\ ("snap" = "stopped" => pc[Loop] = "idle")
  BY <1>0, <1>1, Zenon DEF IInv, ListTypes
<1>7. /\ Places' /\ VerbAt' /\ Mutex' /\ Args' /\ pc'[Loop] = pc[Loop]
      /\ pc' \in [Threads -> Pcs] /\ verb' \in [Threads -> VerbSet]
  BY ONLY IInv, <1>1, <1>2, <1>3, <1>4, <1>5, <1>6, Moves, Zenon
<1>8. Loops' /\ TriesItsList'
  BY <1>0, <1>7, LoopKept, Zenon DEF LoopLive
<1>9. \A x \in Threads \ {p} : pc'[x] = pc[x] /\ verb'[x] = verb[x] /\ url'[x] = url[x] /\ got'[x] = got[x]
  BY <1>0, Zenon DEF IInv, ListTypes
<1>10. FetchFits(p)'
  BY <1>0, Distinct, Zenon DEF IInv, ListTypes, SelTypes, Fetches, FetchFits
<1>11. Fetches'
  BY <1>9, <1>10, <1>0, Distinct, FetchesKept, Zenon
<1>12. ListTypes'
  BY <1>0, <1>7, Zenon DEF IInv, ListTypes
<1>13. SelTypes'
  BY <1>0, <1>a, <1>b, Distinct, Zenon DEF IInv, SelTypes
<1>14. NoDuplicates'
  BY <1>0, Zenon DEF IInv, NoDuplicates
<1> QED
  BY <1>7, <1>8, <1>11, <1>12, <1>13, <1>14, Zenon DEF IInv

\* A refresh finds nothing to do.
LEMMA AfterRefreshPasses ==
  ASSUME IInv, NEW p \in Refreshers, ~(cfg.sel # None /\ ~LoopLive), ~(cfg.sel # None /\ LoopLive /\ cur # None), AfterRefresh(p)
  PROVE  IInv'
<1>0. /\ pc[p] = "after" /\ connectMu = Free
      /\ pc' = [pc EXCEPT ![p] = "idle"]
      /\ connectMu' = Free
      /\ arg' = [arg EXCEPT ![p] = None]
      /\ UNCHANGED <<up, cfg, cache, host, verb, url, got, cur, lsel, cands, cancelled, owner, hsel, todo, all>>
  BY Zenon DEF AfterRefresh, Goto, localVars, selVars
<1>a. p \in Who /\ p \in Callers /\ verb[p] = "none"
  BY <1>0, Distinct, Zenon DEF IInv, VerbAt, VerbFits, Who
<1>1. /\ p \in Who /\ p \in Threads /\ "idle" \in HandlerPcs /\ verb[p] \in VerbSet /\ up'
      /\ p = Tick => "idle" \in TickPcs /\ verb[p] = "none"
  BY <1>0, <1>a, Distinct, Zenon DEF IInv, ListTypes, Places, VerbAt, HandlerPcs, TickPcs, VerbSet, Reading, Starting
<1>2. p # Tick => VerbFits("idle", verb[p])
  BY <1>0, <1>a, Zenon DEF VerbFits, Reading, Starting
<1>3. connectMu' = p <=> Inside("idle", verb[p])
  BY <1>0, <1>a, <1>1, Distinct, Zenon DEF IInv, Mutex, Inside, Reading, Starting
<1>4. (NeedsArg("idle", verb[p]) => arg'[p] # None) /\ (NeedsOwn("idle") => hsel'[p] # None)
  BY <1>0, <1>a, <1>1, Distinct, NoneAssumption, Zenon DEF IInv, SelTypes, Args, NeedsArg, NeedsOwn, Reading, Starting
<1>5. /\ \A x \in Who \ {p} : (connectMu' = x <=> connectMu = x) /\ arg'[x] = arg[x]
      /\ \A x \in Handlers \ {p} : hsel'[x] = hsel[x]
  BY <1>0, Distinct, Zenon DEF IInv, SelTypes
<1>6. pc' = [pc EXCEPT ![p] = "idle"] /\ verb' = [verb EXCEPT ![p] = verb[p]] /\ ("idle" = "stopped" => pc[Loop] = "idle")
  BY <1>0, <1>1, Zenon DEF IInv, ListTypes
<1>7. /\ Places' /\ VerbAt' /\ Mutex' /\ Args' /\ pc'[Loop] = pc[Loop]
      /\ pc' \in [Threads -> Pcs] /\ verb' \in [Threads -> VerbSet]
  BY ONLY IInv, <1>1, <1>2, <1>3, <1>4, <1>5, <1>6, Moves, Zenon
<1>8. Loops' /\ TriesItsList'
  BY <1>0, <1>7, LoopKept, Zenon DEF LoopLive
<1>9. \A x \in Threads \ {p} : pc'[x] = pc[x] /\ verb'[x] = verb[x] /\ url'[x] = url[x] /\ got'[x] = got[x]
  BY <1>0, Zenon DEF IInv, ListTypes
<1>10. FetchFits(p)'
  BY <1>0, Distinct, Zenon DEF IInv, ListTypes, SelTypes, Fetches, FetchFits
<1>11. Fetches'
  BY <1>9, <1>10, <1>0, Distinct, FetchesKept, Zenon
<1>12. ListTypes'
  BY <1>0, <1>7, Zenon DEF IInv, ListTypes
<1>13. SelTypes'
  BY <1>0, <1>a, Distinct, Zenon DEF IInv, SelTypes
<1>14. NoDuplicates'
  BY <1>0, Zenon DEF IInv, NoDuplicates
<1> QED
  BY <1>7, <1>8, <1>11, <1>12, <1>13, <1>14, Zenon DEF IInv

\* A line whose text changed is reconnected.
LEMMA CompareReconnects ==
  ASSUME IInv, NEW p \in Refreshers, \E e \in Range(all[p]) : Changed(e), Compare(p)
  PROVE  IInv'
<1>0. /\ pc[p] = "loaded" /\ connectMu = p
      /\ pc' = [pc EXCEPT ![p] = "stopping"]
      /\ all' = [all EXCEPT ![p] = <<>>]
      /\ connectMu' = p /\ cancelled' = (cancelled \/ LoopLive)
      /\ UNCHANGED <<up, cfg, cache, host, verb, url, got, cur, lsel, cands, owner, hsel, arg, todo>>
  BY Zenon DEF Compare, Loaded, Drained, Goto, localVars, selVars
<1>a. p \in Who /\ p \in Callers /\ verb[p] = "none"
  BY <1>0, Distinct, Zenon DEF IInv, Mutex, Inside, Reading, Starting
<1>b. <<>> \in Seq(Line)
  OBVIOUS
<1>1. /\ p \in Who /\ p \in Threads /\ "stopping" \in HandlerPcs /\ verb[p] \in VerbSet /\ up'
      /\ p = Tick => "stopping" \in TickPcs /\ verb[p] = "none"
  BY <1>0, <1>a, Distinct, Zenon DEF IInv, ListTypes, Places, VerbAt, HandlerPcs, TickPcs, VerbSet, Reading, Starting
<1>2. p # Tick => VerbFits("stopping", verb[p])
  BY <1>0, <1>a, Zenon DEF VerbFits, Reading, Starting
<1>3. connectMu' = p <=> Inside("stopping", verb[p])
  BY <1>0, <1>a, <1>1, Distinct, Zenon DEF IInv, Mutex, Inside, Reading, Starting
<1>4. (NeedsArg("stopping", verb[p]) => arg'[p] # None) /\ (NeedsOwn("stopping") => hsel'[p] # None)
  <2>1. NeedsArg(pc[p], verb[p]) /\ ~NeedsOwn("stopping")
    BY <1>0, <1>a DEF NeedsArg, NeedsOwn, Reading
  <2> QED
    BY <1>0, <1>1, <2>1, Zenon DEF IInv, Args
<1>5. /\ \A x \in Who \ {p} : (connectMu' = x <=> connectMu = x) /\ arg'[x] = arg[x]
      /\ \A x \in Handlers \ {p} : hsel'[x] = hsel[x]
  BY <1>0, Distinct, Zenon DEF IInv, SelTypes
<1>6. pc' = [pc EXCEPT ![p] = "stopping"] /\ verb' = [verb EXCEPT ![p] = verb[p]] /\ ("stopping" = "stopped" => pc[Loop] = "idle")
  BY <1>0, <1>1, Zenon DEF IInv, ListTypes
<1>7. /\ Places' /\ VerbAt' /\ Mutex' /\ Args' /\ pc'[Loop] = pc[Loop]
      /\ pc' \in [Threads -> Pcs] /\ verb' \in [Threads -> VerbSet]
  BY ONLY IInv, <1>1, <1>2, <1>3, <1>4, <1>5, <1>6, Moves, Zenon
<1>8. Loops' /\ TriesItsList'
  BY <1>0, <1>7, LoopKept, Zenon DEF LoopLive
<1>9. \A x \in Threads \ {p} : pc'[x] = pc[x] /\ verb'[x] = verb[x] /\ url'[x] = url[x] /\ got'[x] = got[x]
  BY <1>0, Zenon DEF IInv, ListTypes
<1>10. FetchFits(p)'
  BY <1>0, Distinct, Zenon DEF IInv, ListTypes, SelTypes, Fetches, FetchFits
<1>11. Fetches'
  BY <1>9, <1>10, <1>0, Distinct, FetchesKept, Zenon
<1>12. ListTypes'
  BY <1>0, <1>7, Zenon DEF IInv, ListTypes
<1>13. SelTypes'
  BY <1>0, <1>a, <1>b, Distinct, Zenon DEF IInv, SelTypes, LoopLive
<1>14. NoDuplicates'
  BY <1>0, Zenon DEF IInv, NoDuplicates
<1> QED
  BY <1>7, <1>8, <1>11, <1>12, <1>13, <1>14, Zenon DEF IInv

\* A line whose text is the same is left alone.
LEMMA ComparePasses ==
  ASSUME IInv, NEW p \in Refreshers, ~\E e \in Range(all[p]) : Changed(e), Compare(p)
  PROVE  IInv'
<1>0. /\ pc[p] = "loaded" /\ connectMu = p
      /\ pc' = [pc EXCEPT ![p] = "idle"]
      /\ all' = [all EXCEPT ![p] = <<>>]
      /\ connectMu' = Free /\ cancelled' \in BOOLEAN /\ (cancelled' => cancelled)
      /\ arg' = [arg EXCEPT ![p] = None]
      /\ UNCHANGED <<up, cfg, cache, host, verb, url, got, cur, lsel, cands, owner, hsel, todo>>
  BY Zenon DEF Compare, Loaded, Drained, Goto, localVars, selVars
<1>a. p \in Who /\ p \in Callers /\ verb[p] = "none"
  BY <1>0, Distinct, Zenon DEF IInv, Mutex, Inside, Reading, Starting
<1>b. <<>> \in Seq(Line)
  OBVIOUS
<1>1. /\ p \in Who /\ p \in Threads /\ "idle" \in HandlerPcs /\ verb[p] \in VerbSet /\ up'
      /\ p = Tick => "idle" \in TickPcs /\ verb[p] = "none"
  BY <1>0, <1>a, Distinct, Zenon DEF IInv, ListTypes, Places, VerbAt, HandlerPcs, TickPcs, VerbSet, Reading, Starting
<1>2. p # Tick => VerbFits("idle", verb[p])
  BY <1>0, <1>a, Zenon DEF VerbFits, Reading, Starting
<1>3. connectMu' = p <=> Inside("idle", verb[p])
  BY <1>0, <1>a, <1>1, Distinct, Zenon DEF IInv, Mutex, Inside, Reading, Starting
<1>4. (NeedsArg("idle", verb[p]) => arg'[p] # None) /\ (NeedsOwn("idle") => hsel'[p] # None)
  BY <1>0, <1>1, Distinct, NoneAssumption, Zenon DEF IInv, SelTypes, Args, NeedsArg, NeedsOwn, Reading, Starting
<1>5. /\ \A x \in Who \ {p} : (connectMu' = x <=> connectMu = x) /\ arg'[x] = arg[x]
      /\ \A x \in Handlers \ {p} : hsel'[x] = hsel[x]
  BY <1>0, Distinct, Zenon DEF IInv, SelTypes
<1>6. pc' = [pc EXCEPT ![p] = "idle"] /\ verb' = [verb EXCEPT ![p] = verb[p]] /\ ("idle" = "stopped" => pc[Loop] = "idle")
  BY <1>0, <1>1, Zenon DEF IInv, ListTypes
<1>7. /\ Places' /\ VerbAt' /\ Mutex' /\ Args' /\ pc'[Loop] = pc[Loop]
      /\ pc' \in [Threads -> Pcs] /\ verb' \in [Threads -> VerbSet]
  BY ONLY IInv, <1>1, <1>2, <1>3, <1>4, <1>5, <1>6, Moves, Zenon
<1>8. Loops' /\ TriesItsList'
  BY <1>0, <1>7, LoopKept, Zenon DEF LoopLive
<1>9. \A x \in Threads \ {p} : pc'[x] = pc[x] /\ verb'[x] = verb[x] /\ url'[x] = url[x] /\ got'[x] = got[x]
  BY <1>0, Zenon DEF IInv, ListTypes
<1>10. FetchFits(p)'
  BY <1>0, Distinct, Zenon DEF IInv, ListTypes, SelTypes, Fetches, FetchFits
<1>11. Fetches'
  BY <1>9, <1>10, <1>0, Distinct, FetchesKept, Zenon
<1>12. ListTypes'
  BY <1>0, <1>7, Zenon DEF IInv, ListTypes
<1>13. SelTypes'
  BY <1>0, <1>a, <1>b, Distinct, Zenon DEF IInv, SelTypes
<1>14. NoDuplicates'
  BY <1>0, Zenon DEF IInv, NoDuplicates
<1> QED
  BY <1>7, <1>8, <1>11, <1>12, <1>13, <1>14, Zenon DEF IInv

\* A start ends in a new loop.
LEMMA StartLoopStep ==
  ASSUME IInv, NEW p \in Who, StartLoop(p)
  PROVE  IInv'
<1>0. /\ pc[p] = "stopped" /\ verb[p] # "remove" /\ lsel' = arg[p] /\ connectMu' = Free
      /\ arg' = [arg EXCEPT ![p] = None] /\ verb' = [verb EXCEPT ![p] = "none"]
      /\ pc' = [pc EXCEPT ![p] = "idle", ![Loop] = "snap"]
      /\ UNCHANGED <<up, cfg, cache, host, url, got, cur, cands, cancelled, owner, hsel, todo, all>>
  BY Zenon DEF StartLoop
<1>1. /\ p \in Threads /\ p \in Callers /\ p # Loop /\ arg[p] \in Selections /\ pc[Loop] = "idle"
      /\ connectMu = p /\ lsel' # None
  BY <1>0, Distinct, NoneAssumption, Zenon DEF IInv, SelTypes, Args, NeedsArg, Mutex, Inside, Starting
<1>2. /\ pc'[p] = "idle" /\ pc'[Loop] = "snap" /\ verb'[p] = "none" /\ verb'[Loop] = verb[Loop]
      /\ \A x \in Threads \ {p, Loop} : pc'[x] = pc[x] /\ verb'[x] = verb[x]
  BY <1>0, <1>1, Distinct, Zenon DEF IInv, ListTypes
<1>3. pc' \in [Threads -> Pcs] /\ verb' \in [Threads -> VerbSet]
  BY <1>0, Zenon DEF IInv, ListTypes, Pcs, TickPcs, Reading, VerbSet
<1>4. ListTypes'
  BY <1>0, <1>3, Zenon DEF IInv, ListTypes
<1>5. SelTypes'
  BY <1>0, <1>1, Zenon DEF IInv, SelTypes
<1>6. up /\ "idle" \in TickPcs /\ "idle" \in HandlerPcs /\ "snap" \in LoopPcs /\ "snap" # "idle"
  BY <1>0, <1>1, Zenon DEF IInv, Places, TickPcs, HandlerPcs, LoopPcs, Reading
<1>7. Places'
  BY <1>0, <1>1, <1>2, <1>6, Distinct, Zenon DEF IInv, Places
<1>8. VerbFits("idle", "none") /\ ~Inside("idle", "none") /\ ~NeedsArg("idle", "none") /\ ~NeedsOwn("idle")
  BY Zenon DEF VerbFits, Inside, NeedsArg, NeedsOwn, Reading, Starting
<1>9. VerbAt'
  BY <1>1, <1>2, <1>8, Distinct, Zenon DEF IInv, VerbAt, Who
<1>10. \A x \in Who \ {p} : ~Inside(pc[x], verb[x]) /\ pc[x] # "stopped"
  BY <1>1, Zenon DEF IInv, Mutex, Inside, Starting
<1>11. Mutex'
  <2>1. ASSUME NEW x \in Who
        PROVE  ~Inside(pc'[x], verb'[x]) /\ pc'[x] # "stopped" /\ connectMu' # x
    <3>1. connectMu' # x
      BY <1>0, Distinct, Zenon
    <3>2. CASE x = p
      BY <1>2, <1>8, <3>1, <3>2, Zenon
    <3>3. CASE x # p
      <4>1. pc'[x] = pc[x] /\ verb'[x] = verb[x]
        BY <1>2, <3>3, Distinct, Zenon
      <4> QED
        BY <1>10, <3>1, <3>3, <4>1, Zenon
    <3> QED
      BY <3>2, <3>3, Zenon
  <2> QED
    BY <2>1, Zenon DEF Mutex
<1>12. Args'
  BY <1>0, <1>1, <1>2, <1>8, Distinct, Zenon DEF IInv, SelTypes, Args
<1>13. Fetches'
  BY <1>0, <1>1, <1>2, Distinct, Zenon DEF IInv, Fetches, FetchFits
<1>14. Loops' /\ TriesItsList' /\ NoDuplicates'
  BY <1>0, <1>1, <1>2, Zenon DEF IInv, Loops, LoopLive, TriesItsList, NoDuplicates
<1> QED
  BY <1>4, <1>5, <1>7, <1>9, <1>11, <1>12, <1>13, <1>14, Zenon DEF IInv

\* A refresh begins to fetch the lists that are due.
LEMMA RefreshBegins ==
  ASSUME IInv, NEW p \in Refreshers, NEW D \in SUBSET Remote, Refresh(p, D), UNCHANGED selVars
  PROVE  IInv'
<1> DEFINE S == {p} \X D
<1>0. /\ up /\ pc[p] = "idle"
      /\ pc' = [t \in Threads |-> IF t = p THEN "wait" ELSE IF t \in S THEN "sem" ELSE pc[t]]
      /\ url' = [t \in Threads |-> IF t \in S THEN t[2] ELSE url[t]]
      /\ UNCHANGED <<up, cfg, cache, host, verb, got, connectMu, cur, lsel, cands, cancelled, owner, hsel, arg, todo, all>>
  BY Zenon DEF Refresh, selVars
<1>1. S \subseteq Fetchers /\ \A t \in S : t[2] \in Remote
  BY Zenon DEF Fetchers
<1> HIDE DEF S
<1>2. p \in Who /\ p \in Threads /\ p # Loop /\ \A t \in S : t \notin Callers
  BY <1>1, Distinct
<1>3. /\ pc'[p] = "wait"
      /\ \A x \in Callers \ {p} : pc'[x] = pc[x] /\ url'[x] = url[x]
      /\ \A x \in S : pc'[x] = "sem" /\ url'[x] = x[2]
      /\ \A x \in Fetchers \ S : pc'[x] = pc[x] /\ url'[x] = url[x]
  BY <1>0, <1>1, <1>2, Distinct, Zenon
<1>4. pc' \in [Threads -> Pcs] /\ url' \in [Threads -> Urls \cup {None}]
  BY <1>0, <1>1, Zenon DEF IInv, ListTypes, Pcs, TickPcs, Urls
<1>5. ListTypes'
  BY <1>0, <1>4, Zenon DEF IInv, ListTypes
<1>6. pc'[Loop] = pc[Loop] /\ \A x \in Who \ {p} : pc'[x] = pc[x]
  BY <1>2, <1>3, Distinct, Zenon
<1>7. pc'[p] = "wait" /\ "wait" \in TickPcs /\ "wait" \in HandlerPcs
  BY <1>3, Zenon DEF TickPcs, HandlerPcs
<1>8. Places'
  BY <1>0, <1>2, <1>3, <1>6, <1>7, Distinct, Zenon DEF IInv, Places
<1>9. /\ verb[p] = "none" /\ connectMu # p /\ VerbFits("wait", "none") /\ ~Inside("wait", "none")
      /\ ~NeedsArg("wait", "none") /\ ~NeedsOwn("wait")
  BY <1>0, <1>2, Distinct, Zenon DEF IInv, VerbAt, Mutex, VerbFits, Inside, NeedsArg, NeedsOwn, Reading, Starting, Who
<1>10. VerbAt'
  BY <1>0, <1>6, <1>7, <1>9, Distinct, Zenon DEF IInv, VerbAt
<1>11. Mutex' /\ Args'
  BY <1>0, <1>6, <1>7, <1>9, Distinct, Zenon DEF IInv, Mutex, Args
<1>12. ASSUME NEW x \in Threads PROVE FetchFits(x)'
  <2>1. CASE x = p
    BY <1>7, <2>1, Zenon DEF FetchFits
  <2>2. CASE x \in S
    BY <1>1, <1>2, <1>3, <2>2, Zenon DEF FetchFits
  <2>3. CASE x # p /\ x \notin S
    <3>1. pc'[x] = pc[x] /\ url'[x] = url[x]
      BY <1>0, <2>3, Zenon
    <3> QED
      BY <1>0, <3>1, Zenon DEF IInv, Fetches, FetchFits
  <2> QED
    BY <2>1, <2>2, <2>3
<1>13. SelTypes' /\ NoDuplicates'
  BY <1>0, Zenon DEF IInv, SelTypes, NoDuplicates
<1>14. Loops' /\ TriesItsList'
  BY <1>0, <1>6, LoopKept, Zenon
<1> QED
  BY <1>5, <1>8, <1>10, <1>11, <1>12, <1>13, <1>14 DEF IInv, Fetches

\* What a host answers changes.
LEMMA HostStep ==
  ASSUME IInv, NEW u \in Remote, HostChanges(u), UNCHANGED selVars
  PROVE  IInv'
<1>1. PICK a \in Hosts[u] : host' = [host EXCEPT ![u] = a]
  BY Zenon DEF HostChanges
<1>2. UNCHANGED <<up, cfg, cache, pc, verb, url, got, selVars>>
  BY Zenon DEF HostChanges, localVars
<1>3. a \in Answers
  BY HostsAssumption, Zenon DEF Answers, Range
<1>4. host' \in [Remote -> Answers] /\ \A w \in Remote : host'[w] \in Hosts[w]
  BY <1>1, <1>3, Zenon DEF IInv, ListTypes
<1>5. ListTypes'
  BY <1>2, <1>4, Zenon DEF IInv, ListTypes
<1>6. SelTypes' /\ Places' /\ VerbAt' /\ Fetches' /\ Mutex' /\ Args'
  BY <1>2, Zenon DEF IInv, SelTypes, Places, VerbAt, Fetches, FetchFits, Mutex, Args, selVars
<1>7. Loops' /\ TriesItsList' /\ NoDuplicates'
  <2>1. UNCHANGED <<cfg, pc, cur, lsel, cands, cancelled>>
    BY <1>2, Zenon DEF selVars
  <2> QED
    BY <2>1, LoopKept, Zenon DEF IInv, NoDuplicates
<1> QED
  BY <1>5, <1>6, <1>7, Zenon DEF IInv

\* The process starts, with the loop of the stored selection.
LEMMA StartStep ==
  ASSUME IInv, Start
  PROVE  IInv'
<1>0. /\ ~up /\ up' /\ up' = TRUE /\ lsel' = cfg.sel
      /\ pc' = IF cfg.sel = None THEN pc ELSE [pc EXCEPT ![Loop] = "snap"]
      /\ UNCHANGED <<cfg, cache, host, verb, url, got, connectMu, cur, cands, cancelled, owner, hsel, arg, todo, all>>
  BY Zenon DEF Start, Goto
<1>1. \A x \in Threads : pc[x] = "idle"
  BY <1>0, Zenon DEF IInv, Places
<1>2. /\ pc'[Loop] = IF cfg.sel = None THEN "idle" ELSE "snap"
      /\ \A x \in Threads \ {Loop} : pc'[x] = "idle" /\ pc[x] = "idle"
  <2>1. CASE cfg.sel = None
    BY <1>0, <1>1, <2>1, Distinct
  <2>2. CASE cfg.sel # None
    BY <1>0, <1>1, <2>2, Distinct DEF IInv, ListTypes
  <2> QED
    BY <2>1, <2>2
<1>3. pc' \in [Threads -> Pcs]
  BY <1>0, Zenon DEF IInv, ListTypes, Pcs, TickPcs, Reading
<1>4. ListTypes'
  BY <1>0, <1>3, Zenon DEF IInv, ListTypes
<1>5. SelTypes'
  BY <1>0, Zenon DEF IInv, ListTypes, SelTypes
<1>6. Places'
  BY <1>0, <1>2, Distinct, Zenon DEF Places, HandlerPcs, TickPcs, LoopPcs, Reading
<1>7. \A x \in Who : pc'[x] = pc[x] /\ pc[x] = "idle"
  BY <1>2, Distinct
<1>8. VerbAt' /\ Args'
  BY <1>0, <1>7, Distinct, Zenon DEF IInv, VerbAt, Args
<1>9. Mutex'
  BY <1>0, <1>7, Distinct, Zenon DEF IInv, Mutex
<1>10. Fetches'
  <2>1. \A x \in Threads : pc'[x] \in {"idle", "snap"}
    BY <1>2
  <2> QED
    BY <2>1 DEF Fetches, FetchFits
<1>11. Loops' /\ TriesItsList' /\ NoDuplicates'
  <2>1. pc[Loop] = "idle" /\ (LoopLive' <=> lsel' # None) /\ pc'[Loop] \notin {"try", "next", "up"}
    BY <1>0, <1>1, <1>2, Distinct DEF LoopLive
  <2>2. cur' = None /\ ~cancelled'
    BY <1>0, <2>1 DEF IInv, Loops, LoopLive
  <2> QED
    BY <1>0, <2>1, <2>2 DEF IInv, Loops, TriesItsList, NoDuplicates
<1> QED
  BY <1>4, <1>5, <1>6, <1>8, <1>9, <1>10, <1>11 DEF IInv

\* The program begins in such a state.
LEMMA Begins ==
  ASSUME SelInit
  PROVE  IInv
<1>0. Init
  BY DEF SelInit
<1>1. /\ up = FALSE /\ cfg \in Stored
      /\ pc = [t \in Threads |-> "idle"] /\ verb = [t \in Threads |-> "none"]
      /\ url = [t \in Threads |-> None] /\ got = [t \in Threads |-> None]
  BY <1>0, Zenon DEF Init
<1>2. /\ connectMu = Free /\ cur = None /\ lsel = None /\ cands = {} /\ cancelled = FALSE /\ owner = None
      /\ hsel = [h \in Handlers |-> None] /\ arg = [t \in Callers |-> None]
      /\ todo = [t \in Callers |-> <<>>] /\ all = [t \in Callers |-> <<>>]
  BY DEF SelInit
<1>3. cfg \in [subs : Seq(Urls), sel : Selections \cup {None}] /\ NoDuplicates
  <2>1. /\ cfg = [subs |-> cfg.subs, sel |-> cfg.sel] /\ cfg.subs \in Seq(Urls) /\ IsInjective(cfg.subs)
        /\ cfg.sel \in Selections \cup {None}
    BY <1>1, StoredAssumption, AsksAssumption, Zenon
  <2> QED
    BY <2>1 DEF NoDuplicates
<1>4. cache \in [Remote -> Answers] /\ \A u \in Remote : cache[u] \in (Hosts[u] \ {Down}) \cup {None}
  BY <1>0, Zenon DEF Init, Answers
<1>5. host \in [Remote -> Answers] /\ \A u \in Remote : host[u] \in Hosts[u]
  BY <1>0 DEF Init, Answers
<1>6. /\ pc \in [Threads -> Pcs] /\ verb \in [Threads -> VerbSet]
      /\ url \in [Threads -> Urls \cup {None}] /\ got \in [Threads -> Answers]
  BY <1>1 DEF Pcs, TickPcs, VerbSet, Answers
<1>7. ListTypes
  BY <1>1, <1>3, <1>4, <1>5, <1>6, Zenon DEF ListTypes
<1>8. SelTypes
  <2>1. <<>> \in Seq(Urls) /\ <<>> \in Seq(Line)
    OBVIOUS
  <2>2. todo \in [Callers -> Seq(Urls)] /\ all \in [Callers -> Seq(Line)]
    BY <1>2, <2>1
  <2>3. hsel \in [Handlers -> Selections \cup {None}] /\ arg \in [Callers -> Selections \cup {None}]
    BY <1>2
  <2> QED
    BY <1>2, <2>2, <2>3, Zenon DEF SelTypes
<1>9. \A t \in Threads : pc[t] = "idle" /\ verb[t] = "none"
  BY <1>1
<1>10. Places /\ VerbAt
  BY <1>9, Distinct, Zenon DEF Places, VerbAt, VerbFits, HandlerPcs, TickPcs, LoopPcs, Reading
<1>11. Mutex /\ Args
  BY <1>2, <1>9, Distinct, Zenon DEF Mutex, Args, Inside, NeedsArg, NeedsOwn, Reading, Starting
<1>12. Fetches
  BY <1>9, Zenon DEF Fetches, FetchFits
<1>13. Loops /\ TriesItsList
  BY <1>2, <1>9, Distinct, Zenon DEF Loops, LoopLive, TriesItsList
<1> QED
  BY <1>3, <1>7, <1>8, <1>10, <1>11, <1>12, <1>13 DEF IInv
=============================================================================
