----------------------------- MODULE Selection ------------------------------
(***************************************************************************)
(* The stored selection and the connect loop over changing lists           *)
(* (cli/internal/daemon connect.go and handlers.go): how a selector        *)
(* becomes lines, how the line it named is remembered in the config, and   *)
(* what adds, removals, refreshes and another connect do to that.          *)
(*                                                                         *)
(* The loop is a thread of module Lists.  Bringing a line up and holding   *)
(* it is a choice here (up, fails, ends); modules Daemon and Routes have   *)
(* the rest.  Candidates are a set: their order is left out.               *)
(***************************************************************************)
EXTENDS Lists

CONSTANTS Labels,    \* the labels of lines
          Usable,    \* those of lines this version can connect
          CountryOf, \* the country of each label
          Raws,      \* their texts
          Lines,     \* the lines of each answer of each list: [label, raw] records
          Matches,   \* matchesSub: the lists each scope is a URL or a prefix of
          Asks       \* what a person may connect: [scope, selector] records

\* A line of a list, and a selection: what was asked for and, once it is known,
\* the line that is and its list.
Line == [sub : Urls, label : Labels, raw : Raws]

Selections == [ask : Asks \cup {c.sel.ask : c \in {d \in Stored : d.sel # None}},
               id : (Urls \X Labels) \cup {None}, sub : Urls \cup {None}]

\* A URL matches itself, and no scope leaves nothing out.
ASSUME MatchesAssumption == /\ None \in DOMAIN Matches /\ Matches[None] = Urls
                            /\ \A u \in Urls \cap DOMAIN Matches : u \in Matches[u]

ASSUME AsksAssumption == /\ \A a \in Asks : a.scope \in DOMAIN Matches
                         /\ \A c \in Stored : c.sel \in Selections \cup {None}

\* What a host serves is a list of lines.
ASSUME LinesAssumption ==
  /\ \A u \in Remote : \A a \in Hosts[u] \ {Refused, Down} :
       Lines[u][a] \in Seq([label : Labels, raw : Raws])
  /\ \A u \in Inline : Lines[u][u] \in Seq([label : Labels, raw : Raws])

ASSUME NoneAssumption == None \notin Selections \cup Line \cup (Urls \X Labels)

VARIABLES
  connectMu,  \* who holds the mutex of starts and stops
  dsel,       \* d.sel: the ask that was started last
  cur,        \* d.cur: the line that is up
  lsel,       \* the loop's own copy of its selection
  cands,      \* the lines of this round it has not tried yet
  cancelled,  \* its context is cancelled
  owner,      \* the handler whose local variable d.cfg.Selection points to
  hsel,       \* that variable, of each handler
  arg,        \* the selection a thread hands to startConnect
  seen,       \* the line afterRefresh found up
  todo,       \* allEntries: the lists still to be read
  miss,       \* allEntries: one could not be had
  all         \* allEntries: the lines it has

selVars == <<connectMu, dsel, cur, lsel, cands, cancelled, owner, hsel, arg, seen, todo, miss, all>>
vars == <<listVars, selVars>>

Callers == Handlers \cup {Tick, Loop}

Selected(ask, id, sub) == [ask |-> ask, id |-> id, sub |-> sub]

IsIndex(selector) == selector \in 1..9

Id(e) == <<e.sub, e.label>>

\* links.Entries: a record of a refusal has none.
Entries(u, answer) ==
  IF answer \in {Refused, Down} THEN <<>>
  ELSE [i \in DOMAIN Lines[u][answer] |-> [sub |-> u, label |-> Lines[u][answer][i].label,
                                           raw |-> Lines[u][answer][i].raw]]

-----------------------------------------------------------------------------
(* links.Select and the resolution of a selection.  No lines: ErrNoMatch.  *)

Select(es, selector) ==
  LET byLabel == Only(es, {e \in Range(es) : e.label = selector})
  IN  IF IsIndex(selector) THEN IF selector \in DOMAIN es THEN <<es[selector]>> ELSE <<>>
      ELSE IF Len(byLabel) = 1 THEN byLabel
      ELSE IF Len(byLabel) > 1 THEN <<>>
      ELSE Only(es, {e \in Range(es) : CountryOf[e.label] = selector})

\* The lists a scope holds, and the one when it holds one.
InScope(scope) == Only(cfg.subs, Matches[scope])

OnlyListIn(scope) == IF Len(InScope(scope)) = 1 THEN InScope(scope)[1] ELSE None

\* A country of a single line names the country, not the line.
OneNamedLine(es, selector) ==
  Len(es) = 1 /\ (IsIndex(selector) \/ es[1].label = selector)

\* What a resolution gives: lines, and the selection with the line it named.
Resolved(s, es) ==
  [lines |-> Range(es), was |-> s,
   sel |-> IF OneNamedLine(es, s.ask.selector) THEN Selected(s.ask, Id(es[1]), es[1].sub) ELSE s]

\* Mutant: the line that is gone is looked for in every list.
LineInItsListAny(es, s) == Resolved(s, Select(es, s.ask.selector))

\* Mutant: it is, and the selection keeps the list it had.
LineInItsListKeeps(es, s) ==
  [lines |-> Range(Select(es, s.ask.selector)), was |-> s, sel |-> s]

\* A remembered line that is gone, looked for in its own list only.
LineInItsList(es, s) ==
  LET own == IF s.sub = None THEN OnlyListIn(s.ask.scope) ELSE s.sub
      n   == s.ask.selector
      in  == [s EXCEPT !.sub = own]
  IN  IF own = None \/ (own \in Remote /\ cache[own] = Refused) THEN Resolved(in, <<>>)
      ELSE IF IsIndex(n)
      THEN Resolved(in, IF n \in DOMAIN es /\ es[n].sub = own THEN <<es[n]>> ELSE <<>>)
      ELSE Resolved(in, Select(Only(es, {e \in Range(es) : e.sub = own}), n))

Resolve(es, s) ==
  LET same == Only(es, {e \in Range(es) : Id(e) = s.id})
  IN  IF s.id = None THEN Resolved(s, Select(es, s.ask.selector))
      ELSE IF same # <<>>
      THEN [lines |-> {same[1]}, was |-> s, sel |-> Selected(s.ask, s.id, same[1].sub)]
      ELSE LineInItsList(es, s)

-----------------------------------------------------------------------------
(* allEntries, for the loop, a connect and afterRefresh.                   *)

ScopeOf(t) == IF t = Loop THEN lsel.ask.scope ELSE arg[t].ask.scope

\* The lists us are still to be read.
Proceed(t, us) ==
  /\ todo' = [todo EXCEPT ![t] = us]
  /\ Goto(t, IF us = <<>> THEN "loaded" ELSE "read")

\* The subscriptions are copied under d.mu and read one after the other.
Snapshot(t) ==
  /\ pc[t] = "snap"
  /\ t = Loop => ~cancelled
  /\ Proceed(t, InScope(ScopeOf(t)))
  /\ UNCHANGED <<up, cfg, cache, host, requests, verb, url, got, miss, all>>
  /\ UNCHANGED <<connectMu, dsel, cur, lsel, cands, cancelled, owner, hsel, arg, seen>>

\* entriesFor: an inline list is its own body, a cached one is read, any other
\* is fetched.
Read(t) ==
  /\ pc[t] = "read"
  /\ LET u == Head(todo[t])
     IN  IF u \in Remote /\ ~Cached(u)
         THEN /\ url' = [url EXCEPT ![t] = u]
              /\ Goto(t, "fetch") /\ UNCHANGED <<todo, all>>
         ELSE /\ all' = [all EXCEPT ![t] = @ \o Entries(u, IF u \in Inline THEN u ELSE cache[u])]
              /\ Proceed(t, Tail(todo[t])) /\ UNCHANGED url
  /\ UNCHANGED <<up, cfg, cache, host, requests, verb, got, miss>>
  /\ UNCHANGED <<connectMu, dsel, cur, lsel, cands, cancelled, owner, hsel, arg, seen>>

\* A fetch (module Lists) is over: the list is taken, or left out.
Return(t) ==
  /\ pc[t] \in {"had", "missed"}
  /\ all' = IF pc[t] = "had" THEN [all EXCEPT ![t] = @ \o Entries(url[t], got[t])] ELSE all
  /\ miss' = [miss EXCEPT ![t] = @ \/ pc[t] = "missed"]
  /\ url' = [url EXCEPT ![t] = None] /\ got' = [got EXCEPT ![t] = None]
  /\ Proceed(t, Tail(todo[t]))
  /\ UNCHANGED <<up, cfg, cache, host, requests, verb>>
  /\ UNCHANGED <<connectMu, dsel, cur, lsel, cands, cancelled, owner, hsel, arg, seen>>

Loaded(t) == pc[t] = "loaded"

\* The caller is done with what it read.
Drained(t) == /\ all' = [all EXCEPT ![t] = <<>>]
              /\ miss' = [miss EXCEPT ![t] = FALSE]
              /\ UNCHANGED todo

-----------------------------------------------------------------------------
(* connectLoop.                                                            *)

LoopLive == pc[Loop] # "idle"

\* ctx.Err() at the top of a round, between two lines, and in a fetch.
LoopStops ==
  /\ cancelled /\ pc[Loop] \in {"snap", "try", "next", "up"}
  /\ Leave(Loop, "idle")
  /\ cur' = None /\ cands' = {} /\ lsel' = None /\ cancelled' = FALSE
  /\ UNCHANGED <<up, cfg, cache, host, requests>>
  /\ UNCHANGED <<connectMu, dsel, owner, hsel, arg, seen, todo, miss, all>>

LoopFetchStops ==
  /\ cancelled /\ pc[Loop] = "fetch"
  /\ Goto(Loop, "missed")
  /\ UNCHANGED <<up, cfg, cache, host, requests, verb, url, got, selVars>>

\* No list could be read: the next round comes after a pause.
LoopRetries ==
  /\ Loaded(Loop) /\ miss[Loop] /\ all[Loop] = <<>>
  /\ Goto(Loop, "snap") /\ Drained(Loop)
  /\ UNCHANGED <<up, cfg, cache, host, requests, verb, url, got>>
  /\ UNCHANGED <<connectMu, dsel, cur, lsel, cands, cancelled, owner, hsel, arg, seen>>

\* Nothing matches, or nothing that can be connected: the loop ends, and the
\* next refresh tries again.
LoopEnds ==
  /\ \/ /\ Loaded(Loop) /\ ~(miss[Loop] /\ all[Loop] = <<>>)
        /\ Resolve(all[Loop], lsel).lines = {}
     \/ pc[Loop] = "try" /\ cands = {}
  /\ Leave(Loop, "idle") /\ Drained(Loop)
  /\ lsel' = None /\ cancelled' = FALSE
  /\ UNCHANGED <<up, cfg, cache, host, requests>>
  /\ UNCHANGED <<connectMu, dsel, cur, cands, owner, hsel, arg, seen>>

\* remember: the stored selection is told when it is still this one.
Remembered(s) ==
  LET same == cfg.sel # None /\ cfg.sel.ask = s.ask
  IN  /\ cfg' = IF same THEN [cfg EXCEPT !.sel = s] ELSE cfg
      /\ hsel' = IF same /\ owner # None THEN [hsel EXCEPT ![owner] = s] ELSE hsel

LoopResolves ==
  /\ Loaded(Loop)
  /\ LET r == Resolve(all[Loop], lsel)
     IN  /\ r.lines # {}
         /\ lsel' = r.sel
         /\ cands' = {e \in r.lines : e.label \in Usable}
         /\ IF r.sel # r.was THEN Remembered(r.sel)
            ELSE UNCHANGED <<cfg, hsel>>
  /\ Goto(Loop, "try") /\ Drained(Loop)
  /\ UNCHANGED <<up, cache, host, requests, verb, url, got>>
  /\ UNCHANGED <<connectMu, dsel, cur, cancelled, owner, arg, seen>>

\* A line of the round comes up, does not come up, or ends; after the last one
\* the next round begins.
LoopTries(e, ok) ==
  /\ pc[Loop] \in {"try", "next"} /\ ~cancelled /\ e \in cands
  /\ cands' = cands \ {e}
  /\ cur' = IF ok THEN e ELSE None
  /\ Goto(Loop, IF ok THEN "up" ELSE "next")
  /\ UNCHANGED <<up, cfg, cache, host, requests, verb, url, got>>
  /\ UNCHANGED <<connectMu, dsel, lsel, cancelled, owner, hsel, arg, seen, todo, miss, all>>

\* Mutant: the line that ended stays the current one.
LineEndsKeeps ==
  /\ pc[Loop] = "up" /\ ~cancelled
  /\ Goto(Loop, "next")
  /\ UNCHANGED <<up, cfg, cache, host, requests, verb, url, got, selVars>>

LineEnds ==
  /\ pc[Loop] = "up" /\ ~cancelled
  /\ cur' = None /\ Goto(Loop, "next")
  /\ UNCHANGED <<up, cfg, cache, host, requests, verb, url, got>>
  /\ UNCHANGED <<connectMu, dsel, lsel, cands, cancelled, owner, hsel, arg, seen, todo, miss, all>>

RoundEnds ==
  /\ pc[Loop] = "next" /\ cands = {}
  /\ Goto(Loop, "snap")
  /\ UNCHANGED <<up, cfg, cache, host, requests, verb, url, got, selVars>>

-----------------------------------------------------------------------------
(* connect, remove and afterRefresh: who starts and stops the loop.        *)

Connect(h, ask) ==
  /\ Ask(h, "connect")
  /\ IF cfg.subs = <<>>
     THEN UNCHANGED <<verb, pc, arg>>
     ELSE /\ verb' = [verb EXCEPT ![h] = "connect"] /\ Goto(h, "snap")
          /\ arg' = [arg EXCEPT ![h] = Selected(ask, None, None)]
  /\ UNCHANGED <<up, cfg, cache, host, url, got>>
  /\ UNCHANGED <<connectMu, dsel, cur, lsel, cands, cancelled, owner, hsel, seen, todo, miss, all>>

\* A selector that matches nothing is refused.
ConnectFails(h) ==
  /\ Loaded(h) /\ verb[h] = "connect"
  /\ Select(all[h], arg[h].ask.selector) = <<>>
  /\ Leave(h, "idle") /\ Drained(h)
  /\ arg' = [arg EXCEPT ![h] = None]
  /\ UNCHANGED <<up, cfg, cache, host, requests>>
  /\ UNCHANGED <<connectMu, dsel, cur, lsel, cands, cancelled, owner, hsel, seen>>

\* d.cfg.Selection points to the handler's own variable from here on.
Store(h) ==
  /\ Loaded(h) /\ verb[h] = "connect"
  /\ Select(all[h], arg[h].ask.selector) # <<>>
  /\ cfg' = [cfg EXCEPT !.sel = arg[h]]
  /\ hsel' = [hsel EXCEPT ![h] = arg[h]] /\ owner' = h
  /\ Goto(h, "copy") /\ Drained(h)
  /\ UNCHANGED <<up, cache, host, requests, verb, url, got>>
  /\ UNCHANGED <<connectMu, dsel, cur, lsel, cands, cancelled, arg, seen>>

\* The variable is copied for startConnect without d.mu, field by field in
\* either order, while the loop that still runs may remember its line in it.
Copy(h, field) ==
  /\ pc[h] = "copy" \/ pc[h] = field
  /\ arg' = [arg EXCEPT ![h][field] = hsel[h][field]]
  /\ IF pc[h] = field
     THEN /\ Goto(h, "lock") /\ hsel' = [hsel EXCEPT ![h] = None]
          /\ owner' = IF owner = h THEN None ELSE owner
     ELSE Goto(h, IF field = "id" THEN "sub" ELSE "id") /\ UNCHANGED <<hsel, owner>>
  /\ UNCHANGED <<up, cfg, cache, host, requests, verb, url, got>>
  /\ UNCHANGED <<connectMu, dsel, cur, lsel, cands, cancelled, seen, todo, miss, all>>

\* startConnect and stopAll take connectMu and cancel the loop.
Lock(h) ==
  /\ pc[h] \in {"lock", "stop"} /\ connectMu = Free /\ connectMu' = h
  /\ cancelled' = LoopLive
  /\ Goto(h, "stopping")
  /\ UNCHANGED <<up, cfg, cache, host, requests, verb, url, got>>
  /\ UNCHANGED <<dsel, cur, lsel, cands, owner, hsel, arg, seen, todo, miss, all>>

\* Mutant: a refresh that changed the cache leaves the connection alone.
AfterRefreshQuiet(p) ==
  /\ pc[p] = "after" /\ connectMu = Free
  /\ Goto(p, "idle")
  /\ UNCHANGED <<up, cfg, cache, host, requests, verb, url, got, selVars>>

\* afterRefresh, under connectMu: it starts a stored selection that no loop
\* runs, and looks up a line that is up.
AfterRefresh(p) ==
  /\ pc[p] = "after" /\ connectMu = Free
  /\ LET start == cfg.sel # None /\ ~LoopLive
         look  == cfg.sel # None /\ LoopLive /\ cur # None
     IN  /\ connectMu' = IF start \/ look THEN p ELSE Free
         /\ arg' = [arg EXCEPT ![p] = IF start \/ look THEN cfg.sel ELSE None]
         /\ seen' = IF look THEN cur ELSE None
         /\ Goto(p, IF start THEN "stopping" ELSE IF look THEN "snap" ELSE "idle")
  /\ UNCHANGED <<up, cfg, cache, host, requests, verb, url, got>>
  /\ UNCHANGED <<dsel, cur, lsel, cands, cancelled, owner, hsel, todo, miss, all>>

\* Mutant: a line is told from its id alone.
ChangedNever(e) == FALSE

\* The line that is up has another text now.
Changed(e) == Id(e) = Id(seen) /\ e.raw # seen.raw

\* A line whose text changed is reconnected, any other is left alone.
Compare(p) ==
  /\ Loaded(p) /\ connectMu = p
  /\ LET changed == \E e \in Range(all[p]) : Changed(e)
     IN  /\ connectMu' = IF changed THEN p ELSE Free
         /\ cancelled' = (cancelled \/ (changed /\ LoopLive))
         /\ arg' = IF changed THEN arg ELSE [arg EXCEPT ![p] = None]
         /\ Goto(p, IF changed THEN "stopping" ELSE "idle")
  /\ seen' = None /\ Drained(p)
  /\ UNCHANGED <<up, cfg, cache, host, requests, verb, url, got>>
  /\ UNCHANGED <<dsel, cur, lsel, cands, owner, hsel>>

\* The loop has ended: nothing counts as started any more.
Stopped(t) ==
  /\ pc[t] = "stopping" /\ ~LoopLive
  /\ dsel' = None /\ Goto(t, "stopped")
  /\ UNCHANGED <<up, cfg, cache, host, requests, verb, url, got>>
  /\ UNCHANGED <<connectMu, cur, lsel, cands, cancelled, owner, hsel, arg, seen, todo, miss, all>>

\* The new loop starts.
StartLoop(p) ==
  /\ pc[p] = "stopped" /\ verb[p] # "remove"
  /\ lsel' = arg[p] /\ dsel' = arg[p].ask
  /\ connectMu' = Free /\ arg' = [arg EXCEPT ![p] = None]
  /\ pc' = [pc EXCEPT ![p] = "idle", ![Loop] = "snap"]
  /\ verb' = [verb EXCEPT ![p] = "none"]
  /\ UNCHANGED <<up, cfg, cache, host, requests, url, got>>
  /\ UNCHANGED <<cur, cands, cancelled, owner, hsel, seen, todo, miss, all>>

\* stopAll forgets the selection.
Forget(h) ==
  /\ pc[h] = "stopped" /\ verb[h] = "remove"
  /\ cfg' = [cfg EXCEPT !.sel = None] /\ owner' = None
  /\ connectMu' = Free
  /\ Leave(h, "idle")
  /\ UNCHANGED <<up, cache, host, requests>>
  /\ UNCHANGED <<dsel, cur, lsel, cands, cancelled, hsel, arg, seen, todo, miss, all>>

\* remove stops what was started for one of the lists that go.
Drop(h, N) ==
  /\ RemoveSubs(h, N, IF dsel # None /\ dsel.scope \in N \cap Subs THEN "stop" ELSE "idle")
  /\ UNCHANGED selVars

-----------------------------------------------------------------------------
(* The process.                                                            *)

SelInit ==
  /\ Init
  /\ connectMu = Free /\ dsel = None /\ cur = None /\ lsel = None /\ cands = {}
  /\ cancelled = FALSE /\ owner = None /\ seen = None
  /\ hsel = [h \in Handlers |-> None] /\ arg = [t \in Callers |-> None]
  /\ todo = [t \in Callers |-> <<>>] /\ miss = [t \in Callers |-> FALSE]
  /\ all = [t \in Callers |-> <<>>]

\* startStored: the loop of the stored selection starts with the process.
Start ==
  /\ ~up /\ up' = TRUE
  /\ lsel' = cfg.sel
  /\ dsel' = IF cfg.sel = None THEN None ELSE cfg.sel.ask
  /\ IF cfg.sel = None THEN UNCHANGED pc ELSE Goto(Loop, "snap")
  /\ UNCHANGED <<cfg, cache, host, requests, verb, url, got>>
  /\ UNCHANGED <<connectMu, cur, cands, cancelled, owner, hsel, arg, seen, todo, miss, all>>

-----------------------------------------------------------------------------
\* What a thread does once it has a request, a tick or a loop to run.
Step(t) ==
  (Fetch(t) \/ FetchFails(t) \/ SaveCache(t)) /\ UNCHANGED selVars

CallerStep(t) == Snapshot(t) \/ Read(t) \/ Return(t)

HandlerStep(h) ==
  \/ Step(h) \/ CallerStep(h) \/ Stopped(h) \/ StartLoop(h)
  \/ Rollback(h) /\ UNCHANGED selVars
  \/ ConnectFails(h) \/ Store(h) \/ \E f \in {"id", "sub"} : Copy(h, f)
  \/ Lock(h) \/ Forget(h)

RefreshStep(p) ==
  \/ Fetched(p, "after") /\ UNCHANGED selVars
  \/ AfterRefresh(p) \/ Compare(p)
  \/ p = Tick /\ (Step(p) \/ CallerStep(p) \/ Stopped(p) \/ StartLoop(p))

FetcherStep(t) == Step(t) \/ (Acquire(t) /\ UNCHANGED selVars)

LoopStep ==
  \/ Step(Loop) \/ CallerStep(Loop)
  \/ LoopStops \/ LoopFetchStops \/ LoopRetries \/ LoopEnds \/ LoopResolves \/ RoundEnds
  \/ \E e \in cands : \E ok \in BOOLEAN : LoopTries(e, ok)

Requests ==
  \E h \in Handlers :
    \/ \E u \in Remote : Add(h, u) /\ UNCHANGED selVars
    \/ \E u \in Inline : AddInline(h, u) /\ UNCHANGED selVars
    \/ \E N \in SUBSET Urls : Drop(h, N)
    \/ \E ask \in Asks : Connect(h, ask)

Ticks(D) == \E p \in Refreshers : Refresh(p, D) /\ UNCHANGED selVars

SelNext ==
  \/ Start \/ Requests \/ LoopStep \/ LineEnds
  \/ \E h \in Handlers : HandlerStep(h)
  \/ \E p \in Refreshers : RefreshStep(p)
  \/ \E t \in Fetchers : FetcherStep(t)
  \/ \E u \in Remote : HostChanges(u) /\ UNCHANGED selVars
  \/ \E D \in SUBSET Remote : Ticks(D)

SelSpec == SelInit /\ [][SelNext]_vars

\* The scheduler runs every goroutine that can run and the service manager the
\* process.  Time passes: ticks come, and now and then with every list due.
Fair ==
  /\ WF_vars(Start \/ LoopStep)
  /\ \A h \in Handlers : WF_vars(HandlerStep(h))
  /\ \A p \in Refreshers : WF_vars(RefreshStep(p))
  /\ \A t \in Fetchers : WF_vars(FetcherStep(t))
  /\ SF_vars(Ticks(Subs \cap Remote))

FairSpec == SelSpec /\ Fair

-----------------------------------------------------------------------------
\* The types of the selection's state (connect.go, handlers.go).
TypeOK ==
  /\ connectMu \in Handlers \cup {Tick, Free}
  /\ cfg.subs \in Seq(Urls) /\ cfg.sel \in Selections \cup {None}
  /\ lsel \in Selections \cup {None} /\ (LoopLive <=> lsel # None)
  /\ cur # None <=> pc[Loop] = "up"
  /\ cancelled => LoopLive
  /\ \A t \in Handlers \cup {Tick} : arg[t] \in Selections \cup {None}

\* The selection knows its line and the line's list.
Bound(s) == s # None /\ s.id # None /\ s.sub # None

\* The lines a loop tries for a label or an index are of the list its selection
\* is bound to: never another provider's (connect.go:255, docs/cli.md: it
\* "never moves to another list's line").
TriesItsList ==
  pc[Loop] \in {"try", "next", "up"} /\ Bound(lsel) =>
    \A e \in cands \cup ({cur} \ {None}) : e.sub = lsel.sub

\* The stored selection, once bound to a list, is bound to another one only by
\* a person's new connect: by the step that stores it, or by the loop it starts,
\* which has no line yet.  A loop whose copy has the line and not its list moves
\* nothing while the list is on record (connect.go:271, handlers.go:334).
StaysInItsList ==
  [][up /\ Bound(cfg.sel) /\ cfg'.sel # None =>
       \/ cfg'.sel.sub = cfg.sel.sub
       \/ owner' # owner
       \/ LoopLive /\ (lsel.id = None \/ (lsel.sub = None /\ cfg.sel.sub \notin Subs))]_vars

\* The line and the list were remembered together, not read apart by Copy.
Whole(s) == Bound(s) /\ s.sub = s.id[1]

\* A loop whose selection has a line of a list keeps to that list until it ends,
\* whatever becomes of the line and of the lists (connect.go:262).
KeepsItsList ==
  [][LoopLive /\ pc'[Loop] # "idle" /\ Whole(lsel) =>
       Whole(lsel') /\ lsel'.sub = lsel.sub]_vars

\* The line a selection is bound to is served.
ServedNow ==
  /\ cfg.sel # None /\ cfg.sel.id # None /\ cfg.sel.sub # None
  /\ cfg.sel.sub \in Matches[cfg.sel.ask.scope]
  /\ cfg.sel.id[1] \in Subs
  /\ \E e \in Range(Entries(cfg.sel.id[1], IF cfg.sel.id[1] \in Inline THEN cfg.sel.id[1]
                                            ELSE host[cfg.sel.id[1]])) :
        Id(e) = cfg.sel.id /\ e.label \in Usable

\* A selection that waits for its line gets it: when the list is served again
\* and stays so, the line is tried (docs/cli.md: "until the provider makes room
\* and a refresh finds it served").
ComesBack == <>[]ServedNow => []<>(pc[Loop] \in {"try", "up"})

\* A line whose text changed for good does not stay up as it was
\* (docs/cli.md: "a rotated room or key reconnects the running line").
Stale ==
  /\ cur # None /\ cfg.sel # None /\ cur.sub \in Matches[cfg.sel.ask.scope]
  /\ cur.sub \in Subs \cap Remote
  /\ \E e \in Range(Entries(cur.sub, host[cur.sub])) : Id(e) = Id(cur) /\ e.raw # cur.raw

Rotates == ~<>[]Stale
=============================================================================
