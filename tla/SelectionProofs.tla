--------------------------- MODULE SelectionProofs --------------------------
(***************************************************************************)
(* The lists have no duplicates, and a loop tries only lines of the list   *)
(* its selection is bound to, for any number of handlers, lists and lines: *)
(* what the operators of Lists and Selection return (the elements kept of  *)
(* a sequence, the lines a selection resolves to), and the theorems.       *)
(***************************************************************************)
EXTENDS SelectionSteps, FiniteSetTheorems

-----------------------------------------------------------------------------
(* The elements of a sequence that are in a set.                           *)

\* A finite set of positions has a k-th smallest one for every k up to its size:
\* counting those below sends the positions one to one into 1..size, so onto it.
LEMMA NthExists ==
  ASSUME NEW K \in SUBSET Nat, IsFiniteSet(K), NEW k \in 1..Cardinality(K)
  PROVE  Nth(K, k) \in K /\ Cardinality({j \in K : j <= Nth(K, k)}) = k
<1> DEFINE below(i) == {j \in K : j <= i}
           rank == [i \in K |-> Cardinality(below(i))]
           n == Cardinality(K)
<1>1. n \in Nat
  BY FS_CardinalityType
<1>2. ASSUME NEW i \in K
      PROVE  /\ IsFiniteSet(below(i)) /\ Cardinality(below(i)) \in 1..n
  <2>1. below(i) \in SUBSET K /\ i \in below(i)
    OBVIOUS
  <2>2. IsFiniteSet(below(i)) /\ Cardinality(below(i)) <= n
    BY <2>1, FS_Subset
  <2>3. Cardinality(below(i)) \in Nat /\ Cardinality(below(i)) # 0
    BY <2>1, <2>2, FS_CardinalityType, FS_EmptySet
  <2> QED
    BY <1>1, <2>2, <2>3
<1>3. rank \in [K -> 1..n]
  BY <1>2
<1>4. ASSUME NEW a \in K, NEW b \in K, a < b
      PROVE  Cardinality(below(a)) # Cardinality(below(b))
  <2>0. a \in Nat /\ b \in Nat /\ \A j \in K : j \in Nat
    OBVIOUS
  <2>1. below(a) \in SUBSET below(b) /\ b \in below(b) /\ b \notin below(a)
    <3>1. (\A j \in K : j <= a => j <= b) /\ b <= b /\ ~(b <= a)
      BY <1>4, <2>0
    <3> QED
      BY <3>1
  <2>2. below(a) # below(b)
    BY <2>1
  <2> QED
    BY <1>2, <2>1, <2>2, FS_Subset
<1>5. \A a, b \in K : rank[a] = rank[b] => a = b
  BY <1>4
<1>6. rank \in Injection(K, 1..n)
  BY <1>3, <1>5 DEF Injection, IsInjective
<1>7. IsFiniteSet(1..n) /\ Cardinality(1..n) = n
  BY <1>1, FS_Interval
<1>8. rank \in Surjection(K, 1..n)
  BY <1>6, <1>7, FS_Injection
<1>9. \E i \in K : Cardinality(below(i)) = k
  BY <1>8 DEF Surjection
<1> QED
  BY <1>9 DEF Nth

\* The positions of s that Only keeps.
Kept(s, S) == {i \in DOMAIN s : s[i] \in S}

LEMMA KeptFinite ==
  ASSUME NEW T, NEW s \in Seq(T), NEW S
  PROVE  /\ Kept(s, S) \in SUBSET Nat /\ IsFiniteSet(Kept(s, S))
         /\ Cardinality(Kept(s, S)) \in Nat
<1>1. Len(s) \in Nat /\ DOMAIN s = 1..Len(s)
  OBVIOUS
<1>2. IsFiniteSet(1..Len(s))
  BY <1>1, FS_Interval
<1>3. Kept(s, S) \in SUBSET (1..Len(s))
  BY <1>1 DEF Kept
<1>4. IsFiniteSet(Kept(s, S))
  BY <1>2, <1>3, FS_Subset
<1> QED
  BY <1>1, <1>3, <1>4, FS_CardinalityType

\* Only returns elements of s that are in S, and keeps what is there once, once.
LEMMA OnlyKeeps ==
  ASSUME NEW T, NEW s \in Seq(T), NEW S
  PROVE  /\ Only(s, S) \in Seq(T)
         /\ Range(Only(s, S)) \subseteq Range(s) \cap S
         /\ IsInjective(s) => IsInjective(Only(s, S))
<1> DEFINE K == Kept(s, S)
           n == Cardinality(K)
<1>1. K \in SUBSET Nat /\ IsFiniteSet(K) /\ n \in Nat
  BY KeptFinite
<1>2. Only(s, S) = [k \in 1..n |-> s[Nth(K, k)]]
  BY DEF Only, Kept
<1>3. \A k \in 1..n : Nth(K, k) \in K /\ Cardinality({j \in K : j <= Nth(K, k)}) = k
  BY <1>1, NthExists
<1>4. \A i \in K : i \in DOMAIN s /\ s[i] \in T \cap S
  BY DEF Kept
<1> HIDE DEF K, n
<1>a. Only(s, S) \in [1..n -> T]
  BY <1>2, <1>3, <1>4
<1>5. Only(s, S) \in Seq(T)
  BY ONLY <1>1, <1>a
<1>6. Range(Only(s, S)) \subseteq Range(s) \cap S
  <2>1. ASSUME NEW k \in 1..n PROVE Only(s, S)[k] \in Range(s) \cap S
    <3>1. Nth(K, k) \in DOMAIN s /\ s[Nth(K, k)] \in S
      BY <1>3, <1>4
    <3> QED
      BY <1>2, <3>1 DEF Range
  <2> QED
    BY <1>a, <2>1 DEF Range
<1>7. ASSUME IsInjective(s) PROVE IsInjective(Only(s, S))
  <2>1. DOMAIN Only(s, S) = 1..n
    BY <1>2
  <2>2. SUFFICES ASSUME NEW a \in 1..n, NEW b \in 1..n, Only(s, S)[a] = Only(s, S)[b]
                 PROVE  a = b
    BY <2>1 DEF IsInjective
  <2>3. s[Nth(K, a)] = s[Nth(K, b)] /\ Nth(K, a) \in DOMAIN s /\ Nth(K, b) \in DOMAIN s
    BY <1>2, <1>3, <1>4, <2>2
  <2>4. Nth(K, a) = Nth(K, b)
    BY <1>7, <2>3 DEF IsInjective
  <2> QED
    BY <1>3, <2>4
<1> QED
  BY <1>5, <1>6, <1>7

\* The lists of a scope are lists.
LEMMA InScopeType ==
  ASSUME NEW scope, cfg.subs \in Seq(Urls)
  PROVE  InScope(scope) \in Seq(Urls)
BY OnlyKeeps DEF InScope

-----------------------------------------------------------------------------
(* What a selection resolves to.                                           *)

\* links.Select returns lines it was given.
LEMMA SelectIn ==
  ASSUME NEW es \in Seq(Line), NEW n
  PROVE  Select(es, n) \in Seq(Line) /\ Range(Select(es, n)) \subseteq Range(es)
<1> DEFINE byLabel == Only(es, {e \in Range(es) : e.label = n})
           byCountry == Only(es, {e \in Range(es) : CountryOf[e.label] = n})
<1>1. byLabel \in Seq(Line) /\ Range(byLabel) \subseteq Range(es)
  BY OnlyKeeps
<1>2. byCountry \in Seq(Line) /\ Range(byCountry) \subseteq Range(es)
  BY OnlyKeeps
<1>3. <<>> \in Seq(Line) /\ Range(<<>>) \subseteq Range(es)
  BY DEF Range
<1>4. n \in DOMAIN es => <<es[n]>> \in Seq(Line) /\ Range(<<es[n]>>) \subseteq Range(es)
  BY DEF Range
<1> HIDE DEF byLabel, byCountry
<1>5. Select(es, n) \in {byLabel, byCountry, <<>>} \/ (n \in DOMAIN es /\ Select(es, n) = <<es[n]>>)
  BY DEF Select, byLabel, byCountry
<1> QED
  BY <1>1, <1>2, <1>3, <1>4, <1>5

\* The lines of a resolution are those found.  When one line was named, the
\* selection has it and its list; otherwise it is as it was.
LEMMA ResolvedIn ==
  ASSUME NEW s \in Selections, NEW es \in Seq(Line)
  PROVE  LET r == Resolved(s, es)
         IN  /\ r.lines = Range(es) /\ r.lines \subseteq Line
             /\ \/ r.sel = s
                \/ \E e \in Line : r.lines = {e} /\ r.sel = [ask |-> s.ask, id |-> <<e.sub, e.label>>, sub |-> e.sub]
<1>1. Range(es) \subseteq Line
  BY DEF Range
<1>2. Resolved(s, es).lines = Range(es)
  BY DEF Resolved
<1>3. CASE OneNamedLine(es, s.ask.selector)
  <2>1. Len(es) = 1
    BY <1>3 DEF OneNamedLine
  <2>2. es[1] \in Line /\ Range(es) = {es[1]}
    BY <2>1 DEF Range
  <2>3. Resolved(s, es).sel = [ask |-> s.ask, id |-> <<es[1].sub, es[1].label>>, sub |-> es[1].sub]
    BY <1>3 DEF Resolved, Selected, Id
  <2> QED
    BY <1>1, <1>2, <2>2, <2>3
<1>4. CASE ~OneNamedLine(es, s.ask.selector)
  BY <1>1, <1>2, <1>4 DEF Resolved
<1> QED
  BY <1>3, <1>4

Named(s, e) == [ask |-> s.ask, id |-> <<e.sub, e.label>>, sub |-> e.sub]

LEMMA NamedIsSound ==
  ASSUME NEW s \in Selections, NEW e \in Line, NEW r,
         r.lines = {e}, r.sel = Named(s, e), Whole(s) => e.sub = s.sub
  PROVE  Sound(r, s)
<1>1. e.sub \in Urls /\ e.label \in Labels /\ <<e.sub, e.label>> \in Urls \X Labels
  BY DEF Line
<1>2. r.sel \in Selections /\ r.sel.sub = e.sub /\ r.sel.id = <<e.sub, e.label>>
  BY <1>1 DEF Selections, Named
<1>3. <<e.sub, e.label>> # None /\ e.sub # None /\ <<e.sub, e.label>>[1] = e.sub
  BY <1>1, NoneAssumption, HostsAssumption
<1>4. Whole(r.sel)
  BY <1>2, <1>3, NoneAssumption DEF Whole, Bound
<1> QED
  BY <1>2, <1>4 DEF Sound

\* The one list of a scope is a list.
LEMMA OnlyListType ==
  ASSUME NEW scope, cfg.subs \in Seq(Urls)
  PROVE  OnlyListIn(scope) \in Urls \cup {None}
BY InScopeType DEF OnlyListIn

\* A remembered line that is gone is looked for in its own list only.
LEMMA OwnListIsSound ==
  ASSUME NEW s \in Selections, NEW es \in Seq(Line), cfg.subs \in Seq(Urls), s.id # None
  PROVE  Sound(LineInItsList(es, s), s)
<1> DEFINE own == IF s.sub = None THEN OnlyListIn(s.ask.scope) ELSE s.sub
           n == s.ask.selector
           in == [s EXCEPT !.sub = own]
           mine == Only(es, {e \in Range(es) : e.sub = own})
           at == IF n \in DOMAIN es /\ es[n].sub = own THEN <<es[n]>> ELSE <<>>
           r == LineInItsList(es, s)
<1>1. own \in Urls \cup {None}
  BY OnlyListType DEF Selections
<1>2. in \in Selections /\ in.sub = own /\ in.id = s.id /\ in.ask = s.ask
  BY <1>1 DEF Selections
<1>3. Whole(s) => in = s /\ own = s.sub
  BY DEF Whole, Bound, Selections
<1>4. mine \in Seq(Line) /\ \A e \in Range(mine) : e.sub = own
  BY OnlyKeeps
<1>5. Select(mine, n) \in Seq(Line) /\ \A e \in Range(Select(mine, n)) : e.sub = own
  BY <1>4, SelectIn
<1>6. at \in Seq(Line) /\ \A e \in Range(at) : e.sub = own
  BY DEF Range
<1>7. <<>> \in Seq(Line) /\ \A e \in Range(<<>>) : e.sub = own
  BY DEF Range
<1>8. \/ r = Resolved(in, <<>>)
      \/ own # None /\ (r = Resolved(in, at) \/ r = Resolved(in, Select(mine, n)))
  BY DEF LineInItsList
<1> HIDE DEF own, n, in, mine, at, r
<1>9. PICK fs \in Seq(Line) : /\ r = Resolved(in, fs) /\ \A e \in Range(fs) : e.sub = own
  BY <1>5, <1>6, <1>7, <1>8
<1>10. /\ r.lines = Range(fs) /\ r.lines \subseteq Line
       /\ r.sel = in \/ \E e \in Line : r.lines = {e} /\ r.sel = Named(in, e)
  BY <1>2, <1>9, ResolvedIn DEF Named
<1>11. ASSUME r.sel = in PROVE Sound(r, s)
  BY <1>2, <1>3, <1>9, <1>10, <1>11 DEF Sound
<1>12. ASSUME \E e \in Line : r.lines = {e} /\ r.sel = Named(in, e)
       PROVE  Sound(r, s)
  <2>1. PICK e \in Line : r.lines = {e} /\ r.sel = Named(in, e)
    BY <1>12
  <2>2. e.sub = own /\ Named(in, e) = Named(s, e)
    BY <1>2, <1>9, <1>10, <2>1 DEF Named
  <2> QED
    BY <1>3, <2>1, <2>2, NamedIsSound
<1> QED
  BY <1>10, <1>11, <1>12 DEF r

\* Every resolution is sound: resolve (connect.go:271) gives lines of the list its
\* selection is bound to, and a selection with a line of a list stays with it.
LEMMA ResolveIsSound ==
  ASSUME NEW s \in Selections, NEW es \in Seq(Line), cfg.subs \in Seq(Urls)
  PROVE  Sound(Resolve(es, s), s)
<1> DEFINE same == Only(es, {e \in Range(es) : Id(e) = s.id})
           r == Resolve(es, s)
<1>0. SUFFICES Sound(r, s)
  OBVIOUS
<1>a. s.id = None => r = Resolved(s, Select(es, s.ask.selector))
  BY DEF Resolve
<1>b. s.id # None /\ same # <<>> =>
        r.lines = {same[1]} /\ r.sel = [ask |-> s.ask, id |-> s.id, sub |-> same[1].sub]
  BY DEF Resolve, Selected
<1>c. s.id # None /\ same = <<>> => r = LineInItsList(es, s)
  BY DEF Resolve
<1>d. same \in Seq(Line) /\ \A e \in Range(same) : Id(e) = s.id
  BY OnlyKeeps
<1> HIDE DEF r, same
<1>1. CASE s.id = None
  <2>1. ~Whole(s)
    BY <1>1 DEF Whole, Bound
  <2>2. Select(es, s.ask.selector) \in Seq(Line)
    BY SelectIn
  <2>3. r = Resolved(s, Select(es, s.ask.selector))
    BY <1>1, <1>a
  <2>4. /\ r.lines \subseteq Line
        /\ r.sel = s \/ \E e \in Line : r.lines = {e} /\ r.sel = Named(s, e)
    BY <2>2, <2>3, ResolvedIn DEF Named
  <2>5. CASE r.sel = s
    BY <1>1, <2>1, <2>4, <2>5 DEF Sound, Bound
  <2>6. CASE \E e \in Line : r.lines = {e} /\ r.sel = Named(s, e)
    BY <2>1, <2>6, NamedIsSound
  <2> QED
    BY <2>4, <2>5, <2>6
<1>2. CASE s.id # None /\ same # <<>>
  <2>1. 1 \in DOMAIN same /\ same[1] \in Line
    BY <1>2, <1>d
  <2>2. same[1] \in Line /\ Id(same[1]) = s.id
    BY <1>d, <2>1 DEF Range
  <2>4. r.lines = {same[1]} /\ r.sel = Named(s, same[1])
    BY <1>2, <1>b, <2>2 DEF Named, Id
  <2>5. Whole(s) => same[1].sub = s.sub
    BY <2>2 DEF Whole, Id
  <2> QED
    BY <2>2, <2>4, <2>5, NamedIsSound
<1>3. CASE s.id # None /\ same = <<>>
  BY <1>3, <1>c, OwnListIsSound
<1> QED
  BY <1>1, <1>2, <1>3

-----------------------------------------------------------------------------
(* Every step, and the theorems.                                           *)

\* Only a handler adds a list.
LEMMA AddsAreHandlers ==
  ASSUME IInv, NEW t \in Callers, verb[t] = "add"
  PROVE  t \in Handlers
BY DEF IInv, VerbAt, Callers

\* What a thread does in fetchInto.
LEMMA StepKeeps ==
  ASSUME IInv, NEW t \in Callers \cup Fetchers, Step(t)
  PROVE  IInv'
<1>1. UNCHANGED selVars
  BY DEF Step
<1>2. CASE t \in Fetchers
  BY <1>1, <1>2, FetchOfRefresh, FetchFailsOfRefresh, SaveCacheOfRefresh, Zenon DEF Step
<1>3. CASE t \in Callers /\ verb[t] = "add"
  BY <1>1, <1>3, AddsAreHandlers, FetchStep, FetchFailsOfAdd, SaveCacheOfAdd, Zenon DEF Step
<1>4. CASE t \in Callers /\ verb[t] # "add"
  BY <1>1, <1>4, FetchStep, FetchFailsOfCaller, SaveCacheOfCaller, Zenon DEF Step
<1> QED
  BY <1>2, <1>3, <1>4

\* What a thread does in allEntries.
LEMMA CallerKeeps ==
  ASSUME IInv, NEW t \in Callers, CallerStep(t)
  PROVE  IInv'
<1>1. CASE Read(t)
  <2>1. CASE Head(todo[t]) \in Remote /\ ~Cached(Head(todo[t]))
    BY <1>1, <2>1, ReadFetches
  <2>2. CASE ~(Head(todo[t]) \in Remote /\ ~Cached(Head(todo[t])))
    BY <1>1, <2>2, ReadTakes
  <2> QED
    BY <2>1, <2>2
<1>2. CASE Snapshot(t)
  <2>1. InScope(ScopeOf(t)) \in Seq(Urls)
    BY InScopeType DEF IInv, ListTypes
  <2> QED
    BY <1>2, <2>1, SnapshotStep
<1> QED
  BY <1>1, <1>2, ReturnStep, Zenon DEF CallerStep

LEMMA RequestKeeps ==
  ASSUME IInv, Requests
  PROVE  IInv'
<1>1. PICK h \in Handlers :
        \/ \E u \in Remote : Add(h, u) /\ UNCHANGED selVars
        \/ \E u \in Inline : AddInline(h, u) /\ UNCHANGED selVars
        \/ \E N \in SUBSET Urls : Drop(h, N)
        \/ \E ask \in Asks : Connect(h, ask)
  BY Zenon DEF Requests
<1>2. CASE \E u \in Remote : Add(h, u) /\ UNCHANGED selVars
  <2>1. PICK u \in Remote : Add(h, u) /\ UNCHANGED selVars
    BY <1>2
  <2>2. CASE u \in Subs
    BY <2>1, <2>2, Frame DEF Add
  <2> QED
    BY <2>1, <2>2, AddStep
<1>3. CASE \E u \in Inline : AddInline(h, u) /\ UNCHANGED selVars
  <2>1. PICK u \in Inline : AddInline(h, u) /\ UNCHANGED selVars
    BY <1>3
  <2>2. CASE u \in Subs
    BY <2>1, <2>2, Frame DEF AddInline, localVars
  <2> QED
    BY <2>1, <2>2, AddInlineStep
<1>4. CASE \E N \in SUBSET Urls : Drop(h, N)
  <2>1. PICK N \in SUBSET Urls : Drop(h, N)
    BY <1>4
  <2>2. PICK next \in {"stop", "idle"} : RemoveSubs(h, N, next) /\ UNCHANGED selVars
    BY <2>1 DEF Drop
  <2>3. Only(cfg.subs, Urls \ N) \in Seq(Urls) /\ IsInjective(Only(cfg.subs, Urls \ N))
    BY OnlyKeeps DEF IInv, ListTypes, NoDuplicates
  <2> QED
    BY <2>2, <2>3, RemoveStep
<1>5. CASE \E ask \in Asks : Connect(h, ask)
  <2>1. PICK ask \in Asks : Connect(h, ask)
    BY <1>5
  <2>2. CASE cfg.subs = <<>>
    BY <2>1, <2>2, Frame DEF Connect, selVars
  <2> QED
    BY <2>1, <2>2, ConnectStep
<1> QED
  BY <1>1, <1>2, <1>3, <1>4, <1>5

\* What a loop resolves.
LEMMA LoopIsSound ==
  ASSUME IInv, LoopLive
  PROVE  Sound(Resolve(all[Loop], lsel), lsel)
<1>1. lsel \in Selections /\ all[Loop] \in Seq(Line) /\ cfg.subs \in Seq(Urls)
  BY Distinct DEF IInv, ListTypes, SelTypes, Loops
<1> QED
  BY <1>1, ResolveIsSound

LEMMA LoopKeeps ==
  ASSUME IInv, LoopStep \/ LineEnds
  PROVE  IInv'
<1>1. Loop \in Callers
  BY Distinct
<1>2. CASE Step(Loop) \/ CallerStep(Loop)
  BY <1>1, <1>2, StepKeeps, CallerKeeps
<1>3. CASE \E e \in cands : \E ok \in BOOLEAN : LoopTries(e, ok)
  BY <1>3, LoopTriesStep
<1>4. CASE LoopResolves
  <2>1. LoopLive
    BY <1>4 DEF LoopResolves, Loaded, LoopLive
  <2> QED
    BY <1>4, <2>1, LoopIsSound, LoopResolvesStep
<1> QED
  BY <1>2, <1>3, <1>4, LoopStopsStep, LoopFetchStopsStep, LoopRetriesStep, LoopEndsStep,
     RoundEndsStep, LineEndsStep, Zenon DEF LoopStep

LEMMA HandlerKeeps ==
  ASSUME IInv, NEW h \in Handlers, HandlerStep(h)
  PROVE  IInv'
<1>1. h \in Who /\ h \in Callers
  BY Distinct
<1>2. CASE Step(h) \/ CallerStep(h) \/ Stopped(h) \/ StartLoop(h)
  BY <1>1, <1>2, StepKeeps, CallerKeeps, StoppedStep, StartLoopStep
<1>3. CASE \E f \in {"id", "sub"} : Copy(h, f)
  <2>1. PICK f \in {"id", "sub"} : Copy(h, f)
    BY <1>3
  <2>2. pc[h] = "copy" \/ pc[h] = f
    BY <2>1 DEF Copy
  <2> QED
    BY <2>1, <2>2, CopyFirstStep, CopySecondStep
<1>4. CASE Rollback(h) /\ UNCHANGED selVars
  BY <1>4, RollbackStep
<1> QED
  BY <1>2, <1>3, <1>4, ConnectFailsStep, StoreStep, LockStep, ForgetStep, Zenon DEF HandlerStep

LEMMA RefreshKeeps ==
  ASSUME IInv, NEW p \in Refreshers, RefreshStep(p)
  PROVE  IInv'
<1>1. CASE Fetched(p, "after") /\ UNCHANGED selVars
  BY <1>1, FetchedStep
<1>2. CASE AfterRefresh(p)
  <2>1. CASE cfg.sel # None /\ ~LoopLive
    BY <1>2, <2>1, AfterRefreshStarts
  <2>2. CASE cfg.sel # None /\ LoopLive /\ cur # None
    BY <1>2, <2>2, AfterRefreshLooks
  <2>3. CASE ~(cfg.sel # None /\ ~LoopLive) /\ ~(cfg.sel # None /\ LoopLive /\ cur # None)
    BY <1>2, <2>3, AfterRefreshPasses
  <2> QED
    BY <2>1, <2>2, <2>3, Zenon
<1>3. CASE Compare(p)
  BY <1>3, CompareReconnects, ComparePasses, Zenon
<1>4. CASE p = Tick /\ (Step(p) \/ CallerStep(p) \/ Stopped(p) \/ StartLoop(p))
  <2>1. p \in Who /\ p \in Callers
    BY Distinct
  <2> QED
    BY <1>4, <2>1, StepKeeps, CallerKeeps, StoppedStep, StartLoopStep
<1> QED
  BY <1>1, <1>2, <1>3, <1>4, Zenon DEF RefreshStep

\* Every step keeps the invariant.
LEMMA Keeps ==
  ASSUME IInv, [SelNext]_vars
  PROVE  IInv'
<1>1. CASE UNCHANGED vars
  BY <1>1, Frame DEF vars, listVars, localVars
<1>2. CASE \E t \in Fetchers : FetcherStep(t)
  <2>1. PICK t \in Fetchers : FetcherStep(t)
    BY <1>2
  <2>2. CASE Step(t)
    BY <2>2, StepKeeps
  <2>3. CASE Acquire(t) /\ UNCHANGED selVars
    BY <2>3, AcquireStep
  <2> QED
    BY <2>1, <2>2, <2>3, Zenon DEF FetcherStep
<1>3. CASE \E D \in SUBSET Remote : Ticks(D)
  BY <1>3, RefreshBegins, Zenon DEF Ticks
<1>4. CASE \E u \in Remote : HostChanges(u) /\ UNCHANGED selVars
  BY <1>4, HostStep, Zenon
<1>5. CASE Start \/ Requests \/ LoopStep \/ LineEnds
  BY <1>5, StartStep, RequestKeeps, LoopKeeps, Zenon
<1>6. CASE \E h \in Handlers : HandlerStep(h)
  BY <1>6, HandlerKeeps, Zenon
<1>7. CASE \E p \in Refreshers : RefreshStep(p)
  BY <1>7, RefreshKeeps, Zenon
<1> QED
  BY <1>1, <1>2, <1>3, <1>4, <1>5, <1>6, <1>7, Zenon DEF SelNext

\* The invariant holds in every state the daemon reaches: connectMu has one
\* holder, a thread has the selection and the list it works with, and a loop
\* runs exactly when it has a selection (connect.go, handlers.go).
THEOREM Invariance == SelSpec => []IInv
BY Begins, Keeps, PTL DEF SelSpec

\* The types of the selection's state, and that there is a loop exactly when
\* there is a selection for it, a line exactly when it is up (connect.go:255).
THEOREM SelectionTyped == SelSpec => []TypeOK
<1>1. IInv => TypeOK
  BY Distinct DEF IInv, TypeOK, ListTypes, SelTypes, Loops, Who
<1> QED
  BY <1>1, Invariance, PTL

\* A list is on record once, whatever adds, rolls back and removes do together
\* (handlers.go:173).
THEOREM ListsAreDistinct == SelSpec => []NoDuplicates
<1>1. IInv => NoDuplicates
  BY DEF IInv
<1> QED
  BY <1>1, Invariance, PTL

\* A loop tries only lines of the list its selection is bound to, whatever the
\* lists become while it reads them (connect.go:255).
THEOREM LoopTriesItsList == SelSpec => []TriesItsList
<1>1. IInv => TriesItsList
  BY DEF IInv
<1> QED
  BY <1>1, Invariance, PTL

\* Who writes the loop's selection: a start, when no loop runs, and the loop.
LEMMA LoopSelection ==
  ASSUME IInv, SelNext, LoopLive
  PROVE  lsel' = lsel \/ pc'[Loop] = "idle" \/ LoopResolves
<1> USE DEF selVars
<1>1. CASE Start
  BY <1>1, Distinct DEF Start, IInv, Places, LoopLive
<1>2. CASE Requests
  BY <1>2, Zenon DEF Requests, Drop, Connect
<1>3. CASE LoopStep \/ LineEnds
  <2>1. CASE LoopStops \/ LoopEnds
    BY <2>1, Distinct DEF LoopStops, LoopEnds, Leave, Goto, IInv, ListTypes
  <2>2. CASE Step(Loop) \/ CallerStep(Loop) \/ LoopFetchStops \/ LoopRetries \/ RoundEnds \/ LineEnds
    BY <2>2, Zenon DEF Step, CallerStep, Snapshot, Read, Return, LoopFetchStops, LoopRetries, RoundEnds, LineEnds
  <2>3. CASE \E e \in cands : \E ok \in BOOLEAN : LoopTries(e, ok)
    BY <2>3, Zenon DEF LoopTries
  <2> QED
    BY <1>3, <2>1, <2>2, <2>3, Zenon DEF LoopStep
<1>4. ASSUME NEW t \in Who, Step(t) \/ CallerStep(t) \/ Stopped(t) \/ StartLoop(t)
      PROVE  lsel' = lsel
  <2>1. ~StartLoop(t)
    BY DEF StartLoop, IInv, Mutex, LoopLive
  <2> QED
    BY <1>4, <2>1, Zenon DEF Step, CallerStep, Snapshot, Read, Return, Stopped
<1>5. ASSUME NEW h \in Handlers, HandlerStep(h) PROVE lsel' = lsel
  BY <1>4, <1>5, Distinct, Zenon DEF HandlerStep, ConnectFails, Store, Copy, Lock, Forget
<1>6. ASSUME NEW p \in Refreshers, RefreshStep(p) PROVE lsel' = lsel
  BY <1>4, <1>6, Distinct, Zenon DEF RefreshStep, AfterRefresh, Compare
<1>7. ASSUME NEW t \in Fetchers, FetcherStep(t) PROVE lsel' = lsel
  BY <1>7, Zenon DEF FetcherStep, Step
<1>8. ASSUME NEW D, Ticks(D) PROVE lsel' = lsel
  BY <1>8, Zenon DEF Ticks
<1> QED
  BY <1>1, <1>2, <1>3, <1>5, <1>6, <1>7, <1>8, Zenon DEF SelNext

\* A loop whose selection has a line of a list keeps to that list until it ends,
\* whatever becomes of the line and of the lists (connect.go:262).
THEOREM LoopKeepsItsList == SelSpec => KeepsItsList
<1>1. ASSUME IInv, [SelNext]_vars, LoopLive, pc'[Loop] # "idle", Whole(lsel)
      PROVE  Whole(lsel') /\ lsel'.sub = lsel.sub
  <2>1. CASE lsel' = lsel
    BY <1>1, <2>1 DEF Whole, Bound
  <2>2. CASE LoopResolves
    <3>1. Sound(Resolve(all[Loop], lsel), lsel)
      BY <1>1, LoopIsSound
    <3>2. lsel' = Resolve(all[Loop], lsel).sel
      BY <2>2 DEF LoopResolves
    <3> QED
      BY <1>1, <3>1, <3>2, Zenon DEF Sound
  <2>3. CASE UNCHANGED vars
    BY <1>1, <2>3, Zenon DEF vars, selVars
  <2> QED
    BY <1>1, <2>1, <2>2, <2>3, LoopSelection, Zenon
<1>2. IInv /\ [SelNext]_vars =>
        [LoopLive /\ pc'[Loop] # "idle" /\ Whole(lsel) => Whole(lsel') /\ lsel'.sub = lsel.sub]_vars
  BY <1>1, Zenon
<1> QED
  BY <1>2, Invariance, PTL DEF SelSpec, KeepsItsList
=============================================================================
