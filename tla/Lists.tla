------------------------------- MODULE Lists --------------------------------
(***************************************************************************)
(* The lists of the Linux daemon: the requests that add and remove them,   *)
(* the refreshes that fetch them, and the files they are kept in           *)
(* (cli/internal/daemon handlers.go and connect.go, cli/internal/store).   *)
(*                                                                         *)
(* Every goroutine is a thread with its own program counter.  A step ends  *)
(* where another goroutine can see what it left: at the end of a critical  *)
(* section of d.mu, when a host answers, when a file is saved.  A list is  *)
(* its URL, what its host sends an element of Hosts; titles, intervals,    *)
(* error texts and the wording of the replies are left out.  What the      *)
(* config file holds, and saves of it that come late or fail, are in       *)
(* module Daemon.  Module Selection adds the selection and its connect     *)
(* loop.                                                                   *)
(***************************************************************************)
EXTENDS Naturals, FiniteSets, Sequences, Functions

CONSTANTS Handlers,     \* goroutines that serve control requests
          Tick,         \* the goroutine of refreshLoop
          Loop,         \* the goroutine of the connect loop (module Selection)
          Refreshers,   \* those of Handlers and Tick that refresh
          Remote,       \* https:// lists
          Inline,       \* lists that are their own body
          Hosts,        \* what the host of a list may answer
          Refused,      \* the answer that turns this device away
          Down,         \* no answer: the fetch fails
          Slots,        \* fetches of one refresh at a time (4 in the code)
          Stored,       \* the configs a first start may find on disk
          Verbs,        \* the requests that arrive
          Faults,       \* what may fail: "save"
          MaxRequests,  \* bound on the requests of a behaviour
          None, Free

Urls == Remote \cup Inline

Fetchers == Refreshers \X Remote

Threads == Handlers \cup {Tick, Loop} \cup Fetchers

ASSUME ThreadsAssumption == /\ Refreshers \subseteq Handlers \cup {Tick}
                            /\ Tick \notin Handlers /\ Loop \notin Handlers \cup {Tick}
                            /\ (Handlers \cup {Tick, Loop}) \cap Fetchers = {}
                            /\ Free \notin Threads

ASSUME HostsAssumption == /\ Remote \cap Inline = {} /\ None \notin Urls
                          /\ DOMAIN Hosts = Remote
                          /\ Slots \in Nat \ {0}

\* The config on disk is one this program wrote.
ASSUME StoredAssumption ==
  \A c \in Stored : /\ c = [subs |-> c.subs, sel |-> c.sel]
                    /\ c.subs \in Seq(Urls) /\ IsInjective(c.subs)

VARIABLES
  up,        \* the process runs
  cfg,       \* d.cfg: its subscriptions and its selection
  cache,     \* the cache file of each list; None: there is none
  host,      \* what the host of each list answers now
  requests,  \* how many requests came
  \* threads: where each is, and its locals
  pc,
  verb,      \* the request it serves
  url,       \* the list it fetches
  got        \* the answer it had

localVars == <<pc, verb, url, got>>
listVars == <<up, cfg, cache, host, requests, localVars>>

\* The elements of s that are in S, in their order (SelectSeq, by position).
Nth(K, k) == CHOOSE i \in K : Cardinality({j \in K : j <= i}) = k

Only(s, S) ==
  LET K == {i \in DOMAIN s : s[i] \in S}
  IN  [k \in 1..Cardinality(K) |-> s[Nth(K, k)]]

Goto(t, label) == pc' = [pc EXCEPT ![t] = label]

\* A thread that is done forgets its locals.
Leave(t, label) ==
  LET or(v, blank) == IF label = "idle" THEN [v EXCEPT ![t] = blank] ELSE v
  IN  /\ Goto(t, label)
      /\ verb' = or(verb, "none") /\ url' = or(url, None)
      /\ got' = or(got, None)

Subs == Range(cfg.subs)

Cached(u) == cache[u] # None

Init ==
  /\ up = FALSE
  /\ cfg \in Stored
  /\ cache \in {c \in [Remote -> (UNION Range(Hosts)) \cup {None}] :
                 \A u \in Remote : c[u] \in (Hosts[u] \ {Down}) \cup {None}}
  /\ host \in {hs \in [Remote -> UNION Range(Hosts)] : \A u \in Remote : hs[u] \in Hosts[u]}
  /\ requests = 0
  /\ pc = [t \in Threads |-> "idle"] /\ verb = [t \in Threads |-> "none"]
  /\ url = [t \in Threads |-> None] /\ got = [t \in Threads |-> None]

-----------------------------------------------------------------------------
(* The process and the hosts.                                              *)

\* ensureConfig has read the config.
Boot ==
  /\ ~up /\ up' = TRUE
  /\ UNCHANGED <<cfg, cache, host, requests, localVars>>

\* A provider changes its list, turns this device away or is not reached.  The
\* change is put off to the next fetch, the first to see it.
HostChanges(u) ==
  /\ \E t \in Threads : pc[t] = "fetch" /\ url[t] = u
  /\ \E a \in Hosts[u] : host' = [host EXCEPT ![u] = a]
  /\ UNCHANGED <<up, cfg, cache, requests, localVars>>

-----------------------------------------------------------------------------
(* fetchInto, for every caller.                                            *)

\* It returned an error, or the list.
Missed(t) == IF t \in Fetchers THEN "idle"
             ELSE IF verb[t] = "add" THEN "rollback" ELSE "missed"

Had(t) == IF t \in Fetchers \/ verb[t] = "add" THEN "idle" ELSE "had"

\* A refusal is an answer too: it becomes a record without lines.
Fetch(t) ==
  /\ pc[t] = "fetch" /\ host[url[t]] # Down
  /\ got' = [got EXCEPT ![t] = host[url[t]]]
  /\ Goto(t, "save")
  /\ UNCHANGED <<up, cfg, cache, host, requests, verb, url>>

FetchFails(t) ==
  /\ pc[t] = "fetch" /\ host[url[t]] = Down
  /\ Leave(t, Missed(t))
  /\ UNCHANGED <<up, cfg, cache, host, requests>>

\* saveCache: writeAtomic under saveMu, so a reader finds a whole file.
SaveCache(t) ==
  /\ pc[t] = "save"
  /\ cache' = [cache EXCEPT ![url[t]] = got[t]]
  /\ Leave(t, Had(t))
  /\ UNCHANGED <<up, cfg, host, requests>>

SaveFails(t) ==
  /\ "save" \in Faults /\ pc[t] = "save"
  /\ Leave(t, Missed(t))
  /\ UNCHANGED <<up, cfg, cache, host, requests>>

-----------------------------------------------------------------------------
(* The requests.                                                           *)

Ask(h, v) ==
  /\ v \in Verbs /\ up /\ pc[h] = "idle"
  /\ requests < MaxRequests /\ requests' = requests + 1

\* add of a list's URL, to the end of its first critical section.
Add(h, u) ==
  /\ Ask(h, "add")
  /\ IF u \in Subs
     THEN UNCHANGED <<cfg, verb, url, pc>>
     ELSE /\ cfg' = [cfg EXCEPT !.subs = Append(@, u)]
          /\ verb' = [verb EXCEPT ![h] = "add"] /\ url' = [url EXCEPT ![h] = u]
          /\ Goto(h, "fetch")
  /\ UNCHANGED <<up, cache, host, got>>

\* The fetch of an add failed: the last subscription is dropped.  With none
\* left the slice is out of range, and the panic ends the process.
Rollback(h) ==
  /\ pc[h] = "rollback" /\ cfg.subs # <<>>
  /\ cfg' = [cfg EXCEPT !.subs = SubSeq(@, 1, Len(@) - 1)]
  /\ Leave(h, "idle")
  /\ UNCHANGED <<up, cache, host, requests>>

RollbackPanics(h) ==
  /\ pc[h] = "rollback" /\ cfg.subs = <<>>
  /\ up' = FALSE
  /\ pc' = [t \in Threads |-> "idle"] /\ verb' = [t \in Threads |-> "none"]
  /\ url' = [t \in Threads |-> None] /\ got' = [t \in Threads |-> None]
  /\ UNCHANGED <<cfg, cache, host, requests>>

AddInline(h, u) ==
  /\ Ask(h, "addInline")
  /\ IF u \in Subs
     THEN UNCHANGED cfg
     ELSE cfg' = [cfg EXCEPT !.subs = Append(@, u)]
  /\ UNCHANGED <<up, cache, host, localVars>>

\* remove: the subscriptions in N go; next is what follows.
RemoveSubs(h, N, next) ==
  /\ Ask(h, "remove")
  /\ cfg' = [cfg EXCEPT !.subs = Only(@, Urls \ N)]
  /\ verb' = [verb EXCEPT ![h] = IF next = "idle" THEN @ ELSE "remove"]
  /\ Goto(h, next)
  /\ UNCHANGED <<up, cache, host, url, got>>

-----------------------------------------------------------------------------
(* refresh: the due lists of a snapshot, Slots at a time.                  *)

\* A list without a cache is due; the clock says which of the others are.  A
\* request makes every list due.
Due(p) ==
  LET all == Subs \cap Remote
  IN  IF p = Tick THEN {D \in SUBSET all : \A u \in all : ~Cached(u) => u \in D} ELSE {all}

Refresh(p, D) ==
  /\ up /\ pc[p] = "idle" /\ D \in Due(p)
  /\ IF p = Tick THEN UNCHANGED requests ELSE Ask(p, "refresh")
  /\ pc' = [t \in Threads |-> IF t = p THEN "wait"
                              ELSE IF t \in {p} \X D THEN "sem" ELSE pc[t]]
  /\ url' = [t \in Threads |-> IF t \in {p} \X D THEN t[2] ELSE url[t]]
  /\ UNCHANGED <<up, cfg, cache, host, verb, got>>

Holding(p) == {t \in {p} \X Remote : pc[t] \notin {"idle", "sem"}}

Acquire(t) ==
  /\ pc[t] = "sem" /\ Cardinality(Holding(t[1])) < Slots
  /\ Goto(t, "fetch")
  /\ UNCHANGED <<up, cfg, cache, host, requests, verb, url, got>>

\* wg.Wait is over: afterRefresh comes next.
Fetched(p, next) ==
  /\ pc[p] = "wait" /\ \A u \in Remote : pc[<<p, u>>] = "idle"
  /\ Goto(p, next)
  /\ UNCHANGED <<up, cfg, cache, host, requests, verb, url, got>>

-----------------------------------------------------------------------------
Fetching == \E t \in Threads : Fetch(t) \/ FetchFails(t) \/ SaveCache(t) \/ SaveFails(t)

Adding == \E h \in Handlers : \/ \E u \in Remote : Add(h, u)
                              \/ \E u \in Inline : AddInline(h, u)
                              \/ Rollback(h)

\* The lists alone, with nothing selected.
Next == \/ Boot \/ Fetching \/ Adding
        \/ \E u \in Remote : HostChanges(u)
        \/ \E h \in Handlers : \/ RollbackPanics(h)
                               \/ \E N \in SUBSET Urls : RemoveSubs(h, N, "idle")
        \/ \E p \in Refreshers : Fetched(p, "idle") \/ \E D \in SUBSET Remote : Refresh(p, D)
        \/ \E t \in Fetchers : Acquire(t)

Spec == Init /\ [][Next]_listVars

-----------------------------------------------------------------------------
\* A list is on record once, however many requests add it together
\* (handlers.go:173, the check and the append are one critical section).
NoDuplicates == IsInjective(cfg.subs)

\* A list whose add was answered goes off the record only by a request to
\* remove it: even one whose host refuses this device "stays on record"
\* (docs/cli.md:152, handlers.go:191).
AddedStays ==
  [][\A u \in Subs \ Range(cfg'.subs) :
       \/ requests' # requests
       \/ \E h \in Handlers : verb[h] = "add" /\ url[h] = u]_listVars
=============================================================================
