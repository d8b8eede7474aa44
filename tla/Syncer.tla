------------------------------- MODULE Syncer -------------------------------
(***************************************************************************)
(* The currency pair syncer (engine.SyncManager): an agent for every       *)
(* enabled pair with a tracker for each kind of data, workers that refresh *)
(* over REST what the websocket does not bring, and the wait group that    *)
(* tells when everything has been synchronised once.                       *)
(*                                                                         *)
(* A tracker uses either the websocket or REST; it is late when the        *)
(* time-out of what it uses has passed (TimeoutREST <= TimeoutWebsocket).  *)
(***************************************************************************)
EXTENDS Naturals, FiniteSets, FiniteSetsExt

CONSTANTS
  Keys,          \* pairs of the exchange
  Agents,        \* currencyPairSyncAgent structures, a bound on those made
  Items,         \* kinds of data synchronised
  Workers,       \* worker goroutines, a bound on those alive
  NumWorkers,    \* started by each Start
  MaxStarts,     \* bound on calls of Start
  Continuous,    \* SynchronizeContinuously
  Streamed,      \* the websocket routine runs and the exchange has a websocket
  None           \* no agent, nobody

Kinds == {"ticker", "orderbook", "trade"}
Turn == [ticker |-> 1, orderbook |-> 2, trade |-> 3]
Procs == Workers \cup {"start", "ws"}

ASSUME ConstantsAssumption ==
  /\ Items \subseteq Kinds /\ Items # {}
  /\ IsFiniteSet(Agents) /\ IsFiniteSet(Workers)
  /\ NumWorkers \in Nat \ {0} /\ MaxStarts \in Nat \ {0}
  /\ {Continuous, Streamed} \subseteq BOOLEAN
  /\ {"start", "ws"} \cap Workers = {} /\ None \notin Agents \cup Procs

VARIABLES
  enabled, connected,    \* external: the enabled pairs; the websocket is connected
  started, completed,    \* started, initSyncCompleted
  gen, closed,           \* calls of Start; the present shutdown channel is closed
  wg,                    \* initSyncWG
  waiter,                \* the goroutine of each Start that waits for the initial sync
  pairs,                 \* currencyPairs
  tracker, young,        \* of each agent: the trackers, Created within TimeoutWebsocket
  pc, pass, at, left,    \* of each goroutine: place, pairs to do, agent (or the pair it
                         \*   adds), kinds of data to do
  seen,                  \* the shutdown channel a worker waits on
  counted,               \* history: the trackers the wait group counts
  dead                   \* the process has panicked

outside == <<enabled, connected>>
life    == <<started, completed, gen, closed, waiter>>
agents  == <<pairs, tracker, young, counted>>
places  == <<pc, pass, at, left, seen>>
vars == <<enabled, connected, started, completed, gen, closed, wg, waiter, pairs, tracker,
          young, pc, pass, at, left, seen, counted, dead>>

NewTracker(up) == [ws |-> up, data |-> FALSE, late |-> TRUE]
\* Structures that nothing refers to; which of them is used makes no difference.
Unused == {a \in Agents : /\ \A i \in Items : <<a, i>> \notin counted
                         /\ \A k \in Keys : pairs[k] # a
                         /\ \A p \in Procs : at[p] # a}

Init ==
  /\ enabled \in SUBSET Keys /\ connected = FALSE
  /\ started = FALSE /\ completed = FALSE /\ gen = 0 /\ closed = FALSE /\ wg = 0
  /\ waiter = [g \in 1..MaxStarts |-> "none"]
  /\ pairs = [k \in Keys |-> None]
  /\ tracker = [a \in Agents |-> [i \in Items |-> NewTracker(FALSE)]]
  /\ young = [a \in Agents |-> TRUE]
  /\ pc = [p \in Procs |-> "off"] /\ pass = [p \in Procs |-> {}]
  /\ at = [p \in Procs |-> None] /\ left = [p \in Procs |-> {}]
  /\ seen = [w \in Workers |-> 0]
  /\ counted = {} /\ dead = FALSE

At(p, l) == pc' = [pc EXCEPT ![p] = l]

-----------------------------------------------------------------------------
(***************************************************************************)
(* Outside: pairs are enabled, the websocket comes and goes, time passes   *)
(***************************************************************************)
EnablePair(k) ==
  /\ k \notin enabled /\ enabled' = enabled \cup {k}
  /\ UNCHANGED <<connected, life, wg, agents, places, dead>>

Connection ==
  /\ Streamed /\ connected' = ~connected
  /\ UNCHANGED <<enabled, life, wg, agents, places, dead>>

Elapse(a, i) ==
  /\ a \in {pairs[k] : k \in Keys} /\ ~tracker[a][i].late
  /\ tracker' = [tracker EXCEPT ![a][i].late = TRUE]
  /\ UNCHANGED <<outside, life, wg, pairs, young, counted, places, dead>>

Ages(a) ==
  /\ a \in {pairs[k] : k \in Keys} /\ young[a] /\ young' = [young EXCEPT ![a] = FALSE]
  /\ UNCHANGED <<outside, life, wg, pairs, tracker, counted, places, dead>>

-----------------------------------------------------------------------------
(***************************************************************************)
(* Start, Stop and the goroutine that waits for the initial sync           *)
(***************************************************************************)
StartBegin ==
  /\ ~started /\ pc["start"] = "off" /\ gen < MaxStarts
  /\ started' = TRUE /\ At("start", "begin")
  /\ UNCHANGED <<outside, completed, gen, closed, waiter, wg, agents, pass, at, left, seen,
                 dead>>

StartMake ==
  /\ pc["start"] = "begin"
  /\ gen' = gen + 1 /\ closed' = FALSE /\ wg' = wg + 1
  /\ At("start", "look") /\ pass' = [pass EXCEPT !["start"] = enabled]
  /\ UNCHANGED <<outside, started, completed, waiter, agents, at, left, seen, dead>>

\* Mutant of StartEnd: the count of the Start itself is not taken back.
StartEndCounted ==
  /\ pc["start"] = "look" /\ pass["start"] = {}
  /\ waiter' = [waiter EXCEPT ![gen] = "wait"]
  /\ seen' = [w \in Workers |-> IF pc[w] = "off" THEN gen ELSE seen[w]]
  /\ \E ws \in kSubset(NumWorkers, {w \in Workers : pc[w] = "off"}) :
       pc' = [p \in Procs |-> IF p = "start" THEN "off" ELSE IF p \in ws THEN "wait" ELSE pc[p]]
  /\ UNCHANGED <<outside, started, completed, gen, closed, wg, agents, pass, at, left, dead>>

\* With a sync that is not continuous and complete no worker is started.
StartEnd ==
  /\ pc["start"] = "look" /\ pass["start"] = {}
  /\ waiter' = [waiter EXCEPT ![gen] = "wait"]
  /\ seen' = [w \in Workers |-> IF pc[w] = "off" THEN gen ELSE seen[w]]
  /\ IF completed /\ ~Continuous
     THEN At("start", "off") /\ wg' = wg
     ELSE /\ \E ws \in kSubset(NumWorkers, {w \in Workers : pc[w] = "off"}) :
               pc' = [p \in Procs |-> IF p = "start" THEN "off"
                                      ELSE IF p \in ws THEN "wait" ELSE pc[p]]
          /\ wg' = wg - 1
  /\ UNCHANGED <<outside, started, completed, gen, closed, agents, pass, at, left, dead>>

\* Until Start has made its channel, Stop closes none, or a closed one: a panic.
Stop ==
  /\ started /\ started' = FALSE /\ closed' = TRUE /\ dead' = (pc["start"] = "begin")
  /\ UNCHANGED <<outside, completed, gen, waiter, wg, agents, places>>

\* Wait returns at once, or the last Done wakes the goroutine.
WaiterSees(g) ==
  /\ waiter[g] = "wait" /\ wg = 0
  /\ \E l \in {"woken", "past"} : waiter' = [waiter EXCEPT ![g] = l]
  /\ UNCHANGED <<outside, started, completed, gen, closed, wg, agents, places, dead>>

\* external: sync.WaitGroup panics when it is counted up before the goroutine runs on.
WaiterWakes(g) ==
  /\ waiter[g] = "woken"
  /\ IF wg = 0 THEN waiter' = [waiter EXCEPT ![g] = "past"] /\ UNCHANGED dead
               ELSE dead' = TRUE /\ UNCHANGED waiter
  /\ UNCHANGED <<outside, started, completed, gen, closed, wg, agents, places>>

WaiterCompletes(g) ==
  /\ waiter[g] = "past" /\ completed' = TRUE
  /\ waiter' = [waiter EXCEPT ![g] = IF completed \/ Continuous THEN "done" ELSE "stop"]
  /\ UNCHANGED <<outside, started, gen, closed, wg, agents, places, dead>>

WaiterStops(g) ==
  /\ waiter[g] = "stop" /\ waiter' = [waiter EXCEPT ![g] = "done"]
  /\ started' = FALSE /\ closed' = (closed \/ started)
  /\ UNCHANGED <<outside, completed, gen, wg, agents, places, dead>>

-----------------------------------------------------------------------------
(***************************************************************************)
(* get, add and update                                                     *)
(***************************************************************************)
\* Start goes on with the next pair, a worker with the pair's data.
Found(p, k, a) ==
  /\ pass' = [pass EXCEPT ![p] = @ \ {k}]
  /\ at' = [at EXCEPT ![p] = IF p = "start" THEN None ELSE a]
  /\ left' = [left EXCEPT ![p] = IF p = "start" THEN {} ELSE Items]
  /\ At(p, IF p = "start" THEN "look" ELSE "sync")

\* A worker that finds the syncer stopped returns; Start looks at no such thing.
Get(p, k) ==
  /\ pc[p] = "look" /\ k \in pass[p] /\ (p = "start" \/ started)
  /\ IF pairs[k] = None
     THEN At(p, "add") /\ at' = [at EXCEPT ![p] = k] /\ UNCHANGED <<pass, left>>
     ELSE Found(p, k, pairs[k])
  /\ UNCHANGED <<outside, life, wg, agents, seen, dead>>

\* Another goroutine may have added the pair since: its agent is replaced.  A worker goes by
\* what the websocket was when it came to the exchange.
Add(p, k) ==
  LET a == CHOOSE x \in Unused : TRUE IN
  /\ pc[p] = "add" /\ at[p] = k /\ Unused # {}
  /\ Found(p, k, a)
  /\ pairs' = [pairs EXCEPT ![k] = a] /\ young' = [young EXCEPT ![a] = TRUE]
  /\ \E up \in (IF p = "start" THEN {Streamed} ELSE {Streamed, FALSE}) :
       tracker' = [tracker EXCEPT ![a] = [i \in Items |-> NewTracker(up)]]
  /\ IF completed THEN wg' = wg /\ counted' = counted
     ELSE wg' = wg + Cardinality(Items) /\ counted' = counted \cup ({a} \X Items)
  /\ UNCHANGED <<outside, life, seen, dead>>

\* The kind of data the worker has come to.
Now(w, i) == i \in left[w] /\ \A j \in left[w] : Turn[i] <= Turn[j]

\* A tracker stays locked while a worker fetches for it.
Locked(a, i) == \E w \in Workers : pc[w] = "fetch" /\ at[w] = a /\ Now(w, i)

Update(a, i, ws) ==
  /\ tracker' = [tracker EXCEPT ![a][i] = [ws |-> ws, data |-> TRUE, late |-> FALSE]]
  /\ wg' = IF completed \/ tracker[a][i].data THEN wg ELSE wg - 1

\* The websocket routine reports what it has received.  It looks the agent up and then locks
\* the tracker: one step when the lock is free.
WebsocketUpdate(k, i) ==
  /\ pc["ws"] = "off" /\ started /\ waiter[1] # "none" /\ connected /\ pairs[k] # None
  /\ IF Locked(pairs[k], i)
     THEN /\ At("ws", "sync") /\ at' = [at EXCEPT !["ws"] = pairs[k]]
          /\ left' = [left EXCEPT !["ws"] = {i}] /\ UNCHANGED <<tracker, wg>>
     ELSE Update(pairs[k], i, TRUE) /\ UNCHANGED <<pc, at, left>>
  /\ UNCHANGED <<outside, life, pairs, young, counted, pass, seen, dead>>

\* The lock is released; the agent may have been replaced in the meantime.
WebsocketUpdated(i) ==
  /\ pc["ws"] = "sync" /\ i \in left["ws"] /\ ~Locked(at["ws"], i)
  /\ Update(at["ws"], i, TRUE) /\ At("ws", "off")
  /\ at' = [at EXCEPT !["ws"] = None] /\ left' = [left EXCEPT !["ws"] = {}]
  /\ UNCHANGED <<outside, life, pairs, young, counted, pass, seen, dead>>

-----------------------------------------------------------------------------
(***************************************************************************)
(* worker                                                                  *)
(***************************************************************************)
WorkerTick(w) ==
  /\ pc[w] = "wait" /\ At(w, "look") /\ pass' = [pass EXCEPT ![w] = enabled]
  /\ UNCHANGED <<outside, life, wg, agents, at, left, seen, dead>>

WorkerExit(w) ==
  /\ \/ pc[w] = "wait" /\ (seen[w] < gen \/ closed)
     \/ pc[w] = "look" /\ pass[w] # {} /\ ~started
  /\ At(w, "off") /\ pass' = [pass EXCEPT ![w] = {}]
  /\ UNCHANGED <<outside, life, wg, agents, at, left, seen, dead>>

\* The next select looks at the channel that m.shutdown is by then.
WorkerPassed(w) ==
  /\ pc[w] = "look" /\ pass[w] = {}
  /\ At(w, "wait") /\ seen' = [seen EXCEPT ![w] = gen]
  /\ UNCHANGED <<outside, life, wg, agents, pass, at, left, dead>>

\* It goes on with the next kind, or with the next pair.
Onward(w, i) ==
  /\ left' = [left EXCEPT ![w] = @ \ {i}]
  /\ At(w, IF left[w] = {i} THEN "look" ELSE "sync")
  /\ at' = [at EXCEPT ![w] = IF left[w] = {i} THEN None ELSE @]

\* A tracker another worker has locked is left to it.
Busy(w, i) ==
  /\ pc[w] = "sync" /\ Now(w, i) /\ Locked(at[w], i) /\ Onward(w, i)
  /\ UNCHANGED <<outside, life, wg, agents, pass, seen, dead>>

\* Mutant of Downgraded: a connected websocket keeps the ticker of REST, a book never falls back.
DowngradedTicker(a, i) ==
  tracker[a][i].ws /\ tracker[a][i].late /\ ~young[a] /\ i = "ticker" /\ ~connected

\* The websocket has been silent: REST takes over, for a book only if it is disconnected.
Downgraded(a, i) ==
  /\ tracker[a][i].ws /\ tracker[a][i].late /\ ~young[a]
  /\ i = "ticker" \/ (i = "orderbook" /\ ~connected)

Due(a, i) ==
  tracker[a][i].late /\ (i = "trade" \/ ~tracker[a][i].ws \/ Downgraded(a, i))

\* Nothing to do, or a websocket to wait for.
Fresh(w, i) ==
  /\ pc[w] = "sync" /\ Now(w, i) /\ ~Locked(at[w], i) /\ ~Due(at[w], i) /\ Onward(w, i)
  /\ UNCHANGED <<outside, life, wg, agents, pass, seen, dead>>

\* syncTicker and syncOrderbook go to the exchange with the tracker locked; syncTrades only
\* notes the time.
Fetch(w, i) ==
  /\ pc[w] = "sync" /\ Now(w, i) /\ ~Locked(at[w], i) /\ Due(at[w], i)
  /\ IF i = "trade"
     THEN Update(at[w], i, tracker[at[w]][i].ws) /\ Onward(w, i)
     ELSE /\ tracker' = [tracker EXCEPT ![at[w]][i].ws = FALSE] /\ At(w, "fetch")
          /\ UNCHANGED <<wg, at, left>>
  /\ UNCHANGED <<outside, life, pairs, young, counted, pass, seen, dead>>

\* Mutant of Fetched: an error is not noted as an update.
FetchedUndone(w, i) ==
  /\ pc[w] = "fetch" /\ Now(w, i) /\ Onward(w, i)
  /\ Update(at[w], i, FALSE) \/ UNCHANGED <<tracker, wg>>
  /\ UNCHANGED <<outside, life, pairs, young, counted, pass, seen, dead>>

\* The answer, or the error.
Fetched(w, i) ==
  /\ pc[w] = "fetch" /\ Now(w, i)
  /\ Update(at[w], i, FALSE) /\ Onward(w, i)
  /\ UNCHANGED <<outside, life, pairs, young, counted, pass, seen, dead>>

-----------------------------------------------------------------------------
Locate(p) == \E k \in Keys : Get(p, k) \/ Add(p, k)

Work(w) ==
  \/ Locate(w) \/ WorkerTick(w) \/ WorkerExit(w) \/ WorkerPassed(w)
  \/ \E i \in Items : Busy(w, i) \/ Fetch(w, i) \/ Fetched(w, i) \/ Fresh(w, i)

Wait(g) == WaiterSees(g) \/ WaiterWakes(g) \/ WaiterCompletes(g) \/ WaiterStops(g)

Next ==
  /\ ~dead
  /\ \/ \E k \in Keys : EnablePair(k)
     \/ Connection \/ StartBegin \/ StartMake \/ StartEnd \/ Stop \/ Locate("start")
     \/ \E a \in Agents : Ages(a) \/ \E i \in Items : Elapse(a, i)
     \/ \E i \in Items : WebsocketUpdated(i) \/ \E k \in Keys : WebsocketUpdate(k, i)
     \/ \E g \in 1..MaxStarts : Wait(g)
     \/ \E w \in Workers : Work(w)

Spec == Init /\ [][Next]_vars

\* The scheduler runs every goroutine, the exchange answers and time passes.
FairSpec ==
  /\ Spec
  /\ WF_vars(~dead /\ (StartMake \/ Locate("start") \/ StartEnd))
  /\ \A w \in Workers : WF_vars(~dead /\ Work(w))
  /\ \A g \in 1..MaxStarts : WF_vars(~dead /\ Wait(g))
  /\ \A a \in Agents : WF_vars(~dead /\ Ages(a))

-----------------------------------------------------------------------------
\* Every variable has its type.
TypeOK ==
  /\ enabled \subseteq Keys /\ connected \in BOOLEAN /\ started \in BOOLEAN
  /\ completed \in BOOLEAN /\ closed \in BOOLEAN /\ dead \in BOOLEAN
  /\ gen \in 0..MaxStarts /\ wg \in Nat
  /\ waiter \in [1..MaxStarts -> {"none", "wait", "woken", "past", "stop", "done"}]
  /\ pairs \in [Keys -> Agents \cup {None}]
  /\ tracker \in [Agents -> [Items -> [ws : BOOLEAN, data : BOOLEAN, late : BOOLEAN]]]
  /\ young \in [Agents -> BOOLEAN]
  /\ pc \in [Procs -> {"off", "begin", "wait", "look", "add", "sync", "fetch"}]
  /\ pass \in [Procs -> SUBSET Keys] /\ at \in [Procs -> Agents \cup Keys \cup {None}]
  /\ left \in [Procs -> SUBSET Items] /\ seen \in [Workers -> 0..MaxStarts]
  /\ counted \subseteq Agents \X Items

\* What the wait group still waits for.
Owed == {x \in counted : ~tracker[x[1]][x[2]].data}

\* Until the initial sync is complete the wait group counts the Start under way and every
\* tracker without data, agents that were replaced included: it is never counted below
\* zero, which would be a panic, and reaches zero only when every tracker has had data.
WgCounts ==
  ~completed => wg = Cardinality(Owed) + (IF pc["start"] \in {"off", "begin"} THEN 0 ELSE 1)

\* An agent that counted trackers were made for and that is no longer the pair's.
Replaced == \E x \in Owed : \A k \in Keys : pairs[k] # x[1]

Late(k, i) == pairs[k] # None /\ tracker[pairs[k]][i].late

\* Data that is late is refreshed, except that of a book whose websocket is connected: no
\* worker waits for another for ever, and no tracker is left locked by one that has gone.
Refreshed ==
  \A k \in Keys, i \in Items :
    Late(k, i) ~> ~started \/ dead \/ ~Late(k, i) \/ (i = "orderbook" /\ connected)

\* The initial sync comes to an end, unless the agent of a pair was replaced while its
\* trackers were counted, or a book waits for its connected websocket.
InitialSyncEnds ==
  started ~> \/ completed \/ ~started \/ dead \/ Replaced
             \/ connected /\ \E k \in Keys : <<pairs[k], "orderbook">> \in Owed
=============================================================================
