------------------------------ MODULE Dispatch ------------------------------
(***************************************************************************)
(* The dispatcher: publishers push jobs into a bounded queue, relayer      *)
(* goroutines take them out and start one goroutine for each channel       *)
(* registered for the job's id, and that goroutine waits on the unbuffered *)
(* channel until the subscriber reads or the dispatcher is stopped.        *)
(* Channels come from a pool and go back to it.  Operations that hold the  *)
(* dispatcher's lock are one step each, but for stop, which holds it while *)
(* it waits for the goroutines.                                            *)
(***************************************************************************)
EXTENDS Naturals, Sequences, FiniteSets

CONSTANTS
  Ids,         \* ids that data is published under
  Subs,        \* subscribers
  Chans,       \* channels
  Workers,     \* relayers that a start makes
  NoPipe,      \* "not subscribed"
  JobsLimit,   \* capacity of the jobs channel
  MaxStarts,   \* bound on the number of starts
  MaxPubs      \* bound on the number of publications

Relayers == (1..MaxStarts) \X Workers
Pipe == [id : Ids, c : Chans]
Sender == [c : Chans, n : 1..MaxPubs, g : 1..MaxStarts]

ASSUME ConstantsAssumption ==
  /\ JobsLimit \in Nat \ {0} /\ MaxStarts \in Nat /\ MaxPubs \in Nat
  /\ NoPipe \notin Pipe /\ IsFiniteSet(Ids) /\ IsFiniteSet(Chans)

VARIABLES
  running,   \* Dispatcher.running
  stopping,  \* stop waits for the goroutines and holds the lock
  gen,       \* number of starts: each has its own jobs and shutdown channels
  jobs,      \* jobs[g]: publications queued in the channel of the g-th start
  at,        \* at[r]: the start whose channels relayer r selects on, 0: not there
  senders,   \* goroutines that wait to send publication n on channel c
  known,     \* keys of Dispatcher.routes
  routes,    \* Dispatcher.routes; the order of a slice does not matter
  pool,      \* Dispatcher.outbound
  used,      \* channels that have been made
  closed,    \* channels that are closed
  count,     \* Dispatcher.subscriberCount
  pipe,      \* the Pipe each subscriber holds
  topic,     \* history: the id of each publication
  due        \* history: publications a subscriber is still to get

queues   == <<jobs, topic, due>>
channels == <<known, routes, pool, used, closed, count>>
vars == <<running, stopping, gen, jobs, at, senders, known, routes, pool, used,
          closed, count, pipe, topic, due>>

Routed == UNION {routes[id] : id \in Ids}

\* The jobs and shutdown channels of a start are closed.
Over(g) == g < gen \/ ~running

\* The wait group: relayers and senders have ended.
Quiet == senders = {} /\ \A r \in Relayers : at[r] = 0

-----------------------------------------------------------------------------
(***************************************************************************)
(* start and stop                                                          *)
(***************************************************************************)
start ==
  /\ ~stopping /\ ~running /\ gen < MaxStarts
  /\ running' = TRUE /\ gen' = gen + 1
  /\ at' = [r \in Relayers |-> IF r[1] = gen + 1 THEN gen + 1 ELSE at[r]]
  /\ UNCHANGED <<stopping, queues, senders, channels, pipe>>

\* Mutant of StopBegin: the subscribers are counted out before they are gone.
StopBeginResets ==
  /\ ~stopping /\ running
  /\ running' = FALSE /\ stopping' = TRUE /\ due' = {} /\ count' = 0
  /\ UNCHANGED <<gen, jobs, topic, at, senders, known, routes, pool, used, closed, pipe>>

\* What is queued or waited with may be lost from here on.
StopBegin ==
  /\ ~stopping /\ running
  /\ running' = FALSE /\ stopping' = TRUE /\ due' = {}
  /\ UNCHANGED <<gen, jobs, topic, at, senders, channels, pipe>>

\* Mutant of StopClose: the pipes are closed without waiting.
StopCloseAtOnce ==
  /\ stopping
  /\ stopping' = FALSE
  /\ closed' = closed \cup Routed /\ routes' = [id \in Ids |-> {}]
  /\ UNCHANGED <<running, gen, queues, at, senders, known, pool, used, count, pipe>>

StopClose ==
  /\ stopping /\ Quiet
  /\ stopping' = FALSE
  /\ closed' = closed \cup Routed /\ routes' = [id \in Ids |-> {}]
  /\ UNCHANGED <<running, gen, queues, at, senders, known, pool, used, count, pipe>>

\* A second has passed: the pipes stay as they are.
StopTimesOut ==
  /\ stopping
  /\ stopping' = FALSE
  /\ UNCHANGED <<running, gen, queues, at, senders, channels, pipe>>

-----------------------------------------------------------------------------
(***************************************************************************)
(* Relayers and senders                                                    *)
(***************************************************************************)
\* Mutant of relay: a channel that somebody already waits on is passed over.
relayDropping(n) ==
  senders \cup {[c |-> c, n |-> n, g |-> gen] :
                  c \in {x \in routes[topic[n]] : \A s \in senders : s.c # x}}

\* A goroutine for every channel registered by now.
relay(n) == senders \cup {[c |-> c, n |-> n, g |-> gen] : c \in routes[topic[n]]}

\* A closed channel still hands out what is in it.
RelayerJob(r) ==
  /\ at[r] # 0 /\ jobs[at[r]] # <<>>
  /\ jobs' = [jobs EXCEPT ![at[r]] = Tail(@)]
  /\ LET n == Head(jobs[at[r]]) IN
     senders' = IF topic[n] \in known THEN relay(n) ELSE senders
  /\ at' = [at EXCEPT ![r] = gen]
  /\ UNCHANGED <<running, stopping, gen, topic, due, channels, pipe>>

\* The empty job of a closed channel: select evaluates the channels anew.
RelayerEmptyJob(r) ==
  /\ at[r] # 0 /\ Over(at[r]) /\ jobs[at[r]] = <<>>
  /\ at' = [at EXCEPT ![r] = gen]
  /\ UNCHANGED <<running, stopping, gen, queues, senders, channels, pipe>>

RelayerEnds(r) ==
  /\ at[r] # 0 /\ Over(at[r])
  /\ at' = [at EXCEPT ![r] = 0]
  /\ UNCHANGED <<running, stopping, gen, queues, senders, channels, pipe>>

\* Mutant of SenderEnds: only the subscriber can release a sender.
SenderEndsNever(s) == FALSE /\ UNCHANGED vars

SenderEnds(s) ==
  /\ s \in senders /\ Over(s.g)
  /\ senders' = senders \ {s}
  /\ UNCHANGED <<running, stopping, gen, queues, at, channels, pipe>>

\* A goroutine that gets to its select only after the next start.
SenderLate(s) ==
  /\ s \in senders /\ s.g < gen
  /\ senders' = (senders \ {s}) \cup {[s EXCEPT !.g = gen]}
  /\ UNCHANGED <<running, stopping, gen, queues, at, channels, pipe>>

-----------------------------------------------------------------------------
(***************************************************************************)
(* Publishers and subscribers                                              *)
(***************************************************************************)
getNewID(id) ==
  /\ ~stopping /\ id \notin known
  /\ known' = known \cup {id}
  /\ UNCHANGED <<running, stopping, gen, queues, at, senders, routes, pool, used,
                 closed, count, pipe>>

Holds(p, id) == pipe[p] # NoPipe /\ pipe[p].id = id /\ pipe[p].c \in routes[id]

\* The push does not wait: at the limit it is an error.
Queues == running /\ Len(jobs[gen]) < JobsLimit

\* Mux.Publish and publish.
publish(id) ==
  /\ ~stopping /\ Len(topic) < MaxPubs
  /\ LET n == Len(topic) + 1 IN
     /\ topic' = Append(topic, id)
     /\ jobs' = IF count > 0 /\ Queues THEN [jobs EXCEPT ![gen] = Append(@, n)] ELSE jobs
     /\ due' = IF Queues THEN due \cup {<<p, n>> : p \in {q \in Subs : Holds(q, id)}} ELSE due
  /\ UNCHANGED <<running, stopping, gen, at, senders, channels, pipe>>

\* The pool hands out a channel it has, or a new one.
subscribe(p, id) ==
  /\ ~stopping /\ running /\ pipe[p] = NoPipe /\ id \in known
  /\ \E c \in pool \cup (Chans \ used) :
       /\ pool' = pool \ {c} /\ used' = used \cup {c}
       /\ routes' = [routes EXCEPT ![id] = @ \cup {c}]
       /\ pipe' = [pipe EXCEPT ![p] = [id |-> id, c |-> c]]
  /\ count' = count + 1
  /\ UNCHANGED <<running, stopping, gen, queues, at, senders, known, closed>>

Receive(p, s) ==
  /\ pipe[p] # NoPipe /\ s \in senders /\ s.c = pipe[p].c
  /\ senders' = senders \ {s} /\ due' = due \ {<<p, s.n>>}
  /\ UNCHANGED <<running, stopping, gen, jobs, topic, at, channels, pipe>>

Leaves(p) ==
  /\ pipe' = [pipe EXCEPT ![p] = NoPipe]
  /\ due' = {d \in due : d[1] # p}

\* A read that does not wait: it finds a sender if one is there in time.
drain(c) ==
  senders' \in {senders} \cup {senders \ {s} : s \in {x \in senders : x.c = c}}

\* Mutant of unsubscribe: also a stopped dispatcher takes the channel back.
unsubscribeAlways(p) ==
  /\ ~stopping /\ pipe[p] # NoPipe
  /\ LET id == pipe[p].id  c == pipe[p].c IN
     IF running /\ c \in routes[id]
     THEN /\ routes' = [routes EXCEPT ![id] = @ \ {c}] /\ count' = count - 1
          /\ drain(c) /\ pool' = pool \cup {c}
     ELSE /\ pool' = IF c \in closed THEN pool ELSE pool \cup {c}
          /\ UNCHANGED <<routes, count, senders>>
  /\ Leaves(p)
  /\ UNCHANGED <<running, stopping, gen, jobs, topic, at, known, used, closed>>

\* Pipe.Release, once for each Subscribe.
unsubscribe(p) ==
  /\ ~stopping /\ pipe[p] # NoPipe
  /\ LET id == pipe[p].id  c == pipe[p].c IN
     IF running /\ c \in routes[id]
     THEN /\ routes' = [routes EXCEPT ![id] = @ \ {c}] /\ count' = count - 1
          /\ drain(c) /\ pool' = pool \cup {c}
     ELSE UNCHANGED <<routes, count, senders, pool>>
  /\ Leaves(p)
  /\ UNCHANGED <<running, stopping, gen, jobs, topic, at, known, used, closed>>

-----------------------------------------------------------------------------
Init ==
  /\ running = FALSE /\ stopping = FALSE /\ gen = 0
  /\ jobs = [g \in 1..MaxStarts |-> <<>>] /\ at = [r \in Relayers |-> 0] /\ senders = {}
  /\ known = {} /\ routes = [id \in Ids |-> {}]
  /\ pool = {} /\ used = {} /\ closed = {} /\ count = 0
  /\ pipe = [p \in Subs |-> NoPipe] /\ topic = <<>> /\ due = {}

StopNext == StopBegin \/ StopClose \/ StopTimesOut
RelayerNext(r) == RelayerJob(r) \/ RelayerEmptyJob(r) \/ RelayerEnds(r)

Next ==
  \/ start \/ StopNext
  \/ \E r \in Relayers : RelayerNext(r)
  \/ \E s \in senders : SenderEnds(s) \/ SenderLate(s)
  \/ \E id \in Ids : getNewID(id) \/ publish(id)
  \/ \E p \in Subs : \/ unsubscribe(p)
                     \/ \E id \in Ids : subscribe(p, id)
                     \/ \E s \in senders : Receive(p, s)

Spec == Init /\ [][Next]_vars

\* Goroutines go on, a closed channel is noticed and subscribers read their
\* channel until they release it.  Nothing is assumed of who publishes, and of
\* who starts and stops.
Fairness ==
  /\ WF_vars(StopClose \/ StopTimesOut)
  /\ \A r \in Relayers : WF_vars(RelayerJob(r)) /\ WF_vars(RelayerEnds(r))
  /\ \A c \in Chans, n \in 1..MaxPubs :
       /\ WF_vars(\E s \in senders : s.c = c /\ s.n = n /\ SenderEnds(s))
       /\ \A p \in Subs : WF_vars(\E s \in senders : s.c = c /\ s.n = n /\ Receive(p, s))

FairSpec == Spec /\ Fairness

-----------------------------------------------------------------------------
(***************************************************************************)
(* Properties                                                              *)
(***************************************************************************)
\* Types; in particular the count of subscribers never falls below zero.
TypeOK ==
  /\ running \in BOOLEAN /\ stopping \in BOOLEAN /\ gen \in 0..MaxStarts
  /\ jobs \in [1..MaxStarts -> Seq(1..MaxPubs)]
  /\ at \in [Relayers -> 0..MaxStarts] /\ senders \subseteq Sender
  /\ known \subseteq Ids /\ routes \in [Ids -> SUBSET Chans]
  /\ pool \subseteq Chans /\ used \subseteq Chans /\ closed \subseteq Chans
  /\ count \in Nat
  /\ pipe \in [Subs -> Pipe \cup {NoPipe}]
  /\ topic \in Seq(Ids) /\ due \subseteq Subs \X (1..MaxPubs)

\* No goroutine ever waits to send on a channel that is closed, which would be a
\* panic: stop closes the pipes when the last sender is gone, and what is closed
\* never gets back into the routes, not even after a stop that timed out.
NoSendOnClosed == \A s \in senders : s.c \notin closed

\* A channel has one owner: one subscriber, under one id, or the pool.
ChannelsOwned ==
  /\ \A p, q \in Subs : pipe[p] # NoPipe /\ pipe[q] # NoPipe /\ pipe[p].c = pipe[q].c => p = q
  /\ \A i, j \in Ids : routes[i] \cap routes[j] # {} => i = j
  /\ pool \cap Routed = {} /\ \A p \in Subs : pipe[p] # NoPipe => pipe[p].c \notin pool

Registered == {x \in Ids \X Chans : x[2] \in routes[x[1]]}

\* Publish looks at the count before it takes the lock and publishes nothing at
\* zero: the count is never below the number of channels in the routes.
CountCovers == Cardinality(Registered) <= count

\* What is queued for a subscriber reaches it, unless it releases its pipe or
\* the dispatcher is stopped: no slow subscriber holds up another.
Delivered == \A p \in Subs, n \in 1..MaxPubs : <<p, n>> \in due ~> <<p, n>> \notin due

\* A dispatcher stopped for good leaves no relayer and no sender behind, whether
\* or not subscribers still read.
AllEnd == <>[]~running => <>[]Quiet
=============================================================================
