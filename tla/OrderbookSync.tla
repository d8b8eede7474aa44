--------------------------- MODULE OrderbookSync ---------------------------
(***************************************************************************)
(* How Binance keeps one pair's order book: the stream's updates are       *)
(* buffered by the orderbookManager while a worker fetches a snapshot over *)
(* REST, then applied on top of it through buffer.Orderbook to the shared  *)
(* Depth, which the currency pair syncer may overwrite over REST.          *)
(*                                                                         *)
(* The exchange numbers its changes; a book is abstracted to its update id *)
(* and the numbers of the changes it holds, each to a level of its own, so *)
(* that no later change hides a missing one.  A step is what one goroutine *)
(* does under one lock, or between two network calls.                      *)
(***************************************************************************)
EXTENDS Naturals, Sequences, FiniteSets

CONSTANTS
  Workers,       \* goroutines of SynchroniseWebsocketOrderbook
  Empty,         \* changes the exchange announces without a price level
  BufferLimit,   \* maxWSUpdateBuffer
  MaxVersion,    \* bound on the exchange's changes
  MaxOpens,      \* bound on the connections made
  MaxFaults,     \* bound on the faults of a behaviour, each of another kind
  None           \* nobody, nothing

ASSUME ConstantsAssumption ==
  /\ {BufferLimit, MaxOpens} \subseteq Nat \ {0}
  /\ {MaxVersion, MaxFaults} \subseteq Nat
  /\ "reader" \notin Workers /\ None \notin Workers \cup {"reader"} \cup Nat
  /\ None \notin [first : Nat, last : Nat]

Procs == Workers \cup {"reader"}
Message == [first : 1..MaxVersion, last : 1..MaxVersion]

VARIABLES
  version, sent,                    \* external: the exchange's changes, those it has sent
  link, opens, opened,              \* the websocket, the connections made, the version at the last
  fetching, needs, initial, last,   \* fetchingBook, needsFetchingBook, initialSync, lastUpdateID
  buffer, jobs,                     \* the pair's buffer, its jobs in the queue
  lock,                             \* who holds the orderbookManager's lock over a loop
  holder,                           \* Orderbook.ob has the pair
  book,                             \* the Depth
  pc, recent, snap,                 \* of each goroutine: place, id read, snapshot fetched
  update,                           \* the update about to be written
  syncer,                           \* the syncer's snapshot under way
  outrun,                           \* history: the check of the first update may be spent
  faults                            \* history: what has come in between

exchange == <<version, sent>>
conn     == <<link, opens, opened>>
flags    == <<fetching, needs, initial>>
queues   == <<buffer, jobs>>
depth    == <<holder, book, outrun>>
locals   == <<recent, snap, update>>
vars == <<version, sent, link, opens, opened, fetching, needs, initial, last, buffer, jobs, lock,
          holder, book, pc, recent, snap, update, syncer, outrun, faults>>

\* LoadSnapshot of the exchange's book at v; Invalidate.
Snapshot(v, byREST) == [valid |-> TRUE, rest |-> byREST, id |-> v, has |-> 1..v]
Invalid(b) == [valid |-> FALSE, rest |-> b.rest, id |-> 0, has |-> {}]

Init ==
  /\ version = 0 /\ sent = 0 /\ link = "down" /\ opens = 0 /\ opened = 0
  /\ fetching = FALSE /\ needs = TRUE /\ initial = TRUE /\ last = 0
  /\ buffer = <<>> /\ jobs = 0 /\ lock = None
  /\ holder = FALSE /\ book = Invalid(Snapshot(0, FALSE))
  /\ pc = [p \in Procs |-> "off"] /\ recent = [p \in Procs |-> 0]
  /\ snap = [p \in Workers |-> 0] /\ update = None
  /\ syncer = None /\ outrun = FALSE /\ faults = {}

\* Past handleFetchingBook, and not done with the buffer: whoever is here while another fetches
\* may apply by an id read before the snapshot, or turn initialSync off under it.
Applying == {"read", "process", "write"}

At(p, l) == pc' = [pc EXCEPT ![p] = l]
\* The reader goes for its next message, a worker for its next job.
Done(p) == At(p, "wait")
Fault(f) == f \notin faults /\ Cardinality(faults) < MaxFaults /\ faults' = faults \cup {f}

-----------------------------------------------------------------------------
(***************************************************************************)
(* The exchange and the link                                               *)
(***************************************************************************)
Change ==
  /\ version < MaxVersion /\ version' = version + 1
  /\ UNCHANGED <<sent, conn, flags, last, queues, lock, depth, pc, locals, syncer, faults>>

\* WsConnect and setupOrderbookManager, then the subscription.  What the last connection left
\* in the buffer stays in it.
Open ==
  /\ link = "down" /\ opens < MaxOpens
  /\ link' = "up" /\ opens' = opens + 1 /\ opened' = version
  /\ initial' = TRUE /\ needs' = TRUE /\ last' = 0
  /\ pc' = [p \in Procs |-> "wait"] /\ sent' = version
  /\ UNCHANGED <<version, fetching, queues, lock, depth, locals, syncer, faults>>

Close ==
  /\ link = "up" /\ link' = "closing"
  /\ UNCHANGED <<exchange, opens, opened, flags, last, queues, lock, depth, pc, locals,
                 syncer, faults>>

\* wsReadData finds the connection gone.
ReaderExit ==
  /\ link = "closing" /\ pc["reader"] = "wait" /\ At("reader", "off")
  /\ UNCHANGED <<exchange, conn, flags, last, queues, lock, depth, locals, syncer, faults>>

\* A worker sees ShutdownC and throws the jobs away; fetching stays as it is.
WorkerExit(w) ==
  /\ link = "closing" /\ pc[w] = "wait" /\ At(w, "off")
  /\ jobs' = 0
  /\ IF jobs = 0 THEN UNCHANGED faults ELSE Fault("drained")
  /\ UNCHANGED <<exchange, conn, flags, last, buffer, lock, depth, locals, syncer>>

\* Wg.Wait returns and FlushBuffer forgets the pair; the Depth stays.
Closed ==
  /\ link = "closing" /\ \A p \in Procs : pc[p] = "off"
  /\ link' = "down" /\ holder' = FALSE
  /\ UNCHANGED <<exchange, opens, opened, flags, last, queues, lock, book, outrun, pc,
                 locals, syncer, faults>>

\* A message that never gets as far as the orderbookManager.
Skip ==
  /\ link = "up" /\ sent < version /\ \E v \in sent + 1 .. version : sent' = v
  /\ Fault("skipped")
  /\ UNCHANGED <<version, conn, flags, last, queues, lock, depth, pc, locals, syncer>>

-----------------------------------------------------------------------------
(***************************************************************************)
(* UpdateLocalBuffer: stageWsUpdate, then applyBufferUpdate                *)
(***************************************************************************)
\* Mutant of Staged: nothing is taken out of a full buffer, and the reader waits with the lock.
StagedUnpopped(m) ==
  LET full == Len(buffer) = BufferLimit IN
  /\ last' = m.last
  /\ IF full THEN lock' = "reader" /\ UNCHANGED <<buffer, pc>>
     ELSE buffer' = Append(buffer, m) /\ At("reader", "apply") /\ UNCHANGED lock

Staged(m) ==
  LET full == Len(buffer) = BufferLimit IN
  /\ last' = m.last /\ UNCHANGED lock
  /\ buffer' = Append(IF full THEN Tail(buffer) ELSE buffer, m)
  /\ IF full THEN UNCHANGED pc ELSE At("reader", "apply")

Gap(m) == last # 0 /\ m.first # last + 1

\* A message out of sequence is refused, and last stays; the oldest gives way in a full buffer.
StageWsUpdate ==
  /\ link = "up" /\ pc["reader"] = "wait" /\ lock = None
  /\ sent < version
  /\ \E v \in sent + 1 .. version :
       LET m == [first |-> sent + 1, last |-> v] IN
       /\ sent' = v
       /\ IF Gap(m) THEN UNCHANGED <<last, buffer, lock, pc>> ELSE Staged(m)
  /\ UNCHANGED <<version, conn, flags, jobs, depth, locals, syncer, faults>>

\* Mutant of HandleFetchingBook: a fetch under way is not looked at.
HandleFetchingBookTwice(p) ==
  /\ pc[p] = "apply" /\ lock = None
  /\ At(p, IF needs THEN "fetch" ELSE "read")
  /\ fetching' = (fetching \/ needs) /\ needs' = FALSE
  /\ outrun' = (outrun \/ (needs /\ \E q \in Procs : pc[q] \in Applying))
  /\ UNCHANGED <<exchange, conn, initial, last, queues, lock, holder, book, locals, syncer,
                 faults>>

HandleFetchingBook(p) ==
  /\ pc[p] = "apply" /\ lock = None
  /\ At(p, IF fetching THEN "wait" ELSE IF needs THEN "fetch" ELSE "read")
  /\ fetching' = (fetching \/ needs) /\ needs' = (fetching /\ needs)
  /\ outrun' = (outrun \/ (~fetching /\ needs /\ \E q \in Procs : pc[q] \in Applying))
  /\ UNCHANGED <<exchange, conn, initial, last, queues, lock, holder, book, locals, syncer,
                 faults>>

\* fetchBookViaREST
FetchBookViaREST(p) ==
  /\ pc[p] = "fetch" /\ lock = None
  /\ initial' = TRUE /\ fetching' = TRUE /\ jobs' = jobs + 1 /\ Done(p)
  /\ UNCHANGED <<exchange, conn, needs, last, buffer, lock, depth, locals, syncer, faults>>

\* The queue is full of other pairs' jobs.
FetchBlocked(p) ==
  /\ pc[p] = "fetch" /\ lock = None
  /\ initial' = TRUE /\ fetching' = TRUE /\ At(p, "flush") /\ Fault("blocked")
  /\ UNCHANGED <<exchange, conn, needs, last, queues, lock, depth, locals, syncer>>

\* GetOrderbook: nothing is applied to a book that is gone or invalid.
GetOrderbook(p) ==
  /\ pc[p] = "read"
  /\ IF holder /\ book.valid
     THEN recent' = [recent EXCEPT ![p] = book.id] /\ At(p, "process")
     ELSE Done(p) /\ UNCHANGED recent
  /\ UNCHANGED <<exchange, conn, flags, last, queues, lock, depth, snap, update, syncer,
                 faults>>

-----------------------------------------------------------------------------
(***************************************************************************)
(* checkAndProcessUpdate, one message of the buffer a step                 *)
(***************************************************************************)
Entering(p) == pc[p] = "process" /\ lock \in {None, p}

ProcessEnds(p) ==
  /\ Entering(p) /\ buffer = <<>>
  /\ lock' = None /\ recent' = [recent EXCEPT ![p] = 0] /\ Done(p)
  /\ UNCHANGED <<exchange, conn, flags, last, queues, depth, snap, update, syncer, faults>>

\* validate's check of the first update on top of a snapshot.
Aligned(m, r) == initial => r + 1 \in m.first .. m.last

\* The update is old: it is dropped.
Outdated(p) ==
  /\ Entering(p) /\ buffer # <<>> /\ Head(buffer).last <= recent[p]
  /\ lock' = p /\ buffer' = Tail(buffer)
  /\ UNCHANGED <<exchange, conn, flags, last, jobs, depth, pc, locals, syncer, faults>>

Misaligned(p) ==
  /\ Entering(p) /\ buffer # <<>> /\ Head(buffer).last > recent[p]
  /\ ~Aligned(Head(buffer), recent[p])
  /\ lock' = None /\ buffer' = Tail(buffer) /\ At(p, "needs")
  /\ UNCHANGED <<exchange, conn, flags, last, jobs, depth, locals, syncer, faults>>

\* ProcessUpdate up to the check of IsRESTSnapshot.  An update for an invalid book is
\* dropped; one for a book that REST has overwritten invalidates it.
Process(p) ==
  LET m == Head(buffer)
      error == m.first .. m.last \subseteq Empty \/ ~holder \/ (book.valid /\ book.rest) IN
  /\ Entering(p) /\ buffer # <<>> /\ m.last > recent[p] /\ Aligned(m, recent[p])
  /\ buffer' = Tail(buffer) /\ initial' = FALSE
  /\ lock' = IF error THEN None ELSE p
  /\ At(p, IF error THEN "needs" ELSE IF book.valid THEN "write" ELSE "process")
  /\ update' = IF ~error /\ book.valid THEN m ELSE update
  /\ book' = IF holder /\ book.valid /\ book.rest /\ ~(m.first .. m.last \subseteq Empty)
             THEN Invalid(book) ELSE book
  /\ UNCHANGED <<exchange, conn, fetching, needs, last, jobs, holder, outrun, recent, snap,
                 syncer, faults>>

\* Mutant of UpdateBidAskByPrice: the book takes the first id of the update for its own.
UpdateBidAskByPriceFirst(p) ==
  /\ pc[p] = "write" /\ At(p, "process")
  /\ book' = [book EXCEPT !.id = update.first, !.has = @ \cup update.first .. update.last]
  /\ update' = None
  /\ UNCHANGED <<exchange, conn, flags, last, queues, lock, holder, outrun, recent, snap,
                 syncer, faults>>

UpdateBidAskByPrice(p) ==
  /\ pc[p] = "write" /\ At(p, "process")
  /\ book' = [book EXCEPT !.id = update.last, !.has = @ \cup update.first .. update.last]
  /\ update' = None
  /\ UNCHANGED <<exchange, conn, flags, last, queues, lock, holder, outrun, recent, snap,
                 syncer, faults>>

\* The book with the update in it does not verify: it is thrown away.
VerifyFails(p) ==
  /\ pc[p] = "write" /\ At(p, "needs")
  /\ book' = Invalid(book) /\ lock' = None
  /\ UNCHANGED <<exchange, conn, flags, last, queues, holder, outrun, locals, syncer, faults>>

SetNeedsFetchingBook(p) ==
  /\ pc[p] = "needs" /\ lock = None /\ needs' = TRUE /\ Done(p)
  /\ UNCHANGED <<exchange, conn, fetching, initial, last, queues, lock, depth, locals,
                 syncer, faults>>

-----------------------------------------------------------------------------
(***************************************************************************)
(* flushAndCleanup, each flag under a lock of its own                      *)
(***************************************************************************)
FlushOrderbook(p) ==
  /\ pc[p] = "flush" /\ At(p, "bleed")
  /\ book' = IF holder THEN Invalid(book) ELSE book
  /\ UNCHANGED <<exchange, conn, flags, last, queues, lock, holder, outrun, locals, syncer, faults>>

Cleanup(p) ==
  /\ pc[p] = "bleed" /\ lock = None /\ At(p, "unfetch") /\ buffer' = <<>>
  /\ UNCHANGED <<exchange, conn, flags, last, jobs, lock, depth, locals, syncer, faults>>

\* Mutant of CleanupFetching: the fetch that was not queued is not given up.
CleanupFetchingKept(p) ==
  /\ pc[p] = "unfetch" /\ lock = None /\ At(p, "uninit")
  /\ UNCHANGED <<exchange, conn, flags, last, queues, lock, depth, locals, syncer, faults>>

CleanupFetching(p) ==
  /\ pc[p] = "unfetch" /\ lock = None /\ At(p, "uninit") /\ fetching' = FALSE
  /\ UNCHANGED <<exchange, conn, needs, initial, last, queues, lock, depth, locals, syncer,
                 faults>>

CleanupInitial(p) ==
  /\ pc[p] = "uninit" /\ lock = None /\ At(p, "unneed") /\ initial' = FALSE
  /\ UNCHANGED <<exchange, conn, fetching, needs, last, queues, lock, depth, locals, syncer,
                 faults>>

CleanupNeeds(p) ==
  /\ pc[p] = "unneed" /\ lock = None /\ Done(p) /\ needs' = FALSE
  /\ UNCHANGED <<exchange, conn, fetching, initial, last, queues, lock, depth, locals,
                 syncer, faults>>

-----------------------------------------------------------------------------
(***************************************************************************)
(* processJob                                                              *)
(***************************************************************************)
TakeJob(w) ==
  /\ link # "down" /\ pc[w] = "wait" /\ jobs > 0 /\ jobs' = jobs - 1 /\ At(w, "seed")
  /\ UNCHANGED <<exchange, conn, flags, last, buffer, lock, depth, locals, syncer, faults>>

\* SeedLocalCache: the request for the book.
Seed(w) ==
  /\ pc[w] = "seed" /\ At(w, "load") /\ snap' = [snap EXCEPT ![w] = version]
  /\ UNCHANGED <<exchange, conn, flags, last, queues, lock, depth, recent, update, syncer,
                 faults>>

\* The answer is older than the exchange's book, than what the stream has brought, or than
\* an answer before it, as often as it likes.
SeedOld(w) ==
  /\ pc[w] = "seed" /\ At(w, "load")
  /\ \E v \in 0 .. version - 1 : snap' = [snap EXCEPT ![w] = v]
  /\ "old" \in faults \/ Cardinality(faults) < MaxFaults
  /\ faults' = faults \cup {"old"}
  /\ UNCHANGED <<exchange, conn, flags, last, queues, lock, depth, recent, update, syncer>>

\* Nobody gives the fetch up: fetching stays.
SeedFails(w) ==
  /\ pc[w] = "seed" /\ Done(w) /\ Fault("seed")
  /\ UNCHANGED <<exchange, conn, flags, last, queues, lock, depth, locals, syncer>>

\* The ids of the snapshot and of the book it replaces are not compared.  A message the last
\* connection has left may pass for the first update on top of an old snapshot.
LoadSnapshot(w) ==
  /\ pc[w] = "load" /\ At(w, "stop")
  /\ holder' = TRUE /\ book' = Snapshot(snap[w], FALSE) /\ snap' = [snap EXCEPT ![w] = 0]
  /\ outrun' = (~initial \/ (\E p \in Procs : pc[p] \in Applying \cup {"uninit"})
                        \/ (\E i \in 1..Len(buffer) : buffer[i].last \in snap[w] + 1 .. opened))
  /\ UNCHANGED <<exchange, conn, flags, last, queues, lock, recent, update, syncer, faults>>

StopFetchingBook(w) ==
  /\ pc[w] = "stop" /\ lock = None
  /\ At(w, IF fetching THEN "apply" ELSE "wait") /\ fetching' = FALSE
  /\ UNCHANGED <<exchange, conn, needs, initial, last, queues, lock, depth, locals, syncer,
                 faults>>

-----------------------------------------------------------------------------
(***************************************************************************)
(* The syncer's orderbook.Service.Update                                   *)
(***************************************************************************)
RestRequest ==
  /\ syncer = None /\ syncer' \in 0..version /\ Fault("rest")
  /\ UNCHANGED <<exchange, conn, flags, last, queues, lock, depth, pc, locals>>

RestUpdate ==
  /\ syncer # None /\ syncer' = None /\ book' = Snapshot(syncer, TRUE)
  /\ UNCHANGED <<exchange, conn, flags, last, queues, lock, holder, outrun, pc, locals, faults>>

-----------------------------------------------------------------------------
Apply(p) ==
  \/ HandleFetchingBook(p) \/ FetchBookViaREST(p) \/ FetchBlocked(p) \/ GetOrderbook(p)
  \/ ProcessEnds(p) \/ Outdated(p) \/ Misaligned(p) \/ Process(p)
  \/ UpdateBidAskByPrice(p) \/ VerifyFails(p) \/ SetNeedsFetchingBook(p)
  \/ FlushOrderbook(p) \/ Cleanup(p) \/ CleanupFetching(p) \/ CleanupInitial(p)
  \/ CleanupNeeds(p)

Job(w) == TakeJob(w) \/ Seed(w) \/ SeedOld(w) \/ SeedFails(w) \/ LoadSnapshot(w) \/ StopFetchingBook(w)

Next ==
  \/ Change \/ Open \/ Close \/ ReaderExit \/ Closed \/ Skip
  \/ StageWsUpdate \/ RestRequest \/ RestUpdate
  \/ \E p \in Procs : Apply(p)
  \/ \E w \in Workers : Job(w) \/ WorkerExit(w)

Spec == Init /\ [][Next]_vars

\* The exchange sends what has changed and answers, and the scheduler runs every goroutine.
Fairness ==
  /\ WF_vars(StageWsUpdate)
  /\ \A p \in Procs : WF_vars(Apply(p))
  /\ \A w \in Workers : WF_vars(Job(w))

FairSpec == Spec /\ Fairness

-----------------------------------------------------------------------------
Places == {"off", "wait", "apply", "fetch", "read", "process", "write", "needs", "flush",
           "bleed", "unfetch", "uninit", "unneed", "seed", "load", "stop"}

\* Every variable has its type; the buffer keeps to its limit.
TypeOK ==
  /\ version \in 0..MaxVersion /\ sent \in 0..version
  /\ link \in {"down", "up", "closing"} /\ opens \in 0..MaxOpens /\ opened \in 0..sent
  /\ fetching \in BOOLEAN /\ needs \in BOOLEAN /\ initial \in BOOLEAN /\ holder \in BOOLEAN
  /\ outrun \in BOOLEAN /\ last \in 0..sent
  /\ buffer \in Seq(Message) /\ Len(buffer) <= BufferLimit /\ jobs \in Nat
  /\ lock \in Procs \cup {None}
  /\ book \in [valid : BOOLEAN, rest : BOOLEAN, id : 0..MaxVersion, has : SUBSET (1..MaxVersion)]
  /\ pc \in [Procs -> Places] /\ recent \in [Procs -> 0..MaxVersion]
  /\ snap \in [Workers -> 0..MaxVersion] /\ update \in Message \cup {None}
  /\ syncer \in 0..MaxVersion \cup {None}
  /\ faults \subseteq {"drained", "skipped", "blocked", "seed", "old", "rest"}

\* A book that the stream keeps is the exchange's book as of its update id: no change
\* is missing and none is ahead, whatever was buffered, dropped, fetched or reconnected.
BookConsistent ==
  book.valid /\ ~book.rest /\ ~outrun => book.has \ Empty = (1..book.id) \ Empty

\* From handleFetchingBook's claim to stopFetchingBook, or to the clean-up in its place.
Fetchers == {"fetch", "flush", "bleed", "unfetch", "seed", "load", "stop"}

\* fetchingBook is set only while someone fetches, unless a fetch was lost for good.
FetchOwned ==
  \/ ~fetching \/ jobs > 0 \/ faults \cap {"drained", "seed"} # {}
  \/ \E p \in Procs : pc[p] \in Fetchers

\* One fetch at a time, as a job in the queue or in one goroutine's hands, although the
\* flags are reset one lock at a time and survive reconnects: no snapshot is loaded over
\* another that was asked for later, and no clean-up takes away the mark of another's fetch.
OneFetch ==
  /\ jobs <= 1 /\ (jobs > 0 => \A p \in Procs : pc[p] \notin Fetchers)
  /\ \A p, q \in Procs : pc[p] \in Fetchers /\ pc[q] \in Fetchers => p = q

\* An old snapshot that is not found out before one more message: nothing has been checked
\* against it yet, or what should have been is gone.
Unchecked == "old" \in faults /\ (outrun \/ (book.valid /\ initial /\ buffer = <<>>))

\* Once the exchange falls silent on an open link, the book is the exchange's, or waits for
\* one more message: to be fetched again, or, as an old snapshot, to be found out.  (Unless
\* the link failed on the way.)
CatchesUp ==
  <>[](link = "up" => \/ faults \ {"rest", "old"} # {} \/ book.rest \/ needs \/ Unchecked
                      \/ book.valid /\ book.id = version)
=============================================================================
