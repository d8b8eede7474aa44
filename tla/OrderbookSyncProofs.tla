------------------------ MODULE OrderbookSyncProofs ------------------------
(***************************************************************************)
(* Proofs about OrderbookSync, for any workers, limits and bounds.         *)
(*   TypeCorrect            every variable keeps its type                  *)
(*   FetchOwnedAlways       a pair marked as fetching has someone to fetch *)
(*   BookConsistentAlways   the book has every change up to its id         *)
(*   OneFetchAlways         there is one fetch at a time                   *)
(***************************************************************************)
EXTENDS OrderbookSync, SequenceTheorems, TLAPS

\* One goroutine writes at a time, with the update it took from the buffer in hand.
Writing == \A p \in Procs : pc[p] = "write" => lock = p /\ update # None

\* No goroutine is left when the link is down.
AllOff == link = "down" => \A p \in Procs : pc[p] = "off"

IInv == TypeOK /\ Writing /\ AllOff /\ FetchOwned

Book == [valid : BOOLEAN, rest : BOOLEAN, id : 0..MaxVersion, has : SUBSET (1..MaxVersion)]

LEMMA Constants ==
  /\ MaxVersion \in Nat /\ MaxOpens \in Nat /\ MaxFaults \in Nat
  /\ BufferLimit \in Nat /\ BufferLimit > 0 /\ "reader" \notin Workers /\ None \notin Procs
  BY ConstantsAssumption DEF Procs

LEMMA TailTyped ==
  ASSUME TypeOK, buffer # <<>>
  PROVE  /\ Tail(buffer) \in Seq(Message) /\ Len(Tail(buffer)) \in Nat
         /\ Len(Tail(buffer)) + 1 <= BufferLimit /\ Len(Tail(buffer)) <= BufferLimit
         /\ Head(buffer) \in Message
<1>1. /\ Head(buffer) \in Message /\ Tail(buffer) \in Seq(Message)
      /\ Len(Tail(buffer)) = Len(buffer) - 1
  BY HeadTailProperties DEF TypeOK
<1>2. Len(buffer) \in Nat /\ Len(buffer) <= BufferLimit /\ Len(Tail(buffer)) \in Nat
  BY <1>1, LenProperties DEF TypeOK
<1> QED BY <1>1, <1>2, Constants

LEMMA InvalidTyped ==
  ASSUME TypeOK
  PROVE  Invalid(book) \in Book
<1>1. book \in Book
  BY DEF TypeOK, Book
<1>2. 0 \in 0..MaxVersion /\ {} \in SUBSET (1..MaxVersion) /\ FALSE \in BOOLEAN
  BY Constants
<1> QED BY <1>1, <1>2 DEF Invalid, Book

LEMMA SnapshotTyped ==
  ASSUME NEW v \in 0..MaxVersion, NEW b \in BOOLEAN
  PROVE  Snapshot(v, b) \in Book
  BY Constants DEF Snapshot, Book

LEMMA TypeStep == IInv /\ [Next]_vars => TypeOK'
<1> SUFFICES ASSUME IInv, [Next]_vars PROVE TypeOK'
  OBVIOUS
<1> USE Constants DEF IInv, exchange, conn, flags, queues, depth, locals, At, Done
<1>1. CASE Change
  BY <1>1 DEF Change, TypeOK, Writing, Message, Procs, Places
<1>2. CASE Open
  BY <1>2 DEF Open, TypeOK, Writing, Message, Procs, Places
<1>3. CASE Close
  BY <1>3 DEF Close, TypeOK, Writing, Message, Procs, Places
<1>4. CASE ReaderExit
  BY <1>4 DEF ReaderExit, TypeOK, Writing, Message, Procs, Places
<1>5. CASE Closed
  <2>1. link' = "down" /\ holder' = FALSE
    BY <1>5 DEF Closed
  <2>2. UNCHANGED <<exchange, opens, opened, flags, last, queues, lock, book, outrun, pc,
                   locals, syncer, faults>>
    BY <1>5 DEF Closed
  <2> QED BY <2>1, <2>2 DEF TypeOK
<1>6. CASE Skip
  BY <1>6 DEF Skip, Fault, TypeOK, Writing, Message, Procs, Places
<1>7. CASE StageWsUpdate
  <2>1. PICK v \in sent + 1 .. version :
          /\ sent' = v
          /\ \/ UNCHANGED <<last, buffer, lock, pc>>
             \/ Staged([first |-> sent + 1, last |-> v])
    BY <1>7, Zenon DEF StageWsUpdate
  <2>2. v \in 1..MaxVersion /\ sent + 1 \in 1..MaxVersion /\ v \in 0..version /\ sent <= v
    BY <1>7, <2>1 DEF StageWsUpdate, TypeOK
  <2>3. CASE UNCHANGED <<last, buffer, lock, pc>>
    <3>1. last' \in 0..sent' /\ opened' \in 0..sent'
      BY <1>7, <2>1, <2>2, <2>3 DEF StageWsUpdate, TypeOK
    <3> QED BY <1>7, <2>1, <2>2, <2>3, <3>1 DEF StageWsUpdate, TypeOK
  <2>4. CASE Staged([first |-> sent + 1, last |-> v])
    <3>1. [first |-> sent + 1, last |-> v] \in Message
      BY <2>2 DEF Message
    <3>2. buffer' \in Seq(Message) /\ Len(buffer') <= BufferLimit
      <4>1. CASE Len(buffer) = BufferLimit
        <5>1. buffer # <<>>
          BY <4>1 DEF TypeOK
        <5>2. buffer' = Append(Tail(buffer), [first |-> sent + 1, last |-> v])
          BY <2>4, <4>1 DEF Staged
        <5> QED BY <3>1, <4>1, <5>1, <5>2, TailTyped, AppendProperties
      <4>2. CASE Len(buffer) # BufferLimit
        <5>1. buffer' = Append(buffer, [first |-> sent + 1, last |-> v])
          BY <2>4, <4>2 DEF Staged
        <5>2. buffer \in Seq(Message) /\ Len(buffer) \in Nat /\ Len(buffer) <= BufferLimit
          BY DEF TypeOK
        <5> QED BY <3>1, <4>2, <5>1, <5>2, AppendProperties
      <4> QED BY <4>1, <4>2
    <3>3. pc' \in [Procs -> Places]
      BY <2>4 DEF Staged, TypeOK, Procs, Places
    <3>4. last' \in 0..sent' /\ sent' \in 0..version
      BY <2>1, <2>2, <2>4 DEF Staged, TypeOK
    <3>5. UNCHANGED <<version, conn, flags, jobs, lock, depth, locals, syncer, faults>>
      BY <1>7, <2>4 DEF StageWsUpdate, Staged
    <3>6. book' \in Book /\ update' \in Message \cup {None} /\ jobs' \in Nat
      BY <3>5 DEF TypeOK, Book
    <3>7. fetching' \in BOOLEAN /\ needs' \in BOOLEAN /\ initial' \in BOOLEAN
          /\ holder' \in BOOLEAN /\ outrun' \in BOOLEAN
      BY <3>5 DEF TypeOK
    <3>8. /\ version' \in 0..MaxVersion /\ version' = version
          /\ link' \in {"down", "up", "closing"} /\ opens' \in 0..MaxOpens
          /\ lock' \in Procs \cup {None} /\ recent' \in [Procs -> 0..MaxVersion]
          /\ snap' \in [Workers -> 0..MaxVersion] /\ syncer' \in 0..MaxVersion \cup {None}
          /\ faults' \subseteq {"drained", "skipped", "blocked", "seed", "old", "rest"}
      BY <3>5 DEF TypeOK
    <3>9. opened' \in 0..sent'
      <4>1. opened' = opened /\ sent' = v
        BY <2>1, <3>5
      <4> QED BY <2>2, <4>1 DEF TypeOK
    <3> QED BY <3>2, <3>3, <3>4, <3>6, <3>7, <3>8, <3>9 DEF TypeOK, Book
  <2> QED BY <2>1, <2>3, <2>4
<1>8. CASE RestRequest
  BY <1>8 DEF RestRequest, Fault, TypeOK, Writing, Message, Procs, Places
<1>9. CASE RestUpdate
  BY <1>9 DEF RestUpdate, Snapshot, TypeOK, Writing, Message, Procs, Places
<1>10. ASSUME NEW p \in Procs, HandleFetchingBook(p) PROVE TypeOK'
  <2>1. pc' \in [Procs -> Places]
    BY <1>10 DEF HandleFetchingBook, TypeOK, Procs, Places
  <2>2. fetching' \in BOOLEAN /\ needs' \in BOOLEAN /\ outrun' \in BOOLEAN
    BY <1>10, Zenon DEF HandleFetchingBook
  <2> QED BY <1>10, <2>1, <2>2 DEF HandleFetchingBook, TypeOK
<1>11. ASSUME NEW p \in Procs, FetchBookViaREST(p) PROVE TypeOK'
  BY <1>11 DEF FetchBookViaREST, TypeOK, Writing, Message, Procs, Places
<1>12. ASSUME NEW p \in Procs, FetchBlocked(p) PROVE TypeOK'
  BY <1>12 DEF FetchBlocked, Fault, TypeOK, Writing, Message, Procs, Places
<1>13. ASSUME NEW p \in Procs, GetOrderbook(p) PROVE TypeOK'
  <2>1. pc' \in [Procs -> Places]
    BY <1>13, SMTT(20) DEF GetOrderbook, TypeOK, Procs, Places
  <2>2. recent' \in [Procs -> 0..MaxVersion]
    <3>1. book.id \in 0..MaxVersion
      BY DEF TypeOK
    <3> QED BY <1>13, <3>1 DEF GetOrderbook, TypeOK
  <2>3. UNCHANGED <<exchange, conn, flags, last, queues, lock, depth, snap, update, syncer,
                   faults>>
    BY <1>13 DEF GetOrderbook
  <2> QED BY <2>1, <2>2, <2>3 DEF TypeOK
<1>14. ASSUME NEW p \in Procs, ProcessEnds(p) PROVE TypeOK'
  BY <1>14 DEF ProcessEnds, Entering, TypeOK, Writing, Message, Procs, Places
<1>15. ASSUME NEW p \in Procs, Outdated(p) PROVE TypeOK'
  <2>1. buffer' \in Seq(Message) /\ Len(buffer') <= BufferLimit
    BY <1>15, TailTyped DEF Outdated
  <2>2. lock' \in Procs \cup {None}
    BY <1>15 DEF Outdated
  <2>3. UNCHANGED <<exchange, conn, flags, last, jobs, depth, pc, locals, syncer, faults>>
    BY <1>15 DEF Outdated
  <2> QED BY <2>1, <2>2, <2>3 DEF TypeOK
<1>16. ASSUME NEW p \in Procs, Misaligned(p) PROVE TypeOK'
  <2>1. buffer' \in Seq(Message) /\ Len(buffer') <= BufferLimit
    BY <1>16, TailTyped DEF Misaligned
  <2>2. pc' \in [Procs -> Places] /\ lock' \in Procs \cup {None}
    BY <1>16 DEF Misaligned, TypeOK, Procs, Places
  <2>3. UNCHANGED <<exchange, conn, flags, last, jobs, depth, locals, syncer, faults>>
    BY <1>16 DEF Misaligned
  <2> QED BY <2>1, <2>2, <2>3 DEF TypeOK
<1>17. ASSUME NEW p \in Procs, Process(p) PROVE TypeOK'
  <2>1. buffer' \in Seq(Message) /\ Len(buffer') <= BufferLimit /\ Head(buffer) \in Message
    BY <1>17, TailTyped DEF Process
  <2>2. pc' \in [Procs -> Places] /\ lock' \in Procs \cup {None}
    BY <1>17 DEF Process, TypeOK, Procs, Places
  <2>3. update' \in Message \cup {None}
    BY <1>17, <2>1 DEF Process, TypeOK
  <2>4. book' \in Book
    <3>1. book' = book \/ book' = Invalid(book)
      BY <1>17, Zenon DEF Process
    <3> QED BY <3>1, InvalidTyped DEF TypeOK, Book
  <2>5. initial' \in BOOLEAN
    BY <1>17 DEF Process
  <2>6. UNCHANGED <<exchange, conn, fetching, needs, last, jobs, holder, outrun, recent, snap,
                   syncer, faults>>
    BY <1>17 DEF Process
  <2> QED BY <2>1, <2>2, <2>3, <2>4, <2>5, <2>6 DEF TypeOK, Book
<1>18. ASSUME NEW p \in Procs, UpdateBidAskByPrice(p) PROVE TypeOK'
  <2>1. update \in Message
    BY <1>18 DEF UpdateBidAskByPrice, TypeOK, Writing
  <2>2. update.last \in 0..MaxVersion /\ update.first .. update.last \subseteq 1..MaxVersion
    BY <2>1 DEF Message
  <2>3. book' \in Book
    BY <1>18, <2>2 DEF UpdateBidAskByPrice, TypeOK, Book
  <2>4. pc' \in [Procs -> Places] /\ update' \in Message \cup {None}
    BY <1>18 DEF UpdateBidAskByPrice, TypeOK, Procs, Places
  <2>5. UNCHANGED <<exchange, conn, flags, last, queues, lock, holder, outrun, recent, snap,
                   syncer, faults>>
    BY <1>18 DEF UpdateBidAskByPrice
  <2> QED BY <2>3, <2>4, <2>5 DEF TypeOK, Book
<1>19. ASSUME NEW p \in Procs, SetNeedsFetchingBook(p) PROVE TypeOK'
  <2>1. pc' \in [Procs -> Places]
    BY <1>19 DEF SetNeedsFetchingBook, TypeOK, Procs, Places
  <2>2. needs' \in BOOLEAN
    BY <1>19 DEF SetNeedsFetchingBook
  <2>3. UNCHANGED <<exchange, conn, fetching, initial, last, queues, lock, depth, locals,
                   syncer, faults>>
    BY <1>19 DEF SetNeedsFetchingBook
  <2> QED BY <2>1, <2>2, <2>3 DEF TypeOK
<1>20. ASSUME NEW p \in Procs, FlushOrderbook(p) PROVE TypeOK'
  <2>1. book' \in Book
    <3>1. book' = book \/ book' = Invalid(book)
      BY <1>20, Zenon DEF FlushOrderbook
    <3> QED BY <3>1, InvalidTyped DEF TypeOK, Book
  <2>2. pc' \in [Procs -> Places]
    BY <1>20 DEF FlushOrderbook, TypeOK, Procs, Places
  <2> QED BY <1>20, <2>1, <2>2 DEF FlushOrderbook, TypeOK, Book
<1>21. ASSUME NEW p \in Procs, Cleanup(p) PROVE TypeOK'
  <2>1. pc' \in [Procs -> Places]
    BY <1>21 DEF Cleanup, TypeOK, Procs, Places
  <2>2. buffer' \in Seq(Message) /\ Len(buffer') <= BufferLimit
    BY <1>21, EmptySeq DEF Cleanup
  <2>3. UNCHANGED <<exchange, conn, flags, last, jobs, lock, depth, locals, syncer, faults>>
    BY <1>21 DEF Cleanup
  <2> QED BY <2>1, <2>2, <2>3 DEF TypeOK
<1>22. ASSUME NEW p \in Procs, CleanupFetching(p) PROVE TypeOK'
  <2>1. pc' \in [Procs -> Places]
    BY <1>22 DEF CleanupFetching, TypeOK, Procs, Places
  <2>2. fetching' \in BOOLEAN
    BY <1>22 DEF CleanupFetching
  <2>3. UNCHANGED <<exchange, conn, needs, initial, last, queues, lock, depth, locals,
                   syncer, faults>>
    BY <1>22 DEF CleanupFetching
  <2> QED BY <2>1, <2>2, <2>3 DEF TypeOK
<1>23. ASSUME NEW p \in Procs, CleanupInitial(p) PROVE TypeOK'
  <2>1. pc' \in [Procs -> Places]
    BY <1>23 DEF CleanupInitial, TypeOK, Procs, Places
  <2>2. initial' \in BOOLEAN
    BY <1>23 DEF CleanupInitial
  <2>3. UNCHANGED <<exchange, conn, fetching, needs, last, queues, lock, depth, locals,
                   syncer, faults>>
    BY <1>23 DEF CleanupInitial
  <2> QED BY <2>1, <2>2, <2>3 DEF TypeOK
<1>24. ASSUME NEW p \in Procs, CleanupNeeds(p) PROVE TypeOK'
  <2>1. pc' \in [Procs -> Places]
    BY <1>24 DEF CleanupNeeds, TypeOK, Procs, Places
  <2>2. needs' \in BOOLEAN
    BY <1>24 DEF CleanupNeeds
  <2>3. UNCHANGED <<exchange, conn, fetching, initial, last, queues, lock, depth, locals,
                   syncer, faults>>
    BY <1>24 DEF CleanupNeeds
  <2> QED BY <2>1, <2>2, <2>3 DEF TypeOK
<1>25. ASSUME NEW w \in Workers, TakeJob(w) PROVE TypeOK'
  <2>1. pc' \in [Procs -> Places]
    BY <1>25 DEF TakeJob, TypeOK, Procs, Places
  <2>2. jobs' \in Nat
    BY <1>25 DEF TakeJob, TypeOK
  <2> QED BY <1>25, <2>1, <2>2 DEF TakeJob, TypeOK
<1>26. ASSUME NEW w \in Workers, Seed(w) PROVE TypeOK'
  <2>1. pc' \in [Procs -> Places]
    BY <1>26 DEF Seed, TypeOK, Procs, Places
  <2>2. snap' \in [Workers -> 0..MaxVersion]
    BY <1>26 DEF Seed, TypeOK
  <2> QED BY <1>26, <2>1, <2>2 DEF Seed, TypeOK
<1>27. ASSUME NEW w \in Workers, SeedFails(w) PROVE TypeOK'
  BY <1>27 DEF SeedFails, Fault, TypeOK, Writing, Message, Procs, Places
<1>28. ASSUME NEW w \in Workers, LoadSnapshot(w) PROVE TypeOK'
  <2>1. book' \in Book
    BY <1>28, SnapshotTyped DEF LoadSnapshot, TypeOK
  <2>2. pc' \in [Procs -> Places]
    BY <1>28 DEF LoadSnapshot, TypeOK, Procs, Places
  <2>3. holder' \in BOOLEAN /\ outrun' \in BOOLEAN
    BY <1>28, Zenon DEF LoadSnapshot
  <2>4. snap' \in [Workers -> 0..MaxVersion]
    BY <1>28 DEF LoadSnapshot, TypeOK
  <2>5. UNCHANGED <<exchange, conn, flags, last, queues, lock, recent, update, syncer, faults>>
    BY <1>28 DEF LoadSnapshot
  <2> QED BY <2>1, <2>2, <2>3, <2>4, <2>5 DEF TypeOK, Book
<1>29. ASSUME NEW w \in Workers, StopFetchingBook(w) PROVE TypeOK'
  <2>1. pc' \in [Procs -> Places]
    BY <1>29 DEF StopFetchingBook, TypeOK, Procs, Places
  <2>2. fetching' \in BOOLEAN
    BY <1>29 DEF StopFetchingBook, TypeOK
  <2> QED BY <1>29, <2>1, <2>2 DEF StopFetchingBook, TypeOK
<1>30. ASSUME NEW w \in Workers, WorkerExit(w) PROVE TypeOK'
  <2>1. pc' \in [Procs -> Places]
    BY <1>30 DEF WorkerExit, TypeOK, Procs, Places
  <2>2. jobs' \in Nat
    BY <1>30 DEF WorkerExit, TypeOK
  <2>3. faults' \subseteq {"drained", "skipped", "blocked", "seed", "old", "rest"}
    <3>1. faults' = faults \/ faults' = faults \cup {"drained"}
      BY <1>30, Zenon DEF WorkerExit, Fault
    <3>2. faults \subseteq {"drained", "skipped", "blocked", "seed", "old", "rest"}
      BY DEF TypeOK
    <3> HIDE DEF IInv
    <3> QED BY <3>1, <3>2
  <2> QED BY <1>30, <2>1, <2>2, <2>3 DEF WorkerExit, TypeOK
<1>31. CASE UNCHANGED vars
  BY <1>31, SMTT(20) DEF vars, TypeOK, Writing, Message, Procs, Places
<1>32. ASSUME NEW p \in Procs, VerifyFails(p) PROVE TypeOK'
  <2>1. book' \in Book
    BY <1>32, InvalidTyped DEF VerifyFails
  <2>2. pc' \in [Procs -> Places] /\ lock' \in Procs \cup {None}
    BY <1>32 DEF VerifyFails, TypeOK, Procs, Places
  <2>3. UNCHANGED <<exchange, conn, flags, last, queues, holder, outrun, locals, syncer, faults>>
    BY <1>32 DEF VerifyFails
  <2> QED BY <2>1, <2>2, <2>3 DEF TypeOK, Book
<1>33. ASSUME NEW w \in Workers, SeedOld(w) PROVE TypeOK'
  <2>1. pc' \in [Procs -> Places]
    BY <1>33 DEF SeedOld, TypeOK, Procs, Places
  <2>2. snap' \in [Workers -> 0..MaxVersion]
    BY <1>33 DEF SeedOld, TypeOK
  <2>3. faults' \subseteq {"drained", "skipped", "blocked", "seed", "old", "rest"}
    BY <1>33 DEF SeedOld, TypeOK
  <2> QED BY <1>33, <2>1, <2>2, <2>3 DEF SeedOld, TypeOK
<1> QED BY <1>1, <1>2, <1>3, <1>4, <1>5, <1>6, <1>7, <1>8, <1>9, <1>10, <1>11, <1>12, <1>13, <1>14, <1>15, <1>16, <1>17, <1>18, <1>19, <1>20, <1>21, <1>22, <1>23, <1>24, <1>25, <1>26, <1>27, <1>28, <1>29, <1>30, <1>31, <1>32, <1>33 DEF Next, Apply, Job

LEMMA WritingStep == IInv /\ [Next]_vars => Writing'
<1> SUFFICES ASSUME IInv, [Next]_vars PROVE Writing'
  OBVIOUS
<1> USE Constants DEF IInv, exchange, conn, flags, queues, depth, locals, At, Done, Procs, Places
<1>1. CASE Change
  BY <1>1 DEF Change, TypeOK, Writing
<1>2. CASE Open
  BY <1>2 DEF Open, TypeOK, Writing
<1>3. CASE Close
  BY <1>3 DEF Close, TypeOK, Writing
<1>4. CASE ReaderExit
  BY <1>4 DEF ReaderExit, TypeOK, Writing
<1>5. CASE Closed
  BY <1>5 DEF Closed, TypeOK, Writing
<1>6. CASE Skip
  BY <1>6 DEF Skip, Fault, TypeOK, Writing
<1>7. CASE StageWsUpdate
  BY <1>7 DEF StageWsUpdate, Staged, Gap, TypeOK, Writing
<1>8. CASE RestRequest
  BY <1>8 DEF RestRequest, Fault, TypeOK, Writing
<1>9. CASE RestUpdate
  BY <1>9 DEF RestUpdate, Snapshot, TypeOK, Writing
<1>10. ASSUME NEW p \in Procs, HandleFetchingBook(p) PROVE Writing'
  BY <1>10 DEF HandleFetchingBook, TypeOK, Writing
<1>11. ASSUME NEW p \in Procs, FetchBookViaREST(p) PROVE Writing'
  BY <1>11 DEF FetchBookViaREST, TypeOK, Writing
<1>12. ASSUME NEW p \in Procs, FetchBlocked(p) PROVE Writing'
  BY <1>12 DEF FetchBlocked, Fault, TypeOK, Writing
<1>13. ASSUME NEW p \in Procs, GetOrderbook(p) PROVE Writing'
  BY <1>13 DEF GetOrderbook, TypeOK, Writing
<1>14. ASSUME NEW p \in Procs, ProcessEnds(p) PROVE Writing'
  BY <1>14 DEF ProcessEnds, Entering, TypeOK, Writing
<1>15. ASSUME NEW p \in Procs, Outdated(p) PROVE Writing'
  BY <1>15 DEF Outdated, Entering, TypeOK, Writing
<1>16. ASSUME NEW p \in Procs, Misaligned(p) PROVE Writing'
  BY <1>16 DEF Misaligned, Entering, TypeOK, Writing
<1>17. ASSUME NEW p \in Procs, Process(p) PROVE Writing'
  <2>1. Head(buffer) \in Message /\ Head(buffer) # None
    <3>1. Head(buffer) \in Message
      BY <1>17, TailTyped DEF Process
    <3> QED BY <3>1, ConstantsAssumption DEF Message
  <2>2. pc'[p] = "write" => lock' = p /\ update' # None
    BY <1>17, <2>1 DEF Process, TypeOK
  <2>3. ASSUME NEW q \in Procs, q # p PROVE pc'[q] # "write"
    BY <1>17, <2>3 DEF Process, Entering, TypeOK, Writing
  <2> QED BY <2>2, <2>3 DEF Writing
<1>18. ASSUME NEW p \in Procs, UpdateBidAskByPrice(p) PROVE Writing'
  BY <1>18 DEF UpdateBidAskByPrice, TypeOK, Writing
<1>19. ASSUME NEW p \in Procs, SetNeedsFetchingBook(p) PROVE Writing'
  BY <1>19 DEF SetNeedsFetchingBook, TypeOK, Writing
<1>20. ASSUME NEW p \in Procs, FlushOrderbook(p) PROVE Writing'
  BY <1>20 DEF FlushOrderbook, Invalid, TypeOK, Writing
<1>21. ASSUME NEW p \in Procs, Cleanup(p) PROVE Writing'
  BY <1>21 DEF Cleanup, TypeOK, Writing
<1>22. ASSUME NEW p \in Procs, CleanupFetching(p) PROVE Writing'
  BY <1>22 DEF CleanupFetching, TypeOK, Writing
<1>23. ASSUME NEW p \in Procs, CleanupInitial(p) PROVE Writing'
  BY <1>23 DEF CleanupInitial, TypeOK, Writing
<1>24. ASSUME NEW p \in Procs, CleanupNeeds(p) PROVE Writing'
  BY <1>24 DEF CleanupNeeds, TypeOK, Writing
<1>25. ASSUME NEW w \in Workers, TakeJob(w) PROVE Writing'
  BY <1>25 DEF TakeJob, TypeOK, Writing
<1>26. ASSUME NEW w \in Workers, Seed(w) PROVE Writing'
  BY <1>26 DEF Seed, TypeOK, Writing
<1>27. ASSUME NEW w \in Workers, SeedFails(w) PROVE Writing'
  BY <1>27 DEF SeedFails, Fault, TypeOK, Writing
<1>28. ASSUME NEW w \in Workers, LoadSnapshot(w) PROVE Writing'
  BY <1>28 DEF LoadSnapshot, Snapshot, TypeOK, Writing
<1>29. ASSUME NEW w \in Workers, StopFetchingBook(w) PROVE Writing'
  BY <1>29 DEF StopFetchingBook, TypeOK, Writing
<1>30. ASSUME NEW w \in Workers, WorkerExit(w) PROVE Writing'
  BY <1>30 DEF WorkerExit, Fault, TypeOK, Writing
<1>31. CASE UNCHANGED vars
  BY <1>31 DEF vars, TypeOK, Writing
<1>32. ASSUME NEW p \in Procs, VerifyFails(p) PROVE Writing'
  BY <1>32 DEF VerifyFails, Invalid, TypeOK, Writing
<1>33. ASSUME NEW w \in Workers, SeedOld(w) PROVE Writing'
  BY <1>33 DEF SeedOld, TypeOK, Writing
<1> QED BY <1>1, <1>2, <1>3, <1>4, <1>5, <1>6, <1>7, <1>8, <1>9, <1>10, <1>11, <1>12, <1>13, <1>14, <1>15, <1>16, <1>17, <1>18, <1>19, <1>20, <1>21, <1>22, <1>23, <1>24, <1>25, <1>26, <1>27, <1>28, <1>29, <1>30, <1>31, <1>32, <1>33 DEF Next, Apply, Job

LEMMA AllOffStep == IInv /\ [Next]_vars => AllOff'
<1> SUFFICES ASSUME IInv, [Next]_vars PROVE AllOff'
  OBVIOUS
<1> USE Constants DEF IInv, exchange, conn, flags, queues, depth, locals, At, Done, Procs, Places
<1>1. CASE Change
  BY <1>1 DEF Change, TypeOK, AllOff
<1>2. CASE Open
  BY <1>2 DEF Open, TypeOK, AllOff
<1>3. CASE Close
  BY <1>3 DEF Close, TypeOK, AllOff
<1>4. CASE ReaderExit
  BY <1>4 DEF ReaderExit, TypeOK, AllOff
<1>5. CASE Closed
  BY <1>5 DEF Closed, TypeOK, AllOff
<1>6. CASE Skip
  BY <1>6 DEF Skip, Fault, TypeOK, AllOff
<1>7. CASE StageWsUpdate
  BY <1>7 DEF StageWsUpdate, Staged, Gap, TypeOK, AllOff
<1>8. CASE RestRequest
  BY <1>8 DEF RestRequest, Fault, TypeOK, AllOff
<1>9. CASE RestUpdate
  BY <1>9 DEF RestUpdate, Snapshot, TypeOK, AllOff
<1>10. ASSUME NEW p \in Procs, HandleFetchingBook(p) PROVE AllOff'
  BY <1>10 DEF HandleFetchingBook, TypeOK, AllOff
<1>11. ASSUME NEW p \in Procs, FetchBookViaREST(p) PROVE AllOff'
  BY <1>11 DEF FetchBookViaREST, TypeOK, AllOff
<1>12. ASSUME NEW p \in Procs, FetchBlocked(p) PROVE AllOff'
  BY <1>12 DEF FetchBlocked, Fault, TypeOK, AllOff
<1>13. ASSUME NEW p \in Procs, GetOrderbook(p) PROVE AllOff'
  BY <1>13 DEF GetOrderbook, TypeOK, AllOff
<1>14. ASSUME NEW p \in Procs, ProcessEnds(p) PROVE AllOff'
  BY <1>14 DEF ProcessEnds, Entering, TypeOK, AllOff
<1>15. ASSUME NEW p \in Procs, Outdated(p) PROVE AllOff'
  BY <1>15 DEF Outdated, Entering, TypeOK, AllOff
<1>16. ASSUME NEW p \in Procs, Misaligned(p) PROVE AllOff'
  BY <1>16 DEF Misaligned, Entering, TypeOK, AllOff
<1>17. ASSUME NEW p \in Procs, Process(p) PROVE AllOff'
  BY <1>17 DEF Process, Entering, Invalid, TypeOK, AllOff
<1>18. ASSUME NEW p \in Procs, UpdateBidAskByPrice(p) PROVE AllOff'
  BY <1>18 DEF UpdateBidAskByPrice, TypeOK, AllOff
<1>19. ASSUME NEW p \in Procs, SetNeedsFetchingBook(p) PROVE AllOff'
  BY <1>19 DEF SetNeedsFetchingBook, TypeOK, AllOff
<1>20. ASSUME NEW p \in Procs, FlushOrderbook(p) PROVE AllOff'
  BY <1>20 DEF FlushOrderbook, Invalid, TypeOK, AllOff
<1>21. ASSUME NEW p \in Procs, Cleanup(p) PROVE AllOff'
  BY <1>21 DEF Cleanup, TypeOK, AllOff
<1>22. ASSUME NEW p \in Procs, CleanupFetching(p) PROVE AllOff'
  BY <1>22 DEF CleanupFetching, TypeOK, AllOff
<1>23. ASSUME NEW p \in Procs, CleanupInitial(p) PROVE AllOff'
  BY <1>23 DEF CleanupInitial, TypeOK, AllOff
<1>24. ASSUME NEW p \in Procs, CleanupNeeds(p) PROVE AllOff'
  BY <1>24 DEF CleanupNeeds, TypeOK, AllOff
<1>25. ASSUME NEW w \in Workers, TakeJob(w) PROVE AllOff'
  BY <1>25 DEF TakeJob, TypeOK, AllOff
<1>26. ASSUME NEW w \in Workers, Seed(w) PROVE AllOff'
  BY <1>26 DEF Seed, TypeOK, AllOff
<1>27. ASSUME NEW w \in Workers, SeedFails(w) PROVE AllOff'
  BY <1>27 DEF SeedFails, Fault, TypeOK, AllOff
<1>28. ASSUME NEW w \in Workers, LoadSnapshot(w) PROVE AllOff'
  BY <1>28 DEF LoadSnapshot, Snapshot, TypeOK, AllOff
<1>29. ASSUME NEW w \in Workers, StopFetchingBook(w) PROVE AllOff'
  BY <1>29 DEF StopFetchingBook, TypeOK, AllOff
<1>30. ASSUME NEW w \in Workers, WorkerExit(w) PROVE AllOff'
  BY <1>30 DEF WorkerExit, Fault, TypeOK, AllOff
<1>31. CASE UNCHANGED vars
  BY <1>31 DEF vars, TypeOK, AllOff
<1>32. ASSUME NEW p \in Procs, VerifyFails(p) PROVE AllOff'
  BY <1>32 DEF VerifyFails, Invalid, TypeOK, AllOff
<1>33. ASSUME NEW w \in Workers, SeedOld(w) PROVE AllOff'
  BY <1>33 DEF SeedOld, TypeOK, AllOff
<1> QED BY <1>1, <1>2, <1>3, <1>4, <1>5, <1>6, <1>7, <1>8, <1>9, <1>10, <1>11, <1>12, <1>13, <1>14, <1>15, <1>16, <1>17, <1>18, <1>19, <1>20, <1>21, <1>22, <1>23, <1>24, <1>25, <1>26, <1>27, <1>28, <1>29, <1>30, <1>31, <1>32, <1>33 DEF Next, Apply, Job

LEMMA FetchOwnedStep == IInv /\ [Next]_vars => FetchOwned'
<1> SUFFICES ASSUME IInv, [Next]_vars PROVE FetchOwned'
  OBVIOUS
<1> USE Constants DEF IInv, exchange, conn, flags, queues, depth, locals, At, Done, Procs, Places
<1>1. CASE Change
  BY <1>1 DEF Change, TypeOK, AllOff, FetchOwned, Fetchers
<1>2. CASE Open
  BY <1>2 DEF Open, TypeOK, AllOff, FetchOwned, Fetchers
<1>3. CASE Close
  BY <1>3 DEF Close, TypeOK, AllOff, FetchOwned, Fetchers
<1>4. CASE ReaderExit
  BY <1>4 DEF ReaderExit, TypeOK, AllOff, FetchOwned, Fetchers
<1>5. CASE Closed
  BY <1>5 DEF Closed, TypeOK, AllOff, FetchOwned, Fetchers
<1>6. CASE Skip
  BY <1>6 DEF Skip, Fault, TypeOK, AllOff, FetchOwned, Fetchers
<1>7. CASE StageWsUpdate
  BY <1>7 DEF StageWsUpdate, Staged, Gap, TypeOK, AllOff, FetchOwned, Fetchers
<1>8. CASE RestRequest
  BY <1>8 DEF RestRequest, Fault, TypeOK, AllOff, FetchOwned, Fetchers
<1>9. CASE RestUpdate
  BY <1>9 DEF RestUpdate, Snapshot, TypeOK, AllOff, FetchOwned, Fetchers
<1>10. ASSUME NEW p \in Procs, HandleFetchingBook(p) PROVE FetchOwned'
  BY <1>10 DEF HandleFetchingBook, TypeOK, AllOff, FetchOwned, Fetchers
<1>11. ASSUME NEW p \in Procs, FetchBookViaREST(p) PROVE FetchOwned'
  BY <1>11 DEF FetchBookViaREST, TypeOK, AllOff, FetchOwned, Fetchers
<1>12. ASSUME NEW p \in Procs, FetchBlocked(p) PROVE FetchOwned'
  BY <1>12 DEF FetchBlocked, Fault, TypeOK, AllOff, FetchOwned, Fetchers
<1>13. ASSUME NEW p \in Procs, GetOrderbook(p) PROVE FetchOwned'
  BY <1>13 DEF GetOrderbook, TypeOK, AllOff, FetchOwned, Fetchers
<1>14. ASSUME NEW p \in Procs, ProcessEnds(p) PROVE FetchOwned'
  BY <1>14 DEF ProcessEnds, Entering, TypeOK, AllOff, FetchOwned, Fetchers
<1>15. ASSUME NEW p \in Procs, Outdated(p) PROVE FetchOwned'
  BY <1>15 DEF Outdated, Entering, TypeOK, AllOff, FetchOwned, Fetchers
<1>16. ASSUME NEW p \in Procs, Misaligned(p) PROVE FetchOwned'
  BY <1>16 DEF Misaligned, Entering, TypeOK, AllOff, FetchOwned, Fetchers
<1>17. ASSUME NEW p \in Procs, Process(p) PROVE FetchOwned'
  BY <1>17 DEF Process, Entering, Invalid, TypeOK, AllOff, FetchOwned, Fetchers
<1>18. ASSUME NEW p \in Procs, UpdateBidAskByPrice(p) PROVE FetchOwned'
  BY <1>18 DEF UpdateBidAskByPrice, TypeOK, AllOff, FetchOwned, Fetchers
<1>19. ASSUME NEW p \in Procs, SetNeedsFetchingBook(p) PROVE FetchOwned'
  BY <1>19 DEF SetNeedsFetchingBook, TypeOK, AllOff, FetchOwned, Fetchers
<1>20. ASSUME NEW p \in Procs, FlushOrderbook(p) PROVE FetchOwned'
  BY <1>20 DEF FlushOrderbook, Invalid, TypeOK, AllOff, FetchOwned, Fetchers
<1>21. ASSUME NEW p \in Procs, Cleanup(p) PROVE FetchOwned'
  BY <1>21 DEF Cleanup, TypeOK, AllOff, FetchOwned, Fetchers
<1>22. ASSUME NEW p \in Procs, CleanupFetching(p) PROVE FetchOwned'
  BY <1>22 DEF CleanupFetching, TypeOK, AllOff, FetchOwned, Fetchers
<1>23. ASSUME NEW p \in Procs, CleanupInitial(p) PROVE FetchOwned'
  BY <1>23 DEF CleanupInitial, TypeOK, AllOff, FetchOwned, Fetchers
<1>24. ASSUME NEW p \in Procs, CleanupNeeds(p) PROVE FetchOwned'
  BY <1>24 DEF CleanupNeeds, TypeOK, AllOff, FetchOwned, Fetchers
<1>25. ASSUME NEW w \in Workers, TakeJob(w) PROVE FetchOwned'
  BY <1>25 DEF TakeJob, TypeOK, AllOff, FetchOwned, Fetchers
<1>26. ASSUME NEW w \in Workers, Seed(w) PROVE FetchOwned'
  BY <1>26 DEF Seed, TypeOK, AllOff, FetchOwned, Fetchers
<1>27. ASSUME NEW w \in Workers, SeedFails(w) PROVE FetchOwned'
  BY <1>27 DEF SeedFails, Fault, TypeOK, AllOff, FetchOwned, Fetchers
<1>28. ASSUME NEW w \in Workers, LoadSnapshot(w) PROVE FetchOwned'
  BY <1>28 DEF LoadSnapshot, Snapshot, TypeOK, AllOff, FetchOwned, Fetchers
<1>29. ASSUME NEW w \in Workers, StopFetchingBook(w) PROVE FetchOwned'
  BY <1>29 DEF StopFetchingBook, TypeOK, AllOff, FetchOwned, Fetchers
<1>30. ASSUME NEW w \in Workers, WorkerExit(w) PROVE FetchOwned'
  BY <1>30 DEF WorkerExit, Fault, TypeOK, AllOff, FetchOwned, Fetchers
<1>31. CASE UNCHANGED vars
  BY <1>31 DEF vars, TypeOK, AllOff, FetchOwned, Fetchers
<1>32. ASSUME NEW p \in Procs, VerifyFails(p) PROVE FetchOwned'
  BY <1>32 DEF VerifyFails, Invalid, TypeOK, AllOff, FetchOwned, Fetchers
<1>33. ASSUME NEW w \in Workers, SeedOld(w) PROVE FetchOwned'
  BY <1>33 DEF SeedOld, TypeOK, AllOff, FetchOwned, Fetchers
<1> QED BY <1>1, <1>2, <1>3, <1>4, <1>5, <1>6, <1>7, <1>8, <1>9, <1>10, <1>11, <1>12, <1>13, <1>14, <1>15, <1>16, <1>17, <1>18, <1>19, <1>20, <1>21, <1>22, <1>23, <1>24, <1>25, <1>26, <1>27, <1>28, <1>29, <1>30, <1>31, <1>32, <1>33 DEF Next, Apply, Job

LEMMA InitInv == Init => IInv
<1> SUFFICES ASSUME Init PROVE IInv
  OBVIOUS
<1>1. book \in Book
  <2>1. book = [valid |-> FALSE, rest |-> FALSE, id |-> 0, has |-> {}]
    BY DEF Init, Snapshot, Invalid
  <2> QED BY <2>1, Constants DEF Book
<1>2. TypeOK
  <2>1. buffer \in Seq(Message) /\ Len(buffer) <= BufferLimit
    BY Constants, EmptySeq DEF Init
  <2>2. /\ pc \in [Procs -> Places] /\ recent \in [Procs -> 0..MaxVersion]
        /\ snap \in [Workers -> 0..MaxVersion]
    BY Constants DEF Init, Places
  <2>3. fetching \in BOOLEAN /\ needs \in BOOLEAN /\ initial \in BOOLEAN /\ holder \in BOOLEAN
        /\ outrun \in BOOLEAN
    BY Zenon DEF Init
  <2>4. /\ version \in 0..MaxVersion /\ sent \in 0..version /\ last \in 0..sent
        /\ opens \in 0..MaxOpens /\ opened \in 0..sent /\ jobs \in Nat
    BY Constants DEF Init
  <2>5. link \in {"down", "up", "closing"} /\ lock \in Procs \cup {None}
        /\ update \in Message \cup {None} /\ syncer \in 0..MaxVersion \cup {None}
        /\ faults \subseteq {"drained", "skipped", "blocked", "seed", "old", "rest"}
    BY DEF Init
  <2> QED BY <1>1, <2>1, <2>2, <2>3, <2>4, <2>5 DEF TypeOK, Book
<1>3. Writing /\ AllOff /\ FetchOwned
  BY DEF Init, Writing, AllOff, FetchOwned, Fetchers
<1> QED BY <1>2, <1>3 DEF IInv

LEMMA Invariant == Spec => []IInv
<1>1. Init => IInv
  BY InitInv
<1>2. IInv /\ [Next]_vars => IInv'
  BY TypeStep, WritingStep, AllOffStep, FetchOwnedStep DEF IInv
<1> QED BY <1>1, <1>2, PTL DEF Spec

\* Every variable keeps its type and the buffer its limit, for any workers and limits; what is
\* written to the book is always an update taken from the buffer.
THEOREM TypeCorrect == Spec => []TypeOK
<1>1. IInv => TypeOK
  BY DEF IInv
<1> QED BY <1>1, Invariant, PTL

\* However the reader and the workers interleave, and through every reconnect, fetchingBook is
\* never left set with nobody fetching, unless a fetch failed or was drained with its job.
THEOREM FetchOwnedAlways == Spec => []FetchOwned
<1>1. IInv => FetchOwned
  BY DEF IInv
<1> QED BY <1>1, Invariant, PTL

-----------------------------------------------------------------------------
(***************************************************************************)
(* The book that the stream keeps.  First who may do what: one fetch at a  *)
(* time, nobody who applies beside it, and the check of the first update   *)
(* on until a snapshot has come.                                           *)
(***************************************************************************)
\* One fetch is under way at most, as a job or in the hands of one goroutine.
SingleFetch ==
  /\ jobs <= 1
  /\ jobs > 0 => fetching /\ \A p \in Procs : pc[p] \notin Fetchers
  /\ \A p \in Procs : pc[p] \in Fetchers => fetching
  /\ \A p, q \in Procs : pc[p] \in Fetchers /\ pc[q] \in Fetchers => p = q

\* The pair is known while someone applies to it, and forgotten when the link is down.
HolderKnown ==
  /\ link = "down" => ~holder
  /\ \A p \in Procs : pc[p] \in {"process", "write"} => holder

\* A book that is none of REST's and that no fetch has overlapped, and one updates go to.
Good == book.valid /\ ~book.rest /\ ~outrun
Kept == holder /\ Good

\* Nobody applies while a fetch is under way, unless outrun says so.
FetchAlone == fetching /\ ~outrun => \A p \in Procs : pc[p] \notin Applying

\* Whoever cleans up has thrown the book away.
FlushedGone == \A p \in Procs : pc[p] \in {"bleed", "unfetch", "uninit"} => ~Kept

\* From the start of a fetch on, the first update is going to be checked.
CheckOn == Kept /\ fetching => initial \/ \E p \in Procs : pc[p] = "fetch"

CInv == IInv /\ SingleFetch /\ HolderKnown /\ FetchAlone /\ FlushedGone /\ CheckOn

LEMMA SingleFetchStep == CInv /\ [Next]_vars => SingleFetch'
<1> SUFFICES ASSUME CInv, [Next]_vars PROVE SingleFetch'
  OBVIOUS
<1> USE Constants DEF CInv, IInv, exchange, conn, flags, queues, depth, locals, At, Done, Procs, Places
<1>1. CASE Change
  BY <1>1 DEF Change, TypeOK, AllOff, SingleFetch, Fetchers
<1>2. CASE Open
  BY <1>2 DEF Open, TypeOK, AllOff, SingleFetch, Fetchers
<1>3. CASE Close
  BY <1>3 DEF Close, TypeOK, AllOff, SingleFetch, Fetchers
<1>4. CASE ReaderExit
  BY <1>4 DEF ReaderExit, TypeOK, AllOff, SingleFetch, Fetchers
<1>5. CASE Closed
  BY <1>5 DEF Closed, TypeOK, AllOff, SingleFetch, Fetchers
<1>6. CASE Skip
  BY <1>6 DEF Skip, Fault, TypeOK, AllOff, SingleFetch, Fetchers
<1>7. CASE StageWsUpdate
  BY <1>7, SMTT(20) DEF StageWsUpdate, Staged, Gap, TypeOK, AllOff, SingleFetch, Fetchers
<1>8. CASE RestRequest
  BY <1>8 DEF RestRequest, Fault, TypeOK, AllOff, SingleFetch, Fetchers
<1>9. CASE RestUpdate
  BY <1>9 DEF RestUpdate, Snapshot, TypeOK, AllOff, SingleFetch, Fetchers
<1>10. ASSUME NEW p \in Procs, HandleFetchingBook(p) PROVE SingleFetch'
  BY <1>10 DEF HandleFetchingBook, TypeOK, AllOff, SingleFetch, Fetchers
<1>11. ASSUME NEW p \in Procs, FetchBookViaREST(p) PROVE SingleFetch'
  BY <1>11 DEF FetchBookViaREST, TypeOK, AllOff, SingleFetch, Fetchers
<1>12. ASSUME NEW p \in Procs, FetchBlocked(p) PROVE SingleFetch'
  BY <1>12 DEF FetchBlocked, Fault, TypeOK, AllOff, SingleFetch, Fetchers
<1>13. ASSUME NEW p \in Procs, GetOrderbook(p) PROVE SingleFetch'
  BY <1>13, SMTT(20) DEF GetOrderbook, TypeOK, AllOff, SingleFetch, Fetchers
<1>14. ASSUME NEW p \in Procs, ProcessEnds(p) PROVE SingleFetch'
  BY <1>14 DEF ProcessEnds, Entering, TypeOK, AllOff, SingleFetch, Fetchers
<1>15. ASSUME NEW p \in Procs, Outdated(p) PROVE SingleFetch'
  BY <1>15 DEF Outdated, Entering, TypeOK, AllOff, SingleFetch, Fetchers
<1>16. ASSUME NEW p \in Procs, Misaligned(p) PROVE SingleFetch'
  BY <1>16 DEF Misaligned, Entering, TypeOK, AllOff, SingleFetch, Fetchers
<1>17. ASSUME NEW p \in Procs, Process(p) PROVE SingleFetch'
  BY <1>17 DEF Process, Entering, Invalid, TypeOK, AllOff, SingleFetch, Fetchers
<1>18. ASSUME NEW p \in Procs, UpdateBidAskByPrice(p) PROVE SingleFetch'
  BY <1>18 DEF UpdateBidAskByPrice, TypeOK, AllOff, SingleFetch, Fetchers
<1>19. ASSUME NEW p \in Procs, SetNeedsFetchingBook(p) PROVE SingleFetch'
  BY <1>19 DEF SetNeedsFetchingBook, TypeOK, AllOff, SingleFetch, Fetchers
<1>20. ASSUME NEW p \in Procs, FlushOrderbook(p) PROVE SingleFetch'
  BY <1>20 DEF FlushOrderbook, Invalid, TypeOK, AllOff, SingleFetch, Fetchers
<1>21. ASSUME NEW p \in Procs, Cleanup(p) PROVE SingleFetch'
  BY <1>21 DEF Cleanup, TypeOK, AllOff, SingleFetch, Fetchers
<1>22. ASSUME NEW p \in Procs, CleanupFetching(p) PROVE SingleFetch'
  BY <1>22 DEF CleanupFetching, TypeOK, AllOff, SingleFetch, Fetchers
<1>23. ASSUME NEW p \in Procs, CleanupInitial(p) PROVE SingleFetch'
  BY <1>23 DEF CleanupInitial, TypeOK, AllOff, SingleFetch, Fetchers
<1>24. ASSUME NEW p \in Procs, CleanupNeeds(p) PROVE SingleFetch'
  BY <1>24 DEF CleanupNeeds, TypeOK, AllOff, SingleFetch, Fetchers
<1>25. ASSUME NEW w \in Workers, TakeJob(w) PROVE SingleFetch'
  BY <1>25 DEF TakeJob, TypeOK, AllOff, SingleFetch, Fetchers
<1>26. ASSUME NEW w \in Workers, Seed(w) PROVE SingleFetch'
  BY <1>26 DEF Seed, TypeOK, AllOff, SingleFetch, Fetchers
<1>27. ASSUME NEW w \in Workers, SeedFails(w) PROVE SingleFetch'
  BY <1>27 DEF SeedFails, Fault, TypeOK, AllOff, SingleFetch, Fetchers
<1>28. ASSUME NEW w \in Workers, LoadSnapshot(w) PROVE SingleFetch'
  BY <1>28 DEF LoadSnapshot, Snapshot, TypeOK, AllOff, SingleFetch, Fetchers
<1>29. ASSUME NEW w \in Workers, StopFetchingBook(w) PROVE SingleFetch'
  BY <1>29 DEF StopFetchingBook, TypeOK, AllOff, SingleFetch, Fetchers
<1>30. ASSUME NEW w \in Workers, WorkerExit(w) PROVE SingleFetch'
  BY <1>30 DEF WorkerExit, Fault, TypeOK, AllOff, SingleFetch, Fetchers
<1>31. CASE UNCHANGED vars
  BY <1>31 DEF vars, TypeOK, AllOff, SingleFetch, Fetchers
<1>32. ASSUME NEW p \in Procs, VerifyFails(p) PROVE SingleFetch'
  BY <1>32 DEF VerifyFails, Invalid, TypeOK, AllOff, SingleFetch, Fetchers
<1>33. ASSUME NEW w \in Workers, SeedOld(w) PROVE SingleFetch'
  BY <1>33 DEF SeedOld, TypeOK, AllOff, SingleFetch, Fetchers
<1> QED BY <1>1, <1>2, <1>3, <1>4, <1>5, <1>6, <1>7, <1>8, <1>9, <1>10, <1>11, <1>12, <1>13, <1>14, <1>15, <1>16, <1>17, <1>18, <1>19, <1>20, <1>21, <1>22, <1>23, <1>24, <1>25, <1>26, <1>27, <1>28, <1>29, <1>30, <1>31, <1>32, <1>33 DEF Next, Apply, Job

LEMMA HolderKnownStep == CInv /\ [Next]_vars => HolderKnown'
<1> SUFFICES ASSUME CInv, [Next]_vars PROVE HolderKnown'
  OBVIOUS
<1> USE Constants DEF CInv, IInv, exchange, conn, flags, queues, depth, locals, At, Done, Procs, Places
<1>1. CASE Change
  BY <1>1 DEF Change, TypeOK, AllOff, HolderKnown
<1>2. CASE Open
  BY <1>2 DEF Open, TypeOK, AllOff, HolderKnown
<1>3. CASE Close
  BY <1>3 DEF Close, TypeOK, AllOff, HolderKnown
<1>4. CASE ReaderExit
  BY <1>4 DEF ReaderExit, TypeOK, AllOff, HolderKnown
<1>5. CASE Closed
  BY <1>5 DEF Closed, TypeOK, AllOff, HolderKnown
<1>6. CASE Skip
  BY <1>6 DEF Skip, Fault, TypeOK, AllOff, HolderKnown
<1>7. CASE StageWsUpdate
  BY <1>7 DEF StageWsUpdate, Staged, Gap, TypeOK, AllOff, HolderKnown
<1>8. CASE RestRequest
  BY <1>8 DEF RestRequest, Fault, TypeOK, AllOff, HolderKnown
<1>9. CASE RestUpdate
  BY <1>9 DEF RestUpdate, Snapshot, TypeOK, AllOff, HolderKnown
<1>10. ASSUME NEW p \in Procs, HandleFetchingBook(p) PROVE HolderKnown'
  BY <1>10 DEF HandleFetchingBook, TypeOK, AllOff, HolderKnown
<1>11. ASSUME NEW p \in Procs, FetchBookViaREST(p) PROVE HolderKnown'
  BY <1>11 DEF FetchBookViaREST, TypeOK, AllOff, HolderKnown
<1>12. ASSUME NEW p \in Procs, FetchBlocked(p) PROVE HolderKnown'
  BY <1>12 DEF FetchBlocked, Fault, TypeOK, AllOff, HolderKnown
<1>13. ASSUME NEW p \in Procs, GetOrderbook(p) PROVE HolderKnown'
  BY <1>13 DEF GetOrderbook, TypeOK, AllOff, HolderKnown
<1>14. ASSUME NEW p \in Procs, ProcessEnds(p) PROVE HolderKnown'
  BY <1>14 DEF ProcessEnds, Entering, TypeOK, AllOff, HolderKnown
<1>15. ASSUME NEW p \in Procs, Outdated(p) PROVE HolderKnown'
  BY <1>15 DEF Outdated, Entering, TypeOK, AllOff, HolderKnown
<1>16. ASSUME NEW p \in Procs, Misaligned(p) PROVE HolderKnown'
  BY <1>16 DEF Misaligned, Entering, TypeOK, AllOff, HolderKnown
<1>17. ASSUME NEW p \in Procs, Process(p) PROVE HolderKnown'
  BY <1>17 DEF Process, Entering, Invalid, TypeOK, AllOff, HolderKnown
<1>18. ASSUME NEW p \in Procs, UpdateBidAskByPrice(p) PROVE HolderKnown'
  BY <1>18 DEF UpdateBidAskByPrice, TypeOK, AllOff, HolderKnown
<1>19. ASSUME NEW p \in Procs, SetNeedsFetchingBook(p) PROVE HolderKnown'
  BY <1>19 DEF SetNeedsFetchingBook, TypeOK, AllOff, HolderKnown
<1>20. ASSUME NEW p \in Procs, FlushOrderbook(p) PROVE HolderKnown'
  BY <1>20 DEF FlushOrderbook, Invalid, TypeOK, AllOff, HolderKnown
<1>21. ASSUME NEW p \in Procs, Cleanup(p) PROVE HolderKnown'
  BY <1>21 DEF Cleanup, TypeOK, AllOff, HolderKnown
<1>22. ASSUME NEW p \in Procs, CleanupFetching(p) PROVE HolderKnown'
  BY <1>22 DEF CleanupFetching, TypeOK, AllOff, HolderKnown
<1>23. ASSUME NEW p \in Procs, CleanupInitial(p) PROVE HolderKnown'
  BY <1>23 DEF CleanupInitial, TypeOK, AllOff, HolderKnown
<1>24. ASSUME NEW p \in Procs, CleanupNeeds(p) PROVE HolderKnown'
  BY <1>24 DEF CleanupNeeds, TypeOK, AllOff, HolderKnown
<1>25. ASSUME NEW w \in Workers, TakeJob(w) PROVE HolderKnown'
  BY <1>25 DEF TakeJob, TypeOK, AllOff, HolderKnown
<1>26. ASSUME NEW w \in Workers, Seed(w) PROVE HolderKnown'
  BY <1>26 DEF Seed, TypeOK, AllOff, HolderKnown
<1>27. ASSUME NEW w \in Workers, SeedFails(w) PROVE HolderKnown'
  BY <1>27 DEF SeedFails, Fault, TypeOK, AllOff, HolderKnown
<1>28. ASSUME NEW w \in Workers, LoadSnapshot(w) PROVE HolderKnown'
  BY <1>28 DEF LoadSnapshot, Snapshot, TypeOK, AllOff, HolderKnown
<1>29. ASSUME NEW w \in Workers, StopFetchingBook(w) PROVE HolderKnown'
  BY <1>29 DEF StopFetchingBook, TypeOK, AllOff, HolderKnown
<1>30. ASSUME NEW w \in Workers, WorkerExit(w) PROVE HolderKnown'
  BY <1>30 DEF WorkerExit, Fault, TypeOK, AllOff, HolderKnown
<1>31. CASE UNCHANGED vars
  BY <1>31 DEF vars, TypeOK, AllOff, HolderKnown
<1>32. ASSUME NEW p \in Procs, VerifyFails(p) PROVE HolderKnown'
  BY <1>32 DEF VerifyFails, Invalid, TypeOK, AllOff, HolderKnown
<1>33. ASSUME NEW w \in Workers, SeedOld(w) PROVE HolderKnown'
  BY <1>33 DEF SeedOld, TypeOK, AllOff, HolderKnown
<1> QED BY <1>1, <1>2, <1>3, <1>4, <1>5, <1>6, <1>7, <1>8, <1>9, <1>10, <1>11, <1>12, <1>13, <1>14, <1>15, <1>16, <1>17, <1>18, <1>19, <1>20, <1>21, <1>22, <1>23, <1>24, <1>25, <1>26, <1>27, <1>28, <1>29, <1>30, <1>31, <1>32, <1>33 DEF Next, Apply, Job

LEMMA FetchAloneStep == CInv /\ [Next]_vars => FetchAlone'
<1> SUFFICES ASSUME CInv, [Next]_vars PROVE FetchAlone'
  OBVIOUS
<1> USE Constants DEF CInv, IInv, exchange, conn, flags, queues, depth, locals, At, Done, Procs, Places
<1>1. CASE Change
  BY <1>1 DEF Change, TypeOK, AllOff, FetchAlone, Applying
<1>2. CASE Open
  BY <1>2 DEF Open, TypeOK, AllOff, FetchAlone, Applying
<1>3. CASE Close
  BY <1>3 DEF Close, TypeOK, AllOff, FetchAlone, Applying
<1>4. CASE ReaderExit
  BY <1>4 DEF ReaderExit, TypeOK, AllOff, FetchAlone, Applying
<1>5. CASE Closed
  BY <1>5 DEF Closed, TypeOK, AllOff, FetchAlone, Applying
<1>6. CASE Skip
  BY <1>6 DEF Skip, Fault, TypeOK, AllOff, FetchAlone, Applying
<1>7. CASE StageWsUpdate
  BY <1>7 DEF StageWsUpdate, Staged, Gap, TypeOK, AllOff, FetchAlone, Applying
<1>8. CASE RestRequest
  BY <1>8 DEF RestRequest, Fault, TypeOK, AllOff, FetchAlone, Applying
<1>9. CASE RestUpdate
  BY <1>9 DEF RestUpdate, Snapshot, TypeOK, AllOff, FetchAlone, Applying
<1>10. ASSUME NEW p \in Procs, HandleFetchingBook(p) PROVE FetchAlone'
  BY <1>10 DEF HandleFetchingBook, TypeOK, AllOff, FetchAlone, Applying
<1>11. ASSUME NEW p \in Procs, FetchBookViaREST(p) PROVE FetchAlone'
  BY <1>11 DEF FetchBookViaREST, TypeOK, SingleFetch, Fetchers, FetchAlone, Applying
<1>12. ASSUME NEW p \in Procs, FetchBlocked(p) PROVE FetchAlone'
  BY <1>12 DEF FetchBlocked, TypeOK, SingleFetch, Fetchers, FetchAlone, Applying
<1>13. ASSUME NEW p \in Procs, GetOrderbook(p) PROVE FetchAlone'
  BY <1>13 DEF GetOrderbook, TypeOK, AllOff, FetchAlone, Applying
<1>14. ASSUME NEW p \in Procs, ProcessEnds(p) PROVE FetchAlone'
  BY <1>14 DEF ProcessEnds, Entering, TypeOK, AllOff, FetchAlone, Applying
<1>15. ASSUME NEW p \in Procs, Outdated(p) PROVE FetchAlone'
  BY <1>15 DEF Outdated, Entering, TypeOK, AllOff, FetchAlone, Applying
<1>16. ASSUME NEW p \in Procs, Misaligned(p) PROVE FetchAlone'
  BY <1>16 DEF Misaligned, Entering, TypeOK, AllOff, FetchAlone, Applying
<1>17. ASSUME NEW p \in Procs, Process(p) PROVE FetchAlone'
  BY <1>17 DEF Process, Entering, Invalid, TypeOK, AllOff, FetchAlone, Applying
<1>18. ASSUME NEW p \in Procs, UpdateBidAskByPrice(p) PROVE FetchAlone'
  BY <1>18 DEF UpdateBidAskByPrice, TypeOK, AllOff, FetchAlone, Applying
<1>19. ASSUME NEW p \in Procs, SetNeedsFetchingBook(p) PROVE FetchAlone'
  BY <1>19 DEF SetNeedsFetchingBook, TypeOK, AllOff, FetchAlone, Applying
<1>20. ASSUME NEW p \in Procs, FlushOrderbook(p) PROVE FetchAlone'
  BY <1>20 DEF FlushOrderbook, Invalid, TypeOK, AllOff, FetchAlone, Applying
<1>21. ASSUME NEW p \in Procs, Cleanup(p) PROVE FetchAlone'
  BY <1>21 DEF Cleanup, TypeOK, AllOff, FetchAlone, Applying
<1>22. ASSUME NEW p \in Procs, CleanupFetching(p) PROVE FetchAlone'
  BY <1>22 DEF CleanupFetching, TypeOK, AllOff, FetchAlone, Applying
<1>23. ASSUME NEW p \in Procs, CleanupInitial(p) PROVE FetchAlone'
  BY <1>23 DEF CleanupInitial, TypeOK, AllOff, FetchAlone, Applying
<1>24. ASSUME NEW p \in Procs, CleanupNeeds(p) PROVE FetchAlone'
  BY <1>24 DEF CleanupNeeds, TypeOK, AllOff, FetchAlone, Applying
<1>25. ASSUME NEW w \in Workers, TakeJob(w) PROVE FetchAlone'
  BY <1>25 DEF TakeJob, TypeOK, AllOff, FetchAlone, Applying
<1>26. ASSUME NEW w \in Workers, Seed(w) PROVE FetchAlone'
  BY <1>26 DEF Seed, TypeOK, AllOff, FetchAlone, Applying
<1>27. ASSUME NEW w \in Workers, SeedFails(w) PROVE FetchAlone'
  BY <1>27 DEF SeedFails, Fault, TypeOK, AllOff, FetchAlone, Applying
<1>28. ASSUME NEW w \in Workers, LoadSnapshot(w) PROVE FetchAlone'
  BY <1>28 DEF LoadSnapshot, Snapshot, TypeOK, AllOff, FetchAlone, Applying
<1>29. ASSUME NEW w \in Workers, StopFetchingBook(w) PROVE FetchAlone'
  BY <1>29 DEF StopFetchingBook, TypeOK, AllOff, FetchAlone, Applying
<1>30. ASSUME NEW w \in Workers, WorkerExit(w) PROVE FetchAlone'
  BY <1>30 DEF WorkerExit, Fault, TypeOK, AllOff, FetchAlone, Applying
<1>31. CASE UNCHANGED vars
  BY <1>31 DEF vars, TypeOK, AllOff, FetchAlone, Applying
<1>32. ASSUME NEW p \in Procs, VerifyFails(p) PROVE FetchAlone'
  BY <1>32 DEF VerifyFails, Invalid, TypeOK, AllOff, FetchAlone, Applying
<1>33. ASSUME NEW w \in Workers, SeedOld(w) PROVE FetchAlone'
  BY <1>33 DEF SeedOld, TypeOK, AllOff, FetchAlone, Applying
<1> QED BY <1>1, <1>2, <1>3, <1>4, <1>5, <1>6, <1>7, <1>8, <1>9, <1>10, <1>11, <1>12, <1>13, <1>14, <1>15, <1>16, <1>17, <1>18, <1>19, <1>20, <1>21, <1>22, <1>23, <1>24, <1>25, <1>26, <1>27, <1>28, <1>29, <1>30, <1>31, <1>32, <1>33 DEF Next, Apply, Job

LEMMA FlushedGoneStep == CInv /\ [Next]_vars => FlushedGone'
<1> SUFFICES ASSUME CInv, [Next]_vars PROVE FlushedGone'
  OBVIOUS
<1> USE Constants DEF CInv, IInv, exchange, conn, flags, queues, depth, locals, At, Done, Procs, Places
<1>1. CASE Change
  BY <1>1 DEF Change, TypeOK, AllOff, FlushedGone, Kept, Good
<1>2. CASE Open
  BY <1>2 DEF Open, TypeOK, AllOff, FlushedGone, Kept, Good
<1>3. CASE Close
  BY <1>3 DEF Close, TypeOK, AllOff, FlushedGone, Kept, Good
<1>4. CASE ReaderExit
  BY <1>4 DEF ReaderExit, TypeOK, AllOff, FlushedGone, Kept, Good
<1>5. CASE Closed
  BY <1>5 DEF Closed, TypeOK, AllOff, FlushedGone, Kept, Good
<1>6. CASE Skip
  BY <1>6 DEF Skip, Fault, TypeOK, AllOff, FlushedGone, Kept, Good
<1>7. CASE StageWsUpdate
  BY <1>7 DEF StageWsUpdate, Staged, Gap, TypeOK, AllOff, FlushedGone, Kept, Good
<1>8. CASE RestRequest
  BY <1>8 DEF RestRequest, Fault, TypeOK, AllOff, FlushedGone, Kept, Good
<1>9. CASE RestUpdate
  BY <1>9 DEF RestUpdate, Snapshot, TypeOK, AllOff, FlushedGone, Kept, Good
<1>10. ASSUME NEW p \in Procs, HandleFetchingBook(p) PROVE FlushedGone'
  BY <1>10 DEF HandleFetchingBook, TypeOK, AllOff, FlushedGone, Kept, Good
<1>11. ASSUME NEW p \in Procs, FetchBookViaREST(p) PROVE FlushedGone'
  BY <1>11 DEF FetchBookViaREST, TypeOK, AllOff, FlushedGone, Kept, Good
<1>12. ASSUME NEW p \in Procs, FetchBlocked(p) PROVE FlushedGone'
  BY <1>12 DEF FetchBlocked, Fault, TypeOK, AllOff, FlushedGone, Kept, Good
<1>13. ASSUME NEW p \in Procs, GetOrderbook(p) PROVE FlushedGone'
  BY <1>13 DEF GetOrderbook, TypeOK, AllOff, FlushedGone, Kept, Good
<1>14. ASSUME NEW p \in Procs, ProcessEnds(p) PROVE FlushedGone'
  BY <1>14 DEF ProcessEnds, Entering, TypeOK, AllOff, FlushedGone, Kept, Good
<1>15. ASSUME NEW p \in Procs, Outdated(p) PROVE FlushedGone'
  BY <1>15 DEF Outdated, Entering, TypeOK, AllOff, FlushedGone, Kept, Good
<1>16. ASSUME NEW p \in Procs, Misaligned(p) PROVE FlushedGone'
  BY <1>16 DEF Misaligned, Entering, TypeOK, AllOff, FlushedGone, Kept, Good
<1>17. ASSUME NEW p \in Procs, Process(p) PROVE FlushedGone'
  BY <1>17 DEF Process, Entering, Invalid, TypeOK, AllOff, FlushedGone, Kept, Good
<1>18. ASSUME NEW p \in Procs, UpdateBidAskByPrice(p) PROVE FlushedGone'
  BY <1>18 DEF UpdateBidAskByPrice, TypeOK, AllOff, FlushedGone, Kept, Good
<1>19. ASSUME NEW p \in Procs, SetNeedsFetchingBook(p) PROVE FlushedGone'
  BY <1>19 DEF SetNeedsFetchingBook, TypeOK, AllOff, FlushedGone, Kept, Good
<1>20. ASSUME NEW p \in Procs, FlushOrderbook(p) PROVE FlushedGone'
  BY <1>20 DEF FlushOrderbook, Invalid, TypeOK, AllOff, FlushedGone, Kept, Good
<1>21. ASSUME NEW p \in Procs, Cleanup(p) PROVE FlushedGone'
  BY <1>21 DEF Cleanup, TypeOK, AllOff, FlushedGone, Kept, Good
<1>22. ASSUME NEW p \in Procs, CleanupFetching(p) PROVE FlushedGone'
  BY <1>22 DEF CleanupFetching, TypeOK, AllOff, FlushedGone, Kept, Good
<1>23. ASSUME NEW p \in Procs, CleanupInitial(p) PROVE FlushedGone'
  BY <1>23 DEF CleanupInitial, TypeOK, AllOff, FlushedGone, Kept, Good
<1>24. ASSUME NEW p \in Procs, CleanupNeeds(p) PROVE FlushedGone'
  BY <1>24 DEF CleanupNeeds, TypeOK, AllOff, FlushedGone, Kept, Good
<1>25. ASSUME NEW w \in Workers, TakeJob(w) PROVE FlushedGone'
  BY <1>25 DEF TakeJob, TypeOK, AllOff, FlushedGone, Kept, Good
<1>26. ASSUME NEW w \in Workers, Seed(w) PROVE FlushedGone'
  BY <1>26 DEF Seed, TypeOK, AllOff, FlushedGone, Kept, Good
<1>27. ASSUME NEW w \in Workers, SeedFails(w) PROVE FlushedGone'
  BY <1>27 DEF SeedFails, Fault, TypeOK, AllOff, FlushedGone, Kept, Good
<1>28. ASSUME NEW w \in Workers, LoadSnapshot(w) PROVE FlushedGone'
  <2>1. ASSUME NEW p \in Procs, pc'[p] \in {"bleed", "unfetch", "uninit"}, ~outrun' PROVE FALSE
    <3>1. p # w /\ pc[p] = pc'[p] /\ pc[p] # "uninit"
      BY <1>28, <2>1 DEF LoadSnapshot, TypeOK
    <3>2. pc[p] \in Fetchers /\ pc[w] \in Fetchers /\ w \in Procs
      BY <1>28, <2>1, <3>1 DEF LoadSnapshot, Fetchers
    <3> QED BY <3>1, <3>2 DEF SingleFetch
  <2> QED BY <2>1 DEF FlushedGone, Kept, Good
<1>29. ASSUME NEW w \in Workers, StopFetchingBook(w) PROVE FlushedGone'
  BY <1>29 DEF StopFetchingBook, TypeOK, AllOff, FlushedGone, Kept, Good
<1>30. ASSUME NEW w \in Workers, WorkerExit(w) PROVE FlushedGone'
  BY <1>30 DEF WorkerExit, Fault, TypeOK, AllOff, FlushedGone, Kept, Good
<1>31. CASE UNCHANGED vars
  BY <1>31 DEF vars, TypeOK, AllOff, FlushedGone, Kept, Good
<1>32. ASSUME NEW p \in Procs, VerifyFails(p) PROVE FlushedGone'
  BY <1>32 DEF VerifyFails, Invalid, TypeOK, AllOff, FlushedGone, Kept, Good
<1>33. ASSUME NEW w \in Workers, SeedOld(w) PROVE FlushedGone'
  BY <1>33 DEF SeedOld, TypeOK, AllOff, FlushedGone, Kept, Good
<1> QED BY <1>1, <1>2, <1>3, <1>4, <1>5, <1>6, <1>7, <1>8, <1>9, <1>10, <1>11, <1>12, <1>13, <1>14, <1>15, <1>16, <1>17, <1>18, <1>19, <1>20, <1>21, <1>22, <1>23, <1>24, <1>25, <1>26, <1>27, <1>28, <1>29, <1>30, <1>31, <1>32, <1>33 DEF Next, Apply, Job

LEMMA CheckOnStep == CInv /\ [Next]_vars => CheckOn'
<1> SUFFICES ASSUME CInv, [Next]_vars PROVE CheckOn'
  OBVIOUS
<1> USE Constants DEF CInv, IInv, exchange, conn, flags, queues, depth, locals, At, Done, Procs, Places
<1>1. CASE Change
  BY <1>1 DEF Change, TypeOK, AllOff, CheckOn, Kept, Good
<1>2. CASE Open
  BY <1>2 DEF Open, TypeOK, AllOff, CheckOn, Kept, Good
<1>3. CASE Close
  BY <1>3 DEF Close, TypeOK, AllOff, CheckOn, Kept, Good
<1>4. CASE ReaderExit
  BY <1>4 DEF ReaderExit, TypeOK, AllOff, CheckOn, Kept, Good
<1>5. CASE Closed
  BY <1>5 DEF Closed, TypeOK, AllOff, CheckOn, Kept, Good
<1>6. CASE Skip
  BY <1>6 DEF Skip, Fault, TypeOK, AllOff, CheckOn, Kept, Good
<1>7. CASE StageWsUpdate
  BY <1>7 DEF StageWsUpdate, Staged, Gap, TypeOK, AllOff, CheckOn, Kept, Good
<1>8. CASE RestRequest
  BY <1>8 DEF RestRequest, Fault, TypeOK, AllOff, CheckOn, Kept, Good
<1>9. CASE RestUpdate
  BY <1>9 DEF RestUpdate, Snapshot, TypeOK, AllOff, CheckOn, Kept, Good
<1>10. ASSUME NEW p \in Procs, HandleFetchingBook(p) PROVE CheckOn'
  BY <1>10 DEF HandleFetchingBook, TypeOK, AllOff, CheckOn, Kept, Good
<1>11. ASSUME NEW p \in Procs, FetchBookViaREST(p) PROVE CheckOn'
  BY <1>11 DEF FetchBookViaREST, TypeOK, AllOff, CheckOn, Kept, Good
<1>12. ASSUME NEW p \in Procs, FetchBlocked(p) PROVE CheckOn'
  BY <1>12 DEF FetchBlocked, Fault, TypeOK, AllOff, CheckOn, Kept, Good
<1>13. ASSUME NEW p \in Procs, GetOrderbook(p) PROVE CheckOn'
  BY <1>13 DEF GetOrderbook, TypeOK, AllOff, CheckOn, Kept, Good
<1>14. ASSUME NEW p \in Procs, ProcessEnds(p) PROVE CheckOn'
  BY <1>14 DEF ProcessEnds, Entering, TypeOK, AllOff, CheckOn, Kept, Good
<1>15. ASSUME NEW p \in Procs, Outdated(p) PROVE CheckOn'
  BY <1>15 DEF Outdated, Entering, TypeOK, AllOff, CheckOn, Kept, Good
<1>16. ASSUME NEW p \in Procs, Misaligned(p) PROVE CheckOn'
  BY <1>16 DEF Misaligned, Entering, TypeOK, AllOff, CheckOn, Kept, Good
<1>17. ASSUME NEW p \in Procs, Process(p) PROVE CheckOn'
  <2>1. pc[p] \in Applying /\ fetching' = fetching /\ outrun' = outrun
    BY <1>17 DEF Process, Entering, Applying
  <2>2. ~(fetching' /\ ~outrun')
    BY <2>1 DEF FetchAlone
  <2> QED BY <2>2 DEF CheckOn, Kept, Good
<1>18. ASSUME NEW p \in Procs, UpdateBidAskByPrice(p) PROVE CheckOn'
  BY <1>18 DEF UpdateBidAskByPrice, TypeOK, AllOff, CheckOn, Kept, Good
<1>19. ASSUME NEW p \in Procs, SetNeedsFetchingBook(p) PROVE CheckOn'
  BY <1>19 DEF SetNeedsFetchingBook, TypeOK, AllOff, CheckOn, Kept, Good
<1>20. ASSUME NEW p \in Procs, FlushOrderbook(p) PROVE CheckOn'
  BY <1>20 DEF FlushOrderbook, Invalid, TypeOK, AllOff, CheckOn, Kept, Good
<1>21. ASSUME NEW p \in Procs, Cleanup(p) PROVE CheckOn'
  BY <1>21 DEF Cleanup, TypeOK, AllOff, CheckOn, Kept, Good
<1>22. ASSUME NEW p \in Procs, CleanupFetching(p) PROVE CheckOn'
  BY <1>22 DEF CleanupFetching, TypeOK, AllOff, CheckOn, Kept, Good
<1>23. ASSUME NEW p \in Procs, CleanupInitial(p) PROVE CheckOn'
  <2>1. pc[p] = "uninit" /\ UNCHANGED depth
    BY <1>23 DEF CleanupInitial
  <2>2. ~Kept'
    BY <2>1 DEF FlushedGone, Kept, Good
  <2> QED BY <2>2 DEF CheckOn
<1>24. ASSUME NEW p \in Procs, CleanupNeeds(p) PROVE CheckOn'
  BY <1>24 DEF CleanupNeeds, TypeOK, AllOff, CheckOn, Kept, Good
<1>25. ASSUME NEW w \in Workers, TakeJob(w) PROVE CheckOn'
  BY <1>25 DEF TakeJob, TypeOK, AllOff, CheckOn, Kept, Good
<1>26. ASSUME NEW w \in Workers, Seed(w) PROVE CheckOn'
  BY <1>26 DEF Seed, TypeOK, AllOff, CheckOn, Kept, Good
<1>27. ASSUME NEW w \in Workers, SeedFails(w) PROVE CheckOn'
  BY <1>27 DEF SeedFails, Fault, TypeOK, AllOff, CheckOn, Kept, Good
<1>28. ASSUME NEW w \in Workers, LoadSnapshot(w) PROVE CheckOn'
  BY <1>28 DEF LoadSnapshot, Snapshot, TypeOK, AllOff, CheckOn, Kept, Good
<1>29. ASSUME NEW w \in Workers, StopFetchingBook(w) PROVE CheckOn'
  BY <1>29 DEF StopFetchingBook, TypeOK, AllOff, CheckOn, Kept, Good
<1>30. ASSUME NEW w \in Workers, WorkerExit(w) PROVE CheckOn'
  BY <1>30 DEF WorkerExit, Fault, TypeOK, AllOff, CheckOn, Kept, Good
<1>31. CASE UNCHANGED vars
  BY <1>31 DEF vars, TypeOK, AllOff, CheckOn, Kept, Good
<1>32. ASSUME NEW p \in Procs, VerifyFails(p) PROVE CheckOn'
  BY <1>32 DEF VerifyFails, Invalid, TypeOK, AllOff, CheckOn, Kept, Good
<1>33. ASSUME NEW w \in Workers, SeedOld(w) PROVE CheckOn'
  BY <1>33 DEF SeedOld, TypeOK, AllOff, CheckOn, Kept, Good
<1> QED BY <1>1, <1>2, <1>3, <1>4, <1>5, <1>6, <1>7, <1>8, <1>9, <1>10, <1>11, <1>12, <1>13, <1>14, <1>15, <1>16, <1>17, <1>18, <1>19, <1>20, <1>21, <1>22, <1>23, <1>24, <1>25, <1>26, <1>27, <1>28, <1>29, <1>30, <1>31, <1>32, <1>33 DEF Next, Apply, Job

LEMMA InitControl == Init => CInv
  BY InitInv DEF Init, CInv, SingleFetch, HolderKnown, FetchAlone, FlushedGone, CheckOn, Kept, Good,
     Fetchers, Applying

LEMMA ControlStep == CInv /\ [Next]_vars => CInv'
<1>1. IInv /\ [Next]_vars => IInv'
  BY TypeStep, WritingStep, AllOffStep, FetchOwnedStep DEF IInv
<1> QED BY <1>1, SingleFetchStep, HolderKnownStep, FetchAloneStep, FlushedGoneStep, CheckOnStep
        DEF CInv

LEMMA ControlInvariant == Spec => []CInv
  BY InitControl, ControlStep, PTL DEF Spec

\* For any number of workers: one fetch at a time, however the flags that keep it so are set and
\* reset, and whatever jobs and goroutines the last connection took with it.
THEOREM OneFetchAlways == Spec => []OneFetch
<1>1. CInv => OneFetch
  BY DEF CInv, SingleFetch, OneFetch
<1> QED BY <1>1, ControlInvariant, PTL

-----------------------------------------------------------------------------
(***************************************************************************)
(* Then what is in the buffer, as a set of messages and in its order.      *)
(***************************************************************************)
Msgs(b) == {b[i] : i \in 1..Len(b)}
Ordered(b) == \A i, j \in 1..Len(b) : i < j => b[i].last < b[j].first

\* Some message announces change k; beyond change s there is no hole up to change l.
Holds(b, k) == \E m \in Msgs(b) : k \in m.first .. m.last
Unbroken(b, l, s) ==
  /\ l = 0 => \A m \in Msgs(b) : m.last <= s
  /\ \A m \in Msgs(b) : m.last > s => \A k \in m.first .. l : Holds(b, k)

LEMMA MsgsTyped == ASSUME NEW b \in Seq(Message) PROVE Msgs(b) \subseteq Message
  BY DEF Msgs

LEMMA NumbersTyped ==
  ASSUME NEW m \in Message
  PROVE  m.first \in Nat /\ m.last \in Nat /\ m.first > 0 /\ m.last > 0 /\ m.last <= MaxVersion
  BY Constants DEF Message

\* Taking the head leaves the later messages, all beyond it.
LEMMA Popped ==
  ASSUME NEW b \in Seq(Message), b # <<>>, Ordered(b)
  PROVE  /\ Head(b) \in Msgs(b) /\ Msgs(b) = Msgs(Tail(b)) \cup {Head(b)}
         /\ \A m \in Msgs(Tail(b)) : Head(b).last < m.first
         /\ Ordered(Tail(b))
<1>1. /\ Len(b) \in Nat /\ Len(b) > 0 /\ Len(Tail(b)) = Len(b) - 1 /\ Head(b) = b[1]
      /\ \A i \in 1..Len(Tail(b)) : Tail(b)[i] = b[i + 1]
  BY DEF Message
<1>2. ASSUME NEW m \in Msgs(Tail(b)) PROVE m \in Msgs(b) /\ Head(b).last < m.first
  <2>1. PICK i \in 1..Len(Tail(b)) : m = Tail(b)[i]
    BY DEF Msgs
  <2>2. i + 1 \in 1..Len(b) /\ 1 \in 1..Len(b) /\ 1 < i + 1 /\ m = b[i + 1]
    BY <1>1, <2>1
  <2> QED BY <1>1, <2>2 DEF Msgs, Ordered
<1>3. ASSUME NEW m \in Msgs(b), m # Head(b) PROVE m \in Msgs(Tail(b))
  <2>1. PICK i \in 1..Len(b) : m = b[i]
    BY DEF Msgs
  <2>2. i - 1 \in 1..Len(Tail(b)) /\ m = Tail(b)[i - 1]
    BY <1>1, <1>3, <2>1
  <2> QED BY <2>2 DEF Msgs
<1>4. Head(b) \in Msgs(b)
  BY <1>1 DEF Msgs
<1>5. Ordered(Tail(b))
  <2>1. ASSUME NEW i \in 1..Len(Tail(b)), NEW j \in 1..Len(Tail(b)), i < j
        PROVE  Tail(b)[i].last < Tail(b)[j].first
    <3>1. i + 1 \in 1..Len(b) /\ j + 1 \in 1..Len(b) /\ i + 1 < j + 1
      BY <1>1, <2>1
    <3> QED BY <1>1, <3>1 DEF Ordered
  <2> QED BY <2>1 DEF Ordered
<1> QED BY <1>2, <1>3, <1>4, <1>5

\* A message beyond all the others goes to the end.
LEMMA Appended ==
  ASSUME NEW b \in Seq(Message), NEW m \in Message, Ordered(b),
         \A x \in Msgs(b) : x.last < m.first
  PROVE  Msgs(Append(b, m)) = Msgs(b) \cup {m} /\ Ordered(Append(b, m))
<1>1. /\ Len(b) \in Nat /\ Len(Append(b, m)) = Len(b) + 1 /\ Append(b, m)[Len(b) + 1] = m
      /\ \A i \in 1..Len(b) : Append(b, m)[i] = b[i]
  OBVIOUS
<1>2. ASSUME NEW x \in Msgs(Append(b, m)) PROVE x \in Msgs(b) \cup {m}
  BY <1>1 DEF Msgs
<1>3. ASSUME NEW x \in Msgs(b) PROVE x \in Msgs(Append(b, m))
  <2>1. PICK i \in 1..Len(b) : x = b[i]
    BY DEF Msgs
  <2>2. i \in 1..Len(Append(b, m)) /\ x = Append(b, m)[i]
    BY <1>1, <2>1
  <2> QED BY <2>2 DEF Msgs
<1>4. m \in Msgs(Append(b, m))
  <2>1. Len(b) + 1 \in 1..Len(Append(b, m))
    BY <1>1
  <2> QED BY <1>1, <2>1 DEF Msgs
<1>5. ASSUME NEW i \in 1..Len(Append(b, m)), NEW j \in 1..Len(Append(b, m)), i < j
      PROVE  Append(b, m)[i].last < Append(b, m)[j].first
  <2>1. i \in 1..Len(b) /\ b[i] \in Msgs(b) /\ Append(b, m)[i] = b[i]
    BY <1>1, <1>5 DEF Msgs
  <2>2. CASE j = Len(b) + 1
    BY <1>1, <2>1, <2>2
  <2>3. CASE j # Len(b) + 1
    <3>1. j \in 1..Len(b)
      BY <1>1, <2>3
    <3> QED BY <1>1, <1>5, <2>1, <3>1 DEF Ordered
  <2> QED BY <2>2, <2>3
<1> QED BY <1>2, <1>3, <1>4, <1>5 DEF Ordered

\* Neither a message taken, nor a book further on, nor the next message staged makes a hole.
LEMMA UnbrokenPop ==
  ASSUME NEW b \in Seq(Message), NEW l \in Nat, NEW s \in Nat, b # <<>>, Ordered(b),
         Unbroken(b, l, s)
  PROVE  Unbroken(Tail(b), l, s)
<1>1. ASSUME NEW m \in Msgs(Tail(b)), m.last > s, NEW k \in m.first .. l
      PROVE  Holds(Tail(b), k)
  <2>1. m \in Msgs(b) /\ Head(b).last < m.first /\ Head(b) \in Message /\ m \in Message
    BY Popped, MsgsTyped
  <2>2. PICK x \in Msgs(b) : k \in x.first .. x.last
    BY <1>1, <2>1 DEF Unbroken, Holds
  <2>3. x # Head(b)
    BY <2>1, <2>2, NumbersTyped
  <2> QED BY <2>2, <2>3, Popped DEF Holds
<1>2. ASSUME l = 0, NEW m \in Msgs(Tail(b)) PROVE m.last <= s
  BY <1>2, Popped DEF Unbroken
<1> QED BY <1>1, <1>2 DEF Unbroken

LEMMA UnbrokenOn ==
  ASSUME NEW b \in Seq(Message), NEW l \in Nat, NEW s \in Nat, NEW t \in Nat, s <= t,
         Unbroken(b, l, s)
  PROVE  Unbroken(b, l, t)
<1>1. ASSUME NEW m \in Msgs(b) PROVE m.last \in Nat
  BY MsgsTyped, NumbersTyped
<1> QED BY <1>1 DEF Unbroken

LEMMA UnbrokenStage ==
  ASSUME NEW b \in Seq(Message), NEW c, NEW l \in Nat, NEW s \in Nat, NEW m \in Message,
         Unbroken(b, l, s), Msgs(c) = Msgs(b) \cup {m}, l = 0 \/ m.first = l + 1
  PROVE  Unbroken(c, m.last, s)
<1>1. \A k : Holds(b, k) => Holds(c, k)
  BY DEF Holds
<1>2. ASSUME NEW x \in Msgs(b), x.last > s, NEW k \in x.first .. m.last PROVE Holds(c, k)
  <2>1. x \in Message
    BY MsgsTyped
  <2>2. l # 0
    BY <1>2, <2>1, NumbersTyped DEF Unbroken
  <2>3. CASE k <= l
    <3>1. k \in x.first .. l
      BY <2>1, <2>3, NumbersTyped
    <3> QED BY <1>1, <1>2, <3>1 DEF Unbroken
  <2>4. CASE ~(k <= l)
    <3>1. k \in m.first .. m.last
      BY <2>1, <2>2, <2>4, NumbersTyped
    <3> QED BY <3>1 DEF Holds
  <2> QED BY <2>3, <2>4
<1>3. ASSUME NEW k \in m.first .. m.last PROVE Holds(c, k)
  BY DEF Holds
<1>4. m.last # 0
  BY NumbersTyped
<1> QED BY <1>2, <1>3, <1>4 DEF Unbroken

-----------------------------------------------------------------------------
(***************************************************************************)
(* Then how the book, the buffer and the goroutines' places fit together.  *)
(***************************************************************************)
\* The buffer is in the order of the stream and not ahead of it.
InSequence ==
  /\ Ordered(buffer)
  /\ \A m \in Msgs(buffer) :
       m.first <= m.last /\ m.last <= sent /\ (last # 0 => m.last <= last)

\* Beyond what the last connection has left, and beyond a book that is kept, the buffer has
\* no hole.
Whole ==
  /\ Unbroken(buffer, last, opened)
  /\ Kept => Unbroken(buffer, last, book.id)

\* The id that someone applies by is the book's, or the buffer is beyond the book's.
ReadBehind ==
  \A p \in Procs : Kept /\ pc[p] = "process" =>
    /\ recent[p] <= book.id
    /\ recent[p] < book.id => book.id <= sent /\ \A m \in Msgs(buffer) : m.first > book.id

\* What is about to be written is next after the book, and the buffer is beyond it.
WriteNext ==
  \A p \in Procs : pc[p] = "write" =>
    /\ update.first <= update.last /\ update.last <= sent
    /\ \A m \in Msgs(buffer) : update.last < m.first
    /\ Kept => /\ recent[p] <= book.id /\ book.id < update.last
               /\ \A k \in book.id + 1 .. update.first - 1 : k \in Empty

\* Past the check of the first update, every change not yet in the book is in the buffer.
Reached == IF \E p \in Procs : pc[p] = "write" THEN update.last ELSE book.id
Checked == Kept /\ ~initial /\ \A p \in Procs : pc[p] # "fetch"
NothingDropped ==
  Checked => last # 0 /\ \A k \in Reached + 1 .. last : k \in Empty \/ Holds(buffer, k)

\* Past the check there is room for the next message.
RoomForNext ==
  Checked /\ pc["reader"] \notin Applying \cup {"apply"} => Len(buffer) < BufferLimit

SInv == /\ CInv /\ InSequence /\ Whole /\ ReadBehind /\ WriteNext /\ NothingDropped
        /\ RoomForNext /\ BookConsistent

\* A step that touches neither the buffer nor the book, and brings nobody to where they matter.
Same ==
  /\ UNCHANGED <<opened, last, buffer, update>>
  /\ \A p \in Procs : pc'[p] \in {"process", "write"} => recent'[p] = recent[p]
Quiet ==
  /\ Same /\ book' = book /\ sent <= sent' /\ version <= version'
  /\ (holder' => holder) /\ (outrun => outrun') /\ (initial => initial')
  /\ \A p \in Procs : pc'[p] \in {"process", "write"} => pc'[p] = pc[p]
  /\ \A p \in Procs : pc[p] = "write" => pc'[p] = "write"
  /\ initial' \/ \A p \in Procs : pc[p] = "fetch" => pc'[p] = "fetch"
  /\ \/ pc'["reader"] \in Applying \cup {"apply"}
     \/ pc["reader"] \notin Applying \cup {"apply"} \/ fetching' \/ buffer = <<>>

\* A step after which the stream does not keep the book.
Dim ==
  /\ Same /\ UNCHANGED <<sent, version, outrun, holder>> /\ ~Kept'
  /\ book' = book \/ ~Good'
  /\ \A p \in Procs : pc'[p] \in {"process", "write"} => pc'[p] = pc[p]

LEMMA Kinds ==
  ASSUME CInv, [Next]_vars
  PROVE  \/ Quiet \/ Dim \/ Open \/ StageWsUpdate
         \/ \E p \in Procs : \/ GetOrderbook(p) \/ Outdated(p) \/ Misaligned(p) \/ Process(p)
                             \/ UpdateBidAskByPrice(p) \/ Cleanup(p)
         \/ \E w \in Workers : LoadSnapshot(w)
<1> USE Constants DEF Applying, exchange, conn, flags, queues, depth, locals, At, Done, Same
<1>0. TypeOK /\ Workers \subseteq Procs /\ "reader" \in Procs
  BY DEF CInv, IInv, Procs
<1>1. CASE Change
  BY <1>1, <1>0 DEF Change, Quiet, TypeOK
<1>2. CASE Close
  BY <1>2, <1>0 DEF Close, Quiet, TypeOK
<1>3. CASE ReaderExit
  BY <1>3, <1>0 DEF ReaderExit, Quiet, TypeOK
<1>4. CASE Closed
  BY <1>4, <1>0 DEF Closed, Quiet, TypeOK
<1>5. CASE Skip
  BY <1>5, <1>0 DEF Skip, Fault, Quiet, TypeOK
<1>6. CASE RestRequest
  BY <1>6, <1>0 DEF RestRequest, Fault, Quiet, TypeOK
<1>7. ASSUME NEW p \in Procs, HandleFetchingBook(p) PROVE Quiet
  BY <1>7, <1>0 DEF HandleFetchingBook, Quiet, TypeOK
<1>8. ASSUME NEW p \in Procs, FetchBookViaREST(p) PROVE Quiet
  BY <1>8, <1>0 DEF FetchBookViaREST, Quiet, TypeOK
<1>9. ASSUME NEW p \in Procs, FetchBlocked(p) PROVE Quiet
  BY <1>9, <1>0 DEF FetchBlocked, Fault, Quiet, TypeOK
<1>10. ASSUME NEW p \in Procs, ProcessEnds(p) PROVE Quiet
  BY <1>10, <1>0 DEF ProcessEnds, Entering, Quiet, TypeOK
<1>11. ASSUME NEW p \in Procs, SetNeedsFetchingBook(p) PROVE Quiet
  BY <1>11, <1>0 DEF SetNeedsFetchingBook, Quiet, TypeOK
<1>12. ASSUME NEW p \in Procs, CleanupFetching(p) PROVE Quiet
  BY <1>12, <1>0 DEF CleanupFetching, Quiet, TypeOK
<1>13. ASSUME NEW p \in Procs, CleanupNeeds(p) PROVE Quiet
  BY <1>13, <1>0 DEF CleanupNeeds, Quiet, TypeOK
<1>14. ASSUME NEW w \in Workers, TakeJob(w) PROVE Quiet
  BY <1>14, <1>0 DEF TakeJob, Quiet, TypeOK
<1>15. ASSUME NEW w \in Workers, SeedFails(w) PROVE Quiet
  BY <1>15, <1>0 DEF SeedFails, Fault, Quiet, TypeOK
<1>16. ASSUME NEW w \in Workers, StopFetchingBook(w) PROVE Quiet
  BY <1>16, <1>0 DEF StopFetchingBook, Quiet, TypeOK
<1>17. ASSUME NEW w \in Workers, WorkerExit(w) PROVE Quiet
  BY <1>17, <1>0 DEF WorkerExit, Fault, Quiet, TypeOK
<1>18. CASE RestUpdate
  BY <1>18, <1>0 DEF RestUpdate, Snapshot, Dim, Kept, Good, TypeOK
<1>19. ASSUME NEW p \in Procs, FlushOrderbook(p) PROVE Dim
  BY <1>19, <1>0 DEF FlushOrderbook, Invalid, Dim, Kept, Good, TypeOK
<1>20. ASSUME NEW p \in Procs, CleanupInitial(p) PROVE Dim
  <2>1. ~Kept
    BY <1>20 DEF CleanupInitial, CInv, FlushedGone
  <2> QED BY <1>20, <2>1, <1>0 DEF CleanupInitial, Dim, Kept, Good, TypeOK
<1>21. CASE UNCHANGED vars
  BY <1>21, <1>0 DEF vars, Quiet, TypeOK
<1>22. ASSUME NEW w \in Workers, Seed(w) PROVE Quiet
  BY <1>22, <1>0 DEF Seed, Quiet, TypeOK
<1>23. ASSUME NEW w \in Workers, SeedOld(w) PROVE Quiet
  BY <1>23, <1>0 DEF SeedOld, Quiet, TypeOK
<1>24. ASSUME NEW p \in Procs, VerifyFails(p) PROVE Dim
  BY <1>24, <1>0 DEF VerifyFails, Invalid, Dim, Kept, Good, TypeOK
<1> QED BY <1>1, <1>2, <1>3, <1>4, <1>5, <1>6, <1>7, <1>8, <1>9, <1>10, <1>11, <1>12, <1>13, <1>14, <1>15, <1>16, <1>17, <1>18, <1>19, <1>20, <1>21, <1>22, <1>23, <1>24 DEF Next, Apply, Job

\* The data's types, as the steps below need them.
LEMMA Numbers ==
  ASSUME CInv
  PROVE  /\ version \in Nat /\ sent \in Nat /\ last \in Nat /\ sent <= version /\ last <= sent
         /\ buffer \in Seq(Message) /\ book \in Book /\ book.id \in Nat
         /\ \A p \in Procs : recent[p] \in Nat
         /\ opened \in Nat
         /\ Msgs(buffer) \subseteq Message /\ Len(buffer) \in Nat /\ Len(buffer) <= BufferLimit
<1>1. TypeOK
  BY DEF CInv, IInv
<1>2. Msgs(buffer) \subseteq Message
  BY <1>1, MsgsTyped DEF TypeOK
<1>3. book \in Book /\ book.id \in Nat
  BY <1>1, Constants DEF TypeOK, Book
<1> QED BY <1>1, <1>2, <1>3, Constants DEF TypeOK

LEMMA NumbersNext ==
  ASSUME CInv'
  PROVE  /\ version' \in Nat /\ sent' \in Nat /\ last' \in Nat /\ book'.id \in Nat
         /\ buffer' \in Seq(Message) /\ Msgs(buffer') \subseteq Message
         /\ \A p \in Procs : recent'[p] \in Nat
         /\ opened' \in Nat
<1>1. TypeOK'
  BY DEF CInv, IInv
<1>2. Msgs(buffer') \subseteq Message
  BY <1>1, MsgsTyped DEF TypeOK
<1>3. book'.id \in Nat
  BY <1>1, Constants DEF TypeOK
<1> QED BY <1>1, <1>2, <1>3, Constants DEF TypeOK

\* What stageWsUpdate does: nothing but let the message pass, or add it, in a full buffer at the
\* cost of the oldest.
Added(v) ==
  LET m == [first |-> sent + 1, last |-> v] IN
  /\ last' = v /\ (last = 0 \/ last = sent) /\ Ordered(buffer')
  /\ \/ /\ Msgs(buffer') = Msgs(buffer) \cup {m}
        /\ pc' = [pc EXCEPT !["reader"] = "apply"]
     \/ /\ Len(buffer) = BufferLimit /\ buffer # <<>> /\ pc' = pc
        /\ Msgs(buffer') = Msgs(Tail(buffer)) \cup {m}

LEMMA StageStep ==
  ASSUME CInv, InSequence, StageWsUpdate
  PROVE  /\ UNCHANGED <<version, opened, holder, book, outrun, initial, recent, update>>
         /\ pc["reader"] = "wait" /\ lock = None
         /\ \E v \in sent + 1 .. version : /\ sent' = v
                                           /\ UNCHANGED <<last, buffer, pc>> \/ Added(v)
<1>1. /\ UNCHANGED <<version, opened, holder, book, outrun, initial, recent, update>>
      /\ pc["reader"] = "wait" /\ lock = None
  BY DEF StageWsUpdate, conn, flags, depth, locals
<1>2. PICK v \in sent + 1 .. version :
        /\ sent' = v
        /\ \/ UNCHANGED <<last, buffer, pc>>
           \/ /\ ~Gap([first |-> sent + 1, last |-> v])
              /\ Staged([first |-> sent + 1, last |-> v])
  BY Zenon DEF StageWsUpdate
<1>3. CASE UNCHANGED <<last, buffer, pc>>
  BY <1>1, <1>2, <1>3
<1>4. CASE ~Gap([first |-> sent + 1, last |-> v]) /\ Staged([first |-> sent + 1, last |-> v])
  <2> DEFINE m == [first |-> sent + 1, last |-> v]
  <2>1. m \in Message /\ m.first = sent + 1 /\ m.last = v
    BY Numbers, Constants DEF Message, CInv, IInv, TypeOK
  <2>2. last' = v
    BY <1>4 DEF Staged
  <2>3. last = 0 \/ last = sent
    BY <1>4, Numbers DEF Gap
  <2>4. \A x \in Msgs(buffer) : x.last < m.first
    <3> SUFFICES ASSUME NEW x \in Msgs(buffer) PROVE x.last < m.first
      OBVIOUS
    <3>1. x \in Message /\ x.last <= sent
      BY Numbers DEF InSequence
    <3> QED BY <2>1, <3>1, Numbers, NumbersTyped
  <2>5. CASE Len(buffer) = BufferLimit
    <3>1. buffer' = Append(Tail(buffer), m) /\ pc' = pc
      BY <1>4, <2>5 DEF Staged
    <3>2. buffer # <<>>
      BY <2>5, Constants, Numbers
    <3>3. /\ Tail(buffer) \in Seq(Message) /\ Ordered(Tail(buffer))
          /\ Msgs(Tail(buffer)) \subseteq Msgs(buffer)
      BY <3>2, Popped, Numbers DEF InSequence
    <3>4. Msgs(buffer') = Msgs(Tail(buffer)) \cup {m} /\ Ordered(buffer')
      BY <2>1, <2>4, <3>1, <3>3, Appended
    <3> QED BY <1>1, <1>2, <2>2, <2>3, <2>5, <3>1, <3>2, <3>4 DEF Added
  <2>6. CASE Len(buffer) # BufferLimit
    <3>1. buffer' = Append(buffer, m) /\ pc' = [pc EXCEPT !["reader"] = "apply"]
      BY <1>4, <2>6 DEF Staged, At
    <3>2. Msgs(buffer') = Msgs(buffer) \cup {m} /\ Ordered(buffer')
      BY <2>1, <2>4, <3>1, Appended, Numbers DEF InSequence
    <3> QED BY <1>1, <1>2, <2>2, <2>3, <3>1, <3>2 DEF Added
  <2> QED BY <2>5, <2>6
<1> QED BY <1>2, <1>3, <1>4

\* What is common to the steps that take the head of the buffer.
Pops ==
  /\ buffer # <<>> /\ buffer' = Tail(buffer) /\ Head(buffer) \in Message
  /\ Head(buffer) \in Msgs(buffer) /\ Msgs(buffer) = Msgs(buffer') \cup {Head(buffer)}
  /\ (\A m \in Msgs(buffer') : Head(buffer).last < m.first) /\ Ordered(buffer')
  /\ Len(buffer') + 1 = Len(buffer)
  /\ UNCHANGED <<version, sent, opened, last, holder, outrun, recent>>

LEMMA PopStep ==
  ASSUME CInv, InSequence, NEW p \in Procs, Outdated(p) \/ Misaligned(p) \/ Process(p)
  PROVE  Pops
<1>1. /\ buffer # <<>> /\ buffer' = Tail(buffer)
      /\ UNCHANGED <<version, sent, opened, last, holder, outrun, recent>>
  BY DEF Outdated, Misaligned, Process, exchange, conn, depth, locals
<1>2. /\ Head(buffer) \in Msgs(buffer) /\ Msgs(buffer) = Msgs(buffer') \cup {Head(buffer)}
      /\ (\A m \in Msgs(buffer') : Head(buffer).last < m.first) /\ Ordered(buffer')
  BY <1>1, Popped, Numbers DEF InSequence
<1>3. Head(buffer) \in Message
  BY <1>2, Numbers
<1>4. Len(buffer') + 1 = Len(buffer)
  BY <1>1, Numbers
<1> QED BY <1>1, <1>2, <1>3, <1>4 DEF Pops

LEMMA InSequenceStep == SInv /\ [Next]_vars => InSequence'
<1> SUFFICES ASSUME SInv, [Next]_vars PROVE InSequence'
  OBVIOUS
<1>1. CInv /\ InSequence /\ CInv'
  BY ControlStep DEF SInv
<1> USE <1>1
<1>2. CASE Quiet
  <2>1. \A m \in Msgs(buffer) : m.last <= sent'
    <3> SUFFICES ASSUME NEW m \in Msgs(buffer) PROVE m.last <= sent'
      OBVIOUS
    <3>1. m.last \in Nat /\ m.last <= sent /\ sent <= sent'
      BY <1>2, Numbers, NumbersTyped DEF InSequence, Quiet
    <3> QED BY <3>1, Numbers, NumbersNext
  <2> QED BY <1>2, <2>1 DEF Quiet, Same, InSequence
<1>3. CASE Dim
  BY <1>3 DEF Dim, Same, InSequence
<1>4. CASE Open
  <2>1. buffer' = buffer /\ last' = 0 /\ sent' = version
    BY <1>4 DEF Open, queues
  <2>2. \A m \in Msgs(buffer) : m.last \in Nat
    BY Numbers, NumbersTyped
  <2> QED BY <2>1, <2>2, Numbers DEF InSequence
<1>5. CASE StageWsUpdate
  <2>1. PICK v \in sent + 1 .. version : sent' = v /\ (UNCHANGED <<last, buffer, pc>> \/ Added(v))
    BY <1>5, StageStep
  <2>2. \A x \in Msgs(buffer) : x.last \in Nat /\ x.last <= v /\ x.first <= x.last
    <3> SUFFICES ASSUME NEW x \in Msgs(buffer)
                 PROVE  x.last \in Nat /\ x.last <= v /\ x.first <= x.last
      OBVIOUS
    <3>1. x.last \in Nat /\ x.last <= sent /\ x.first <= x.last
      BY Numbers, NumbersTyped DEF InSequence
    <3> QED BY <2>1, <3>1, Numbers
  <2>3. CASE UNCHANGED <<last, buffer, pc>>
    BY <2>1, <2>2, <2>3 DEF InSequence
  <2>4. CASE Added(v)
    <3> DEFINE m == [first |-> sent + 1, last |-> v]
    <3>1. m.first <= m.last /\ m.last = v /\ v \in Nat
      BY <2>1, Numbers
    <3>2. \A x \in Msgs(buffer') : x \in Msgs(buffer) \/ x = m
      BY <2>4, Popped, Numbers DEF Added, InSequence
    <3>3. Ordered(buffer') /\ last' = v
      BY <2>4 DEF Added
    <3> QED BY <2>1, <2>2, <3>1, <3>2, <3>3 DEF InSequence
  <2> QED BY <2>1, <2>3, <2>4
<1>6. ASSUME NEW p \in Procs, GetOrderbook(p) PROVE InSequence'
  BY <1>6 DEF GetOrderbook, exchange, queues, InSequence
<1>7. ASSUME NEW p \in Procs, Outdated(p) \/ Misaligned(p) \/ Process(p) PROVE InSequence'
  BY <1>7, PopStep DEF Pops, InSequence
<1>8. ASSUME NEW p \in Procs, UpdateBidAskByPrice(p) PROVE InSequence'
  BY <1>8 DEF UpdateBidAskByPrice, exchange, queues, InSequence
<1>9. ASSUME NEW p \in Procs, Cleanup(p) PROVE InSequence'
  BY <1>9 DEF Cleanup, exchange, InSequence, Ordered, Msgs
<1>10. ASSUME NEW w \in Workers, LoadSnapshot(w) PROVE InSequence'
  BY <1>10 DEF LoadSnapshot, exchange, queues, InSequence
<1> QED BY <1>2, <1>3, <1>4, <1>5, <1>6, <1>7, <1>8, <1>9, <1>10, Kinds

LEMMA WholeStep == SInv /\ [Next]_vars => Whole'
<1> SUFFICES ASSUME SInv, [Next]_vars PROVE Whole'
  OBVIOUS
<1>1. CInv /\ InSequence /\ Whole /\ CInv'
  BY ControlStep DEF SInv
<1> USE <1>1
<1>2. CASE Quiet
  <2>1. Kept' => Kept /\ book' = book
    BY <1>2 DEF Quiet, Kept, Good
  <2> QED BY <1>2, <2>1 DEF Quiet, Same, Whole
<1>3. CASE Dim
  BY <1>3 DEF Dim, Same, Whole
<1>4. CASE Open
  <2>1. ~holder' /\ buffer' = buffer /\ opened' = version
    BY <1>4 DEF Open, depth, queues, CInv, HolderKnown
  <2>2. ASSUME NEW m \in Msgs(buffer) PROVE m.last <= version /\ ~(m.last > version)
    <3>1. m.last <= sent /\ m.last \in Nat
      BY Numbers, NumbersTyped DEF InSequence
    <3> QED BY <3>1, Numbers
  <2> QED BY <2>1, <2>2 DEF Whole, Kept, Unbroken
<1>5. CASE StageWsUpdate
  <2>1. PICK v \in sent + 1 .. version : sent' = v /\ (UNCHANGED <<last, buffer, pc>> \/ Added(v))
    BY <1>5, StageStep
  <2>2. UNCHANGED <<opened, holder, book, outrun>>
    BY <1>5, StageStep
  <2>3. CASE UNCHANGED <<last, buffer, pc>>
    BY <2>2, <2>3 DEF Whole, Kept, Good
  <2>4. CASE Added(v)
    <3> DEFINE m == [first |-> sent + 1, last |-> v]
    <3>1. m \in Message /\ m.first = sent + 1 /\ m.last = v /\ last' = v
          /\ (last = 0 \/ m.first = last + 1)
      <4>1. last' = v /\ (last = 0 \/ last = sent)
        BY <2>4 DEF Added
      <4>2. sent \in Nat /\ version \in 0..MaxVersion /\ MaxVersion \in Nat
        BY Constants DEF CInv, IInv, TypeOK
      <4>3. sent + 1 \in 1..MaxVersion /\ v \in 1..MaxVersion
        BY <4>2
      <4> QED BY <4>1, <4>3 DEF Message
    <3>2. ASSUME NEW s \in Nat, Unbroken(buffer, last, s) PROVE Unbroken(buffer', last', s)
      <4>1. CASE Msgs(buffer') = Msgs(buffer) \cup {m}
        BY <3>1, <3>2, <4>1, UnbrokenStage, Numbers
      <4>2. CASE buffer # <<>> /\ Msgs(buffer') = Msgs(Tail(buffer)) \cup {m}
        <5>1. Tail(buffer) \in Seq(Message) /\ Unbroken(Tail(buffer), last, s)
          BY <3>2, <4>2, UnbrokenPop, Numbers DEF InSequence
        <5>2. Unbroken(buffer', m.last, s)
          <6> HIDE DEF m
          <6> QED BY <3>1, <4>2, <5>1, UnbrokenStage, Numbers
        <5> QED BY <3>1, <5>2
      <4> QED BY <2>4, <4>1, <4>2 DEF Added
    <3> QED BY <2>2, <3>2, Numbers DEF Whole, Kept, Good
  <2> QED BY <2>1, <2>3, <2>4
<1>6. ASSUME NEW p \in Procs, GetOrderbook(p) PROVE Whole'
  BY <1>6 DEF GetOrderbook, conn, queues, depth, Whole, Kept, Good
<1>7. ASSUME NEW p \in Procs, Outdated(p) \/ Misaligned(p) \/ Process(p) PROVE Whole'
  <2>1. Pops
    BY <1>7, PopStep
  <2>2. Kept' => Kept /\ book'.id = book.id
    <3>1. UNCHANGED <<holder, outrun>>
      BY <2>1 DEF Pops
    <3>2. book' = book \/ book' = Invalid(book)
      BY <1>7, Zenon DEF Outdated, Misaligned, Process, depth
    <3> QED BY <3>1, <3>2 DEF Kept, Good, Invalid
  <2>3. ASSUME NEW s \in Nat, Unbroken(buffer, last, s) PROVE Unbroken(buffer', last', s)
    BY <2>1, <2>3, UnbrokenPop, Numbers DEF Pops, InSequence
  <2> QED BY <2>1, <2>2, <2>3, Numbers DEF Pops, Whole
<1>8. ASSUME NEW p \in Procs, UpdateBidAskByPrice(p) PROVE Whole'
  <2>1. UNCHANGED <<opened, last, buffer, holder, outrun>>
    BY <1>8 DEF UpdateBidAskByPrice, conn, queues
  <2>2. ASSUME Kept' PROVE Unbroken(buffer', last', book'.id)
    <3>1. book' = [book EXCEPT !.id = update.last, !.has = @ \cup update.first .. update.last]
      BY <1>8 DEF UpdateBidAskByPrice
    <3>2. Kept /\ book'.id = update.last
      BY <2>1, <2>2, <3>1, Numbers DEF Kept, Good, Book
    <3>3. book.id < book'.id
      BY <1>8, <3>2 DEF SInv, WriteNext, UpdateBidAskByPrice
    <3>4. Unbroken(buffer, last, book.id)
      BY <3>2 DEF Whole
    <3> QED BY <2>1, <3>3, <3>4, UnbrokenOn, Numbers, NumbersNext
  <2> QED BY <2>1, <2>2 DEF Whole
<1>9. ASSUME NEW p \in Procs, Cleanup(p) PROVE Whole'
  <2>1. Msgs(buffer') = {}
    BY <1>9 DEF Cleanup, Msgs
  <2> QED BY <2>1 DEF Whole, Unbroken
<1>10. ASSUME NEW w \in Workers, LoadSnapshot(w) PROVE Whole'
  <2>1. UNCHANGED <<opened, last, buffer>> /\ book'.id = snap[w] /\ snap[w] \in Nat
    BY <1>10, Constants DEF LoadSnapshot, Snapshot, conn, queues, CInv, IInv, TypeOK
  <2>2. ASSUME ~outrun', NEW m \in Msgs(buffer) PROVE m.last > snap[w] => m.last > opened
    <3>1. PICK i \in 1..Len(buffer) : m = buffer[i]
      BY DEF Msgs
    <3>2. m.last \notin snap[w] + 1 .. opened
      BY <1>10, <2>2, <3>1 DEF LoadSnapshot
    <3>3. m.last \in Nat
      BY Numbers, NumbersTyped
    <3> QED BY <2>1, <3>2, <3>3, Numbers
  <2>3. ASSUME ~outrun' PROVE Unbroken(buffer, last, snap[w])
    <3>1. ASSUME last = 0, NEW m \in Msgs(buffer) PROVE m.last <= snap[w]
      <4>1. m.last <= opened /\ m.last \in Nat
        BY <3>1, Numbers, NumbersTyped DEF Whole, Unbroken
      <4> QED BY <2>1, <2>2, <2>3, <4>1, Numbers
    <3>2. ASSUME NEW m \in Msgs(buffer), m.last > snap[w], NEW k \in m.first .. last
          PROVE  Holds(buffer, k)
      BY <2>2, <2>3, <3>2 DEF Whole, Unbroken
    <3> QED BY <3>1, <3>2 DEF Unbroken
  <2> QED BY <2>1, <2>3 DEF Whole, Kept, Good
<1> QED BY <1>2, <1>3, <1>4, <1>5, <1>6, <1>7, <1>8, <1>9, <1>10, Kinds

LEMMA ReadBehindStep == SInv /\ [Next]_vars => ReadBehind'
<1> SUFFICES ASSUME SInv, [Next]_vars PROVE ReadBehind'
  OBVIOUS
<1>1. CInv /\ InSequence /\ ReadBehind /\ WriteNext /\ CInv' /\ TypeOK
  BY ControlStep DEF SInv, CInv, IInv
<1> USE <1>1
<1>2. CASE Quiet
  <2> SUFFICES ASSUME NEW p \in Procs, Kept', pc'[p] = "process"
               PROVE  /\ recent'[p] <= book'.id
                      /\ recent'[p] < book'.id =>
                           book'.id <= sent' /\ \A m \in Msgs(buffer') : m.first > book'.id
    BY DEF ReadBehind
  <2>1. Kept /\ pc[p] = "process"
    BY <1>2 DEF Quiet, Kept, Good
  <2>2. UNCHANGED <<book, buffer>> /\ recent'[p] = recent[p] /\ sent <= sent'
    BY <1>2 DEF Quiet, Same
  <2> QED BY <2>1, <2>2, Numbers, NumbersNext DEF ReadBehind
<1>3. CASE Dim
  BY <1>3 DEF Dim, ReadBehind
<1>4. CASE Open
  <2>1. ~holder'
    BY <1>4 DEF Open, depth, CInv, HolderKnown
  <2> QED BY <2>1 DEF ReadBehind, Kept
<1>5. CASE StageWsUpdate
  <2> SUFFICES ASSUME NEW p \in Procs, Kept', pc'[p] = "process"
               PROVE  /\ recent'[p] <= book'.id
                      /\ recent'[p] < book'.id =>
                           book'.id <= sent' /\ \A m \in Msgs(buffer') : m.first > book'.id
    BY DEF ReadBehind
  <2>1. PICK v \in sent + 1 .. version : sent' = v /\ (UNCHANGED <<last, buffer, pc>> \/ Added(v))
    BY <1>5, StageStep
  <2>2. UNCHANGED <<holder, book, outrun, recent>>
    BY <1>5, StageStep
  <2>3. Kept /\ pc[p] = "process"
    BY <2>1, <2>2 DEF Added, Kept, Good, TypeOK
  <2>4. \A m \in Msgs(buffer') : m \in Msgs(buffer) \/ m.first = sent + 1
    BY <2>1, Popped, Numbers DEF Added, InSequence
  <2> QED BY <2>1, <2>2, <2>3, <2>4, Numbers DEF ReadBehind
<1>6. ASSUME NEW p \in Procs, GetOrderbook(p) PROVE ReadBehind'
  <2>1. UNCHANGED <<sent, buffer, holder, book, outrun>>
    BY <1>6 DEF GetOrderbook, exchange, queues, depth
  <2>2. \A q \in Procs : pc'[q] = "process" =>
          recent'[q] = book.id \/ (pc[q] = "process" /\ recent'[q] = recent[q])
    BY <1>6 DEF GetOrderbook, At, Done, TypeOK
  <2> QED BY <2>1, <2>2, Numbers DEF ReadBehind, Kept, Good
<1>7. ASSUME NEW p \in Procs, Outdated(p) \/ Misaligned(p) \/ Process(p) PROVE ReadBehind'
  <2>1. Pops
    BY <1>7, PopStep
  <2>2. Kept' => Kept /\ book'.id = book.id
    <3>1. UNCHANGED <<holder, outrun>>
      BY <2>1 DEF Pops
    <3>2. book' = book \/ book' = Invalid(book)
      BY <1>7, Zenon DEF Outdated, Misaligned, Process, depth
    <3> QED BY <3>1, <3>2 DEF Kept, Good, Invalid
  <2>3. \A q \in Procs : pc'[q] = "process" => pc[q] = "process"
    BY <1>7 DEF Outdated, Misaligned, Process, Entering, At, TypeOK
  <2> QED BY <2>1, <2>2, <2>3 DEF Pops, ReadBehind
<1>8. ASSUME NEW p \in Procs, UpdateBidAskByPrice(p) PROVE ReadBehind'
  <2> SUFFICES ASSUME NEW q \in Procs, Kept', pc'[q] = "process"
               PROVE  /\ recent'[q] <= book'.id
                      /\ recent'[q] < book'.id =>
                           book'.id <= sent' /\ \A m \in Msgs(buffer') : m.first > book'.id
    BY DEF ReadBehind
  <2>1. UNCHANGED <<sent, buffer, holder, outrun, recent>> /\ pc[p] = "write"
    BY <1>8 DEF UpdateBidAskByPrice, exchange, queues
  <2>2. book' = [book EXCEPT !.id = update.last, !.has = @ \cup update.first .. update.last]
    BY <1>8 DEF UpdateBidAskByPrice
  <2>3. Kept /\ book'.id = update.last
    BY <2>1, <2>2, Numbers DEF Kept, Good, Book
  <2>4. /\ book.id < update.last /\ update.last <= sent
        /\ \A m \in Msgs(buffer) : update.last < m.first
    BY <2>1, <2>3 DEF WriteNext
  <2>5. recent[q] <= book.id
    <3>1. CASE q = p
      BY <2>1, <2>3, <3>1 DEF WriteNext
    <3>2. CASE q # p
      <4>1. pc[q] = "process"
        BY <1>8, <3>2 DEF UpdateBidAskByPrice, At, TypeOK
      <4> QED BY <2>3, <4>1 DEF ReadBehind
    <3> QED BY <3>1, <3>2
  <2>6. update.last \in Nat
    BY <2>3, NumbersNext
  <2>7. \A m \in Msgs(buffer) : m.first \in Nat
    BY Numbers, NumbersTyped
  <2> QED BY <2>1, <2>3, <2>4, <2>5, <2>6, <2>7, Numbers
<1>9. ASSUME NEW p \in Procs, Cleanup(p) PROVE ReadBehind'
  <2>1. ~Kept /\ UNCHANGED <<holder, book, outrun>>
    BY <1>9 DEF Cleanup, depth, CInv, FlushedGone
  <2> QED BY <2>1 DEF ReadBehind, Kept, Good
<1>10. ASSUME NEW w \in Workers, LoadSnapshot(w) PROVE ReadBehind'
  <2>1. ~outrun' => \A q \in Procs : pc'[q] # "process"
    BY <1>10 DEF LoadSnapshot, At, Applying, TypeOK
  <2> QED BY <2>1 DEF ReadBehind, Kept, Good
<1> QED BY <1>2, <1>3, <1>4, <1>5, <1>6, <1>7, <1>8, <1>9, <1>10, Kinds

\* Who goes through the buffer of a kept book is alone: nobody writes, nobody starts a fetch.
LEMMA ApplyAlone ==
  ASSUME CInv, NEW p \in Procs, pc[p] \in Applying, ~outrun
  PROVE  ~fetching /\ \A q \in Procs : pc[q] # "fetch"
  BY DEF CInv, FetchAlone, SingleFetch, Fetchers

LEMMA NobodyWrites ==
  ASSUME CInv, NEW p \in Procs, Entering(p)
  PROVE  \A q \in Procs : pc[q] # "write"
  BY Constants DEF CInv, IInv, Writing, Entering

\* The message someone is about to apply to a kept book is next after it.
LEMMA HeadIsNext ==
  ASSUME CInv, InSequence, ReadBehind, NothingDropped, Whole, Pops, Kept,
         NEW p \in Procs, Entering(p), Head(buffer).last > recent[p],
         Aligned(Head(buffer), recent[p])
  PROVE  /\ book.id < Head(buffer).last /\ recent[p] <= book.id
         /\ Head(buffer).first <= Head(buffer).last /\ Head(buffer).last <= sent
         /\ last # 0 /\ Head(buffer).last <= last
         /\ \A k \in book.id + 1 .. Head(buffer).first - 1 : k \in Empty
<1> DEFINE m == Head(buffer)
<1>1. /\ m \in Message /\ m \in Msgs(buffer) /\ Msgs(buffer) = Msgs(buffer') \cup {m}
      /\ \A x \in Msgs(buffer') : m.last < x.first
  BY DEF Pops
<1>2. m.first \in Nat /\ m.last \in Nat /\ m.first <= m.last /\ m.last <= sent
  BY <1>1, NumbersTyped DEF InSequence
<1>3. /\ recent[p] <= book.id
      /\ recent[p] < book.id => m.first > book.id
  BY <1>1 DEF ReadBehind, Entering
<1>4. book.id < m.last
  BY <1>2, <1>3, Numbers
<1>5. last # 0 /\ m.last <= last
  BY <1>1, <1>2, <1>4, Numbers DEF Whole, Unbroken, InSequence
<1>6. ASSUME NEW k \in book.id + 1 .. m.first - 1 PROVE k \in Empty
  <2>1. CASE initial
    <3>1. m.first <= recent[p] + 1
      BY <1>2, <2>1, Numbers DEF Aligned
    <3> QED BY <1>2, <1>3, <3>1, Numbers
  <2>2. CASE ~initial
    <3>1. Checked /\ Reached = book.id
      BY <2>2, ApplyAlone, NobodyWrites DEF Checked, Reached, Kept, Good, Entering, Applying
    <3>2. k \in Reached + 1 .. last
      BY <1>2, <1>5, <3>1, Numbers
    <3>3. k \in Empty \/ Holds(buffer, k)
      BY <3>1, <3>2 DEF NothingDropped
    <3>4. ASSUME NEW x \in Msgs(buffer) PROVE k \notin x.first .. x.last
      <4>1. x.first \in Nat /\ (x = m \/ m.last < x.first)
        BY <1>1, Numbers, NumbersTyped
      <4> QED BY <1>2, <4>1, Numbers
    <3> QED BY <3>3, <3>4 DEF Holds
  <2> QED BY <2>1, <2>2
<1> QED BY <1>2, <1>3, <1>4, <1>5, <1>6

LEMMA WriteNextStep == SInv /\ [Next]_vars => WriteNext'
<1> SUFFICES ASSUME SInv, [Next]_vars PROVE WriteNext'
  OBVIOUS
<1>1. /\ CInv /\ InSequence /\ Whole /\ ReadBehind /\ WriteNext /\ NothingDropped /\ CInv'
      /\ TypeOK /\ Writing
  BY ControlStep DEF SInv, CInv, IInv
<1> USE <1>1
<1> DEFINE Goal(p) ==
      /\ update'.first <= update'.last /\ update'.last <= sent'
      /\ \A m \in Msgs(buffer') : update'.last < m.first
      /\ Kept' => /\ recent'[p] <= book'.id /\ book'.id < update'.last
                  /\ \A k \in book'.id + 1 .. update'.first - 1 : k \in Empty
<1>0. ASSUME NEW p \in Procs, pc[p] = "write" PROVE update.first \in Nat /\ update.last \in Nat
  <2>1. update \in Message
    BY <1>0 DEF TypeOK, Writing
  <2> QED BY <2>1, NumbersTyped
<1>2. CASE Quiet
  <2>1. ASSUME NEW p \in Procs, pc'[p] = "write" PROVE Goal(p)
    <3>1. pc[p] = "write" /\ UNCHANGED <<buffer, book, update>> /\ sent <= sent'
          /\ recent'[p] = recent[p] /\ (Kept' => Kept)
      BY <1>2, <2>1 DEF Quiet, Same, Kept, Good
    <3> QED BY <1>0, <3>1, Numbers, NumbersNext DEF WriteNext
  <2> QED BY <2>1 DEF WriteNext
<1>3. CASE Dim
  BY <1>3 DEF Dim, Same, WriteNext
<1>4. CASE Open
  BY <1>4 DEF Open, WriteNext
<1>5. CASE StageWsUpdate
  <2>1. lock = None /\ UNCHANGED <<holder, book, outrun, recent, update>>
    BY <1>5, StageStep
  <2>2. \A p \in Procs : pc'[p] # "write"
    <3>1. \A p \in Procs : pc[p] # "write"
      BY <2>1, Constants DEF Writing
    <3>2. PICK v \in sent + 1 .. version : UNCHANGED <<last, buffer, pc>> \/ Added(v)
      BY <1>5, StageStep
    <3> QED BY <3>1, <3>2 DEF Added, TypeOK
  <2> QED BY <2>2 DEF WriteNext
<1>6. ASSUME NEW p \in Procs, GetOrderbook(p) PROVE WriteNext'
  <2>1. UNCHANGED <<sent, buffer, holder, book, outrun, update>>
    BY <1>6 DEF GetOrderbook, exchange, queues, depth
  <2>2. \A q \in Procs : pc'[q] = "write" => pc[q] = "write" /\ recent'[q] = recent[q]
    BY <1>6 DEF GetOrderbook, At, Done, TypeOK
  <2> QED BY <2>1, <2>2 DEF WriteNext, Kept, Good
<1>7. ASSUME NEW p \in Procs, Outdated(p) \/ Misaligned(p) PROVE WriteNext'
  <2>1. \A q \in Procs : pc[q] # "write"
    BY <1>7, NobodyWrites DEF Outdated, Misaligned
  <2>2. \A q \in Procs : pc'[q] # "write"
    BY <1>7, <2>1 DEF Outdated, Misaligned, At, TypeOK
  <2> QED BY <2>2 DEF WriteNext
<1>8. ASSUME NEW p \in Procs, Process(p) PROVE WriteNext'
  <2>1. Pops /\ Entering(p)
    BY <1>8, PopStep DEF Process
  <2>2. ASSUME NEW q \in Procs, pc'[q] = "write" PROVE q = p
    BY <1>8, <2>1, <2>2, NobodyWrites DEF Process, At, TypeOK
  <2>3. ASSUME pc'[p] = "write" PROVE Goal(p)
    <3>1. update' = Head(buffer) /\ book' = book
      BY <1>8, <2>3 DEF Process, At, TypeOK
    <3>2. Kept' => Kept
      BY <2>1, <3>1 DEF Pops, Kept, Good
    <3>3. Head(buffer).last > recent[p] /\ Aligned(Head(buffer), recent[p])
      BY <1>8 DEF Process
    <3>4. Kept => /\ book.id < Head(buffer).last /\ recent[p] <= book.id
                  /\ \A k \in book.id + 1 .. Head(buffer).first - 1 : k \in Empty
      BY <2>1, <3>3, HeadIsNext
    <3>5. Head(buffer).first <= Head(buffer).last /\ Head(buffer).last <= sent
      BY <2>1 DEF Pops, InSequence
    <3> QED BY <2>1, <3>1, <3>2, <3>4, <3>5 DEF Pops
  <2> QED BY <2>2, <2>3 DEF WriteNext
<1>9. ASSUME NEW p \in Procs, UpdateBidAskByPrice(p) PROVE WriteNext'
  <2>1. \A q \in Procs : pc'[q] # "write"
    BY <1>9 DEF UpdateBidAskByPrice, At, TypeOK, Writing
  <2> QED BY <2>1 DEF WriteNext
<1>10. ASSUME NEW p \in Procs, Cleanup(p) PROVE WriteNext'
  <2>1. \A q \in Procs : pc'[q] # "write"
    BY <1>10, Constants DEF Cleanup, At, TypeOK, Writing
  <2> QED BY <2>1 DEF WriteNext
<1>11. ASSUME NEW w \in Workers, LoadSnapshot(w) PROVE WriteNext'
  <2>1. UNCHANGED <<sent, buffer, recent, update>>
    BY <1>11 DEF LoadSnapshot, exchange, queues, locals
  <2>2. \A q \in Procs : pc'[q] = "write" => pc[q] = "write" /\ outrun'
    BY <1>11 DEF LoadSnapshot, At, Applying, TypeOK
  <2> QED BY <2>1, <2>2 DEF WriteNext, Kept, Good
<1> QED BY <1>2, <1>3, <1>4, <1>5, <1>6, <1>7, <1>8, <1>9, <1>10, <1>11, Kinds

LEMMA NothingDroppedStep == SInv /\ [Next]_vars => NothingDropped'
<1> SUFFICES ASSUME SInv, [Next]_vars PROVE NothingDropped'
  OBVIOUS
<1>1. /\ CInv /\ InSequence /\ Whole /\ ReadBehind /\ WriteNext /\ NothingDropped /\ RoomForNext
      /\ CInv' /\ TypeOK /\ Writing
  BY ControlStep DEF SInv, CInv, IInv
<1> USE <1>1
<1>0. \A m \in Msgs(buffer) : m.first \in Nat /\ m.last \in Nat
  BY Numbers, NumbersTyped
<1>2. CASE Quiet
  <2>1. Checked' => Checked
    BY <1>2 DEF Quiet, Checked, Kept, Good
  <2>2. Reached' = Reached
    BY <1>2 DEF Quiet, Same, Reached
  <2> QED BY <1>2, <2>1, <2>2 DEF Quiet, Same, NothingDropped
<1>3. CASE Dim
  BY <1>3 DEF Dim, NothingDropped, Checked
<1>4. CASE Open
  <2>1. ~holder'
    BY <1>4 DEF Open, depth, CInv, HolderKnown
  <2> QED BY <2>1 DEF NothingDropped, Checked, Kept
<1>5. CASE StageWsUpdate
  <2>1. PICK v \in sent + 1 .. version : sent' = v /\ (UNCHANGED <<last, buffer, pc>> \/ Added(v))
    BY <1>5, StageStep
  <2>2. /\ UNCHANGED <<holder, book, outrun, initial>> /\ pc["reader"] = "wait" /\ lock = None
    BY <1>5, StageStep
  <2>3. \A p \in Procs : pc[p] # "write" /\ pc'[p] # "write"
    BY <2>1, <2>2, Constants DEF Writing, Added, TypeOK
  <2>4. Checked' => Checked
    BY <2>1, <2>2 DEF Checked, Kept, Good, Added, TypeOK
  <2>5. Reached = book.id /\ Reached' = book.id
    BY <2>2, <2>3 DEF Reached
  <2>6. CASE UNCHANGED <<last, buffer, pc>>
    BY <2>4, <2>5, <2>6 DEF NothingDropped
  <2>7. ASSUME Added(v), Checked PROVE NothingDropped'
    <3> DEFINE m == [first |-> sent + 1, last |-> v]
    <3>1. Len(buffer) < BufferLimit
      BY <2>2, <2>7 DEF RoomForNext, Applying
    <3>2. Msgs(buffer') = Msgs(buffer) \cup {m} /\ last' = v /\ (last = 0 \/ last = sent)
      BY <2>7, <3>1, Numbers, Constants DEF Added
    <3>3. last # 0 /\ last = sent /\ v # 0
      BY <2>1, <2>7, <3>2, Numbers DEF NothingDropped
    <3>4. ASSUME NEW k \in book.id + 1 .. v PROVE k \in Empty \/ Holds(buffer', k)
      <4>1. CASE k <= last
        <5>1. k \in book.id + 1 .. last
          BY <4>1, Numbers
        <5>2. k \in Empty \/ Holds(buffer, k)
          BY <2>5, <2>7, <5>1 DEF NothingDropped
        <5> QED BY <3>2, <5>2 DEF Holds
      <4>2. CASE ~(k <= last)
        <5>1. m \in Msgs(buffer') /\ k \in m.first .. m.last
          BY <3>2, <3>3, <4>2, Numbers
        <5> QED BY <5>1 DEF Holds
      <4> QED BY <4>1, <4>2
    <3> QED BY <2>5, <3>2, <3>3, <3>4 DEF NothingDropped
  <2> QED BY <2>1, <2>4, <2>6, <2>7 DEF NothingDropped
<1>6. ASSUME NEW p \in Procs, GetOrderbook(p) PROVE NothingDropped'
  <2>1. UNCHANGED <<last, buffer, holder, book, outrun, initial, update>>
    BY <1>6 DEF GetOrderbook, flags, queues, depth
  <2>2. \A q \in Procs : /\ pc'[q] = "write" <=> pc[q] = "write"
                         /\ pc'[q] = "fetch" <=> pc[q] = "fetch"
    BY <1>6 DEF GetOrderbook, At, Done, TypeOK
  <2> QED BY <2>1, <2>2 DEF NothingDropped, Checked, Reached, Kept, Good
<1>7. ASSUME NEW p \in Procs, Outdated(p) PROVE NothingDropped'
  <2>1. Pops /\ Entering(p) /\ Head(buffer).last <= recent[p] /\ pc' = pc
        /\ UNCHANGED <<book, initial>>
    BY <1>7, PopStep DEF Outdated, flags, depth
  <2>2. Checked' = Checked /\ Reached = book.id /\ Reached' = book.id
    BY <2>1, NobodyWrites DEF Pops, Checked, Kept, Good, Reached
  <2>3. ASSUME Checked, NEW k \in book.id + 1 .. last PROVE k \in Empty \/ Holds(buffer', k)
    <3>1. k \in Empty \/ \E x \in Msgs(buffer) : k \in x.first .. x.last
      BY <2>2, <2>3 DEF NothingDropped, Holds
    <3>2. recent[p] <= book.id
      BY <2>1, <2>3 DEF ReadBehind, Checked, Entering
    <3>3. k > Head(buffer).last /\ Head(buffer) \in Msgs(buffer)
      BY <1>0, <2>1, <3>2, Numbers DEF Pops
    <3> QED BY <1>0, <2>1, <3>1, <3>3 DEF Pops, Holds
  <2> QED BY <2>1, <2>2, <2>3 DEF NothingDropped, Pops
<1>8. ASSUME NEW p \in Procs, Misaligned(p) PROVE NothingDropped'
  BY <1>8 DEF Misaligned, Aligned, flags, NothingDropped, Checked
<1>9. ASSUME NEW p \in Procs, Process(p) PROVE NothingDropped'
  <2> SUFFICES ASSUME Checked' PROVE NothingDropped'
    BY DEF NothingDropped
  <2> DEFINE m == Head(buffer)
  <2>1. Pops /\ Entering(p) /\ m.last > recent[p] /\ Aligned(m, recent[p])
    BY <1>9, PopStep DEF Process
  <2>2. Kept /\ book' = book
    <3>1. book' = book \/ book' = Invalid(book)
      BY <1>9, Zenon DEF Process
    <3> QED BY <2>1, <3>1 DEF Pops, Checked, Kept, Good, Invalid
  <2>3. /\ book.id < m.last /\ m.first <= m.last /\ last # 0
        /\ \A k \in book.id + 1 .. m.first - 1 : k \in Empty
    BY <2>1, <2>2, HeadIsNext
  <2>4. m.first \in Nat /\ m.last \in Nat /\ m \in Msgs(buffer) /\ last' = last
    BY <1>0, <2>1 DEF Pops
  <2>5. ASSUME NEW k \in m.last + 1 .. last PROVE k \in Empty \/ Holds(buffer', k)
    <3>1. k \in Empty \/ Holds(buffer, k)
      <4>1. CASE initial
        <5>1. k \in m.first .. last
          BY <2>3, <2>4, Numbers
        <5> QED BY <2>2, <2>3, <2>4, <5>1 DEF Whole, Unbroken
      <4>2. CASE ~initial
        <5>1. Checked /\ Reached = book.id
          BY <2>1, <2>2, <4>2, ApplyAlone, NobodyWrites
          DEF Checked, Reached, Kept, Good, Entering, Applying
        <5>2. k \in Reached + 1 .. last
          BY <2>3, <2>4, <5>1, Numbers
        <5> QED BY <5>1, <5>2 DEF NothingDropped
      <4> QED BY <4>1, <4>2
    <3>2. k \notin m.first .. m.last
      BY <2>4
    <3> QED BY <2>1, <3>1, <3>2 DEF Pops, Holds
  <2>6. \A q \in Procs : pc'[q] = "write" => q = p
    BY <1>9, <2>1, NobodyWrites DEF Process, At, TypeOK
  <2>7. CASE pc'[p] = "write"
    <3>1. Reached' = m.last
      BY <1>9, <2>7 DEF Process, At, Reached, TypeOK
    <3> QED BY <2>3, <2>4, <2>5, <3>1 DEF NothingDropped
  <2>8. CASE pc'[p] # "write"
    <3>1. Reached' = book.id
      BY <2>2, <2>6, <2>8 DEF Reached
    <3>2. m.first .. m.last \subseteq Empty
      BY <1>9, <2>2, <2>8 DEF Process, At, TypeOK, Kept, Good
    <3>3. ASSUME NEW k \in book.id + 1 .. last PROVE k \in Empty \/ Holds(buffer', k)
      <4>1. CASE k < m.first
        BY <2>3, <2>4, <4>1, Numbers
      <4>2. CASE k > m.last
        BY <2>4, <2>5, <4>2, Numbers
      <4>3. CASE ~(k < m.first) /\ ~(k > m.last)
        BY <2>4, <3>2, <4>3, Numbers, SMTT(20)
      <4> QED BY <4>1, <4>2, <4>3
    <3> QED BY <2>3, <2>4, <3>1, <3>3 DEF NothingDropped
  <2> QED BY <2>7, <2>8
<1>10. ASSUME NEW p \in Procs, UpdateBidAskByPrice(p) PROVE NothingDropped'
  <2>1. UNCHANGED <<last, buffer, holder, outrun, initial>> /\ pc[p] = "write"
    BY <1>10 DEF UpdateBidAskByPrice, flags, queues
  <2>2. book' = [book EXCEPT !.id = update.last, !.has = @ \cup update.first .. update.last]
    BY <1>10 DEF UpdateBidAskByPrice
  <2>3. \A q \in Procs : pc'[q] # "write" /\ (pc[q] = "fetch" => pc'[q] = "fetch")
    BY <1>10 DEF UpdateBidAskByPrice, At, TypeOK, Writing
  <2>4. Reached' = Reached
    BY <2>1, <2>2, <2>3, Numbers DEF Reached, Book
  <2>5. Checked' => Checked
    BY <2>1, <2>2, <2>3, Numbers DEF Checked, Kept, Good, Book
  <2> QED BY <2>1, <2>4, <2>5 DEF NothingDropped
<1>11. ASSUME NEW p \in Procs, Cleanup(p) PROVE NothingDropped'
  <2>1. ~Kept /\ UNCHANGED <<holder, book, outrun>>
    BY <1>11 DEF Cleanup, depth, CInv, FlushedGone
  <2> QED BY <2>1 DEF NothingDropped, Checked, Kept, Good
<1>12. ASSUME NEW w \in Workers, LoadSnapshot(w) PROVE NothingDropped'
  BY <1>12 DEF LoadSnapshot, flags, NothingDropped, Checked, Kept, Good
<1> QED BY <1>2, <1>3, <1>4, <1>5, <1>6, <1>7, <1>8, <1>9, <1>10, <1>11, <1>12, Kinds

LEMMA RoomForNextStep == SInv /\ [Next]_vars => RoomForNext'
<1> SUFFICES ASSUME SInv, [Next]_vars, Checked', pc'["reader"] \notin Applying \cup {"apply"}
             PROVE  Len(buffer') < BufferLimit
  BY DEF RoomForNext
<1>1. CInv /\ InSequence /\ RoomForNext /\ CInv' /\ TypeOK /\ "reader" \in Procs
  BY ControlStep DEF SInv, CInv, IInv, Procs
<1> USE <1>1
<1>2. CASE Quiet
  <2>1. Checked /\ buffer' = buffer
    BY <1>2 DEF Quiet, Same, Checked, Kept, Good
  <2>2. ~fetching'
    BY DEF CInv, CheckOn, Checked
  <2> QED BY <1>2, <2>1, <2>2, Constants DEF Quiet, RoomForNext
<1>3. CASE Dim
  BY <1>3 DEF Dim, Checked
<1>4. CASE Open
  <2>1. ~holder'
    BY <1>4 DEF Open, depth, CInv, HolderKnown
  <2> QED BY <2>1 DEF Checked, Kept
<1>5. CASE StageWsUpdate
  <2>1. PICK v \in sent + 1 .. version : UNCHANGED <<last, buffer, pc>> \/ Added(v)
    BY <1>5, StageStep
  <2>2. UNCHANGED <<holder, book, outrun, initial>> /\ pc["reader"] = "wait"
    BY <1>5, StageStep
  <2>3. Checked
    BY <2>1, <2>2 DEF Checked, Kept, Good, Added, TypeOK
  <2>4. Len(buffer) < BufferLimit
    BY <2>2, <2>3 DEF RoomForNext, Applying
  <2>5. ~Added(v)
    BY <2>4, Numbers, Constants DEF Added, TypeOK
  <2> QED BY <2>1, <2>4, <2>5
<1>6. ASSUME NEW p \in Procs, GetOrderbook(p) PROVE Len(buffer') < BufferLimit
  <2>1. UNCHANGED <<buffer, holder, book, outrun, initial>>
    BY <1>6 DEF GetOrderbook, flags, queues, depth
  <2>2. \A q \in Procs : pc[q] = "fetch" => pc'[q] = "fetch"
    BY <1>6 DEF GetOrderbook, At, Done, TypeOK
  <2>3. Checked
    BY <2>1, <2>2 DEF Checked, Kept, Good
  <2>4. pc["reader"] \notin Applying \cup {"apply"}
    BY <1>6, <2>3 DEF GetOrderbook, At, Applying, TypeOK, Checked, Kept, Good
  <2> QED BY <2>1, <2>3, <2>4 DEF RoomForNext
<1>7. ASSUME NEW p \in Procs, Outdated(p) \/ Misaligned(p) \/ Process(p)
      PROVE  Len(buffer') < BufferLimit
  <2>1. Len(buffer') + 1 = Len(buffer) /\ buffer' = Tail(buffer) /\ buffer # <<>>
    BY <1>7, PopStep DEF Pops
  <2> QED BY <2>1, TailTyped, Constants
<1>8. ASSUME NEW p \in Procs, UpdateBidAskByPrice(p) PROVE Len(buffer') < BufferLimit
  <2>1. UNCHANGED <<buffer, holder, outrun, initial>>
    BY <1>8 DEF UpdateBidAskByPrice, flags, queues
  <2>2. book' = [book EXCEPT !.id = update.last, !.has = @ \cup update.first .. update.last]
    BY <1>8 DEF UpdateBidAskByPrice
  <2>3. \A q \in Procs : pc[q] = "fetch" => pc'[q] = "fetch"
    BY <1>8 DEF UpdateBidAskByPrice, At, TypeOK
  <2>4. Checked
    BY <2>1, <2>2, <2>3, Numbers DEF Checked, Kept, Good, Book
  <2>5. pc["reader"] \notin Applying \cup {"apply"}
    BY <1>8 DEF UpdateBidAskByPrice, At, Applying, TypeOK
  <2> QED BY <2>1, <2>4, <2>5 DEF RoomForNext
<1>9. ASSUME NEW p \in Procs, Cleanup(p) PROVE Len(buffer') < BufferLimit
  BY <1>9, Constants DEF Cleanup
<1>10. ASSUME NEW w \in Workers, LoadSnapshot(w) PROVE Len(buffer') < BufferLimit
  BY <1>10 DEF LoadSnapshot, flags, Checked, Kept, Good
<1> QED BY <1>2, <1>3, <1>4, <1>5, <1>6, <1>7, <1>8, <1>9, <1>10, Kinds

\* What a step does to the book: nothing, or throw it away, or write the next update, or load.
LEMMA BookSteps ==
  ASSUME CInv, [Next]_vars, ~outrun
  PROVE  \/ book' = book \/ ~book'.valid \/ book'.rest
         \/ \E p \in Procs : UpdateBidAskByPrice(p)
         \/ \E w \in Workers : LoadSnapshot(w)
<1>1. CASE Quiet
  BY <1>1 DEF Quiet
<1>2. CASE Dim
  BY <1>2 DEF Dim, Good
<1>3. CASE Open
  BY <1>3 DEF Open, depth
<1>4. CASE StageWsUpdate
  BY <1>4 DEF StageWsUpdate, depth
<1>5. ASSUME NEW p \in Procs,
             GetOrderbook(p) \/ Outdated(p) \/ Misaligned(p) \/ Process(p) \/ Cleanup(p)
      PROVE  book' = book \/ ~book'.valid
  <2>1. book' = book \/ book' = Invalid(book)
    BY <1>5, Zenon DEF GetOrderbook, Outdated, Misaligned, Process, Cleanup, depth
  <2> QED BY <2>1 DEF Invalid
<1> QED BY <1>1, <1>2, <1>3, <1>4, <1>5, Kinds

LEMMA BookConsistentStep == SInv /\ [Next]_vars => BookConsistent'
<1> SUFFICES ASSUME SInv, [Next]_vars, Good' PROVE (book.has \ Empty = (1..book.id) \ Empty)'
  BY DEF BookConsistent, Good
<1>1. CInv /\ InSequence /\ WriteNext /\ BookConsistent /\ TypeOK /\ Writing
  BY DEF SInv, CInv, IInv
<1> USE <1>1
<1>2. ASSUME NEW w \in Workers, LoadSnapshot(w)
      PROVE  (book.has \ Empty = (1..book.id) \ Empty)'
  BY <1>2 DEF LoadSnapshot, Snapshot
<1>3. CASE outrun
  <2>1. \E w \in Workers : LoadSnapshot(w)
    <3>1. ~Quiet /\ ~Dim
      BY <1>3 DEF Quiet, Dim, Good
    <3>2. ~(Open \/ StageWsUpdate)
      BY <1>3 DEF Open, StageWsUpdate, depth, Good
    <3>3. ASSUME NEW p \in Procs,
                 \/ GetOrderbook(p) \/ Outdated(p) \/ Misaligned(p) \/ Process(p)
                 \/ UpdateBidAskByPrice(p) \/ Cleanup(p)
          PROVE  FALSE
      BY <1>3, <3>3 DEF GetOrderbook, Outdated, Misaligned, Process, UpdateBidAskByPrice,
                        Cleanup, depth, Good
    <3> QED BY <3>1, <3>2, <3>3, Kinds
  <2> QED BY <1>2, <2>1
<1>4. CASE ~outrun /\ book' = book
  BY <1>4 DEF BookConsistent, Good
<1>5. ASSUME ~outrun, NEW p \in Procs, UpdateBidAskByPrice(p)
      PROVE  (book.has \ Empty = (1..book.id) \ Empty)'
  <2>1. pc[p] = "write" /\ outrun' = outrun
    BY <1>5 DEF UpdateBidAskByPrice
  <2>2. book' = [book EXCEPT !.id = update.last, !.has = @ \cup update.first .. update.last]
    BY <1>5 DEF UpdateBidAskByPrice
  <2>3. /\ book'.id = update.last /\ book'.has = book.has \cup (update.first .. update.last)
        /\ Good
    BY <1>5, <2>2, Numbers DEF Good, Book
  <2>4. Kept
    BY <2>1, <2>3 DEF Kept, CInv, HolderKnown
  <2>5. /\ update.first <= update.last /\ book.id < update.last
        /\ \A k \in book.id + 1 .. update.first - 1 : k \in Empty
    BY <2>1, <2>4 DEF WriteNext
  <2>6. update.first \in Nat /\ update.last \in Nat /\ update.first > 0
    <3>1. update \in Message
      BY <2>1 DEF TypeOK, Writing
    <3> QED BY <3>1, NumbersTyped
  <2>7. \A k \in 1..book.id : k \in book.has \/ k \in Empty
    BY <2>3 DEF BookConsistent, Good
  <2>8. \A k \in book.has : k \in 1..book.id \/ k \in Empty
    BY <2>3 DEF BookConsistent, Good
  <2>9. ASSUME NEW k \in 1..update.last, k \notin Empty PROVE k \in book'.has
    <3>1. CASE k <= book.id
      BY <2>3, <2>7, <2>9, <3>1, Numbers
    <3>2. CASE k > book.id /\ k < update.first
      BY <2>5, <2>6, <2>9, <3>2, Numbers
    <3>3. CASE k >= update.first
      BY <2>3, <2>6, <3>3
    <3> QED BY <2>6, <3>1, <3>2, <3>3, Numbers
  <2>10. ASSUME NEW k \in book'.has, k \notin Empty PROVE k \in 1..update.last
    <3>1. CASE k \in book.has
      BY <2>5, <2>6, <2>8, <2>10, <3>1, Numbers
    <3>2. CASE k \in update.first .. update.last
      BY <2>6, <3>2
    <3> QED BY <2>3, <2>10, <3>1, <3>2
  <2> QED BY <2>3, <2>9, <2>10
<1> QED BY <1>2, <1>3, <1>4, <1>5, BookSteps DEF Good

LEMMA InitBook == Init => SInv
<1> SUFFICES ASSUME Init PROVE SInv
  OBVIOUS
<1>1. CInv
  BY InitControl
<1>2. Msgs(buffer) = {} /\ Ordered(buffer) /\ ~book.valid
  BY DEF Init, Msgs, Ordered, Invalid
<1>3. \A p \in Procs : pc[p] = "off"
  BY DEF Init
<1> QED BY <1>1, <1>2, <1>3 DEF SInv, InSequence, Whole, ReadBehind, WriteNext, NothingDropped,
        RoomForNext, BookConsistent, Checked, Kept, Good, Procs, Unbroken

LEMMA BookInvariant == Spec => []SInv
<1>1. Init => SInv
  BY InitBook
<1>2. SInv /\ [Next]_vars => SInv'
  <2>1. SInv /\ [Next]_vars => CInv'
    BY ControlStep DEF SInv
  <2> QED BY <2>1, InSequenceStep, WholeStep, ReadBehindStep, WriteNextStep, NothingDroppedStep,
             RoomForNextStep, BookConsistentStep DEF SInv
<1> QED BY <1>1, <1>2, PTL DEF Spec

\* For any number of workers, any limit of the buffer and any mix of reconnects, lost messages,
\* failed and blocked fetches and REST overwrites: a book that the stream keeps, and that no
\* fetch has overlapped with an application of updates, is the exchange's book as of its id.
THEOREM BookConsistentAlways == Spec => []BookConsistent
<1>1. SInv => BookConsistent
  BY DEF SInv
<1> QED BY <1>1, BookInvariant, PTL

=============================================================================
