--------------------------- MODULE DispatchProofs ---------------------------
(***************************************************************************)
(* Proofs about Dispatch, for any ids, subscribers, channels, relayers and *)
(* any number of starts and publications.                                  *)
(*   TypeCorrect           types, and the limit of the jobs channels       *)
(*   CountCoversAlways     Publish never passes over a subscriber          *)
(*   ChannelsOwnedAlways   a channel has one owner                         *)
(*   NoSendOnClosedAlways  no send on a closed channel                     *)
(***************************************************************************)
EXTENDS Dispatch, FiniteSetTheorems, TLAPS

USE ConstantsAssumption

-----------------------------------------------------------------------------
(***************************************************************************)
(* Types and the count.  They go together: the count is taken down only    *)
(* for a channel found in the routes, and it covers those.                 *)
(***************************************************************************)
TypeInv ==
  /\ TypeOK /\ CountCovers
  /\ running => gen # 0
  /\ \A r \in Relayers : at[r] <= gen

LEMMA RegisteredFinite == IsFiniteSet(Registered) /\ Cardinality(Registered) \in Nat
<1>1. IsFiniteSet(Ids \X Chans) BY FS_Product
<1>2. Registered \in SUBSET (Ids \X Chans) BY DEF Registered
<1> HIDE DEF Registered
<1>3. IsFiniteSet(Registered) BY <1>1, <1>2, FS_Subset
<1> QED BY <1>3, FS_CardinalityType

LEMMA CountKept == ASSUME CountCovers, UNCHANGED <<routes, count>> PROVE CountCovers'
BY DEF CountCovers, Registered

LEMMA TypeInit == Init => TypeInv
<1> SUFFICES ASSUME Init PROVE TypeInv OBVIOUS
<1>1. TypeOK
  <2>1. <<>> \in Seq(1..MaxPubs) /\ Len(<<>>) = 0 /\ <<>> \in Seq(Ids) OBVIOUS
  <2>2. jobs \in [1..MaxStarts -> Seq(1..MaxPubs)]
    BY <2>1 DEF Init
  <2>3. at \in [Relayers -> 0..MaxStarts] BY DEF Init
  <2>4. routes \in [Ids -> SUBSET Chans] /\ pipe \in [Subs -> Pipe \cup {NoPipe}] BY DEF Init
  <2>5. topic \in Seq(Ids) BY <2>1 DEF Init
  <2>6. running \in BOOLEAN /\ stopping \in BOOLEAN BY Zenon DEF Init
  <2>7. gen \in 0..MaxStarts /\ count \in Nat BY DEF Init
  <2>8. /\ senders \subseteq Sender /\ known \subseteq Ids /\ pool \subseteq Chans
        /\ used \subseteq Chans /\ closed \subseteq Chans /\ due \subseteq Subs \X (1..MaxPubs)
    BY Zenon DEF Init
  <2> QED BY <2>2, <2>3, <2>4, <2>5, <2>6, <2>7, <2>8 DEF TypeOK
<1>2. Registered = {} BY DEF Init, Registered
<1>3. CountCovers BY <1>2, FS_EmptySet DEF Init, CountCovers
<1> QED BY <1>1, <1>3 DEF Init, TypeInv

LEMMA TypeStop == ASSUME TypeInv, start \/ StopNext PROVE TypeInv'
<1> USE DEF TypeInv
<1>1. CASE start
  <2>1. CountCovers' BY <1>1, CountKept DEF start, channels
  <2>2. at' \in [Relayers -> 0..MaxStarts] BY <1>1 DEF start, TypeOK
  <2>3. \A r \in Relayers : at'[r] <= gen'
    BY <1>1 DEF start, TypeOK
  <2> QED BY <1>1, <2>1, <2>2, <2>3 DEF start, TypeOK, queues, channels
<1>2. CASE StopBegin
  <2>1. CountCovers' BY <1>2, CountKept DEF StopBegin, channels
  <2> QED BY <1>2, <2>1 DEF StopBegin, TypeOK, channels
<1>3. CASE StopTimesOut
  <2>1. CountCovers' BY <1>3, CountKept DEF StopTimesOut, channels
  <2> QED BY <1>3, <2>1 DEF StopTimesOut, TypeOK, queues, channels
<1>4. CASE StopClose
  <2>1. TypeOK' /\ UNCHANGED <<running, gen, at, count>>
    <3>1. Routed \subseteq Chans BY DEF Routed, TypeOK
    <3>2. closed' \subseteq Chans /\ routes' \in [Ids -> SUBSET Chans]
      BY <1>4, <3>1 DEF StopClose, TypeOK
    <3>3. UNCHANGED <<running, gen, queues, at, senders, known, pool, used, count, pipe>>
          /\ stopping' \in BOOLEAN
      BY <1>4 DEF StopClose
    <3> QED BY <3>2, <3>3 DEF TypeOK, queues
  <2>2. Registered' = {} BY <1>4 DEF StopClose, Registered
  <2>3. CountCovers' BY <2>1, <2>2, FS_EmptySet DEF CountCovers, TypeOK
  <2> QED BY <2>1, <2>3
<1> QED BY <1>1, <1>2, <1>3, <1>4 DEF StopNext

LEMMA TypeRelayer == ASSUME TypeInv, NEW r \in Relayers, RelayerNext(r) PROVE TypeInv'
<1> USE DEF TypeInv
<1>1. CountCovers'
  BY CountKept DEF RelayerNext, RelayerJob, RelayerEmptyJob, RelayerEnds, channels
<1>2. UNCHANGED <<running, gen>> BY DEF RelayerNext, RelayerJob, RelayerEmptyJob, RelayerEnds
<1>3. at[r] \in 1..MaxStarts /\ gen \in 1..MaxStarts
  BY DEF RelayerNext, RelayerJob, RelayerEmptyJob, RelayerEnds, TypeOK
<1>4. /\ at' \in [Relayers -> 0..MaxStarts]
      /\ \A q \in Relayers : at'[q] <= gen'
  <2>1. PICK g \in {0, gen} : at' = [at EXCEPT ![r] = g]
    BY DEF RelayerNext, RelayerJob, RelayerEmptyJob, RelayerEnds
  <2>2. g \in 0..MaxStarts /\ g <= gen BY <1>3
  <2>3. at' \in [Relayers -> 0..MaxStarts] BY <2>1, <2>2 DEF TypeOK
  <2>4. ASSUME NEW q \in Relayers PROVE at'[q] <= gen
    BY <2>1, <2>2 DEF TypeOK
  <2> QED BY <1>2, <2>3, <2>4
<1>5. CASE RelayerJob(r)
  <2> DEFINE n == Head(jobs[at[r]])
             q == jobs[at[r]]
  <2>1. /\ q \in Seq(1..MaxPubs) /\ q # <<>>
        /\ jobs' = [jobs EXCEPT ![at[r]] = Tail(q)]
    BY <1>3, <1>5 DEF RelayerJob, TypeOK
  <2>2. n \in 1..MaxPubs /\ Tail(q) \in Seq(1..MaxPubs)
    <3>1. ASSUME NEW x \in Seq(1..MaxPubs), x # <<>>
          PROVE  Head(x) \in 1..MaxPubs /\ Tail(x) \in Seq(1..MaxPubs)
      BY <3>1
    <3> QED BY <2>1, <3>1
  <2> HIDE DEF q
  <2>3. jobs' \in [1..MaxStarts -> Seq(1..MaxPubs)]
    BY <1>3, <2>1, <2>2 DEF TypeOK
  <2>4. senders' \subseteq Sender
    <3>1. senders' = IF topic[n] \in known THEN relay(n) ELSE senders BY <1>5 DEF RelayerJob
    <3> HIDE DEF n
    <3>2. topic[n] \in known => routes[topic[n]] \subseteq Chans BY DEF TypeOK
    <3> QED BY <1>3, <2>2, <3>1, <3>2, SMTT(20) DEF relay, Sender, TypeOK
  <2>5. UNCHANGED <<running, stopping, gen, topic, due, channels, pipe>>
    BY <1>5 DEF RelayerJob
  <2>6. TypeOK'
    BY <1>4, <2>3, <2>4, <2>5 DEF TypeOK, channels
  <2> HIDE DEF TypeInv
  <2>7. running' => gen' # 0
    BY <2>5 DEF TypeInv
  <2> QED BY <1>1, <1>4, <2>6, <2>7 DEF TypeInv
<1>6. CASE RelayerEmptyJob(r) \/ RelayerEnds(r)
  BY <1>1, <1>2, <1>4, <1>6 DEF RelayerEmptyJob, RelayerEnds, TypeOK, channels, queues
<1> QED BY <1>5, <1>6 DEF RelayerNext

LEMMA TypeSender == ASSUME TypeInv, NEW s \in senders, SenderEnds(s) \/ SenderLate(s) PROVE TypeInv'
<1> USE DEF TypeInv
<1>1. CountCovers' BY CountKept DEF SenderEnds, SenderLate, channels
<1>2. senders' \subseteq Sender
  <2>1. CASE SenderEnds(s) BY <2>1 DEF SenderEnds, TypeOK
  <2>2. CASE SenderLate(s)
    <3>1. s \in Sender /\ gen \in 1..MaxStarts BY <2>2 DEF SenderLate, TypeOK, Sender
    <3>2. [s EXCEPT !.g = gen] \in Sender BY <3>1 DEF Sender
    <3> QED BY <2>2, <3>2 DEF SenderLate, TypeOK
  <2> QED BY <2>1, <2>2
<1> QED BY <1>1, <1>2 DEF SenderEnds, SenderLate, TypeOK, channels, queues

LEMMA TypePublish == ASSUME TypeInv, NEW id \in Ids, getNewID(id) \/ publish(id) PROVE TypeInv'
<1> USE DEF TypeInv
<1>1. CASE getNewID(id)
  <2>1. CountCovers' BY <1>1, CountKept DEF getNewID
  <2> QED BY <1>1, <2>1 DEF getNewID, TypeOK, queues
<1>2. CASE publish(id)
  <2>1. CountCovers' BY <1>2, CountKept DEF publish, channels
  <2> DEFINE n == Len(topic) + 1
  <2>2. n \in 1..MaxPubs /\ topic' \in Seq(Ids)
    <3>1. topic \in Seq(Ids) BY DEF TypeOK
    <3>2. Len(topic) < MaxPubs /\ topic' = Append(topic, id) BY <1>2 DEF publish
    <3> QED BY <3>1, <3>2
  <2>3. due' \subseteq Subs \X (1..MaxPubs)
    <3>1. due' = IF Queues THEN due \cup {<<p, n>> : p \in {q \in Subs : Holds(q, id)}} ELSE due
      BY <1>2 DEF publish
    <3> HIDE DEF n
    <3> QED BY <2>2, <3>1 DEF TypeOK
  <2>4. jobs' \in [1..MaxStarts -> Seq(1..MaxPubs)]
    <3>1. CASE count > 0 /\ Queues
      <4>1. gen \in 1..MaxStarts /\ jobs[gen] \in Seq(1..MaxPubs)
        BY <3>1 DEF Queues, TypeOK
      <4>2. jobs' = [jobs EXCEPT ![gen] = Append(jobs[gen], n)] BY <1>2, <3>1 DEF publish
      <4> HIDE DEF n
      <4>3. Append(jobs[gen], n) \in Seq(1..MaxPubs) BY <2>2, <4>1
      <4> QED BY <4>1, <4>2, <4>3 DEF TypeOK
    <3>2. CASE ~(count > 0 /\ Queues) BY <1>2, <3>2 DEF publish, TypeOK
    <3> QED BY <3>1, <3>2
  <2> QED BY <1>2, <2>1, <2>2, <2>3, <2>4 DEF publish, TypeOK, channels
<1> QED BY <1>1, <1>2

LEMMA TypeSubscribe == ASSUME TypeInv, NEW p \in Subs, NEW id \in Ids, subscribe(p, id) PROVE TypeInv'
<1> USE DEF TypeInv
<1>1. PICK c \in pool \cup (Chans \ used) :
         /\ pool' = pool \ {c} /\ used' = used \cup {c}
         /\ routes' = [routes EXCEPT ![id] = @ \cup {c}]
         /\ pipe' = [pipe EXCEPT ![p] = [id |-> id, c |-> c]]
  BY DEF subscribe
<1>2. c \in Chans BY DEF TypeOK
<1>3. Registered' = Registered \cup {<<id, c>>} BY <1>1, <1>2 DEF Registered, TypeOK
<1>4. CountCovers'
  <2> HIDE DEF Registered
  <2>1. /\ IsFiniteSet(Registered \cup {<<id, c>>})
        /\ Cardinality(Registered \cup {<<id, c>>}) =
             IF <<id, c>> \in Registered THEN Cardinality(Registered) ELSE Cardinality(Registered) + 1
    BY RegisteredFinite, FS_AddElement
  <2>2. Cardinality(Registered') \in Nat /\ Cardinality(Registered') <= Cardinality(Registered) + 1
    BY <1>3, <2>1, RegisteredFinite
  <2>3. count' = count + 1 BY DEF subscribe
  <2> QED BY <2>1, <2>2, <2>3, RegisteredFinite DEF CountCovers, TypeOK
<1>5. [id |-> id, c |-> c] \in Pipe BY <1>2 DEF Pipe
<1> QED BY <1>1, <1>2, <1>4, <1>5 DEF subscribe, TypeOK, queues

LEMMA TypeReceive == ASSUME TypeInv, NEW p \in Subs, NEW s \in senders, Receive(p, s) PROVE TypeInv'
<1> USE DEF TypeInv
<1>1. CountCovers' BY CountKept DEF Receive, channels
<1> QED BY <1>1 DEF Receive, TypeOK, channels

LEMMA TypeUnsubscribe == ASSUME TypeInv, NEW p \in Subs, unsubscribe(p) PROVE TypeInv'
<1> USE DEF TypeInv
<1> DEFINE id == pipe[p].id
           c == pipe[p].c
<1>1. id \in Ids /\ c \in Chans BY DEF unsubscribe, TypeOK, Pipe
<1>2. /\ pipe' \in [Subs -> Pipe \cup {NoPipe}] /\ due' \subseteq Subs \X (1..MaxPubs)
      /\ UNCHANGED <<running, stopping, gen, jobs, topic, at, known, used, closed>>
  BY DEF unsubscribe, Leaves, TypeOK
<1>3. CASE running /\ c \in routes[id]
  <2>1. /\ routes' = [routes EXCEPT ![id] = @ \ {c}] /\ count' = count - 1
        /\ drain(c) /\ pool' = pool \cup {c}
    BY <1>3 DEF unsubscribe
  <2> HIDE DEF id, c
  <2>2. Registered' = Registered \ {<<id, c>>} /\ <<id, c>> \in Registered
    BY <1>1, <1>3, <2>1 DEF Registered, TypeOK
  <2>3. Cardinality(Registered') = Cardinality(Registered) - 1
    BY <2>2, RegisteredFinite, FS_RemoveElement
  <2>4. Cardinality(Registered') \in Nat
    <3>1. IsFiniteSet(Registered') BY <2>2, RegisteredFinite, FS_RemoveElement
    <3> QED BY <3>1, FS_CardinalityType
  <2>5. count' \in Nat /\ CountCovers'
    BY <2>1, <2>3, <2>4, RegisteredFinite DEF CountCovers, TypeOK
  <2>6. senders' \subseteq Sender BY <2>1 DEF drain, TypeOK
  <2>7. routes' \in [Ids -> SUBSET Chans] /\ pool' \subseteq Chans BY <1>1, <2>1 DEF TypeOK
  <2> QED BY <1>2, <2>5, <2>6, <2>7 DEF TypeOK
<1>4. CASE ~(running /\ c \in routes[id])
  <2>1. UNCHANGED <<routes, count, senders, pool>> BY <1>4 DEF unsubscribe
  <2>2. CountCovers' BY <2>1, CountKept
  <2> QED BY <1>2, <2>1, <2>2 DEF TypeOK
<1> QED BY <1>3, <1>4

LEMMA TypeStep == TypeInv /\ [Next]_vars => TypeInv'
<1> SUFFICES ASSUME TypeInv, [Next]_vars PROVE TypeInv' OBVIOUS
<1>1. CASE UNCHANGED vars
  <2>1. CountCovers' BY <1>1, CountKept DEF vars, TypeInv
  <2> QED BY <1>1, <2>1 DEF vars, TypeInv, TypeOK
<1> QED BY <1>1, TypeStop, TypeRelayer, TypeSender, TypePublish, TypeSubscribe, TypeReceive,
        TypeUnsubscribe DEF Next

\* Every variable of the dispatcher keeps its type; in particular the count of
\* subscribers is never negative.
THEOREM TypeCorrect == Spec => []TypeOK
<1>1. Spec => []TypeInv BY TypeInit, TypeStep, PTL DEF Spec
<1>2. TypeInv => TypeOK BY DEF TypeInv
<1> QED BY <1>1, <1>2, PTL

\* However often the dispatcher is stopped, with or without a time-out, and
\* started again, the count that Mux.Publish goes by covers every subscriber.
THEOREM CountCoversAlways == Spec => []CountCovers
<1>1. Spec => []TypeInv BY TypeInit, TypeStep, PTL DEF Spec
<1>2. TypeInv => CountCovers BY DEF TypeInv
<1> QED BY <1>1, <1>2, PTL

-----------------------------------------------------------------------------
(***************************************************************************)
(* Channels.  What is closed, pooled, registered or held has been made;    *)
(* what is registered or pooled is open.                                   *)
(***************************************************************************)
Held(p) == pipe[p] # NoPipe

OneHolder == \A p, q \in Subs : Held(p) /\ Held(q) /\ pipe[p].c = pipe[q].c => p = q
HeldMade  == \A p \in Subs : Held(p) => pipe[p].c \in used /\ pipe[p].c \notin pool
OneRoute  == \A i, j \in Ids : \A c \in Chans : c \in routes[i] /\ c \in routes[j] => i = j
RouteOpen == \A i \in Ids : \A c \in routes[i] : c \in used /\ c \notin pool /\ c \notin closed
PoolOpen  == \A c \in pool : c \in used /\ c \notin closed
ClosedMade == closed \subseteq used

OwnInv == /\ OneHolder /\ HeldMade /\ OneRoute /\ RouteOpen /\ PoolOpen /\ ClosedMade
          /\ NoSendOnClosed

LEMMA OwnInit == Init => OwnInv
BY DEF Init, OwnInv, OneHolder, HeldMade, OneRoute, RouteOpen, PoolOpen, ClosedMade, Held,
       NoSendOnClosed

LEMMA OwnKept ==
  ASSUME OwnInv, UNCHANGED <<routes, pool, used, closed, pipe>>, \A s \in senders' : s.c \notin closed
  PROVE  OwnInv'
BY DEF OwnInv, OneHolder, HeldMade, OneRoute, RouteOpen, PoolOpen, ClosedMade, Held, NoSendOnClosed

LEMMA OwnStop == ASSUME TypeInv, OwnInv, start \/ StopNext PROVE OwnInv'
<1>1. CASE start \/ StopBegin \/ StopTimesOut
  BY <1>1, OwnKept DEF start, StopBegin, StopTimesOut, channels, OwnInv, NoSendOnClosed
<1>2. CASE StopClose
  <2>1. /\ senders' = {} /\ closed' = closed \cup Routed /\ routes' = [i \in Ids |-> {}]
        /\ UNCHANGED <<pool, used, pipe>>
    BY <1>2 DEF StopClose, Quiet
  <2>2. NoSendOnClosed' BY <2>1 DEF NoSendOnClosed
  <2>3. ClosedMade' BY <2>1 DEF ClosedMade, RouteOpen, Routed, OwnInv
  <2>4. PoolOpen' BY <2>1 DEF PoolOpen, RouteOpen, Routed, OwnInv
  <2>5. OneHolder' /\ HeldMade' /\ OneRoute' /\ RouteOpen'
    BY <2>1 DEF OneHolder, HeldMade, OneRoute, RouteOpen, Held, OwnInv
  <2> QED BY <2>2, <2>3, <2>4, <2>5 DEF OwnInv
<1> QED BY <1>1, <1>2 DEF StopNext

LEMMA OwnRelayer == ASSUME TypeInv, OwnInv, NEW r \in Relayers, RelayerNext(r) PROVE OwnInv'
<1>1. CASE RelayerJob(r)
  <2>1. ASSUME NEW s \in senders' PROVE s.c \notin closed
    <3>1. PICK n : senders' = IF topic[n] \in known THEN relay(n) ELSE senders
      BY <1>1 DEF RelayerJob
    <3>2. CASE s \in senders BY <3>2 DEF OwnInv, NoSendOnClosed
    <3>3. CASE s \notin senders
      <4>1. topic[n] \in Ids /\ s \in relay(n) BY <3>1, <3>3 DEF TypeInv, TypeOK
      <4>2. PICK c \in routes[topic[n]] : s = [c |-> c, n |-> n, g |-> gen]
        BY <3>3, <4>1 DEF relay
      <4>3. s.c = c BY <4>2
      <4> QED BY <4>1, <4>2, <4>3 DEF OwnInv, RouteOpen
    <3> QED BY <3>2, <3>3
  <2> QED BY <1>1, <2>1, OwnKept DEF RelayerJob, channels
<1>2. CASE RelayerEmptyJob(r) \/ RelayerEnds(r)
  BY <1>2, OwnKept DEF RelayerEmptyJob, RelayerEnds, channels, OwnInv, NoSendOnClosed
<1> QED BY <1>1, <1>2 DEF RelayerNext

LEMMA OwnSender ==
  ASSUME TypeInv, OwnInv, NEW s \in senders, SenderEnds(s) \/ SenderLate(s) PROVE OwnInv'
<1>1. CASE SenderEnds(s)
  BY <1>1, OwnKept DEF SenderEnds, channels, OwnInv, NoSendOnClosed
<1>2. CASE SenderLate(s)
  <2>1. s \in Sender BY DEF TypeInv, TypeOK
  <2>2. [s EXCEPT !.g = gen].c = s.c BY <2>1 DEF Sender
  <2>3. \A t \in senders' : t.c \notin closed BY <1>2, <2>2 DEF SenderLate, OwnInv, NoSendOnClosed
  <2> QED BY <1>2, <2>3, OwnKept DEF SenderLate, channels
<1> QED BY <1>1, <1>2

LEMMA OwnPublish == ASSUME OwnInv, NEW id \in Ids, getNewID(id) \/ publish(id) PROVE OwnInv'
BY OwnKept DEF getNewID, publish, channels, OwnInv, NoSendOnClosed

LEMMA OwnReceive ==
  ASSUME OwnInv, NEW p \in Subs, NEW s \in senders, Receive(p, s) PROVE OwnInv'
BY OwnKept DEF Receive, channels, OwnInv, NoSendOnClosed

LEMMA OwnSubscribe ==
  ASSUME TypeInv, OwnInv, NEW p \in Subs, NEW id \in Ids, subscribe(p, id) PROVE OwnInv'
<1>1. PICK c \in pool \cup (Chans \ used) :
         /\ pool' = pool \ {c} /\ used' = used \cup {c}
         /\ routes' = [routes EXCEPT ![id] = @ \cup {c}]
         /\ pipe' = [pipe EXCEPT ![p] = [id |-> id, c |-> c]]
  BY DEF subscribe
<1>2. /\ closed' = closed /\ senders' = senders /\ c \in Chans
      /\ routes \in [Ids -> SUBSET Chans] /\ pipe \in [Subs -> Pipe \cup {NoPipe}]
  BY DEF subscribe, TypeInv, TypeOK
\* Nobody has the channel that the pool hands out.
<1>3. /\ c \notin closed /\ \A q \in Subs : Held(q) => pipe[q].c # c
      /\ \A i \in Ids : c \notin routes[i]
  BY <1>1 DEF OwnInv, HeldMade, RouteOpen, PoolOpen, ClosedMade
<1>4. /\ pipe'[p].c = c /\ \A q \in Subs : q # p => pipe'[q] = pipe[q]
      /\ \A i \in Ids : routes'[i] = IF i = id THEN routes[i] \cup {c} ELSE routes[i]
  BY <1>1, <1>2
<1>5. OneHolder' BY <1>3, <1>4 DEF OneHolder, Held, OwnInv
<1>6. HeldMade' BY <1>1, <1>3, <1>4 DEF HeldMade, Held, OwnInv
<1>7. OneRoute'
  <2>1. ASSUME NEW i \in Ids, NEW j \in Ids, NEW d \in Chans, d \in routes'[i], d \in routes'[j]
        PROVE  i = j
    <3>1. CASE d = c BY <1>3, <1>4, <2>1, <3>1
    <3>2. CASE d # c
      <4>1. d \in routes[i] /\ d \in routes[j] BY <1>4, <2>1, <3>2
      <4> QED BY <4>1 DEF OneRoute, OwnInv
    <3> QED BY <3>1, <3>2
  <2> QED BY <2>1 DEF OneRoute
<1>8. RouteOpen' BY <1>1, <1>2, <1>3, <1>4 DEF RouteOpen, OwnInv
<1>9. PoolOpen' /\ ClosedMade' /\ NoSendOnClosed'
  BY <1>1, <1>2 DEF PoolOpen, ClosedMade, NoSendOnClosed, OwnInv
<1> QED BY <1>5, <1>6, <1>7, <1>8, <1>9 DEF OwnInv

LEMMA OwnUnsubscribe == ASSUME TypeInv, OwnInv, NEW p \in Subs, unsubscribe(p) PROVE OwnInv'
<1> DEFINE id == pipe[p].id
           c == pipe[p].c
<1>1. /\ id \in Ids /\ c \in Chans /\ Held(p)
      /\ routes \in [Ids -> SUBSET Chans] /\ pipe \in [Subs -> Pipe \cup {NoPipe}]
  BY DEF unsubscribe, TypeInv, TypeOK, Pipe, Held
<1>2. used' = used /\ closed' = closed /\ pipe' = [pipe EXCEPT ![p] = NoPipe]
  BY DEF unsubscribe, Leaves
<1>3. ~Held(p)' /\ \A q \in Subs : q # p => pipe'[q] = pipe[q] BY <1>1, <1>2 DEF Held
<1>4. OneHolder' BY <1>3 DEF OneHolder, Held, OwnInv
<1>5. CASE running /\ c \in routes[id]
  <2>1. /\ routes' = [routes EXCEPT ![id] = @ \ {c}] /\ drain(c) /\ pool' = pool \cup {c}
    BY <1>5 DEF unsubscribe
  <2>2. senders' \subseteq senders BY <2>1 DEF drain
  <2>3. c \in used /\ c \notin closed BY <1>1, <1>5 DEF RouteOpen, OwnInv
  <2>4. \A q \in Subs : q # p /\ Held(q) => pipe[q].c # c BY <1>1 DEF OneHolder, OwnInv
  <2>5. \A i \in Ids : i # id => c \notin routes[i] BY <1>1, <1>5 DEF OneRoute, OwnInv
  <2> HIDE DEF id, c
  <2>6. \A i \in Ids : routes'[i] = IF i = id THEN routes[i] \ {c} ELSE routes[i]
    BY <1>1, <2>1
  <2>7. HeldMade' BY <1>2, <1>3, <2>1, <2>4 DEF HeldMade, Held, OwnInv
  <2>8. OneRoute' BY <2>6 DEF OneRoute, OwnInv
  <2>9. RouteOpen' BY <1>2, <2>1, <2>5, <2>6 DEF RouteOpen, OwnInv
  <2>10. PoolOpen' /\ ClosedMade' /\ NoSendOnClosed'
    BY <1>2, <2>1, <2>2, <2>3 DEF PoolOpen, ClosedMade, NoSendOnClosed, OwnInv
  <2> QED BY <1>4, <2>7, <2>8, <2>9, <2>10 DEF OwnInv
<1>6. CASE ~(running /\ c \in routes[id])
  <2>1. UNCHANGED <<routes, senders, pool>> BY <1>6 DEF unsubscribe
  <2>2. HeldMade' BY <1>2, <1>3, <2>1 DEF HeldMade, Held, OwnInv
  <2>3. OneRoute' /\ RouteOpen' /\ PoolOpen' /\ ClosedMade' /\ NoSendOnClosed'
    BY <1>2, <2>1 DEF OneRoute, RouteOpen, PoolOpen, ClosedMade, NoSendOnClosed, OwnInv
  <2> QED BY <1>4, <2>2, <2>3 DEF OwnInv
<1> QED BY <1>5, <1>6

LEMMA OwnStep == TypeInv /\ OwnInv /\ [Next]_vars => OwnInv'
<1> SUFFICES ASSUME TypeInv, OwnInv, [Next]_vars PROVE OwnInv' OBVIOUS
<1>1. CASE UNCHANGED vars BY <1>1, OwnKept DEF vars, OwnInv, NoSendOnClosed
<1> QED BY <1>1, OwnStop, OwnRelayer, OwnSender, OwnPublish, OwnSubscribe, OwnReceive,
        OwnUnsubscribe DEF Next

LEMMA OwnAlways == Spec => []OwnInv
<1>1. Spec => []TypeInv BY TypeInit, TypeStep, PTL DEF Spec
<1> QED BY <1>1, OwnInit, OwnStep, PTL DEF Spec

\* However channels go to the pool and out of it again, none has two owners.
THEOREM ChannelsOwnedAlways == Spec => []ChannelsOwned
<1>1. ASSUME OwnInv, TypeInv PROVE ChannelsOwned
  <2>1. \A i, j \in Ids : routes[i] \cap routes[j] # {} => i = j
    BY <1>1 DEF OwnInv, OneRoute, TypeInv, TypeOK
  <2>2. pool \cap Routed = {} BY <1>1 DEF OwnInv, RouteOpen, Routed
  <2> QED BY <1>1, <2>1, <2>2 DEF ChannelsOwned, OwnInv, OneHolder, HeldMade, Held
<1>2. Spec => []TypeInv BY TypeInit, TypeStep, PTL DEF Spec
<1> QED BY <1>1, <1>2, OwnAlways, PTL

\* The panic of a send on a closed channel cannot happen, with stops that time
\* out and relayers that outlive them included.
THEOREM NoSendOnClosedAlways == Spec => []NoSendOnClosed
<1>1. OwnInv => NoSendOnClosed BY DEF OwnInv
<1> QED BY <1>1, OwnAlways, PTL
=============================================================================
