---------------------------- MODULE SyncerProofs ----------------------------
(* Proofs about Syncer, for any pairs, agents, kinds of data and workers. *)
EXTENDS Syncer, FiniteSetTheorems, TLAPS

\* What the Start under way has added to the wait group.
Share == IF pc["start"] \in {"off", "begin"} THEN 0 ELSE 1

\* Where the goroutines can be; one that synchronises has an agent in hand.
Placed ==
  /\ pc["start"] \in {"off", "begin", "look", "add"} /\ pc["ws"] \in {"off", "sync"}
  /\ pc["start"] = "begin" => gen < MaxStarts
  /\ \A p \in Procs : pc[p] \in {"sync", "fetch"} => at[p] \in Agents

Referred(a) ==
  \/ \E k \in Keys : pairs[k] = a
  \/ \E p \in Procs : pc[p] \in {"sync", "fetch"} /\ at[p] = a

\* Until the initial sync is complete, every agent someone can update has been counted.
Tally ==
  ~completed => \A a \in Agents : Referred(a) => \A i \in Items : <<a, i>> \in counted

Covered == wg >= Share /\ WgCounts

IInv == TypeOK /\ Placed /\ Tally /\ Covered

Where == {"off", "begin", "wait", "look", "add", "sync", "fetch"}
Tracker == [ws : BOOLEAN, data : BOOLEAN, late : BOOLEAN]

LEMMA Names ==
  /\ "start" \in Procs /\ "ws" \in Procs /\ "start" # "ws"
  /\ "start" \notin Workers /\ "ws" \notin Workers /\ Workers \subseteq Procs
  /\ None \notin Agents
  BY ConstantsAssumption DEF Procs

LEMMA PlaceTypes ==
  ASSUME TypeOK
  PROVE  /\ pc \in [Procs -> Where] /\ at \in [Procs -> Agents \cup Keys \cup {None}]
         /\ pairs \in [Keys -> Agents \cup {None}]
         /\ pass \in [Procs -> SUBSET Keys] /\ left \in [Procs -> SUBSET Items]
  BY DEF TypeOK, Where

\* What Get does, one case at a time.
LEMMA GetCases ==
  ASSUME NEW p, NEW k, Get(p, k)
  PROVE  /\ UNCHANGED <<outside, life, wg, agents, seen, dead>> /\ pc[p] = "look"
         /\ \/ /\ pairs[k] = None /\ pc' = [pc EXCEPT ![p] = "add"]
               /\ at' = [at EXCEPT ![p] = k] /\ UNCHANGED <<pass, left>>
            \/ pairs[k] # None /\ Found(p, k, pairs[k])
  BY Zenon DEF Get, At

\* What WebsocketUpdate does to the place of the websocket routine.
LEMMA WebsocketCases ==
  ASSUME NEW k, NEW i, WebsocketUpdate(k, i)
  PROVE  /\ pairs[k] # None /\ UNCHANGED <<pairs, counted, pass, gen, completed>>
         /\ \/ UNCHANGED <<pc, at, left>>
            \/ /\ pc' = [pc EXCEPT !["ws"] = "sync"] /\ at' = [at EXCEPT !["ws"] = pairs[k]]
               /\ left' = [left EXCEPT !["ws"] = {i}]
  BY Zenon DEF WebsocketUpdate, At, life

LEMMA ItemsFinite == IsFiniteSet(Items)
<1>1. IsFiniteSet({"ticker", "orderbook"} \cup {"trade"})
  <2>1. IsFiniteSet({"ticker"} \cup {"orderbook"})
    BY FS_Singleton, FS_AddElement
  <2>2. {"ticker"} \cup {"orderbook"} = {"ticker", "orderbook"}
    OBVIOUS
  <2> QED BY <2>1, <2>2, FS_AddElement
<1>2. Items \subseteq {"ticker", "orderbook"} \cup {"trade"}
  BY ConstantsAssumption DEF Kinds
<1> QED BY <1>1, <1>2, FS_Subset

LEMMA OwedFinite ==
  ASSUME TypeOK
  PROVE  IsFiniteSet(Owed) /\ Cardinality(Owed) \in Nat
<1>1. IsFiniteSet(Agents \X Items)
  BY ItemsFinite, ConstantsAssumption, FS_Product
<1>2. Owed \subseteq Agents \X Items
  BY DEF Owed, TypeOK
<1> QED BY <1>1, <1>2, FS_Subset, FS_CardinalityType

\* An update takes at most its own tracker from what is owed, and counts down if it does.
LEMMA UpdateCovered ==
  ASSUME IInv, NEW a \in Agents, NEW i \in Items, NEW ws \in BOOLEAN, Update(a, i, ws),
         ~completed => <<a, i>> \in counted,
         completed' = completed, counted' = counted, Share' = Share
  PROVE  wg' \in Nat /\ Covered'
<1>1. CASE completed
  BY <1>1 DEF Update, IInv, Covered, WgCounts, TypeOK
<1>2. CASE ~completed
  <2>0. IsFiniteSet(Owed) /\ Cardinality(Owed) \in Nat /\ wg = Cardinality(Owed) + Share
        /\ Share \in {0, 1}
    BY <1>2, OwedFinite DEF IInv, Covered, WgCounts, Share
  <2>1. ASSUME NEW x \in counted
        PROVE  tracker'[x[1]][x[2]].data = (x = <<a, i>> \/ tracker[x[1]][x[2]].data)
    <3>1. PICK b \in Agents, j \in Items : x = <<b, j>>
      BY DEF IInv, TypeOK
    <3>2. CASE b = a /\ j = i
      BY <3>1, <3>2 DEF Update, IInv, TypeOK
    <3>3. CASE b # a
      BY <3>1, <3>3 DEF Update, IInv, TypeOK
    <3>4. CASE b = a /\ j # i
      BY <3>1, <3>4 DEF Update, IInv, TypeOK
    <3> QED BY <3>2, <3>3, <3>4
  <2>2. Owed' = Owed \ {<<a, i>>}
    BY <2>1 DEF Owed
  <2>3. <<a, i>> \in Owed <=> ~tracker[a][i].data
    BY <1>2 DEF Owed
  <2>4. wg' = IF tracker[a][i].data THEN wg ELSE wg - 1
    BY <1>2 DEF Update
  <2>5. Cardinality(Owed') = IF tracker[a][i].data THEN Cardinality(Owed) ELSE Cardinality(Owed) - 1
    BY <2>0, <2>2, <2>3, FS_RemoveElement
  <2>6. Cardinality(Owed') \in Nat
    BY <2>0, <2>2, FS_RemoveElement, FS_CardinalityType
  <2>7. wg' = Cardinality(Owed') + Share
    BY <2>0, <2>4, <2>5
  <2> QED BY <1>2, <2>0, <2>6, <2>7 DEF Covered, WgCounts, Share
<1> QED BY <1>1, <1>2

\* Steps that leave the data and the counts alone.
LEMMA SameCovered ==
  ASSUME IInv, wg' = wg, Share' = Share, completed' = completed, counted' = counted,
         \A b \in Agents, j \in Items : tracker'[b][j].data = tracker[b][j].data
  PROVE  wg' \in Nat /\ Covered'
<1>1. Owed' = Owed
  BY DEF Owed, IInv, TypeOK
<1> QED BY <1>1 DEF IInv, TypeOK, Covered, WgCounts, Share

\* The agent that Add makes.
LEMMA AddAgent ==
  ASSUME NEW p \in Workers \cup {"start"}, NEW k \in Keys, Add(p, k)
  PROVE  \E a \in Agents :
           /\ a \in Unused /\ Found(p, k, a)
           /\ pairs' = [pairs EXCEPT ![k] = a] /\ young' = [young EXCEPT ![a] = TRUE]
           /\ \E up \in BOOLEAN : tracker' =
                [tracker EXCEPT ![a] = [i \in Items |-> [ws |-> up, data |-> FALSE, late |-> TRUE]]]
           /\ (completed /\ counted' = counted) \/ counted' = counted \cup ({a} \X Items)
<1> DEFINE a == CHOOSE x \in Unused : TRUE
<1>1. a \in Unused /\ a \in Agents
  BY DEF Add, Unused
<1>2. PICK up \in BOOLEAN :
        tracker' = [tracker EXCEPT ![a] = [i \in Items |-> NewTracker(up)]]
  <2>1. Streamed \in BOOLEAN /\ FALSE \in BOOLEAN
    BY ConstantsAssumption, Zenon
  <2>2. (IF p = "start" THEN {Streamed} ELSE {Streamed, FALSE}) \subseteq {Streamed, FALSE}
    BY Zenon
  <2>3. \A up \in (IF p = "start" THEN {Streamed} ELSE {Streamed, FALSE}) : up \in BOOLEAN
    BY <2>1, <2>2, Zenon
  <2>4. \E up \in (IF p = "start" THEN {Streamed} ELSE {Streamed, FALSE}) :
          tracker' = [tracker EXCEPT ![a] = [i \in Items |-> NewTracker(up)]]
    BY Zenon DEF Add
  <2> QED BY <2>3, <2>4, Zenon
<1>3. NewTracker(up) = [ws |-> up, data |-> FALSE, late |-> TRUE]
  BY DEF NewTracker
<1>4. /\ Found(p, k, a)
      /\ pairs' = [pairs EXCEPT ![k] = a] /\ young' = [young EXCEPT ![a] = TRUE]
      /\ (completed /\ counted' = counted) \/ counted' = counted \cup ({a} \X Items)
  BY Zenon DEF Add
<1> HIDE DEF a
<1> QED BY <1>1, <1>2, <1>3, <1>4

LEMMA StartEndPlaces ==
  ASSUME TypeOK, StartEnd
  PROVE  /\ pc' \in [Procs -> Where] /\ pc'["start"] = "off"
         /\ \A p \in Procs : p # "start" => pc'[p] = pc[p] \/ (pc[p] = "off" /\ p \in Workers /\ pc'[p] = "wait")
<1>1. CASE completed /\ ~Continuous
  BY <1>1, Names DEF StartEnd, At, TypeOK, Where
<1>2. CASE ~(completed /\ ~Continuous)
  <2>1. PICK ws \in kSubset(NumWorkers, {w \in Workers : pc[w] = "off"}) :
          pc' = [p \in Procs |-> IF p = "start" THEN "off" ELSE IF p \in ws THEN "wait" ELSE pc[p]]
    BY <1>2, Zenon DEF StartEnd
  <2>2. ws \subseteq {w \in Workers : pc[w] = "off"}
    BY Zenon DEF kSubset
  <2> QED BY <2>1, <2>2, Names DEF TypeOK, Where
<1> QED BY <1>1, <1>2

LEMMA UpdateTyped ==
  ASSUME TypeOK, NEW a \in Agents, NEW i \in Items, NEW ws \in BOOLEAN, Update(a, i, ws)
  PROVE  tracker' \in [Agents -> [Items -> Tracker]]
<1>1. [ws |-> ws, data |-> TRUE, late |-> FALSE] \in Tracker
  BY DEF Tracker
<1>2. tracker \in [Agents -> [Items -> Tracker]]
  BY DEF TypeOK, Tracker
<1> QED BY <1>1, <1>2 DEF Update

LEMMA CoveredStep == IInv /\ [Next]_vars => (wg' \in Nat /\ Covered')
<1> SUFFICES ASSUME IInv, [Next]_vars PROVE (wg' \in Nat /\ Covered')
  OBVIOUS
<1> USE Names DEF IInv, outside, life, agents, places, At
<1>1. ASSUME NEW k \in Keys, EnablePair(k) PROVE (wg' \in Nat /\ Covered')
  <2>1. Share' = Share
    BY <1>1 DEF EnablePair, Share, IInv, TypeOK
  <2> QED BY <1>1, <2>1, SameCovered DEF EnablePair
<1>2. CASE Connection
  <2>1. Share' = Share
    BY <1>2 DEF Connection, Share, IInv, TypeOK
  <2> QED BY <1>2, <2>1, SameCovered DEF Connection
<1>3. ASSUME NEW a \in Agents, NEW i \in Items, Elapse(a, i) PROVE (wg' \in Nat /\ Covered')
  <2>1. \A b \in Agents, j \in Items : tracker'[b][j].data = tracker[b][j].data
    BY <1>3 DEF Elapse, TypeOK
  <2> QED BY <1>3, <2>1, SameCovered DEF Elapse, Share
<1>4. ASSUME NEW a \in Agents, Ages(a) PROVE (wg' \in Nat /\ Covered')
  <2>1. Share' = Share
    BY <1>4 DEF Ages, Share, IInv, TypeOK
  <2> QED BY <1>4, <2>1, SameCovered DEF Ages
<1>5. CASE StartBegin
  <2>1. Share' = Share
    BY <1>5 DEF StartBegin, Share, IInv, TypeOK
  <2> QED BY <1>5, <2>1, SameCovered DEF StartBegin
<1>6. CASE StartMake
  <2>1. Share = 0 /\ Share' = 1 /\ wg' = wg + 1 /\ Owed' = Owed
    BY <1>6 DEF StartMake, Share, TypeOK, Owed
  <2> QED BY <1>6, <2>1, OwedFinite DEF StartMake, TypeOK, Covered, WgCounts, Share
<1>7. CASE StartEnd
  <2>1. Share = 1 /\ Share' = 0 /\ Owed' = Owed /\ wg \in Nat /\ wg >= 1
    BY <1>7 DEF StartEnd, Share, TypeOK, Owed, Covered
  <2>2. (wg' = wg /\ completed) \/ wg' = wg - 1
    BY <1>7, Zenon DEF StartEnd
  <2>3. completed' = completed
    BY <1>7 DEF StartEnd
  <2> QED BY <2>1, <2>2, <2>3, OwedFinite DEF Covered, WgCounts, Share
<1>8. CASE Stop
  <2>1. Share' = Share
    BY <1>8 DEF Stop, Share, IInv, TypeOK
  <2> QED BY <1>8, <2>1, SameCovered DEF Stop
<1>9. ASSUME NEW g \in 1..MaxStarts, WaiterSees(g) PROVE (wg' \in Nat /\ Covered')
  <2>1. Share' = Share
    BY <1>9 DEF WaiterSees, Share, IInv, TypeOK
  <2> QED BY <1>9, <2>1, SameCovered DEF WaiterSees
<1>10. ASSUME NEW g \in 1..MaxStarts, WaiterWakes(g) PROVE (wg' \in Nat /\ Covered')
  <2>1. Share' = Share
    BY <1>10 DEF WaiterWakes, Share, IInv, TypeOK
  <2> QED BY <1>10, <2>1, SameCovered DEF WaiterWakes
<1>11. ASSUME NEW g \in 1..MaxStarts, WaiterCompletes(g) PROVE (wg' \in Nat /\ Covered')
  BY <1>11 DEF WaiterCompletes, TypeOK, Covered, WgCounts, Share
<1>12. ASSUME NEW g \in 1..MaxStarts, WaiterStops(g) PROVE (wg' \in Nat /\ Covered')
  <2>1. Share' = Share
    BY <1>12 DEF WaiterStops, Share, IInv, TypeOK
  <2> QED BY <1>12, <2>1, SameCovered DEF WaiterStops
<1>13. ASSUME NEW p \in Workers \cup {"start"}, NEW k \in Keys, Get(p, k) PROVE (wg' \in Nat /\ Covered')
  <2>1. Share' = Share
    BY <1>13 DEF Get, Found, Share, IInv, TypeOK
  <2> QED BY <1>13, <2>1, SameCovered DEF Get
<1>14. ASSUME NEW p \in Workers \cup {"start"}, NEW k \in Keys, Add(p, k) PROVE (wg' \in Nat /\ Covered')
  <2> DEFINE a == CHOOSE x \in Unused : TRUE
  <2>0. a \in Unused /\ a \in Agents
    BY <1>14 DEF Add, Unused
  <2> HIDE DEF a
  <2>1. Share' = Share
    BY <1>14 DEF Add, Found, Share, TypeOK
  <2>2. CASE completed
    BY <1>14, <2>1, <2>2 DEF Add, TypeOK, Covered, WgCounts, Share
  <2>3. CASE ~completed
    <3>1. counted' = counted \cup ({a} \X Items) /\ wg' = wg + Cardinality(Items)
          /\ completed' = completed
      BY <1>14, <2>3 DEF Add, a
    <3>2. \A b \in Agents : b # a => tracker'[b] = tracker[b]
      BY <1>14, <2>0 DEF Add, a, TypeOK
    <3>3. \A j \in Items : ~tracker'[a][j].data
      BY <1>14, <2>0 DEF Add, a, TypeOK, NewTracker
    <3>4. \A x \in counted : x[1] # a /\ x[1] \in Agents
      <4>1. \A j \in Items : <<a, j>> \notin counted
        BY <2>0 DEF Unused
      <4> QED BY <4>1 DEF TypeOK
    <3>5. Owed' = Owed \cup ({a} \X Items) /\ Owed \cap ({a} \X Items) = {}
      <4>1. Owed \cap ({a} \X Items) = {}
        BY <3>4 DEF Owed
      <4>2. \A x \in counted : tracker'[x[1]][x[2]].data = tracker[x[1]][x[2]].data
        BY <3>2, <3>4
      <4>3. \A x \in {a} \X Items : ~tracker'[x[1]][x[2]].data
        BY <3>3
      <4> QED BY <3>1, <4>1, <4>2, <4>3 DEF Owed
    <3>6. IsFiniteSet({a} \X Items) /\ Cardinality({a} \X Items) = Cardinality(Items)
          /\ Cardinality(Items) \in Nat
      <4>1. IsFiniteSet({a}) /\ Cardinality({a}) = 1
        BY FS_Singleton
      <4>2. IsFiniteSet({a} \X Items) /\ Cardinality({a} \X Items) = 1 * Cardinality(Items)
        BY <4>1, ItemsFinite, FS_Product
      <4>3. Cardinality(Items) \in Nat
        BY ItemsFinite, FS_CardinalityType
      <4> QED BY <4>2, <4>3
    <3>7. IsFiniteSet(Owed) /\ Cardinality(Owed) \in Nat
      BY OwedFinite
    <3>8. Cardinality(Owed') = Cardinality(Owed) + Cardinality(Items)
      <4>1. Cardinality(Owed') = Cardinality(Owed) + Cardinality({a} \X Items) - Cardinality({})
        BY <3>5, <3>6, <3>7, FS_Union
      <4> QED BY <3>6, <3>7, <4>1, FS_EmptySet
    <3>9. wg = Cardinality(Owed) + Share /\ wg \in Nat /\ Share \in {0, 1}
      BY <2>3 DEF Covered, WgCounts, Share, TypeOK
    <3>10. wg' = Cardinality(Owed') + Share' /\ wg' \in Nat /\ wg' >= Share'
      BY <2>1, <3>1, <3>6, <3>7, <3>8, <3>9
    <3> QED BY <3>10 DEF Covered, WgCounts, Share
  <2> QED BY <2>2, <2>3
<1>15. ASSUME NEW k \in Keys, NEW i \in Items, WebsocketUpdate(k, i) PROVE (wg' \in Nat /\ Covered')
  <2>0. pairs[k] \in Agents /\ (~completed => <<pairs[k], i>> \in counted)
    BY <1>15 DEF WebsocketUpdate, TypeOK, Tally, Referred
  <2>1. Share' = Share
    BY <1>15 DEF WebsocketUpdate, Share, TypeOK
  <2>2. CASE Locked(pairs[k], i)
    BY <1>15, <2>1, <2>2, SameCovered DEF WebsocketUpdate
  <2>3. CASE ~Locked(pairs[k], i)
    BY <1>15, <2>0, <2>1, <2>3, UpdateCovered DEF WebsocketUpdate
  <2> QED BY <2>2, <2>3
<1>16. ASSUME NEW i \in Items, WebsocketUpdated(i) PROVE (wg' \in Nat /\ Covered')
  <2>0. at["ws"] \in Agents /\ (~completed => <<at["ws"], i>> \in counted)
    BY <1>16 DEF WebsocketUpdated, Placed, Tally, Referred
  <2>1. Share' = Share
    BY <1>16 DEF WebsocketUpdated, Share, TypeOK
  <2> QED BY <1>16, <2>0, <2>1, UpdateCovered DEF WebsocketUpdated
<1>17. ASSUME NEW w \in Workers, WorkerTick(w) PROVE (wg' \in Nat /\ Covered')
  <2>1. Share' = Share
    BY <1>17 DEF WorkerTick, Share, IInv, TypeOK
  <2> QED BY <1>17, <2>1, SameCovered DEF WorkerTick
<1>18. ASSUME NEW w \in Workers, WorkerExit(w) PROVE (wg' \in Nat /\ Covered')
  <2>1. Share' = Share
    BY <1>18 DEF WorkerExit, Share, IInv, TypeOK
  <2> QED BY <1>18, <2>1, SameCovered DEF WorkerExit
<1>19. ASSUME NEW w \in Workers, WorkerPassed(w) PROVE (wg' \in Nat /\ Covered')
  <2>1. Share' = Share
    BY <1>19 DEF WorkerPassed, Share, IInv, TypeOK
  <2> QED BY <1>19, <2>1, SameCovered DEF WorkerPassed
<1>20. ASSUME NEW w \in Workers, NEW i \in Items, Busy(w, i) PROVE (wg' \in Nat /\ Covered')
  <2>1. Share' = Share
    BY <1>20 DEF Busy, Onward, Share, IInv, TypeOK
  <2> QED BY <1>20, <2>1, SameCovered DEF Busy
<1>21. ASSUME NEW w \in Workers, NEW i \in Items, Fresh(w, i) PROVE (wg' \in Nat /\ Covered')
  <2>1. Share' = Share
    BY <1>21 DEF Fresh, Onward, Share, IInv, TypeOK
  <2> QED BY <1>21, <2>1, SameCovered DEF Fresh
<1>22. ASSUME NEW w \in Workers, NEW i \in Items, Fetch(w, i) PROVE (wg' \in Nat /\ Covered')
  <2>0. at[w] \in Agents /\ (~completed => <<at[w], i>> \in counted)
    BY <1>22 DEF Fetch, Placed, Tally, Referred
  <2>1. Share' = Share
    BY <1>22 DEF Fetch, Onward, Share, TypeOK
  <2>2. CASE i = "trade"
    <3>1. tracker[at[w]][i].ws \in BOOLEAN
      BY <2>0 DEF TypeOK
    <3> QED BY <1>22, <2>0, <2>1, <2>2, <3>1, UpdateCovered DEF Fetch
  <2>3. CASE i # "trade"
    <3>1. tracker' = [tracker EXCEPT ![at[w]][i].ws = FALSE]
      BY <1>22, <2>3 DEF Fetch
    <3>2. \A b \in Agents, j \in Items : tracker'[b][j].data = tracker[b][j].data
      BY <2>0, <3>1 DEF TypeOK
    <3> QED BY <1>22, <2>1, <2>3, <3>2, SameCovered DEF Fetch
  <2> QED BY <2>2, <2>3
<1>23. ASSUME NEW w \in Workers, NEW i \in Items, Fetched(w, i) PROVE (wg' \in Nat /\ Covered')
  <2>0. at[w] \in Agents /\ (~completed => <<at[w], i>> \in counted)
    BY <1>23 DEF Fetched, Placed, Tally, Referred
  <2>1. Share' = Share
    BY <1>23 DEF Fetched, Onward, Share, TypeOK
  <2> QED BY <1>23, <2>0, <2>1, UpdateCovered DEF Fetched
<1>24. CASE UNCHANGED vars
  BY <1>24 DEF vars, TypeOK, Covered, WgCounts, Share, Owed
<1> QED
  BY <1>1, <1>2, <1>3, <1>4, <1>5, <1>6, <1>7, <1>8, <1>9, <1>10, <1>11, <1>12,
     <1>13, <1>14, <1>15, <1>16, <1>17, <1>18, <1>19, <1>20, <1>21, <1>22, <1>23, <1>24
     DEF Next, Locate, Work, Wait

LEMMA PlacedStep == IInv /\ [Next]_vars => Placed'
<1> SUFFICES ASSUME IInv, [Next]_vars PROVE Placed'
  OBVIOUS
<1> USE Names DEF IInv, outside, life, agents, places, At
<1>1. ASSUME NEW k \in Keys, EnablePair(k) PROVE Placed'
  BY <1>1 DEF EnablePair, TypeOK, Placed
<1>2. CASE Connection
  BY <1>2 DEF Connection, TypeOK, Placed
<1>3. ASSUME NEW a \in Agents, NEW i \in Items, Elapse(a, i) PROVE Placed'
  BY <1>3 DEF Elapse, TypeOK, Placed
<1>4. ASSUME NEW a \in Agents, Ages(a) PROVE Placed'
  BY <1>4 DEF Ages, TypeOK, Placed
<1>5. CASE StartBegin
  BY <1>5 DEF StartBegin, TypeOK, Placed
<1>6. CASE StartMake
  BY <1>6 DEF StartMake, TypeOK, Placed
<1>7. CASE StartEnd
  BY <1>7, StartEndPlaces DEF StartEnd, Placed
<1>8. CASE Stop
  BY <1>8 DEF Stop, TypeOK, Placed
<1>9. ASSUME NEW g \in 1..MaxStarts, WaiterSees(g) PROVE Placed'
  BY <1>9 DEF WaiterSees, TypeOK, Placed
<1>10. ASSUME NEW g \in 1..MaxStarts, WaiterWakes(g) PROVE Placed'
  BY <1>10 DEF WaiterWakes, TypeOK, Placed
<1>11. ASSUME NEW g \in 1..MaxStarts, WaiterCompletes(g) PROVE Placed'
  BY <1>11 DEF WaiterCompletes, TypeOK, Placed
<1>12. ASSUME NEW g \in 1..MaxStarts, WaiterStops(g) PROVE Placed'
  BY <1>12 DEF WaiterStops, TypeOK, Placed
<1>13. ASSUME NEW p \in Workers \cup {"start"}, NEW k \in Keys, Get(p, k) PROVE Placed'
  <2>0. p \in Procs
    BY DEF Procs
  <2>1. CASE pairs[k] = None
    BY <1>13, <2>0, <2>1, GetCases, PlaceTypes DEF Placed
  <2>2. CASE pairs[k] # None
    <3>1. Found(p, k, pairs[k]) /\ pairs[k] \in Agents /\ gen' = gen
      BY <1>13, <2>2, GetCases, PlaceTypes
    <3> QED BY <2>0, <3>1, PlaceTypes DEF Found, Placed
  <2> QED BY <2>1, <2>2
<1>14. ASSUME NEW p \in Workers \cup {"start"}, NEW k \in Keys, Add(p, k) PROVE Placed'
  <2>1. PICK a \in Agents : Found(p, k, a)
    BY <1>14, AddAgent
  <2>2. p \in Procs
    BY DEF Procs
  <2> QED BY <1>14, <2>1, <2>2 DEF Add, Found, TypeOK, Placed
<1>15. ASSUME NEW k \in Keys, NEW i \in Items, WebsocketUpdate(k, i) PROVE Placed'
  <2>1. pairs[k] \in Agents /\ gen' = gen
    BY <1>15, WebsocketCases, PlaceTypes
  <2> QED BY <1>15, <2>1, WebsocketCases, PlaceTypes DEF Placed
<1>16. ASSUME NEW i \in Items, WebsocketUpdated(i) PROVE Placed'
  BY <1>16 DEF WebsocketUpdated, TypeOK, Placed
<1>17. ASSUME NEW w \in Workers, WorkerTick(w) PROVE Placed'
  BY <1>17 DEF WorkerTick, TypeOK, Placed
<1>18. ASSUME NEW w \in Workers, WorkerExit(w) PROVE Placed'
  BY <1>18 DEF WorkerExit, TypeOK, Placed
<1>19. ASSUME NEW w \in Workers, WorkerPassed(w) PROVE Placed'
  BY <1>19 DEF WorkerPassed, TypeOK, Placed
<1>20. ASSUME NEW w \in Workers, NEW i \in Items, Busy(w, i) PROVE Placed'
  BY <1>20 DEF Busy, Onward, TypeOK, Placed
<1>21. ASSUME NEW w \in Workers, NEW i \in Items, Fresh(w, i) PROVE Placed'
  BY <1>21 DEF Fresh, Onward, TypeOK, Placed
<1>22. ASSUME NEW w \in Workers, NEW i \in Items, Fetch(w, i) PROVE Placed'
  BY <1>22 DEF Fetch, Onward, TypeOK, Placed
<1>23. ASSUME NEW w \in Workers, NEW i \in Items, Fetched(w, i) PROVE Placed'
  BY <1>23 DEF Fetched, Onward, TypeOK, Placed
<1>24. CASE UNCHANGED vars
  BY <1>24 DEF vars, TypeOK, Placed
<1> QED
  BY <1>1, <1>2, <1>3, <1>4, <1>5, <1>6, <1>7, <1>8, <1>9, <1>10, <1>11, <1>12,
     <1>13, <1>14, <1>15, <1>16, <1>17, <1>18, <1>19, <1>20, <1>21, <1>22, <1>23, <1>24
     DEF Next, Locate, Work, Wait

LEMMA TallyStep == IInv /\ [Next]_vars => Tally'
<1> SUFFICES ASSUME IInv, [Next]_vars PROVE Tally'
  OBVIOUS
<1> USE Names DEF IInv, outside, life, agents, places, At
<1>1. ASSUME NEW k \in Keys, EnablePair(k) PROVE Tally'
  BY <1>1 DEF EnablePair, TypeOK, Placed, Tally, Referred
<1>2. CASE Connection
  BY <1>2 DEF Connection, TypeOK, Placed, Tally, Referred
<1>3. ASSUME NEW a \in Agents, NEW i \in Items, Elapse(a, i) PROVE Tally'
  BY <1>3 DEF Elapse, TypeOK, Placed, Tally, Referred
<1>4. ASSUME NEW a \in Agents, Ages(a) PROVE Tally'
  BY <1>4 DEF Ages, TypeOK, Placed, Tally, Referred
<1>5. CASE StartBegin
  BY <1>5 DEF StartBegin, TypeOK, Placed, Tally, Referred
<1>6. CASE StartMake
  BY <1>6 DEF StartMake, TypeOK, Placed, Tally, Referred
<1>7. CASE StartEnd
  <2>1. UNCHANGED <<pairs, at, counted, completed>>
    BY <1>7 DEF StartEnd
  <2>2. \A p \in Procs : pc'[p] \in {"add", "sync", "fetch"} => pc'[p] = pc[p]
    BY <1>7, StartEndPlaces
  <2> QED BY <2>1, <2>2 DEF Tally, Referred
<1>8. CASE Stop
  BY <1>8 DEF Stop, TypeOK, Placed, Tally, Referred
<1>9. ASSUME NEW g \in 1..MaxStarts, WaiterSees(g) PROVE Tally'
  BY <1>9 DEF WaiterSees, TypeOK, Placed, Tally, Referred
<1>10. ASSUME NEW g \in 1..MaxStarts, WaiterWakes(g) PROVE Tally'
  BY <1>10 DEF WaiterWakes, TypeOK, Placed, Tally, Referred
<1>11. ASSUME NEW g \in 1..MaxStarts, WaiterCompletes(g) PROVE Tally'
  BY <1>11 DEF WaiterCompletes, TypeOK, Placed, Tally, Referred
<1>12. ASSUME NEW g \in 1..MaxStarts, WaiterStops(g) PROVE Tally'
  BY <1>12 DEF WaiterStops, TypeOK, Placed, Tally, Referred
<1>13. ASSUME NEW p \in Workers \cup {"start"}, NEW k \in Keys, Get(p, k) PROVE Tally'
  <2>0. p \in Procs
    BY DEF Procs
  <2>1. CASE pairs[k] = None
    BY <1>13, <2>0, <2>1, GetCases, PlaceTypes DEF Tally, Referred
  <2>2. CASE pairs[k] # None
    <3>1. \A a \in Agents : Referred(a)' => Referred(a)
      <4>1. Found(p, k, pairs[k]) /\ pairs' = pairs
        BY <1>13, <2>2 DEF Get
      <4>2. \A q \in Procs : q # p => pc'[q] = pc[q] /\ at'[q] = at[q]
        BY <4>1 DEF Found, TypeOK
      <4>3. pc'[p] \in {"sync", "fetch"} => at'[p] = pairs[k]
        BY <2>0, <4>1 DEF Found, TypeOK
      <4> QED BY <4>1, <4>2, <4>3 DEF Referred
    <3> QED BY <1>13, <3>1 DEF Get, Tally
  <2> QED BY <2>1, <2>2
<1>14. ASSUME NEW p \in Workers \cup {"start"}, NEW k \in Keys, Add(p, k) PROVE Tally'
  <2>0. p \in Procs
    BY DEF Procs
  <2>1. PICK a \in Agents :
          /\ Found(p, k, a) /\ pairs' = [pairs EXCEPT ![k] = a]
          /\ (completed /\ counted' = counted) \/ counted' = counted \cup ({a} \X Items)
    BY <1>14, AddAgent
  <2>2. \A b \in Agents : Referred(b)' => Referred(b) \/ b = a
    <3>1. \A q \in Procs : q # p => pc'[q] = pc[q] /\ at'[q] = at[q]
      BY <2>1 DEF Found, TypeOK
    <3>2. pc'[p] \in {"sync", "fetch"} => at'[p] = a
      BY <2>0, <2>1 DEF Found, TypeOK
    <3>3. \A l \in Keys : pairs'[l] = pairs[l] \/ pairs'[l] = a
      BY <2>1 DEF TypeOK
    <3> QED BY <3>1, <3>2, <3>3 DEF Referred
  <2>3. completed' = completed
    BY <1>14 DEF Add
  <2> QED BY <2>1, <2>2, <2>3 DEF Tally
<1>15. ASSUME NEW k \in Keys, NEW i \in Items, WebsocketUpdate(k, i) PROVE Tally'
  BY <1>15, WebsocketCases, PlaceTypes DEF Tally, Referred
<1>16. ASSUME NEW i \in Items, WebsocketUpdated(i) PROVE Tally'
  BY <1>16 DEF WebsocketUpdated, TypeOK, Placed, Tally, Referred
<1>17. ASSUME NEW w \in Workers, WorkerTick(w) PROVE Tally'
  BY <1>17 DEF WorkerTick, TypeOK, Placed, Tally, Referred
<1>18. ASSUME NEW w \in Workers, WorkerExit(w) PROVE Tally'
  BY <1>18 DEF WorkerExit, TypeOK, Placed, Tally, Referred
<1>19. ASSUME NEW w \in Workers, WorkerPassed(w) PROVE Tally'
  BY <1>19 DEF WorkerPassed, TypeOK, Placed, Tally, Referred
<1>20. ASSUME NEW w \in Workers, NEW i \in Items, Busy(w, i) PROVE Tally'
  BY <1>20 DEF Busy, Onward, TypeOK, Placed, Tally, Referred
<1>21. ASSUME NEW w \in Workers, NEW i \in Items, Fresh(w, i) PROVE Tally'
  BY <1>21 DEF Fresh, Onward, TypeOK, Placed, Tally, Referred
<1>22. ASSUME NEW w \in Workers, NEW i \in Items, Fetch(w, i) PROVE Tally'
  <2>1. UNCHANGED <<pairs, counted, completed>> /\ pc[w] = "sync"
    BY <1>22 DEF Fetch
  <2>2. CASE i = "trade"
    BY <1>22, <2>1, <2>2, PlaceTypes DEF Fetch, Onward, Tally, Referred
  <2>3. CASE i # "trade"
    <3>1. pc' = [pc EXCEPT ![w] = "fetch"] /\ at' = at
      BY <1>22, <2>3, Zenon DEF Fetch
    <3> QED BY <2>1, <3>1, PlaceTypes DEF Tally, Referred
  <2> QED BY <2>2, <2>3
<1>23. ASSUME NEW w \in Workers, NEW i \in Items, Fetched(w, i) PROVE Tally'
  BY <1>23 DEF Fetched, Onward, TypeOK, Placed, Tally, Referred
<1>24. CASE UNCHANGED vars
  BY <1>24 DEF vars, TypeOK, Placed, Tally, Referred
<1> QED
  BY <1>1, <1>2, <1>3, <1>4, <1>5, <1>6, <1>7, <1>8, <1>9, <1>10, <1>11, <1>12,
     <1>13, <1>14, <1>15, <1>16, <1>17, <1>18, <1>19, <1>20, <1>21, <1>22, <1>23, <1>24
     DEF Next, Locate, Work, Wait

LEMMA TypeStep == IInv /\ [Next]_vars => TypeOK'
<1> SUFFICES ASSUME IInv, [Next]_vars PROVE TypeOK'
  OBVIOUS
<1> USE Names DEF IInv, outside, life, agents, places, At
<1>0. wg' \in Nat
  BY CoveredStep
<1>1. ASSUME NEW k \in Keys, EnablePair(k) PROVE TypeOK'
  BY <1>0, <1>1 DEF EnablePair, TypeOK
<1>2. CASE Connection
  BY <1>0, <1>2 DEF Connection, TypeOK
<1>3. ASSUME NEW a \in Agents, NEW i \in Items, Elapse(a, i) PROVE TypeOK'
  <2>1. tracker' \in [Agents -> [Items -> Tracker]]
    <3>1. tracker \in [Agents -> [Items -> Tracker]] /\ tracker[a][i] \in Tracker
      BY DEF TypeOK, Tracker
    <3>2. [tracker[a][i] EXCEPT !.late = TRUE] \in Tracker
      BY <3>1 DEF Tracker
    <3> QED BY <1>3, <3>1, <3>2 DEF Elapse
  <2>2. UNCHANGED <<outside, life, pairs, young, counted, places, dead>>
    BY <1>3 DEF Elapse
  <2> QED BY <1>0, <2>1, <2>2 DEF TypeOK, Where, Tracker
<1>4. ASSUME NEW a \in Agents, Ages(a) PROVE TypeOK'
  BY <1>0, <1>4 DEF Ages, TypeOK
<1>5. CASE StartBegin
  BY <1>0, <1>5 DEF StartBegin, TypeOK
<1>6. CASE StartMake
  <2>1. gen' \in 0..MaxStarts
    BY <1>6, ConstantsAssumption DEF StartMake, TypeOK, Placed
  <2>2. closed' \in BOOLEAN
    BY <1>6 DEF StartMake
  <2>3. pc' \in [Procs -> Where]
    BY <1>6 DEF StartMake, TypeOK, Where
  <2>4. pass' \in [Procs -> SUBSET Keys]
    BY <1>6 DEF StartMake, TypeOK
  <2>5. UNCHANGED <<outside, started, completed, waiter, agents, at, left, seen, dead>>
    BY <1>6 DEF StartMake
  <2> QED BY <1>0, <2>1, <2>2, <2>3, <2>4, <2>5 DEF TypeOK, Where, Tracker
<1>7. CASE StartEnd
  <2>1. waiter' \in [1..MaxStarts -> {"none", "wait", "woken", "past", "stop", "done"}]
    BY <1>7 DEF StartEnd, TypeOK
  <2>2. seen' \in [Workers -> 0..MaxStarts]
    BY <1>7 DEF StartEnd, TypeOK
  <2>3. pc' \in [Procs -> Where]
    BY <1>7, StartEndPlaces
  <2>4. UNCHANGED <<outside, started, completed, gen, closed, agents, pass, at, left, dead>>
    BY <1>7 DEF StartEnd
  <2> QED BY <1>0, <2>1, <2>2, <2>3, <2>4 DEF TypeOK, Where, Tracker
<1>8. CASE Stop
  BY <1>0, <1>8 DEF Stop, TypeOK
<1>9. ASSUME NEW g \in 1..MaxStarts, WaiterSees(g) PROVE TypeOK'
  BY <1>0, <1>9 DEF WaiterSees, TypeOK
<1>10. ASSUME NEW g \in 1..MaxStarts, WaiterWakes(g) PROVE TypeOK'
  BY <1>0, <1>10 DEF WaiterWakes, TypeOK
<1>11. ASSUME NEW g \in 1..MaxStarts, WaiterCompletes(g) PROVE TypeOK'
  BY <1>0, <1>11 DEF WaiterCompletes, TypeOK
<1>12. ASSUME NEW g \in 1..MaxStarts, WaiterStops(g) PROVE TypeOK'
  BY <1>0, <1>12 DEF WaiterStops, TypeOK
<1>13. ASSUME NEW p \in Workers \cup {"start"}, NEW k \in Keys, Get(p, k) PROVE TypeOK'
  <2>1. p \in Procs /\ pairs[k] \in Agents \cup {None}
    BY DEF Procs, TypeOK
  <2>2. pc' \in [Procs -> Where] /\ pass' \in [Procs -> SUBSET Keys]
    <3>1. CASE pairs[k] = None
      BY <1>13, <2>1, <3>1 DEF Get, TypeOK, Where
    <3>2. CASE pairs[k] # None
      <4>1. /\ pc' = [pc EXCEPT ![p] = IF p = "start" THEN "look" ELSE "sync"]
            /\ pass' = [pass EXCEPT ![p] = @ \ {k}]
        BY <1>13, <3>2, Zenon DEF Get, Found
      <4> QED BY <2>1, <4>1 DEF TypeOK, Where
    <3> QED BY <3>1, <3>2
  <2>3. at' \in [Procs -> Agents \cup Keys \cup {None}]
    BY <1>13, <2>1, GetCases, PlaceTypes DEF Found
  <2>4. left' \in [Procs -> SUBSET Items]
    BY <1>13, <2>1, GetCases, PlaceTypes DEF Found
  <2>5. UNCHANGED <<outside, life, agents, seen, dead>>
    BY <1>13 DEF Get
  <2> QED BY <1>0, <2>2, <2>3, <2>4, <2>5 DEF TypeOK, Where
<1>14. ASSUME NEW p \in Workers \cup {"start"}, NEW k \in Keys, Add(p, k) PROVE TypeOK'
  <2>0. p \in Procs
    BY DEF Procs
  <2>1. PICK a \in Agents, up \in BOOLEAN :
          /\ Found(p, k, a)
          /\ pairs' = [pairs EXCEPT ![k] = a] /\ young' = [young EXCEPT ![a] = TRUE]
          /\ tracker' =
               [tracker EXCEPT ![a] = [i \in Items |-> [ws |-> up, data |-> FALSE, late |-> TRUE]]]
          /\ counted' = counted \/ counted' = counted \cup ({a} \X Items)
    BY <1>14, AddAgent
  <2>2. pc' \in [Procs -> Where] /\ pass' \in [Procs -> SUBSET Keys]
    BY <2>0, <2>1 DEF Found, TypeOK, Where
  <2>3. at' \in [Procs -> Agents \cup Keys \cup {None}] /\ left' \in [Procs -> SUBSET Items]
    BY <2>0, <2>1 DEF Found, TypeOK
  <2>4. pairs' \in [Keys -> Agents \cup {None}] /\ young' \in [Agents -> BOOLEAN]
    BY <2>1 DEF TypeOK
  <2>5. tracker' \in [Agents -> [Items -> Tracker]]
    <3>1. [i \in Items |-> [ws |-> up, data |-> FALSE, late |-> TRUE]] \in [Items -> Tracker]
      BY DEF Tracker
    <3>2. tracker \in [Agents -> [Items -> Tracker]]
      BY DEF TypeOK, Tracker
    <3> QED BY <2>1, <3>1, <3>2
  <2>6. counted' \subseteq Agents \X Items
    BY <2>1 DEF TypeOK
  <2>7. UNCHANGED <<outside, life, seen, dead>>
    BY <1>14 DEF Add
  <2> QED BY <1>0, <2>2, <2>3, <2>4, <2>5, <2>6, <2>7 DEF TypeOK, Where, Tracker
<1>15. ASSUME NEW k \in Keys, NEW i \in Items, WebsocketUpdate(k, i) PROVE TypeOK'
  <2>0. pairs[k] \in Agents
    BY <1>15 DEF WebsocketUpdate, TypeOK
  <2>1. tracker' \in [Agents -> [Items -> Tracker]]
    <3>1. UNCHANGED tracker \/ Update(pairs[k], i, TRUE)
      BY <1>15, Zenon DEF WebsocketUpdate
    <3> QED BY <2>0, <3>1, UpdateTyped DEF TypeOK, Tracker
  <2>2. pc' \in [Procs -> Where]
    <3>1. CASE Locked(pairs[k], i)
      <4>1. pc' = [pc EXCEPT !["ws"] = "sync"]
        BY <1>15, <3>1, Zenon DEF WebsocketUpdate
      <4> QED BY <4>1 DEF TypeOK, Where
    <3>2. CASE ~Locked(pairs[k], i)
      BY <1>15, <3>2 DEF WebsocketUpdate, TypeOK, Where
    <3> QED BY <3>1, <3>2
  <2>3. at' \in [Procs -> Agents \cup Keys \cup {None}] /\ left' \in [Procs -> SUBSET Items]
    <3>1. CASE Locked(pairs[k], i)
      <4>1. at' = [at EXCEPT !["ws"] = pairs[k]] /\ left' = [left EXCEPT !["ws"] = {i}]
        BY <1>15, <3>1, Zenon DEF WebsocketUpdate
      <4> QED BY <2>0, <4>1 DEF TypeOK
    <3>2. CASE ~Locked(pairs[k], i)
      BY <1>15, <3>2 DEF WebsocketUpdate, TypeOK
    <3> QED BY <3>1, <3>2
  <2>4. UNCHANGED <<outside, life, pairs, young, counted, pass, seen, dead>>
    BY <1>15 DEF WebsocketUpdate
  <2> QED BY <1>0, <2>1, <2>2, <2>3, <2>4 DEF TypeOK, Where, Tracker
<1>16. ASSUME NEW i \in Items, WebsocketUpdated(i) PROVE TypeOK'
  <2>0. at["ws"] \in Agents
    BY <1>16 DEF WebsocketUpdated, Placed
  <2>1. tracker' \in [Agents -> [Items -> Tracker]]
    BY <1>16, <2>0, UpdateTyped DEF WebsocketUpdated
  <2>2. pc' \in [Procs -> Where]
    BY <1>16 DEF WebsocketUpdated, TypeOK, Where
  <2>3. at' \in [Procs -> Agents \cup Keys \cup {None}] /\ left' \in [Procs -> SUBSET Items]
    BY <1>16, <2>0 DEF WebsocketUpdated, TypeOK
  <2>4. UNCHANGED <<outside, life, pairs, young, counted, pass, seen, dead>>
    BY <1>16 DEF WebsocketUpdated
  <2> QED BY <1>0, <2>1, <2>2, <2>3, <2>4 DEF TypeOK, Where, Tracker
<1>17. ASSUME NEW w \in Workers, WorkerTick(w) PROVE TypeOK'
  BY <1>0, <1>17 DEF WorkerTick, TypeOK
<1>18. ASSUME NEW w \in Workers, WorkerExit(w) PROVE TypeOK'
  BY <1>0, <1>18 DEF WorkerExit, TypeOK
<1>19. ASSUME NEW w \in Workers, WorkerPassed(w) PROVE TypeOK'
  BY <1>0, <1>19 DEF WorkerPassed, TypeOK
<1>20. ASSUME NEW w \in Workers, NEW i \in Items, Busy(w, i) PROVE TypeOK'
  BY <1>0, <1>20 DEF Busy, Onward, TypeOK
<1>21. ASSUME NEW w \in Workers, NEW i \in Items, Fresh(w, i) PROVE TypeOK'
  BY <1>0, <1>21 DEF Fresh, Onward, TypeOK
<1>22. ASSUME NEW w \in Workers, NEW i \in Items, Fetch(w, i) PROVE TypeOK'
  <2>0. at[w] \in Agents
    BY <1>22 DEF Fetch, Placed
  <2>1. tracker' \in [Agents -> [Items -> Tracker]]
    <3>1. CASE i = "trade"
      <4>1. tracker[at[w]][i].ws \in BOOLEAN
        BY <2>0 DEF TypeOK
      <4> QED BY <1>22, <2>0, <3>1, <4>1, UpdateTyped DEF Fetch
    <3>2. CASE i # "trade"
      <4>1. tracker \in [Agents -> [Items -> Tracker]] /\ tracker[at[w]][i] \in Tracker
        BY <2>0 DEF TypeOK, Tracker
      <4>2. [tracker[at[w]][i] EXCEPT !.ws = FALSE] \in Tracker
        BY <4>1 DEF Tracker
      <4>3. tracker' = [tracker EXCEPT ![at[w]][i].ws = FALSE]
        BY <1>22, <3>2, Zenon DEF Fetch
      <4> QED BY <2>0, <4>1, <4>2, <4>3
    <3> QED BY <3>1, <3>2
  <2>2. pc' \in [Procs -> Where]
    BY <1>22 DEF Fetch, Onward, TypeOK, Where
  <2>3. at' \in [Procs -> Agents \cup Keys \cup {None}] /\ left' \in [Procs -> SUBSET Items]
    <3>1. CASE i = "trade"
      <4>1. /\ at' = [at EXCEPT ![w] = IF left[w] = {i} THEN None ELSE @]
            /\ left' = [left EXCEPT ![w] = @ \ {i}]
        BY <1>22, <3>1, Zenon DEF Fetch, Onward
      <4> QED BY <2>0, <4>1 DEF TypeOK
    <3>2. CASE i # "trade"
      BY <1>22, <2>0, <3>2 DEF Fetch, TypeOK
    <3> QED BY <3>1, <3>2
  <2>4. UNCHANGED <<outside, life, pairs, young, counted, pass, seen, dead>>
    BY <1>22 DEF Fetch
  <2> QED BY <1>0, <2>1, <2>2, <2>3, <2>4 DEF TypeOK, Where, Tracker
<1>23. ASSUME NEW w \in Workers, NEW i \in Items, Fetched(w, i) PROVE TypeOK'
  <2>0. at[w] \in Agents
    BY <1>23 DEF Fetched, Placed
  <2>1. tracker' \in [Agents -> [Items -> Tracker]]
    BY <1>23, <2>0, UpdateTyped DEF Fetched
  <2>2. pc' \in [Procs -> Where]
    BY <1>23 DEF Fetched, Onward, TypeOK, Where
  <2>3. at' \in [Procs -> Agents \cup Keys \cup {None}] /\ left' \in [Procs -> SUBSET Items]
    BY <1>23 DEF Fetched, Onward, TypeOK
  <2>4. UNCHANGED <<outside, life, pairs, young, counted, pass, seen, dead>>
    BY <1>23 DEF Fetched
  <2> QED BY <1>0, <2>1, <2>2, <2>3, <2>4 DEF TypeOK, Where, Tracker
<1>24. CASE UNCHANGED vars
  BY <1>0, <1>24 DEF vars, TypeOK
<1> QED
  BY <1>1, <1>2, <1>3, <1>4, <1>5, <1>6, <1>7, <1>8, <1>9, <1>10, <1>11, <1>12,
     <1>13, <1>14, <1>15, <1>16, <1>17, <1>18, <1>19, <1>20, <1>21, <1>22, <1>23, <1>24
     DEF Next, Locate, Work, Wait

LEMMA InitInv == Init => IInv
<1> SUFFICES ASSUME Init PROVE IInv
  OBVIOUS
<1>1. TypeOK
  <2>1. /\ enabled \subseteq Keys /\ connected \in BOOLEAN /\ started \in BOOLEAN
        /\ completed \in BOOLEAN /\ closed \in BOOLEAN /\ dead \in BOOLEAN
    BY Zenon DEF Init
  <2>6. gen \in 0..MaxStarts /\ wg \in Nat
    BY ConstantsAssumption DEF Init
  <2>2. tracker \in [Agents -> [Items -> Tracker]]
    <3>1. NewTracker(FALSE) \in Tracker
      BY DEF NewTracker, Tracker
    <3> QED BY <3>1 DEF Init
  <2>3. young \in [Agents -> BOOLEAN] /\ pairs \in [Keys -> Agents \cup {None}]
    BY DEF Init
  <2>4. /\ waiter \in [1..MaxStarts -> {"none", "wait", "woken", "past", "stop", "done"}]
        /\ pc \in [Procs -> Where] /\ pass \in [Procs -> SUBSET Keys]
        /\ at \in [Procs -> Agents \cup Keys \cup {None}] /\ left \in [Procs -> SUBSET Items]
    BY DEF Init, Where
  <2>5. seen \in [Workers -> 0..MaxStarts] /\ counted \subseteq Agents \X Items
    BY ConstantsAssumption DEF Init
  <2> QED BY <2>1, <2>2, <2>3, <2>4, <2>5, <2>6 DEF TypeOK, Where, Tracker
<1>2. Placed /\ Tally
  BY Names DEF Init, Placed, Tally, Referred
<1>3. Covered
  <2>1. Owed = {} /\ Share = 0 /\ wg = 0
    BY Names DEF Init, Owed, Share
  <2> QED BY <2>1, FS_EmptySet DEF Covered, WgCounts, Share
<1> QED BY <1>1, <1>2, <1>3 DEF IInv

LEMMA Invariant == Spec => []IInv
<1>1. Init => IInv
  BY InitInv
<1>2. IInv /\ [Next]_vars => IInv'
  BY TypeStep, PlacedStep, TallyStep, CoveredStep DEF IInv
<1> QED BY <1>1, <1>2, PTL DEF Spec

\* Every variable keeps its type, for any pairs, agents and workers: in particular initSyncWG
\* never goes below zero, whatever races to update a tracker or to replace an agent.
THEOREM TypeCorrect == Spec => []TypeOK
<1>1. IInv => TypeOK
  BY DEF IInv
<1> QED BY <1>1, Invariant, PTL

\* Until the initial sync is complete, initSyncWG is the number of trackers that were counted
\* and have had no data, agents that add has replaced included, and of Starts under way.
THEOREM WgCountsAlways == Spec => []WgCounts
<1>1. IInv => WgCounts
  BY DEF IInv, Covered
<1> QED BY <1>1, Invariant, PTL
=============================================================================
