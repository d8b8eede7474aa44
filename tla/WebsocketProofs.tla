-------------------------- MODULE WebsocketProofs --------------------------
(***************************************************************************)
(* Proofs about Websocket, for any callers, slots, connections and any     *)
(* number of monitors left behind.                                         *)
(*   TypeCorrect        types                                              *)
(*   WatchedAlways      a connected websocket has its connection monitor   *)
(*   FaultsKnownAlways  no lost connection goes unreported                 *)
(*   ImplementsLink     the websocket is a Link                            *)
(***************************************************************************)
EXTENDS Websocket, TLAPS

USE ConstantsAssumption

Holding == {"closing", "cycling", "dialling", "subscribing"}

-----------------------------------------------------------------------------
(***************************************************************************)
(* Who holds the lock, and what the link is meanwhile.                     *)
(***************************************************************************)
LockInv ==
  /\ \A p \in Procs : pc[p] \in Holding => lock = p
  /\ \A p \in Procs : pc[p] \in {"closing", "cycling"} <=> (stop /\ lock = p)
  /\ \A p \in Procs : pc[p] = "dialling" <=> (state = "connecting" /\ lock = p)
  /\ stop => state = "disconnected" /\ lock # None
  /\ state = "connecting" => lock # None

\* The bound on monitors holds since a link that is down is below it.
CountInv ==
  /\ ~stop => traffic <= data
  /\ (state = "disconnected" /\ ~stop) => data < MaxMonitors

TypeInv == TypeOK /\ LockInv /\ CountInv

LEMMA TypeInit == Init => TypeInv
<1> SUFFICES ASSUME Init PROVE TypeInv OBVIOUS
<1>1. multi \in BOOLEAN /\ enabled \in BOOLEAN /\ errs \in BOOLEAN /\ alert \in BOOLEAN
  BY Zenon DEF Init
<1>2. stop \in BOOLEAN /\ running \in BOOLEAN /\ missed \in BOOLEAN /\ ignored \in BOOLEAN
  BY Zenon DEF Init
<1>3. astray \in BOOLEAN /\ dead \in BOOLEAN BY Zenon DEF Init
<1>4. wanted \subseteq Slots BY DEF Init
<1>5. TypeOK BY <1>1, <1>2, <1>3, <1>4 DEF Init, TypeOK
<1>6. LockInv BY DEF Init, LockInv, Holding
<1>7. CountInv BY DEF Init, CountInv
<1> QED BY <1>5, <1>6, <1>7 DEF TypeInv

LEMMA TypeLocked == ASSUME TypeInv, NEW p \in Procs, Locked(p) PROVE TypeInv'
<1> USE DEF TypeInv, fixed, calls, flushes, links, signals, watches, repairs, At
<1>1. CASE ShutdownRefused(p)
  <2>1. TypeOK' BY <1>1 DEF ShutdownRefused, TypeOK
  <2>2. LockInv' BY <1>1 DEF ShutdownRefused, TypeOK, LockInv, Holding
  <2>3. CountInv' BY <1>1 DEF ShutdownRefused, CountInv
  <2> QED BY <2>1, <2>2, <2>3
<1>2. CASE ShutdownBegin(p)
  <2>1. TypeOK' BY <1>2 DEF ShutdownBegin, CloseAll, TypeOK
  <2>2. LockInv' BY <1>2 DEF ShutdownBegin, CloseAll, TypeOK, LockInv, Holding
  <2>3. CountInv' BY <1>2 DEF ShutdownBegin, CountInv
  <2> QED BY <2>1, <2>2, <2>3
<1>3. CASE ShutdownEnd(p)
  <2>a. stop' \in BOOLEAN /\ errs' \in BOOLEAN BY <1>3, Zenon DEF ShutdownEnd
  <2>b. lock' \in Procs \cup {None} /\ pc' \in [Procs -> {"idle", "shutdown", "cycle",
          "closing", "cycling", "connect", "dialling", "subscribing", "flush", "flushDial",
          "flushSubs"}]
    BY <1>3 DEF ShutdownEnd, TypeOK
  <2>1. TypeOK' BY <1>3, <2>a, <2>b DEF ShutdownEnd, TypeOK
  <2>2. LockInv' BY <1>3 DEF ShutdownEnd, TypeOK, LockInv, Holding
  <2>3. CountInv' BY <1>3 DEF ShutdownEnd, CountInv, TypeOK
  <2> QED BY <2>1, <2>2, <2>3
<1>4. CASE ConnectRefused(p)
  <2>1. TypeOK' BY <1>4 DEF ConnectRefused, TypeOK
  <2>2. LockInv' BY <1>4 DEF ConnectRefused, TypeOK, LockInv, Holding
  <2>3. CountInv' BY <1>4 DEF ConnectRefused, CountInv
  <2> QED BY <2>1, <2>2, <2>3
<1>5. CASE ConnectBegin(p)
  <2>0. ~stop BY <1>5 DEF ConnectBegin, LockInv
  <2>1. TypeOK' BY <1>5, <2>0 DEF ConnectBegin, TypeOK, CountInv
  <2>2. LockInv' BY <1>5, <2>0 DEF ConnectBegin, TypeOK, LockInv, Holding
  <2>3. CountInv' BY <1>5, <2>0 DEF ConnectBegin, CountInv, TypeOK
  <2> QED BY <2>1, <2>2, <2>3
<1>6. CASE DialFails(p)
  <2>a. errs' \in BOOLEAN BY <1>6, Zenon DEF DialFails, TypeOK
  <2>b. /\ slot' \in [Slots -> Conns \cup {None}] /\ up' \subseteq Conns
        /\ net' \subseteq Conns /\ reader' = reader
    BY <1>6 DEF DialFails, CloseAll, TypeOK
  <2>1. TypeOK' BY <1>6, <2>a, <2>b DEF DialFails, TypeOK
  <2>2. LockInv' BY <1>6 DEF DialFails, TypeOK, LockInv, Holding
  <2>3. CountInv' BY <1>6 DEF DialFails, CountInv
  <2> QED BY <2>1, <2>2, <2>3
<1>7. CASE Connected(p)
  <2>a. running' \in BOOLEAN /\ missed' \in BOOLEAN
    <3>1. CASE running BY <1>7, <3>1, Zenon DEF Connected, TypeOK
    <3>2. CASE ~running BY <1>7, <3>2, Zenon DEF Connected, TypeOK
    <3> QED BY <3>1, <3>2
  <2>b. lock' \in Procs \cup {None} /\ pc' \in [Procs -> {"idle", "shutdown", "cycle",
          "closing", "cycling", "connect", "dialling", "subscribing", "flush", "flushDial",
          "flushSubs"}]
    BY <1>7 DEF Connected, TypeOK
  <2>c. mon' \in {"none", "select", "fault", "off"} /\ state' = "connected"
    BY <1>7 DEF Connected, TypeOK
  <2>d. UNCHANGED <<fixed, enabled, todo, flushes, links, signals, watches, ignored>>
    BY <1>7 DEF Connected
  <2>1. TypeOK' BY <2>a, <2>b, <2>c, <2>d DEF TypeOK
  <2>2. LockInv' BY <1>7 DEF Connected, TypeOK, LockInv, Holding
  <2>3. CountInv' BY <1>7 DEF Connected, CountInv
  <2> QED BY <2>1, <2>2, <2>3
<1>8. CASE Subscribed(p)
  <2>1. TypeOK' BY <1>8 DEF Subscribed, TypeOK
  <2>2. LockInv' BY <1>8 DEF Subscribed, TypeOK, LockInv, Holding
  <2>3. CountInv' BY <1>8 DEF Subscribed, CountInv
  <2> QED BY <2>1, <2>2, <2>3
<1>9. ASSUME NEW x \in Slots, NEW c \in Conns, Dial(p, x, c) PROVE TypeInv'
  <2>1. TypeOK' BY <1>9 DEF Dial, DialInto, TypeOK
  <2>2. LockInv' BY <1>9 DEF Dial, LockInv
  <2>3. CountInv' BY <1>9 DEF Dial, CountInv
  <2> QED BY <2>1, <2>2, <2>3
<1> QED BY <1>1, <1>2, <1>3, <1>4, <1>5, <1>6, <1>7, <1>8, <1>9 DEF Locked

LEMMA TypeMonitor == ASSUME TypeInv, Monitor PROVE TypeInv'
<1> USE DEF TypeInv, fixed, calls, flushes, links, signals, watches, repairs, At
<1>0. "monitor" \in Procs BY DEF Procs
<1>1. CASE MonitorError
  <2>a. errs' \in BOOLEAN /\ ignored' \in BOOLEAN BY <1>1, Zenon DEF MonitorError
  <2>1. TypeOK' BY <1>0, <1>1, <2>a DEF MonitorError, TypeOK
  <2>2. LockInv' BY <1>0, <1>1 DEF MonitorError, Selecting, TypeOK, LockInv, Holding
  <2>3. CountInv' BY <1>1 DEF MonitorError, CountInv
  <2> QED BY <2>1, <2>2, <2>3
<1>2. CASE MonitorRetry
  <2>1. TypeOK' BY <1>0, <1>2 DEF MonitorRetry, TypeOK
  <2>2. LockInv' BY <1>0, <1>2 DEF MonitorRetry, TypeOK, LockInv, Holding
  <2>3. CountInv' BY <1>2 DEF MonitorRetry, CountInv
  <2> QED BY <2>1, <2>2, <2>3
<1>3. CASE MonitorTick
  <2>1. TypeOK' BY <1>0, <1>3 DEF MonitorTick, TypeOK
  <2>2. LockInv' BY <1>0, <1>3 DEF MonitorTick, Selecting, TypeOK, LockInv, Holding
  <2>3. CountInv' BY <1>3 DEF MonitorTick, CountInv
  <2> QED BY <2>1, <2>2, <2>3
<1>4. CASE MonitorOff
  <2>1. TypeOK' BY <1>0, <1>4 DEF MonitorOff, TypeOK
  <2>2. LockInv' BY <1>0, <1>4 DEF MonitorOff, Selecting, TypeOK, LockInv, Holding
  <2>3. CountInv' BY <1>4 DEF MonitorOff, CountInv
  <2> QED BY <2>1, <2>2, <2>3
<1>5. CASE MonitorExit
  <2>a. running' \in BOOLEAN BY <1>5, Zenon DEF MonitorExit
  <2>1. TypeOK' BY <1>5, <2>a DEF MonitorExit, TypeOK
  <2>2. LockInv' BY <1>5 DEF MonitorExit, LockInv
  <2>3. CountInv' BY <1>5 DEF MonitorExit, CountInv
  <2> QED BY <2>1, <2>2, <2>3
<1> QED BY <1>1, <1>2, <1>3, <1>4, <1>5 DEF Monitor

LEMMA TypeWatches ==
  ASSUME TypeInv, DataExit \/ TrafficExit \/ TrafficSeen PROVE TypeInv'
<1> USE DEF TypeInv, fixed, calls, flushes, links, signals, watches, repairs
<1>1. CASE DataExit BY <1>1 DEF DataExit, TypeOK, LockInv, CountInv
<1>2. CASE TrafficExit BY <1>2 DEF TrafficExit, TypeOK, LockInv, CountInv
<1>3. CASE TrafficSeen
  <2>1. alert' \in BOOLEAN BY <1>3, Zenon DEF TrafficSeen
  <2> QED BY <1>3, <2>1 DEF TrafficSeen, TypeOK, LockInv, CountInv
<1> QED BY <1>1, <1>2, <1>3

LEMMA TypeTimeout == ASSUME TypeInv, NEW l \in Late, TrafficTimeout(l) PROVE TypeInv'
<1> USE DEF TypeInv, fixed, calls, flushes, links, signals, watches, repairs, At
<1>0. l \in Procs BY DEF Procs
<1>1. TypeOK' BY <1>0 DEF TrafficTimeout, TypeOK
<1>2. LockInv' BY <1>0 DEF TrafficTimeout, TypeOK, LockInv, Holding
<1>3. CountInv' BY DEF TrafficTimeout, CountInv, TypeOK
<1> QED BY <1>1, <1>2, <1>3

LEMMA TypeStreams == ASSUME TypeInv, NEW c \in Conns, Streams(c) PROVE TypeInv'
<1> USE DEF TypeInv, fixed, calls, flushes, links, signals, watches, repairs
<1>1. CASE ConnFault(c) BY <1>1 DEF ConnFault, TypeOK, LockInv, CountInv
<1>2. CASE Message(c) BY <1>2 DEF Message, TypeOK, LockInv, CountInv
<1>3. CASE ReadFails(c) BY <1>3 DEF ReadFails, TypeOK, LockInv, CountInv
<1>4. CASE ReadReport(c) BY <1>4 DEF ReadReport, TypeOK, LockInv, CountInv
<1> QED BY <1>1, <1>2, <1>3, <1>4 DEF Streams

LEMMA TypeOutside == ASSUME TypeInv, NEW p \in Callers, Outside(p) PROVE TypeInv'
<1> USE DEF TypeInv, fixed, calls, flushes, links, signals, watches, repairs, At
<1>0. p \in Procs BY DEF Procs
<1>1. ASSUME NEW l \in {"connect", "shutdown", "cycle", "idle"}, Call(p, l),
             enabled' \in BOOLEAN, wanted' \subseteq Slots
      PROVE TypeInv'
  <2>1. TypeOK' BY <1>0, <1>1 DEF Call, TypeOK
  <2>2. LockInv' BY <1>0, <1>1 DEF Call, TypeOK, LockInv, Holding
  <2>3. CountInv' BY <1>1 DEF Call, CountInv
  <2> QED BY <2>1, <2>2, <2>3
<1>2. CASE FlushChannels(p)
  <2>1. TypeOK' BY <1>0, <1>2 DEF FlushChannels, TypeOK
  <2>2. LockInv' BY <1>0, <1>2 DEF FlushChannels, TypeOK, LockInv, Holding
  <2>3. CountInv' BY <1>2 DEF FlushChannels, CountInv
  <2> QED BY <2>1, <2>2, <2>3
<1>3. enabled \in BOOLEAN /\ wanted \subseteq Slots BY DEF TypeOK
<1>4. CASE Enable(p) \/ Disable(p)
  <2>1. enabled' \in BOOLEAN /\ wanted' = wanted BY <1>4, Zenon DEF Enable, Disable
  <2> QED BY <1>1, <1>3, <1>4, <2>1 DEF Enable, Disable
<1>5. CASE Connect(p) \/ Shutdown(p) \/ SetWebsocketURL(p) \/ SetProxyAddress(p)
  BY <1>1, <1>3, <1>5 DEF Connect, Shutdown, SetWebsocketURL, SetProxyAddress
<1>6. CASE FlushAll(p)
  <2>1. wanted' \subseteq Slots BY <1>3, <1>6 DEF FlushAll
  <2> QED BY <1>1, <1>3, <1>6, <2>1 DEF FlushAll
<1> QED BY <1>2, <1>4, <1>5, <1>6 DEF Outside

LEMMA TypeFlush == ASSUME TypeInv, NEW p \in Callers, Flush(p) PROVE TypeInv'
<1> USE DEF TypeInv, fixed, calls, flushes, links, signals, watches, repairs, At
<1>0. p \in Procs BY DEF Procs
<1>1. ASSUME NEW x \in Slots, FlushSlot(p, x) PROVE TypeInv'
  <2>1. TypeOK' BY <1>0, <1>1 DEF FlushSlot, TypeOK
  <2>2. LockInv' BY <1>0, <1>1 DEF FlushSlot, TypeOK, LockInv, Holding
  <2>3. CountInv' BY <1>1 DEF FlushSlot, CountInv
  <2> QED BY <2>1, <2>2, <2>3
<1>2. ASSUME NEW c \in Conns, FlushDial(p, c) PROVE TypeInv'
  <2>a. astray' \in BOOLEAN /\ alert' \in BOOLEAN BY <1>2, Zenon DEF FlushDial, DialInto
  <2>b. /\ slot' \in [Slots -> Conns \cup {None}] /\ up' \subseteq Conns
        /\ net' \subseteq Conns /\ reader' \in [Conns -> {"none", "read", "report"}]
    BY <1>2 DEF FlushDial, DialInto, TypeOK
  <2>1. TypeOK' BY <1>0, <1>2, <2>a, <2>b DEF FlushDial, DialInto, TypeOK
  <2>2. LockInv' BY <1>0, <1>2 DEF FlushDial, TypeOK, LockInv, Holding
  <2>3. CountInv' BY <1>2 DEF FlushDial, CountInv
  <2> QED BY <2>1, <2>2, <2>3
<1>3. CASE FlushClose(p)
  <2>b. /\ slot' \in [Slots -> Conns \cup {None}] /\ up' \subseteq Conns
        /\ net' \subseteq Conns
    BY <1>3 DEF FlushClose, TypeOK
  <2>1. TypeOK' BY <1>0, <1>3, <2>b DEF FlushClose, TypeOK
  <2>2. LockInv' BY <1>0, <1>3 DEF FlushClose, TypeOK, LockInv, Holding
  <2>3. CountInv' BY <1>3 DEF FlushClose, CountInv
  <2> QED BY <2>1, <2>2, <2>3
<1>4. CASE FlushPanics(p) BY <1>4 DEF FlushPanics, TypeOK, LockInv, CountInv
<1>5. CASE FlushSubscribed(p)
  <2>1. TypeOK' BY <1>0, <1>5 DEF FlushSubscribed, TypeOK
  <2>2. LockInv' BY <1>0, <1>5 DEF FlushSubscribed, TypeOK, LockInv, Holding
  <2>3. CountInv' BY <1>5 DEF FlushSubscribed, CountInv
  <2> QED BY <2>1, <2>2, <2>3
<1>6. CASE FlushReturns(p)
  <2>1. TypeOK' BY <1>0, <1>6 DEF FlushReturns, TypeOK
  <2>2. LockInv' BY <1>0, <1>6 DEF FlushReturns, TypeOK, LockInv, Holding
  <2>3. CountInv' BY <1>6 DEF FlushReturns, CountInv
  <2> QED BY <2>1, <2>2, <2>3
<1> QED BY <1>1, <1>2, <1>3, <1>4, <1>5, <1>6 DEF Flush

LEMMA TypeStep == TypeInv /\ [Next]_vars => TypeInv'
<1> SUFFICES ASSUME TypeInv, [Next]_vars PROVE TypeInv' OBVIOUS
<1>1. CASE Next
  BY <1>1, TypeLocked, TypeMonitor, TypeWatches, TypeTimeout, TypeStreams, TypeOutside,
     TypeFlush DEF Next
<1>2. CASE UNCHANGED vars BY <1>2 DEF vars, TypeInv, TypeOK, LockInv, CountInv
<1> QED BY <1>1, <1>2

LEMMA TypeInvariant == Spec => []TypeInv
BY TypeInit, TypeStep, PTL DEF Spec

\* Every variable keeps its type; the wait group is never done too often, and the
\* monitors of failed attempts stay below their bound.
THEOREM TypeCorrect == Spec => []TypeOK
BY TypeInvariant, PTL DEF TypeInv

-----------------------------------------------------------------------------
(***************************************************************************)
(* The connection monitor: connectionMonitorRunning says whether there is  *)
(* one, and one about to leave has shut down, or the connect since then    *)
(* has noticed it.                                                         *)
(***************************************************************************)
WatchInv ==
  /\ Watched
  /\ running <=> mon # "none"
  /\ mon = "off" =>
       \/ pc["monitor"] = "idle" /\ (state = "connected" => missed)
       \/ pc["monitor"] \in {"shutdown", "closing"}

LEMMA WatchKept ==
  ASSUME WatchInv, UNCHANGED <<state, mon, missed, running>>, pc'["monitor"] = pc["monitor"]
  PROVE WatchInv'
BY DEF WatchInv, Watched

\* The calling goroutines are not the connection monitor.
LEMMA NotMonitor ==
  ASSUME TypeInv, NEW p \in Callers \cup Late, NEW l, pc' = [pc EXCEPT ![p] = l]
  PROVE pc'["monitor"] = pc["monitor"]
BY DEF TypeInv, TypeOK, Procs

LEMMA WatchInit == Init => WatchInv
BY DEF Init, WatchInv, Watched

LEMMA WatchLocked == ASSUME TypeInv, WatchInv, NEW p \in Procs, Locked(p) PROVE WatchInv'
<1> USE DEF fixed, calls, flushes, links, signals, watches, repairs, At
<1>0. "monitor" \in Procs /\ pc \in [Procs -> {"idle", "shutdown", "cycle", "closing",
        "cycling", "connect", "dialling", "subscribing", "flush", "flushDial", "flushSubs"}]
  BY DEF TypeInv, TypeOK, Procs
<1>1. CASE ShutdownRefused(p) BY <1>0, <1>1 DEF ShutdownRefused, WatchInv, Watched
<1>2. CASE ShutdownBegin(p) BY <1>0, <1>2 DEF ShutdownBegin, WatchInv, Watched
<1>3. CASE ShutdownEnd(p)
  <2>1. state = "disconnected" BY <1>3 DEF ShutdownEnd, TypeInv, LockInv
  <2> QED BY <1>0, <1>3, <2>1 DEF ShutdownEnd, WatchInv, Watched
<1>4. CASE ConnectRefused(p) BY <1>0, <1>4 DEF ConnectRefused, WatchInv, Watched
<1>5. CASE ConnectBegin(p) BY <1>0, <1>5 DEF ConnectBegin, WatchInv, Watched
<1>6. CASE DialFails(p) BY <1>0, <1>6 DEF DialFails, WatchInv, Watched
<1>7. CASE Connected(p)
  <2>1. missed \in BOOLEAN BY DEF TypeInv, TypeOK
  <2>2. CASE running
    <3>1. mon = "off" => missed' BY <1>7, <2>2, Zenon DEF Connected
    <3>2. UNCHANGED <<running, mon>> /\ state' = "connected" BY <1>7, <2>2 DEF Connected
    <3>3. mon' = "off" => pc'["monitor"] = pc["monitor"]
      BY <1>0, <1>7, <3>2 DEF Connected, WatchInv
    <3> QED BY <2>2, <3>1, <3>2, <3>3 DEF WatchInv, Watched
  <2>3. CASE ~running BY <1>7, <2>3 DEF Connected, WatchInv, Watched
  <2> QED BY <2>2, <2>3
<1>8. CASE Subscribed(p) BY <1>0, <1>8 DEF Subscribed, WatchInv, Watched
<1>9. ASSUME NEW x \in Slots, NEW c \in Conns, Dial(p, x, c) PROVE WatchInv'
  BY <1>9, WatchKept DEF Dial
<1> QED BY <1>1, <1>2, <1>3, <1>4, <1>5, <1>6, <1>7, <1>8, <1>9 DEF Locked

LEMMA WatchMonitor == ASSUME TypeInv, WatchInv, Monitor PROVE WatchInv'
<1> USE DEF fixed, calls, flushes, links, signals, watches, repairs, At
<1>0. "monitor" \in Procs /\ pc \in [Procs -> {"idle", "shutdown", "cycle", "closing",
        "cycling", "connect", "dialling", "subscribing", "flush", "flushDial", "flushSubs"}]
  BY DEF TypeInv, TypeOK, Procs
<1>1. CASE MonitorError
  BY <1>0, <1>1 DEF MonitorError, Selecting, WatchInv, Watched
<1>2. CASE MonitorRetry BY <1>0, <1>2 DEF MonitorRetry, WatchInv, Watched
<1>3. CASE MonitorTick BY <1>0, <1>3 DEF MonitorTick, Selecting, WatchInv, Watched
<1>4. CASE MonitorOff BY <1>0, <1>4 DEF MonitorOff, Selecting, WatchInv, Watched
<1>5. CASE MonitorExit BY <1>0, <1>5 DEF MonitorExit, WatchInv, Watched
<1> QED BY <1>1, <1>2, <1>3, <1>4, <1>5 DEF Monitor

LEMMA WatchRest ==
  ASSUME TypeInv, WatchInv,
         \/ DataExit \/ TrafficExit \/ TrafficSeen
         \/ \E l \in Late : TrafficTimeout(l)
         \/ \E c \in Conns : Streams(c)
         \/ \E p \in Callers : Outside(p) \/ Flush(p)
  PROVE WatchInv'
<1> USE DEF fixed, calls, flushes, links, signals, watches, repairs, At
<1>1. CASE DataExit \/ TrafficExit \/ TrafficSeen
  BY <1>1, WatchKept DEF DataExit, TrafficExit, TrafficSeen
<1>2. ASSUME NEW l \in Late, TrafficTimeout(l) PROVE WatchInv'
  BY <1>2, WatchKept, NotMonitor DEF TrafficTimeout
<1>3. ASSUME NEW c \in Conns, Streams(c) PROVE WatchInv'
  BY <1>3, WatchKept DEF Streams, ConnFault, Message, ReadFails, ReadReport
<1>4. ASSUME NEW p \in Callers, Outside(p) PROVE WatchInv'
  <2>1. UNCHANGED <<state, mon, missed, running>> /\ \E l : pc' = [pc EXCEPT ![p] = l]
    BY <1>4 DEF Outside, Call, Connect, Shutdown, SetWebsocketURL, SetProxyAddress, Enable,
         Disable, FlushAll, FlushChannels
  <2> QED BY <2>1, WatchKept, NotMonitor
<1>5. ASSUME NEW p \in Callers, Flush(p) PROVE WatchInv'
  <2>1. UNCHANGED <<state, mon, missed, running>> BY <1>5 DEF Flush, FlushSlot, FlushDial,
          FlushClose, FlushPanics, FlushSubscribed, FlushReturns
  <2>2. UNCHANGED pc \/ \E l : pc' = [pc EXCEPT ![p] = l]
    BY <1>5 DEF Flush, FlushSlot, FlushDial, FlushClose, FlushPanics, FlushSubscribed,
         FlushReturns
  <2> QED BY <2>1, <2>2, WatchKept, NotMonitor
<1> QED BY <1>1, <1>2, <1>3, <1>4, <1>5

LEMMA WatchStep == TypeInv /\ WatchInv /\ [Next]_vars => WatchInv'
<1> SUFFICES ASSUME TypeInv, WatchInv, [Next]_vars PROVE WatchInv' OBVIOUS
<1>1. CASE Next BY <1>1, WatchLocked, WatchMonitor, WatchRest DEF Next
<1>2. CASE UNCHANGED vars BY <1>2, WatchKept DEF vars
<1> QED BY <1>1, <1>2

\* A connected websocket has its connection monitor, whoever connected, disabled and
\* enabled it, except for the connect that found the monitor about to leave.
THEOREM WatchedAlways == Spec => []Watched
<1>1. WatchInv => Watched BY DEF WatchInv
<1> QED BY <1>1, WatchInit, WatchStep, TypeInvariant, PTL DEF Spec

-----------------------------------------------------------------------------
(***************************************************************************)
(* The websocket implements Link.  What a link that is down leaves behind  *)
(* is strays: a shutdown has waited for its readers, and a failed attempt  *)
(* has given them up.                                                      *)
(***************************************************************************)
Reading == {c \in Conns : reader[c] # "none"}

StrayInv == (state = "disconnected" /\ ~stop) => Reading \subseteq stray

LEMMA StrayInit == Init => StrayInv
BY DEF Init, StrayInv, Reading

LEMMA StrayKept ==
  ASSUME StrayInv, UNCHANGED <<state, stop, reader, stray>> PROVE StrayInv'
BY DEF StrayInv, Reading

LEMMA StrayStep == TypeInv /\ StrayInv /\ [Next]_vars => StrayInv'
<1> SUFFICES ASSUME TypeInv, StrayInv, [Next]_vars PROVE StrayInv' OBVIOUS
<1> USE DEF fixed, calls, flushes, links, signals, watches, repairs
<1>1. ASSUME NEW p \in Procs, Locked(p) PROVE StrayInv'
  <2>1. CASE ShutdownRefused(p) \/ ConnectRefused(p) \/ Subscribed(p)
    BY <2>1, StrayKept DEF ShutdownRefused, ConnectRefused, Subscribed
  <2>2. CASE ShutdownBegin(p) BY <2>2 DEF ShutdownBegin, StrayInv
  <2>3. CASE ShutdownEnd(p) BY <2>3 DEF ShutdownEnd, StrayInv, Reading
  <2>4. CASE ConnectBegin(p) BY <2>4 DEF ConnectBegin, StrayInv
  <2>5. CASE DialFails(p)
    <3>1. reader' = reader BY <2>5 DEF DialFails, CloseAll
    <3>2. Reading' = Reading /\ stray' = stray \cup Reading
      BY <2>5, <3>1 DEF DialFails, Reading
    <3> QED BY <3>2 DEF StrayInv
  <2>6. CASE Connected(p) BY <2>6 DEF Connected, StrayInv
  <2>7. ASSUME NEW x \in Slots, NEW c \in Conns, Dial(p, x, c) PROVE StrayInv'
    BY <2>7 DEF Dial, TypeInv, LockInv, StrayInv
  <2> QED BY <1>1, <2>1, <2>2, <2>3, <2>4, <2>5, <2>6, <2>7 DEF Locked
<1>2. ASSUME NEW c \in Conns, Streams(c) PROVE StrayInv'
  <2>1. CASE ConnFault(c) \/ Message(c) BY <2>1, StrayKept DEF ConnFault, Message
  <2>2. CASE ReadFails(c) \/ ReadReport(c)
    <3>1. UNCHANGED <<state, stop>> BY <2>2 DEF ReadFails, ReadReport
    <3>2. \A d \in Conns \ {c} : d \in stray => d \in stray'
      BY <2>2 DEF ReadFails, ReadReport
    <3>3. \A d \in Conns \ {c} : reader'[d] = reader[d]
      BY <2>2 DEF ReadFails, ReadReport, TypeInv, TypeOK
    <3>4. c \in stray => reader'[c] = "none" \/ c \in stray'
      BY <2>2 DEF ReadFails, ReadReport, TypeInv, TypeOK
    <3>5. reader[c] # "none" BY <2>2 DEF ReadFails, ReadReport
    <3> QED BY <3>1, <3>2, <3>3, <3>4, <3>5 DEF StrayInv, Reading
  <2> QED BY <1>2, <2>1, <2>2 DEF Streams
<1>3. ASSUME NEW p \in Callers, NEW c \in Conns, FlushDial(p, c) PROVE StrayInv'
  <2>1. UNCHANGED <<state, stop>> /\ reader' = [reader EXCEPT ![c] = "read"]
    BY <1>3 DEF FlushDial, DialInto
  <2>2. state = "disconnected" => stray' = stray \cup {c} BY <1>3 DEF FlushDial
  <2> QED BY <2>1, <2>2 DEF TypeInv, TypeOK, StrayInv, Reading
<1>4. CASE \E p \in Callers : Flush(p) /\ \A c \in Conns : ~FlushDial(p, c)
  BY <1>4, StrayKept DEF Flush, FlushSlot, FlushClose, FlushPanics, FlushSubscribed,
     FlushReturns
<1>5. CASE \/ Monitor \/ DataExit \/ TrafficExit \/ TrafficSeen
           \/ \E l \in Late : TrafficTimeout(l)
  BY <1>5, StrayKept DEF Monitor, MonitorError, MonitorRetry, MonitorTick, MonitorOff,
     MonitorExit, DataExit, TrafficExit, TrafficSeen, TrafficTimeout
<1>6. CASE \E p \in Callers : Outside(p)
  BY <1>6, StrayKept DEF Outside, Call, Connect, Shutdown, SetWebsocketURL, SetProxyAddress,
     Enable, Disable, FlushAll, FlushChannels
<1>7. CASE UNCHANGED vars BY <1>7, StrayKept DEF vars
<1> QED BY <1>1, <1>2, <1>3, <1>4, <1>5, <1>6, <1>7 DEF Next

LEMMA LinkKept ==
  ASSUME UNCHANGED <<state, stop, reader, stray>> PROVE UNCHANGED L!linkVars
BY DEF phase, L!linkVars

LEMMA LinkLocked ==
  ASSUME TypeInv, StrayInv, NEW p \in Procs, Locked(p) PROVE [L!Next]_(L!linkVars)
<1> USE DEF fixed, calls, flushes, links, signals, watches, repairs, At
<1>1. CASE ShutdownRefused(p) \/ ConnectRefused(p) \/ Subscribed(p)
  BY <1>1, LinkKept DEF ShutdownRefused, ConnectRefused, Subscribed
<1>2. CASE ShutdownBegin(p)
  <2>1. ~stop /\ state = "connected" BY <1>2 DEF ShutdownBegin, TypeInv, LockInv
  <2>2. phase = "up" /\ phase' = "closing" BY <1>2, <2>1 DEF ShutdownBegin, phase
  <2>3. UNCHANGED <<reader, stray>> BY <1>2 DEF ShutdownBegin, CloseAll
  <2> QED BY <2>2, <2>3 DEF L!Next, L!Close
<1>3. CASE ShutdownEnd(p)
  <2>1. stop /\ state = "disconnected" BY <1>3 DEF ShutdownEnd, TypeInv, LockInv
  <2>2. phase = "closing" /\ phase' = "down" BY <1>3, <2>1 DEF ShutdownEnd, phase
  <2>3. UNCHANGED <<reader, stray>> BY <1>3 DEF ShutdownEnd
  <2>4. {c \in Conns : reader[c] # "none"} = {} BY <1>3 DEF ShutdownEnd
  <2> QED BY <2>2, <2>3, <2>4 DEF L!Next, L!Closed
<1>4. CASE ConnectBegin(p)
  <2>1. ~stop /\ state = "disconnected" BY <1>4 DEF ConnectBegin, TypeInv, LockInv
  <2>2. phase = "down" /\ phase' = "opening" BY <1>4, <2>1 DEF ConnectBegin, phase
  <2>3. UNCHANGED <<reader, stray>> BY <1>4 DEF ConnectBegin
  <2>4. {c \in Conns : reader[c] # "none"} \subseteq stray
    BY <2>1 DEF StrayInv, Reading
  <2> QED BY <2>2, <2>3, <2>4 DEF L!Next, L!Open
<1>5. CASE DialFails(p)
  <2>1. ~stop /\ state = "connecting" BY <1>5 DEF DialFails, TypeInv, LockInv
  <2>2. phase = "opening" /\ phase' = "down" BY <1>5, <2>1 DEF DialFails, phase
  <2>3. reader' = reader BY <1>5 DEF DialFails, CloseAll
  <2>4. stray' = stray \cup {c \in Conns : reader[c] # "none"} BY <1>5 DEF DialFails
  <2> QED BY <2>2, <2>3, <2>4 DEF L!Next, L!GiveUp
<1>6. CASE Connected(p)
  <2>1. ~stop /\ state = "connecting" BY <1>6 DEF Connected, TypeInv, LockInv
  <2>2. phase = "opening" /\ phase' = "up" BY <1>6, <2>1 DEF Connected, phase
  <2>3. UNCHANGED <<reader, stray>> BY <1>6 DEF Connected
  <2> QED BY <2>2, <2>3 DEF L!Next, L!Establish
<1>7. ASSUME NEW x \in Slots, NEW c \in Conns, Dial(p, x, c) PROVE L!Next
  <2>1. ~stop /\ state = "connecting" BY <1>7 DEF Dial, TypeInv, LockInv
  <2>2. phase = "opening" /\ UNCHANGED <<phase, stray>> BY <1>7, <2>1 DEF Dial, phase
  <2>3. /\ c \notin {d \in Conns : reader[d] # "none"}
        /\ {d \in Conns : reader[d] # "none"}' = {d \in Conns : reader[d] # "none"} \cup {c}
    BY <1>7 DEF Dial, DialInto, Free, TypeInv, TypeOK
  <2> QED BY <2>2, <2>3 DEF L!Next, L!Read
<1> QED BY <1>1, <1>2, <1>3, <1>4, <1>5, <1>6, <1>7 DEF Locked

LEMMA LinkRest ==
  ASSUME TypeInv,
         \/ Monitor \/ DataExit \/ TrafficExit \/ TrafficSeen
         \/ \E l \in Late : TrafficTimeout(l)
         \/ \E c \in Conns : Streams(c)
         \/ \E p \in Callers : Outside(p) \/ Flush(p)
  PROVE [L!Next]_(L!linkVars)
<1> USE DEF fixed, calls, flushes, links, signals, watches, repairs, At
<1>1. CASE DataExit \/ TrafficExit \/ TrafficSeen \/ \E l \in Late : TrafficTimeout(l)
  BY <1>1, LinkKept DEF DataExit, TrafficExit, TrafficSeen, TrafficTimeout
<1>2. CASE Monitor
  BY <1>2, LinkKept DEF Monitor, MonitorError, MonitorRetry, MonitorTick, MonitorOff,
     MonitorExit
<1>3. ASSUME NEW c \in Conns, Streams(c) PROVE [L!Next]_(L!linkVars)
  <2>1. CASE ConnFault(c) \/ Message(c) BY <2>1, LinkKept DEF ConnFault, Message
  <2>2. CASE reader'[c] = "none" /\ (ReadFails(c) \/ ReadReport(c))
    <3>1. UNCHANGED phase BY <2>2 DEF ReadFails, ReadReport, phase
    <3>2. /\ c \in {d \in Conns : reader[d] # "none"}
          /\ {d \in Conns : reader[d] # "none"}' = {d \in Conns : reader[d] # "none"} \ {c}
      BY <2>2 DEF ReadFails, ReadReport, TypeInv, TypeOK
    <3>3. stray' = stray \ {c} BY <2>2 DEF ReadFails, ReadReport, TypeInv, TypeOK
    <3> QED BY <3>1, <3>2, <3>3 DEF L!Next, L!Drop
  <2>3. CASE reader'[c] # "none" /\ (ReadFails(c) \/ ReadReport(c))
    <3>1. UNCHANGED phase BY <2>3 DEF ReadFails, ReadReport, phase
    <3>2. {d \in Conns : reader[d] # "none"}' = {d \in Conns : reader[d] # "none"}
      BY <2>3 DEF ReadFails, ReadReport, TypeInv, TypeOK
    <3>3. stray' = stray BY <2>3 DEF ReadFails, ReadReport, TypeInv, TypeOK
    <3> QED BY <3>1, <3>2, <3>3 DEF L!linkVars
  <2> QED BY <1>3, <2>1, <2>2, <2>3 DEF Streams
<1>4. ASSUME NEW p \in Callers, Outside(p) PROVE UNCHANGED L!linkVars
  BY <1>4, LinkKept DEF Outside, Call, Connect, Shutdown, SetWebsocketURL, SetProxyAddress,
     Enable, Disable, FlushAll, FlushChannels
<1>5. ASSUME NEW p \in Callers, Flush(p) PROVE [L!Next]_(L!linkVars)
  <2>1. ASSUME NEW c \in Conns, FlushDial(p, c) PROVE L!Next
    <3>1. UNCHANGED phase BY <2>1 DEF FlushDial, phase
    <3>2. /\ c \notin {d \in Conns : reader[d] # "none"}
          /\ {d \in Conns : reader[d] # "none"}' = {d \in Conns : reader[d] # "none"} \cup {c}
      BY <2>1 DEF FlushDial, DialInto, Free, TypeInv, TypeOK
    <3>3. CASE stop \/ state = "disconnected"
      <4>1. phase \in {"closing", "down"} BY <3>3 DEF phase
      <4>2. stray' = stray \cup {c} BY <2>1, <3>3 DEF FlushDial
      <4> QED BY <3>1, <3>2, <4>1, <4>2 DEF L!Next, L!Stray
    <3>4. CASE ~stop /\ state # "disconnected"
      <4>1. phase \in {"opening", "up"} BY <3>4 DEF phase
      <4>2. stray' = stray BY <2>1, <3>4 DEF FlushDial
      <4> QED BY <3>1, <3>2, <4>1, <4>2 DEF L!Next, L!Read
    <3> QED BY <3>3, <3>4
  <2>2. CASE \/ \E x \in Slots : FlushSlot(p, x)
             \/ FlushClose(p) \/ FlushPanics(p) \/ FlushSubscribed(p) \/ FlushReturns(p)
    BY <2>2, LinkKept DEF FlushSlot, FlushClose, FlushPanics, FlushSubscribed, FlushReturns
  <2> QED BY <1>5, <2>1, <2>2 DEF Flush
<1> QED BY <1>1, <1>2, <1>3, <1>4, <1>5

LEMMA LinkInit == Init => L!Init
BY DEF Init, L!Init, phase

LEMMA LinkStep == TypeInv /\ StrayInv /\ [Next]_vars => [L!Next]_(L!linkVars)
<1> SUFFICES ASSUME TypeInv, StrayInv, [Next]_vars PROVE [L!Next]_(L!linkVars) OBVIOUS
<1>1. CASE Next BY <1>1, LinkLocked, LinkRest DEF Next
<1>2. CASE UNCHANGED vars BY <1>2, LinkKept DEF vars
<1> QED BY <1>1, <1>2

\* The websocket implements Link: however calls, monitors and shutdowns interleave, a
\* connect begins only while no connection of the last link is read, a shutdown ends only
\* once none is, and what is read beside a link was left by an attempt that failed or
\* made by a FlushChannels while the websocket was disconnected.
THEOREM ImplementsLink == Spec => Implements
BY LinkInit, LinkStep, StrayInit, StrayStep, TypeInvariant, PTL DEF Spec, Implements, L!Spec

-----------------------------------------------------------------------------
(***************************************************************************)
(* What is in the slots.  A link that is down has none filled, unless a    *)
(* FlushChannels has gone astray; a single connection knows no flush, and  *)
(* while it is dialled its slot is filled only once dialled.               *)
(***************************************************************************)
Flushing == {"flush", "flushDial", "flushSubs"}

SlotInv ==
  /\ \A x, y \in Slots : slot[x] = slot[y] /\ slot[x] # None => x = y
  /\ (state = "disconnected" /\ ~astray) => \A x \in Slots : slot[x] = None
  /\ \A p \in Callers : pc[p] \in {"flushDial", "flushSubs"} => cur[p] \in Slots
  /\ ~multi => /\ ~astray /\ \A p \in Callers : pc[p] \notin Flushing
               /\ \A x, y \in wanted : x = y
               /\ state = "connecting" =>
                    \A x \in Slots : slot[x] # None => x \in wanted /\ x \notin todo

LEMMA SlotKept ==
  ASSUME SlotInv, UNCHANGED <<slot, state, astray, multi, wanted, todo, cur>>,
         \A p \in Callers : pc'[p] \in Flushing => pc'[p] = pc[p]
  PROVE SlotInv'
BY DEF SlotInv, Flushing

LEMMA SlotInit == Init => SlotInv
<1> SUFFICES ASSUME Init PROVE SlotInv OBVIOUS
<1>1. ASSUME ~multi PROVE \A x, y \in wanted : x = y
  <2>1. PICK z \in Slots : wanted = {z} BY <1>1 DEF Init
  <2> QED BY <2>1
<1>2. Callers \subseteq Procs BY DEF Procs
<1> QED BY <1>1, <1>2 DEF Init, SlotInv, Flushing

\* Connect and Shutdown do not make a caller flush.
LEMMA NotFlushing ==
  ASSUME TypeInv, NEW p \in Procs, Locked(p)
  PROVE \A q \in Callers : pc'[q] \in Flushing => pc'[q] = pc[q]
<1>1. Callers \subseteq Procs /\ pc \in [Procs -> {"idle", "shutdown", "cycle", "closing",
        "cycling", "connect", "dialling", "subscribing", "flush", "flushDial", "flushSubs"}]
  BY DEF TypeInv, TypeOK, Procs
<1>2. UNCHANGED pc \/ \E l \in {"idle", "closing", "cycling", "connect", "dialling",
        "subscribing"} : pc' = [pc EXCEPT ![p] = l]
  BY DEF Locked, ShutdownRefused, ShutdownBegin, ShutdownEnd, ConnectRefused, ConnectBegin,
     DialFails, Connected, Subscribed, Dial, At
<1> QED BY <1>1, <1>2 DEF Flushing

LEMMA SlotLocked == ASSUME TypeInv, SlotInv, NEW p \in Procs, Locked(p) PROVE SlotInv'
<1> USE DEF fixed, calls, flushes, links, signals, watches, repairs
<1>0. \A q \in Callers : pc'[q] \in Flushing => pc'[q] = pc[q] BY NotFlushing
<1>1. CASE ShutdownRefused(p) \/ ShutdownEnd(p) \/ ConnectRefused(p) \/ Subscribed(p)
  BY <1>0, <1>1, SlotKept DEF ShutdownRefused, ShutdownEnd, ConnectRefused, Subscribed
<1>2. CASE ShutdownBegin(p)
  <2>1. \A x \in Slots : slot'[x] = None BY <1>2 DEF ShutdownBegin, CloseAll
  <2> QED BY <1>0, <1>2, <2>1 DEF ShutdownBegin, SlotInv, Flushing
<1>3. CASE ConnectBegin(p) BY <1>0, <1>3 DEF ConnectBegin, SlotInv, Flushing
<1>4. CASE DialFails(p)
  <2>0. state = "connecting" BY <1>4 DEF DialFails, TypeInv, LockInv
  <2>1. \A x \in Slots : slot'[x] = None
    <3>1. CASE multi BY <1>4, <3>1 DEF DialFails, CloseAll
    <3>2. CASE ~multi
      <4>1. PICK y \in wanted : y \in todo BY <1>4, <3>2 DEF DialFails
      <4>2. slot' = slot BY <1>4, <3>2 DEF DialFails
      <4> QED BY <2>0, <3>2, <4>1, <4>2 DEF SlotInv
    <3> QED BY <3>1, <3>2
  <2> QED BY <1>0, <1>4, <2>1 DEF DialFails, SlotInv, Flushing
<1>5. CASE Connected(p) BY <1>0, <1>5 DEF Connected, SlotInv, Flushing
<1>6. ASSUME NEW x \in Slots, NEW c \in Conns, Dial(p, x, c) PROVE SlotInv'
  <2>1. slot' = [slot EXCEPT ![x] = c] /\ \A y \in Slots : slot[y] # c
    BY <1>6 DEF Dial, DialInto, Free, Installed
  <2>2. \A y, z \in Slots : slot'[y] = slot'[z] /\ slot'[y] # None => y = z
    BY <2>1 DEF TypeInv, TypeOK, SlotInv
  <2>3. state = "connecting" BY <1>6 DEF Dial, TypeInv, LockInv
  <2>4. ~multi => \A y \in Slots : slot'[y] # None => y \in wanted /\ y \notin todo'
    BY <1>6, <2>1, <2>3 DEF Dial, TypeInv, TypeOK, SlotInv
  <2> QED BY <1>0, <1>6, <2>2, <2>3, <2>4 DEF Dial, SlotInv, Flushing
<1> QED BY <1>1, <1>2, <1>3, <1>4, <1>5, <1>6 DEF Locked

LEMMA SlotFlush == ASSUME TypeInv, SlotInv, NEW p \in Callers, Flush(p) PROVE SlotInv'
<1> USE DEF fixed, calls, flushes, links, signals, watches, repairs, At
<1>0. pc[p] \in Flushing
  BY DEF Flush, FlushSlot, FlushDial, FlushClose, FlushPanics, FlushSubscribed, FlushReturns,
     Flushing
<1>1. multi BY <1>0 DEF SlotInv
<1>a. \A q \in Callers : pc'[q] \in {"flushDial", "flushSubs"} => cur'[q] \in Slots
  <2>1. Callers \subseteq Procs BY DEF Procs
  <2>2. ASSUME NEW x \in Slots, FlushSlot(p, x)
        PROVE \A q \in Callers : pc'[q] \in {"flushDial", "flushSubs"} => cur'[q] \in Slots
    BY <2>1, <2>2 DEF FlushSlot, TypeInv, TypeOK, SlotInv
  <2>3. CASE \E c \in Conns : FlushDial(p, c)
    BY <2>1, <2>3 DEF FlushDial, TypeInv, TypeOK, SlotInv
  <2>4. CASE FlushClose(p) \/ FlushPanics(p) \/ FlushSubscribed(p) \/ FlushReturns(p)
    BY <2>1, <2>4 DEF FlushClose, FlushPanics, FlushSubscribed, FlushReturns, TypeInv, TypeOK,
       SlotInv
  <2> QED BY <2>2, <2>3, <2>4 DEF Flush
<1>2. CASE UNCHANGED <<slot, state, astray, multi>> BY <1>1, <1>2, <1>a DEF SlotInv
<1>3. ASSUME NEW c \in Conns, FlushDial(p, c) PROVE SlotInv'
  <2>1. slot' = [slot EXCEPT ![cur[p]] = c] /\ \A y \in Slots : slot[y] # c
    BY <1>3 DEF FlushDial, DialInto, Free, Installed
  <2>2. \A y, z \in Slots : slot'[y] = slot'[z] /\ slot'[y] # None => y = z
    BY <2>1 DEF TypeInv, TypeOK, SlotInv
  <2> QED BY <1>1, <1>3, <1>a, <2>2 DEF FlushDial, SlotInv
<1>4. CASE FlushClose(p)
  <2>1. slot' = [slot EXCEPT ![cur[p]] = None] BY <1>4 DEF FlushClose
  <2>2. \A y \in Slots : slot'[y] # None => slot'[y] = slot[y]
    BY <2>1 DEF TypeInv, TypeOK
  <2> QED BY <1>1, <1>4, <1>a, <2>2 DEF FlushClose, SlotInv
<1>5. CASE \/ \E x \in Slots : FlushSlot(p, x)
           \/ FlushPanics(p) \/ FlushSubscribed(p) \/ FlushReturns(p)
  BY <1>2, <1>5 DEF FlushSlot, FlushPanics, FlushSubscribed, FlushReturns
<1> QED BY <1>3, <1>4, <1>5 DEF Flush

LEMMA SlotRest ==
  ASSUME TypeInv, SlotInv,
         \/ Monitor \/ DataExit \/ TrafficExit \/ TrafficSeen
         \/ \E l \in Late : TrafficTimeout(l)
         \/ \E c \in Conns : Streams(c)
         \/ \E p \in Callers : Outside(p)
  PROVE SlotInv'
<1> USE DEF fixed, calls, flushes, links, signals, watches, repairs, At
<1>0. Callers \subseteq Procs /\ Late \subseteq Procs /\ "monitor" \in Procs
      /\ pc \in [Procs -> {"idle", "shutdown", "cycle", "closing",
        "cycling", "connect", "dialling", "subscribing", "flush", "flushDial", "flushSubs"}]
  BY DEF TypeInv, TypeOK, Procs
<1>1. CASE DataExit \/ TrafficExit \/ TrafficSeen \/ MonitorExit \/ \E c \in Conns : Streams(c)
  BY <1>1, SlotKept DEF DataExit, TrafficExit, TrafficSeen, MonitorExit, Streams, ConnFault,
     Message, ReadFails, ReadReport
<1>2. ASSUME NEW q \in Procs, NEW l \in {"idle", "shutdown", "connect", "cycle"},
             pc' = [pc EXCEPT ![q] = l],
             UNCHANGED <<slot, state, astray, multi, wanted, todo, cur>>
      PROVE SlotInv'
  <2>1. \A p \in Callers : pc'[p] \in Flushing => pc'[p] = pc[p]
    BY <1>0, <1>2 DEF Flushing
  <2> QED BY <1>2, <2>1, SlotKept
<1>3. CASE MonitorError \/ MonitorRetry \/ MonitorTick \/ MonitorOff
  BY <1>0, <1>2, <1>3 DEF MonitorError, MonitorRetry, MonitorTick, MonitorOff
<1>4. ASSUME NEW l \in Late, TrafficTimeout(l) PROVE SlotInv'
  BY <1>0, <1>2, <1>4 DEF TrafficTimeout
<1>5. ASSUME NEW p \in Callers, FlushChannels(p) PROVE SlotInv'
  <2>1. \A q \in Callers : pc'[q] \in {"flushDial", "flushSubs"} => pc'[q] = pc[q]
    BY <1>0, <1>5 DEF FlushChannels
  <2> QED BY <1>5, <2>1 DEF FlushChannels, SlotInv
<1>6. ASSUME NEW p \in Callers, FlushAll(p) PROVE SlotInv'
  <2>1. \A q \in Callers : pc'[q] \in Flushing => pc'[q] = pc[q]
    BY <1>0, <1>6 DEF FlushAll, Call, At, Flushing
  <2> QED BY <1>6, <2>1 DEF FlushAll, Call, SlotInv, Flushing
<1>7. ASSUME NEW p \in Callers, Outside(p), ~FlushChannels(p), ~FlushAll(p) PROVE SlotInv'
  <2>1. PICK l \in {"idle", "shutdown", "connect", "cycle"} : Call(p, l) /\ UNCHANGED wanted
    BY <1>7 DEF Outside, Connect, Shutdown, SetWebsocketURL, SetProxyAddress, Enable, Disable
  <2> QED BY <1>0, <1>2, <2>1 DEF Call
<1> QED BY <1>1, <1>3, <1>4, <1>5, <1>6, <1>7 DEF Monitor

LEMMA SlotStep == TypeInv /\ SlotInv /\ [Next]_vars => SlotInv'
<1> SUFFICES ASSUME TypeInv, SlotInv, [Next]_vars PROVE SlotInv' OBVIOUS
<1>1. CASE Next BY <1>1, SlotLocked, SlotFlush, SlotRest DEF Next
<1>2. CASE UNCHANGED vars BY <1>2, SlotKept DEF vars
<1> QED BY <1>1, <1>2

-----------------------------------------------------------------------------
(***************************************************************************)
(* Lost connections.  While a connect goes on the error must still be on   *)
(* its way; once connected, the monitor may be about to shut down for it.  *)
(***************************************************************************)
FaultInv ==
  (~ignored /\ ~astray) =>
    \A x \in Slots :
      (slot[x] # None /\ slot[x] \notin up) =>
        /\ state = "connecting" => reader[slot[x]] = "report" \/ errs
        /\ state = "connected" =>
             reader[slot[x]] = "report" \/ errs \/ (mon = "fault" /\ pc["monitor"] = "shutdown")

LEMMA FaultKept ==
  ASSUME FaultInv, UNCHANGED <<slot, up, reader, state, errs, mon, ignored, astray>>,
         pc'["monitor"] = pc["monitor"]
  PROVE FaultInv'
BY DEF FaultInv

LEMMA FaultInit == Init => FaultInv
BY DEF Init, FaultInv

LEMMA FaultLocked ==
  ASSUME TypeInv, SlotInv, FaultInv, NEW p \in Procs, Locked(p) PROVE FaultInv'
<1> USE DEF fixed, calls, flushes, links, signals, watches, repairs, At
<1>0. "monitor" \in Procs /\ pc \in [Procs -> {"idle", "shutdown", "cycle", "closing",
        "cycling", "connect", "dialling", "subscribing", "flush", "flushDial", "flushSubs"}]
  BY DEF TypeInv, TypeOK, Procs
<1>1. CASE ShutdownRefused(p) BY <1>0, <1>1 DEF ShutdownRefused, FaultInv
<1>2. CASE ShutdownBegin(p)
  BY <1>2 DEF ShutdownBegin, CloseAll, FaultInv
<1>3. CASE ShutdownEnd(p)
  <2>1. state = "disconnected" BY <1>3 DEF ShutdownEnd, TypeInv, LockInv
  <2> QED BY <1>3, <2>1 DEF ShutdownEnd, FaultInv
<1>4. CASE ConnectRefused(p) BY <1>0, <1>4 DEF ConnectRefused, FaultInv
<1>5. CASE ConnectBegin(p) BY <1>5 DEF ConnectBegin, FaultInv, SlotInv
<1>6. CASE DialFails(p) BY <1>6 DEF DialFails, FaultInv
<1>7. CASE Connected(p)
  <2>1. state = "connecting" BY <1>7 DEF Connected, TypeInv, LockInv
  <2> QED BY <1>7, <2>1 DEF Connected, FaultInv
<1>8. CASE Subscribed(p) BY <1>0, <1>8 DEF Subscribed, FaultInv
<1>9. ASSUME NEW x \in Slots, NEW c \in Conns, Dial(p, x, c) PROVE FaultInv'
  <2>1. /\ slot' = [slot EXCEPT ![x] = c] /\ up' = up \cup {c}
        /\ reader' = [reader EXCEPT ![c] = "read"] /\ errs' = errs
    BY <1>9 DEF Dial, DialInto
  <2>2. \A y \in Slots : slot[y] # c BY <1>9 DEF Dial, DialInto, Free, Installed
  <2>3. \A y \in Slots : (slot'[y] # None /\ slot'[y] \notin up') =>
          slot'[y] = slot[y] /\ slot[y] \notin up /\ reader'[slot'[y]] = reader[slot[y]]
    BY <2>1, <2>2 DEF TypeInv, TypeOK
  <2> QED BY <1>9, <2>1, <2>3 DEF Dial, FaultInv
<1> QED BY <1>1, <1>2, <1>3, <1>4, <1>5, <1>6, <1>7, <1>8, <1>9 DEF Locked

LEMMA FaultMonitor == ASSUME TypeInv, FaultInv, Monitor PROVE FaultInv'
<1> USE DEF fixed, calls, flushes, links, signals, watches, repairs, At
<1>0. "monitor" \in Procs /\ pc \in [Procs -> {"idle", "shutdown", "cycle", "closing",
        "cycling", "connect", "dialling", "subscribing", "flush", "flushDial", "flushSubs"}]
  BY DEF TypeInv, TypeOK, Procs
<1>1. CASE MonitorError
  <2>1. ~ignored' => ~ignored /\ state # "connecting" BY <1>1 DEF MonitorError
  <2>2. state = "connected" => mon' = "fault" /\ pc'["monitor"] = "shutdown"
    BY <1>0, <1>1 DEF MonitorError
  <2> QED BY <1>1, <2>1, <2>2 DEF MonitorError, FaultInv
<1>2. CASE MonitorRetry BY <1>0, <1>2 DEF MonitorRetry, FaultInv
<1>3. CASE MonitorTick BY <1>0, <1>3 DEF MonitorTick, Selecting, FaultInv
<1>4. CASE MonitorOff BY <1>0, <1>4 DEF MonitorOff, Selecting, FaultInv
<1>5. CASE MonitorExit BY <1>0, <1>5 DEF MonitorExit, FaultInv
<1> QED BY <1>1, <1>2, <1>3, <1>4, <1>5 DEF Monitor

LEMMA FaultStreams == ASSUME TypeInv, FaultInv, NEW c \in Conns, Streams(c) PROVE FaultInv'
<1> USE DEF fixed, calls, flushes, links, signals, watches, repairs
<1>1. CASE ConnFault(c) BY <1>1, FaultKept DEF ConnFault
<1>2. CASE Message(c) BY <1>2, FaultKept DEF Message
<1>3. CASE ReadFails(c)
  <2>1. /\ up' = up \ {c} /\ reader[c] = "read"
        /\ reader' = [reader EXCEPT ![c] = IF c \in up THEN "report" ELSE "none"]
    BY <1>3 DEF ReadFails
  <2>2. \A x \in Slots : slot[x] # None /\ slot[x] \notin up' =>
          \/ reader'[slot[x]] = "report"
          \/ slot[x] \notin up /\ (reader[slot[x]] = "report" => reader'[slot[x]] = "report")
    BY <2>1 DEF TypeInv, TypeOK
  <2> QED BY <1>3, <2>2 DEF ReadFails, FaultInv
<1>4. CASE ReadReport(c) BY <1>4 DEF ReadReport, FaultInv
<1> QED BY <1>1, <1>2, <1>3, <1>4 DEF Streams

LEMMA FaultFlush == ASSUME TypeInv, SlotInv, FaultInv, NEW p \in Callers, Flush(p) PROVE FaultInv'
<1> USE DEF fixed, calls, flushes, links, signals, watches, repairs, At
<1>0. \A l : pc' = [pc EXCEPT ![p] = l] => pc'["monitor"] = pc["monitor"] BY NotMonitor
<1>1. ASSUME NEW c \in Conns, FlushDial(p, c) PROVE FaultInv'
  <2>1. /\ slot' = [slot EXCEPT ![cur[p]] = c] /\ up' = up \cup {c}
        /\ reader' = [reader EXCEPT ![c] = "read"] /\ errs' = errs
    BY <1>1 DEF FlushDial, DialInto
  <2>2. \A y \in Slots : slot[y] # c BY <1>1 DEF FlushDial, DialInto, Free, Installed
  <2>3. \A y \in Slots : (slot'[y] # None /\ slot'[y] \notin up') =>
          slot'[y] = slot[y] /\ slot[y] \notin up /\ reader'[slot'[y]] = reader[slot[y]]
    BY <2>1, <2>2 DEF TypeInv, TypeOK
  <2>4. UNCHANGED <<state, mon, ignored>> /\ (~astray' => ~astray) BY <1>1 DEF FlushDial
  <2>5. pc'["monitor"] = pc["monitor"] BY <1>0, <1>1 DEF FlushDial
  <2> QED BY <2>1, <2>3, <2>4, <2>5 DEF FaultInv
<1>2. CASE FlushClose(p)
  <2>1. /\ slot' = [slot EXCEPT ![cur[p]] = None] /\ up' = up \ {slot[cur[p]]}
        /\ slot[cur[p]] # None /\ UNCHANGED <<reader, errs, state, mon, ignored, astray>>
    BY <1>2 DEF FlushClose
  <2>2. pc'["monitor"] = pc["monitor"] BY <1>0, <1>2 DEF FlushClose
  <2>3. cur[p] \in Slots BY <1>2 DEF FlushClose, SlotInv
  <2>4. \A y \in Slots : (slot'[y] # None /\ slot'[y] \notin up') =>
          slot'[y] = slot[y] /\ slot[y] \notin up
    BY <2>1, <2>3 DEF TypeInv, TypeOK, SlotInv
  <2> QED BY <2>1, <2>2, <2>4 DEF FaultInv
<1>3. CASE \/ \E x \in Slots : FlushSlot(p, x)
           \/ FlushPanics(p) \/ FlushSubscribed(p) \/ FlushReturns(p)
  BY <1>0, <1>3, FaultKept DEF FlushSlot, FlushPanics, FlushSubscribed, FlushReturns
<1> QED BY <1>1, <1>2, <1>3 DEF Flush

LEMMA FaultRest ==
  ASSUME TypeInv, FaultInv,
         \/ DataExit \/ TrafficExit \/ TrafficSeen
         \/ \E l \in Late : TrafficTimeout(l)
         \/ \E p \in Callers : Outside(p)
  PROVE FaultInv'
<1> USE DEF fixed, calls, flushes, links, signals, watches, repairs, At
<1>1. CASE DataExit \/ TrafficExit \/ TrafficSeen
  BY <1>1, FaultKept DEF DataExit, TrafficExit, TrafficSeen
<1>2. ASSUME NEW l \in Late, TrafficTimeout(l) PROVE FaultInv'
  BY <1>2, FaultKept, NotMonitor DEF TrafficTimeout
<1>3. ASSUME NEW p \in Callers, Outside(p) PROVE FaultInv'
  <2>1. UNCHANGED <<slot, up, reader, state, errs, mon, ignored, astray>>
        /\ \E l : pc' = [pc EXCEPT ![p] = l]
    BY <1>3 DEF Outside, Call, Connect, Shutdown, SetWebsocketURL, SetProxyAddress, Enable,
       Disable, FlushAll, FlushChannels
  <2> QED BY <2>1, FaultKept, NotMonitor
<1> QED BY <1>1, <1>2, <1>3

LEMMA FaultStep == TypeInv /\ SlotInv /\ FaultInv /\ [Next]_vars => FaultInv'
<1> SUFFICES ASSUME TypeInv, SlotInv, FaultInv, [Next]_vars PROVE FaultInv' OBVIOUS
<1>1. CASE Next
  BY <1>1, FaultLocked, FaultMonitor, FaultStreams, FaultFlush, FaultRest DEF Next
<1>2. CASE UNCHANGED vars BY <1>2, FaultKept DEF vars
<1> QED BY <1>1, <1>2

\* A connection lost while the websocket is connected is on its way to the connection
\* monitor, whichever goroutines read, connect, flush and shut down meanwhile.
THEOREM FaultsKnownAlways == Spec => []FaultsKnown
<1>1. TypeInv /\ FaultInv => FaultsKnown
  BY DEF TypeInv, TypeOK, FaultInv, FaultsKnown, Installed
<1> QED BY <1>1, FaultInit, FaultStep, SlotInit, SlotStep, TypeInvariant, PTL DEF Spec
=============================================================================
