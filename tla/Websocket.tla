----------------------------- MODULE Websocket -----------------------------
(***************************************************************************)
(* The life of an exchange's websocket (stream.Websocket): Connect and     *)
(* Shutdown under the lock w.m, the connection monitor that repairs, the   *)
(* data and traffic monitors of each attempt, the readers, and the calls   *)
(* that reach in from outside: Enable, Disable, FlushChannels,             *)
(* SetWebsocketURL, SetProxyAddress.  A step is what happens between two   *)
(* network calls, waits or unlocked reads of shared state.                 *)
(***************************************************************************)
EXTENDS Naturals, FiniteSets

CONSTANTS
  Callers,       \* goroutines that call in
  Late,          \* goroutines a traffic monitor starts to shut down
  Slots,         \* entries of connectionManager; w.Conn is one as well
  Conns,         \* connections
  None,          \* no connection, no slot, nobody
  MaxMonitors    \* bound on data monitors that failed attempts leave behind

Procs == Callers \cup Late \cup {"monitor"}

ASSUME ConstantsAssumption ==
  /\ MaxMonitors \in Nat \ {0}
  /\ None \notin Procs /\ None \notin Slots /\ None \notin Conns
  /\ Slots # {} /\ IsFiniteSet(Slots) /\ IsFiniteSet(Conns)
  /\ "monitor" \notin Callers \cup Late /\ Callers \cap Late = {}

VARIABLES
  multi,      \* useMultiConnectionManagement
  state,      \* Websocket.state
  enabled,    \* Websocket.enabled
  lock,       \* who holds w.m
  pc,         \* where each goroutine is in Connect, Shutdown or FlushChannels
  todo,       \* slots the connect under way has not come to
  rest, cur,  \* slots a FlushChannels has not come to; the one it is at
  wanted,     \* slots with subscriptions to make
  slot,       \* connectionManager[x].Connection, or w.Conn
  up,         \* WebsocketConnection.connected
  net,        \* external: connections that are open
  reader,     \* the reader goroutine of each connection
  stray,      \* history: connections read that belong to no link: left by an attempt that
              \*   failed, or made by a FlushChannels while the websocket was disconnected
  errs,       \* ReadMessageErrors holds an error
  alert,      \* TrafficAlert holds a signal
  data,       \* number of data monitors
  traffic,    \* number of traffic monitors
  stop,       \* ShutdownC is closed
  running,    \* connectionMonitorRunning
  mon,        \* where the connection monitor is
  missed,     \* history: the connect found a monitor that was about to leave
  ignored,    \* history: the monitor took an error while the connect went on
  astray,     \* history: a FlushChannels connected in a link taken down meanwhile;
              \*   all three are about the present link
  dead        \* the process has panicked

calls   == <<lock, pc, todo>>
flushes == <<rest, cur, wanted, astray>>
links   == <<slot, up, net, reader, stray>>
signals == <<errs, alert>>
watches == <<data, traffic, stop>>
repairs == <<running, mon, missed, ignored>>
fixed   == <<multi, dead>>
vars == <<multi, state, enabled, lock, pc, todo, rest, cur, wanted, slot, up, net,
          reader, stray, errs, alert, data, traffic, stop, running, mon, missed, ignored,
          astray, dead>>

Installed == {slot[x] : x \in Slots} \ {None}
Free == {c \in Conns : reader[c] = "none" /\ c \notin Installed}

Init ==
  /\ multi \in BOOLEAN
  /\ wanted \in IF multi THEN SUBSET Slots ELSE {{x} : x \in Slots}
  /\ state = "disconnected" /\ enabled = TRUE /\ lock = None
  /\ pc = [p \in Procs |-> "idle"] /\ todo = {}
  /\ rest = [p \in Callers |-> {}] /\ cur = [p \in Callers |-> None]
  /\ slot = [x \in Slots |-> None] /\ up = {} /\ net = {}
  /\ reader = [c \in Conns |-> "none"] /\ stray = {} /\ errs = FALSE /\ alert = FALSE
  /\ data = 0 /\ traffic = 0 /\ stop = FALSE
  /\ running = FALSE /\ mon = "none"
  /\ missed = FALSE /\ ignored = FALSE /\ astray = FALSE /\ dead = FALSE

At(p, l) == pc' = [pc EXCEPT ![p] = l]

\* Every connection is closed, and no error will come of it.
CloseAll ==
  /\ up' = up \ Installed /\ net' = net \ Installed
  /\ slot' = [x \in Slots |-> None] /\ UNCHANGED reader

\* Connection c is dialled for slot x and its reader started.
DialInto(x, c) ==
  /\ c \in Free
  /\ slot' = [slot EXCEPT ![x] = c] /\ up' = up \cup {c} /\ net' = net \cup {c}
  /\ reader' = [reader EXCEPT ![c] = "read"]
  /\ alert' = TRUE /\ UNCHANGED errs

-----------------------------------------------------------------------------
(***************************************************************************)
(* shutdown.  "cycle" is the shutdown that FlushChannels and               *)
(* SetProxyAddress follow up with a connect under the same lock.           *)
(***************************************************************************)
ShutdownRefused(p) ==
  /\ pc[p] \in {"shutdown", "cycle"} /\ lock = None /\ state # "connected"
  /\ At(p, "idle")
  /\ UNCHANGED <<fixed, state, enabled, lock, todo, flushes, links, signals,
                 watches, repairs>>

ShutdownBegin(p) ==
  /\ pc[p] \in {"shutdown", "cycle"} /\ lock = None /\ state = "connected"
  /\ lock' = p /\ At(p, IF pc[p] = "cycle" THEN "cycling" ELSE "closing")
  /\ CloseAll /\ state' = "disconnected" /\ stop' = TRUE
  /\ missed' = FALSE /\ ignored' = FALSE /\ astray' = FALSE
  /\ UNCHANGED <<fixed, enabled, todo, rest, cur, wanted, stray, signals, data, traffic,
                 running, mon>>

\* Mutant of ShutdownEnd: the readers are not in the wait group.
ShutdownEndUnread(p) ==
  /\ pc[p] \in {"closing", "cycling"} /\ data = 0 /\ traffic = 0
  /\ stop' = FALSE /\ errs' = FALSE
  /\ IF pc[p] = "closing" THEN lock' = None /\ At(p, "idle")
                          ELSE lock' = lock /\ At(p, "connect")
  /\ UNCHANGED <<fixed, state, enabled, todo, flushes, links, alert, data, traffic,
                 repairs>>

\* Wg.Wait has returned.
ShutdownEnd(p) ==
  /\ pc[p] \in {"closing", "cycling"} /\ data = 0 /\ traffic = 0
  /\ \A c \in Conns : reader[c] = "none"
  /\ stop' = FALSE /\ errs' = FALSE
  /\ IF pc[p] = "closing" THEN lock' = None /\ At(p, "idle")
                          ELSE lock' = lock /\ At(p, "connect")
  /\ UNCHANGED <<fixed, state, enabled, todo, flushes, links, alert, data, traffic,
                 repairs>>

-----------------------------------------------------------------------------
(***************************************************************************)
(* connect                                                                 *)
(***************************************************************************)
ConnectRefused(p) ==
  /\ pc[p] = "connect" /\ lock \in {None, p}
  /\ ~enabled \/ state # "disconnected"
  /\ lock' = None /\ At(p, "idle")
  /\ UNCHANGED <<fixed, state, enabled, todo, flushes, links, signals, watches, repairs>>

ConnectBegin(p) ==
  /\ pc[p] = "connect" /\ lock \in {None, p} /\ enabled /\ state = "disconnected"
  /\ lock' = p /\ At(p, "dialling") /\ todo' = Slots
  /\ state' = "connecting" /\ data' = data + 1 /\ traffic' = traffic + 1
  /\ UNCHANGED <<fixed, enabled, flushes, links, signals, stop, repairs>>

Dial(p, x, c) ==
  /\ pc[p] = "dialling" /\ x \in todo \cap wanted
  /\ todo' = todo \ {x} /\ DialInto(x, c)
  /\ UNCHANGED <<fixed, state, enabled, lock, pc, flushes, stray, watches, repairs>>

\* A managed connection that cannot be dialled or subscribed takes the others
\* with it; the single one has nothing to take back.  The monitors stay.
DialFails(p) ==
  /\ pc[p] = "dialling" /\ data < MaxMonitors
  /\ IF multi THEN wanted # {} /\ CloseAll /\ errs' = FALSE
              ELSE wanted \cap todo # {} /\ UNCHANGED <<slot, up, net, reader, errs>>
  /\ stray' = stray \cup {c \in Conns : reader[c] # "none"}
  /\ state' = "disconnected" /\ lock' = None /\ At(p, "idle")
  /\ UNCHANGED <<fixed, enabled, todo, flushes, alert, watches, repairs>>

Connected(p) ==
  /\ pc[p] = "dialling" /\ todo \cap wanted = {}
  /\ state' = "connected"
  /\ IF ~running THEN running' = TRUE /\ mon' = "select" /\ UNCHANGED missed
                 ELSE missed' = (missed \/ mon = "off") /\ UNCHANGED <<running, mon>>
  /\ IF multi THEN lock' = None /\ At(p, "idle") ELSE lock' = lock /\ At(p, "subscribing")
  /\ UNCHANGED <<fixed, enabled, todo, flushes, links, signals, watches, ignored>>

\* The single connection subscribes once it counts as connected, or fails to.
Subscribed(p) ==
  /\ pc[p] = "subscribing" /\ lock' = None /\ At(p, "idle")
  /\ UNCHANGED <<fixed, state, enabled, todo, flushes, links, signals, watches, repairs>>

-----------------------------------------------------------------------------
(***************************************************************************)
(* The connection monitor                                                  *)
(***************************************************************************)
Selecting == mon = "select" /\ pc["monitor"] = "idle"

\* Mutant of MonitorError: a fault is taken to have ended the connection.
MonitorErrorTrusting ==
  /\ Selecting /\ errs
  /\ errs' = FALSE /\ mon' = "fault" /\ ignored' = (ignored \/ state = "connecting")
  /\ UNCHANGED <<fixed, state, enabled, calls, flushes, links, alert, watches,
                 running, missed>>

MonitorError ==
  /\ Selecting /\ errs
  /\ errs' = FALSE /\ mon' = "fault" /\ ignored' = (ignored \/ state = "connecting")
  /\ At("monitor", IF state = "connected" THEN "shutdown" ELSE "idle")
  /\ UNCHANGED <<fixed, state, enabled, lock, todo, flushes, links, alert, watches,
                 running, missed>>

\* Speedier reconnection, instead of waiting for the next cycle.
MonitorRetry ==
  /\ mon = "fault" /\ pc["monitor"] = "idle" /\ mon' = "select"
  /\ At("monitor", IF enabled /\ state = "disconnected" THEN "connect" ELSE "idle")
  /\ UNCHANGED <<fixed, state, enabled, lock, todo, flushes, links, signals, watches,
                 running, missed, ignored>>

\* Mutant of MonitorTick: it waits for the last attempt's monitors to end.
MonitorTickPolite ==
  /\ Selecting /\ enabled /\ state = "disconnected" /\ data = 0
  /\ At("monitor", "connect")
  /\ UNCHANGED <<fixed, state, enabled, lock, todo, flushes, links, signals, watches,
                 repairs>>

\* A cycle of an enabled monitor: it connects what is disconnected.
MonitorTick ==
  /\ Selecting /\ enabled /\ state = "disconnected"
  /\ At("monitor", "connect")
  /\ UNCHANGED <<fixed, state, enabled, lock, todo, flushes, links, signals, watches,
                 repairs>>

\* Mutant of MonitorOff: the monitor leaves the connection to somebody else.
MonitorOffWaits ==
  /\ Selecting /\ ~enabled /\ state # "connected" /\ mon' = "off"
  /\ UNCHANGED <<fixed, state, enabled, calls, flushes, links, signals, watches,
                 running, missed, ignored>>

MonitorOff ==
  /\ Selecting /\ ~enabled /\ mon' = "off"
  /\ At("monitor", IF state = "connected" THEN "shutdown" ELSE "idle")
  /\ UNCHANGED <<fixed, state, enabled, lock, todo, flushes, links, signals, watches,
                 running, missed, ignored>>

\* Mutant of MonitorExit: connectionMonitorRunning is not reset.
MonitorExitMarked ==
  /\ mon = "off" /\ pc["monitor"] = "idle"
  /\ mon' = "none"
  /\ UNCHANGED <<fixed, state, enabled, calls, flushes, links, signals, watches,
                 running, missed, ignored>>

MonitorExit ==
  /\ mon = "off" /\ pc["monitor"] = "idle"
  /\ mon' = "none" /\ running' = FALSE
  /\ UNCHANGED <<fixed, state, enabled, calls, flushes, links, signals, watches,
                 missed, ignored>>

-----------------------------------------------------------------------------
(***************************************************************************)
(* Data and traffic monitors, readers, and the exchange                    *)
(***************************************************************************)
DataExit ==
  /\ stop /\ data > 0 /\ data' = data - 1
  /\ UNCHANGED <<fixed, state, enabled, calls, flushes, links, signals, traffic, stop,
                 repairs>>

TrafficExit ==
  /\ stop /\ traffic > 0 /\ traffic' = traffic - 1
  /\ UNCHANGED <<fixed, state, enabled, calls, flushes, links, signals, data, stop,
                 repairs>>

\* The time is up and there has been traffic since.
TrafficSeen ==
  /\ traffic > 0 /\ state # "connecting" /\ alert /\ alert' = FALSE
  /\ UNCHANGED <<fixed, state, enabled, calls, flushes, links, errs, watches, repairs>>

\* Mutant of TrafficTimeout: the monitor is done with the wait group twice.
TrafficTimeoutTwice(l) ==
  /\ traffic > 0 /\ state # "connecting" /\ ~alert
  /\ pc[l] = "idle" /\ traffic' = traffic - 2
  /\ At(l, IF state = "connected" THEN "shutdown" ELSE "idle")
  /\ UNCHANGED <<fixed, state, enabled, lock, todo, flushes, links, signals, data, stop,
                 repairs>>

\* No traffic: the monitor ends and leaves the shutdown to a goroutine.
TrafficTimeout(l) ==
  /\ traffic > 0 /\ state # "connecting" /\ ~alert
  /\ pc[l] = "idle" /\ traffic' = traffic - 1
  /\ At(l, IF state = "connected" THEN "shutdown" ELSE "idle")
  /\ UNCHANGED <<fixed, state, enabled, lock, todo, flushes, links, signals, data, stop,
                 repairs>>

\* External: the connection ends.
ConnFault(c) ==
  /\ c \in net /\ net' = net \ {c}
  /\ UNCHANGED <<fixed, state, enabled, calls, flushes, slot, up, reader, stray,
                 signals, watches, repairs>>

\* External: a message comes in.
Message(c) ==
  /\ c \in net /\ reader[c] = "read" /\ ~alert /\ alert' = TRUE
  /\ UNCHANGED <<fixed, state, enabled, calls, flushes, links, errs, watches, repairs>>

\* ReadMessage fails.  Who finds the connection marked connected reports it.
ReadFails(c) ==
  /\ reader[c] = "read" /\ c \notin net
  /\ reader' = [reader EXCEPT ![c] = IF c \in up THEN "report" ELSE "none"]
  /\ up' = up \ {c} /\ stray' = IF c \in up THEN stray ELSE stray \ {c}
  /\ UNCHANGED <<fixed, state, enabled, calls, flushes, slot, net, signals, watches,
                 repairs>>

ReadReport(c) ==
  /\ reader[c] = "report" /\ reader' = [reader EXCEPT ![c] = "none"]
  /\ errs' = TRUE /\ stray' = stray \ {c}
  /\ UNCHANGED <<fixed, state, enabled, calls, flushes, slot, up, net, alert, watches,
                 repairs>>

-----------------------------------------------------------------------------
(***************************************************************************)
(* Calls from outside                                                      *)
(***************************************************************************)
Call(p, l) ==
  /\ pc[p] = "idle" /\ At(p, l)
  /\ UNCHANGED <<fixed, state, lock, todo, rest, cur, astray, links, signals, watches,
                 repairs>>

Connect(p)  == Call(p, "connect") /\ UNCHANGED <<enabled, wanted>>
Shutdown(p) == Call(p, "shutdown") /\ UNCHANGED <<enabled, wanted>>

SetWebsocketURL(p) ==
  /\ ~multi /\ state = "connected"
  /\ Call(p, "shutdown") /\ UNCHANGED <<enabled, wanted>>

SetProxyAddress(p) == Call(p, "cycle") /\ UNCHANGED <<enabled, wanted>>

Enable(p) ==
  /\ state # "connected" /\ ~enabled /\ enabled' = TRUE
  /\ Call(p, "connect") /\ UNCHANGED wanted

Disable(p) ==
  /\ enabled /\ enabled' = FALSE
  /\ Call(p, "idle") /\ UNCHANGED wanted

\* The enabled pairs have changed; an exchange without subscribe or unsubscribe is
\* connected anew.
FlushAll(p) ==
  /\ enabled /\ state = "connected"
  /\ wanted' \in IF multi THEN SUBSET Slots ELSE {wanted}
  /\ Call(p, "cycle") /\ UNCHANGED enabled

\* The managed connections are gone through, without the lock.
FlushChannels(p) ==
  /\ enabled /\ state = "connected" /\ multi /\ pc[p] = "idle"
  /\ At(p, "flush") /\ rest' = [rest EXCEPT ![p] = Slots]
  /\ wanted' \in SUBSET Slots
  /\ UNCHANGED <<fixed, state, enabled, lock, todo, cur, astray, links, signals, watches,
                 repairs>>

FlushSlot(p, x) ==
  /\ pc[p] = "flush" /\ x \in rest[p]
  /\ rest' = [rest EXCEPT ![p] = @ \ {x}]
  /\ \/ slot[x] = None /\ x \notin wanted /\ UNCHANGED <<cur, pc>>
     \/ /\ slot[x] # None \/ x \in wanted
        /\ cur' = [cur EXCEPT ![p] = x]
        /\ At(p, IF slot[x] = None THEN "flushDial" ELSE "flushSubs")
  /\ UNCHANGED <<fixed, state, enabled, lock, todo, wanted, astray, links, signals,
                 watches, repairs>>

FlushDial(p, c) ==
  /\ pc[p] = "flushDial" /\ At(p, "flushSubs") /\ DialInto(cur[p], c)
  /\ astray' = (astray \/ state # "connected" \/ slot[cur[p]] # None)
  /\ stray' = IF stop \/ state = "disconnected" THEN stray \cup {c} ELSE stray
  /\ UNCHANGED <<fixed, state, enabled, lock, todo, rest, cur, wanted, watches, repairs>>

\* Nothing left to subscribe to: the connection is closed.
FlushClose(p) ==
  /\ pc[p] = "flushSubs" /\ cur[p] \notin wanted /\ slot[cur[p]] # None
  /\ up' = up \ {slot[cur[p]]} /\ net' = net \ {slot[cur[p]]}
  /\ slot' = [slot EXCEPT ![cur[p]] = None]
  /\ At(p, "flush")
  /\ UNCHANGED <<fixed, state, enabled, lock, todo, flushes, reader, stray, signals,
                 watches, repairs>>

\* The connection has been taken away meanwhile: a method call on nil.
FlushPanics(p) ==
  /\ pc[p] = "flushSubs" /\ cur[p] \notin wanted /\ slot[cur[p]] = None
  /\ dead' = TRUE
  /\ UNCHANGED <<multi, state, enabled, calls, flushes, links, signals, watches, repairs>>

FlushSubscribed(p) ==
  /\ pc[p] = "flushSubs" /\ cur[p] \in wanted /\ slot[cur[p]] # None
  /\ At(p, "flush")
  /\ UNCHANGED <<fixed, state, enabled, lock, todo, flushes, links, signals, watches,
                 repairs>>

\* All slots done, or an error on the way.
FlushReturns(p) ==
  /\ \/ pc[p] = "flush" /\ rest[p] = {}
     \/ pc[p] \in {"flushDial", "flushSubs"}
  /\ At(p, "idle") /\ rest' = [rest EXCEPT ![p] = {}] /\ cur' = [cur EXCEPT ![p] = None]
  /\ UNCHANGED <<fixed, state, enabled, lock, todo, wanted, astray, links, signals,
                 watches, repairs>>

-----------------------------------------------------------------------------
Locked(p) ==
  \/ ShutdownRefused(p) \/ ShutdownBegin(p) \/ ShutdownEnd(p)
  \/ ConnectRefused(p) \/ ConnectBegin(p) \/ DialFails(p) \/ Connected(p) \/ Subscribed(p)
  \/ \E x \in Slots, c \in Conns : Dial(p, x, c)

Monitor == MonitorError \/ MonitorRetry \/ MonitorTick \/ MonitorOff \/ MonitorExit

Outside(p) ==
  \/ Connect(p) \/ Shutdown(p) \/ SetWebsocketURL(p) \/ SetProxyAddress(p)
  \/ Enable(p) \/ Disable(p) \/ FlushAll(p) \/ FlushChannels(p)

Flush(p) ==
  \/ \E x \in Slots : FlushSlot(p, x)
  \/ \E c \in Conns : FlushDial(p, c)
  \/ FlushClose(p) \/ FlushPanics(p) \/ FlushSubscribed(p) \/ FlushReturns(p)

Streams(c) == ConnFault(c) \/ Message(c) \/ ReadFails(c) \/ ReadReport(c)

Next ==
  /\ ~dead
  /\ \/ \E p \in Procs : Locked(p)
     \/ Monitor
     \/ \E p \in Callers : Outside(p) \/ Flush(p)
     \/ DataExit \/ TrafficExit \/ TrafficSeen
     \/ \E l \in Late : TrafficTimeout(l)
     \/ \E c \in Conns : Streams(c)

Spec == Init /\ [][Next]_vars

(***************************************************************************)
(* Goroutines that can go on do; the mutex and select starve nobody; the   *)
(* exchange lets a dial through in the end.                                *)
(***************************************************************************)
Acquire(p) ==
  ShutdownRefused(p) \/ ShutdownBegin(p) \/ ConnectRefused(p) \/ ConnectBegin(p)
Release(p) == ShutdownEnd(p) \/ Connected(p) \/ Subscribed(p)

Fairness ==
  /\ WF_vars(~dead /\ Monitor)
  /\ WF_vars(~dead /\ (DataExit \/ TrafficExit))
  /\ \A c \in Conns : WF_vars(~dead /\ (ReadFails(c) \/ ReadReport(c)))
  /\ \A p \in Procs : SF_vars(~dead /\ Acquire(p))
  /\ WF_vars(~dead /\ \E p \in Procs : Release(p))
  /\ SF_vars(~dead /\ \E p \in Procs, x \in Slots, c \in Conns : Dial(p, x, c))

FairSpec == Spec /\ Fairness

-----------------------------------------------------------------------------
(***************************************************************************)
(* Properties                                                              *)
(***************************************************************************)
TypeOK ==
  /\ multi \in BOOLEAN /\ state \in {"disconnected", "connecting", "connected"}
  /\ enabled \in BOOLEAN /\ lock \in Procs \cup {None}
  /\ pc \in [Procs -> {"idle", "shutdown", "cycle", "closing", "cycling", "connect",
                       "dialling", "subscribing", "flush", "flushDial", "flushSubs"}]
  /\ todo \subseteq Slots /\ rest \in [Callers -> SUBSET Slots]
  /\ cur \in [Callers -> Slots \cup {None}] /\ wanted \subseteq Slots
  /\ slot \in [Slots -> Conns \cup {None}] /\ up \subseteq Conns /\ net \subseteq Conns
  /\ stray \subseteq Conns
  /\ reader \in [Conns -> {"none", "read", "report"}]
  /\ errs \in BOOLEAN /\ alert \in BOOLEAN
  /\ data \in 0..MaxMonitors /\ traffic \in 0..MaxMonitors /\ stop \in BOOLEAN
  /\ running \in BOOLEAN /\ mon \in {"none", "select", "fault", "off"}
  /\ missed \in BOOLEAN /\ ignored \in BOOLEAN /\ astray \in BOOLEAN /\ dead \in BOOLEAN

\* A connected websocket has its connection monitor, unless the monitor was on
\* its way out as the connect found connectionMonitorRunning still set.
Watched == state = "connected" => mon # "none" \/ missed

\* A connection that was lost while the websocket is connected is on its way to
\* the monitor (the reader reports, the error is queued, the monitor handles it),
\* unless the monitor took the error before the connect was through, or the
\* connection was made by a FlushChannels behind the back of a shutdown.
FaultsKnown ==
  (state = "connected" /\ ~ignored /\ ~astray) =>
    \A c \in Installed \ up : reader[c] = "report" \/ errs \/ mon = "fault"

\* The websocket is a link: see Link.
phase ==
  IF stop THEN "closing"
  ELSE CASE state = "disconnected" -> "down" [] state = "connecting" -> "opening"
         [] OTHER -> "up"
L == INSTANCE Link WITH reading <- {c \in Conns : reader[c] # "none"}
Implements == L!Spec

\* Connections that are read and that no shutdown would close.
Orphans == {c \in Conns : c \in net /\ reader[c] = "read"} \ Installed
Sound == ~missed /\ ~astray /\ ~dead /\ Orphans = {}

\* With a connection monitor, an enabled websocket is connected again and again.
Reconnects == <>[](enabled /\ mon # "none" /\ Sound) => []<>(state = "connected")

\* A websocket disabled for good is shut down.
DisabledEnds == <>[](~enabled /\ Sound) => <>[](state = "disconnected")
=============================================================================
