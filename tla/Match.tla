------------------------------- MODULE Match -------------------------------
(***************************************************************************)
(* Requests over a websocket and the matching of their answers             *)
(* (stream.Match, WebsocketConnection.SendMessageReturnResponses): a       *)
(* caller registers a signature, sends, and waits for a number of answers  *)
(* or gives up; the stream's reader hands every answer to the channel      *)
(* registered under its signature.  A call under the lock of Match is one  *)
(* step.  Signatures are used again (a channel's name, say), by one caller *)
(* or several.  Of an answer only its signature matters.                   *)
(***************************************************************************)
EXTENDS Naturals, FiniteSets

CONSTANTS
  Callers,     \* goroutines that make requests, one at a time each
  Sigs,        \* signatures
  Sig,         \* Sig[c]: the signature of c's requests
  Expected,    \* Expected[c]: the number of answers c waits for
  Inspected,   \* callers with a messageInspector
  MaxOwed,     \* bound on the answers under way to a caller's requests
  None         \* no entry

ASSUME ConstantsAssumption ==
  /\ Sig \in [Callers -> Sigs] /\ Expected \in [Callers -> Nat \ {0}]
  /\ Inspected \subseteq Callers /\ MaxOwed \in Nat
  /\ None \notin [owner : Callers, expected : Nat]

VARIABLES
  m,           \* Match.m: of each signature, the owner of the channel and what is expected
  buf, closed, \* of each caller's channel: answers in it; closed
  got,         \* answers the caller has read
  blank,       \* it read the zero value of a closed channel
  pc,          \* where the caller is; "failed": returned, its request was not sent
  owed         \* answers the exchange has still to send to a caller's requests

channels == <<buf, closed>>
reads    == <<got, blank>>
vars == <<m, buf, closed, got, blank, pc, owed>>

Init ==
  /\ m = [s \in Sigs |-> None]
  /\ buf = [c \in Callers |-> 0] /\ closed = [c \in Callers |-> FALSE]
  /\ got = [c \in Callers |-> 0] /\ blank = [c \in Callers |-> FALSE]
  /\ pc = [c \in Callers |-> "idle"] /\ owed = [c \in Callers |-> 0]

At(c, l) == pc' = [pc EXCEPT ![c] = l]

-----------------------------------------------------------------------------
(***************************************************************************)
(* Match                                                                   *)
(***************************************************************************)
\* A signature that is in use is an error to the caller and changes nothing.
Set(c) ==
  /\ pc[c] \in {"idle", "failed"} /\ m[Sig[c]] = None
  /\ m' = [m EXCEPT ![Sig[c]] = [owner |-> c, expected |-> Expected[c]]]
  /\ buf' = [buf EXCEPT ![c] = 0] /\ closed' = [closed EXCEPT ![c] = FALSE]
  /\ got' = [got EXCEPT ![c] = 0] /\ blank' = [blank EXCEPT ![c] = FALSE]
  /\ At(c, "send") /\ UNCHANGED owed

\* Mutant of Deliver: the entry of an answered request is closed and stays in the map.
DeliverKept(s) ==
  LET e == m[s] IN
  /\ buf' = [buf EXCEPT ![e.owner] = @ + 1]
  /\ m' = [m EXCEPT ![s].expected = @ - 1]
  /\ closed' = [closed EXCEPT ![e.owner] = e.expected = 1]

\* IncomingWithData with a channel registered: the last answer expected closes it.
Deliver(s) ==
  LET e == m[s] IN
  /\ buf' = [buf EXCEPT ![e.owner] = @ + 1]
  /\ IF e.expected = 1
     THEN m' = [m EXCEPT ![s] = None] /\ closed' = [closed EXCEPT ![e.owner] = TRUE]
     ELSE m' = [m EXCEPT ![s].expected = @ - 1] /\ UNCHANGED closed

\* An answer to a request of c; without an entry for its signature it is not matched.
Incoming(c) ==
  /\ owed[c] > 0 /\ owed' = [owed EXCEPT ![c] = @ - 1]
  /\ IF m[Sig[c]] = None THEN UNCHANGED <<m, channels>> ELSE Deliver(Sig[c])
  /\ UNCHANGED <<reads, pc>>

\* external: an answer that does not come.
Lost(c) ==
  /\ owed[c] > 0 /\ owed' = [owed EXCEPT ![c] = @ - 1]
  /\ UNCHANGED <<m, channels, reads, pc>>

\* The entry there is by then, the caller's own or that of another with the signature.
RemoveSignature(s) ==
  IF m[s] = None THEN UNCHANGED <<m, closed>>
  ELSE closed' = [closed EXCEPT ![m[s].owner] = TRUE] /\ m' = [m EXCEPT ![s] = None]

-----------------------------------------------------------------------------
(***************************************************************************)
(* SendMessageReturnResponses and waitForResponses                         *)
(***************************************************************************)
Send(c) ==
  /\ pc[c] = "send" /\ At(c, "wait")
  /\ owed' = [owed EXCEPT ![c] = IF @ + Expected[c] <= MaxOwed THEN @ + Expected[c]
                                 ELSE MaxOwed]
  /\ UNCHANGED <<m, channels, reads>>

\* Not connected, a limit, or a write error: the signature stays registered.
SendFails(c) ==
  /\ pc[c] = "send" /\ At(c, "failed")
  /\ UNCHANGED <<m, channels, reads, owed>>

\* A closed channel gives what is in it and then zero values.
Receive(c) ==
  /\ pc[c] = "wait" /\ (buf[c] > 0 \/ closed[c])
  /\ buf' = [buf EXCEPT ![c] = IF @ > 0 THEN @ - 1 ELSE 0]
  /\ got' = [got EXCEPT ![c] = @ + 1] /\ blank' = [blank EXCEPT ![c] = @ \/ buf[c] = 0]
  /\ \/ At(c, IF got[c] + 1 = Expected[c] THEN "idle" ELSE "wait")
     \/ c \in Inspected /\ At(c, "final")
  /\ UNCHANGED <<m, closed, owed>>

\* Mutant of GiveUp: it returns without taking its signature out of the map.
GiveUpAtOnce(c) ==
  /\ pc[c] = "wait" /\ At(c, "idle")
  /\ UNCHANGED <<m, channels, reads, owed>>

\* The time-out or the end of the context, chosen over an answer that may be there too.
GiveUp(c) ==
  /\ pc[c] = "wait" /\ At(c, "giveup")
  /\ UNCHANGED <<m, channels, reads, owed>>

\* Mutant of Remove: after the inspector's last message only the select is left, not the loop.
RemoveGoesOn(c) ==
  /\ pc[c] \in {"final", "giveup"} /\ RemoveSignature(Sig[c])
  /\ At(c, IF pc[c] = "final" /\ got[c] < Expected[c] THEN "wait" ELSE "idle")
  /\ UNCHANGED <<buf, reads, owed>>

\* After the last message of the inspector, or having given up.
Remove(c) ==
  /\ pc[c] \in {"final", "giveup"} /\ RemoveSignature(Sig[c]) /\ At(c, "idle")
  /\ UNCHANGED <<buf, reads, owed>>

-----------------------------------------------------------------------------
Call(c) == Send(c) \/ SendFails(c) \/ Receive(c) \/ GiveUp(c) \/ Remove(c)

Next == \E c \in Callers : Set(c) \/ Call(c) \/ Incoming(c) \/ Lost(c)

Spec == Init /\ [][Next]_vars

\* A caller's goroutine runs and its timer expires.
FairSpec == Spec /\ \A c \in Callers : WF_vars(Call(c))

-----------------------------------------------------------------------------
\* Every variable has its type; the callers have read no more answers than they expect.
TypeOK ==
  /\ m \in [Sigs -> [owner : Callers, expected : Nat] \cup {None}]
  /\ buf \in [Callers -> Nat] /\ got \in [Callers -> Nat]
  /\ closed \in [Callers -> BOOLEAN] /\ blank \in [Callers -> BOOLEAN]
  /\ pc \in [Callers -> {"idle", "send", "wait", "final", "giveup", "failed"}]
  /\ owed \in [Callers -> 0..MaxOwed]
  /\ \A c \in Callers : got[c] <= Expected[c]

\* The reader never waits for room while it holds the lock of Match, and neither sends on a
\* closed channel nor closes one twice: a channel in the map is open and has room for all
\* the answers still expected, those of calls that failed included.
Room ==
  \A s \in Sigs : m[s] # None =>
    /\ Sig[m[s].owner] = s /\ ~closed[m[s].owner] /\ m[s].expected > 0
    /\ buf[m[s].owner] + m[s].expected <= Expected[m[s].owner]

\* No two callers of one signature.
Alone(c) == \A d \in Callers : Sig[d] = Sig[c] => d = c

\* A caller that has its signature for itself never takes the zero value of a closed channel
\* for an answer, however its time-out, its inspector and late answers to an earlier request
\* of its own interleave.
NoBlank == \A c \in Callers : Alone(c) => ~blank[c]

\* A signature becomes free again, whoever gave up and whatever came late, unless the request
\* it was registered for could not be sent.
Freed ==
  \A s \in Sigs : m[s] # None ~> m[s] = None \/ pc[m[s].owner] = "failed"
=============================================================================
