---------------------------- MODULE MatchProofs ----------------------------
(* Proofs about Match, for any callers, signatures and numbers of answers. *)
EXTENDS Match, TLAPS

Entry == [owner : Callers, expected : Nat]

\* A caller that sends or waits has still to read, and if its signature is its own it will
\* find an answer for everything it has still to read, or is owed it by the map.
Waiting ==
  \A c \in Callers : pc[c] \in {"send", "wait"} =>
    /\ got[c] < Expected[c]
    /\ Alone(c) =>
         \/ m[Sig[c]] # None /\ buf[c] + got[c] + m[Sig[c]].expected = Expected[c]
         \/ m[Sig[c]] = None /\ closed[c] /\ buf[c] + got[c] = Expected[c]

IInv == TypeOK /\ Room /\ Waiting /\ NoBlank

LEMMA Constants ==
  MaxOwed \in Nat /\ \A c \in Callers : Sig[c] \in Sigs /\ Expected[c] \in Nat /\ Expected[c] > 0
  BY ConstantsAssumption

\* The entry of a signature that belongs to one caller is that caller's.
LEMMA OwnEntry ==
  ASSUME TypeOK, Room, NEW c \in Callers, Alone(c), m[Sig[c]] # None
  PROVE  m[Sig[c]].owner = c
  BY ConstantsAssumption DEF TypeOK, Room, Alone

LEMMA InitInv == Init => IInv
  BY ConstantsAssumption DEF Init, IInv, TypeOK, Room, Waiting, NoBlank

LEMMA SetInv == ASSUME IInv, NEW c \in Callers, Set(c) PROVE IInv'
<1>1. TypeOK'
  <2>1. m' \in [Sigs -> Entry \cup {None}]
    BY ConstantsAssumption DEF IInv, TypeOK, Set, Entry
  <2>2. /\ buf' \in [Callers -> Nat] /\ got' \in [Callers -> Nat]
        /\ owed' \in [Callers -> 0..MaxOwed]
    BY DEF IInv, TypeOK, Set
  <2>5. \A d \in Callers : got'[d] <= Expected[d]
    <3>1. \A d \in Callers : got'[d] = IF d = c THEN 0 ELSE got[d]
      BY DEF IInv, TypeOK, Set
    <3> QED BY <3>1, Constants DEF IInv, TypeOK
  <2>3. closed' \in [Callers -> BOOLEAN] /\ blank' \in [Callers -> BOOLEAN]
    BY DEF IInv, TypeOK, Set
  <2>4. pc' \in [Callers -> {"idle", "send", "wait", "final", "giveup", "failed"}]
    BY DEF IInv, TypeOK, Set, At
  <2> QED BY <2>1, <2>2, <2>3, <2>4, <2>5 DEF TypeOK, Entry
<1>2. Room'
  <2> SUFFICES ASSUME NEW s \in Sigs, m'[s] # None
               PROVE  /\ Sig[m'[s].owner] = s /\ ~closed'[m'[s].owner] /\ m'[s].expected > 0
                      /\ buf'[m'[s].owner] + m'[s].expected <= Expected[m'[s].owner]
    BY DEF Room
  <2>1. CASE s = Sig[c]
    <3>1. m'[s] = [owner |-> c, expected |-> Expected[c]]
      BY <2>1 DEF IInv, TypeOK, Set
    <3>2. buf'[c] = 0 /\ Expected[c] \in Nat \ {0}
      BY ConstantsAssumption DEF IInv, TypeOK, Set
    <3>3. ~closed'[c]
      BY DEF IInv, TypeOK, Set
    <3> QED BY <2>1, <3>1, <3>2, <3>3
  <2>2. CASE s # Sig[c]
    <3>1. m'[s] = m[s] /\ m[s].owner # c /\ m[s].owner \in Callers
      BY <2>2 DEF IInv, TypeOK, Set, Room
    <3>2. buf'[m[s].owner] = buf[m[s].owner]
      BY <3>1 DEF IInv, TypeOK, Set
    <3>3. closed'[m[s].owner] = closed[m[s].owner]
      BY <3>1 DEF IInv, TypeOK, Set
    <3> QED BY <3>1, <3>2, <3>3 DEF IInv, Room
  <2> QED BY <2>1, <2>2
<1>3. Waiting'
  <2> SUFFICES ASSUME NEW d \in Callers, pc'[d] \in {"send", "wait"}
               PROVE  /\ got'[d] < Expected[d]
                      /\ Alone(d) =>
                           \/ m'[Sig[d]] # None
                              /\ buf'[d] + got'[d] + m'[Sig[d]].expected = Expected[d]
                           \/ m'[Sig[d]] = None /\ closed'[d] /\ buf'[d] + got'[d] = Expected[d]
    BY DEF Waiting, Alone
  <2>1. CASE d = c
    <3>1. m'[Sig[c]] = [owner |-> c, expected |-> Expected[c]] /\ Expected[c] \in Nat \ {0}
      BY ConstantsAssumption DEF IInv, TypeOK, Set
    <3>2. buf'[c] = 0 /\ got'[c] = 0
      BY DEF IInv, TypeOK, Set
    <3>3. m'[Sig[c]] # None
      BY <3>1, ConstantsAssumption
    <3> QED BY <2>1, <3>1, <3>2, <3>3
  <2>2. CASE d # c
    <3>1. Alone(d) => Sig[d] # Sig[c]
      BY <2>2 DEF Alone
    <3> QED BY <2>2, <3>1, ConstantsAssumption DEF IInv, TypeOK, Set, At, Waiting
  <2> QED BY <2>1, <2>2
<1>4. NoBlank'
  BY DEF IInv, TypeOK, NoBlank, Set, Alone
<1> QED BY <1>1, <1>2, <1>3, <1>4 DEF IInv

LEMMA DeliverInv ==
  ASSUME IInv, NEW s \in Sigs, m[s] # None, Deliver(s),
         UNCHANGED <<reads, pc>>, owed' \in [Callers -> 0..MaxOwed]
  PROVE  IInv'
<1> DEFINE o == m[s].owner
<1>1. o \in Callers /\ m[s].expected \in Nat /\ Sig[o] = s /\ m[s].expected > 0
  BY DEF IInv, TypeOK, Room
<1>2. /\ buf' = [buf EXCEPT ![o] = @ + 1] /\ buf'[o] = buf[o] + 1
      /\ \A d \in Callers : d # o => buf'[d] = buf[d]
  BY <1>1 DEF IInv, TypeOK, Deliver
<1>3. /\ m[s].expected = 1 => m'[s] = None
      /\ m[s].expected # 1 =>
           m'[s] = [owner |-> o, expected |-> m[s].expected - 1]
      /\ \A r \in Sigs : r # s => m'[r] = m[r]
  BY <1>1 DEF IInv, TypeOK, Deliver
<1>4. /\ m[s].expected = 1 => closed'[o]
      /\ m[s].expected # 1 => closed' = closed
      /\ \A d \in Callers : d # o => closed'[d] = closed[d]
  BY <1>1 DEF IInv, TypeOK, Deliver
<1>a. TypeOK'
  <2>1. m' \in [Sigs -> Entry \cup {None}]
    <3>1. m[s].expected # 1 => [owner |-> o, expected |-> m[s].expected - 1] \in Entry
      BY <1>1 DEF Entry
    <3>2. DOMAIN m' = Sigs /\ m' = [r \in Sigs |-> m'[r]]
      BY DEF IInv, TypeOK, Deliver
    <3> QED BY <1>3, <3>1, <3>2 DEF IInv, TypeOK, Entry
  <2>2. buf' \in [Callers -> Nat]
    BY <1>1, <1>2 DEF IInv, TypeOK
  <2>3. closed' \in [Callers -> BOOLEAN]
    BY <1>1 DEF IInv, TypeOK, Deliver
  <2> QED BY <2>1, <2>2, <2>3 DEF IInv, TypeOK, reads, Entry
<1>b. Room'
  <2> SUFFICES ASSUME NEW r \in Sigs, m'[r] # None
               PROVE  /\ Sig[m'[r].owner] = r /\ ~closed'[m'[r].owner] /\ m'[r].expected > 0
                      /\ buf'[m'[r].owner] + m'[r].expected <= Expected[m'[r].owner]
    BY DEF Room
  <2>1. CASE r = s
    <3>1. m'[r] = [owner |-> o, expected |-> m[s].expected - 1] /\ closed' = closed
          /\ m[s].expected # 1
      BY <2>1, <1>3, <1>4
    <3>2. buf[o] \in Nat /\ Expected[o] \in Nat /\ buf[o] + m[s].expected <= Expected[o]
          /\ ~closed[o]
      BY <1>1, ConstantsAssumption DEF IInv, TypeOK, Room
    <3> QED BY <1>1, <1>2, <2>1, <3>1, <3>2
  <2>2. CASE r # s
    <3>1. m'[r] = m[r] /\ m[r].owner # o /\ m[r].owner \in Callers
      BY <1>1, <1>3, <2>2 DEF IInv, TypeOK, Room
    <3> QED BY <1>2, <1>4, <3>1 DEF IInv, Room
  <2> QED BY <2>1, <2>2
<1>c. Waiting'
  <2> SUFFICES ASSUME NEW d \in Callers, pc[d] \in {"send", "wait"}, Alone(d)
               PROVE  \/ m'[Sig[d]] # None
                         /\ buf'[d] + got[d] + m'[Sig[d]].expected = Expected[d]
                      \/ m'[Sig[d]] = None /\ closed'[d] /\ buf'[d] + got[d] = Expected[d]
    BY DEF Waiting, Alone, IInv, reads
  <2>1. CASE Sig[d] = s
    <3>1. o = d
      BY <1>1, <2>1 DEF Alone
    <3>2. buf[d] + got[d] + m[s].expected = Expected[d] /\ buf[d] \in Nat /\ got[d] \in Nat
          /\ Expected[d] \in Nat
      BY <2>1, ConstantsAssumption DEF IInv, TypeOK, Waiting
    <3>3. CASE m[s].expected = 1
      BY <1>2, <1>3, <1>4, <2>1, <3>1, <3>2, <3>3
    <3>4. CASE m[s].expected # 1
      <4>1. m'[s] = [owner |-> o, expected |-> m[s].expected - 1]
        BY <1>3, <3>4
      <4>2. m'[s] # None
        BY <1>1, <3>4, <4>1, ConstantsAssumption
      <4> QED BY <1>1, <1>2, <2>1, <3>1, <3>2, <4>1, <4>2
    <3> QED BY <3>3, <3>4
  <2>2. CASE Sig[d] # s
    <3>1. o # d /\ Sig[d] \in Sigs
      BY <1>1, <2>2, ConstantsAssumption
    <3> QED BY <1>2, <1>3, <1>4, <2>2, <3>1 DEF IInv, Waiting
  <2> QED BY <2>1, <2>2
<1>5. NoBlank'
  BY DEF IInv, NoBlank, Alone, reads
<1> QED BY <1>a, <1>b, <1>c, <1>5 DEF IInv

LEMMA ReceiveInv == ASSUME IInv, NEW c \in Callers, Receive(c) PROVE IInv'
<1>1. got[c] < Expected[c]
  BY DEF IInv, Waiting, Receive
<1>2. TypeOK'
  <2>1. buf' \in [Callers -> Nat] /\ got' \in [Callers -> Nat]
    BY DEF IInv, TypeOK, Receive
  <2>2. \A d \in Callers : got'[d] <= Expected[d]
    <3>1. \A d \in Callers : got'[d] = IF d = c THEN got[c] + 1 ELSE got[d]
      BY DEF IInv, TypeOK, Receive
    <3> QED BY <1>1, <3>1, Constants DEF IInv, TypeOK
  <2>3. blank' \in [Callers -> BOOLEAN]
    BY Zenon DEF IInv, TypeOK, Receive
  <2>4. pc' \in [Callers -> {"idle", "send", "wait", "final", "giveup", "failed"}]
    BY DEF IInv, TypeOK, Receive, At
  <2> QED BY <2>1, <2>2, <2>3, <2>4 DEF IInv, TypeOK, Receive
<1>3. Room'
  <2>1. \A d \in Callers : buf[d] \in Nat /\ buf'[d] \in Nat /\ buf'[d] <= buf[d]
    BY DEF IInv, TypeOK, Receive
  <2>2. \A s \in Sigs : m[s] # None =>
          m[s].owner \in Callers /\ m[s].expected \in Nat /\ Expected[m[s].owner] \in Nat
    BY ConstantsAssumption DEF IInv, TypeOK
  <2>3. m' = m /\ closed' = closed
    BY DEF Receive
  <2> QED BY <2>1, <2>2, <2>3 DEF IInv, Room
<1>4. Alone(c) => buf[c] > 0
  <2> SUFFICES ASSUME Alone(c), closed[c] PROVE buf[c] > 0
    BY DEF Receive
  <2>1. m[Sig[c]] = None
    BY OwnEntry, ConstantsAssumption DEF IInv, Room
  <2> QED BY <1>1, <2>1, ConstantsAssumption DEF IInv, TypeOK, Waiting, Receive
<1>5. Waiting'
  <2> SUFFICES ASSUME NEW d \in Callers, pc'[d] \in {"send", "wait"}
               PROVE  /\ got'[d] < Expected[d]
                      /\ Alone(d) =>
                           \/ m[Sig[d]] # None
                              /\ buf'[d] + got'[d] + m[Sig[d]].expected = Expected[d]
                           \/ m[Sig[d]] = None /\ closed[d] /\ buf'[d] + got'[d] = Expected[d]
    BY DEF Waiting, Alone, Receive
  <2>1. CASE d = c
    <3>1. pc[c] = "wait" /\ got[c] + 1 # Expected[c] /\ got'[c] = got[c] + 1
      BY <2>1 DEF Receive, At, IInv, TypeOK
    <3>2. got'[c] < Expected[c]
      BY <1>1, <3>1, ConstantsAssumption DEF IInv, TypeOK
    <3>3. Alone(c) => buf'[c] + got'[c] = buf[c] + got[c]
      BY <1>4, <3>1, ConstantsAssumption DEF IInv, TypeOK, Receive
    <3>4. m[Sig[c]] # None => m[Sig[c]].expected \in Nat
      BY ConstantsAssumption DEF IInv, TypeOK
    <3> QED BY <2>1, <3>1, <3>2, <3>3, <3>4, ConstantsAssumption DEF IInv, Waiting
  <2>2. CASE d # c
    BY <2>2, ConstantsAssumption DEF IInv, TypeOK, Receive, At, Waiting
  <2> QED BY <2>1, <2>2
<1>6. NoBlank'
  BY <1>4 DEF IInv, TypeOK, NoBlank, Receive, Alone
<1> QED BY <1>2, <1>3, <1>5, <1>6 DEF IInv

LEMMA RemoveInv == ASSUME IInv, NEW c \in Callers, Remove(c) PROVE IInv'
<1>1. TypeOK'
  BY ConstantsAssumption DEF IInv, TypeOK, Remove, RemoveSignature, At, reads
<1>2. Room'
  <2>1. \A s \in Sigs : s # Sig[c] /\ m[s] # None /\ m[Sig[c]] # None =>
          m[s].owner # m[Sig[c]].owner
    BY ConstantsAssumption DEF IInv, Room
  <2> QED BY <2>1, ConstantsAssumption DEF IInv, TypeOK, Room, Remove, RemoveSignature
<1>3. Waiting'
  <2> SUFFICES ASSUME NEW d \in Callers, d # c, pc[d] \in {"send", "wait"}
               PROVE  /\ got[d] < Expected[d]
                      /\ Alone(d) =>
                           \/ m'[Sig[d]] # None
                              /\ buf[d] + got[d] + m'[Sig[d]].expected = Expected[d]
                           \/ m'[Sig[d]] = None /\ closed'[d] /\ buf[d] + got[d] = Expected[d]
    BY DEF Waiting, Alone, Remove, At, reads, IInv, TypeOK
  <2>1. Alone(d) => Sig[d] # Sig[c] /\ m'[Sig[d]] = m[Sig[d]]
    BY ConstantsAssumption DEF Alone, Remove, RemoveSignature, IInv, TypeOK
  <2>2. closed[d] => closed'[d]
    BY ConstantsAssumption DEF Remove, RemoveSignature, IInv, TypeOK
  <2> QED BY <2>1, <2>2 DEF IInv, Waiting
<1>4. NoBlank'
  BY DEF IInv, NoBlank, Remove, Alone, reads
<1> QED BY <1>1, <1>2, <1>3, <1>4 DEF IInv

\* Steps that only move a caller, or answers that find no entry.
LEMMA MoveInv ==
  ASSUME IInv, UNCHANGED <<m, channels, reads>>, owed' \in [Callers -> 0..MaxOwed],
         pc' \in [Callers -> {"idle", "send", "wait", "final", "giveup", "failed"}],
         \A d \in Callers : pc'[d] \in {"send", "wait"} => pc[d] \in {"send", "wait"}
  PROVE  IInv'
  BY DEF IInv, TypeOK, Room, Waiting, NoBlank, Alone, channels, reads

LEMMA StepInv == IInv /\ [Next]_vars => IInv'
<1> SUFFICES ASSUME IInv, [Next]_vars PROVE IInv'
  OBVIOUS
<1>1. ASSUME NEW c \in Callers, Set(c) PROVE IInv'
  BY <1>1, SetInv
<1>2. ASSUME NEW c \in Callers, Send(c) PROVE IInv'
  <2>1. owed' \in [Callers -> 0..MaxOwed]
    <3>1. owed[c] \in 0..MaxOwed /\ Expected[c] \in Nat /\ MaxOwed \in Nat
      BY Constants DEF IInv, TypeOK
    <3>2. (IF owed[c] + Expected[c] <= MaxOwed THEN owed[c] + Expected[c] ELSE MaxOwed)
            \in 0..MaxOwed
      BY <3>1
    <3> QED BY <1>2, <3>2 DEF Send, IInv, TypeOK
  <2> QED BY <1>2, <2>1, MoveInv DEF Send, At, IInv, TypeOK
<1>3. ASSUME NEW c \in Callers, SendFails(c) PROVE IInv'
  BY <1>3, MoveInv DEF SendFails, At, IInv, TypeOK
<1>4. ASSUME NEW c \in Callers, Receive(c) PROVE IInv'
  BY <1>4, ReceiveInv
<1>5. ASSUME NEW c \in Callers, GiveUp(c) PROVE IInv'
  BY <1>5, MoveInv DEF GiveUp, At, IInv, TypeOK
<1>6. ASSUME NEW c \in Callers, Remove(c) PROVE IInv'
  BY <1>6, RemoveInv
<1>7. ASSUME NEW c \in Callers, Incoming(c) PROVE IInv'
  <2>1. owed' \in [Callers -> 0..MaxOwed] /\ Sig[c] \in Sigs
    <3>1. owed[c] \in 0..MaxOwed /\ owed[c] > 0 /\ MaxOwed \in Nat /\ Sig[c] \in Sigs
      BY <1>7, Constants DEF IInv, TypeOK, Incoming
    <3>2. owed[c] - 1 \in 0..MaxOwed
      BY <3>1
    <3> QED BY <1>7, <3>1, <3>2 DEF Incoming, IInv, TypeOK
  <2>2. CASE m[Sig[c]] = None
    BY <1>7, <2>1, <2>2, MoveInv DEF Incoming, IInv, TypeOK, reads
  <2>3. CASE m[Sig[c]] # None
    BY <1>7, <2>1, <2>3, DeliverInv DEF Incoming
  <2> QED BY <2>2, <2>3
<1>8. ASSUME NEW c \in Callers, Lost(c) PROVE IInv'
  BY <1>8, MoveInv, ConstantsAssumption DEF Lost, IInv, TypeOK
<1>9. CASE UNCHANGED vars
  BY <1>9, MoveInv DEF vars, IInv, TypeOK, channels, reads
<1> QED BY <1>1, <1>2, <1>3, <1>4, <1>5, <1>6, <1>7, <1>8, <1>9 DEF Next, Call

LEMMA Invariant == Spec => []IInv
<1>1. Init => IInv
  BY InitInv
<1>2. IInv /\ [Next]_vars => IInv'
  BY StepInv
<1> QED BY <1>1, <1>2, PTL DEF Spec

\* Every variable keeps its type; no caller reads more answers than it expects.
THEOREM TypeCorrect == Spec => []TypeOK
<1>1. IInv => TypeOK
  BY DEF IInv
<1> QED BY <1>1, Invariant, PTL

\* However answers, time-outs and new requests under the same signature interleave, the reader
\* of the stream never blocks on a full channel, sends on a closed one or closes one twice.
THEOREM RoomAlways == Spec => []Room
<1>1. IInv => Room
  BY DEF IInv
<1> QED BY <1>1, Invariant, PTL

\* A caller whose signature nobody else uses reads answers only, never the zero value.
THEOREM NoBlankAlways == Spec => []NoBlank
<1>1. IInv => NoBlank
  BY DEF IInv
<1> QED BY <1>1, Invariant, PTL
=============================================================================
