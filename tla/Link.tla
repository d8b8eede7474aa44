-------------------------------- MODULE Link --------------------------------
(***************************************************************************)
(* What a websocket promises the exchange wrappers that use it: a link is  *)
(* opened, comes up or is given up, and is taken down.  Connections belong *)
(* to the link they were added to while it was opened or up.  A link that  *)
(* was up counts as down again only once nothing is read at all, and a new *)
(* one is opened only once nothing of the last one is read.  What may be   *)
(* read beside a link are strays: connections of an attempt that was given *)
(* up, and connections added while the link was closing or down.  The      *)
(* exchange may end a connection at any time.                              *)
(***************************************************************************)

CONSTANT Conns      \* connections

VARIABLES
  phase,     \* of the link
  reading,   \* connections that a goroutine reads from
  stray      \* those of them that belong to no link

linkVars == <<phase, reading, stray>>

Phases == {"down", "opening", "up", "closing"}

Init == phase = "down" /\ reading = {} /\ stray = {}

\* Nothing of the last link is read any more.
Open ==
  /\ phase = "down" /\ reading \subseteq stray
  /\ phase' = "opening" /\ UNCHANGED <<reading, stray>>

Establish == phase = "opening" /\ phase' = "up" /\ UNCHANGED <<reading, stray>>

\* A link that is given up leaves its readers to end by themselves.
GiveUp ==
  /\ phase = "opening" /\ phase' = "down"
  /\ stray' = stray \cup reading /\ UNCHANGED reading

Close == phase = "up" /\ phase' = "closing" /\ UNCHANGED <<reading, stray>>

\* Nothing at all is read any more.
Closed ==
  /\ phase = "closing" /\ reading = {}
  /\ phase' = "down" /\ UNCHANGED <<reading, stray>>

Read(c) ==
  /\ phase \in {"opening", "up"} /\ c \notin reading
  /\ reading' = reading \cup {c} /\ UNCHANGED <<phase, stray>>

\* A connection is added to a link that is closing or down.
Stray(c) ==
  /\ phase \in {"closing", "down"} /\ c \notin reading
  /\ reading' = reading \cup {c} /\ stray' = stray \cup {c} /\ UNCHANGED phase

Drop(c) ==
  /\ c \in reading
  /\ reading' = reading \ {c} /\ stray' = stray \ {c} /\ UNCHANGED phase

Next ==
  \/ Open \/ Establish \/ GiveUp \/ Close \/ Closed
  \/ \E c \in Conns : Read(c) \/ Stray(c) \/ Drop(c)

Spec == Init /\ [][Next]_linkVars
=============================================================================
