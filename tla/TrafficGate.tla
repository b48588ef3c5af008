----------------------------- MODULE TrafficGate -----------------------------
(***************************************************************************)
(* What the containment gate promises its users, with every call atomic:   *)
(* whether torrent traffic is permitted, and a count of cancellation edges *)
(* that data-plane tasks compare with the count they were born under.      *)
(***************************************************************************)
EXTENDS Naturals

VARIABLES open,     \* traffic is permitted
          stopped,  \* the process is stopping
          edges     \* cancellation edges so far

vars == <<open, stopped, edges>>

Init == open \in BOOLEAN /\ stopped = FALSE /\ edges = 0

\* Permit traffic; an edge only when traffic was denied.
Allow ==
  /\ ~stopped
  /\ ~open
  /\ open' = TRUE
  /\ edges' = edges + 1
  /\ UNCHANGED stopped

\* Deny traffic; always an edge, also when traffic was already denied.
Block ==
  /\ open' = FALSE
  /\ edges' = edges + 1
  /\ UNCHANGED stopped

\* Deny traffic for good.
Stop ==
  /\ stopped' = TRUE
  /\ open' = FALSE
  /\ edges' = edges + 1

\* A recovery that lost the race against Stop is one more edge and no more.
LateAllow ==
  /\ stopped
  /\ edges' = edges + 1
  /\ UNCHANGED <<open, stopped>>

Next == Allow \/ Block \/ Stop \/ LateAllow

Spec == Init /\ [][Next]_vars

=============================================================================
