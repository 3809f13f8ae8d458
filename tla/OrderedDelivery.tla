-------------------------- MODULE OrderedDelivery --------------------------
(***************************************************************************)
(* What the service under test may count on: the requests of a run arrive  *)
(* in the order of its steps, none twice, and once the run is closed       *)
(* nothing arrives.                                                        *)
(***************************************************************************)
EXTENDS Naturals, Sequences

CONSTANT N   \* number of steps of the run

VARIABLES
  wire,   \* positions delivered so far, in order
  open    \* whether another request may come

Init == wire = <<>> /\ open = TRUE

Deliver(i) ==
  /\ open
  /\ \A k \in DOMAIN wire : wire[k] < i
  /\ wire' = Append(wire, i)
  /\ UNCHANGED open

Close == open /\ open' = FALSE /\ UNCHANGED wire

Next == (\E i \in 1..N : Deliver(i)) \/ Close

Spec == Init /\ [][Next]_<<wire, open>>

=============================================================================
