----------------------------- MODULE PacketFate -----------------------------
(***************************************************************************)
(* What loss recovery promises the rest of the connection about the        *)
(* packets it was told of: the frames of a packet are reported acked once, *)
(* or reported lost once, never both, or are forgotten together with the   *)
(* keys of their packet number space; until then the packet, and nothing   *)
(* else, counts as in flight.                                              *)
(***************************************************************************)
EXTENDS Integers, FiniteSets, Functions

CONSTANT Size    \* bytes in flight of a packet, by what it carries

VARIABLES
  kind,       \* per packet number sent so far, what the packet carries
  fate,       \* per packet number sent so far, its fate
  inFlight    \* bytes in flight

vars == <<kind, fate, inFlight>>

Bytes(S) == SumFunction([n \in S |-> Size[kind[n]]])

Outstanding == {n \in DOMAIN fate : fate[n] = "outstanding"}

Init ==
  /\ kind = [n \in {} |-> "data"]
  /\ fate = [n \in {} |-> "acked"]
  /\ inFlight = 0

Send ==
  \E n \in DOMAIN fate' \ DOMAIN fate, k \in DOMAIN Size :
    /\ \A m \in DOMAIN fate : m < n
    /\ kind' = [m \in DOMAIN kind \cup {n} |-> IF m = n THEN k ELSE kind[m]]
    /\ fate' = [m \in DOMAIN fate \cup {n} |-> IF m = n THEN "outstanding" ELSE fate[m]]
    /\ inFlight' = inFlight + Size[k]

(* Packets meet their fate, each for good. *)
Settle ==
  /\ DOMAIN fate' = DOMAIN fate
  /\ \A n \in DOMAIN fate :
       fate'[n] \in IF n \in Outstanding
                    THEN {"outstanding", "acked", "lost", "dropped"} ELSE {fate[n]}
  /\ inFlight' = Bytes({n \in DOMAIN fate' : fate'[n] = "outstanding"})
  /\ UNCHANGED kind

Next == Send \/ Settle
Spec == Init /\ [][Next]_vars
=============================================================================
