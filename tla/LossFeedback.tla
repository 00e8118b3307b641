---------------------------- MODULE LossFeedback ----------------------------
(***************************************************************************)
(* QuicFuscateConnection::update_state of src/src/core.rs between the      *)
(* statistics of the connection and the loss estimator of the FEC layer:   *)
(* it reports the totals of packets lost and sent.  That lost never        *)
(* exceeds sent is what Recovery shows.                                    *)
(***************************************************************************)
EXTENDS LossEstimator

CONSTANT MaxSent       \* bound: packets sent

VARIABLES
  sent, lost,          \* conn.stats()
  since, latest        \* history: <<lost, sent>> since the last report, and of the
                       \* packets that the last report was the first to cover

vars == <<estimator, sent, lost, since, latest>>

Init == NewEstimator /\ sent = 0 /\ lost = 0 /\ since = <<0, 0>> /\ latest = <<0, 0>>

(* quiche sends a packet, which is lost or is not. *)
PacketSent ==
  /\ sent < MaxSent
  /\ sent' = sent + 1
  /\ \E n \in {0, 1} : lost' = lost + n /\ since' = <<since[1] + n, since[2] + 1>>
  /\ UNCHANGED <<estimator, latest>>

update_state ==
  /\ report_loss(<<lost, sent>>)
  /\ latest' = since /\ since' = <<0, 0>>
  /\ UNCHANGED <<sent, lost>>

Next == PacketSent \/ update_state
Spec == Init /\ [][Next]_vars

-----------------------------------------------------------------------------
(* get_estimated_loss: the larger of the average and the share of losses   *)
(* in the window, here as being at least rate.                             *)
EstimateAtLeast(rate) ==
  \/ ema_loss_rate >= rate * Scale
  \/ burst_window # <<>> /\ RateUnit * Cardinality(Losses) >= rate * Len(burst_window)

(* A burst is estimated as one: if all the packets sent between the last   *)
(* two reports were lost, and they would fill the window, the estimate is  *)
(* 100 %.                                                                  *)
BurstSeen ==
  latest[1] = latest[2] /\ latest[2] >= burst_capacity => EstimateAtLeast(RateUnit)
=============================================================================
