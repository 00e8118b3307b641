------------------------------ MODULE Recovery ------------------------------
(***************************************************************************)
(* Loss recovery of the vendored quiche for one path: GRecovery of         *)
(* recovery/gcongestion/recovery.rs, the recovery that BBRv2 connections   *)
(* have, with the calls of lib.rs that drive it (send_single, the ACK arm  *)
(* of process_frame, on_timeout, drop_epoch_state, set_active_path).       *)
(*                                                                         *)
(* Packet number spaces: ini, whose keys are gone, hs and app.  Each data  *)
(* packet carries one chunk, of CRYPTO or STREAM data; Chunks[e] are the   *)
(* chunks there are to send in space e.  What sending data again means for *)
(* a stream is in Stream; the congestion window is taken as open.          *)
(*                                                                         *)
(* Time is abstract.  Packets are sent in the order of their numbers, so   *)
(* the packets old enough to be lost are those up to some number, which    *)
(* every call of the loss detection chooses (aged); a time stored is the   *)
(* number of the packet it is derived from.                                *)
(***************************************************************************)
EXTENDS Integers, Sequences, FiniteSets, SequencesExt, FiniteSetsExt

CONSTANTS
  Chunks,                    \* per space, the chunks to send in it
  INITIAL_PACKET_THRESHOLD,  \* 3 in the code
  MAX_PACKET_THRESHOLD,      \* 20 in the code
  MaxPackets,                \* bound: packets sent
  MaxOther,                  \* bound: of these, packets of ACK frames and MTU probes
  None                       \* Option::None

MAX_PTO_PROBES_COUNT == 2

ASSUME ThresholdAssumption ==
  /\ INITIAL_PACKET_THRESHOLD \in Nat \ {0}
  /\ MAX_PACKET_THRESHOLD \in Nat /\ INITIAL_PACKET_THRESHOLD <= MAX_PACKET_THRESHOLD
ASSUME ChunksAssumption ==
  /\ DOMAIN Chunks = {"ini", "hs", "app"}
  /\ Chunks.ini = {} /\ Chunks.hs # {} /\ Chunks.hs \cap Chunks.app = {}
ASSUME NoneAssumption == None \notin Nat /\ None \notin Chunks.hs \cup Chunks.app
ASSUME PacketBound == MaxPackets \in Nat /\ MaxOther \in Nat

VARIABLES
  epochs,        \* per space, a RecoveryEpoch
  timer,         \* loss_timer is set
  pto_count,     \* up to MAX_PTO_PROBES_COUNT
  pkt_thresh,
  bytes_in_flight,
  hs,            \* the handshake: [server, verified, completed, keys]
  next_pkt_num,
  pending,       \* chunks to be sent, for the first time or again
  acked,         \* chunks acked
  lost_count,    \* the connection's count of packets lost
  kind, fate     \* history: what each packet carries and how it ended

recovery == <<epochs, timer, pto_count, pkt_thresh, bytes_in_flight>>
conn == <<hs, next_pkt_num, pending, acked, lost_count>>
vars == <<recovery, conn, kind, fate>>

Spaces == {"ini", "hs", "app"}

(* What a packet carries, and its bytes in flight: ACK frames alone do not *)
(* count.  (Padded, on a path that is not validated, they are in flight    *)
(* with no bytes; this is left out, the path here is validated.)           *)
Size == [data |-> 2, ping |-> 1, mtu |-> 1, ack |-> 0]

-----------------------------------------------------------------------------
(* RecoveryEpoch *)

NewEpoch ==
  [sent_packets |-> <<>>, largest_acked |-> None, loss_time |-> None,
   loss_probes |-> 0, pkts_in_flight |-> 0, lost_frames |-> {}]

Sent(p) == p.status = "sent"
in_flight(p) == Size[p.kind] > 0
sent_bytes(S) == SumFunction([p \in S |-> Size[p.kind]])
CountInFlight(S) == Cardinality({p \in S : in_flight(p)})
Frames(S) == {p.chunk : p \in {q \in S : q.kind = "data"}}

(* Packets whose fate is settled go, but only from the front. *)
drain_acked_and_lost_packets(seq) ==
  LET kept == {i \in DOMAIN seq : Sent(seq[i])}
  IN  IF kept = {} THEN <<>> ELSE SubSeq(seq, Min(kept), Len(seq))

Become(seq, nums, status) ==
  [i \in DOMAIN seq |-> IF seq[i].pkt_num \in nums THEN [seq[i] EXCEPT !.status = status]
                        ELSE seq[i]]

Packets(ep) == Range(ep.sent_packets)
Numbers(S) == {p.pkt_num : p \in S}

(* detect_and_remove_acked_packets: the packets newly acked, and the ones  *)
(* acked after they were declared lost.                                    *)
NewlyAckedLate(ep, nums) ==             \* mutant: a lost packet too is newly acked
  {p \in Packets(ep) : p.pkt_num \in nums /\ p.status # "acked"}
NewlyAcked(ep, nums) == {p \in Packets(ep) : p.pkt_num \in nums /\ Sent(p)}
Spurious(ep, nums) == {p \in Packets(ep) : p.pkt_num \in nums /\ p.status = "lost"}

detect_and_remove_acked_packets(ep, nums) ==
  [ep EXCEPT !.pkts_in_flight = @ - CountInFlight(NewlyAcked(ep, nums)),
             !.sent_packets = drain_acked_and_lost_packets(Become(@, nums, "acked"))]

SpuriousThresh(ep, nums) ==
  LET largest == Max(nums \cup ({ep.largest_acked} \ {None}))
  IN  IF Spurious(ep, nums) = {} THEN 0
      ELSE largest - Min(Numbers(Spurious(ep, nums))) + 1

(* detect_and_remove_lost_packets: from the oldest packet on, as long as   *)
(* they are lost, packets up to the largest acked one; the first that is   *)
(* not lost sets loss_time.                                                *)
LargestAcked(ep) == IF ep.largest_acked = None THEN 0 ELSE ep.largest_acked
Candidates(ep) == {p \in Packets(ep) : Sent(p) /\ p.pkt_num <= LargestAcked(ep)}
IsLost(ep, p, thresh, aged) ==
  p.pkt_num <= aged \/ LargestAcked(ep) >= p.pkt_num + thresh
Survivors(ep, thresh, aged) == {p \in Candidates(ep) : ~IsLost(ep, p, thresh, aged)}
NewlyLost(ep, thresh, aged) ==
  {p \in Candidates(ep) : \A q \in Survivors(ep, thresh, aged) : p.pkt_num < q.pkt_num}

(* mutant: lost frames that wait to be sent again are overwritten *)
detect_lost_replacing(ep, thresh, aged) ==
  LET lost == NewlyLost(ep, thresh, aged)
      left == Survivors(ep, thresh, aged)
  IN  [ep EXCEPT !.loss_time = IF left = {} THEN None ELSE Min(Numbers(left)),
                 !.lost_frames = Frames(lost),
                 !.pkts_in_flight = @ - CountInFlight(lost),
                 !.sent_packets = Become(@, Numbers(lost), "lost")]

detect_and_remove_lost_packets(ep, thresh, aged) ==
  LET lost == NewlyLost(ep, thresh, aged)
      left == Survivors(ep, thresh, aged)
  IN  [ep EXCEPT !.loss_time = IF left = {} THEN None ELSE Min(Numbers(left)),
                 !.lost_frames = @ \cup Frames(lost),
                 !.pkts_in_flight = @ - CountInFlight(lost),
                 !.sent_packets = Become(@, Numbers(lost), "lost")]

CountedBytes(S) == sent_bytes(S)        \* mutant: the pair of totals is swapped

(* Losses of MTU probes are not counted. *)
Counted(S) == Cardinality({p \in S : p.kind # "mtu"})

-----------------------------------------------------------------------------
(* Timers.  Which of several times is the earliest is left open. *)

(* loss_time_and_space compares an Option with <, for which None is the    *)
(* least: a space that has no loss time masks the spaces before it.        *)
LossSpaces(eps) ==
  IF eps.app.loss_time = None THEN {}
  ELSE IF eps.hs.loss_time = None THEN {"app"} ELSE {"hs", "app"}

(* mutant: the application's data waits for the end of the handshake *)
PtoSpacesConfirmed(eps, h) ==
  {e \in Spaces : eps[e].pkts_in_flight > 0 /\ (e = "app" => ~h.keys)}

(* pto_time_and_space: the spaces it may answer, none if no time; data of  *)
(* the application waits for the handshake.                                *)
PtoSpaces(eps, h) ==
  {e \in Spaces : eps[e].pkts_in_flight > 0 /\ (e = "app" => h.completed)}

set_loss_detection_timer(eps, bytes, h) ==
  IF LossSpaces(eps) # {} THEN TRUE
  ELSE IF bytes = 0 /\ h.verified THEN FALSE
  ELSE IF bytes = 0 THEN TRUE
  ELSE timer \/ PtoSpaces(eps, h) # {}

-----------------------------------------------------------------------------
(* Sending, as send_single does it. *)

HasKeys(e) == e = "app" \/ (e = "hs" /\ hs.keys)
ToSend(e) == ((pending \cup epochs[e].lost_frames) \cap Chunks[e]) \ acked
Ready(e) == HasKeys(e) /\ (ToSend(e) # {} \/ epochs[e].lost_frames # {} \/ epochs[e].loss_probes > 0)

Sends(e, k, chunk) ==
  LET pkt == [pkt_num |-> next_pkt_num, kind |-> k, chunk |-> chunk, status |-> "sent"]
      probes == epochs[e].loss_probes
      eps == [epochs EXCEPT
                ![e].sent_packets = Append(@, pkt),
                ![e].lost_frames = {},
                ![e].loss_probes = IF k \in {"data", "ping"} /\ @ > 0 THEN @ - 1 ELSE @,
                ![e].pkts_in_flight = IF in_flight(pkt) THEN @ + 1 ELSE @]
  IN  /\ next_pkt_num < MaxPackets
      /\ epochs' = eps
      /\ bytes_in_flight' = bytes_in_flight + Size[k]
      /\ timer' = IF in_flight(pkt) THEN set_loss_detection_timer(eps, bytes_in_flight', hs)
                  ELSE timer
      /\ next_pkt_num' = next_pkt_num + 1
      /\ pending' = (pending \cup ToSend(e)) \ {chunk}
      /\ kind' = [n \in DOMAIN kind \cup {next_pkt_num} |-> IF n = next_pkt_num THEN k ELSE kind[n]]
      /\ fate' = [n \in DOMAIN fate \cup {next_pkt_num} |->
                    IF n = next_pkt_num THEN "outstanding" ELSE fate[n]]
      /\ UNCHANGED <<pto_count, pkt_thresh, hs, acked, lost_count>>

(* A space with lost frames, probes to send or data goes before the ones   *)
(* after it.                                                               *)
SendData(e) ==
  /\ HasKeys(e) /\ (e = "app" => ~Ready("hs"))
  /\ \E c \in ToSend(e) : Sends(e, "data", c)

SendPing(e) ==
  /\ Ready(e) /\ (e = "app" => ~Ready("hs"))
  /\ ToSend(e) = {} /\ epochs[e].loss_probes > 0
  /\ Sends(e, "ping", None)

(* Lost frames whose data was acked meanwhile make no packet. *)
SendNothing(e) ==
  /\ Ready(e) /\ (e = "app" => ~Ready("hs"))
  /\ ToSend(e) = {} /\ epochs[e].loss_probes = 0
  /\ epochs' = [epochs EXCEPT ![e].lost_frames = {}]
  /\ UNCHANGED <<timer, pto_count, pkt_thresh, bytes_in_flight, conn, kind, fate>>

(* A packet of ACK frames only, or a probe of the path's MTU. *)
SendOther(k) ==
  /\ ~Ready("hs") /\ ~Ready("app")
  /\ k = "mtu" => hs.completed
  /\ Cardinality({n \in DOMAIN kind : kind[n] \in {"ack", "mtu"}}) < MaxOther
  /\ Sends("app", k, None)

-----------------------------------------------------------------------------
Settled(nums, f) == [n \in DOMAIN fate |-> IF n \in nums THEN f ELSE fate[n]]

(* An ACK frame that newly acks no packet may still tell that losses were  *)
(* spurious.                                                               *)
StaleAck(e, nums) ==
  /\ HasKeys(e) /\ NewlyAcked(epochs[e], nums) = {}
  /\ epochs' = [epochs EXCEPT ![e] = detect_and_remove_acked_packets(@, nums)]
  /\ pkt_thresh' = Max({pkt_thresh, Min({SpuriousThresh(epochs[e], nums), MAX_PACKET_THRESHOLD})})
  /\ hs' = [hs EXCEPT !.verified = @ \/ e = "hs" \/ hs.completed]
  /\ UNCHANGED <<timer, pto_count, bytes_in_flight, next_pkt_num, pending, acked, lost_count,
                 kind, fate>>

on_ack_received(e, nums, aged) ==
  LET new == NewlyAcked(epochs[e], nums)
      thresh == Max({pkt_thresh, Min({SpuriousThresh(epochs[e], nums), MAX_PACKET_THRESHOLD})})
      ep == [detect_and_remove_acked_packets(epochs[e], nums) EXCEPT
               !.largest_acked = Max(Numbers(new) \cup ({@} \ {None}))]
      lost == NewlyLost(ep, thresh, aged)
  IN  /\ HasKeys(e) /\ new # {}
      /\ epochs' = [epochs EXCEPT ![e] = detect_and_remove_lost_packets(ep, thresh, aged)]
      /\ pkt_thresh' = thresh /\ pto_count' = 0
      /\ bytes_in_flight' = Max({0, Max({0, bytes_in_flight - sent_bytes(new)}) - sent_bytes(lost)})
      /\ hs' = [hs EXCEPT !.verified = @ \/ e = "hs" \/ hs.completed]
      /\ timer' = set_loss_detection_timer(epochs', bytes_in_flight', hs')
      /\ acked' = acked \cup Frames(new)
      /\ lost_count' = lost_count + Counted(lost)
      /\ fate' = [n \in DOMAIN fate |-> IF n \in Numbers(new) THEN "acked"
                                      ELSE IF n \in Numbers(lost) THEN "lost" ELSE fate[n]]
      /\ UNCHANGED <<next_pkt_num, pending, kind>>

(* The timer fires for a loss time, at which that packet is old enough. *)
LossTimeout(e, aged) ==
  LET lost == NewlyLost(epochs[e], pkt_thresh, aged)
  IN  /\ timer /\ e \in LossSpaces(epochs) /\ aged >= epochs[e].loss_time
      /\ epochs' = [epochs EXCEPT ![e] = detect_and_remove_lost_packets(@, pkt_thresh, aged)]
      /\ bytes_in_flight' = Max({0, bytes_in_flight - sent_bytes(lost)})
      /\ timer' = set_loss_detection_timer(epochs', bytes_in_flight', hs)
      /\ lost_count' = lost_count + Counted(lost)
      /\ fate' = Settled(Numbers(lost), "lost")
      /\ UNCHANGED <<pto_count, pkt_thresh, hs, next_pkt_num, pending, acked, kind>>

(* The space that is probed: without anything in flight, one whose packets *)
(* let the peer go on; ini if none has a time.                             *)
ProbedSpaces ==
  IF bytes_in_flight = 0 THEN IF hs.keys THEN {"hs"} ELSE {"ini"}
  ELSE IF PtoSpaces(epochs, hs) = {} THEN {"ini"} ELSE PtoSpaces(epochs, hs)

(* The data of the n oldest packets that have some. *)
Oldest(ep, n) ==
  LET data == {p \in Packets(ep) : Sent(p) /\ p.kind = "data"}
  IN  {p \in data : Cardinality({q \in data : q.pkt_num < p.pkt_num}) < n}

(* The probe timeout: packets are not declared lost, the data of the       *)
(* oldest is scheduled again.                                              *)
ProbeTimeout(e) ==
  LET probes == Min({pto_count + 1, MAX_PTO_PROBES_COUNT})
  IN  /\ timer /\ LossSpaces(epochs) = {} /\ e \in ProbedSpaces
      /\ pto_count' = probes
      /\ epochs' = [epochs EXCEPT ![e].loss_probes = probes,
                                  ![e].lost_frames = @ \cup Frames(Oldest(epochs[e], probes))]
      /\ timer' = set_loss_detection_timer(epochs', bytes_in_flight, hs)
      /\ UNCHANGED <<pkt_thresh, bytes_in_flight, conn, kind, fate>>

(* set_active_path: the path that was active looks for lost packets in     *)
(* every space, and leaves its timer alone.                                *)
on_path_change(aged) ==
  LET lost == UNION {NewlyLost(epochs[e], pkt_thresh, aged) : e \in Spaces}
  IN  /\ hs.completed
      /\ epochs' = [e \in Spaces |-> detect_and_remove_lost_packets(epochs[e], pkt_thresh, aged)]
      /\ bytes_in_flight' = Max({0, bytes_in_flight - sent_bytes(lost)})
      /\ lost_count' = lost_count + Counted(lost)
      /\ fate' = Settled(Numbers(lost), "lost")
      /\ UNCHANGED <<timer, pto_count, pkt_thresh, hs, next_pkt_num, pending, acked, kind>>

-----------------------------------------------------------------------------
(* drop_epoch_state of the Handshake space *)
discard(ep) ==
  [ep EXCEPT !.sent_packets = <<>>, !.loss_time = None, !.loss_probes = 0, !.pkts_in_flight = 0]

DropHandshake(h) ==
  LET dropped == {p \in Packets(epochs.hs) : Sent(p)}
  IN  /\ hs' = [h EXCEPT !.keys = FALSE]
      /\ epochs' = [epochs EXCEPT !.hs = discard(@)]
      /\ bytes_in_flight' = Max({0, bytes_in_flight - sent_bytes(dropped)})
      /\ timer' = set_loss_detection_timer(epochs', bytes_in_flight', hs')
      /\ pending' = pending \ Chunks.hs
      /\ fate' = Settled(Numbers(dropped), "dropped")
      /\ UNCHANGED <<pto_count, pkt_thresh, next_pkt_num, acked, lost_count, kind>>

(* The handshake completes.  A server is done with its flight, whatever of *)
(* it was still to be sent again; a client has its last flight to send,    *)
(* and is done when HANDSHAKE_DONE arrives.                                *)
ServerCompletes ==
  /\ hs.server /\ ~hs.completed
  /\ DropHandshake([hs EXCEPT !.completed = TRUE])

ClientCompletes ==
  /\ ~hs.server /\ ~hs.completed
  /\ hs' = [hs EXCEPT !.completed = TRUE]
  /\ pending' = pending \cup Chunks.hs
  /\ UNCHANGED <<recovery, next_pkt_num, acked, lost_count, kind, fate>>

HandshakeDone ==
  /\ ~hs.server /\ hs.completed /\ hs.keys
  /\ DropHandshake([hs EXCEPT !.verified = TRUE])

-----------------------------------------------------------------------------
Init ==
  /\ epochs = [e \in Spaces |-> NewEpoch]
  /\ timer = FALSE /\ pto_count = 0 /\ pkt_thresh = INITIAL_PACKET_THRESHOLD
  /\ bytes_in_flight = 0
  /\ \E server \in BOOLEAN :
       /\ hs = [server |-> server, verified |-> server, completed |-> FALSE, keys |-> TRUE]
       /\ pending = Chunks.app \cup (IF server THEN Chunks.hs ELSE {})
  /\ next_pkt_num = 0 /\ acked = {} /\ lost_count = 0
  /\ kind = <<>> /\ fate = <<>>

Ages(e) == {-1} \cup Numbers({p \in Packets(epochs[e]) : Sent(p)})

Next ==
  \/ \E e \in {"hs", "app"} :
       \/ SendData(e) \/ SendPing(e) \/ SendNothing(e)
       \/ \E nums \in (SUBSET Numbers(Packets(epochs[e]))) \ {{}} :
            StaleAck(e, nums) \/ \E aged \in Ages(e) : on_ack_received(e, nums, aged)
       \/ \E aged \in Ages(e) : LossTimeout(e, aged)
  \/ \E k \in {"ack", "mtu"} : SendOther(k)
  \/ \E e \in Spaces : ProbeTimeout(e)
  \/ \E aged \in Ages("app") \cup Ages("hs") : on_path_change(aged)
  \/ ServerCompletes \/ ClientCompletes \/ HandshakeDone

Spec == Init /\ [][Next]_vars

-----------------------------------------------------------------------------
(* GRecovery keeps the promise of PacketFate: whatever is acked late,      *)
(* probed, reordered or dropped with its keys, the frames of a packet are  *)
(* handed out once, as acked or as lost, and bytes_in_flight counts        *)
(* exactly the packets still to be decided.                                *)
Fate == INSTANCE PacketFate WITH inFlight <- bytes_in_flight

ImplementsFate == Fate!Spec

(* Every chunk is acked, or still to be sent, or in a packet that will be  *)
(* acked or lost: no data falls between the queues, though settled packets *)
(* are removed from the front only and lost frames wait for the next send. *)
Available(e) == HasKeys(e) /\ (e = "hs" => hs.server \/ hs.completed)
NothingForgotten ==
  \A e \in {"hs", "app"} : Available(e) =>
    Chunks[e] \subseteq acked \cup pending \cup epochs[e].lost_frames \cup
                        Frames({p \in Packets(epochs[e]) : Sent(p)})

(* An endpoint that waits for an ACK and has nothing to send has its timer *)
(* set, so that the loss of the packet, or of the ACK, is noticed.  Data   *)
(* of the application is waited for only once the handshake is completed.  *)
TimerArmed ==
  (\A e \in {"hs", "app"} : ~Ready(e)) /\
  (\E e \in Spaces, p \in UNION {Packets(epochs[d]) : d \in Spaces} :
     p \in Packets(epochs[e]) /\ Sent(p) /\ in_flight(p) /\ (e = "app" => hs.completed))
  => timer

(* The connection never counts more packets lost than it has sent, though  *)
(* a packet is lost in one of three ways, may be acked afterwards, and ACK *)
(* packets count and MTU probes do not: report_loss of the FEC layer       *)
(* subtracts the one total from the other.                                 *)
LostWithinSent == lost_count <= next_pkt_num
=============================================================================
