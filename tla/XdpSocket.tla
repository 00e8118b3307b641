----------------------------- MODULE XdpSocket -----------------------------
(***************************************************************************)
(* XdpSocket of src/src/xdp_socket.rs, built with the feature "xdp": who   *)
(* owns the frames of the shared memory area, and by which of the two ways *)
(* a packet leaves.                                                        *)
(*                                                                         *)
(* A frame is in the pool of the socket, in its list of pending frames, in *)
(* one of the four rings shared with the kernel, or dropped.  The library  *)
(* (afxdp) and the kernel are external: a ring may be full, a call may     *)
(* fail, the kernel takes and completes frames in any order.  Packets are  *)
(* numbered in the order of the calls of send.  In a build without the     *)
(* feature only the steps with state = "none" are left.  Telemetry is left *)
(* out: the gauge XDP_ACTIVE is one for all sockets of the process, and    *)
(* core.rs and optimize.rs write it too.                                   *)
(***************************************************************************)
EXTENDS Integers, Sequences, FiniteSets

CONSTANTS
  Frames,                          \* BUF_NUM frames
  PENDING_LEN,                     \* capacity of the list of pending frames
  MaxSends, MaxArrivals, MaxInits  \* bounds: calls of send, frames received
                                   \* from the network, (re)configurations

ASSUME FramesAssumption == IsFiniteSet(Frames) /\ Frames # {}
ASSUME PendingAssumption == PENDING_LEN \in Nat \ {0}
ASSUME XdpBounds == MaxSends \in Nat /\ MaxArrivals \in Nat /\ MaxInits \in Nat

VARIABLES
  state,     \* Option<XdpState>: "some" or "none"
  pool,      \* frames free for sending
  pending,   \* frames queued for the transmit ring
  fill, rx, tx, cq,   \* the rings, with what the kernel holds of each
  dropped,   \* history: frames that are in none of them any more
  data,      \* contents of each frame
  owed,      \* history: what the reader of a frame in rx or tx has to find
  by_xdp, by_udp,     \* history: packets handed to the ring, to the UDP socket
  accepted,  \* history: packets whose send returned Ok
  doubtful,  \* history: packets whose send met a failing ring
  calls,     \* [sends, arrivals, inits] so far
  taken      \* history: what recv handed out of a frame, and what was due

frames == <<pool, pending, fill, rx, tx, cq, dropped>>
sending == <<by_xdp, by_udp, accepted, doubtful>>
vars == <<state, frames, data, owed, sending, calls, taken>>

(* init_state: the frames are offered to the fill ring, which takes some;  *)
(* the others are the pool.                                                *)
init_state ==
  /\ state' = "some"
  /\ fill' \in SUBSET Frames
  /\ pool' = Frames \ fill'
  /\ pending' = <<>> /\ rx' = {} /\ tx' = {} /\ cq' = {} /\ dropped' = {}

no_state ==
  /\ state' = "none"
  /\ pool' = {} /\ pending' = <<>> /\ fill' = {} /\ rx' = {} /\ tx' = {} /\ cq' = {}
  /\ dropped' = Frames

(* XdpSocket::new, or new_udp, after the UDP socket is bound. *)
Init ==
  /\ \/ /\ state = "some"
        /\ fill \in SUBSET Frames /\ pool = Frames \ fill /\ dropped = {}
     \/ /\ state = "none"
        /\ fill = {} /\ pool = {} /\ dropped = Frames
  /\ pending = <<>> /\ rx = {} /\ tx = {} /\ cq = {}
  /\ data = [f \in Frames |-> 0] /\ owed = data
  /\ by_xdp = <<>> /\ by_udp = <<>> /\ accepted = {} /\ doubtful = {}
  /\ calls = [sends |-> 0, arrivals |-> 0, inits |-> 0] /\ taken = {}

-----------------------------------------------------------------------------
(* send *)

packet == calls.sends + 1

Send ==
  /\ calls.sends < MaxSends
  /\ calls' = [calls EXCEPT !.sends = @ + 1]

(* ZeroCopyBuffer::send on the UDP socket works or fails. *)
UdpSend ==
  \/ by_udp' = Append(by_udp, packet) /\ accepted' = accepted \cup {packet}
  \/ UNCHANGED <<by_udp, accepted>>

(* A frame of the pool gets the packet and is queued. *)
Queued(f) ==
  /\ state = "some" /\ f \in pool
  /\ data' = [data EXCEPT ![f] = packet]

(* try_send takes the first pending frame, and service brings back at most *)
(* one frame from the completion ring.                                     *)
SendXdp(f) ==
  LET queue == Append(pending, f) IN
  /\ Send /\ Queued(f)
  /\ pending' = Tail(queue)
  /\ tx' = tx \cup {Head(queue)}
  /\ owed' = [owed EXCEPT ![Head(queue)] = data'[Head(queue)]]
  /\ by_xdp' = Append(by_xdp, data'[Head(queue)])
  /\ \/ pool' = pool \ {f} /\ UNCHANGED cq
     \/ \E g \in cq : pool' = (pool \ {f}) \cup {g} /\ cq' = cq \ {g}
  /\ accepted' = accepted \cup {packet}
  /\ UNCHANGED <<state, fill, rx, dropped, by_udp, doubtful, taken>>

(* The transmit ring is full: the pending frames go back to the pool, and  *)
(* the packet leaves by UDP.                                               *)
SendRingFullKeeps(f) ==      \* mutant: pending is not drained
  /\ Send /\ Queued(f)
  /\ pool' = pool \ {f} /\ pending' = Append(pending, f)
  /\ UdpSend
  /\ UNCHANGED <<state, fill, rx, tx, cq, dropped, owed, by_xdp, doubtful, taken>>

SendRingFull(f) ==
  LET queue == Append(pending, f) IN
  /\ Send /\ Queued(f)
  /\ pool' = (pool \ {f}) \cup {queue[j] : j \in DOMAIN queue}
  /\ pending' = <<>>
  /\ UdpSend
  /\ UNCHANGED <<state, fill, rx, tx, cq, dropped, owed, by_xdp, doubtful, taken>>

(* try_send fails, before or after the frame got into the ring: the state  *)
(* is dropped, and the packet leaves by UDP.                               *)
SendRingFails(f) ==
  /\ Send /\ Queued(f)
  /\ no_state
  /\ doubtful' = doubtful \cup {packet}
  /\ UdpSend
  /\ UNCHANGED <<owed, by_xdp, taken>>

(* No XDP, or no frame: the packet leaves by UDP.  The completion ring is  *)
(* not looked at.                                                          *)
SendUdp ==
  /\ Send
  /\ state = "none" \/ pool = {}
  /\ UdpSend
  /\ UNCHANGED <<state, frames, data, owed, by_xdp, doubtful, taken>>

-----------------------------------------------------------------------------
(* recv *)

(* A frame arrived: its contents are copied out, and it is offered to the  *)
(* fill ring again; if that is full the frame is dropped.                  *)
RecvXdpPools(f) ==           \* mutant: the frame is also put into the pool
  /\ state = "some" /\ f \in rx
  /\ taken' = taken \cup {<<data[f], owed[f]>>}
  /\ rx' = rx \ {f} /\ fill' = fill \cup {f} /\ pool' = pool \cup {f}
  /\ UNCHANGED <<state, pending, tx, cq, dropped, data, owed, sending, calls>>

RecvXdp(f) ==
  /\ state = "some" /\ f \in rx
  /\ taken' = taken \cup {<<data[f], owed[f]>>}
  /\ rx' = rx \ {f}
  /\ \/ fill' = fill \cup {f} /\ UNCHANGED dropped
     \/ dropped' = dropped \cup {f} /\ UNCHANGED fill
  /\ UNCHANGED <<state, pool, pending, tx, cq, data, owed, sending, calls>>

(* try_recv fails: the state is dropped. *)
RecvRingFails ==
  /\ state = "some"
  /\ no_state
  /\ UNCHANGED <<data, owed, sending, calls, taken>>

(* No XDP, or no frame: recv reads the UDP socket. *)
RecvUdp ==
  /\ state = "none" \/ rx = {}
  /\ UNCHANGED vars

-----------------------------------------------------------------------------
(* reconfigure: the state is dropped first; then the new UDP socket is     *)
(* bound, or that fails, and a new state is set up or not.                 *)
reconfigure ==
  /\ calls.inits < MaxInits
  /\ calls' = [calls EXCEPT !.inits = @ + 1]
  /\ no_state \/ init_state
  /\ UNCHANGED <<data, owed, sending, taken>>

-----------------------------------------------------------------------------
(* The kernel *)

Arrives(f) ==
  /\ f \in fill /\ calls.arrivals < MaxArrivals
  /\ calls' = [calls EXCEPT !.arrivals = @ + 1]
  /\ fill' = fill \ {f} /\ rx' = rx \cup {f}
  /\ data' = [data EXCEPT ![f] = -calls'.arrivals]
  /\ owed' = [owed EXCEPT ![f] = data'[f]]
  /\ UNCHANGED <<state, pool, pending, tx, cq, dropped, sending, taken>>

Transmits(f) ==
  /\ f \in tx
  /\ tx' = tx \ {f} /\ cq' = cq \cup {f}
  /\ UNCHANGED <<state, pool, pending, fill, rx, dropped, data, owed,
                 sending, calls, taken>>

-----------------------------------------------------------------------------
Next ==
  \/ \E f \in Frames :
       \/ SendXdp(f) \/ SendRingFull(f) \/ SendRingFails(f)
       \/ RecvXdp(f) \/ Arrives(f) \/ Transmits(f)
  \/ SendUdp \/ RecvUdp \/ RecvRingFails \/ reconfigure

Spec == Init /\ [][Next]_vars

-----------------------------------------------------------------------------
(* No frame is lost between the pool, the pending list and the rings, and  *)
(* none is in two of them, along every path through send, recv and         *)
(* reconfigure; and between two calls nothing is pending.                  *)
FramesConserved ==
  /\ pending = <<>>
  /\ pool \cup fill \cup rx \cup tx \cup cq \cup dropped = Frames
  /\ pool \cap (fill \cup rx \cup tx \cup cq \cup dropped) = {}
  /\ fill \cap (rx \cup tx \cup cq \cup dropped) = {}
  /\ rx \cap (tx \cup cq \cup dropped) = {}
  /\ tx \cap (cq \cup dropped) = {} /\ cq \cap dropped = {}

(* A frame is never written while it waits to be sent or to be read: the   *)
(* kernel sends what send put in, and recv hands out what arrived.         *)
NeverOverwritten ==
  /\ \A f \in tx \cup rx : data[f] = owed[f]
  /\ \A pair \in taken : pair[1] = pair[2]

(* A packet that send accepted has left exactly once, by the ring or by    *)
(* UDP, and never an older packet in its place; a packet send did not      *)
(* accept has not left.  (If the ring failed under the call, UDP alone is  *)
(* known.)                                                                 *)
Times(n, s) == Cardinality({j \in DOMAIN s : s[j] = n})
SentOnce ==
  \A n \in 1 .. calls.sends :
    n \notin doubtful =>
      Times(n, by_xdp) + Times(n, by_udp) = IF n \in accepted THEN 1 ELSE 0
=============================================================================
