----------------------------- MODULE Connection -----------------------------
(***************************************************************************)
(* QuicFuscateConnection of src/src/core.rs with the packets of            *)
(* src/src/fec/encoder.rs: who owns the blocks of the memory pool, how     *)
(* packets are numbered, and where the datagrams go during a migration.    *)
(*                                                                         *)
(* A systematic packet owns one block, its data; a repair packet owns two, *)
(* data and coefficients.  Dropping a packet returns its blocks to the     *)
(* pool.  The encoder's window holds clones of systematic packets.  Of a   *)
(* decoder the model keeps the occupied places of systematic_packets, the  *)
(* number of rows, and how many rows hold the data block of a repair       *)
(* packet; whether k rows can be solved is the matter of FecCodec.         *)
(*                                                                         *)
(* The codecs are the ones over bytes; those of mode Extreme, over 16-bit  *)
(* words, keep no systematic packet and are not modelled.                  *)
(*                                                                         *)
(* quiche has a packet to send or not.  Its paths are those of module      *)
(* Paths, reduced to the address under validation and the path events.     *)
(* They are a superset of what this program meets: recv tells quiche that  *)
(* every packet comes from peer_addr and nothing calls probe_path, so that *)
(* update_state never finds an event to poll.                              *)
(***************************************************************************)
EXTENDS Integers, Sequences, FiniteSets

CONSTANTS
  Params,          \* pairs <<k, n - k>> the modes lead to
  CROSS_FADE_LEN,  \* 32 in the code
  Addrs,           \* peer addresses
  UseXdp,          \* OptimizationManager: xdp_available && use_xdp
  None,            \* Option::None
  MaxSends, MaxRecvs, MaxReports, MaxPaths   \* bounds: packets made, frames
                                             \* received, reports, path changes

Encoders == [k : Nat, r : Nat, fill : Nat]
Decoders == [k : Nat, sys : SUBSET Nat, rows : Nat, held : Nat, done : BOOLEAN]
Pairs == [enc : Encoders, dec : Decoders]

ASSUME ParamsAssumption == Params \subseteq Nat \X Nat /\ Params # {} /\ IsFiniteSet(Params)
ASSUME FadeAssumption == CROSS_FADE_LEN \in Nat \ {0}
ASSUME AddrsAssumption == UseXdp \in BOOLEAN /\ None \notin Addrs
ASSUME NoneAssumption == None \notin Pairs
ASSUME BoundAssumption ==
  MaxSends \in Nat /\ MaxRecvs \in Nat /\ MaxReports \in Nat /\ MaxPaths \in Nat

VARIABLES
  packet_id_counter,
  outgoing_fec_packets,    \* sequence of "sys" and "rep"
  encoder, decoder,
  transition,              \* the pair being faded out, or None
  transition_left,
  in_use,                  \* the pool's counter
  peer_addr,
  xdp_socket,              \* the remote address of the XDP socket, or None
  path_events,             \* quiche: path events not yet polled, [kind, addr]
  probing,                 \* quiche: the address being validated, or None
  lost,        \* history: blocks dropped without going back to the pool
  absorbed,    \* history: repair packets that became a row of a decoder
  confirmed,   \* history: addresses quiche has validated or seen the peer at
  recvs, reports, paths    \* calls so far

fec == <<encoder, decoder, transition, transition_left>>
path == <<peer_addr, xdp_socket, path_events, probing, confirmed>>
vars == <<packet_id_counter, outgoing_fec_packets, fec, in_use, path,
          lost, absorbed, recvs, reports, paths>>

Half == CROSS_FADE_LEN \div 2

NewEncoder(p) == [k |-> p[1], r |-> p[2], fill |-> 0]
NewDecoder(p) == [k |-> p[1], sys |-> {}, rows |-> 0, held |-> 0, done |-> FALSE]
Pair(enc, dec) == [enc |-> enc, dec |-> dec]

(* What create_xdp_socket(local, a) may return: None also if binding fails.*)
create_xdp_socket(a) == IF UseXdp THEN {a, None} ELSE {None}

Init ==
  /\ packet_id_counter = 0 /\ outgoing_fec_packets = <<>>
  /\ \E p \in Params : encoder = NewEncoder(p) /\ decoder = NewDecoder(p)
  /\ transition = None /\ transition_left = 0
  /\ in_use = 0
  /\ peer_addr \in Addrs
  /\ xdp_socket \in create_xdp_socket(peer_addr)
  /\ path_events = <<>> /\ probing = None
  /\ lost = 0 /\ absorbed = 0
  /\ confirmed = {peer_addr}
  /\ recvs = 0 /\ reports = 0 /\ paths = 0

-----------------------------------------------------------------------------
(* Packets *)

Blocks(kind) == IF kind = "sys" THEN 1 ELSE 2

(* The blocks that go back to the pool when an encoder and a decoder are   *)
(* dropped: those of their packets.  The blocks in the rows of the matrix  *)
(* are no packets any more.                                                *)
Returned(enc, dec) == enc.fill + Cardinality(dec.sys)

-----------------------------------------------------------------------------
(* send *)

(* The first packet of the queue is written out, or that fails (the XDP    *)
(* socket, or a buffer too small for to_raw); either way it is dropped.    *)
SendQueued ==
  /\ outgoing_fec_packets # <<>>
  /\ outgoing_fec_packets' = Tail(outgoing_fec_packets)
  /\ in_use' = in_use - Blocks(Head(outgoing_fec_packets))
  /\ UNCHANGED <<packet_id_counter, fec, path, lost, absorbed, recvs, reports, paths>>

(* A full window drops its oldest packet. *)
Evicted(enc) == IF enc.fill = enc.k /\ enc.fill > 0 THEN 1 ELSE 0
add_source_packet(enc) == [enc EXCEPT !.fill = @ + 1 - Evicted(enc)]

(* emit_repairs: n - k repair packets once the window is full. *)
EmittedOneMore(enc) == IF enc.fill >= enc.k THEN enc.r + 1 ELSE 0   \* mutant: 0 ..= n - k
Emitted(enc) == IF enc.fill >= enc.k THEN enc.r ELSE 0

(* The queue is empty: a block is allocated and quiche has nothing to send *)
(* (an error, or zero bytes), so the block is freed.                       *)
SendNothingLeaks ==                    \* mutant: the early return keeps the block
  /\ outgoing_fec_packets = <<>> /\ packet_id_counter < MaxSends
  /\ in_use' = in_use + 1
  /\ UNCHANGED <<packet_id_counter, outgoing_fec_packets, fec, path,
                 lost, absorbed, recvs, reports, paths>>

SendNothing ==
  /\ outgoing_fec_packets = <<>>
  /\ in_use' = (in_use + 1) - 1
  /\ UNCHANGED <<packet_id_counter, outgoing_fec_packets, fec, path,
                 lost, absorbed, recvs, reports, paths>>

(* The pair being faded out takes a clone of the packet too, emits repair  *)
(* packets of its own in the first half of the fade, and is dropped at the *)
(* end of that half.                                                       *)
Retiring == transition # None
FadeStep == IF transition_left > 0 THEN transition_left - 1 ELSE 0
Retires == transition_left > 0 /\ FadeStep = Half /\ Retiring
RetiringEncoder == add_source_packet(transition.enc)

(* The queue is empty and quiche has a packet: AdaptiveFec::on_send        *)
(* appends the packet and the repair packets of both encoders, and the     *)
(* first of them, the packet itself, is written out (or that fails) and    *)
(* dropped.                                                                *)
SendFresh ==
  LET enc == add_source_packet(encoder)
      repairs == Emitted(enc) +
                 (IF Retiring /\ transition_left > Half THEN Emitted(RetiringEncoder) ELSE 0)
      queue == <<"sys">> \o [j \in 1 .. repairs |-> "rep"]
      allocated == 2 + (IF Retiring THEN 1 ELSE 0) + 2 * repairs
      freed == Blocks(Head(queue)) + Evicted(encoder)
               + (IF Retiring THEN Evicted(transition.enc) ELSE 0)
               + (IF Retires THEN Returned(RetiringEncoder, transition.dec) ELSE 0)
  IN  /\ outgoing_fec_packets = <<>>
      /\ packet_id_counter < MaxSends
      /\ packet_id_counter' = packet_id_counter + 1
      /\ encoder' = enc
      /\ transition_left' = FadeStep
      /\ transition' = IF ~Retiring \/ Retires THEN None
                       ELSE [transition EXCEPT !.enc = RetiringEncoder]
      /\ outgoing_fec_packets' = Tail(queue)
      /\ in_use' = in_use + allocated - freed
      /\ lost' = lost + (IF Retires THEN transition.dec.held ELSE 0)
      /\ UNCHANGED <<decoder, path, absorbed, recvs, reports, paths>>

-----------------------------------------------------------------------------
(* recv *)

Receive ==
  /\ recvs < MaxRecvs
  /\ recvs' = recvs + 1

(* The XDP socket fails, or from_block refuses the frame: the block that   *)
(* was allocated for it is freed.                                          *)
RecvRefused ==
  /\ Receive
  /\ in_use' = (in_use + 1) - 1
  /\ UNCHANGED <<packet_id_counter, outgoing_fec_packets, fec, path,
                 lost, absorbed, reports, paths>>

(* A received packet is numbered with the counter of the packets sent. *)
Index(dec) == packet_id_counter % dec.k

Ignores(dec, kind) ==
  dec.done \/ dec.rows >= dec.k \/ (kind = "sys" /\ Index(dec) \in dec.sys)

(* The decoder with one row more: a systematic packet is kept as it is, of *)
(* a repair packet only the data block, in the matrix.                     *)
WithRowPayload(dec, kind) ==           \* mutant: the row of either kind holds a block
  [dec EXCEPT !.rows = @ + 1, !.held = @ + 1,
              !.sys = IF kind = "sys" THEN @ \cup {Index(dec)} ELSE @]

WithRow(dec, kind) ==
  IF kind = "sys" THEN [dec EXCEPT !.rows = @ + 1, !.sys = @ \cup {Index(dec)}]
  ELSE [dec EXCEPT !.rows = @ + 1, !.held = @ + 1]

(* The k-th row may solve the system, and does if no row is a repair; then *)
(* get_decoded_packets empties systematic_packets.                         *)
Solvable(dec) == dec.rows = dec.k
Drained(dec) == [dec EXCEPT !.done = TRUE, !.sys = {}]

(* The states add_packet may leave a decoder in. *)
AddPacket(dec, kind) ==
  IF Ignores(dec, kind) THEN {dec}
  ELSE LET d == WithRow(dec, kind)
       IN  (IF Solvable(d) THEN {Drained(d)} ELSE {}) \cup
           (IF Solvable(d) /\ d.held = 0 THEN {} ELSE {d})

(* What becomes of the blocks of a packet, and of those of the packets     *)
(* recovered with it (recv drops them once quiche has seen them), when     *)
(* add_packet has left d in place of dec.  The packets that are rebuilt    *)
(* are allocated and freed in the same call.                               *)
Absorbs(dec, kind) == kind = "rep" /\ ~Ignores(dec, kind)
FreedBy(dec, kind, d) ==
  IF Ignores(dec, kind) THEN Blocks(kind)
  ELSE IF d.done THEN Cardinality(WithRow(dec, kind).sys) ELSE 0

(* Of a repair packet that becomes a row the coefficients are dropped past *)
(* the pool.                                                               *)
LostBy(dec, kind) == IF Absorbs(dec, kind) THEN 1 ELSE 0

(* In the first half of a fade the retired decoder gets a clone. *)
Recv(kind) ==
  /\ Receive
  /\ decoder' \in AddPacket(decoder, kind)
  /\ IF Retiring /\ transition_left > Half
     THEN \E d \in AddPacket(transition.dec, kind) :
            /\ transition' = [transition EXCEPT !.dec = d]
            /\ in_use' = in_use + 2 * Blocks(kind) - FreedBy(decoder, kind, decoder')
                           - FreedBy(transition.dec, kind, d)
            /\ lost' = lost + LostBy(decoder, kind) + LostBy(transition.dec, kind)
            /\ absorbed' = absorbed + LostBy(decoder, kind) + LostBy(transition.dec, kind)
     ELSE /\ in_use' = in_use + Blocks(kind) - FreedBy(decoder, kind, decoder')
          /\ lost' = lost + LostBy(decoder, kind)
          /\ absorbed' = absorbed + LostBy(decoder, kind)
          /\ UNCHANGED transition
  /\ UNCHANGED <<packet_id_counter, outgoing_fec_packets, encoder, transition_left,
                 path, reports, paths>>

-----------------------------------------------------------------------------
(* update_state *)

(* report_loss replaces the pair of codecs: a switch retires it (and drops *)
(* the one still being faded out), otherwise it is dropped.                *)
Dropped(pair) ==
  /\ in_use' = in_use - Returned(pair.enc, pair.dec)
  /\ lost' = lost + pair.dec.held

DroppedNone == UNCHANGED <<in_use, lost>>

Switch(p) ==
  /\ encoder' = NewEncoder(p) /\ decoder' = NewDecoder(p)
  /\ transition' = Pair(encoder, decoder)
  /\ transition_left' = CROSS_FADE_LEN
  /\ IF Retiring THEN Dropped(transition) ELSE DroppedNone

KeepMode(p) ==
  /\ p = <<encoder.k, encoder.r>>
  /\ encoder' = NewEncoder(p) /\ decoder' = NewDecoder(p)
  /\ UNCHANGED <<transition, transition_left>>
  /\ Dropped(Pair(encoder, decoder))

(* Every path event is polled; Validated and PeerMigrated move the         *)
(* connection and its XDP socket, so the last of them counts.  The socket  *)
(* is reconfigured, and created anew if that fails.                        *)
Moves ==
  {j \in DOMAIN path_events : path_events[j].kind \in {"Validated", "PeerMigrated"}}

PollPathEvents ==
  /\ path_events' = <<>>
  /\ IF Moves = {} THEN UNCHANGED <<peer_addr, xdp_socket>>
     ELSE \E last \in Moves :
            /\ \A j \in Moves : j <= last
            /\ peer_addr' = path_events[last].addr
            /\ xdp_socket' \in create_xdp_socket(peer_addr')
  /\ UNCHANGED <<probing, confirmed>>

update_state(p) ==
  /\ reports < MaxReports
  /\ reports' = reports + 1
  /\ Switch(p) \/ KeepMode(p)
  /\ PollPathEvents
  /\ UNCHANGED <<packet_id_counter, outgoing_fec_packets, absorbed, recvs, paths>>

-----------------------------------------------------------------------------
(* Paths *)

others == <<packet_id_counter, outgoing_fec_packets, fec, in_use, lost, absorbed,
            recvs, reports>>

(* mutant: the connection takes the address before it is validated *)
migrate_connectionEager(a) ==
  /\ paths < MaxPaths
  /\ paths' = paths + 1
  /\ xdp_socket' \in create_xdp_socket(a)
  /\ peer_addr' = a
  /\ UNCHANGED <<path_events, probing, confirmed, others>>

(* A new XDP socket comes first: it sends to a from now on.  Then quiche   *)
(* makes the path the active one, without probing it, or refuses: no path  *)
(* event tells which (Paths).                                              *)
migrate_connection(a) ==
  /\ paths < MaxPaths
  /\ paths' = paths + 1
  /\ xdp_socket' \in create_xdp_socket(a)
  /\ UNCHANGED <<peer_addr, path_events, probing, confirmed, others>>

(* quiche, on a server: a packet comes from an address that is new, which  *)
(* is probed; the probe is answered, or given up; the peer moves to an     *)
(* address that is validated.                                              *)
PathSeen(a) ==
  /\ paths < MaxPaths
  /\ paths' = paths + 1
  /\ probing = None /\ probing' = a
  /\ UNCHANGED <<peer_addr, xdp_socket, path_events, confirmed, others>>

PathEvent(kind, a) == path_events' = Append(path_events, [kind |-> kind, addr |-> a])

ProbeEnds(kind) ==
  /\ probing # None
  /\ probing' = None
  /\ PathEvent(kind, probing)
  /\ confirmed' = IF kind = "Validated" THEN confirmed \cup {probing} ELSE confirmed
  /\ UNCHANGED <<peer_addr, xdp_socket, paths, others>>

PeerMigrates(a) ==
  /\ paths < MaxPaths
  /\ paths' = paths + 1
  /\ PathEvent("PeerMigrated", a)
  /\ confirmed' = confirmed \cup {a}
  /\ UNCHANGED <<peer_addr, xdp_socket, probing, others>>

-----------------------------------------------------------------------------
Next ==
  \/ SendQueued \/ SendNothing \/ SendFresh
  \/ RecvRefused \/ \E kind \in {"sys", "rep"} : Recv(kind)
  \/ \E p \in Params : update_state(p)
  \/ \E a \in Addrs : migrate_connection(a) \/ PathSeen(a) \/ PeerMigrates(a)
  \/ \E kind \in {"Validated", "FailedValidation"} : ProbeEnds(kind)

Spec == Init /\ [][Next]_vars

-----------------------------------------------------------------------------
(* Between two calls only repair packets are queued: the packet quiche     *)
(* made leaves in the call that made it, and the queue is bounded by what  *)
(* one packet makes two encoders emit, because send makes a new packet     *)
(* only when the queue is empty.                                           *)
MaxRepairs == CHOOSE m \in {p[2] : p \in Params} : \A p \in Params : p[2] <= m
OnlyRepairsQueued ==
  /\ \A j \in DOMAIN outgoing_fec_packets : outgoing_fec_packets[j] = "rep"
  /\ Len(outgoing_fec_packets) <= 2 * MaxRepairs

(* The blocks that are still part of the connection: of queued repair      *)
(* packets, of the windows, of received packets and in the matrices.       *)
Owned(enc, dec) == Returned(enc, dec) + dec.held
Live ==
  2 * Len(outgoing_fec_packets) + Owned(encoder, decoder)
    + (IF Retiring THEN Owned(transition.enc, transition.dec) ELSE 0)

(* No block is freed twice or forgotten on any path through send, recv and *)
(* update_state, their early returns included: the pool's in_use is the    *)
(* number of blocks the connection still has plus those that were dropped  *)
(* past the pool.                                                          *)
BlockLedger == in_use = Live + lost

(* Only received repair packets are dropped past the pool: each has its    *)
(* coefficients lost at once and its data when the decoder goes.           *)
RepairsAlone ==
  lost + decoder.held + (IF Retiring THEN transition.dec.held ELSE 0) = 2 * absorbed

(* The connection itself moves only to an address quiche has confirmed,    *)
(* whatever migrations were started and in whatever order they ended.      *)
PeerConfirmed == peer_addr \in confirmed
=============================================================================
