-------------------------- MODULE ConnectionProofs --------------------------
(* Proofs about Connection: the ledger of blocks and where the connection  *)
(* moves, for any parameters, addresses, fade length and bounds.           *)
EXTENDS Connection, FiniteSetTheorems, TLAPS

PathTypes ==
  /\ peer_addr \in Addrs
  /\ xdp_socket \in Addrs \cup {None} /\ probing \in Addrs \cup {None}
  /\ confirmed \subseteq Addrs
  /\ path_events \in Seq([kind : {"Validated", "FailedValidation", "PeerMigrated"}, addr : Addrs])

(* Every move quiche has announced leads to an address it has confirmed. *)
EventsConfirmed == \A j \in Moves : path_events[j].addr \in confirmed

PathInv == PathTypes /\ EventsConfirmed /\ PeerConfirmed

-----------------------------------------------------------------------------
(* What the path variables do in a step. *)
PathStep ==
  \/ UNCHANGED path
  \/ PollPathEvents
  \/ \E a \in Addrs : migrate_connection(a) \/ PathSeen(a) \/ PeerMigrates(a)
  \/ \E kind \in {"Validated", "FailedValidation"} : ProbeEnds(kind)

(* Every step of the connection is one of these for the path. *)
LEMMA PathSteps == [Next]_vars => PathStep
<1> SUFFICES ASSUME [Next]_vars PROVE PathStep
  OBVIOUS
<1>1. CASE UNCHANGED vars
  BY <1>1 DEF vars, PathStep
<1>2. CASE SendQueued \/ SendNothing \/ SendFresh \/ RecvRefused
  BY <1>2 DEF SendQueued, SendNothing, SendFresh, RecvRefused, PathStep
<1>3. CASE \E kind \in {"sys", "rep"} : Recv(kind)
  BY <1>3 DEF Recv, PathStep
<1>4. CASE \E p \in Params : update_state(p)
  BY <1>4 DEF update_state, PathStep
<1>5. CASE \E a \in Addrs : migrate_connection(a) \/ PathSeen(a) \/ PeerMigrates(a)
  BY <1>5 DEF PathStep
<1>6. CASE \E kind \in {"Validated", "FailedValidation"} : ProbeEnds(kind)
  BY <1>6 DEF PathStep
<1> QED BY <1>1, <1>2, <1>3, <1>4, <1>5, <1>6 DEF Next

(* A step of the connection, of quiche or of the peer keeps the path       *)
(* invariant.                                                              *)
LEMMA PathInductive == PathInv /\ PathStep => PathInv'
<1> SUFFICES ASSUME PathInv, PathStep PROVE PathInv'
  OBVIOUS
<1> USE AddrsAssumption DEF PathInv
<1>1. CASE UNCHANGED path
  BY <1>1 DEF path, PathTypes, EventsConfirmed, Moves, PeerConfirmed
<1>2. CASE PollPathEvents
  <2>1. path_events' = <<>> /\ Moves' = {}
    BY <1>2 DEF PollPathEvents, Moves
  <2>2. EventsConfirmed' /\ path_events' \in Seq([kind : {"Validated", "FailedValidation", "PeerMigrated"}, addr : Addrs])
    BY <2>1 DEF EventsConfirmed
  <2>3. CASE Moves = {}
    BY <1>2, <2>2, <2>3 DEF PollPathEvents, PathTypes, PeerConfirmed
  <2>4. CASE Moves # {}
    <3>1. PICK last \in Moves : /\ peer_addr' = path_events[last].addr
                                /\ xdp_socket' \in create_xdp_socket(peer_addr')
      BY <1>2, <2>4 DEF PollPathEvents
    <3>2. peer_addr' \in confirmed /\ peer_addr' \in Addrs
      BY <3>1 DEF EventsConfirmed, PathTypes
    <3>3. xdp_socket' \in {peer_addr', None}
      BY <3>1 DEF create_xdp_socket
    <3> QED BY <1>2, <2>2, <3>1, <3>2, <3>3 DEF PollPathEvents, PathTypes, PeerConfirmed
  <2> QED BY <2>3, <2>4
<1>3. ASSUME NEW a \in Addrs, migrate_connection(a) PROVE PathInv'
  <2>1. xdp_socket' \in {a, None}
        /\ UNCHANGED <<peer_addr, path_events, probing, confirmed>>
    BY <1>3 DEF migrate_connection, create_xdp_socket
  <2> QED BY <2>1 DEF PathTypes, EventsConfirmed, Moves, PeerConfirmed
<1>4. ASSUME NEW kind \in {"Validated", "FailedValidation", "PeerMigrated"}, NEW a \in Addrs,
             PathEvent(kind, a),
             confirmed' = IF kind = "FailedValidation" THEN confirmed ELSE confirmed \cup {a},
             probing' \in {probing, None}, UNCHANGED <<peer_addr, xdp_socket>>
      PROVE  PathInv'
  <2>1. path_events' = Append(path_events, [kind |-> kind, addr |-> a])
    BY <1>4 DEF PathEvent
  <2>2. path_events' \in Seq([kind : {"Validated", "FailedValidation", "PeerMigrated"}, addr : Addrs])
    BY <2>1, <1>4 DEF PathTypes
  <2>3. ASSUME NEW j \in Moves' PROVE path_events'[j].addr \in confirmed'
    <3>1. CASE j \in 1 .. Len(path_events)
      <4>1. path_events'[j] = path_events[j] /\ j \in Moves
        BY <2>1, <2>3, <3>1 DEF Moves, PathTypes
      <4> QED BY <4>1, <1>4 DEF EventsConfirmed
    <3>2. CASE j = Len(path_events) + 1
      <4>1. path_events'[j] = [kind |-> kind, addr |-> a]
        BY <2>1, <3>2 DEF PathTypes
      <4>2. kind # "FailedValidation"
        BY <2>3, <4>1 DEF Moves
      <4> QED BY <4>1, <4>2, <1>4
    <3>3. j \in 1 .. Len(path_events) + 1
      BY <2>1, <2>3 DEF Moves, PathTypes
    <3> QED BY <3>1, <3>2, <3>3 DEF PathTypes
  <2> QED BY <1>4, <2>2, <2>3 DEF PathTypes, EventsConfirmed, PeerConfirmed
<1>5. ASSUME NEW a \in Addrs, PeerMigrates(a) PROVE PathInv'
  BY <1>4, <1>5 DEF PeerMigrates
<1>6. ASSUME NEW kind \in {"Validated", "FailedValidation"}, ProbeEnds(kind) PROVE PathInv'
  <2>1. probing \in Addrs
    BY <1>6 DEF ProbeEnds, PathTypes
  <2> QED BY <1>4, <1>6, <2>1 DEF ProbeEnds
<1>7. ASSUME NEW a \in Addrs, PathSeen(a) PROVE PathInv'
  BY <1>7 DEF PathSeen, PathTypes, EventsConfirmed, Moves, PeerConfirmed
<1> QED BY <1>1, <1>2, <1>3, <1>5, <1>6, <1>7 DEF PathStep

(* The connection is only ever at an address quiche has confirmed, for any *)
(* addresses and any order of migrations, probes and peer migrations,      *)
(* though the events that move it are polled long after they happened.     *)
THEOREM PeerSafe == Spec => []PeerConfirmed
<1>1. Init => PathInv
  <2> SUFFICES ASSUME Init PROVE PathInv
    OBVIOUS
  <2>1. xdp_socket \in {peer_addr, None}
    BY DEF Init, create_xdp_socket
  <2>2. Moves = {}
    BY DEF Init, Moves
  <2> QED BY <2>1, <2>2 DEF Init, PathInv, PathTypes, EventsConfirmed, PeerConfirmed
<1>2. PathInv /\ [Next]_vars => PathInv'
  BY PathSteps, PathInductive
<1>3. PathInv => PeerConfirmed
  BY DEF PathInv
<1> QED BY <1>1, <1>2, <1>3, PTL DEF Spec

-----------------------------------------------------------------------------
(* The blocks.  The received packets of a decoder can be counted, and the  *)
(* queue holds repair packets only, so each of them counts as two blocks.  *)

Countable(dec) == dec \in Decoders /\ IsFiniteSet(dec.sys)

CodecTypes ==
  /\ encoder \in Encoders /\ Countable(decoder)
  /\ transition \in {None} \cup Pairs
  /\ Retiring => Countable(transition.dec)

Counters ==
  /\ packet_id_counter \in Nat
  /\ in_use \in Int /\ lost \in Nat /\ absorbed \in Nat

QueueTypes ==
  /\ outgoing_fec_packets \in Seq({"sys", "rep"})
  /\ \A j \in DOMAIN outgoing_fec_packets : outgoing_fec_packets[j] = "rep"

LedgerInv == CodecTypes /\ Counters /\ QueueTypes /\ BlockLedger /\ RepairsAlone

(* The members of a countable decoder, and those of a pair. *)
LEMMA DecoderType ==
  ASSUME NEW dec, Countable(dec)
  PROVE  /\ dec.k \in Nat /\ dec.rows \in Nat /\ dec.held \in Nat
         /\ dec.done \in BOOLEAN /\ dec.sys \subseteq Nat
         /\ Cardinality(dec.sys) \in Nat
<1>1. Cardinality(dec.sys) \in Nat
  BY FS_CardinalityType DEF Countable
<1> QED BY <1>1 DEF Countable, Decoders

(* A new pair of codecs holds no block. *)
LEMMA NewPair ==
  ASSUME NEW p \in Params
  PROVE  /\ NewEncoder(p) \in Encoders /\ Countable(NewDecoder(p))
         /\ Returned(NewEncoder(p), NewDecoder(p)) = 0
         /\ NewDecoder(p).held = 0
<1>1. p[1] \in Nat /\ p[2] \in Nat
  BY ParamsAssumption
<1> QED BY <1>1, FS_EmptySet
        DEF NewEncoder, NewDecoder, Encoders, Decoders, Countable, Returned

(* The window takes the clone and gives back what it evicts. *)
LEMMA WindowStep ==
  ASSUME NEW enc \in Encoders
  PROVE  /\ add_source_packet(enc) \in Encoders
         /\ add_source_packet(enc).fill = enc.fill + 1 - Evicted(enc)
         /\ Evicted(enc) \in {0, 1}
         /\ Emitted(add_source_packet(enc)) \in Nat
<1>1. Evicted(enc) \in {0, 1} /\ enc.fill + 1 - Evicted(enc) \in Nat
  BY DEF Encoders, Evicted
<1>2. add_source_packet(enc) \in Encoders
      /\ add_source_packet(enc).fill = enc.fill + 1 - Evicted(enc)
  BY <1>1 DEF add_source_packet, Encoders
<1> QED BY <1>1, <1>2 DEF Emitted, Encoders

(* What a decoder makes of the blocks of a packet: of those that came in   *)
(* some are kept, some go back to the pool and some are lost; and a repair *)
(* packet that becomes a row leaves one block in the matrix and loses one. *)
LEMMA DecoderStep ==
  ASSUME NEW dec, Countable(dec), NEW kind \in {"sys", "rep"},
         packet_id_counter \in Nat, NEW d \in AddPacket(dec, kind)
  PROVE  /\ Countable(d)
         /\ LostBy(dec, kind) \in {0, 1} /\ FreedBy(dec, kind, d) \in Nat
         /\ d.held = dec.held + LostBy(dec, kind)
         /\ Cardinality(d.sys) + d.held =
              Cardinality(dec.sys) + dec.held + Blocks(kind)
                - FreedBy(dec, kind, d) - LostBy(dec, kind)
<1> USE DecoderType
<1>1. CASE Ignores(dec, kind)
  BY <1>1 DEF AddPacket, LostBy, Absorbs, FreedBy, Blocks
<1>2. CASE ~Ignores(dec, kind)
  <2> DEFINE w == WithRow(dec, kind)
  <2>1. dec.k > 0 /\ dec.done = FALSE
    BY <1>2 DEF Ignores
  <2>2. kind = "sys" => Index(dec) \in Nat /\ Index(dec) \notin dec.sys
    BY <1>2, <2>1 DEF Ignores, Index
  <2>3. /\ Countable(w) /\ w.done = FALSE
        /\ w.held = dec.held + LostBy(dec, kind)
        /\ Cardinality(w.sys) = Cardinality(dec.sys) + (IF kind = "sys" THEN 1 ELSE 0)
    <3>1. CASE kind = "sys"
      <4>1. IsFiniteSet(dec.sys \cup {Index(dec)})
            /\ Cardinality(dec.sys \cup {Index(dec)}) = Cardinality(dec.sys) + 1
        BY <2>2, <3>1, FS_AddElement DEF Countable
      <4>2. w = [dec EXCEPT !.rows = @ + 1, !.sys = @ \cup {Index(dec)}]
        BY <3>1 DEF WithRow
      <4>3. w = [k |-> dec.k, sys |-> dec.sys \cup {Index(dec)}, rows |-> dec.rows + 1,
                 held |-> dec.held, done |-> dec.done]
        BY <4>2 DEF Countable, Decoders
      <4> HIDE DEF w
      <4>4. w.sys = dec.sys \cup {Index(dec)} /\ w.held = dec.held /\ w.done = dec.done
        BY <4>3
      <4>5. w \in Decoders
        BY <2>2, <3>1, <4>3 DEF Decoders
      <4>6. LostBy(dec, kind) = 0
        BY <3>1 DEF LostBy, Absorbs
      <4> QED BY <2>1, <3>1, <4>1, <4>4, <4>5, <4>6 DEF Countable
    <3>2. CASE kind = "rep"
      <4>1. w = [dec EXCEPT !.rows = @ + 1, !.held = @ + 1]
        BY <3>2 DEF WithRow
      <4>2. w = [k |-> dec.k, sys |-> dec.sys, rows |-> dec.rows + 1,
                 held |-> dec.held + 1, done |-> dec.done]
        BY <4>1 DEF Countable, Decoders
      <4> HIDE DEF w
      <4>3. w \in Decoders /\ w.sys = dec.sys /\ w.held = dec.held + 1 /\ w.done = dec.done
        BY <4>2 DEF Decoders
      <4>4. LostBy(dec, kind) = 1
        BY <1>2, <3>2 DEF LostBy, Absorbs
      <4> QED BY <2>1, <3>2, <4>3, <4>4 DEF Countable
    <3> QED BY <3>1, <3>2
  <2>4. d = w \/ d = Drained(w)
    BY <1>2 DEF AddPacket
  <2>5. LostBy(dec, kind) = (IF kind = "rep" THEN 1 ELSE 0)
        /\ Blocks(kind) = 1 + LostBy(dec, kind)
    BY <1>2 DEF LostBy, Absorbs, Blocks
  <2>6. Cardinality(w.sys) \in Nat
    BY <2>3
  <2>7. FreedBy(dec, kind, d) = IF d.done THEN Cardinality(w.sys) ELSE 0
    BY <1>2 DEF FreedBy
  <2> HIDE DEF w
  <2>8. CASE d = w
    BY <2>3, <2>5, <2>6, <2>7, <2>8
  <2>9. CASE d = Drained(w)
    <3>1. d \in Decoders /\ d.sys = {} /\ d.held = w.held /\ d.done = TRUE
      BY <2>3, <2>9 DEF Drained, Countable, Decoders
    <3>2. Countable(d) /\ Cardinality(d.sys) = 0
      BY <3>1, FS_EmptySet DEF Countable
    <3> QED BY <2>3, <2>5, <2>6, <2>7, <3>1, <3>2
  <2> QED BY <2>4, <2>8, <2>9
<1> QED BY <1>1, <1>2

(* The blocks of a pair of codecs are a natural number. *)
LEMMA OwnedType ==
  ASSUME NEW enc \in Encoders, NEW dec, Countable(dec)
  PROVE  /\ Returned(enc, dec) = enc.fill + Cardinality(dec.sys)
         /\ Returned(enc, dec) \in Nat /\ enc.fill \in Nat
         /\ Owned(enc, dec) = Returned(enc, dec) + dec.held
BY DecoderType DEF Returned, Owned, Encoders

LEMMA TransitionType ==
  ASSUME CodecTypes, Retiring
  PROVE  /\ transition \in Pairs /\ transition.enc \in Encoders
         /\ Countable(transition.dec)
BY DEF CodecTypes, Retiring, Pairs

(* A step that leaves blocks and codecs alone. *)
LEMMA LedgerIdle ==
  ASSUME LedgerInv, UNCHANGED <<packet_id_counter, outgoing_fec_packets, fec, lost, absorbed>>,
         in_use' = in_use
  PROVE  LedgerInv'
BY DEF LedgerInv, CodecTypes, Counters, QueueTypes, BlockLedger, RepairsAlone, Live, Owned,
       Returned, Retiring, Countable, fec

(* The first packet of the queue is a repair packet: both blocks go back.  *)
LEMMA LedgerQueued ==
  ASSUME LedgerInv, SendQueued
  PROVE  LedgerInv'
<1> USE DEF LedgerInv
<1>1. /\ outgoing_fec_packets # <<>> /\ outgoing_fec_packets' = Tail(outgoing_fec_packets)
      /\ in_use' = in_use - Blocks(Head(outgoing_fec_packets))
      /\ UNCHANGED <<packet_id_counter, encoder, decoder, transition, lost, absorbed>>
  BY DEF SendQueued, fec
<1>2. Blocks(Head(outgoing_fec_packets)) = 2
  BY <1>1 DEF QueueTypes, Blocks
<1>3. QueueTypes' /\ Len(outgoing_fec_packets') = Len(outgoing_fec_packets) - 1
      /\ Len(outgoing_fec_packets) \in Nat
  BY <1>1 DEF QueueTypes
<1>4. CodecTypes' /\ RepairsAlone'
  BY <1>1 DEF CodecTypes, RepairsAlone, Retiring, Countable
<1>5. Counters'
  BY <1>1, <1>2 DEF Counters
<1>6. BlockLedger'
  <2> DEFINE rest == Owned(encoder, decoder)
                     + (IF Retiring THEN Owned(transition.enc, transition.dec) ELSE 0)
  <2>1. rest \in Int
    BY OwnedType, DecoderType, TransitionType DEF CodecTypes
  <2>2. Live = 2 * Len(outgoing_fec_packets) + rest /\ rest' = rest
        /\ Live' = 2 * Len(outgoing_fec_packets') + rest'
    <3>1. Owned(encoder, decoder) \in Int
          /\ (IF Retiring THEN Owned(transition.enc, transition.dec) ELSE 0) \in Int
      BY OwnedType, DecoderType, TransitionType DEF CodecTypes
    <3> QED BY <1>1, <1>3, <3>1 DEF Live, Owned, Returned, Retiring
  <2> HIDE DEF rest
  <2> QED BY <1>1, <1>2, <1>3, <2>1, <2>2 DEF BlockLedger, Counters
<1> QED BY <1>3, <1>4, <1>5, <1>6

(* A received packet, with the pair being faded out or without. *)
LEMMA LedgerRecv ==
  ASSUME LedgerInv, NEW kind \in {"sys", "rep"}, Recv(kind)
  PROVE  LedgerInv'
<1> USE DEF LedgerInv
<1>1. /\ decoder' \in AddPacket(decoder, kind)
      /\ UNCHANGED <<packet_id_counter, outgoing_fec_packets, encoder>>
      /\ packet_id_counter \in Nat /\ Countable(decoder) /\ encoder \in Encoders
  BY DEF Recv, CodecTypes, Counters
<1>2. /\ Countable(decoder')
      /\ LostBy(decoder, kind) \in {0, 1} /\ FreedBy(decoder, kind, decoder') \in Nat
      /\ decoder'.held = decoder.held + LostBy(decoder, kind)
      /\ Cardinality(decoder'.sys) + decoder'.held =
           Cardinality(decoder.sys) + decoder.held + Blocks(kind)
             - FreedBy(decoder, kind, decoder') - LostBy(decoder, kind)
  BY <1>1, DecoderStep
<1>3. /\ Owned(encoder, decoder) = encoder.fill + Cardinality(decoder.sys) + decoder.held
      /\ Owned(encoder', decoder') = encoder.fill + Cardinality(decoder'.sys) + decoder'.held
      /\ encoder.fill \in Nat /\ decoder.held \in Nat /\ decoder'.held \in Nat
      /\ Cardinality(decoder.sys) \in Nat /\ Cardinality(decoder'.sys) \in Nat
  BY <1>1, <1>2, OwnedType, DecoderType
<1>4. QueueTypes' /\ Len(outgoing_fec_packets') = Len(outgoing_fec_packets)
      /\ Len(outgoing_fec_packets) \in Nat
  BY <1>1 DEF QueueTypes
<1>5. Blocks(kind) \in {1, 2}
  BY DEF Blocks
<1> DEFINE own == Owned(encoder, decoder)
           back == FreedBy(decoder, kind, decoder')
           gone == LostBy(decoder, kind)
<1>0. /\ Owned(encoder', decoder') = own + Blocks(kind) - back - gone
      /\ own \in Int /\ back \in Int /\ gone \in Int
  BY <1>2, <1>3, <1>5
<1> HIDE DEF own, back, gone
<1>6. CASE Retiring /\ transition_left > Half
  <2>1. PICK d \in AddPacket(transition.dec, kind) :
          /\ transition' = [transition EXCEPT !.dec = d]
          /\ in_use' = in_use + 2 * Blocks(kind) - FreedBy(decoder, kind, decoder')
                         - FreedBy(transition.dec, kind, d)
          /\ lost' = lost + LostBy(decoder, kind) + LostBy(transition.dec, kind)
          /\ absorbed' = absorbed + LostBy(decoder, kind) + LostBy(transition.dec, kind)
    BY <1>6 DEF Recv
  <2>2. transition \in Pairs /\ transition.enc \in Encoders /\ Countable(transition.dec)
    BY <1>6, TransitionType
  <2>3. /\ Countable(d)
        /\ LostBy(transition.dec, kind) \in {0, 1} /\ FreedBy(transition.dec, kind, d) \in Nat
        /\ d.held = transition.dec.held + LostBy(transition.dec, kind)
        /\ Cardinality(d.sys) + d.held =
             Cardinality(transition.dec.sys) + transition.dec.held + Blocks(kind)
               - FreedBy(transition.dec, kind, d) - LostBy(transition.dec, kind)
    BY <1>1, <2>2, DecoderStep
  <2>4. transition' \in Pairs /\ transition'.enc = transition.enc /\ transition'.dec = d
    <3>1. d \in Decoders
      BY <2>3 DEF Countable
    <3>2. transition' = [enc |-> transition.enc, dec |-> d]
      BY <2>1, <2>2 DEF Pairs
    <3> QED BY <2>2, <3>1, <3>2 DEF Pairs
  <2>5. Retiring'
    BY <2>4, NoneAssumption DEF Retiring
  <2>6. /\ Owned(transition.enc, transition.dec)
             = transition.enc.fill + Cardinality(transition.dec.sys) + transition.dec.held
        /\ Owned(transition'.enc, transition'.dec)
             = transition.enc.fill + Cardinality(d.sys) + d.held
        /\ transition.enc.fill \in Nat /\ transition.dec.held \in Nat /\ d.held \in Nat
        /\ Cardinality(transition.dec.sys) \in Nat /\ Cardinality(d.sys) \in Nat
    BY <2>2, <2>3, <2>4, OwnedType, DecoderType
  <2>7. CodecTypes'
    <3>1. Countable(transition'.dec) /\ encoder' \in Encoders
      BY <1>1, <2>3, <2>4
    <3> QED BY <1>2, <2>4, <3>1 DEF CodecTypes, Countable
  <2>8. Counters'
    <3>1. in_use' \in Int /\ lost' \in Nat /\ absorbed' \in Nat
      <4> HIDE DEF LedgerInv
      <4>1. in_use \in Int /\ lost \in Nat /\ absorbed \in Nat
        BY DEF LedgerInv, Counters
      <4> QED BY <1>2, <1>5, <2>1, <2>3, <4>1
    <3> QED BY <1>1, <3>1 DEF Counters
  <2> DEFINE fading == Owned(transition.enc, transition.dec)
             back2 == FreedBy(transition.dec, kind, d)
             gone2 == LostBy(transition.dec, kind)
  <2>0. in_use \in Int /\ lost \in Int /\ absorbed \in Int
    BY DEF Counters
  <2>00. /\ Owned(transition'.enc, transition'.dec) = fading + Blocks(kind) - back2 - gone2
         /\ fading \in Int /\ back2 \in Int /\ gone2 \in Int
    BY <1>5, <2>3, <2>6
  <2> HIDE DEF fading, back2, gone2
  <2>9. BlockLedger'
    <3>1. in_use = 2 * Len(outgoing_fec_packets) + own + fading + lost
      BY <1>6 DEF BlockLedger, Live, own, fading
    <3>2. in_use' = in_use + 2 * Blocks(kind) - back - back2 /\ lost' = lost + gone + gone2
      BY <2>1 DEF back, gone, back2, gone2
    <3>3. Live' = 2 * Len(outgoing_fec_packets') + Owned(encoder', decoder')
                    + Owned(transition'.enc, transition'.dec)
      BY <2>5 DEF Live
    <3>4. Live' = 2 * Len(outgoing_fec_packets) + (own + Blocks(kind) - back - gone)
                    + (fading + Blocks(kind) - back2 - gone2)
      BY <1>0, <1>4, <2>00, <3>3
    <3>5. in_use' = Live' + lost'
      <4> HIDE DEF LedgerInv
      <4>1. Blocks(kind) \in Int /\ Len(outgoing_fec_packets) \in Int
        BY <1>4, <1>5
      <4>2. own \in Int /\ back \in Int /\ gone \in Int
        BY <1>0
      <4>3. fading \in Int /\ back2 \in Int /\ gone2 \in Int
        BY <2>00
      <4>4. in_use' = 2 * Len(outgoing_fec_packets) + own + fading + lost
                        + 2 * Blocks(kind) - back - back2
        BY <3>1, <3>2
      <4>5. Live' + lost' = 2 * Len(outgoing_fec_packets) + (own + Blocks(kind) - back - gone)
                              + (fading + Blocks(kind) - back2 - gone2) + (lost + gone + gone2)
        BY <3>2, <3>4
      <4>6. PICK q \in Int : q = 2 * Len(outgoing_fec_packets)
        BY <4>1
      <4>7. Blocks(kind) = 1 \/ Blocks(kind) = 2
        BY <1>5
      <4>8. CASE Blocks(kind) = 1
        BY <2>0, <4>2, <4>3, <4>4, <4>5, <4>6, <4>8
      <4>9. CASE Blocks(kind) = 2
        BY <2>0, <4>2, <4>3, <4>4, <4>5, <4>6, <4>9
      <4> QED BY <4>7, <4>8, <4>9
    <3> QED BY <3>5 DEF BlockLedger
  <2>10. RepairsAlone'
    <3>1. lost + decoder.held + transition.dec.held = 2 * absorbed
      BY <1>6 DEF RepairsAlone
    <3>2. /\ lost' = lost + gone + gone2 /\ absorbed' = absorbed + gone + gone2
          /\ decoder'.held = decoder.held + gone
          /\ transition'.dec.held = transition.dec.held + gone2
      BY <1>2, <2>1, <2>3, <2>4 DEF gone, gone2
    <3>3. lost' + decoder'.held + transition'.dec.held = 2 * absorbed'
      BY <1>0, <1>3, <2>0, <2>00, <2>6, <3>1, <3>2
    <3> QED BY <2>5, <3>3 DEF RepairsAlone
  <2> QED BY <1>4, <2>7, <2>8, <2>9, <2>10
<1>7. CASE ~(Retiring /\ transition_left > Half)
  <2>1. /\ in_use' = in_use + Blocks(kind) - FreedBy(decoder, kind, decoder')
        /\ lost' = lost + LostBy(decoder, kind)
        /\ absorbed' = absorbed + LostBy(decoder, kind)
        /\ UNCHANGED transition
    BY <1>7 DEF Recv
  <2>2. CodecTypes'
    <3>1. encoder' \in Encoders
      BY <1>1
    <3>2. transition' \in {None} \cup Pairs /\ (Retiring' => Countable(transition'.dec))
      BY <2>1 DEF CodecTypes, Retiring
    <3> QED BY <1>2, <3>1, <3>2 DEF CodecTypes, Countable
  <2>3. Counters'
    <3>1. in_use' \in Int /\ lost' \in Nat /\ absorbed' \in Nat
      <4> HIDE DEF LedgerInv
      <4>1. in_use \in Int /\ lost \in Nat /\ absorbed \in Nat
        BY DEF LedgerInv, Counters
      <4> QED BY <1>2, <1>5, <2>1, <4>1
    <3> QED BY <1>1, <3>1 DEF Counters
  <2> DEFINE fading == IF Retiring THEN Owned(transition.enc, transition.dec) ELSE 0
             matrix == IF Retiring THEN transition.dec.held ELSE 0
  <2>4. fading \in Int /\ matrix \in Int
    BY OwnedType, DecoderType, TransitionType
  <2>5. fading' = fading /\ matrix' = matrix
    BY <2>1 DEF Retiring, Owned, Returned
  <2>6. /\ Live = 2 * Len(outgoing_fec_packets) + Owned(encoder, decoder) + fading
        /\ Live' = 2 * Len(outgoing_fec_packets') + Owned(encoder', decoder') + fading'
        /\ RepairsAlone <=> lost + decoder.held + matrix = 2 * absorbed
        /\ RepairsAlone' <=> lost' + decoder'.held + matrix' = 2 * absorbed'
    BY DEF Live, RepairsAlone
  <2> HIDE DEF fading, matrix
  <2>0. in_use \in Int /\ lost \in Int /\ absorbed \in Int
    BY DEF Counters
  <2>7. BlockLedger'
    <3>1. in_use = 2 * Len(outgoing_fec_packets) + own + fading + lost
      BY <2>6 DEF BlockLedger, own
    <3>2. in_use' = in_use + Blocks(kind) - back /\ lost' = lost + gone
      BY <2>1 DEF back, gone
    <3>3. Live' = 2 * Len(outgoing_fec_packets) + (own + Blocks(kind) - back - gone) + fading
      BY <1>0, <1>4, <2>5, <2>6
    <3>4. in_use' = Live' + lost'
      <4> HIDE DEF LedgerInv
      <4>1. Blocks(kind) \in Int /\ Len(outgoing_fec_packets) \in Int
        BY <1>4, <1>5
      <4>2. own \in Int /\ back \in Int /\ gone \in Int /\ fading \in Int
        BY <1>0, <2>4
      <4> QED BY <2>0, <3>1, <3>2, <3>3, <4>1, <4>2
    <3> QED BY <3>4 DEF BlockLedger
  <2>8. RepairsAlone'
    <3>1. lost + decoder.held + matrix = 2 * absorbed
      BY <2>6
    <3>2. lost' = lost + gone /\ absorbed' = absorbed + gone /\ decoder'.held = decoder.held + gone
      BY <1>2, <2>1 DEF gone
    <3>3. lost' + decoder'.held + matrix' = 2 * absorbed'
      <4> HIDE DEF LedgerInv
      <4>1. gone \in Int /\ matrix \in Int /\ decoder.held \in Int
        BY <1>0, <1>3, <2>4
      <4> QED BY <2>0, <2>5, <3>1, <3>2, <4>1
    <3> QED BY <2>6, <3>3
  <2> QED BY <1>4, <2>2, <2>3, <2>7, <2>8
<1> QED BY <1>6, <1>7

(* A packet of quiche: its clones enter the windows of both encoders, what *)
(* they evict and what a retired pair still has go back.                   *)
LEMMA LedgerFresh ==
  ASSUME LedgerInv, SendFresh
  PROVE  LedgerInv'
<1> DEFINE enc == add_source_packet(encoder)
           late == Retiring /\ transition_left > Half
           repairs == Emitted(enc) + (IF late THEN Emitted(RetiringEncoder) ELSE 0)
           given == Evicted(encoder)
           given2 == IF Retiring THEN Evicted(transition.enc) ELSE 0
           clone2 == IF Retiring THEN 1 ELSE 0
           ret == IF Retires THEN Returned(RetiringEncoder, transition.dec) ELSE 0
           gone == IF Retires THEN transition.dec.held ELSE 0
           fading == IF Retiring THEN Owned(transition.enc, transition.dec) ELSE 0
           matrix == IF Retiring THEN transition.dec.held ELSE 0
<1>1. CodecTypes /\ Counters /\ QueueTypes /\ BlockLedger /\ RepairsAlone
  BY DEF LedgerInv
<1>2. /\ encoder \in Encoders /\ Countable(decoder)
      /\ packet_id_counter \in Nat /\ in_use \in Int /\ lost \in Nat /\ absorbed \in Nat
  BY <1>1 DEF CodecTypes, Counters
<1>3. /\ enc \in Encoders /\ enc.fill = encoder.fill + 1 - given
      /\ given \in {0, 1} /\ Emitted(enc) \in Nat
  BY <1>2, WindowStep
<1>4. Retiring => /\ transition \in Pairs /\ transition.enc \in Encoders
                  /\ Countable(transition.dec)
  BY <1>1, TransitionType
<1>5. Retiring => /\ RetiringEncoder \in Encoders
                  /\ RetiringEncoder.fill = transition.enc.fill + 1 - Evicted(transition.enc)
                  /\ Evicted(transition.enc) \in {0, 1} /\ Emitted(RetiringEncoder) \in Nat
  BY <1>4, WindowStep DEF RetiringEncoder
<1>6. repairs \in Nat /\ given \in Int /\ given2 \in Int /\ clone2 \in Int
  BY <1>3, <1>5
<1>7. Retires => Retiring
  BY DEF Retires
<1>8. Retiring => /\ Returned(RetiringEncoder, transition.dec)
                       = RetiringEncoder.fill + Cardinality(transition.dec.sys)
                  /\ Owned(transition.enc, transition.dec)
                       = transition.enc.fill + Cardinality(transition.dec.sys) + transition.dec.held
                  /\ Owned(RetiringEncoder, transition.dec)
                       = RetiringEncoder.fill + Cardinality(transition.dec.sys) + transition.dec.held
                  /\ transition.enc.fill \in Nat /\ RetiringEncoder.fill \in Nat
                  /\ Cardinality(transition.dec.sys) \in Nat /\ transition.dec.held \in Nat
  BY <1>4, <1>5, OwnedType, DecoderType
<1>9. ret \in Int /\ gone \in Nat /\ fading \in Int /\ matrix \in Nat
  BY <1>7, <1>8
<1>10. /\ outgoing_fec_packets = <<>>
       /\ packet_id_counter' = packet_id_counter + 1
       /\ encoder' = enc /\ decoder' = decoder /\ absorbed' = absorbed
       /\ transition' = IF ~Retiring \/ Retires THEN None
                        ELSE [transition EXCEPT !.enc = RetiringEncoder]
       /\ outgoing_fec_packets' = Tail(<<"sys">> \o [j \in 1 .. repairs |-> "rep"])
       /\ lost' = lost + gone
  BY DEF SendFresh
<1>11. in_use' = in_use + (2 + clone2 + 2 * repairs)
                   - (Blocks(Head(<<"sys">> \o [j \in 1 .. repairs |-> "rep"])) + given + given2 + ret)
  BY DEF SendFresh
<1> HIDE DEF enc, repairs
<1>12. /\ QueueTypes' /\ Len(outgoing_fec_packets') = repairs
       /\ Blocks(Head(<<"sys">> \o [j \in 1 .. repairs |-> "rep"])) = 1
  <2> DEFINE reps == [j \in 1 .. repairs |-> "rep"]
             queue == <<"sys">> \o reps
  <2>1. reps \in Seq({"sys", "rep"}) /\ Len(reps) = repairs
    BY <1>6
  <2>2. queue \in Seq({"sys", "rep"}) /\ Len(queue) = repairs + 1
        /\ queue[1] = "sys" /\ \A j \in 2 .. repairs + 1 : queue[j] = reps[j - 1]
    BY <1>6, <2>1
  <2>3. \A j \in 2 .. repairs + 1 : queue[j] = "rep"
    BY <1>6, <2>2
  <2> HIDE DEF reps, queue
  <2>4. queue # <<>> /\ Head(queue) = "sys"
    BY <1>6, <2>2
  <2>5. Tail(queue) \in Seq({"sys", "rep"}) /\ Len(Tail(queue)) = repairs
        /\ \A j \in 1 .. repairs : Tail(queue)[j] = queue[j + 1]
    BY <1>6, <2>2, <2>4
  <2>6. outgoing_fec_packets' = Tail(queue)
    BY <1>10 DEF queue, reps
  <2>7. DOMAIN Tail(queue) = 1 .. repairs
    BY <2>5
  <2>8. \A j \in 1 .. repairs : Tail(queue)[j] = "rep"
    BY <1>6, <2>3, <2>5
  <2>9. QueueTypes'
    BY <2>5, <2>6, <2>7, <2>8 DEF QueueTypes
  <2>10. Blocks(Head(queue)) = 1
    BY <2>4 DEF Blocks
  <2> QED BY <2>5, <2>6, <2>9, <2>10 DEF queue, reps
<1> DEFINE fading2 == IF Retiring' THEN Owned(transition'.enc, transition'.dec) ELSE 0
           matrix2 == IF Retiring' THEN transition'.dec.held ELSE 0
<1>13. /\ transition' \in {None} \cup Pairs /\ (Retiring' => Countable(transition'.dec))
       /\ fading2 = fading + clone2 - given2 - ret - gone
       /\ matrix2 = matrix - gone
  <2>1. CASE ~Retiring
    BY <1>7, <1>10, <2>1 DEF Retiring
  <2>2. CASE Retires
    <3>1. Retiring /\ transition' = None
      BY <1>7, <1>10, <2>2
    <3>2. ~Retiring'
      BY <3>1 DEF Retiring
    <3> QED BY <1>5, <1>8, <2>2, <3>1, <3>2
  <2>3. CASE Retiring /\ ~Retires
    <3>1. transition' = [enc |-> RetiringEncoder, dec |-> transition.dec]
      BY <1>4, <1>10, <2>3 DEF Pairs
    <3>2. transition' \in Pairs
      BY <1>4, <1>5, <2>3, <3>1 DEF Pairs, Countable
    <3>3. Retiring' /\ transition'.enc = RetiringEncoder /\ transition'.dec = transition.dec
      BY <3>1, <3>2, NoneAssumption DEF Retiring
    <3>4. fading2 = Owned(RetiringEncoder, transition.dec) /\ matrix2 = matrix
      BY <2>3, <3>3
    <3> QED BY <1>4, <1>5, <1>8, <2>3, <3>2, <3>3, <3>4
  <2> QED BY <2>1, <2>2, <2>3
<1>14. CodecTypes'
  BY <1>2, <1>3, <1>10, <1>13 DEF CodecTypes, Countable
<1> HIDE DEF given, given2, clone2, ret, gone, fading, matrix, fading2, matrix2
<1>15. Counters'
  <2>1. lost' \in Nat /\ packet_id_counter' \in Nat /\ absorbed' \in Nat
    BY <1>2, <1>9, <1>10
  <2>2. in_use' \in Int
    BY <1>2, <1>6, <1>9, <1>11, <1>12
  <2> QED BY <2>1, <2>2 DEF Counters
<1>16. RepairsAlone'
  <2>1. lost + decoder.held + matrix = 2 * absorbed
    BY <1>1 DEF RepairsAlone, matrix
  <2>2. decoder.held \in Nat
    BY <1>2, DecoderType
  <2>3. lost' + decoder'.held + matrix2 = 2 * absorbed'
    BY <1>2, <1>9, <1>10, <1>13, <2>1, <2>2
  <2> QED BY <2>3 DEF RepairsAlone, matrix2
<1>17. BlockLedger'
  <2> DEFINE kept == Cardinality(decoder.sys) + decoder.held
  <2>1. kept \in Nat /\ encoder.fill \in Nat
        /\ Owned(encoder, decoder) = encoder.fill + kept
        /\ Owned(encoder', decoder') = enc.fill + kept
    <3>1. encoder' \in Encoders /\ Countable(decoder')
      BY <1>2, <1>3, <1>10
    <3>2. /\ Owned(encoder, decoder) = encoder.fill + Cardinality(decoder.sys) + decoder.held
          /\ Owned(encoder', decoder') = encoder'.fill + Cardinality(decoder'.sys) + decoder'.held
          /\ encoder.fill \in Nat /\ encoder'.fill \in Nat
          /\ Cardinality(decoder.sys) \in Nat /\ decoder.held \in Nat
      BY <1>2, <3>1, OwnedType, DecoderType
    <3>3. encoder'.fill = enc.fill /\ decoder' = decoder
      BY <1>10
    <3> HIDE DEF enc
    <3> QED BY <3>2, <3>3
  <2> HIDE DEF kept
  <2>2. in_use = encoder.fill + kept + fading + lost
    <3>1. Live = 2 * Len(outgoing_fec_packets) + Owned(encoder, decoder) + fading
      BY DEF Live, fading
    <3>2. Len(outgoing_fec_packets) = 0
      BY <1>10
    <3> QED BY <1>1, <1>9, <2>1, <3>1, <3>2 DEF BlockLedger
  <2>3. Live' = 2 * repairs + (encoder.fill + 1 - given + kept)
                  + (fading + clone2 - given2 - ret - gone)
    <3>1. Live' = 2 * Len(outgoing_fec_packets') + Owned(encoder', decoder') + fading2
      BY DEF Live, fading2
    <3> QED BY <1>3, <1>12, <1>13, <2>1, <3>1
  <2>4. in_use' = encoder.fill + kept + fading + lost + (2 + clone2 + 2 * repairs)
                    - (1 + given + given2 + ret)
    BY <1>11, <1>12, <2>2
  <2>5. Live' + lost' = 2 * repairs + (encoder.fill + 1 - given + kept)
                          + (fading + clone2 - given2 - ret - gone) + (lost + gone)
    BY <1>10, <2>3
  <2>6. in_use' = Live' + lost'
    BY <1>2, <1>6, <1>9, <2>1, <2>4, <2>5
  <2> QED BY <2>6 DEF BlockLedger
<1> QED BY <1>12, <1>14, <1>15, <1>16, <1>17 DEF LedgerInv

(* What dropping a pair of codecs does to the ledger, and what a new pair  *)
(* has to show for itself: nothing.                                        *)
LEMMA LedgerUpdate ==
  ASSUME LedgerInv, NEW p \in Params, update_state(p)
  PROVE  LedgerInv'
<1>1. CodecTypes /\ Counters /\ QueueTypes /\ BlockLedger /\ RepairsAlone
  BY DEF LedgerInv
<1>2. /\ encoder \in Encoders /\ Countable(decoder)
      /\ packet_id_counter \in Nat /\ in_use \in Int /\ lost \in Nat /\ absorbed \in Nat
  BY <1>1 DEF CodecTypes, Counters
<1>3. /\ encoder' = NewEncoder(p) /\ decoder' = NewDecoder(p)
      /\ UNCHANGED <<packet_id_counter, outgoing_fec_packets, absorbed>>
      /\ Switch(p) \/ KeepMode(p)
  BY DEF update_state, Switch, KeepMode
<1>4. /\ encoder' \in Encoders /\ Countable(decoder') /\ decoder'.held = 0
      /\ Owned(encoder', decoder') = 0
  BY <1>3, NewPair DEF Owned
<1>5. QueueTypes' /\ outgoing_fec_packets' = outgoing_fec_packets
      /\ Len(outgoing_fec_packets) \in Nat
  BY <1>1, <1>3 DEF QueueTypes
<1>6. Retiring => /\ transition \in Pairs /\ transition.enc \in Encoders
                  /\ Countable(transition.dec)
  BY <1>1, TransitionType
<1> DEFINE pair == Pair(encoder, decoder)
           fading == IF Retiring THEN Owned(transition.enc, transition.dec) ELSE 0
           matrix == IF Retiring THEN transition.dec.held ELSE 0
           fading2 == IF Retiring' THEN Owned(transition'.enc, transition'.dec) ELSE 0
           matrix2 == IF Retiring' THEN transition'.dec.held ELSE 0
           own == Owned(encoder, decoder)
<1>7. pair \in Pairs /\ pair.enc = encoder /\ pair.dec = decoder
  BY <1>2 DEF Pair, Pairs, Countable
<1>8. /\ own = Returned(encoder, decoder) + decoder.held
      /\ own \in Int /\ Returned(encoder, decoder) \in Nat /\ decoder.held \in Nat
  BY <1>2, OwnedType, DecoderType
<1>9. Retiring => /\ fading = Returned(transition.enc, transition.dec) + transition.dec.held
                  /\ Returned(transition.enc, transition.dec) \in Nat /\ transition.dec.held \in Nat
  BY <1>6, OwnedType, DecoderType
<1>10. fading \in Int /\ matrix \in Nat
  BY <1>9
<1>11. /\ transition' \in {None} \cup Pairs /\ (Retiring' => Countable(transition'.dec))
       /\ \E freed \in Nat, gone \in Nat :
            /\ in_use' = in_use - freed /\ lost' = lost + gone
            /\ fading2 = own + fading - freed - gone
            /\ matrix2 = decoder.held + matrix - gone
  <2>1. CASE Switch(p) /\ Retiring
    <3>1. /\ transition' = pair
          /\ in_use' = in_use - Returned(transition.enc, transition.dec)
          /\ lost' = lost + transition.dec.held
      BY <2>1 DEF Switch, Dropped
    <3>2. Retiring' /\ Countable(transition'.dec) /\ fading2 = own /\ matrix2 = decoder.held
      BY <1>2, <1>7, <3>1, NoneAssumption DEF Retiring
    <3>3. /\ fading2 = own + fading - Returned(transition.enc, transition.dec) - transition.dec.held
          /\ matrix2 = decoder.held + matrix - transition.dec.held
      BY <1>8, <1>9, <2>1, <3>2
    <3> HIDE DEF fading2, matrix2, fading, matrix, own, pair
    <3> QED BY <1>7, <1>9, <2>1, <3>1, <3>2, <3>3
  <2>2. CASE Switch(p) /\ ~Retiring
    <3>1. transition' = pair /\ in_use' = in_use /\ lost' = lost
      BY <2>2 DEF Switch, DroppedNone
    <3>2. Retiring' /\ Countable(transition'.dec) /\ fading2 = own /\ matrix2 = decoder.held
      BY <1>2, <1>7, <3>1, NoneAssumption DEF Retiring
    <3>3. /\ in_use' = in_use - 0 /\ lost' = lost + 0
          /\ fading2 = own + fading - 0 - 0 /\ matrix2 = decoder.held + matrix - 0
      BY <1>2, <1>8, <2>2, <3>1, <3>2
    <3> HIDE DEF fading2, matrix2, fading, matrix, own, pair
    <3> QED BY <1>7, <3>1, <3>2, <3>3
  <2>3. CASE KeepMode(p)
    <3>1. /\ transition' = transition /\ in_use' = in_use - Returned(encoder, decoder)
          /\ lost' = lost + decoder.held
      BY <1>7, <2>3 DEF KeepMode, Dropped
    <3>2. /\ Retiring' <=> Retiring
          /\ fading2 = fading /\ matrix2 = matrix
      BY <3>1 DEF Retiring
    <3>3. /\ fading2 = own + fading - Returned(encoder, decoder) - decoder.held
          /\ matrix2 = decoder.held + matrix - decoder.held
      BY <1>8, <1>10, <3>2
    <3>4. transition' \in {None} \cup Pairs /\ (Retiring' => Countable(transition'.dec))
      BY <1>1, <3>1, <3>2 DEF CodecTypes
    <3> HIDE DEF fading2, matrix2, fading, matrix, own, pair
    <3> QED BY <1>8, <3>1, <3>3, <3>4
  <2> QED BY <1>3, <2>1, <2>2, <2>3
<1>12. CodecTypes'
  BY <1>4, <1>11 DEF CodecTypes, Countable
<1>13. PICK freed \in Nat, gone \in Nat :
         /\ in_use' = in_use - freed /\ lost' = lost + gone
         /\ fading2 = own + fading - freed - gone
         /\ matrix2 = decoder.held + matrix - gone
  BY <1>11
<1> HIDE DEF fading2, matrix2, fading, matrix, own, pair
<1>14. Counters'
  BY <1>2, <1>3, <1>13 DEF Counters
<1>15. BlockLedger'
  <2>1. in_use = 2 * Len(outgoing_fec_packets) + own + fading + lost
    BY <1>1 DEF BlockLedger, Live, own, fading
  <2>2. Live' = 2 * Len(outgoing_fec_packets) + 0 + fading2
    BY <1>4, <1>5 DEF Live, fading2
  <2>3. in_use' = (2 * Len(outgoing_fec_packets) + own + fading + lost) - freed
    <3>1. in_use' = in_use - freed
      BY <1>13
    <3> QED BY <2>1, <3>1
  <2>4. Live' + lost' = 2 * Len(outgoing_fec_packets) + 0 + (own + fading - freed - gone)
                          + (lost + gone)
    BY <1>13, <2>2
  <2>5. in_use' = Live' + lost'
    <3>1. /\ lost \in Int /\ own \in Int /\ fading \in Int /\ freed \in Int /\ gone \in Int
          /\ Len(outgoing_fec_packets) \in Int
      BY <1>2, <1>5, <1>8, <1>10
    <3> QED BY <2>3, <2>4, <3>1
  <2> QED BY <2>5 DEF BlockLedger
<1>16. RepairsAlone'
  <2>1. lost + decoder.held + matrix = 2 * absorbed
    BY <1>1 DEF RepairsAlone, matrix
  <2>2. lost' + decoder'.held + matrix2 = (lost + gone) + 0 + (decoder.held + matrix - gone)
    BY <1>4, <1>13
  <2>3. lost' + decoder'.held + matrix2 = 2 * absorbed'
    BY <1>2, <1>3, <1>8, <1>10, <2>1, <2>2
  <2> QED BY <2>3 DEF RepairsAlone, matrix2
<1> QED BY <1>5, <1>12, <1>14, <1>15, <1>16 DEF LedgerInv

LEMMA LedgerInit == Init => LedgerInv
<1> SUFFICES ASSUME Init PROVE LedgerInv
  OBVIOUS
<1>1. PICK p \in Params : encoder = NewEncoder(p) /\ decoder = NewDecoder(p)
  BY DEF Init
<1>2. encoder \in Encoders /\ Countable(decoder) /\ Owned(encoder, decoder) = 0 /\ decoder.held = 0
  BY <1>1, NewPair DEF Owned
<1>3. /\ packet_id_counter = 0 /\ outgoing_fec_packets = <<>> /\ ~Retiring /\ transition = None
      /\ in_use = 0 /\ lost = 0 /\ absorbed = 0
  BY DEF Init, Retiring
<1>4. Len(outgoing_fec_packets) = 0
  BY <1>3
<1>5. CodecTypes /\ Counters
  BY <1>2, <1>3 DEF CodecTypes, Counters
<1>6. QueueTypes
  BY <1>3 DEF QueueTypes
<1>7. BlockLedger /\ RepairsAlone
  BY <1>2, <1>3, <1>4 DEF BlockLedger, RepairsAlone, Live
<1> QED BY <1>5, <1>6, <1>7 DEF LedgerInv

LEMMA LedgerInductive ==
  ASSUME LedgerInv, [Next]_vars
  PROVE  LedgerInv'
<1>1. CASE UNCHANGED vars
  BY <1>1, LedgerIdle DEF vars, fec
<1>2. CASE SendQueued
  BY <1>2, LedgerQueued
<1>3. CASE SendNothing \/ RecvRefused
  <2>1. in_use' = in_use
    BY <1>3 DEF SendNothing, RecvRefused, LedgerInv, Counters
  <2> QED BY <1>3, <2>1, LedgerIdle DEF SendNothing, RecvRefused
<1>4. CASE SendFresh
  BY <1>4, LedgerFresh
<1>5. ASSUME NEW kind \in {"sys", "rep"}, Recv(kind) PROVE LedgerInv'
  BY <1>5, LedgerRecv
<1>6. ASSUME NEW p \in Params, update_state(p) PROVE LedgerInv'
  BY <1>6, LedgerUpdate
<1>7. ASSUME NEW a \in Addrs, migrate_connection(a) \/ PathSeen(a) \/ PeerMigrates(a)
      PROVE  LedgerInv'
  BY <1>7, LedgerIdle DEF migrate_connection, PathSeen, PeerMigrates, others
<1>8. ASSUME NEW kind \in {"Validated", "FailedValidation"}, ProbeEnds(kind) PROVE LedgerInv'
  BY <1>8, LedgerIdle DEF ProbeEnds, others
<1> QED BY <1>1, <1>2, <1>3, <1>4, <1>5, <1>6, <1>7, <1>8 DEF Next

(* For any parameters and any sequence of calls no block of the pool is    *)
(* freed twice or forgotten, and every block that is dropped past the pool *)
(* was one of a received repair packet.                                    *)
THEOREM LedgerSafe == Spec => [](BlockLedger /\ RepairsAlone)
<1>1. LedgerInv => BlockLedger /\ RepairsAlone
  BY DEF LedgerInv
<1> QED BY <1>1, LedgerInit, LedgerInductive, PTL DEF Spec

(* What is dropped past the pool is what repair packets brought in, twice  *)
(* one block each, whether their decoder is in use, retired or gone.       *)
THEOREM RepairsSafe == Spec => []RepairsAlone
<1>1. BlockLedger /\ RepairsAlone => RepairsAlone
  OBVIOUS
<1> QED BY <1>1, LedgerSafe, PTL

-----------------------------------------------------------------------------
(* The queue of packets to send. *)

(* A collection of finite sets has a member that contains no other one. *)
LEMMA MinimalSubset ==
  ASSUME NEW S, IsFiniteSet(S), NEW B \in SUBSET (SUBSET S), B # {}
  PROVE  \E T \in B : \A U \in B : U \subseteq T => U = T
<1>1. B \subseteq FiniteSubsetsOf(S)
  BY FS_Subset DEF FiniteSubsetsOf
<1>2. PICK T \in B : \A U \in B : ~(<<U, T>> \in StrictSubsetOrdering(S))
  BY <1>1, FS_StrictSubsetOrderingWellFounded, WFMin
<1> QED BY <1>2 DEF StrictSubsetOrdering

(* A set of integers that is finite has a greatest element: a least subset *)
(* without one would have one, given that of all but one of its elements.  *)
LEMMA FiniteMax ==
  ASSUME NEW S, \A x \in S : x \in Int, IsFiniteSet(S), S # {}
  PROVE  \E m \in S : \A x \in S : x <= m
<1> DEFINE HasMax(T) == \E m \in T : \A x \in T : x <= m
           Bad == {T \in SUBSET S : T # {} /\ ~HasMax(T)}
<1> SUFFICES ASSUME Bad # {} PROVE FALSE
  OBVIOUS
<1>1. PICK T \in Bad : \A U \in Bad : U \subseteq T => U = T
  <2>1. Bad \in SUBSET (SUBSET S)
    OBVIOUS
  <2> HIDE DEF Bad, HasMax
  <2> QED BY <2>1, MinimalSubset
<1>2. PICK t \in T : TRUE
  BY <1>1
<1>3. T \ {t} \notin Bad
  BY <1>1, <1>2
<1>4. CASE T \ {t} = {}
  <2>1. T = {t}
    BY <1>2, <1>4
  <2> QED BY <1>1, <2>1
<1>5. CASE T \ {t} # {}
  <2>1. PICK m \in T \ {t} : \A x \in T \ {t} : x <= m
    BY <1>1, <1>3, <1>5
  <2>2. m \in Int /\ t \in Int
    BY <1>1, <1>2, <2>1
  <2>3. HasMax(T)
    <3>1. CASE t <= m
      BY <2>1, <3>1
    <3>2. CASE m < t
      <4>1. \A x \in T : x <= t
        BY <1>1, <2>1, <2>2, <3>2
      <4> QED BY <4>1, <1>2
    <3> QED BY <2>2, <3>1, <3>2
  <2> QED BY <1>1, <2>3
<1> QED BY <1>4, <1>5

(* MaxRepairs is what its name says. *)
LEMMA RepairsBound ==
  MaxRepairs \in Nat /\ \A p \in Params : p[2] \in Nat /\ p[2] <= MaxRepairs
<1> DEFINE R == {p[2] : p \in Params}
           f == [p \in Params |-> p[2]]
<1>1. \A p \in Params : p[2] \in Nat
  BY ParamsAssumption
<1>2. IsFiniteSet(R) /\ R # {}
  <2>1. f \in Surjection(Params, R)
    BY DEF Surjection
  <2> QED BY <2>1, FS_Surjection, ParamsAssumption
<1>3. PICK m \in R : \A x \in R : x <= m
  <2>1. \A x \in R : x \in Int
    BY <1>1
  <2> HIDE DEF R
  <2> QED BY <1>2, <2>1, FiniteMax
<1>4. MaxRepairs \in R /\ \A p \in Params : p[2] <= MaxRepairs
  <2>1. \E n \in R : \A p \in Params : p[2] <= n
    BY <1>3
  <2> QED BY <2>1 DEF MaxRepairs
<1> QED BY <1>1, <1>4

(* Both encoders were made from parameters of a mode. *)
QueueInv ==
  /\ LedgerInv /\ OnlyRepairsQueued
  /\ encoder.r <= MaxRepairs /\ (Retiring => transition.enc.r <= MaxRepairs)

LEMMA EmittedBound ==
  ASSUME NEW enc \in Encoders, enc.r <= MaxRepairs
  PROVE  /\ add_source_packet(enc).r <= MaxRepairs
         /\ Emitted(add_source_packet(enc)) \in 0 .. MaxRepairs
<1>1. add_source_packet(enc) \in Encoders /\ add_source_packet(enc).r = enc.r
  BY WindowStep DEF add_source_packet, Encoders
<1> QED BY <1>1, RepairsBound DEF Emitted, Encoders

(* A packet of quiche leaves a queue of the repair packets of at most two  *)
(* encoders.                                                               *)
LEMMA QueueFresh ==
  ASSUME QueueInv, SendFresh
  PROVE  OnlyRepairsQueued' /\ encoder'.r <= MaxRepairs
         /\ (Retiring' => transition'.enc.r <= MaxRepairs)
<1> DEFINE enc == add_source_packet(encoder)
           repairs == Emitted(enc) + (IF Retiring /\ transition_left > Half
                                      THEN Emitted(RetiringEncoder) ELSE 0)
<1>1. /\ encoder \in Encoders /\ encoder.r <= MaxRepairs /\ CodecTypes
      /\ Retiring => transition.enc.r <= MaxRepairs
  BY DEF QueueInv, LedgerInv, CodecTypes
<1>2. Retiring => transition \in Pairs /\ transition.enc \in Encoders
  BY <1>1, TransitionType
<1>3. enc.r <= MaxRepairs /\ Emitted(enc) \in 0 .. MaxRepairs
  BY <1>1, EmittedBound
<1>4. Retiring => /\ RetiringEncoder.r <= MaxRepairs
                  /\ Emitted(RetiringEncoder) \in 0 .. MaxRepairs
  BY <1>1, <1>2, EmittedBound DEF RetiringEncoder
<1>5. repairs \in Nat /\ repairs <= 2 * MaxRepairs
  BY <1>3, <1>4, RepairsBound
<1>6. /\ encoder' = enc
      /\ transition' = IF ~Retiring \/ Retires THEN None
                       ELSE [transition EXCEPT !.enc = RetiringEncoder]
      /\ outgoing_fec_packets' = Tail(<<"sys">> \o [j \in 1 .. repairs |-> "rep"])
  BY DEF SendFresh
<1> HIDE DEF repairs
<1>7. OnlyRepairsQueued'
  <2>1. Tail(<<"sys">> \o [j \in 1 .. repairs |-> "rep"]) = [j \in 1 .. repairs |-> "rep"]
    BY <1>5
  <2>2. Len([j \in 1 .. repairs |-> "rep"]) = repairs
    BY <1>5
  <2>3. MaxRepairs' = MaxRepairs
    BY DEF MaxRepairs
  <2> QED BY <1>5, <1>6, <2>1, <2>2, <2>3 DEF OnlyRepairsQueued
<1>8. Retiring' => transition'.enc.r <= MaxRepairs
  BY <1>2, <1>4, <1>6 DEF Retiring, Pairs
<1> QED BY <1>3, <1>6, <1>7, <1>8

LEMMA QueueInductive ==
  ASSUME QueueInv, [Next]_vars
  PROVE  QueueInv'
<1>1. LedgerInv'
  BY LedgerInductive DEF QueueInv
<1>2. MaxRepairs' = MaxRepairs
  BY DEF MaxRepairs
<1>3. CASE UNCHANGED <<outgoing_fec_packets, encoder, transition>>
  BY <1>1, <1>2, <1>3 DEF QueueInv, OnlyRepairsQueued, Retiring
<1>4. CASE SendQueued
  <2>1. /\ outgoing_fec_packets \in Seq({"sys", "rep"}) /\ outgoing_fec_packets # <<>>
        /\ outgoing_fec_packets' = Tail(outgoing_fec_packets)
        /\ UNCHANGED <<encoder, transition>>
    BY <1>4 DEF SendQueued, QueueInv, LedgerInv, QueueTypes, fec
  <2>2. /\ Len(outgoing_fec_packets') = Len(outgoing_fec_packets) - 1
        /\ \A j \in DOMAIN outgoing_fec_packets' :
             outgoing_fec_packets'[j] = outgoing_fec_packets[j + 1]
             /\ j + 1 \in DOMAIN outgoing_fec_packets
    BY <2>1
  <2>3. OnlyRepairsQueued'
    BY <1>2, <2>1, <2>2, RepairsBound DEF QueueInv, OnlyRepairsQueued
  <2> QED BY <1>1, <1>2, <2>1, <2>3 DEF QueueInv, Retiring
<1>5. CASE SendFresh
  BY <1>1, <1>2, <1>5, QueueFresh DEF QueueInv
<1>6. ASSUME NEW kind \in {"sys", "rep"}, Recv(kind) PROVE QueueInv'
  <2>1. UNCHANGED <<outgoing_fec_packets, encoder>>
    BY <1>6 DEF Recv
  <2>2. transition' = transition \/ \E d : transition' = [transition EXCEPT !.dec = d]
    BY <1>6 DEF Recv
  <2>3. Retiring => transition \in Pairs
    BY TransitionType DEF QueueInv, LedgerInv
  <2>4. Retiring' => Retiring /\ transition'.enc = transition.enc
    BY <1>6, <2>2, <2>3 DEF Recv, Retiring, Pairs
  <2> QED BY <1>1, <1>2, <2>1, <2>4 DEF QueueInv, OnlyRepairsQueued
<1>7. ASSUME NEW p \in Params, update_state(p) PROVE QueueInv'
  <2>1. UNCHANGED outgoing_fec_packets /\ encoder' = NewEncoder(p)
        /\ (transition' = transition \/ transition' = Pair(encoder, decoder))
    BY <1>7 DEF update_state, Switch, KeepMode
  <2>2. encoder'.r <= MaxRepairs
    BY <2>1, RepairsBound DEF NewEncoder
  <2>3. Retiring' => transition'.enc.r <= MaxRepairs
    BY <2>1 DEF Retiring, Pair, QueueInv
  <2> QED BY <1>1, <1>2, <2>1, <2>2, <2>3 DEF QueueInv, OnlyRepairsQueued
<1>8. CASE SendNothing \/ RecvRefused \/ UNCHANGED vars
  BY <1>3, <1>8 DEF SendNothing, RecvRefused, vars, fec
<1>9. ASSUME NEW a \in Addrs, migrate_connection(a) \/ PathSeen(a) \/ PeerMigrates(a)
      PROVE  QueueInv'
  BY <1>3, <1>9 DEF migrate_connection, PathSeen, PeerMigrates, others, fec
<1>10. ASSUME NEW kind \in {"Validated", "FailedValidation"}, ProbeEnds(kind) PROVE QueueInv'
  BY <1>3, <1>10 DEF ProbeEnds, others, fec
<1> QED BY <1>4, <1>5, <1>6, <1>7, <1>8, <1>9, <1>10 DEF Next

(* Between two calls the queue holds repair packets only, at most those of *)
(* two encoders for one packet, however the modes change and the calls of  *)
(* send, recv and update_state alternate.                                  *)
THEOREM QueueSafe == Spec => []OnlyRepairsQueued
<1>1. Init => QueueInv
  <2> SUFFICES ASSUME Init PROVE QueueInv
    OBVIOUS
  <2>1. PICK p \in Params : encoder = NewEncoder(p)
    BY DEF Init
  <2>2. outgoing_fec_packets = <<>> /\ ~Retiring
    BY DEF Init, Retiring
  <2>3. encoder.r <= MaxRepairs
    BY <2>1, RepairsBound DEF NewEncoder
  <2>4. OnlyRepairsQueued
    BY <2>2, RepairsBound DEF OnlyRepairsQueued
  <2> QED BY <2>2, <2>3, <2>4, LedgerInit DEF QueueInv
<1>2. QueueInv => OnlyRepairsQueued
  BY DEF QueueInv
<1> QED BY <1>1, <1>2, QueueInductive, PTL DEF Spec
=============================================================================
