------------------------------- MODULE Stream -------------------------------
(***************************************************************************)
(* One direction of a bidirectional QUIC stream of the vendored quiche,    *)
(* from endpoint A, whose application writes, to endpoint B, whose         *)
(* application reads: SendBuf and RecvBuf with the RangeBufs they keep     *)
(* (stream/send_buf.rs, stream/recv_buf.rs, range_buf.rs), stream and      *)
(* connection flow control (flowcontrol.rs), and what lib.rs does with     *)
(* them in stream_send, stream_recv, stream_shutdown, send_single and      *)
(* process_frame.  Packets are lost and reordered; loss recovery may       *)
(* declare a packet lost that was not, or reschedule its frames (PTO)      *)
(* while it is still in flight, as PacketFate says.                        *)
(*                                                                         *)
(* The n-th byte of the input is the value n.                              *)
(***************************************************************************)
EXTENDS Integers, Sequences, FiniteSets, SequencesExt, FiniteSetsExt

CONSTANTS
  N,                  \* bytes the application may write
  SEND_BUFFER_SIZE,   \* bytes of one buffer of the send queue
  MaxFrame,           \* stream bytes that fit into a packet
  ReadSizes,          \* sizes of the reader's buffer
  SlotsA, SlotsB,     \* packets that each endpoint may have in flight
  StreamLimit,        \* initial_max_stream_data
  StreamWindow,       \* initial window of the stream's flow control
  ConnLimit,          \* initial_max_data
  ConnWindow,         \* initial window of the connection's flow control
  MaxStreamWindow,    \* the window autotuning of a stream may reach
  MaxConnWindow,      \* and that of the connection
  Abandoning,         \* may the applications call stream_shutdown?
  FinAlone,           \* may the end be written by a call of its own, after all data?
  MaxDrops,           \* bound: packets the network drops
  MaxSpurious,        \* bound: packets declared lost or rescheduled in vain
  None                \* Option::None

ASSUME SizeAssumption ==
  /\ N \in Nat /\ SEND_BUFFER_SIZE \in Nat \ {0} /\ MaxFrame \in Nat \ {0}
  /\ ReadSizes \subseteq Nat \ {0} /\ Abandoning \in BOOLEAN /\ FinAlone \in BOOLEAN
ASSUME LimitAssumption ==
  /\ StreamLimit \in Nat /\ StreamWindow \in 0 .. StreamLimit
  /\ ConnLimit \in Nat /\ ConnWindow \in Nat
  /\ MaxDrops \in Nat /\ MaxSpurious \in Nat
(* As for the defaults, 32 KB of 16 MB and 48 KB of 24 MB: tuning a window *)
(* never makes it smaller.                                                 *)
ASSUME WindowAssumption ==
  /\ MaxStreamWindow \in Nat /\ MaxConnWindow \in Nat
  /\ StreamWindow <= MaxStreamWindow /\ ConnWindow <= MaxConnWindow
  /\ (3 * MaxStreamWindow) \div 2 <= MaxConnWindow
ASSUME SlotsAssumption == SlotsA \subseteq Nat /\ SlotsB \subseteq Nat
ASSUME NoneAssumption == None \notin Nat

VARIABLES
  send,     \* A's SendBuf
  tx,       \* A's connection: queues, lost frames, limits
  recv,     \* B's RecvBuf
  rx,       \* B's connection
  app,      \* the two applications
  toB, toA, \* per slot, a packet not yet resolved, or NoPacket
  faults    \* [drops, spurious]: faults so far

vars == <<send, tx, recv, rx, app, toB, toA, faults>>

Bytes(from, n) == [i \in 1 .. n |-> from + i]

(* A loop over seq; TLC evaluates the accumulator once per element. *)
Fold(op(_, _), base, seq) ==
  LET loop[i \in 0 .. Len(seq)] ==
        IF i = 0 THEN base ELSE CHOOSE r \in {op(acc, seq[i]) : acc \in {loop[i - 1]}} : TRUE
  IN  loop[Len(seq)]

-----------------------------------------------------------------------------
(* RangeBuf: data from stream offset off on, of which pos bytes are used   *)
(* up.                                                                     *)

RangeBuf(off, data) == [off |-> off, data |-> data, pos |-> 0]
Off(b) == b.off + b.pos
MaxOff(b) == b.off + Len(b.data)
BufLen(b) == Len(b.data) - b.pos
IsEmpty(b) == BufLen(b) = 0

SplitFront(b, at) ==
  [b EXCEPT !.data = SubSeq(@, 1, at), !.pos = Min({@, at})]
SplitRest(b, at) ==
  [off |-> b.off + at, data |-> SubSeq(b.data, at + 1, Len(b.data)),
   pos |-> Max({b.pos, at}) - at]

-----------------------------------------------------------------------------
(* RangeSet: disjoint ranges <<start, end>>; touching ranges are merged.   *)
RangeInsert(R, s, e) ==
  LET touched == {r \in R : s <= r[2] /\ e >= r[1]}
  IN  (R \ touched) \cup
      {<<Min({s} \cup {r[1] : r \in touched}), Max({e} \cup {r[2] : r \in touched})>>}

-----------------------------------------------------------------------------
(* FlowControl: consumed, max_data, window; tuned says that last_update is *)
(* set.                                                                    *)

FlowControl(max_data, window) ==
  [consumed |-> 0, max_data |-> max_data, window |-> window, tuned |-> FALSE]

should_update_max_data(fc) == fc.max_data - fc.consumed < fc.window \div 2
max_data_next(fc) == fc.consumed + fc.window
update_max_data(fc) == [fc EXCEPT !.max_data = max_data_next(fc), !.tuned = TRUE]

(* The window doubles if the last update is less than two RTTs ago, which  *)
(* the model leaves open (quick).                                          *)
autotune_window(fc, quick, max_window) ==
  IF fc.tuned /\ quick THEN [fc EXCEPT !.window = Min({2 * @, max_window})] ELSE fc

ensure_window_lower_bound(fc, w) == [fc EXCEPT !.window = Max({@, w})]

-----------------------------------------------------------------------------
(* SendBuf.  Its count of buffered bytes, len, is never read and left out. *)

NewSendBuf ==
  [data |-> <<>>, pos |-> 0, off |-> 0, emit_off |-> 0,
   max_data |-> StreamLimit, fin_off |-> None, shutdown |-> FALSE,
   acked |-> {}, stopped |-> FALSE]

ack_off(s) == Max({0} \cup {r[2] : r \in {q \in s.acked : q[1] = 0}})

Unsent(s) == {i \in s.pos + 1 .. Len(s.data) : ~IsEmpty(s.data[i])}
off_front(s) == IF Unsent(s) = {} THEN s.off ELSE Off(s.data[Min(Unsent(s))])

is_flushable(s) == s.data # <<>> /\ off_front(s) < s.off /\ off_front(s) < s.max_data
is_complete(s) == s.fin_off # None /\ s.acked = {<<0, s.fin_off>>}

Chunks(from, n) ==
  [c \in 1 .. (n + SEND_BUFFER_SIZE - 1) \div SEND_BUFFER_SIZE |->
     LET done == (c - 1) * SEND_BUFFER_SIZE
     IN  RangeBuf(from + done, Bytes(from + done, Min({n - done, SEND_BUFFER_SIZE})))]

(* write, of the next n bytes: as many as the peer's limit allows are      *)
(* stored, and the end only if they all are.                               *)
StoredOneMore(s, n) == Min({n, s.max_data + 1 - s.off})
Stored(s, n) == Min({n, s.max_data - s.off})
SendWrite(s, n, fin) ==
  LET k == Stored(s, n)
  IN  [s EXCEPT !.fin_off = IF fin /\ k = n THEN s.off + n ELSE @,
                !.data = @ \o Chunks(s.off, k),
                !.off = @ + k]

(* emit: unsent bytes that follow each other, from the first one on, into  *)
(* a frame of at most room bytes.                                          *)
EmitChunk(acc, i) ==
  LET b == acc.data[i]
      k == Min({BufLen(b), acc.room})
  IN  IF acc.room > 0 /\ ~IsEmpty(b) /\ Off(b) = acc.next /\ acc.next < acc.max_data
      THEN [acc EXCEPT !.data[i].pos = @ + k,
                       !.pos = IF k = BufLen(b) THEN i ELSE i - 1,
                       !.next = @ + k, !.room = @ - k,
                       !.out = @ \o SubSeq(b.data, b.pos + 1, b.pos + k)]
      ELSE acc

Emit(s, room) ==
  LET acc == Fold(EmitChunk,
               [data |-> s.data, pos |-> s.pos, next |-> off_front(s), room |-> room,
                max_data |-> s.max_data, out |-> <<>>],
               [j \in 1 .. Len(s.data) - s.pos |-> s.pos + j])
  IN  [buf |-> [s EXCEPT !.data = acc.data, !.pos = acc.pos,
                         !.emit_off = Max({@, acc.next})],
       frames |-> <<[type |-> "stream", off |-> off_front(s), data |-> acc.out,
                     fin |-> s.fin_off = acc.next]>>]

(* ack_and_drop: buffers at the front that are acked to their end go.      *)
AckAndDrop(s, off, len) ==
  LET r == [s EXCEPT !.acked = RangeInsert(@, off, off + len)]
      kept == {i \in 1 .. Len(s.data) : MaxOff(s.data[i]) > ack_off(r) \/ s.data[i].off >= ack_off(r)}
      drop == IF kept = {} THEN Len(s.data) ELSE Min(kept) - 1
  IN  IF off > ack_off(r) THEN r
      ELSE [r EXCEPT !.data = SubSeq(@, drop + 1, Len(@)),
                     !.pos = Max({0, @ - drop})]

(* retransmit: bytes off .. end - 1 are unsent again, as far as they are   *)
(* still buffered; a buffer that reaches beyond end is split there first.  *)
Marked(b, off, end) == b.off < end /\ off <= MaxOff(b)
CutAt(data, end) ==
  LET cut == {i \in 1 .. Len(data) : data[i].off < end /\ end < MaxOff(data[i])}
      c == Min(cut)
  IN  IF cut = {} THEN data
      ELSE SubSeq(data, 1, c - 1) \o
           <<SplitFront(data[c], end - data[c].off), SplitRest(data[c], end - data[c].off)>> \o
           SubSeq(data, c + 1, Len(data))
MarkedPosKept(b, off) == IF off > b.off THEN b.pos ELSE 0
MarkedPos(b, off) == IF off > b.off THEN Min({b.pos, off - b.off}) ELSE 0
MarkBuf(b, off, end) ==
  IF Marked(b, off, end) THEN [b EXCEPT !.pos = MarkedPos(b, off)] ELSE b

Retransmit(s, off, len) ==
  LET end == off + len
      touched == {i \in 1 .. Len(s.data) : Marked(s.data[i], off, end)}
      data == CutAt(s.data, end)
  IN  IF end <= ack_off(s) \/ touched = {} THEN s
      ELSE [s EXCEPT !.data = [i \in 1 .. Len(data) |-> MarkBuf(data[i], off, end)],
                     !.pos = Min({@, Min(touched) - 1})]

(* reset, of stop and shutdown: what was never sent is dropped, everything *)
(* else counts as acked.                                                   *)
UnsentOff(s) == Max({off_front(s), s.emit_off})
ResetSend(s) ==
  [s EXCEPT !.fin_off = UnsentOff(s), !.data = <<>>, !.off = UnsentOff(s),
            !.acked = RangeInsert(@, 0, UnsentOff(s)), !.pos = 0]
UnsentLen(s) == Max({0, s.off - UnsentOff(s)})

-----------------------------------------------------------------------------
(* RecvBuf: buffers that have not been read, in the order of their ends,   *)
(* under which the code's map keeps them.                                  *)

NewRecvBuf ==
  [data |-> <<>>, off |-> 0, len |-> 0, fc |-> FlowControl(StreamLimit, StreamWindow),
   fin_off |-> None, error |-> FALSE, drain |-> FALSE]

Ready(r) == r.data # <<>> /\ Off(Head(r.data)) = r.off
is_finReceived(r) == r.fin_off = r.len
is_fin(r) == r.fin_off = r.off
almost_full(r) == r.fin_off = None /\ should_update_max_data(r.fc)

(* One buffer b met by the loop over stored buffers: what is left of buf   *)
(* (nothing if it is contained in b), and the part before b, which is new. *)
Overlap(acc, b) ==
  LET cur == acc.left[1]
      tail == IF MaxOff(cur) <= MaxOff(b) THEN <<>> ELSE <<SplitRest(cur, MaxOff(b) - cur.off)>>
  IN  IF acc.left = <<>> \/ MaxOff(b) < Off(cur) \/ Off(b) > MaxOff(cur) THEN acc
      ELSE IF Off(cur) >= Off(b) THEN [acc EXCEPT !.left = tail]
      ELSE IF MaxOff(cur) > Off(b)
           THEN [left |-> tail, new |-> Append(acc.new, SplitFront(cur, Off(b) - cur.off))]
           ELSE acc

(* The parts of buf that are not stored yet. *)
NewParts(r, buf) ==
  LET fresh == IF r.off > buf.off THEN SplitRest(buf, r.off - buf.off) ELSE buf
      acc == Fold(Overlap, [left |-> <<fresh>>, new |-> <<>>], r.data)
  IN  IF Off(fresh) < r.len \/ IsEmpty(fresh) THEN acc.new \o acc.left ELSE <<fresh>>

(* The map's insert replaces a buffer with the same end. *)
MapInsert(data, b) ==
  LET lower == {i \in 1 .. Len(data) : MaxOff(data[i]) < MaxOff(b)}
      higher == {i \in 1 .. Len(data) : MaxOff(data[i]) > MaxOff(b)}
  IN  SubSeq(data, 1, Max({0} \cup lower)) \o <<b>> \o
      SubSeq(data, Min({Len(data) + 1} \cup higher), Len(data))

Store(r, buf) ==
  LET new == NewParts(r, buf)
  IN  [r EXCEPT !.len = Max({@} \cup {MaxOff(new[i]) : i \in DOMAIN new}),
                !.data = IF r.drain THEN @ ELSE Fold(MapInsert, @, new)]

(* write refuses data beyond the limit and a final size that contradicts   *)
(* what is known.                                                          *)
Refused(r, buf, fin) ==
  \/ MaxOff(buf) > r.fc.max_data
  \/ r.fin_off # None /\ (MaxOff(buf) > r.fin_off \/ (fin /\ MaxOff(buf) # r.fin_off))
  \/ fin /\ MaxOff(buf) < r.len

RecvWrite(r, buf, fin) ==
  LET known == IF fin THEN [r EXCEPT !.fin_off = MaxOff(buf)] ELSE r
  IN  IF IsEmpty(buf) /\ (r.fin_off # None \/ ~fin) THEN r
      ELSE IF r.off >= MaxOff(buf) /\ ~IsEmpty(buf) THEN known
      ELSE Store(known, buf)

(* emit: contiguous bytes from off on, as many as the reader's buffer      *)
(* takes.                                                                  *)
TakeBuf(acc, b) ==
  LET k == Min({BufLen(b), acc.room})
  IN  IF acc.room = 0 \/ acc.rest # <<>> \/ Off(b) # acc.off
      THEN [acc EXCEPT !.rest = Append(@, b)]
      ELSE [off |-> acc.off + k, room |-> acc.room - k,
            out |-> acc.out \o SubSeq(b.data, b.pos + 1, b.pos + k),
            rest |-> IF k < BufLen(b) THEN <<[b EXCEPT !.pos = @ + k]>> ELSE <<>>]

RecvEmit(r, room) ==
  LET acc == Fold(TakeBuf, [off |-> r.off, room |-> room, out |-> <<>>, rest |-> <<>>], r.data)
  IN  [out |-> acc.out,
       buf |-> [r EXCEPT !.off = acc.off, !.data = acc.rest,
                         !.fc.consumed = @ + Len(acc.out)]]

(* reset: buffered data is discarded; an empty buffer at the final size    *)
(* is to make the stream readable.  It is written as data is, and so may   *)
(* lie beyond the limit.                                                   *)
ResetRefused(r, size) ==
  \/ r.fin_off \notin {None, size} \/ size < r.len
  \/ ~r.error /\ size > r.fc.max_data
RecvReset(r, size) ==
  IF r.error THEN r
  ELSE RecvWrite([r EXCEPT !.error = TRUE, !.off = size, !.data = <<>>],
                 RangeBuf(size, <<>>), TRUE)

-----------------------------------------------------------------------------
(* Packets.  A packet is in flight, has arrived, or was dropped; lost says *)
(* that the sender has declared it lost, after which an ACK for it changes *)
(* nothing.  A slot is free again once the packet's fate is settled.       *)

Packet(frames) == [frames |-> frames, at |-> "flying", lost |-> FALSE]
NoPacket == [frames |-> <<>>, at |-> "free", lost |-> FALSE]
Free(net) == {s \in DOMAIN net : net[s].at = "free"}
Transmit(net, frames) ==
  IF frames = <<>> THEN net ELSE [net EXCEPT ![Min(Free(net))] = Packet(frames)]
Arrived(net, s) == [net EXCEPT ![s] = IF @.lost THEN NoPacket ELSE [@ EXCEPT !.at = "arrived"]]
DeclaredLost(net, s) ==
  [net EXCEPT ![s] = IF @.at = "flying" THEN [@ EXCEPT !.lost = TRUE] ELSE NoPacket]

InFlight(net, s) == net[s].at = "flying"
Outstanding(net, s) == net[s].at # "free" /\ ~net[s].lost

(* Recovery declares lost what was dropped, or, in vain, what was not.     *)
Loses(net, s) ==
  /\ Outstanding(net, s)
  /\ \/ net[s].at = "dropped" /\ UNCHANGED faults
     \/ /\ net[s].at # "dropped" /\ faults.spurious < MaxSpurious
        /\ faults' = [faults EXCEPT !.spurious = @ + 1]

Drops(net, s) ==
  /\ InFlight(net, s) /\ faults.drops < MaxDrops
  /\ faults' = [faults EXCEPT !.drops = @ + 1]

Dropped(net, s) == [net EXCEPT ![s] = IF @.lost THEN NoPacket ELSE [@ EXCEPT !.at = "dropped"]]

-----------------------------------------------------------------------------
(* The writing application and endpoint A. *)

Abandoned == send.shutdown \/ recv.drain

(* stream_send: n more bytes, with the end of the stream if fin.           *)
Write(n, fin) ==
  LET cap == tx.max_tx_data - tx.tx_data
      m == Min({n, cap})
      k == Stored(send, m)
      s == SendWrite(send, m, fin /\ m = n)
  IN  /\ ~tx.collected /\ ~app.finished /\ ~send.shutdown /\ ~send.stopped
      /\ n <= N - app.wrote /\ (n = 0 => fin /\ FinAlone)
      /\ k > 0 \/ n = 0
      /\ send' = s
      /\ tx' = [tx EXCEPT !.tx_data = @ + k,
                          !.flushable = @ \/ ((is_flushable(s) \/ n = 0) /\ ~is_flushable(send))]
      /\ app' = [app EXCEPT !.wrote = @ + k, !.finished = fin /\ k = n]
      /\ UNCHANGED <<recv, rx, toB, toA, faults>>

(* stream_shutdown(Write): RESET_STREAM will announce what was sent.       *)
ShutdownWrite ==
  /\ Abandoning /\ ~tx.collected /\ ~send.shutdown
  /\ send' = [ResetSend(send) EXCEPT !.shutdown = TRUE]
  /\ tx' = [tx EXCEPT !.reset = send.emit_off,
                      !.tx_data = Max({0, @ - UnsentLen(send)})]
  /\ UNCHANGED <<recv, rx, app, toB, toA, faults>>

RetryAUnqueued(acc, f) ==
  IF acc.tx.collected THEN acc
  ELSE IF f.type = "reset" THEN [acc EXCEPT !.tx.reset = f.size]
  ELSE [acc EXCEPT !.send = Retransmit(@, f.off, Len(f.data))]

(* A lost frame is scheduled again, by send_single. *)
RetryA(acc, f) ==
  IF acc.tx.collected THEN acc
  ELSE IF f.type = "reset" THEN [acc EXCEPT !.tx.reset = f.size]
  ELSE LET s == Retransmit(acc.send, f.off, Len(f.data))
           empty_fin == f.data = <<>> /\ f.fin
       IN  [send |-> s,
            tx |-> [acc.tx EXCEPT !.flushable =
                      @ \/ ((is_flushable(s) \/ empty_fin) /\ ~is_flushable(acc.send))]]

(* send_single at A: lost frames first; then a packet, which may have room *)
(* for the RESET_STREAM, for a STREAM frame, for both or for neither: the  *)
(* other frames of the connection and the congestion window leave it open. *)
ResetFrames(t) == IF t.reset = None THEN <<>> ELSE <<[type |-> "reset", size |-> t.reset]>>

SendA(room, resets, streams) ==
  /\ tx.lost # <<>> \/ tx.reset # None \/ tx.flushable
  /\ Free(toB) # {}
  /\ \E acc \in {Fold(RetryA, [send |-> send, tx |-> tx], tx.lost)} :
       LET emits == streams /\ acc.tx.flushable /\ ~acc.tx.collected /\ ~acc.send.stopped
       IN  \E e \in {IF emits THEN Emit(acc.send, room) ELSE [buf |-> acc.send, frames |-> <<>>]} :
             /\ send' = e.buf
             /\ tx' = [acc.tx EXCEPT !.lost = <<>>, !.reset = IF resets THEN None ELSE @,
                          !.flushable = IF streams THEN emits /\ is_flushable(e.buf) ELSE @]
             /\ toB' = Transmit(toB, (IF resets THEN ResetFrames(acc.tx) ELSE <<>>) \o e.frames)
  /\ UNCHANGED <<recv, rx, app, toA, faults>>

Collectable(s) == app.answered /\ is_complete(s)

(* A frame of a packet that was acked, by recv. *)
AckA(acc, f) ==
  IF acc.collected THEN acc
  ELSE LET s == IF f.type = "stream" THEN AckAndDrop(acc.send, f.off, Len(f.data)) ELSE acc.send
       IN  [send |-> s, collected |-> Collectable(s)]

AckedA(s) ==
  /\ Outstanding(toB, s) /\ toB[s].at = "arrived"
  /\ \E acc \in {Fold(AckA, [send |-> send, collected |-> tx.collected], toB[s].frames)} :
       /\ send' = acc.send
       /\ tx' = [tx EXCEPT !.collected = acc.collected, !.flushable = @ /\ ~acc.collected]
  /\ toB' = [toB EXCEPT ![s] = NoPacket]
  /\ UNCHANGED <<recv, rx, app, toA, faults>>

LostA(s) ==
  /\ Loses(toB, s)
  /\ tx' = [tx EXCEPT !.lost = @ \o toB[s].frames]
  /\ toB' = DeclaredLost(toB, s)
  /\ UNCHANGED <<send, recv, rx, app, toA>>

(* The probe timeout schedules the frames of a packet with data again,     *)
(* and the packet stays in flight.                                         *)
ProbeA(s) ==
  /\ Outstanding(toB, s) /\ faults.spurious < MaxSpurious
  /\ \E i \in DOMAIN toB[s].frames : toB[s].frames[i].type = "stream"
  /\ faults' = [faults EXCEPT !.spurious = @ + 1]
  /\ tx' = [tx EXCEPT !.lost = @ \o toB[s].frames]
  /\ UNCHANGED <<send, recv, rx, app, toB, toA>>

(* process_frame at A *)
FrameA(acc, f) ==
  CASE f.type = "max_data" ->
         [acc EXCEPT !.tx.max_tx_data = Max({@, f.max})]
    [] f.type = "max_stream_data" /\ ~acc.tx.collected ->
         LET s == [acc.send EXCEPT !.max_data = Max({@, f.max})]
         IN  [send |-> s,
              tx |-> [acc.tx EXCEPT !.flushable = @ \/ (is_flushable(s) /\ ~is_flushable(acc.send))]]
    [] f.type = "stop_sending" /\ ~acc.tx.collected /\ ~acc.send.stopped ->
         [send |-> [ResetSend(acc.send) EXCEPT !.stopped = TRUE],
          tx |-> [acc.tx EXCEPT !.reset = acc.send.emit_off,
                                !.tx_data = Max({0, @ - UnsentLen(acc.send)})]]
    [] OTHER -> acc

RecvA(s) ==
  /\ InFlight(toA, s)
  /\ \E acc \in {Fold(FrameA, [send |-> send, tx |-> tx], toA[s].frames)} :
       send' = acc.send /\ tx' = acc.tx
  /\ toA' = Arrived(toA, s)
  /\ UNCHANGED <<recv, rx, app, toB, faults>>

-----------------------------------------------------------------------------
(* Endpoint B and the reading application. *)

(* process_frame at B; error says that the connection is closed with a     *)
(* FLOW_CONTROL or FINAL_SIZE error, refused that RecvBuf was the one to   *)
(* refuse the frame, and not the connection's own limit.                   *)
ResetB(acc, size) ==
  LET delta == size - acc.recv.len
      r == RecvReset(acc.recv, size)
      refused == ResetRefused(acc.recv, size)
  IN  IF refused \/ delta > acc.rx.fc.max_data - acc.rx.rx_data
      THEN [acc EXCEPT !.rx.error = TRUE, !.rx.refused = refused]
      ELSE [recv |-> r,
            rx |-> [acc.rx EXCEPT !.rx_data = @ + delta,
                                  !.readable = @ \/ (Ready(r) /\ ~Ready(acc.recv))]]

(* Here the connection's limit is checked first.  Data for a stream that   *)
(* is drained counts as consumed at once.                                  *)
StreamB(acc, buf, fin) ==
  LET delta == Max({0, MaxOff(buf) - acc.recv.len})
      r == RecvWrite(acc.recv, buf, fin)
      fc == IF acc.recv.drain THEN [acc.rx.fc EXCEPT !.consumed = @ + delta] ELSE acc.rx.fc
      over == delta > acc.rx.fc.max_data - acc.rx.rx_data
  IN  IF over \/ Refused(acc.recv, buf, fin)
      THEN [acc EXCEPT !.rx.error = TRUE, !.rx.refused = ~over]
      ELSE [recv |-> r,
            rx |-> [acc.rx EXCEPT !.rx_data = @ + delta, !.fc = fc,
                      !.readable = @ \/ (Ready(r) /\ ~Ready(acc.recv)),
                      !.almost_full = @ \/ (acc.recv.drain /\ should_update_max_data(fc))]]

FrameB(acc, f) ==
  IF acc.rx.collected \/ acc.rx.error THEN acc
  ELSE IF f.type = "reset" THEN ResetB(acc, f.size)
  ELSE StreamB(acc, RangeBuf(f.off, f.data), f.fin)

RecvB(s) ==
  /\ InFlight(toB, s)
  /\ \E acc \in {Fold(FrameB, [recv |-> recv, rx |-> rx], toB[s].frames)} :
       recv' = acc.recv /\ rx' = acc.rx
  /\ toB' = Arrived(toB, s)
  /\ UNCHANGED <<send, tx, app, toA, faults>>

(* stream_recv, by an application that reads the streams readable() lists. *)
Read(room) ==
  /\ rx.readable /\ ~rx.collected /\ ~recv.error /\ Ready(recv)
  /\ \E e \in {RecvEmit(recv, room)} :
       LET fc == [rx.fc EXCEPT !.consumed = @ + Len(e.out)]
       IN  /\ recv' = e.buf
           /\ rx' = [rx EXCEPT !.fc = fc, !.readable = Ready(e.buf),
                               !.stream_almost_full = @ \/ almost_full(e.buf),
                               !.almost_full = @ \/ should_update_max_data(fc)]
           /\ app' = [app EXCEPT !.got = @ \o e.out,
                                 !.end = IF is_fin(e.buf) THEN "fin" ELSE @]
  /\ UNCHANGED <<send, tx, toB, toA, faults>>

ReadReset ==
  /\ rx.readable /\ ~rx.collected /\ recv.error /\ Ready(recv)
  /\ recv' = [recv EXCEPT !.data = <<>>]
  /\ rx' = [rx EXCEPT !.readable = FALSE]
  /\ app' = [app EXCEPT !.end = "reset"]
  /\ UNCHANGED <<send, tx, toB, toA, faults>>

(* stream_shutdown(Read) *)
ShutdownRead ==
  /\ Abandoning /\ ~rx.collected /\ ~recv.drain /\ app.end = "open"
  /\ recv' = [recv EXCEPT !.drain = TRUE, !.data = <<>>, !.off = recv.len]
  /\ rx' = [rx EXCEPT !.readable = FALSE, !.stopped = recv.fin_off # recv.len]
  /\ app' = [app EXCEPT !.end = "stopped"]
  /\ UNCHANGED <<send, tx, toB, toA, faults>>

RetryBNoStream(r, f) ==
  IF f.type = "max_data" THEN [r EXCEPT !.almost_full = TRUE] ELSE r

(* A lost STOP_SENDING is not sent again. *)
RetryB(r, f) ==
  CASE f.type = "max_stream_data" -> [r EXCEPT !.stream_almost_full = @ \/ ~r.collected]
    [] f.type = "max_data" -> [r EXCEPT !.almost_full = TRUE]
    [] OTHER -> r

(* MAX_STREAM_DATA at B: a stream that ran low gets a new limit, and the   *)
(* connection's limit is looked at again.                                  *)
StreamLimitB(acc, quick) ==
  LET fc == autotune_window(acc.recv.fc, quick, MaxStreamWindow)
  IN  IF ~acc.rx.stream_almost_full \/ acc.rx.collected
      THEN [acc EXCEPT !.rx.stream_almost_full = FALSE]
      ELSE [recv |-> [acc.recv EXCEPT !.fc = update_max_data(fc)],
            rx |-> [acc.rx EXCEPT !.stream_almost_full = FALSE, !.almost_full = TRUE,
                      !.fc = ensure_window_lower_bound(@, (3 * fc.window) \div 2)],
            frames |-> Append(acc.frames, [type |-> "max_stream_data", max |-> max_data_next(fc)])]

(* MAX_DATA at B, if it would raise the limit. *)
ConnLimitB(acc, quick) ==
  LET fc == autotune_window(acc.rx.fc, quick, MaxConnWindow)
  IN  IF acc.rx.almost_full /\ acc.rx.fc.max_data < max_data_next(acc.rx.fc)
      THEN [acc EXCEPT !.rx.almost_full = FALSE, !.rx.fc = update_max_data(fc),
                       !.frames = Append(@, [type |-> "max_data", max |-> max_data_next(fc)])]
      ELSE acc

StopB(acc) ==
  IF acc.rx.stopped
  THEN [acc EXCEPT !.rx.stopped = FALSE, !.frames = Append(@, [type |-> "stop_sending"])]
  ELSE acc

(* send_single at B: lost frames first; then a packet with what is due.    *)
SendB(quick) ==
  /\ rx.lost # <<>> \/ rx.stream_almost_full \/ rx.almost_full \/ rx.stopped
  /\ Free(toA) # {}
  /\ \E r \in {Fold(RetryB, rx, rx.lost)} :
     \E a1 \in {StreamLimitB([recv |-> recv, rx |-> [r EXCEPT !.lost = <<>>], frames |-> <<>>], quick)} :
     \E a2 \in {StopB(ConnLimitB(a1, quick))} :
       recv' = a2.recv /\ rx' = a2.rx /\ toA' = Transmit(toA, a2.frames)
  /\ UNCHANGED <<send, tx, app, toB, faults>>

AckedB(s) ==
  /\ Outstanding(toA, s) /\ toA[s].at = "arrived"
  /\ toA' = [toA EXCEPT ![s] = NoPacket]
  /\ UNCHANGED <<send, tx, recv, rx, app, toB, faults>>

LostB(s) ==
  /\ Loses(toA, s)
  /\ rx' = [rx EXCEPT !.lost = @ \o toA[s].frames]
  /\ toA' = DeclaredLost(toA, s)
  /\ UNCHANGED <<send, tx, recv, app, toB>>

-----------------------------------------------------------------------------
DropToB(s) ==
  Drops(toB, s) /\ toB' = Dropped(toB, s) /\ UNCHANGED <<send, tx, recv, rx, app, toA>>
DropToA(s) ==
  Drops(toA, s) /\ toA' = Dropped(toA, s) /\ UNCHANGED <<send, tx, recv, rx, app, toB>>

(* The other direction of the stream: B's application answers once it has  *)
(* seen the end, its answer is received, read and acked; each end collects *)
(* the stream if its half is complete too.                                 *)
Answer ==
  /\ app.end \in {"fin", "reset"} /\ ~app.answered
  /\ app' = [app EXCEPT !.answered = TRUE]
  /\ tx' = [tx EXCEPT !.collected = @ \/ is_complete(send), !.flushable = @ /\ ~is_complete(send)]
  /\ rx' = [rx EXCEPT !.collected = is_fin(recv) /\ ~Ready(recv), !.readable = @ /\ Ready(recv)]
  /\ UNCHANGED <<send, recv, toB, toA, faults>>

Init ==
  /\ send = NewSendBuf /\ recv = NewRecvBuf
  /\ tx = [flushable |-> FALSE, reset |-> None, lost |-> <<>>, collected |-> FALSE,
           max_tx_data |-> ConnLimit, tx_data |-> 0]
  /\ rx = [readable |-> FALSE, stream_almost_full |-> FALSE, almost_full |-> FALSE,
           stopped |-> FALSE, lost |-> <<>>, rx_data |-> 0, collected |-> FALSE, error |-> FALSE,
           refused |-> FALSE, fc |-> FlowControl(ConnLimit, ConnWindow)]
  /\ app = [wrote |-> 0, finished |-> FALSE, got |-> <<>>, end |-> "open", answered |-> FALSE]
  /\ toB = [s \in SlotsA |-> NoPacket] /\ toA = [s \in SlotsB |-> NoPacket]
  /\ faults = [drops |-> 0, spurious |-> 0]

Network ==
  \/ \E s \in SlotsA : RecvB(s) \/ AckedA(s) \/ LostA(s) \/ ProbeA(s) \/ DropToB(s)
  \/ \E s \in SlotsB : RecvA(s) \/ AckedB(s) \/ LostB(s) \/ DropToA(s)

Next ==
  \/ \E n \in 0 .. N, fin \in BOOLEAN : Write(n, fin)
  \/ \E room \in 1 .. MaxFrame, resets, streams \in BOOLEAN : SendA(room, resets, streams)
  \/ \E quick \in BOOLEAN : SendB(quick)
  \/ \E room \in ReadSizes : Read(room)
  \/ ReadReset \/ ShutdownWrite \/ ShutdownRead \/ Answer
  \/ Network

Spec == Init /\ [][Next]_vars

-----------------------------------------------------------------------------
(* The stream implements the channel of bytes: RecvBuf's overlap handling, *)
(* SendBuf's splitting and re-emission, the FIN and RESET_STREAM never     *)
(* lose, repeat or reorder a byte, and as long as neither side gave up the *)
(* reader sees the end only after the last byte.  Once the writer gave up  *)
(* it may see that end early: the STREAM frame with the FIN that shutdown  *)
(* sets may arrive without the RESET_STREAM.                               *)
Channel ==
  INSTANCE ByteStream WITH
    input <- Bytes(0, app.wrote), closed <- app.finished,
    output <- app.got, end <- app.end, abandoned <- Abandoned

ImplementsChannel == Channel!Spec

(* RecvBuf never refuses a frame of A: the limits A respects and the final *)
(* sizes it announces agree with B's, also when a reset takes back bytes   *)
(* that were written and not sent.  The connection's limit is another      *)
(* matter: process_frame counts bytes that were not received when a STREAM *)
(* frame without data comes from beyond them, and may then refuse what is  *)
(* within the limit; only in that case does it refuse anything.            *)
NeverRefused == ~rx.refused /\ (rx.error => rx.rx_data > recv.len)

(* A stream that has something to send is in the queue of streams to send, *)
(* and one that has something to read in the queue of readable streams.    *)
Queued ==
  /\ ~tx.collected /\ ~send.stopped /\ is_flushable(send) => tx.flushable
  /\ ~rx.collected /\ Ready(recv) => rx.readable

(* The connection is open, nothing is on its way and neither endpoint has  *)
(* anything to send or to read: what happens from here on is up to the     *)
(* applications.                                                           *)
Quiet ==
  /\ ~rx.error
  /\ Free(toB) = SlotsA /\ Free(toA) = SlotsB
  /\ tx.lost = <<>> /\ tx.reset = None /\ ~tx.flushable
  /\ rx.lost = <<>> /\ ~rx.stream_almost_full /\ ~rx.stopped
  /\ ~(rx.almost_full /\ rx.fc.max_data < max_data_next(rx.fc))
  /\ ~rx.readable

(* Once everything has come to rest, the reader has every byte written,    *)
(* and the end of the stream if it was written, whatever was dropped,      *)
(* declared lost in vain or sent twice, unless the stream was given up.    *)
RestDelivered ==
  Quiet /\ ~Abandoned =>
    Len(app.got) = app.wrote /\ (app.finished => app.end = "fin")

(* Once everything has come to rest, the writer may write on: the limit of *)
(* the stream, once used up, has been raised, though MAX_STREAM_DATA may   *)
(* have been lost.                                                         *)
CreditReturns ==
  Quiet /\ ~Abandoned /\ ~app.finished => send.off < send.max_data
=============================================================================
