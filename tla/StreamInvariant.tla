--------------------------- MODULE StreamInvariant ---------------------------
(***************************************************************************)
(* The inductive invariants of Stream, and the relations between states in *)
(* which the lemmas of StreamProofs say what each operation does.          *)
(*                                                                         *)
(* Safe ties the two buffers to each other and to the frames on their way; *)
(* Covered, EndOK and CreditOK say where every byte, the end of the stream *)
(* and the credit of the writer are.  Whole is all of them.                *)
(***************************************************************************)
EXTENDS Stream

-----------------------------------------------------------------------------
(* The loops.  What Fold does is known by the values it goes through.      *)

(* One turn of each loop of Stream over a sequence. *)
Step(loop, a, x) ==
  IF loop = "emit" THEN EmitChunk(a, x)
  ELSE IF loop = "overlap" THEN Overlap(a, x)
  ELSE IF loop = "insert" THEN MapInsert(a, x)
  ELSE IF loop = "take" THEN TakeBuf(a, x)
  ELSE IF loop = "retryA" THEN RetryA(a, x)
  ELSE IF loop = "ackA" THEN AckA(a, x)
  ELSE IF loop = "frameA" THEN FrameA(a, x)
  ELSE IF loop = "frameB" THEN FrameB(a, x)
  ELSE RetryB(a, x)

(* The equation a loop function solves, and that it has a solution. *)
Body(loop, base, seq, f, i) == IF i = 0 THEN base ELSE Step(loop, f[i - 1], seq[i])

HasLoop(loop, base, seq) ==
  \E f : f = [i \in 0 .. Len(seq) |-> Body(loop, base, seq, f, i)]

(* f lists the values of a loop, from the base on. *)
IsLoop(f, loop, base, seq) ==
  f[0] = base /\ \A i \in 1 .. Len(seq) : f[i] = Step(loop, f[i - 1], seq[i])

-----------------------------------------------------------------------------
(* Bytes and the buffers that hold them. *)

(* The bytes of the stream from offset off on. *)
AreBytes(d, off) == d \in Seq(Nat) /\ \A j \in 1 .. Len(d) : d[j] = off + j

(* A buffer holds the bytes of the stream that belong at its offset. *)
Buf ==
  {b \in [off : Nat, data : Seq(Nat), pos : Nat] :
     b.pos <= Len(b.data) /\ AreBytes(b.data, b.off)}

-----------------------------------------------------------------------------
(* The send queue. *)

(* Buffers to be sent follow each other without a gap up to the end. *)
Laid(d, end) ==
  \A i \in 1 .. Len(d) :
    /\ d[i].off < MaxOff(d[i])
    /\ MaxOff(d[i]) = IF i = Len(d) THEN end ELSE d[i + 1].off
    /\ \A j \in 1 .. Len(d) : i < j => MaxOff(d[i]) <= d[j].off

(* The offset at which a queue begins. *)
First(d, end) == IF d = <<>> THEN end ELSE d[1].off

(* The queue of SendBuf: what is before pos has been sent, and so has what *)
(* was taken out of a buffer.                                              *)
Queue(d, pos, end, emit) ==
  /\ d \in Seq(Buf) /\ pos \in Nat /\ end \in Nat /\ emit \in Nat
  /\ Laid(d, end) /\ pos <= Len(d)
  /\ \A i \in 1 .. pos : IsEmpty(d[i])
  /\ \A i \in 1 .. Len(d) : d[i].pos > 0 => Off(d[i]) <= emit

(* The fields of SendBuf. *)
SendBufs ==
  [data : Seq(Buf), pos : Nat, off : Nat, emit_off : Nat, max_data : Nat,
   fin_off : Nat \cup {None}, shutdown : BOOLEAN, acked : SUBSET (Nat \X Nat),
   stopped : BOOLEAN]

(* The writer gave the stream up, or was asked to by STOP_SENDING. *)
Closed(s) == s.shutdown \/ s.stopped

(* The send buffer as it should be: nothing that is not acked has left the *)
(* queue, acks are for what was sent, and the limit is kept.               *)
SendOK(s) ==
  /\ s \in SendBufs
  /\ Queue(s.data, s.pos, s.off, s.emit_off)
  /\ First(s.data, s.off) <= ack_off(s)
  /\ IsFiniteSet(s.acked) /\ \A r \in s.acked : r[1] <= r[2] /\ r[2] <= s.emit_off
  /\ s.emit_off <= s.off /\ s.off <= s.max_data
  /\ s.fin_off # None => s.fin_off = s.off
  /\ Closed(s) => s.data = <<>> /\ s.fin_off # None

(* Byte x is still to be taken out of buffer b, or out of one of the queue *)
(* d.                                                                      *)
In(b, x) == Off(b) <= x /\ x < MaxOff(b)
WaitsIn(d, x) == \E i \in 1 .. Len(d) : In(d[i], x)

-----------------------------------------------------------------------------
(* What was acked. *)

(* Ranges of offsets. *)
Ranges(R, bound) ==
  /\ R \subseteq Nat \X Nat /\ IsFiniteSet(R)
  /\ \A r \in R : r[1] \in Nat /\ r[2] \in Nat /\ r[1] <= r[2] /\ r[2] <= bound

(* Byte x is in a range. *)
Within(r, x) == r[1] <= x /\ x < r[2]

-----------------------------------------------------------------------------
(* The operations on the send queue. *)

(* Byte x waits to be sent. *)
Waits(s, x) == WaitsIn(s.data, x)

(* reset, of stream_shutdown and STOP_SENDING *)
Reset(s, t) ==
  /\ SendOK(t) /\ Closed(t) /\ (s.shutdown => t.shutdown)
  /\ t.emit_off = s.emit_off /\ t.off = s.emit_off /\ t.fin_off = s.emit_off /\ t.data = <<>>
  /\ t.max_data = s.max_data

(* What is left of a queue without its first k buffers. *)
IsDrop(d, pos, k, e, p) ==
  /\ e \in Seq(Buf) /\ Len(e) = Len(d) - k /\ Len(e) \in Nat /\ p \in Nat
  /\ \A i \in 1 .. Len(e) : e[i] = d[i + k]
  /\ p = IF pos >= k THEN pos - k ELSE 0

(* All but the queue and the acks is the same. *)
SameSend(s, t) ==
  /\ t.off = s.off /\ t.emit_off = s.emit_off /\ t.max_data = s.max_data
  /\ t.fin_off = s.fin_off /\ t.shutdown = s.shutdown /\ t.stopped = s.stopped

(* The queue d with its buffer c split into f and r. *)
IsCut(d, c, f, r, e) ==
  /\ e \in Seq(Buf) /\ Len(e) = Len(d) + 1 /\ e[c] = f /\ e[c + 1] = r
  /\ \A i \in 1 .. c - 1 : e[i] = d[i]
  /\ \A i \in c + 1 .. Len(d) : e[i + 1] = d[i]

(* The queue e of which less counts as sent. *)
IsMarked(e, pos, f, p) ==
  /\ f \in Seq(Buf) /\ Len(f) = Len(e) /\ p \in Nat /\ p <= pos
  /\ \A i \in 1 .. Len(e) :
       f[i].off = e[i].off /\ MaxOff(f[i]) = MaxOff(e[i]) /\ Off(f[i]) <= Off(e[i])
  /\ \A i \in 1 .. p : f[i] = e[i]

-----------------------------------------------------------------------------
(* emit, of SendBuf *)

(* What the loop of emit carries along, and whether it takes from buffer i. *)
Emits ==
  [data : Seq(Buf), pos : Nat, next : Nat, room : Nat, max_data : Nat, out : Seq(Nat)]

Takes(a, i) ==
  a.room > 0 /\ ~IsEmpty(a.data[i]) /\ Off(a.data[i]) = a.next /\ a.next < a.max_data

(* The state of emit's loop after j buffers. *)
Emitting(s, j, a) ==
  /\ a \in Emits /\ a.max_data = s.max_data /\ Len(a.data) = Len(s.data)
  /\ off_front(s) <= a.next /\ a.next <= s.off
  /\ AreBytes(a.out, off_front(s)) /\ a.next = off_front(s) + Len(a.out)
  /\ a.pos <= s.pos + j /\ (\A m \in 1 .. a.pos : IsEmpty(a.data[m]))
  /\ \A m \in 1 .. Len(s.data) :
       /\ a.data[m].off = s.data[m].off /\ MaxOff(a.data[m]) = MaxOff(s.data[m])
       /\ \/ Off(a.data[m]) = Off(s.data[m])
          \/ /\ off_front(s) <= Off(s.data[m]) /\ Off(s.data[m]) <= Off(a.data[m])
             /\ Off(a.data[m]) <= a.next
       /\ m <= s.pos + j => IsEmpty(a.data[m]) \/ a.next < MaxOff(s.data[m])
       /\ m > s.pos + j =>
            a.data[m] = s.data[m] /\ (~IsEmpty(s.data[m]) => a.next <= Off(s.data[m]))

(* The frames of the stream that A sends. *)
StreamFrame == [type : {"stream"}, off : Nat, data : Seq(Nat), fin : BOOLEAN]
ResetFrame == [type : {"reset"}, size : Nat]
FramesB == StreamFrame \cup ResetFrame
End(f) == f.off + Len(f.data)
Holds(f, x) == f.type = "stream" /\ f.off <= x /\ x < End(f)

(* What a frame with the bytes of queue s leaves behind: t. *)
EmitsTo(s, f, t) ==
  /\ SendOK(t) /\ s.emit_off <= t.emit_off
  /\ t.off = s.off /\ t.max_data = s.max_data /\ t.fin_off = s.fin_off
  /\ t.shutdown = s.shutdown /\ t.stopped = s.stopped /\ t.acked = s.acked
  /\ f \in StreamFrame /\ AreBytes(f.data, f.off) /\ End(f) <= t.emit_off
  /\ f.fin = (s.fin_off = End(f))
  /\ f.fin => End(f) = t.emit_off /\ t.fin_off = t.emit_off
  /\ \A x \in Nat : Waits(s, x) => Waits(t, x) \/ Holds(f, x)

-----------------------------------------------------------------------------
(* write, of SendBuf *)

(* s after the write of n bytes, of which k fit below the limit. *)
WritesTo(s, n, fin, k, t) ==
  /\ k \in Nat /\ k <= n /\ k = Stored(s, n)
  /\ SendOK(t) /\ t.off = s.off + k /\ t.emit_off = s.emit_off /\ t.max_data = s.max_data
  /\ t.fin_off = (IF fin /\ k = n THEN t.off ELSE s.fin_off)
  /\ t.shutdown = s.shutdown /\ t.stopped = s.stopped /\ t.acked = s.acked
  /\ \A x \in Nat : Waits(s, x) \/ (s.off <= x /\ x < t.off) => Waits(t, x)

-----------------------------------------------------------------------------
(* The receive buffer: its map of buffers. *)

(* Received buffers are apart, in the order of their ends. *)
Before(b, c) == MaxOff(b) <= Off(c) /\ MaxOff(b) < MaxOff(c)
Chain(d) == \A i, j \in 1 .. Len(d) : i < j => Before(d[i], d[j])

(* Buffer b shares no byte with the stored buffer c, nor an end with it if *)
(* c is not empty.                                                         *)
Apart(b, c) == Before(c, b) \/ (MaxOff(b) <= Off(c) /\ Off(b) < MaxOff(b))

(* e is d with buffer b in the place of what lies between l and h. *)
IsSplice(d, l, b, h, e) ==
  /\ e \in Seq(Buf) /\ Len(e) = (l + 1) + ((Len(d) + 1) - h) /\ e[l + 1] = b
  /\ \A i \in 1 .. l : e[i] = d[i]
  /\ \A i \in h .. Len(d) : e[(l + 1) + ((i + 1) - h)] = d[i]

(* The map d after new buffers are inserted. *)
InsertsTo(d, new, e) ==
  /\ e \in Seq(Buf) /\ Chain(e)
  /\ \A m \in 1 .. Len(e) :
       (\E i \in 1 .. Len(d) : e[m] = d[i]) \/ (\E i \in 1 .. Len(new) : e[m] = new[i])
  /\ \A x \in Nat : WaitsIn(d, x) \/ WaitsIn(new, x) => WaitsIn(e, x)

(* What the loop over the stored buffers has found after j of them: parts  *)
(* that are new, and what is left to be looked at.                         *)
Laps == [left : Seq(Buf), new : Seq(Buf)]
Lapping(d, c, j, a) ==
  /\ a \in Laps /\ Len(a.left) <= 1 /\ Chain(a.new)
  /\ \A i \in 1 .. Len(a.new) :
       /\ Off(c) <= Off(a.new[i]) /\ Off(a.new[i]) < MaxOff(a.new[i]) /\ MaxOff(a.new[i]) < MaxOff(c)
       /\ \A m \in 1 .. Len(d) : Apart(a.new[i], d[m])
  /\ a.left # <<>> =>
       /\ MaxOff(a.left[1]) = MaxOff(c) /\ Off(c) <= Off(a.left[1])
       /\ IsEmpty(a.left[1]) => IsEmpty(c)
       /\ \A i \in 1 .. Len(a.new) : MaxOff(a.new[i]) <= Off(a.left[1])
       /\ \A m \in 1 .. j : Apart(a.left[1], d[m])
  /\ a.left = <<>> => \E m \in 1 .. Len(d) : MaxOff(d[m]) >= MaxOff(c)
  /\ \A x \in Nat : In(c, x) => WaitsIn(a.new, x) \/ WaitsIn(a.left, x) \/ WaitsIn(d, x)

(* The parts of buffer c that the stored buffers d do not hold. *)
Parts(d, c, p) ==
  /\ p \in Seq(Buf) /\ Chain(p)
  /\ \A i \in 1 .. Len(p) :
       /\ Off(c) <= Off(p[i]) /\ MaxOff(p[i]) <= MaxOff(c)
       /\ IsEmpty(p[i]) => IsEmpty(c)
       /\ \A m \in 1 .. Len(d) : Apart(p[i], d[m])
  /\ (\E i \in 1 .. Len(p) : MaxOff(p[i]) = MaxOff(c)) \/ (\E m \in 1 .. Len(d) : MaxOff(d[m]) >= MaxOff(c))
  /\ \A x \in Nat : In(c, x) => WaitsIn(p, x) \/ WaitsIn(d, x)

(* The fields of FlowControl and of RecvBuf. *)
FlowControls == [consumed : Nat, max_data : Nat, window : Nat, tuned : BOOLEAN]
RecvBufs ==
  [data : Seq(Buf), off : Nat, len : Nat, fc : FlowControls, fin_off : Nat \cup {None},
   error : BOOLEAN, drain : BOOLEAN]

(* All but the buffers and the length is the same. *)
SameRecv(r, t) ==
  /\ t.off = r.off /\ t.fc = r.fc /\ t.fin_off = r.fin_off /\ t.error = r.error /\ t.drain = r.drain

(* Buffer b was stored already, or is a part of buf. *)
PartOf(b, r, buf) ==
  \/ \E m \in 1 .. Len(r.data) : b = r.data[m]
  \/ /\ r.off <= Off(b) /\ MaxOff(b) <= MaxOff(buf)
     /\ IsEmpty(b) => IsEmpty(buf) /\ MaxOff(b) = MaxOff(buf)

(* t is r with the parts of buf that were missing. *)
StoresTo(r, buf, t) ==
  /\ t \in RecvBufs /\ SameRecv(r, t)
  /\ t.len = IF r.len >= MaxOff(buf) THEN r.len ELSE MaxOff(buf)
  /\ r.drain => t.data = r.data
  /\ Chain(t.data)
  /\ \A i \in 1 .. Len(t.data) : PartOf(t.data[i], r, buf)
  /\ ~r.drain => \A x \in Nat : WaitsIn(r.data, x) \/ (In(buf, x) /\ r.off <= x) => WaitsIn(t.data, x)

(* The receive buffer as it should be. *)
Stored1(b, r) ==
  /\ r.off <= Off(b) /\ MaxOff(b) <= r.len
  /\ IsEmpty(b) => r.fin_off = r.len /\ MaxOff(b) = r.len

RecvOK(r) ==
  /\ r \in RecvBufs
  /\ Chain(r.data)
  /\ \A i \in 1 .. Len(r.data) : Stored1(r.data[i], r)
  /\ r.off <= r.len
  /\ r.fin_off # None => r.fin_off = r.len
  /\ r.drain => r.data = <<>>
  /\ r.error => r.fin_off = r.off

(* Byte x has been received. *)
Has(r, x) == x < r.off \/ WaitsIn(r.data, x)

(* write, of data that is not refused *)
Received(r, buf, fin, t) ==
  /\ RecvOK(t) /\ t.off = r.off /\ t.fc = r.fc /\ t.error = r.error /\ t.drain = r.drain
  /\ r.len <= t.len /\ (t.len = r.len \/ t.len = MaxOff(buf))
  /\ IsEmpty(buf) \/ MaxOff(buf) <= t.len
  /\ t.fin_off = IF fin THEN MaxOff(buf) ELSE r.fin_off
  /\ t.len # r.len => ~IsEmpty(buf) \/ fin
  /\ r.fin_off = r.off => t.data = r.data
  /\ ~r.drain => \A x \in Nat : Has(r, x) \/ In(buf, x) => Has(t, x)

(* reset, of a size that is not refused *)
ResetTo(r, size, t) ==
  /\ RecvOK(t) /\ t.error /\ t.fc = r.fc /\ t.drain = r.drain
  /\ t.off = size /\ t.len = size /\ t.fin_off = size
  /\ r.fin_off # None /\ r.data = <<>> => t.data = <<>>

(* What stream_recv has taken out of the buffers d after j of them. *)
Takings == [off : Nat, room : Nat, out : Seq(Nat), rest : Seq(Buf)]
RestOf(d, j, b) ==
  \E m \in 1 .. j : /\ MaxOff(b) = MaxOff(d[m]) /\ Off(d[m]) <= Off(b)
                    /\ IsEmpty(b) => b = d[m]
Taking(d, off, j, a) ==
  /\ a \in Takings /\ AreBytes(a.out, off) /\ a.off = off + Len(a.out)
  /\ Chain(a.rest)
  /\ \A i \in 1 .. Len(a.rest) :
       a.off <= Off(a.rest[i]) /\ a.off < MaxOff(a.rest[i]) /\ RestOf(d, j, a.rest[i])
  /\ \A m \in 1 .. Len(d) : m > j => a.off <= Off(d[m]) /\ (a.room = 0 => a.off < MaxOff(d[m]))
  /\ a.off = off \/ \E m \in 1 .. j : a.off <= MaxOff(d[m])
  /\ \A m \in 1 .. j : \A x \in Nat : In(d[m], x) => x < a.off \/ WaitsIn(a.rest, x)

(* emit: t is what is left of r, out what is read. *)
ReadsTo(r, out, t) ==
  /\ RecvOK(t) /\ AreBytes(out, r.off) /\ t.off = r.off + Len(out)
  /\ t.len = r.len /\ t.fin_off = r.fin_off /\ t.error = r.error /\ t.drain = r.drain
  /\ t.fc = [r.fc EXCEPT !.consumed = @ + Len(out)]
  /\ t.fin_off = t.off => t.data = <<>>
  /\ \A x \in Nat : Has(r, x) => Has(t, x)

-----------------------------------------------------------------------------
(* What the endpoints know of each other. *)

(* The frames that B sends, and the packets of either end. *)
LimitFrame == [type : {"max_data", "max_stream_data"}, max : Nat]
StopFrame == [type : {"stop_sending"}]
FramesA == LimitFrame \cup StopFrame
Packets(F) ==
  [frames : Seq(F), at : {"free", "flying", "arrived", "dropped"}, lost : BOOLEAN]

(* The fields of the applications and of the two connections. *)
Apps ==
  [wrote : Nat, finished : BOOLEAN, got : Seq(Nat), end : {"open", "fin", "reset", "stopped"},
   answered : BOOLEAN]
Senders ==
  [flushable : BOOLEAN, reset : Nat \cup {None}, lost : Seq(FramesB), collected : BOOLEAN,
   max_tx_data : Nat, tx_data : Nat]
Receivers ==
  [readable : BOOLEAN, stream_almost_full : BOOLEAN, almost_full : BOOLEAN, stopped : BOOLEAN,
   lost : Seq(FramesA), rx_data : Nat, collected : BOOLEAN, error : BOOLEAN,
   refused : BOOLEAN, fc : FlowControls]

(* A frame for B carries bytes that were sent, and says of the end of the  *)
(* stream what has become final.                                           *)
FrameOK(f, s) ==
  /\ f \in FramesB
  /\ f.type = "stream" =>
       /\ AreBytes(f.data, f.off) /\ End(f) <= s.emit_off
       /\ f.fin => End(f) = s.emit_off /\ s.fin_off = s.emit_off
  /\ f.type = "reset" => f.size = s.emit_off /\ Closed(s)

(* An end that the application wrote. *)
Real(f, a) == f.type = "stream" /\ f.fin => a.finished /\ a.wrote = End(f)

(* The frames of a packet, and those to be sent again, are true.  Once the *)
(* writer gave up, the end in a frame need not be the one it wrote.        *)
PayloadOK(frames, s, a) ==
  \A i \in 1 .. Len(frames) : FrameOK(frames[i], s) /\ (Real(frames[i], a) \/ s.shutdown)

(* SendBuf holds what the application wrote, until it is given up. *)
Written(s, a) ==
  /\ s.off <= a.wrote /\ (a.finished => s.fin_off # None)
  /\ ~Closed(s) => s.off = a.wrote /\ (s.fin_off # None => a.finished)

(* The first half of Queued. *)
QueuedA(s, t) == ~t.collected /\ ~s.stopped /\ is_flushable(s) => t.flushable

(* Endpoint A, with its SendBuf s, its connection t and the application a. *)
SenderOK(s, t, a) ==
  /\ SendOK(s) /\ t \in Senders /\ a \in Apps /\ Written(s, a)
  /\ t.tx_data = s.off /\ t.tx_data <= t.max_tx_data
  /\ t.collected => is_complete(s)
  /\ t.reset # None => t.reset = s.emit_off /\ Closed(s)
  /\ PayloadOK(t.lost, s, a)
  /\ QueuedA(s, t)

(* Every packet from A to B is true. *)
NetB(net, s, a) ==
  /\ net \in [SlotsA -> Packets(FramesB)]
  /\ \A i \in SlotsA : PayloadOK(net[i].frames, s, a)

(* The second half of Queued. *)
QueuedB(r, x) == ~x.collected /\ Ready(r) => x.readable

(* Endpoint B, with its RecvBuf r and its connection x. *)
ReceiverOK(r, x, s, a) ==
  /\ RecvOK(r) /\ x \in Receivers
  /\ r.len <= s.emit_off
  /\ r.fin_off # None => r.fin_off = s.emit_off /\ s.fin_off = s.emit_off
  /\ r.fin_off # None /\ ~r.error => (a.finished /\ r.fin_off = a.wrote) \/ s.shutdown
  /\ r.error => Closed(s)
  /\ ~r.drain /\ ~r.error => AreBytes(a.got, 0) /\ Len(a.got) = r.off /\ r.fc.consumed = r.off
  /\ a.end \in {"fin", "reset"} => r.data = <<>> /\ r.fin_off = r.off
  /\ r.drain <=> a.end = "stopped"
  /\ a.end = "reset" => r.error
  /\ a.answered => a.end \in {"fin", "reset"}
  /\ x.collected => a.answered
  /\ x.stopped \/ s.stopped => r.drain
  /\ ~x.refused /\ (x.error => x.rx_data > r.len)
  /\ QueuedB(r, x)

(* A frame for A raises a limit at most to what B allows. *)
LimitOK(f, r, x) ==
  /\ f \in FramesA
  /\ f.type = "max_stream_data" => f.max <= r.fc.max_data /\ r.fc.tuned
  /\ f.type = "max_data" => f.max <= x.fc.max_data
  /\ f.type = "stop_sending" => r.drain

(* A knows no limit that B did not give, and windows stay in their range. *)
LimitsOK(s, t, r, x) ==
  /\ s.max_data <= r.fc.max_data /\ t.max_tx_data <= x.fc.max_data
  /\ StreamWindow <= r.fc.window /\ r.fc.window <= MaxStreamWindow
  /\ x.fc.window <= MaxConnWindow
  /\ r.fc.tuned \/ x.stream_almost_full => r.fc.max_data <= max_data_next(r.fc)
  /\ \A i \in 1 .. Len(x.lost) : LimitOK(x.lost[i], r, x)

(* Every packet from B to A is true. *)
NetA(net, r, x) ==
  /\ net \in [SlotsB -> Packets(FramesA)]
  /\ \A s \in SlotsB : \A i \in 1 .. Len(net[s].frames) : LimitOK(net[s].frames[i], r, x)

(* The inductive invariant: both ends, and what is between them, agree. *)
Safe ==
  /\ SenderOK(send, tx, app) /\ NetB(toB, send, app)
  /\ ReceiverOK(recv, rx, send, app) /\ LimitsOK(send, tx, recv, rx) /\ NetA(toA, recv, rx)

-----------------------------------------------------------------------------
(* What A does leaves the frames on their way true: what is sent only      *)
(* grows, and what is final stays.                                         *)

(* SendBuf goes from s to t. *)
Grows(s, t) ==
  /\ s.emit_off <= t.emit_off
  /\ s.fin_off = s.emit_off => t.emit_off = s.emit_off /\ t.fin_off = s.fin_off
  /\ Closed(s) => Closed(t) /\ t.emit_off = s.emit_off
  /\ s.shutdown => t.shutdown

(* What the application has written is final once it has finished. *)
AppGoes(a, b) == a.finished => b.finished /\ b.wrote = a.wrote

-----------------------------------------------------------------------------
(* The network. *)

(* Slot s of a network becomes p. *)
Changes(net, new, S, F, s, p) ==
  /\ new \in [S -> Packets(F)] /\ p \in Packets(F) /\ new[s] = p
  /\ \A u \in S : u # s => new[u] = net[u]

-----------------------------------------------------------------------------
(* The handlers of endpoint A. *)

(* Byte x is in one of the frames. *)
Carries(frames, x) == \E i \in 1 .. Len(frames) : Holds(frames[i], x)

(* What the loops of A carry along. *)
SideA == [send : SendBufs, tx : Senders]

(* A lost frame that is scheduled again. *)
RetriesTo(acc, f, o) ==
  /\ o \in SideA /\ SendOK(o.send) /\ SameSend(acc.send, o.send) /\ o.send.acked = acc.send.acked
  /\ o.tx.lost = acc.tx.lost /\ o.tx.collected = acc.tx.collected
  /\ o.tx.max_tx_data = acc.tx.max_tx_data /\ o.tx.tx_data = acc.tx.tx_data
  /\ ~acc.tx.collected /\ f.type = "reset" => o.tx.reset = f.size
  /\ o.tx.reset = acc.tx.reset \/ (f.type = "reset" /\ o.tx.reset = f.size)
  /\ ~acc.tx.collected => \A x \in Nat : Holds(f, x) => Waits(o.send, x) \/ x < ack_off(acc.send)
  /\ \A x \in Nat : Waits(acc.send, x) => Waits(o.send, x)
  /\ QueuedA(acc.send, acc.tx) => QueuedA(o.send, o.tx)

(* All lost frames are scheduled again: s, t becomes o. *)
Retried(s, t, o) ==
  /\ o \in SideA /\ SendOK(o.send) /\ SameSend(s, o.send) /\ o.send.acked = s.acked
  /\ o.tx.lost = t.lost /\ o.tx.collected = t.collected
  /\ o.tx.max_tx_data = t.max_tx_data /\ o.tx.tx_data = t.tx_data
  /\ o.tx.reset # None => o.tx.reset = s.emit_off /\ Closed(s)
  /\ QueuedA(o.send, o.tx)
  /\ \A x \in Nat : Waits(s, x) => Waits(o.send, x)
  /\ ~t.collected => \A x \in Nat : Carries(t.lost, x) => Waits(o.send, x) \/ x < ack_off(s)

(* Byte x was acked. *)
InAcked(s, x) == \E r \in s.acked : Within(r, x)

(* What the loop over acked frames carries along. *)
AckSide == [send : SendBufs, collected : BOOLEAN]

(* The frames of a packet are acked: s becomes o.send. *)
Acked(s, c, frames, o) ==
  /\ o \in AckSide /\ SendOK(o.send) /\ SameSend(s, o.send)
  /\ (c => o.collected) /\ (o.collected => is_complete(o.send))
  /\ is_flushable(o.send) => is_flushable(s)
  /\ \A x \in Nat : InAcked(o.send, x) => InAcked(s, x) \/ Carries(frames, x)
  /\ \A x \in Nat : Waits(s, x) => Waits(o.send, x) \/ InAcked(s, x) \/ Carries(frames, x)

-----------------------------------------------------------------------------
(* Frames with limits, and STOP_SENDING, at A: s, t becomes o.             *)
FramedA(s, t, a, r, x, frames, o) ==
  /\ o \in SideA /\ SenderOK(o.send, o.tx, a) /\ Grows(s, o.send)
  /\ o.send.stopped => s.stopped \/ r.drain
  /\ o.send.max_data <= r.fc.max_data /\ o.tx.max_tx_data <= x.fc.max_data
  /\ o.tx.lost = t.lost /\ o.tx.collected = t.collected /\ o.send.shutdown = s.shutdown
  /\ s.max_data <= o.send.max_data
  /\ ~r.drain => /\ o.send.data = s.data /\ o.send.off = s.off /\ o.send.acked = s.acked

-----------------------------------------------------------------------------
(* The handlers of endpoint B. *)

(* The frame with the last byte of the stream has the end too. *)
Tells(f, a) == f.type = "stream" /\ f.data # <<>> /\ a.wrote = End(f) => f.fin
SideB == [recv : RecvBufs, rx : Receivers]

(* Frames of the stream at B, of which one is f: the state of B goes from  *)
(* r, x to o.                                                              *)
MovedB(r, x, s, a, o) ==
  /\ o \in SideB /\ ReceiverOK(o.recv, o.rx, s, a)
  /\ o.recv.drain = r.drain /\ o.recv.fc = r.fc /\ o.rx.lost = x.lost
  /\ o.rx.collected = x.collected /\ o.rx.stopped = x.stopped
  /\ o.rx.stream_almost_full = x.stream_almost_full
  /\ o.rx.fc \in FlowControls /\ o.rx.fc.max_data = x.fc.max_data /\ o.rx.fc.window = x.fc.window
  /\ x.error => o.rx.error
  /\ r.error => o.recv.error
  /\ ~o.recv.error => o.recv.off = r.off
  /\ o.recv.fin_off = None => r.fin_off = None
  /\ ~r.drain => \A y \in Nat : Has(r, y) => Has(o.recv, y)

(* What the frame f itself changes. *)
FramedB(x, r, a, f, o) ==
  /\ ~r.drain /\ ~x.collected /\ ~o.rx.error => \A y \in Nat : Holds(f, y) => Has(o.recv, y)
  /\ Tells(f, a) /\ (r.len = a.wrote => r.fin_off # None) =>
       (o.recv.len = a.wrote => o.recv.fin_off # None)

-----------------------------------------------------------------------------
(* send_single at B. *)

(* A packet of B: its frames raise limits, and the limits only grow. *)
SideFrames == [recv : RecvBufs, rx : Receivers, frames : Seq(FramesA)]
Feeds(r, x, o) ==
  /\ o \in SideFrames /\ r.fc \in FlowControls /\ x.fc \in FlowControls
  /\ o.recv = [r EXCEPT !.fc = o.recv.fc]
  /\ o.recv.fc \in FlowControls /\ o.recv.fc.consumed = r.fc.consumed
  /\ r.fc.max_data <= o.recv.fc.max_data /\ (r.fc.tuned => o.recv.fc.tuned)
  /\ StreamWindow <= o.recv.fc.window /\ o.recv.fc.window <= MaxStreamWindow
  /\ o.recv.fc.tuned => o.recv.fc.max_data <= max_data_next(o.recv.fc)
  /\ o.rx.fc \in FlowControls /\ x.fc.max_data <= o.rx.fc.max_data /\ o.rx.fc.window <= MaxConnWindow
  /\ o.rx.lost = x.lost /\ o.rx.rx_data = x.rx_data /\ o.rx.collected = x.collected
  /\ o.rx.error = x.error /\ o.rx.refused = x.refused /\ o.rx.readable = x.readable
  /\ o.rx.stopped => x.stopped
  /\ ~o.rx.stream_almost_full
  /\ \A i \in 1 .. Len(o.frames) : LimitOK(o.frames[i], o.recv, o.rx)
  /\ x.stream_almost_full /\ ~x.collected =>
       /\ ~should_update_max_data(o.recv.fc)
       /\ \E i \in 1 .. Len(o.frames) :
            o.frames[i].type = "max_stream_data" /\ o.frames[i].max = o.recv.fc.max_data
  /\ ~x.stream_almost_full \/ x.collected => o.recv.fc = r.fc

-----------------------------------------------------------------------------
(* Every step keeps Safe. *)

(* send_single at A: the frames of the packet, and what becomes of send. *)
SentA(s, t, u, frames) ==
  /\ SendOK(u) /\ u.off = s.off /\ u.acked = s.acked /\ u.max_data = s.max_data
  /\ u.shutdown = s.shutdown /\ u.stopped = s.stopped /\ u.fin_off = s.fin_off
  /\ frames \in Seq(FramesB)
  /\ \A x \in Nat : Waits(s, x) => Waits(u, x) \/ Carries(frames, x)
  /\ ~t.collected => \A x \in Nat : Carries(t.lost, x) => Waits(u, x) \/ Carries(frames, x) \/ x < ack_off(s)
  /\ \A i \in 1 .. Len(frames) : frames[i].type = "stream" /\ s.fin_off = End(frames[i]) => frames[i].fin

(* The parts of send_single at A: whether the stream has its turn, what it *)
(* emits, and what is left to do.                                          *)
EmitsA(acc, streams) == streams /\ acc.tx.flushable /\ ~acc.tx.collected /\ ~acc.send.stopped
EmissionA(acc, room, streams) ==
  IF EmitsA(acc, streams) THEN Emit(acc.send, room) ELSE [buf |-> acc.send, frames |-> <<>>]
TxAfter(acc, e, resets, streams) ==
  [acc.tx EXCEPT !.lost = <<>>, !.reset = IF resets THEN None ELSE @,
     !.flushable = IF streams THEN EmitsA(acc, streams) /\ is_flushable(e.buf) ELSE @]
ResetsA(acc, resets) == IF resets THEN ResetFrames(acc.tx) ELSE <<>>
PayloadA(acc, e, resets) == ResetsA(acc, resets) \o e.frames

(***************************************************************************)
(* The refinement: the stream is a channel of bytes.                       *)
(***************************************************************************)

(* What the applications have seen, and whether the stream was given up. *)
SameView ==
  /\ app'.wrote = app.wrote /\ app'.finished = app.finished
  /\ app'.got = app.got /\ app'.end = app.end
  /\ send'.shutdown = send.shutdown /\ recv'.drain = recv.drain

(***************************************************************************)
(* Where the bytes are: no byte that was written is ever forgotten.        *)
(***************************************************************************)

(* A packet that may yet arrive or be declared lost, and one with byte x. *)
Pending(p) == p.at \in {"flying", "dropped"} /\ ~p.lost
OnItsWay(net, x) == \E s \in SlotsA : Pending(net[s]) /\ Carries(net[s].frames, x)

(* Neither end gave up. *)
Open == ~Abandoned /\ ~rx.error

(* Byte x has been received, is on its way, is about to be declared lost   *)
(* or waits to be sent.                                                    *)
Placed(s, t, r, net, x) == Has(r, x) \/ OnItsWay(net, x) \/ Carries(t.lost, x) \/ Waits(s, x)

(* No byte is forgotten, and what arrived or was acked is with B. *)
Keeps(s, t, r, net) ==
  /\ \A x \in Nat : x < s.off => Placed(s, t, r, net, x)
  /\ \A n \in SlotsA : net[n].at = "arrived" => \A x \in Nat : Carries(net[n].frames, x) => Has(r, x)
  /\ \A x \in Nat : InAcked(s, x) => Has(r, x)

(* The second invariant. *)
Covered == Open => Keeps(send, tx, recv, toB)

(***************************************************************************)
(* The end of the stream goes with its last bytes, unless the application  *)
(* writes it by a call of its own.                                         *)
(***************************************************************************)

(* All packets do so; hence B knows the end when it has the last byte, and *)
(* the reader has seen it when it has read that byte.                      *)
TellsAll(net, a) == \A n \in SlotsA : \A i \in 1 .. Len(net[n].frames) : Tells(net[n].frames[i], a)
EndKnown ==
  ~FinAlone /\ ~Abandoned /\ app.finished =>
    TellsAll(toB, app) /\ (recv.len = app.wrote => recv.fin_off # None)
EndSeen == ~FinAlone /\ ~Abandoned /\ app.end = "open" => recv.fin_off # recv.off
EndOK == EndKnown /\ EndSeen

(***************************************************************************)
(* Credit: a raised limit is on its way until A has it.                    *)
(***************************************************************************)

(* A frame raises the limit of the stream to m, or to anything; a packet   *)
(* that does so may yet arrive or be declared lost.                        *)
Raises(frames, m) == \E i \in 1 .. Len(frames) : frames[i].type = "max_stream_data" /\ frames[i].max = m
AnyRaise(frames) == \E i \in 1 .. Len(frames) : frames[i].type = "max_stream_data"
RaiseSent(net, m) == \E n \in SlotsB : Pending(net[n]) /\ Raises(net[n].frames, m)

(* The limit is to be raised; A has not heard of the limit that B holds. *)
RunLow == recv.fin_off = None /\ should_update_max_data(recv.fc)
Behind == send.max_data < recv.fc.max_data /\ ~app.finished

(* The fourth invariant: B knows that it has to raise the limit, and a     *)
(* raised limit is sent until A has it.                                    *)
CreditOK ==
  ~Abandoned =>
    /\ RunLow => rx.stream_almost_full
    /\ Behind => rx.stream_almost_full \/ AnyRaise(rx.lost) \/ RaiseSent(toA, recv.fc.max_data)

(***************************************************************************)
(* Rest.                                                                   *)
(***************************************************************************)

(* All invariants together. *)
Whole == Safe /\ Covered /\ EndOK /\ CreditOK

(* Once all is at rest, everything written has been read, however the      *)
(* stream was ended, unless it was given up.                               *)
BytesDelivered == Quiet /\ ~Abandoned => Len(app.got) = app.wrote
=============================================================================
