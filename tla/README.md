# A TLA+ model of QuicFuscate

QuicFuscate is a QUIC client and server in Rust that hides its traffic and
repairs packet loss with forward error correction (FEC). This directory holds
TLA+ modules that model the parts of it that have state and can go wrong, TLC
configurations that check them on small instances, and proofs, checked by
TLAPS, of what holds for every instance.

## 1. The system

Paths are relative to the repository. Its own code is in `src/`; the QUIC
transport is quiche, vendored in `libs/vanilla_quiche`, and written as `quiche/`
below. What the program relies on most is modelled there too: streams, loss
recovery and paths.

| Component | State | Operations | Interacts with |
|---|---|---|---|
| `MemoryPool` (`optimize.rs` 360-570) | a lock-free queue of blocks per NUMA node; atomics `capacity`, `in_use`, `available` | `alloc`, `free`, `grow`, `set_capacity`, `update_metrics` | every component that holds packet memory; called from several threads |
| GF(2^8) / GF(2^16) arithmetic (`fec/gf_tables.rs`) | log and exp tables, filled once | `gf_mul`, `gf_inv`, the kernels chosen by CPU features, `gf16_*` | the codec |
| FEC block codec (`fec/decoder.rs`) | encoder: a sliding window of source packets; decoder: a sparse matrix, the source packets received, `is_decoded` | `add_source_packet`, `generate_repair_packet`; `add_packet`, `try_decode`, `gaussian_elimination`, `get_decoded_packets` | driven by `AdaptiveFec`; packets cross the network |
| `FecPacket` framing (`fec/encoder.rs`) | a block of the pool per packet | `from_raw`, `from_block`, `to_raw`, `Drop` | connection, pool |
| `LossEstimator` (`fec/adaptive.rs` 28-98) | moving average, window of the latest outcomes, optional Kalman filter | `report_loss`, `get_estimated_loss` | feeds the mode manager |
| `ModeManager`, `PidController` (`fec/adaptive.rs` 100-330) | mode, window, time of the last change, integral and previous error | `update` | decides on the codec parameters |
| `AdaptiveFec` (`fec/adaptive.rs` 455-630) | encoder, decoder, the pair being faded out, `transition_left` | `on_send`, `on_receive`, `report_loss` | called by the connection |
| `FecConfig` (`fec/adaptive.rs`) | none after loading | TOML parsing, `validate` | parameters of the two above |
| `QuicFuscateConnection` (`core.rs`) | quiche connection, packet counter, outgoing FEC queue, statistics, sockets | `send`, `recv`, `update_state`, `migrate_connection`, HTTP/3 | all of the others |
| `XdpSocket` (`xdp_socket.rs`) | frame pool, pending frames, four rings, fallback socket | `send`, `recv`, `reconfigure` | connection, kernel |
| `XorObfuscator`, `StealthManager`, domain fronting, DoH (`stealth.rs`) | rolling key, current profile, fronting index | `obfuscate`, `deobfuscate`, `rekey`, profile rotation | connection |
| Ciphers, post-quantum helpers, TLS camouflage (`crypto.rs`, `pq.rs`, `fake_tls.rs`, `tls_ffi.rs`) | none of their own | calls of primitives, byte layout | connection |
| Client and server programs (`main.rs`, `app_config.rs`) | the server's table of clients | event loops | connection |
| Telemetry, errors, SIMD dispatch | gauges | | all |
| quiche: streams (`quiche/src/stream`, `range_buf.rs`, `flowcontrol.rs`, `lib.rs`) | send and receive buffers, queues of streams to send and to read, limits of the stream and of the connection | `stream_send`, `stream_recv`, `stream_shutdown`; the frames of both directions | recovery says what is acked and lost |
| quiche: loss recovery (`quiche/src/recovery/gcongestion`) | per packet number space the packets sent, frames to send again, probes due; one timer | `on_packet_sent`, `on_ack_received`, `on_loss_detection_timeout`, `on_path_change`, dropping of keys | its totals feed the loss estimator |
| quiche: paths (`quiche/src/path.rs`, `cid.rs`, `lib.rs`) | paths and their validation, connection IDs, credit of unverified addresses | `recv`, `send`, `on_timeout`, `probe_path`, `migrate`, `retire_dcid` | path events, which `update_state` reads |
| quiche: HTTP/3, handshake, encodings, congestion control | | | not modelled |

What is hard in it: the pool is shared by threads without a lock, and every
call touches a queue and up to three counters in separate steps; packets reach
the decoder in any order, some of them never and some twice; a mode change
replaces both halves of the codec while the traffic of the old configuration
is still under way; the controller runs on time that passes between calls and
on state that is never reset; one integral, one rolling key and one packet
counter are shared by flows that do not know of each other. In quiche, frames
are cut again when they are sent again, so that what arrives overlaps what is
there; a packet may be declared lost and be acked afterwards; limits, resets and
connection IDs cross each other on the way. `PROJECT.json`
lists these places under "hazards", each with its line and with the
properties that would notice it going wrong.

What makes each part correct:

* pool: no block is lost or counted twice in any interleaving; no more than
  `capacity` blocks are cached; every call returns; resizing reaches its target;
* field: the tables, the inverse and all kernels are one and the same field;
* codec: any *k* different packets of a window give back its *k* source
  packets, in any order; a packet that arrived comes out as it was;
* controller: the window fits its mode, more loss never means less redundancy,
  a loss spike gets through at once;
* endpoint: encoder and decoder always match the decision of the manager, the
  faded-out pair lives exactly as long as the fade says, and fades end;
* estimator: an average of what was reported, a window of what was seen last;
* connection: every block it takes from the pool is given back or accounted
  for on every path, and it moves only to addresses QUIC has confirmed;
* stealth: one key per packet and one packet per key, parameters and
  ClientHello of one browser, even use of the fronting domains, rotation that
  goes on;
* XDP: no frame lost, shared or overwritten, every accepted packet sent once;
* programs: closed connections leave the table, one client's failure does not
  hold up the others;
* streams: a first-in first-out channel of bytes with an end; no endpoint breaks
  the limits the other holds it to; they rest only when all is delivered;
* recovery: each packet has one fate, no data is forgotten, whoever waits has a
  timer;
* paths: the application hears only of proven paths, unverified addresses
  are not flooded, no retired connection ID is used, no validation is forgotten.

## 2. Modules

| Module | Models | State | Actions |
|---|---|---|---|
| `MemoryPool` | `MemoryPool`, `optimize.rs` | length of each queue, the three counters as unbounded integers that are *read* modulo 2^64, per thread a program counter and the locals | one per access to a queue or an atomic: `AllocPop`, `AllocSub`, ..., `SetEnd` |
| `MemoryPoolProofs` | | | theorems about `MemoryPool` |
| `GaloisField` | polynomials over GF(2) as sets of exponents: the reference arithmetic | | |
| `GfTables` | `init_gf_tables`, `gf_mul_table`, `gf_inv` | none: the tables are functions | |
| `FecCodec`, `FecCodecMC` | `Encoder`, `Decoder`, `CsrMatrix`, driven as `on_send` / `on_receive` do | source window, packets in flight, matrix rows, `systematic_packets`, `is_decoded` | `on_send`, `Deliver`, `Duplicate` |
| `LossEstimator` | `LossEstimator` | average, window | `report_loss` |
| `LossFeedback` | `update_state` (`core.rs`) between quiche's statistics and the estimator; extends `LossEstimator` | packets sent and lost, what the last report was the first to cover | `PacketSent`, `update_state` |
| `ModeManager` | `ModeManager`, `PidController` | mode, window, dwell time, integral, previous error, time since the last update | `update`, `ManagerTick` |
| `AdaptiveFec`, `AdaptiveFecMC` | `AdaptiveFec`; extends `ModeManager` | current and fading codec pair, `transition_left` | `on_send`, `on_receive`, `report_loss`, `Tick` |
| `AdaptiveFecProofs` | | | theorems about `AdaptiveFec` |
| `Connection`, `ConnectionMC` | `QuicFuscateConnection` (`core.rs`) with the blocks its codecs hold (`encoder.rs`, `decoder.rs`) | queue of repair packets, both pairs of codecs, `in_use`, peer address, XDP socket, path events | `SendQueued`, `SendNothing`, `SendFresh` (the three courses of `send`), `RecvRefused`, `Recv`, `update_state`, `migrate_connection`; of quiche: `ProbeEnds`, `PeerMigrates` |
| `ConnectionProofs` | | | theorems about `Connection` |
| `Stealth`, `StealthMC` | `XorObfuscator`, `StealthManager`, `DomainFrontingManager` (`stealth.rs`) | rolling key and its mutex, fingerprint, TLS configuration, rotation task, fronting counter | `process_packet` (`XorLock`), `XorApply`, `XorRoll`, `rekey`, `apply_utls_profile`, `SetInject`, `SetStore`, `RotateWake`, `RotateStore`, `get_fronted_domain` |
| `StealthProofs` | | | theorems about `Stealth` |
| `Programs` | the loops of `run_client` and `run_server` (`main.rs`) | per client its phase and output, the server's table, its socket and place in the loop | `ClientStart`, `ClientIterate`, `ClientStops`; `RecvOk`, `RecvRejected`, `RecvWouldBlock`, `RecvFails`, `Serve`, `Retain`, `Wake`, `Shutdown` |
| `XdpSocket`, `XdpSocketMC` | `XdpSocket` (`xdp_socket.rs`, feature `xdp`) | frame pool, pending list, the four rings, what each frame holds | `SendXdp`, `SendRingFull`, `SendRingFails`, `SendUdp`, `RecvXdp`, `RecvUdp`, `RecvRingFails`, `reconfigure`; of the kernel: `Arrives`, `Transmits` |
| `XdpSocketProofs` | | | theorems about `XdpSocket` |
| `ByteStream` | the promise of a stream: a channel of bytes that either side may give up | input, output, end | `Write`, `Read`, `WriterAbandons`, `ReaderAbandons`, `ReadReset` |
| `Stream` | one direction of a stream of quiche: `SendBuf`, `RecvBuf`, `RangeBuf`, `FlowControl`, and what `lib.rs` does with them | both buffers with their pieces, queues, limits, frames to send again, packets in both directions | `Write`, `ShutdownWrite`, `SendA`, `RecvA`, `AckedA`, `LostA`, `ProbeA` of the writer's end; `Read`, `ReadReset`, `ShutdownRead`, `SendB`, `RecvB`, `AckedB`, `LostB` of the reader's; `Answer`; of the network `DropToA`, `DropToB` |
| `StreamInvariant`, `StreamProofs` | | | the inductive invariants of `Stream`, and theorems about it, its refinement of `ByteStream` included |
| `PacketFate` | the promise of loss recovery: one fate per packet, bytes in flight | fate of each packet | `Send`, `Settle` |
| `Recovery`, `RecoveryMC` | `GRecovery` and the calls of `lib.rs` that drive it | per space a `RecoveryEpoch`; timer, thresholds, bytes in flight, handshake, data to send | `SendData`, `SendPing`, `SendNothing`, `SendOther`, `on_ack_received`, `StaleAck`, `LossTimeout`, `ProbeTimeout`, `on_path_change`, `ServerCompletes`, `ClientCompletes`, `HandshakeDone` |
| `RecoveryProofs` | | | theorems about `Recovery`, its refinement of `PacketFate` included |
| `Paths`, `PathsMC` | `Path`, `PathMap`, destination connection IDs, and their callers in `lib.rs` | paths, connection IDs, the bounded queue of those to retire, retirements sent and not acked, events of the last call | `RecvChallenge`, `RecvResponse`, `RecvNewConnectionId`, `RecvData`, `Send`, `on_timeout`, `IdleTimeout`, `probe_path`, `migrate`, `retire_dcid` |
| `PathsProofs` | | | theorems about `Paths` |

Abstractions worth knowing:

* *Pool.* Blocks are interchangeable (`free` zeroes them), so a queue is its
  length. `out` counts the blocks callers own. `numa::current_node()` may
  answer a node the pool has no queue for (the pool asks for the number of
  nodes once); such a free is counted by the code and kept by nobody, which
  the model records in `strayed`.
* *Codec.* A payload has a byte per position, and a byte is the vector of
  coefficients of the source bytes it combines, so correctness of decoding is
  equality of vectors, whatever the bytes are. A repair packet covers as many
  positions as the first packet of the window has. `gf_mul` is modelled by its
  fallback, the tables; the SIMD kernels compute something else (below). The
  field of the runs has 4 elements instead of 256; nothing in the code
  depends on the size except the bound *n* <= 256 discussed below. A systematic
  packet's row really has no payload (`None`), as in the code.
* *Controller.* Percents and time units instead of `f32` and `Instant`; the
  PID output is multiplied out, so it is an exact integer. Where the output
  equals the dead band, rounding in `f32` decides, and the model allows both.
  A rounding tie in the window size is rounded up.
* *Endpoint.* A decoder keeps its number of rows and whether it is done. Which
  packets make it so is the business of `FecCodec`.
* *Connection.* Packets are counted, not named: an encoder is how many clones
  it holds, a decoder the indices it has received, its rows and the blocks they
  hold. `Packet` keeps two blocks if it has coefficients and one if not, and
  `Drop` gives them back; a repair packet a decoder takes has its coefficients
  dropped past the pool at once and its data when the decoder goes
  (`lost`, `absorbed`). Whether `try_decode` succeeds on a full matrix is left
  open; `FecCodec` knows. quiche sends, refuses and reports path events as it
  likes, but validates only addresses that are being probed. That is more than
  this program lets it do: `recv` always passes `peer_addr` as the sender
  (`core.rs:236`) and the client never probes, so no such event comes about
  today. The decoder is that of GF(2^8); `Decoder16` of mode Extreme, which drops
  systematic packets at once and knows no duplicates, is not modelled.
* *Stealth.* A key is named by the draw it comes from and the number of digests
  since, which is all that two keys can share. `obfuscate` is three steps under
  its mutex. A profile is an operating system and a browser: `Tabled` are the
  combinations `FingerprintProfile::new` has a row for (the others get the row
  of `Fallback`), `Dumped` those with a ClientHello in `browser_profiles`. The
  repository has one for each of its rows and for nothing else, so
  `Dumped` is a subset of `Tabled`. The effects of
  `configure_tls` and FakeTLS are not in the model.
* *Programs.* A step of the server is what happens between two awaits or two
  entries of the table; the network loses datagrams (each transfer delivers some
  number of those sent). A connection is how many packets it has to send and
  whether it is closed; it produces packets in answer to what it reads, up to
  `MaxMade` in all.
* *XDP.* A frame holds the number of the packet written to it last, and `owed`
  what was in it when it was handed to a ring. The kernel moves frames between
  rings whenever it likes; a descriptor it has taken comes back.
* *Estimator.* The average is kept as an exact integer in units of
  `LambdaDen^-MaxReports`; reported rates are whole percents.
* *Stream.* The *n*-th byte written is the value *n*, so the order of bytes is
  visible in what is read. Buffers are kept piece by piece with offset and
  position, as the code keeps them, since cutting and joining them is where
  bytes would be lost. A packet carries the frames one call of `send_single`
  puts into it: a reset that waits (4510) and the STREAM frame of the stream
  whose turn it is (4775) together or either alone, as the room in the packet
  has it. It is in flight, arrived or dropped; recovery may declare lost
  what is on its way (`MaxSpurious`). The other direction is one step (`Answer`)
  and matters only because a stream is collected when both halves are complete.
  `SendBuf::len` is written and never read to decide anything, so it is left out.
  Windows and their maxima are constants, a maximum at least its window and that of
  the connection at least 1.5 times that of the stream (`WindowAssumption`), as they
  are by default.
* *Recovery.* The model is of `GRecovery` (`gcongestion`), the newer of two
  implementations in the vendored quiche. Which one the program would run is not
  settled by its code: `core.rs:97` asks for `BBRv2`, which is no variant of the
  enum (`recovery/mod.rs:324`), and `BBR2`, the nearest by name, is refused by
  `GRecovery::new` (401), so that `LegacyRecovery` takes it. `Recovery` is thus
  about code of the repository this program probably does not run; both count
  sent and lost packets in the same statistics. A padded packet that holds only
  ACKs, which is in flight with size 0 (`lib.rs:4935`), is left out. Time is the
  packet number up to which packets are old enough to be lost, chosen anew at
  every call. The congestion window is always open.
* *Paths.* After the handshake. A path is named by its address and keyed as in
  the `Slab`, since the code takes the first that fits. Lengths are small
  multiples of a fraction of 1200 bytes. The peer sends any probe, response,
  connection ID and data from any address. `Send` covers both arms of
  `send_on_path`, so any path may be meant; a packet has any size between the
  least one (`min_packet_len`: header, packet number, tag, one frame) and the
  credit, since the congestion window, the buffer of the caller and padding
  decide, and a requested challenge is in it if it is at least `probe_len` long
  and not necessarily even then. Timers of recovery may run out at any time or
  never. RETIRE_CONNECTION_ID frames leave the queue when they are sent and come
  back when they are lost; the queue holds `retire_dcid_limit` of them (three
  times the limit of connection IDs in the code). `left_behind` is history.

`FecConfig::validate` does not check that a configured window lies in the range
of its mode, and neither `ModeManager::new` nor the emergency override clamps it;
`WindowAssumption` therefore only says that windows are naturals, and
`WindowInRange` names the two places where an unclamped one may be in force.

The code of the repository does not build everywhere as it stands (for example
`AdaptiveFec::new` uses `mode_mgr` after moving it, fields are moved out of
`Packet`, which implements `Drop`, a `u16` is masked with `0x10000`, and
`run_server` uses `continue` and `break` inside an async block). The model
follows what each statement evidently does; for the last that is the loop
around the block.

## 3. What TLC checks

### Passing runs

| Run | Instance | Shows |
|---|---|---|
| `pool_concurrent` | 2 threads, 2 nodes, up to 4 calls, initial capacity 1, resizing to 0 and 3; 623 000 states | `AvailableAccounting`, `InUseAccounting`: at *every* point of every interleaving the counters differ from the real number of blocks exactly by the calls in the middle; `CallsReturn`: each call returns |
| `codec_blocks` | k = 2 sources, 2 repairs per window, the window slides, every order, loss and duplicates, packets of one and two bytes; the tables of the real 256-element field; 366 000 states | `DecodesIffFullRank`: elimination against the definition of linear independence; `AnyKDecode`, `SystematicIntact`, and `RepairsAloneDecode` (each source cut to the length of the first) although packets of different windows meet in one matrix; `TableMultiplies`: product and inverse for all bytes |
| `fec_control` | default gains and windows but for that of Light, which is out of its range, all six initial modes, losses 0, 3, 40, 60 %, 3 reports, 3 time units, fade of length 4; 156 000 states | `CodecsInStep`, `TransitionShape`, `WindowInRange`, `EmergencyOverride`, `FadeEnds` |
| `connection_calls` | 3 packets sent, 2 received, 2 reports, 2 path changes; modes with (k, n - k) = (0, 0), (2, 1), (1, 2), fade of 4, 2 addresses under symmetry, XDP on; 2 940 000 states | `BlockLedger`, `RepairsAlone`: the pool's `in_use` is what the connection holds plus what received repair packets took along; `OnlyRepairsQueued`; `PeerConfirmed` |
| `stealth_shared` | 2 callers and the rotation task, 4 profiles (one without a row, one without a ClientHello), 2 domains, 3 packets, 1 rekey, 2 profile changes, 3 requests; 461 000 states | `KeysNeverRepeat`: a key serves one packet of one direction; `OneBrowser`, `RotationRecurs` |
| `program_loops` | 2 clients, sending to one of them fails every time, 6 packets in all, 1 refused datagram or failed read; 425 000 states | `ClosedLeave`: a closed connection leaves the table, though it has packets that can never be sent; `Flushed`, `InboxRead` |
| `xdp_frames` | 3 frames under symmetry, 4 sends, 2 arrivals, 1 reconfiguration with XDP; 391 000 states | `FramesConserved`, `NeverOverwritten`, `SentOnce` |
| `quic_stream` | 3 bytes in buffers of 2, stream limit 2, 2 packets in flight one way and 1 the other, 1 dropped, 1 declared lost or probed in vain, resets and data together or apart, either side may give up; 1 033 000 states | `ImplementsChannel`: refinement of `ByteStream`; `NeverRefused`: `RecvBuf` refuses no frame, and the connection's limit none unless bytes were counted twice (see below); `Queued`; `RestDelivered`, `CreditReturns`: at rest all has been delivered and the stream's limit raised |
| `recovery` | 4 packets, 3 chunks of data in two spaces, client and server, threshold 2 to 3, 1 packet of ACKs or an MTU probe; 328 000 states | `ImplementsFate`: refinement of `PacketFate`; `NothingForgotten`, `TimerArmed`, `LostWithinSent` |
| `quic_paths` | 3 addresses under symmetry, 2 paths and connection IDs at a time, 4 connection IDs, a retire queue of 1, 3 datagrams received and 2 calls, 4 of these together, client and server, with and without reuse of connection IDs; credit of 2 for a datagram, 2 for a packet, 3 for a full one; 901 000 states | `MigrationProven`, `AmplificationBound`, `DcidsOwned`, `ProbeAlive` |

Why the bounds are enough. Four calls let two threads each make a call before
the conflicting one, and every pair of operations meets at every pair of
program points; capacities 0 and 3 around an initial 1 make `grow` and the
shrinking loop run against each other. A fade of 4 packets has both halves and
a middle; 3 reports can start a fade, interrupt it and interrupt it again, and
3 time units reach past the dwell time of 1 twice. Two sources and two repairs
per window over four packets let packets of three windows meet in one matrix; the
same invariants also hold with three sources and three repairs over eight field
elements, one length and no duplicates (36 000 states, some minutes), which the
configuration leaves out to stay quick. For the connection, 3 packets
fill the larger window and make it slide, and with 2 reports a switch can
interrupt a fade whose pair still holds blocks; 2 addresses suffice for a
migration that fails while another succeeds. Two threads meet at every pair of
points between taking and releasing the key, with a rekeying before, between or
after. Three frames leave the pool empty with frames in two rings. Three bytes in
buffers of two, cut into frames of one and two, are enough for a retransmitted
range to begin or end inside a buffer and for a frame to overlap two others;
the limit of 2 blocks the writer. The same properties also hold of four
bytes with a limit of 3, which blocks it in mid-buffer (2 957 000 states, near four minutes). That
the receiver counts bytes twice needs three packets in flight and is not
reached. With four packets and a threshold
of 2 a packet is declared lost by number or by age, is acked late and raises the
threshold; a probe timeout finds data in either space. With two paths for three
addresses an unused path is replaced, and four connection IDs can be retired
under a path, out of order, with and without a spare one; a retire queue of one
is full after the first, so that a drain of two stops in the middle and a call
of `retire_dcid` fails. A datagram of length 1 gives a credit of 2, enough for a
probe but not for one of full size, and after it for neither. The programs, streams,
recovery and paths may stop when the applications have no more to do or a bound
is reached, so deadlock is not checked there; `RestDelivered`, `CreditReturns`,
`TimerArmed` and `ProbeAlive` say what must hold in a state in which nothing is
left to happen.

### Fairness

`FairSpec` of the pool: weak fairness of `Continue(t)`, the next step of a
thread inside a call. The operating system schedules runnable threads, no
step of the pool blocks, and nobody is obliged to begin a call. `SenderSpec`
of the endpoint: weak fairness of `on_send`, for an endpoint that has something
to send; a cross-fade is counted in packets sent, so without it no fade need
end. Reports are bounded, so they cannot restart a fade for ever. `FairSpec`
of `Stealth`: weak fairness of the next step of each thread inside a call, and
of the two steps of the rotation task, whose sleep ends. `FairSpec` of
`Programs`: weak fairness of the server's next step, which never waits except
for its sleep of 10 ms; clients, failures and the shutdown are never obliged to
happen. Refused datagrams are bounded by `MaxErrors`: an endless row of them
would keep the server from ever sending (`main.rs:859`). `Stream`, `Recovery` and
`Paths` assume no fairness: their progress is stated of states at rest.

### Runs that show a disagreement

`codec_mixed` (`DecodeCorrect`): a systematic packet's row has no payload, so
cancelling it from a repair row changes the coefficients and not the payload; a
lost packet is rebuilt wrong unless all k packets are repairs
(`decoder.rs:692`, against the test in `fec/mod.rs:137`).

`loss_totals` (`BurstSeen`): `update_state` reports the totals of the whole
connection, so the arrivals of long ago fill the burst window after the losses
of now, and an interval in which everything is lost is estimated far below
that (67 % in the trace; `core.rs:448`, against `adaptive.rs:43` and 89).

### Seen while modelling, without a run of their own

*Pool.* Two threads that free into the last place both read
`available < capacity` before either pushes (`optimize.rs:526`, against the
comment at 522); `update_metrics` adds counters that may be -1 modulo 2^64 for a moment
(489); two concurrent shrinks can take `capacity` below zero (552); with two
nodes `alloc` doubles the pool while the other node has blocks (512, against
`telemetry.rs:11`); after a free on a node without a queue `set_capacity` can
spin (545): with such a node TLC violates `CallsReturn`.

*Field and codec.* The reduction of the SIMD kernels is not modulo 0x11D
(`gf_tables.rs:88`, against the test in `fec/mod.rs:184`); `gf16_mul` never
reduces (348); a repeated repair packet takes a row and leaves the decoder full
and singular (`decoder.rs:696`); a rebuilt packet gets its column as its id,
wrong once the window has slid (771); at k + (n - k) > 256 the inverse of 0 is
taken (281), which mode Strong reaches (99); sources shorter than the first of
the window make `generate_repair_packet` panic (242), and of longer ones only as
many bytes as the first has are coded (181, 202), so they come back cut; a decoder serves one
block only (679, against `DOCUMENTATION.md:141`).

*Controller.* The error is `setpoint - value`, so more loss than the threshold
lowers the mode (`adaptive.rs:317`, against the comment at 211 and
`tests/fec.rs:247`); the integral winds up on a lossless link and leaves mode
Zero (318, against `DOCUMENTATION.md:132`); in mode Zero a decoder with k = 0 is
full from the start and ignores everything (`decoder.rs:679`, against
`DOCUMENTATION.md:132`), and the source window grows without bound (165); an
endpoint that only receives never ends a fade (`adaptive.rs:537`, against
`tests/cross_fade.rs:65`); a report without a switch replaces the codecs in
mid-block (626, against `DOCUMENTATION.md:149`); within a report a burst is
hidden by the arrivals pushed after it (81); a configured window is not checked
against the range of its mode and is used as it is at the start and in an emergency
(169, 195), which `WindowInRange` excepts.

*Connection.* Received packets are numbered with the counter of sent ones
(`core.rs:220`); `migrate_connection` points the XDP socket to an address that is
not validated yet and leaves it there if validation fails or quiche refuses (333,
against "validate the new path and switch over once validation succeeds" at 325;
no property speaks of the socket, as the code makes no promise about it that holds); the blocks of received repair packets never return to the pool
(`decoder.rs:694`), which `RepairsAlone` quantifies; quiche's `migrate` makes the
path active at once and never probes it, so no event follows and `peer_addr`
stays (against the comment at `core.rs:326`); no spare connection IDs are ever
issued, so it fails with `OutOfIdentifiers` after the XDP socket has moved.

*Stealth.* `obfuscate` rolls the key, so `process_outgoing_packet` followed by
`process_incoming_packet` of the same manager does not give back the payload
(`stealth.rs:770`, against `tests/stealth.rs:17-20`): `KeysNeverRepeat` says that this
round trip, which needs one key twice, never happens. Both directions roll one
key, each manager draws its own, and the peer never learns it; a profile without a ClientHello leaves the
previous one in the configuration; an empty list of fronting domains panics.

*XDP.* Completed frames are collected only by a send that found a frame in the
pool (`xdp_socket.rs:246`): once it is empty, XDP is not used again; a
reconfiguration whose UDP bind fails has dropped its state and leaves the gauge
`XDP_ACTIVE` set (201), which is one for the whole process and is also written in
`core.rs:338` and `optimize.rs:852`, so it is not modelled; packets longer than a
frame are cut.

*Programs.* The server never calls `init_http3`, so requests are not answered;
its shutdown closes the connections and sends nothing afterwards
(`main.rs:830`, against `docs/USAGE.md:29`); clients are known by their source
address, so one that migrates becomes a new connection
(`main.rs:840`, against `DOCUMENTATION.md:84`), and a late datagram re-creates
the entry of a closed connection.

*Streams* (`quiche/src/lib.rs` unless named). A MAX_DATA that is lost is sent
again only if the limit has grown since (4470): with a connection limit and
window of 2 bytes TLC finds writer and reader waiting for each other after nine
steps, against the comment in `recovery.rs:850`; the run has a connection limit
above what is written. A FIN without data that waits to be sent is dropped if a
retransmission takes the turn of the stream (4866), so the run writes the FIN
with data (`FinAlone = FALSE`); one that is lost after the stream was collected
is not repeated. A FIN that comes with a retransmission of bytes already read,
and a RESET_STREAM once the final size is known, do not make the stream readable
(`recv_buf.rs`). `stream_shutdown(Write)` leaves the stream a FIN at the size it announces in
RESET_STREAM, and the two need not share a packet: if the one with the
reset is lost or late, the reader gets a clean end of data that is cut short. `ByteStream`
allows this once the writer has given up. `stream_shutdown(Read)` and RESET_STREAM discard buffered bytes
without giving credit back to the connection (7690). STOP_SENDING is never
repeated. A stream that has its turn and nothing left to send sends a STREAM frame
without data (4795); if it comes from beyond what was received, the receiver
counts the bytes before it (7846, 7864) while `RecvBuf` does not advance, and counts
them again when they arrive, so `rx_data` exceeds the "total number of bytes received
from the peer" (1504) and a later frame within the limits may be refused: the exception
in `NeverRefused`, and the states `Quiet` leaves out. With a maximum below the
initial window, autotuning makes a window smaller and the next limit may be lower than
the one announced (`flowcontrol.rs:109`); with a window of 0 or 1 byte half of it is 0
and a limit that was used up is never raised.

*Recovery* (`recovery.rs` of `gcongestion`). `loss_time_and_space` compares
options, and `None < Some` hides the loss time of an earlier space (479). A probe
timeout with only early application data in flight, or a timer left over from
`on_path_change` (877), grants probes to the Initial space, whose keys are gone:
they are never used up, and `cwnd_available` stays unlimited.

*Paths.* A server that has no spare connection ID reuses that of the old path
without linking it (`lib.rs:8435`); when the peer retires it the active path is
left with a retired one and can send nothing (against the comment at 7975), the
first exception in `DcidsOwned`. When the queue of connection IDs to retire is
full, `new_dcid` stops draining (`cid.rs:517`): the entries after that one are
gone and their paths are not told, so while the connection closes with `IdLimit`
they keep removed IDs, again against 7975; and `retire_dcid` fails only after
it has removed the entry (`cid.rs:596`), which leaves its path with a removed ID on
an open connection, the second exception. A repeated NEW_CONNECTION_ID for an ID
that `retire_dcid` has removed is taken again while its number still waits in the
queue; once a path sends with it, the loop that skips the number of the packet's
own ID does not end (`lib.rs:4549`). Connection IDs received out of order are not sorted, so
`partition_point` can leave one below `retire_prior_to` in use, or drain one
above it (`cid.rs:506`). Data on a failed path makes it active in name only and
leaves no active path; if it is probed again after a replacement was found there
are two (`path.rs:664`, against "There can be exactly one active path").
`failure_notified` and `probing_lost` are never reset, so a path that fails again is
not reported. A validation may wait for ever: the timer stops when the packet of
a challenge is acked, though the response is lost; and a server fails a path
only below `MIN_PROBING_SIZE` (25) bytes of credit, while a packet with a challenge
takes about 44 (4128), so between the two the challenge stays requested. Such a
path is still the one `send` chooses, and nothing is sent on any path. Responses
that do not fit a packet are dropped (4317).

## 4. What TLAPS proves

The proofs hold for all values of the constants that satisfy the named
assumptions of the modules.

**`MemoryPoolProofs`** (any finite set of threads, any nodes, capacities and
word size). `AvailableAccounting` and `InUseAccounting` speak of cardinalities
of sets of threads and of the sum of the queues, so the lemmas first say what
a step of one thread does to such a set (`At(S)` gains, loses or keeps that
thread) and what pushing or popping does to the sum. Neither accounting is
inductive by itself: `grow` and `set_capacity` index the queues with a loop
variable, which has to be a node (`LoopIndices`), and the return place of
`update_metrics` decides whether a block is still with `alloc`, so where a call
returns to must be tied to where it is. The inductive invariant adds these and
the type invariant; `Accounting` proves it, one step per action, and

* `TypeCorrect`: `Spec => []TypeOK`,
* `AvailableExact`: `Spec => []AvailableAccounting`,
* `InUseExact`: `Spec => []InUseAccounting`,
* `CountersExact`: `Spec => []QuiescentCounters`

follow from it.

**`AdaptiveFecProofs`** (any losses, gains, fade length and configured windows,
in range or not).
The inductive invariant is the conjunction of `TypeOK`, `WindowInRange`,
`EmergencyOverride`, `CodecsInStep` and `TransitionShape`. `TransitionShape` needs the
range of `transition_left` from `TypeOK`; `WindowInRange` does not depend on
what the controller computes, only on `Clamp` and on where the configured window
is taken as it is, so it holds for any gains.
`Inductive` proves it; `TypeCorrect`, `FadeShape`, `WindowSafe`, `InStep` and
`EmergencySafe` are its parts.

**`ConnectionProofs`** (any parameters of the codecs over GF(2^8), fade length and
addresses; no bound on the calls is used). `PeerSafe`: `Spec => []PeerConfirmed`. What
makes it inductive is that every queued event that moves the connection carries
an address quiche has confirmed (`EventsConfirmed`). `LedgerSafe`:
`Spec => [](BlockLedger /\ RepairsAlone)`, with types of the codecs and counters
and the fact that the queue holds packets with two blocks each. One lemma per
operation says what it does to the ledger: a window takes one block and may let
one go (`WindowStep`), a decoder keeps, drops or absorbs a packet
(`DecoderStep`), and `LedgerFresh`, `LedgerRecv` and `LedgerUpdate` add these up
over the pair in force and the pair being faded out. `QueueSafe`:
`Spec => []OnlyRepairsQueued`, from the types of the codecs and the bound on what
two encoders make of one packet; the bound is a maximum over the modes, so
`Params` is assumed finite, as the list of modes is. `RepairsSafe`
states `RepairsAlone` on its own.

**`StealthProofs`** (any threads, profiles and rotation). `KeySafe`:
`Spec => []KeysNeverRepeat`; needs that the mutex excludes (`holder` is the only thread
past `XorLock`) and how the key in force relates to the last one used, which
depends on whether its user has rolled it already. `BrowserSafe`:
`Spec => []OneBrowser`; needs that a profile on its way into the manager comes
from the table.

**`XdpSocketProofs`** (any frames). `FramesSafe`:
`Spec => [](FramesConserved /\ NeverOverwritten)`, of which `ContentsSafe` is the
second half. `SendSafe`:
`Spec => []SentOnce`; it counts how often a packet occurs in what left by either
way, and adds to the invariant that nothing has left that `send` was not called
with.

**`RecoveryProofs`** (any chunks of data, thresholds and number of packets;
`Chunks.hs # {}`, since a handshake always sends something, and `None` is neither a
number nor a chunk). The inductive invariant `Inv` has five parts: `Books`, the
books of the three spaces (types; a packet has one entry and is acked, lost or
in flight; bytes in flight and the count of packets in flight are the sums over the
entries; packets reported lost and packets without a fate are together at most those
sent; a packet carries chunks of its own space); `FlagTypes`; `Quiet`, that a client
has sent no CRYPTO data of its own before its handshake is complete;
`NothingForgotten`; and `Armed`, which ties the timer to what it waits for.
Almost every operation settles some packets of one space, gives each its fate and
takes its bytes off the sums, so the proof has one lemma for that (`SettleStep`) and one for sending (`SendStep`). Sums over
finite sets are needed for every set, not for one; the facts about them are shown
by taking a smallest set for which they fail (`MinimalSubset`), since the
induction theorems of the library cannot be applied. From `Inv`:

* `TypeCorrect`: `Spec => []TypeOK`,
* `LostSafe`: `Spec => []LostWithinSent`,
* `NothingLost`: `Spec => []NothingForgotten`,
* `TimerSafe`: `Spec => []TimerArmed`,
* `KeepsPromise`: `Spec => ImplementsFate`, the refinement: an initial state maps to
  one of `PacketFate`, a step that sends to `Send`, one that settles packets to
  `Settle` and every other to a stutter.

**`PathsProofs`** (any addresses, sizes, amplification factor, limits and number
of calls, any capacity of the retire queue; sizes are naturals, the full size is
not 0, `None` is neither an address nor a sequence number). `Inv` says of the connection record
(`Good`): its types; of each path that it is keyed once and at an address of its own,
has sent no more than its credit (`Within`), is validated only with an answer to a
challenge of full size (`Proven`), and has a challenge in flight or requested
if it is validating (`Alive`); of the connection IDs that there is one entry per
number, which names a path that exists or none; of the events of the last call
that they are true (`Announces`); and, unless the connection is closed, a server may
reuse an ID or a failed `retire_dcid` left it behind, that a path uses an entry that
names it (`Owns`). `Owns` is broken in the middle of `RecvNewConnectionId`:
entries are retired first and their paths get another afterwards, or
none. The lemmas therefore carry the set of entries still to be settled, and the
loop over the paths ends with that set empty (`Settles`), or the queue was full
and the connection is closed. `ForEachPath` and the folds of the
module are recursive functions; that they have a solution (`LoopExists`) and
keep what each turn keeps (`LoopInduction`) is again shown with a smallest
counterexample. A binary search over entries that are out of order may end
anywhere, and the proofs use nothing of where it ends. `Invariant` is
`Spec => []Inv`, and

* `ReportsSafe`: `Spec => []MigrationProven`,
* `BytesSafe`: `Spec => []AmplificationBound`,
* `CidsSafe`: `Spec => []DcidsOwned`,
* `ProbesSafe`: `Spec => []ProbeAlive`

follow.

**`StreamProofs`** (any number of bytes, sizes of buffers, frames and reads,
limits, windows in the order of `WindowAssumption`, any set of packets in flight,
any number of drops and spurious losses, with or without applications that give
up). The invariants are in `StreamInvariant`. `Safe` is inductive by itself. Its
parts say of `SendBuf` that its buffers hold the bytes of their offsets and follow each
other without a gap, that what is before `pos` has been sent, and that acks are for
bytes that were sent (`SendOK`); of `RecvBuf` that its buffers are apart, in order, and
between what was read and `len` (`RecvOK`); of each endpoint that it agrees with its
application, its queues and its limits (`SenderOK`, `ReceiverOK`, `LimitsOK`); and of
every frame on its way, or lost and not yet sent again, that it is true: its
bytes were sent, an end or a reset in it is final, a limit in it is one the receiver
gave (`NetB`, `NetA`). Frames stay true because what A has sent only grows and what is final stays
(`Grows`). Each operation has a relation between the buffer before and after
(`EmitsTo`, `WritesTo`, `StoresTo`, `ReadsTo`, ...), and a lemma that it holds; the
lemmas about handlers use only these. The loops over sequences are recursive functions: `IsLoop`
says what values they go through, and a property of every turn is shown with the first turn at which
it would fail (`Along`). The step of `RecvBuf::write` over one stored buffer
(`OverlapStep`) and the cut of `retransmit` inside a buffer (`CutQueue`) are the hard
cases. Three more invariants on top of `Safe`: `Covered`, every byte written has been
received, is on its way, is lost and noted, or waits to be sent, and what was acked
has been received; `EndOK`, a frame with the last byte has the end too; `CreditOK`, a
limit that has to be raised is noted, and a raised one is noted or on its way until
the writer has it. From these:

* `StreamSafe`: `Spec => []Safe`,
* `StreamImplementsChannel`: `Spec => ImplementsChannel`, the refinement: writing,
  reading, reading a reset and giving up on either side map to the actions of
  `ByteStream`, everything else to a stutter; the end is seen after the last byte
  unless the stream was given up,
* `StreamNeverRefused`: `Spec => []NeverRefused`, where the limit and final size of a
  reset are checked as `RecvBuf::reset` does, by way of `write`,
* `StreamQueued`: `Spec => []Queued`,
* `StreamWhole`: `Spec => []Whole`, all four invariants,
* `StreamBytesDelivered`: `Spec => []BytesDelivered`, the first half of
  `RestDelivered`, for every way to end a stream,
* `StreamRestDelivered`: `Spec => []RestDelivered` if `~FinAlone`: a FIN written by a
  call of its own may be dropped, as said above,
* `StreamCreditReturns`: `Spec => []CreditReturns` if `StreamWindow >= 2`.

`TypeOK`, `QuiescentCounters` and `BytesDelivered` are proved only; no
run lists them. `Safe`, `Covered`, `EndOK` and `CreditOK` were also model-checked with the
constants of `quic_stream`, before they were proved.

Only model-checked: everything about liveness (`CallsReturn`, `FadeEnds`,
`RotationRecurs`, `ClosedLeave`, `Flushed`, `InboxRead`), which is beyond this
prover; and the codec
and the tables, where a theorem would say what elimination computes for every
matrix, or the loop that fills the tables for every entry (`DecodesIffFullRank`,
`AnyKDecode`, `RepairsAloneDecode`, `SystematicIntact`, `TableMultiplies`).

## 5. Not modelled, and the plan

Left out for good: the DNS client, HTTP/3 header construction, TLS record
layout and FFI, the AEAD wrappers, `ZeroCopyBuffer` (system calls), CPU feature
detection, telemetry export, configuration parsing, and the Wiedemann path of the
decoder (k > 256 is beyond TLC; it falls back to Gaussian elimination). Of quiche:
the encodings of packets, frames and transport parameters, the Huffman tables of
QPACK, the TLS binding, the C interface, qlog and the tools and examples that
come with it, which have no state of their own or are not used by the program.
They are most of the lines of the repository, so the lines these modules stand
for are a small share of it and will remain one.

Next, in this order:

1. `h3::Connection` of quiche over `ByteStream`: control streams, SETTINGS,
   GOAWAY, the order of frames on a request stream.
2. A session of two endpoints: modes that change at different times, and XOR
   keys that both ends roll (composes `Connection` and `Stealth`).
3. Stream limits, priorities and datagrams; source connection IDs; the recovery of
   the other congestion controllers.
4. The GF(2^16) codec of mode Extreme (`Encoder16`, `Decoder16`), and the Kalman
   filter of the estimator.
