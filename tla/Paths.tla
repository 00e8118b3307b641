-------------------------------- MODULE Paths --------------------------------
(***************************************************************************)
(* The network paths of a quiche connection after the handshake: path.rs   *)
(* (the state of a path, PathMap), the destination connection IDs of       *)
(* cid.rs, and the parts of lib.rs that drive them: recv, send, on_timeout,*)
(* probe_path, migrate, retire_dcid.                                       *)
(*                                                                         *)
(* A path is named by its 4-tuple; its identifier is its key in the Slab,  *)
(* which decides the order in which the code looks through the paths.      *)
(* Lengths are in units of a fraction of MIN_CLIENT_INITIAL_LEN.  The      *)
(* application takes every PathEvent before its next call (update_state    *)
(* of core.rs does), so events holds those of the last call.  Source       *)
(* connection IDs only make a call fail, which changes nothing here, and   *)
(* the peer's connection IDs are not of zero length.  What the peer sends, *)
(* and which packets arrive, is free.                                      *)
(***************************************************************************)
EXTENDS Integers, Sequences, FiniteSets, SequencesExt, FiniteSetsExt

CONSTANTS
  Addrs, First,                \* 4-tuples, the one of the handshake
  active_conn_id_limit,        \* bound of the paths and of the CIDs we hold
  retire_dcid_limit,           \* capacity of retire_dcid_seqs
  MAX_PROBING_TIMEOUTS,
  MIN_PROBING_SIZE, MIN_CLIENT_INITIAL_LEN,
  min_packet_len, probe_len,   \* least packet, and one that holds a challenge
  max_send_udp_payload_size,
  max_amplification_factor,
  Lengths,                     \* lengths of received datagrams
  received_challenges_max_len,
  MaxSeq,                      \* bound: sequence number of a CID of the peer
  MaxRecvs, MaxCalls, MaxInputs, \* bounds: datagrams received, calls, both together
  None

ASSUME FirstAssumption == First \in Addrs /\ None \notin Addrs
ASSUME LimitAssumption ==
  active_conn_id_limit \in Nat \ {0, 1} /\ retire_dcid_limit \in Nat
ASSUME SizeAssumption ==
  /\ MIN_CLIENT_INITIAL_LEN \in Nat \ {0} /\ MIN_PROBING_SIZE \in Nat
  /\ max_amplification_factor \in Nat /\ Lengths \subseteq Nat
  /\ received_challenges_max_len \in Nat /\ MAX_PROBING_TIMEOUTS \in Nat
  /\ min_packet_len \in Nat /\ probe_len \in Nat
  /\ max_send_udp_payload_size \in Nat
ASSUME SeqAssumption == MaxSeq \in Nat /\ None \notin Nat

VARIABLES
  is_server, disable_dcid_reuse,
  paths,        \* [pid -> Path]
  dcids,        \* sequence of [seq, path_id]
  retire_prior_to,   \* largest_peer_retire_prior_to
  retire_dcid_seqs,  \* CIDs whose RETIRE_CONNECTION_ID is to be sent
  retires_sent,      \* those sent and not acknowledged
  left_behind,       \* history: CIDs a failed retire_dcid took from their paths
  events, closed,
  recvs, calls

vars == <<is_server, disable_dcid_reuse, paths, dcids, retire_prior_to,
          retire_dcid_seqs, retires_sent, left_behind, events, closed, recvs, calls>>

(* PathState, in its derived order. *)
Failed == 0
Unknown == 1
Validating == 2
ValidatingMTU == 3
Validated == 4

(* Path::new.  received, sent and proven are history: what came over the   *)
(* path, what was sent before the peer's address was verified, and whether *)
(* the peer answered a challenge of full size sent over it.                *)
NewPath(a) ==
  [addr |-> a, state |-> Unknown, active |-> FALSE, active_dcid_seq |-> None,
   in_flight_challenges |-> <<>>, max_challenge_size |-> 0, probing_lost |-> 0,
   last_probe_lost_time |-> FALSE, received_challenges |-> 0,
   max_send_bytes |-> 0, verified_peer_address |-> FALSE,
   challenge_requested |-> FALSE, failure_notified |-> FALSE,
   migrating |-> FALSE,
   received |-> 0, sent |-> 0, proven |-> FALSE]

(* The path of the handshake. *)
InitialPath ==
  [NewPath(First) EXCEPT
     !.state = Validated, !.active = TRUE, !.active_dcid_seq = 0,
     !.verified_peer_address = TRUE, !.proven = TRUE]

Init ==
  /\ is_server \in BOOLEAN
  /\ disable_dcid_reuse \in {~is_server, TRUE}   \* which only a server reads
  /\ paths = [pid \in {0} |-> InitialPath]
  /\ dcids = <<[seq |-> 0, path_id |-> 0]>>
  /\ retire_prior_to = 0 /\ retire_dcid_seqs = {}
  /\ retires_sent = {} /\ left_behind = {}
  /\ events = <<>> /\ closed = FALSE
  /\ recvs = 0 /\ calls = 0

-----------------------------------------------------------------------------
(* Path *)

active(p) == p.active /\ p.state > Failed /\ p.active_dcid_seq # None
usable(p) == active(p) \/ (p.state = Validated /\ p.active_dcid_seq # None)
unused(p) == ~active(p) /\ p.active_dcid_seq = None
probing_required(p) == p.received_challenges > 0 \/ p.challenge_requested
under_validation(p) == p.state \in {Validating, ValidatingMTU}

promote_to(p, s) == [p EXCEPT !.state = Max({@, s})]

add_challenge_sent(p, size) ==
  [promote_to(p, Validating) EXCEPT
     !.challenge_requested = FALSE,
     !.in_flight_challenges = Append(@, size)]

on_challenge_received(p) ==
  [p EXCEPT !.received_challenges = Min({@ + 1, received_challenges_max_len})]

(* The i-th challenge in flight is answered. *)
Answered(p, i) ==
  LET size == p.in_flight_challenges[i]
  IN [promote_to(p, ValidatingMTU) EXCEPT
        !.verified_peer_address = TRUE,
        !.probing_lost = 0,
        !.in_flight_challenges = RemoveAt(@, i),
        !.max_challenge_size = Max({@, size}),
        !.proven = @ \/ size >= MIN_CLIENT_INITIAL_LEN]

on_response_received(p, i) ==
  LET q == Answered(p, i)
  IN IF q.state # ValidatingMTU THEN q
     ELSE IF q.max_challenge_size >= MIN_CLIENT_INITIAL_LEN
     THEN [q EXCEPT !.state = Validated]
     ELSE [q EXCEPT !.challenge_requested = TRUE]

on_failed_validation(p) == [p EXCEPT !.state = Failed, !.active = FALSE]

(* Every challenge in flight was sent before now, so all are given up.     *)
(* spaced: the first of them was sent at least one RTT after the one whose *)
(* loss was counted last.                                                  *)
ProbeLost(p, spaced) ==
  [p EXCEPT !.in_flight_challenges = <<>>,
            !.probing_lost = IF spaced \/ ~p.last_probe_lost_time THEN @ + 1 ELSE @,
            !.last_probe_lost_time = TRUE]

on_loss_detection_timeoutOnce(p, spaced) ==   \* mutant: no further probe
  LET q == ProbeLost(p, spaced)
  IN IF p.in_flight_challenges = <<>> THEN p
     ELSE IF \/ q.probing_lost >= MAX_PROBING_TIMEOUTS
             \/ is_server /\ q.max_send_bytes < MIN_PROBING_SIZE
     THEN on_failed_validation(q)
     ELSE q

on_loss_detection_timeout(p, spaced) ==
  LET q == ProbeLost(p, spaced)
  IN IF p.in_flight_challenges = <<>> THEN p
     ELSE IF \/ q.probing_lost >= MAX_PROBING_TIMEOUTS
             \/ is_server /\ q.max_send_bytes < MIN_PROBING_SIZE
     THEN on_failed_validation(q)
     ELSE [q EXCEPT !.challenge_requested = TRUE]

-----------------------------------------------------------------------------
(* PathMap, and the paths part of Connection.  An operation maps a record  *)
(* of paths, dcids, events and err to the next one; err is the Err that    *)
(* ends it early.                                                          *)

Conn == [paths |-> paths, dcids |-> dcids, retire_prior_to |-> retire_prior_to,
         retire_dcid_seqs |-> retire_dcid_seqs, events |-> <<>>, err |-> FALSE]

Notify(c, kind, a) == [c EXCEPT !.events = Append(@, [kind |-> kind, addr |-> a])]
Fail(c) == [c EXCEPT !.err = TRUE]

(* The keys of the paths that satisfy a condition, and the first of them. *)
Active(c) == {pid \in DOMAIN c.paths : active(c.paths[pid])}
Unused(c) == {pid \in DOMAIN c.paths : unused(c.paths[pid])}
Usable(c) == {pid \in DOMAIN c.paths : usable(c.paths[pid])}
path_id_from_addrs(a) == {pid \in DOMAIN paths : paths[pid].addr = a}

(* The key make_room_for_new_path and Slab::insert give a new path: the    *)
(* next one, or that of the first unused path.                             *)
HasRoom(c) == Cardinality(DOMAIN c.paths) < active_conn_id_limit
KeysFor(c) ==
  IF HasRoom(c) THEN {Cardinality(DOMAIN c.paths)}
  ELSE {pid \in Unused(c) : \A q \in Unused(c) : pid <= q}

insert_path(c, pid, p) ==
  LET room == IF HasRoom(c) THEN c ELSE Notify(c, "Closed", c.paths[pid].addr)
      put == [room EXCEPT !.paths = [q \in DOMAIN @ \cup {pid} |-> IF q = pid THEN p ELSE @[q]]]
  IN IF is_server THEN Notify(put, "New", p.addr) ELSE put

(* A loop over the paths, which goes by their keys. *)
ForEachPath(step(_, _), c) ==
  MapThenFoldSet(LAMBDA pid, d : step(d, pid), c,
                 LAMBDA pid : pid, LAMBDA S : Max(S), DOMAIN c.paths)

NotifyFailure(c, pid) ==
  IF c.paths[pid].state = Failed /\ ~c.paths[pid].failure_notified
  THEN [Notify(c, "FailedValidation", c.paths[pid].addr) EXCEPT
          !.paths[pid].failure_notified = TRUE]
  ELSE c

notify_failed_validations(c) == ForEachPath(NotifyFailure, c)

(* Only the path active() returns stops being active. *)
Deactivate(c) ==
  IF Active(c) = {} THEN c ELSE [c EXCEPT !.paths[Min(Active(c))].active = FALSE]

set_active_pathEager(c, pid) ==        \* mutant: told before the path is validated
  LET d == [Deactivate(c) EXCEPT !.paths[pid].active = TRUE]
      p == d.paths[pid]
  IN IF ~is_server THEN d
     ELSE [Notify(d, "PeerMigrated", p.addr) EXCEPT
             !.paths[pid].challenge_requested = @ \/ p.state < Validating]

set_active_path(c, pid) ==
  LET d == [Deactivate(c) EXCEPT !.paths[pid].active = TRUE]
      p == d.paths[pid]
  IN IF ~is_server THEN d
     ELSE IF p.state = Validated THEN Notify(d, "PeerMigrated", p.addr)
     ELSE [d EXCEPT !.paths[pid].migrating = TRUE,
                    !.paths[pid].challenge_requested = @ \/ ~under_validation(p)]

(* PathMap::on_response_received for the i-th challenge in flight on pid;  *)
(* a response that matches no challenge is read with i = 0.                *)
PathResponse(c, pid, i) ==
  IF Active(c) = {} THEN Fail(c)
  ELSE IF i = 0 THEN c
  ELSE LET p == c.paths[pid]
           q == on_response_received(p, i)
           now == q.state = Validated /\ p.state < Validated
           d == [c EXCEPT !.paths[pid] =
                   IF now THEN [q EXCEPT !.migrating = FALSE] ELSE q]
           told == Notify(d, "Validated", p.addr)
       IN IF ~now THEN d
          ELSE IF pid = Min(Active(c)) /\ p.migrating
          THEN Notify(told, "PeerMigrated", p.addr) ELSE told

-----------------------------------------------------------------------------
(* Destination connection IDs *)

Available(c) == {e.seq : e \in {e \in Range(c.dcids) : e.path_id = None}}

Link(c, seq, pid) ==
  [c EXCEPT
     !.dcids = [i \in DOMAIN @ |->
                  IF @[i].seq = seq THEN [@[i] EXCEPT !.path_id = pid] ELSE @[i]],
     !.paths[pid].active_dcid_seq = seq]

(* The path gets the lowest CID that no path uses, or none. *)
Relink(c, pid) ==
  IF Available(c) = {} THEN [c EXCEPT !.paths[pid].active_dcid_seq = None]
  ELSE Link(c, Min(Available(c)), pid)

RelinkRetiredNone(c, retired) == c     \* mutant: the paths keep the retired CIDs

(* A path a retired entry was linked to; one that moved to another CID     *)
(* keeps it.                                                               *)
RelinkEntry(c, e) ==
  IF e.path_id = None \/ c.err THEN c
  ELSE IF e.path_id \notin DOMAIN c.paths THEN Fail(c)
  ELSE IF c.paths[e.path_id].active_dcid_seq # e.seq THEN c
  ELSE Relink(c, e.path_id)

RelinkRetired(c, retired) == FoldLeft(RelinkEntry, c, retired)

(* Where a binary search over the sequence numbers may end: before the     *)
(* first one that is not retired if they are in order.                     *)
partition_points(s, prior) ==
  {i \in 0 .. Len(s) :
     /\ i = 0 \/ s[i].seq < prior
     /\ i = Len(s) \/ s[i + 1].seq >= prior}

(* mark_retire_dcid_seq: a set of limited size, full or not. *)
HasPlace(queue) == Cardinality(queue) < retire_dcid_limit

Mark(c, seq) ==
  IF HasPlace(c.retire_dcid_seqs)
  THEN [c EXCEPT !.retire_dcid_seqs = @ \cup {seq}] ELSE Fail(c)

(* The queue after the CIDs of the first k entries, and how many of the    *)
(* first n are put there before it is full.                                *)
Queue(c, k) == c.retire_dcid_seqs \cup {c.dcids[j].seq : j \in 1 .. k}
Marked(c, n) == Max({k \in 0 .. n : \A j \in 1 .. k : HasPlace(Queue(c, j - 1))})

(* The first n entries are taken out and the new one is put in.  The drain *)
(* stops at the first CID that finds the queue full: its path and those    *)
(* before it get another CID, those after it are not even reported; either *)
(* error comes after that.                                                 *)
ReplaceCids(c, seq, prior, n) ==
  LET marked == Marked(c, n)
      kept == SubSeq(c.dcids, n + 1, Len(c.dcids))
      full == Len(kept) >= active_conn_id_limit
      put == [c EXCEPT
                !.dcids = IF full THEN kept
                          ELSE Append(kept, [seq |-> seq, path_id |-> None]),
                !.retire_prior_to = Max({@, prior}),
                !.retire_dcid_seqs = Queue(c, marked)]
      done == RelinkRetired(put, SubSeq(c.dcids, 1, Min({n, marked + 1})))
  IN IF full \/ marked < n THEN Fail(done) ELSE done

(* A NEW_CONNECTION_ID frame; clash: it contradicts an entry we hold; i is *)
(* the partition point.                                                    *)
NewConnectionId(c, seq, prior, clash, i) ==
  IF clash THEN Fail(c)
  ELSE IF \E e \in Range(c.dcids) : e.seq = seq THEN c
  ELSE IF prior > seq THEN Fail(c)
  ELSE IF seq < c.retire_prior_to THEN Mark(c, seq)
  ELSE ReplaceCids(c, seq, prior, IF prior > c.retire_prior_to THEN i ELSE 0)

(* The end of recv_single: paths without a CID get one while there are any.*)
AllocateDcid(c, pid) ==
  IF c.paths[pid].active_dcid_seq = None /\ Available(c) # {} THEN Relink(c, pid) ELSE c

AllocateDcids(c) == ForEachPath(AllocateDcid, c)

-----------------------------------------------------------------------------
(* recv *)

on_peer_migrated(c, pid) ==
  LET old == Min(Active(c))
      d == set_active_path(c, pid)
  IN IF d.paths[pid].active_dcid_seq = None /\ ~disable_dcid_reuse
     THEN [d EXCEPT !.paths[pid].active_dcid_seq = d.paths[old].active_dcid_seq]
     ELSE d

(* What follows the frames: probing packets change no active path. *)
EndRecv(c, pid, probing, newest) ==
  LET d == AllocateDcids(c)
  IN IF c.err THEN c
     ELSE IF probing THEN d
     ELSE IF Active(d) = {} THEN Fail(d)
     ELSE IF is_server /\ pid # Min(Active(d)) /\ newest
     THEN on_peer_migrated(d, pid)
     ELSE d

CreditTwice(p, len) ==                 \* mutant: a new path is credited again
  [p EXCEPT !.max_send_bytes =
              IF is_server /\ ~p.verified_peer_address
              THEN @ + max_amplification_factor * len * (IF p.received = 0 THEN 2 ELSE 1)
              ELSE @,
            !.received = IF is_server /\ ~p.verified_peer_address THEN @ + len ELSE @]

(* Bytes from an address that is not verified allow a multiple of them. *)
Credit(p, len) ==
  LET counts == is_server /\ ~p.verified_peer_address
  IN [p EXCEPT !.max_send_bytes = IF counts THEN @ + max_amplification_factor * len ELSE @,
               !.received = IF counts THEN @ + len ELSE @]

(* The connection and the path a datagram from a belongs to: a known path, *)
(* or, on a server with room for it, a new one, which is probed.           *)
RecvPaths(a, len) ==
  IF path_id_from_addrs(a) # {}
  THEN {<<[Conn EXCEPT !.paths[pid] = Credit(@, len)], pid>> :
          pid \in path_id_from_addrs(a)}
  ELSE IF ~is_server THEN {}
  ELSE {<<insert_path(Conn, pid,
            [Credit(NewPath(a), len) EXCEPT !.challenge_requested = TRUE]), pid>> :
          pid \in KeysFor(Conn)}

Commit(c) ==
  /\ paths' = c.paths /\ dcids' = c.dcids
  /\ retire_prior_to' = c.retire_prior_to
  /\ retire_dcid_seqs' = c.retire_dcid_seqs
  /\ events' = c.events /\ closed' = c.err

Received ==
  /\ ~closed /\ recvs < MaxRecvs /\ recvs + calls < MaxInputs
  /\ recvs' = recvs + 1
  /\ UNCHANGED <<is_server, disable_dcid_reuse, retires_sent, left_behind, calls>>

RecvChallenge(a, len) ==
  /\ Received
  /\ \E r \in RecvPaths(a, len) :
       Commit(EndRecv([r[1] EXCEPT !.paths[r[2]] = on_challenge_received(@)],
                      r[2], TRUE, FALSE))

(* The response may come over any path; it answers a challenge in flight   *)
(* on some path, or one that was given up.                                 *)
RecvResponse(a, len) ==
  /\ Received
  /\ \E r \in RecvPaths(a, len) : \E pid \in DOMAIN r[1].paths :
     \E i \in 0 .. Len(r[1].paths[pid].in_flight_challenges) :
       Commit(EndRecv(PathResponse(r[1], pid, i), r[2], TRUE, FALSE))

RecvNewConnectionId(a, len, seq, prior) ==
  /\ Received
  /\ \E r \in RecvPaths(a, len), clash \in BOOLEAN :
     \E i \in partition_points(dcids, prior) :
       Commit(EndRecv(NewConnectionId(r[1], seq, prior, clash, i), r[2], TRUE, FALSE))

(* Any frame that is not a probing frame; it may overtake or be overtaken  *)
(* by another such packet.                                                 *)
RecvData(a, len) ==
  /\ Received
  /\ \E r \in RecvPaths(a, len), newest \in BOOLEAN :
       Commit(EndRecv(r[1], r[2], FALSE, newest))

-----------------------------------------------------------------------------
(* send *)

(* The caller names the path or leaves it to get_send_path_id, which takes *)
(* one that has to probe or the active one; any path may be meant.         *)

(* The room of a datagram: an address that is not verified is sent no more *)
(* than its credit.                                                        *)
limited(p) == is_server /\ ~p.verified_peer_address
Room(p) ==
  IF limited(p) THEN Min({max_send_udp_payload_size, p.max_send_bytes})
  ELSE max_send_udp_payload_size

(* A packet needs an active path, and a CID that is not retired for its    *)
(* header.                                                                 *)
HasHeader(pid) ==
  /\ Active(Conn) # {}
  /\ \E e \in Range(dcids) : e.seq = paths[pid].active_dcid_seq

(* One packet.  Padding, the congestion window and the buffer of the       *)
(* caller leave its size open; a requested challenge is in it if it fits,  *)
(* responses are dropped from the one on that does not fit, so left of     *)
(* them remain.                                                            *)
Packet(p, size, probes, left) ==
  LET q == IF probes THEN add_challenge_sent(p, size) ELSE p
  IN [q EXCEPT !.received_challenges = left,
               !.max_send_bytes = Max({0, @ - size}),
               !.sent = IF limited(p) THEN @ + size ELSE @]

ResponsesLeft(p) == 0 .. Max({0, p.received_challenges - 1})

(* A RETIRE_CONNECTION_ID frame in a packet found lost is queued again     *)
(* before anything else; with the queue full send returns the error.       *)
LostRetires == {{}} \cup {{seq} : seq \in retires_sent}
Requeued(lost) ==
  IF HasPlace(retire_dcid_seqs) THEN retire_dcid_seqs \cup lost ELSE retire_dcid_seqs

(* No packet: there is no header, no room, or no frame that fits, when a   *)
(* response is dropped all the same.                                       *)
SendNothing(pid, lost) ==
  /\ ~closed
  /\ \E left \in {paths[pid].received_challenges} \cup
                  (IF HasHeader(pid) THEN ResponsesLeft(paths[pid]) ELSE {}) :
       Commit([Conn EXCEPT !.retire_dcid_seqs = Requeued(lost),
                           !.paths[pid].received_challenges = left])
  /\ retires_sent' = retires_sent \ lost
  /\ UNCHANGED <<is_server, disable_dcid_reuse, left_behind, recvs, calls>>

(* The active path also carries RETIRE_CONNECTION_ID frames, not for the   *)
(* CID of the packet itself (a queue that only holds that one makes the    *)
(* loop, and so the call, endless).                                        *)
SendPacket(pid, lost, size, probes) ==
  /\ ~closed /\ HasHeader(pid)
  /\ lost # {} => HasPlace(retire_dcid_seqs)
  /\ size \in min_packet_len .. Room(paths[pid])
  /\ probes => paths[pid].challenge_requested /\ size >= probe_len
  /\ \E retires \in SUBSET (Requeued(lost) \ {paths[pid].active_dcid_seq}),
        left \in ResponsesLeft(paths[pid]) :
       /\ retires # {} => active(paths[pid])
       /\ Commit([Conn EXCEPT !.retire_dcid_seqs = Requeued(lost) \ retires,
                              !.paths[pid] = Packet(@, size, probes, left)])
       /\ retires_sent' = (retires_sent \ lost) \cup retires
  /\ UNCHANGED <<is_server, disable_dcid_reuse, left_behind, recvs, calls>>

Send ==
  \E pid \in DOMAIN paths, lost \in LostRetires :
    \/ SendNothing(pid, lost)
    \/ \E size \in 0 .. max_send_udp_payload_size, probes \in BOOLEAN :
         SendPacket(pid, lost, size, probes)

-----------------------------------------------------------------------------
(* on_timeout: the paths in due, whose loss detection timers ran out; then *)
(* the failures are reported, and a failed active path is replaced or ends *)
(* the connection.  When a timer is armed is up to the recovery of the     *)
(* path: here any may run out at any time, or never.                       *)
Replaced(c) ==
  IF Active(c) # {} THEN c
  ELSE IF Usable(c) = {} THEN Fail(c)
  ELSE set_active_path(c, Min(Usable(c)))

TimedOut(due, spaced) ==
  [Conn EXCEPT !.paths =
     [pid \in DOMAIN @ |->
        IF pid \in due
        THEN on_loss_detection_timeout(@[pid], spaced[pid])
        ELSE @[pid]]]

on_timeout(due, spaced) ==
  /\ ~closed /\ due # {}
  /\ Commit(Replaced(notify_failed_validations(TimedOut(due, spaced))))
  /\ UNCHANGED <<is_server, disable_dcid_reuse, retires_sent, left_behind, recvs, calls>>

(* The idle timer closes the connection instead. *)
IdleTimeout ==
  /\ ~closed /\ closed' = TRUE /\ events' = <<>>
  /\ UNCHANGED <<is_server, disable_dcid_reuse, paths, dcids, retire_prior_to,
                 retire_dcid_seqs, retires_sent, left_behind, recvs, calls>>

-----------------------------------------------------------------------------
(* Calls of the application.  But for retire_dcid, and probe_path on a     *)
(* path without a CID, a call that fails changes nothing.                  *)

Called ==
  /\ ~closed /\ calls < MaxCalls /\ recvs + calls < MaxInputs
  /\ calls' = calls + 1
  /\ UNCHANGED <<is_server, disable_dcid_reuse, retires_sent, recvs>>

(* The connection with a path for a, and its key: a known path, or, on a   *)
(* client, a new one that takes a spare CID.                               *)
create_path_on_client(a) ==
  IF path_id_from_addrs(a) # {} THEN {<<Conn, pid>> : pid \in path_id_from_addrs(a)}
  ELSE IF is_server \/ Available(Conn) = {} THEN {}
  ELSE {<<Relink(insert_path(Conn, pid, NewPath(a)), pid), pid>> : pid \in KeysFor(Conn)}

probe_path(a) ==
  /\ Called /\ UNCHANGED left_behind
  /\ \E r \in create_path_on_client(a) :
       Commit([r[1] EXCEPT !.paths[r[2]].challenge_requested = TRUE])

(* A known path that has no CID takes a spare one. *)
migrate(a) ==
  /\ Called /\ ~is_server /\ UNCHANGED left_behind
  /\ \E r \in create_path_on_client(a) :
       LET p == r[1].paths[r[2]]
           c == IF p.active_dcid_seq = None THEN Relink(r[1], r[2]) ELSE r[1]
       IN /\ ~active(p)
          /\ c.paths[r[2]].active_dcid_seq # None
          /\ Commit(set_active_path(c, r[2]))

(* retire_dcid of the connection: the last CID of the only usable path is  *)
(* kept.  With the queue full the call fails when the CID is gone already, *)
(* and the path keeps it.                                                  *)
retire_dcid(seq) ==
  /\ Called
  /\ Active(Conn) # {} /\ Len(dcids) > 1
  /\ LET pid == Min(Active(Conn))
     IN paths[pid].active_dcid_seq = seq =>
          Available(Conn) # {} \/ Usable(Conn) \ {pid} # {}
  /\ \E i \in DOMAIN dcids :
       /\ dcids[i].seq = seq
       /\ LET c == [Conn EXCEPT !.dcids = RemoveAt(@, i)]
             d == Mark(c, seq)
         IN IF d.err
            THEN Commit(c) /\ left_behind' = left_behind \cup {seq}
            ELSE /\ Commit(IF dcids[i].path_id = None THEN d
                           ELSE Relink(d, dcids[i].path_id))
                 /\ UNCHANGED left_behind

-----------------------------------------------------------------------------
Receive ==
  \E a \in Addrs, len \in Lengths :
    \/ RecvChallenge(a, len) \/ RecvResponse(a, len) \/ RecvData(a, len)
    \/ \E seq \in 1 .. MaxSeq, prior \in 0 .. MaxSeq :
         RecvNewConnectionId(a, len, seq, prior)

Application ==
  \/ \E a \in Addrs : probe_path(a) \/ migrate(a)
  \/ \E seq \in 0 .. MaxSeq : retire_dcid(seq)

Timeout ==
  \E due \in SUBSET DOMAIN paths : \E spaced \in [due -> BOOLEAN] : on_timeout(due, spaced)

Next == Receive \/ Application \/ Send \/ Timeout \/ IdleTimeout

Spec == Init /\ [][Next]_vars

-----------------------------------------------------------------------------
(* The application is told that a path is validated, or that the peer      *)
(* migrated to it, only if the peer has answered a challenge of full size  *)
(* that was sent over that path.                                           *)
MigrationProven ==
  \A e \in Range(events) : e.kind \in {"Validated", "PeerMigrated"} =>
    \A pid \in path_id_from_addrs(e.addr) : paths[pid].proven

(* A server never sends an address it has not verified more than           *)
(* max_amplification_factor times what came from there, whichever of the   *)
(* probes, responses and data it sends.                                    *)
AmplificationBound ==
  \A pid \in DOMAIN paths :
    paths[pid].sent <= max_amplification_factor * paths[pid].received

(* On an open connection a path only uses a CID that is not retired and    *)
(* that no other path uses, whatever was retired by the peer, out of order *)
(* or not, and by the application.  There are two exceptions: the peer's   *)
(* move may make a server reuse the CID of the old path (on_peer_migrated),*)
(* and a retire_dcid that fails on a full queue leaves its path behind.    *)
DcidsOwned ==
  ~closed /\ (disable_dcid_reuse \/ ~is_server) =>
    \A pid \in DOMAIN paths : LET seq == paths[pid].active_dcid_seq IN
      \/ seq = None \/ seq \in left_behind
      \/ [seq |-> seq, path_id |-> pid] \in Range(dcids)

(* A validation that has begun is not forgotten: a challenge is in flight, *)
(* or one is requested, until the path is validated or failed.  It may     *)
(* still wait for ever: recovery stops the timer when the challenge is     *)
(* acknowledged, and a requested challenge needs room for a whole packet.  *)
ProbeAlive ==
  \A pid \in DOMAIN paths : under_validation(paths[pid]) =>
    paths[pid].in_flight_challenges # <<>> \/ paths[pid].challenge_requested
=============================================================================
