-------------------------- MODULE XdpSocketProofs --------------------------
(***************************************************************************)
(* Conservation of frames, that none is written while somebody still has   *)
(* to read it, and that a packet leaves by one way only, for any number of *)
(* frames and unbounded traffic.                                           *)
(***************************************************************************)
EXTENDS XdpSocket, FiniteSetTheorems, SequenceTheorems, TLAPS

Contents == data \in [Frames -> Int] /\ owed \in [Frames -> Int] 
            /\ calls \in [sends : Nat, arrivals : Nat, inits : Nat]

(* NeverOverwritten needs to know where a frame is: what is in the pool    *)
(* and may be written is in neither ring.                                  *)
FrameInv == Contents /\ FramesConserved /\ NeverOverwritten

(* Nothing is pending, so the queue of a send is its one frame. *)
LEMMA OneQueued ==
  ASSUME NEW f, pending = <<>>
  PROVE  /\ Head(Append(pending, f)) = f /\ Tail(Append(pending, f)) = <<>>
         /\ {Append(pending, f)[j] : j \in DOMAIN Append(pending, f)} = {f}
<1>1. Append(pending, f) = <<f>>
  OBVIOUS
<1> QED BY <1>1

(* The state is dropped, or set up anew: no ring holds a frame. *)
LEMMA Reset ==
  ASSUME init_state \/ no_state, NeverOverwritten, taken' = taken
  PROVE  FramesConserved' /\ NeverOverwritten'
<1>1. FramesConserved'
  BY DEF init_state, no_state, FramesConserved
<1>2. tx' = {} /\ rx' = {}
  BY DEF init_state, no_state
<1> QED BY <1>1, <1>2 DEF NeverOverwritten

(* One step per action. *)
LEMMA FrameInductive ==
  ASSUME FrameInv, [Next]_vars
  PROVE  FrameInv'
<1> USE DEF FrameInv
<1>1. CASE UNCHANGED vars \/ RecvUdp
  BY <1>1 DEF RecvUdp, vars, frames, Contents, FramesConserved, NeverOverwritten
<1>2. ASSUME NEW f \in Frames, SendXdp(f) PROVE FrameInv'
  <2>1. /\ f \in pool /\ data' = [data EXCEPT ![f] = packet]
        /\ pending' = <<>> /\ tx' = tx \cup {f}
        /\ owed' = [owed EXCEPT ![f] = data'[f]]
        /\ UNCHANGED <<fill, rx, dropped, taken>>
        /\ calls' = [calls EXCEPT !.sends = @ + 1]
        /\ \/ pool' = pool \ {f} /\ cq' = cq
           \/ \E g \in cq : pool' = (pool \ {f}) \cup {g} /\ cq' = cq \ {g}
    BY <1>2, OneQueued DEF SendXdp, Queued, Send, FramesConserved
  <2>2. Contents'
    <3>1. packet \in Int /\ calls' \in [sends : Nat, arrivals : Nat, inits : Nat]
      <4>1. calls' = [calls EXCEPT !.sends = @ + 1]
        BY <1>2 DEF SendXdp, Send
      <4> QED BY <4>1 DEF Contents, packet
    <3>2. data' \in [Frames -> Int]
      BY <1>2, <2>1, <3>1 DEF Contents
    <3>3. owed' \in [Frames -> Int]
      BY <1>2, <2>1, <3>2 DEF Contents
    <3> QED BY <3>1, <3>2, <3>3 DEF Contents
  <2>3. FramesConserved'
    BY <1>2, <2>1 DEF FramesConserved
  <2>4. \A g \in tx \cup rx : data'[g] = owed'[g]
    BY <1>2, <2>1 DEF FramesConserved, NeverOverwritten, Contents
  <2>5. data'[f] = owed'[f]
    BY <1>2, <2>1 DEF Contents
  <2>6. NeverOverwritten'
    BY <2>1, <2>4, <2>5 DEF NeverOverwritten
  <2> QED BY <2>2, <2>3, <2>6
<1>3. ASSUME NEW f \in Frames, SendRingFull(f) PROVE FrameInv'
  <2>1. /\ f \in pool /\ data' = [data EXCEPT ![f] = packet]
        /\ pending' = <<>> /\ pool' = (pool \ {f}) \cup {f}
        /\ UNCHANGED <<fill, rx, tx, cq, dropped, owed, taken>>
        /\ calls' = [calls EXCEPT !.sends = @ + 1]
    BY <1>3, OneQueued DEF SendRingFull, Queued, Send, FramesConserved
  <2>2. Contents'
    BY <1>3, <2>1 DEF Contents, packet
  <2>3. FramesConserved'
    BY <2>1 DEF FramesConserved
  <2>4. NeverOverwritten'
    BY <1>3, <2>1 DEF FramesConserved, NeverOverwritten, Contents
  <2> QED BY <2>2, <2>3, <2>4
<1>4. ASSUME NEW f \in Frames, SendRingFails(f) PROVE FrameInv'
  <2>1. Contents'
    BY <1>4 DEF SendRingFails, Queued, Send, Contents, packet
  <2> QED BY <1>4, <2>1, Reset DEF SendRingFails
<1>5. ASSUME NEW f \in Frames, RecvXdp(f) PROVE FrameInv'
  <2>1. /\ f \in rx /\ rx' = rx \ {f} /\ taken' = taken \cup {<<data[f], owed[f]>>}
        /\ \/ fill' = fill \cup {f} /\ dropped' = dropped
           \/ dropped' = dropped \cup {f} /\ fill' = fill
        /\ UNCHANGED <<pool, pending, tx, cq, data, owed, calls>>
    BY <1>5 DEF RecvXdp
  <2>2. Contents'
    BY <2>1 DEF Contents
  <2>3. FramesConserved'
    BY <2>1 DEF FramesConserved
  <2>4. data[f] = owed[f]
    BY <2>1 DEF NeverOverwritten
  <2>5. NeverOverwritten'
    BY <2>1, <2>4 DEF NeverOverwritten
  <2> QED BY <2>2, <2>3, <2>5
<1>6. ASSUME NEW f \in Frames, Arrives(f) PROVE FrameInv'
  <2>1. /\ f \in fill /\ fill' = fill \ {f} /\ rx' = rx \cup {f}
        /\ calls' = [calls EXCEPT !.arrivals = @ + 1]
        /\ data' = [data EXCEPT ![f] = -calls'.arrivals]
        /\ owed' = [owed EXCEPT ![f] = data'[f]]
        /\ UNCHANGED <<pool, pending, tx, cq, dropped, taken>>
    BY <1>6 DEF Arrives
  <2>2. Contents'
    <3>1. calls' \in [sends : Nat, arrivals : Nat, inits : Nat] /\ calls'.arrivals \in Nat
      BY <2>1 DEF Contents
    <3> QED BY <1>6, <2>1, <3>1 DEF Contents
  <2>3. FramesConserved'
    BY <1>6, <2>1 DEF FramesConserved
  <2>4. \A g \in Frames \ {f} : data'[g] = data[g] /\ owed'[g] = owed[g]
    BY <2>1 DEF Contents
  <2>5. data'[f] = owed'[f]
    BY <1>6, <2>1 DEF Contents
  <2>6. \A g \in tx \cup rx : data'[g] = owed'[g]
    BY <2>1, <2>4 DEF FramesConserved, NeverOverwritten
  <2>7. NeverOverwritten'
    BY <2>1, <2>5, <2>6 DEF NeverOverwritten
  <2> QED BY <2>2, <2>3, <2>7
<1>7. ASSUME NEW f \in Frames, Transmits(f) PROVE FrameInv'
  BY <1>7 DEF Transmits, Contents, FramesConserved, NeverOverwritten
<1>8. CASE SendUdp
  BY <1>8 DEF SendUdp, Send, frames, Contents, FramesConserved, NeverOverwritten
<1>9. CASE RecvRingFails \/ reconfigure
  <2>1. Contents'
    BY <1>9 DEF RecvRingFails, reconfigure, Contents
  <2> QED BY <1>9, <2>1, Reset DEF RecvRingFails, reconfigure
<1> QED
  BY <1>1, <1>2, <1>3, <1>4, <1>5, <1>6, <1>7, <1>8, <1>9 DEF Next

(* Frames move between pool and rings without loss or sharing, and the     *)
(* code never writes one that the kernel or recv still has to read.        *)
THEOREM FramesSafe == Spec => [](FramesConserved /\ NeverOverwritten)
<1>1. Init => FrameInv
  BY DEF Init, FrameInv, Contents, FramesConserved, NeverOverwritten
<1>2. FrameInv => FramesConserved /\ NeverOverwritten
  BY DEF FrameInv
<1> QED BY <1>1, <1>2, FrameInductive, PTL DEF Spec

(* What arrives in a frame, or is queued in one, stays as it is until recv *)
(* or the kernel has read it.                                              *)
THEOREM ContentsSafe == Spec => []NeverOverwritten
<1>1. FramesConserved /\ NeverOverwritten => NeverOverwritten
  OBVIOUS
<1> QED BY <1>1, FramesSafe, PTL

-----------------------------------------------------------------------------
(* How often a packet has left. *)

(* The two ways carry packets that send was called with. *)
Ledger ==
  /\ calls.sends \in Nat
  /\ by_xdp \in Seq(1 .. calls.sends) /\ by_udp \in Seq(1 .. calls.sends)
  /\ accepted \subseteq 1 .. calls.sends /\ doubtful \subseteq 1 .. calls.sends

SendInv == FrameInv /\ Ledger /\ SentOnce

LEMMA TimesType ==
  ASSUME NEW n, NEW S, NEW s \in Seq(S)
  PROVE  Times(n, s) \in Nat
<1>1. IsFiniteSet(1 .. Len(s)) /\ DOMAIN s = 1 .. Len(s)
  BY FS_Interval
<1>2. IsFiniteSet({j \in DOMAIN s : s[j] = n})
  BY <1>1, FS_Subset
<1> QED BY <1>2, FS_CardinalityType DEF Times

(* A packet that was never sent has left zero times. *)
LEMMA TimesNew ==
  ASSUME NEW S, NEW s \in Seq(S), NEW n, n \notin S
  PROVE  Times(n, s) = 0
<1>1. {j \in DOMAIN s : s[j] = n} = {}
  OBVIOUS
<1> QED BY <1>1, FS_EmptySet DEF Times

(* Appending a packet counts it, and no other. *)
LEMMA TimesAppend ==
  ASSUME NEW S, NEW s \in Seq(S), NEW m, NEW n
  PROVE  Times(n, Append(s, m)) = Times(n, s) + IF m = n THEN 1 ELSE 0
<1> DEFINE Old == {j \in DOMAIN s : s[j] = n}
           New == {j \in DOMAIN Append(s, m) : Append(s, m)[j] = n}
<1>1. /\ Len(s) \in Nat /\ DOMAIN s = 1 .. Len(s)
      /\ DOMAIN Append(s, m) = 1 .. Len(s) + 1
      /\ \A j \in 1 .. Len(s) : Append(s, m)[j] = s[j]
      /\ Append(s, m)[Len(s) + 1] = m
  OBVIOUS
<1>2. IsFiniteSet(Old) /\ Times(n, s) = Cardinality(Old)
  <2>1. IsFiniteSet(DOMAIN s) /\ Old \in SUBSET DOMAIN s
    BY <1>1, FS_Interval
  <2> QED BY <2>1, FS_Subset DEF Times
<1>3. Times(n, Append(s, m)) = Cardinality(New)
  BY DEF Times
<1>4. CASE m = n
  <2>1. New = Old \cup {Len(s) + 1} /\ Len(s) + 1 \notin Old
    BY <1>1, <1>4
  <2> QED BY <1>2, <1>3, <1>4, <2>1, FS_AddElement
<1>5. CASE m # n
  <2>1. New = Old
    BY <1>1, <1>5
  <2>2. Cardinality(Old) \in Nat
    BY <1>2, FS_CardinalityType
  <2>3. Times(n, Append(s, m)) = Times(n, s) /\ Times(n, s) \in Nat
    BY <1>2, <1>3, <2>1, <2>2, Zenon
  <2> HIDE DEF Old, New
  <2> QED BY <1>5, <2>3
<1> QED BY <1>4, <1>5

(* A call of send that puts its packet on one way counts it once there;    *)
(* one that failed on both counts it nowhere.                              *)
LEMMA OnePacket ==
  ASSUME Ledger, SentOnce, calls' = [calls EXCEPT !.sends = @ + 1],
         calls \in [sends : Nat, arrivals : Nat, inits : Nat],
         \/ /\ by_xdp' = Append(by_xdp, packet) /\ by_udp' = by_udp
            /\ accepted' = accepted \cup {packet}
         \/ /\ by_xdp' = by_xdp /\ UdpSend,
         doubtful' = doubtful \/ doubtful' = doubtful \cup {packet}
  PROVE  Ledger' /\ SentOnce'
<1>1. /\ calls.sends \in Nat /\ calls'.sends = packet /\ packet = calls.sends + 1
      /\ 1 .. packet = (1 .. calls.sends) \cup {packet} /\ packet \notin 1 .. calls.sends
  BY DEF packet
<1>2. by_xdp \in Seq(1 .. calls.sends) /\ by_udp \in Seq(1 .. calls.sends)
  BY DEF Ledger
<1>3. by_xdp \in Seq(1 .. packet) /\ by_udp \in Seq(1 .. packet)
  BY <1>1, <1>2, SeqMonotonic
<1>4. /\ by_xdp' = Append(by_xdp, packet) \/ by_xdp' = by_xdp
      /\ by_udp' = Append(by_udp, packet) \/ by_udp' = by_udp
      /\ accepted' \in {accepted, accepted \cup {packet}}
  BY DEF UdpSend
<1>5. Ledger'
  <2>1. packet \in 1 .. packet
    BY <1>1
  <2>2. by_xdp' \in Seq(1 .. packet) /\ by_udp' \in Seq(1 .. packet)
    <3>1. /\ Append(by_xdp, packet) \in Seq(1 .. packet)
          /\ Append(by_udp, packet) \in Seq(1 .. packet)
      BY <1>3, <2>1, AppendProperties
    <3> QED BY <1>3, <1>4, <3>1, Zenon
  <2>3. accepted' \subseteq 1 .. packet /\ doubtful' \subseteq 1 .. packet
    BY <1>1, <1>4 DEF Ledger
  <2> QED BY <1>1, <2>2, <2>3 DEF Ledger
<1>6. ASSUME NEW n \in 1 .. calls.sends
      PROVE  Times(n, by_xdp') = Times(n, by_xdp) /\ Times(n, by_udp') = Times(n, by_udp)
  <2>1. n # packet
    BY <1>1
  <2>2. /\ Times(n, by_xdp) \in Nat /\ Times(n, Append(by_xdp, packet)) = Times(n, by_xdp)
        /\ Times(n, by_udp) \in Nat /\ Times(n, Append(by_udp, packet)) = Times(n, by_udp)
    BY <1>2, <2>1, TimesAppend, TimesType
  <2> QED BY <1>4, <2>2, Zenon
<1>7. Times(packet, by_xdp') + Times(packet, by_udp') = IF packet \in accepted' THEN 1 ELSE 0
  <2>1. Times(packet, by_xdp) = 0 /\ Times(packet, by_udp) = 0 /\ packet \notin accepted
    BY <1>1, <1>2, TimesNew DEF Ledger
  <2>2. /\ Times(packet, Append(by_xdp, packet)) = 1
        /\ Times(packet, Append(by_udp, packet)) = 1
    BY <1>2, <2>1, TimesAppend
  <2>3. \/ /\ Times(packet, by_xdp') = 1 /\ Times(packet, by_udp') = 0 /\ packet \in accepted'
        \/ /\ Times(packet, by_xdp') = 0 /\ Times(packet, by_udp') = 1 /\ packet \in accepted'
        \/ /\ Times(packet, by_xdp') = 0 /\ Times(packet, by_udp') = 0 /\ packet \notin accepted'
    BY <2>1, <2>2, Zenon DEF UdpSend
  <2> QED BY <2>3
<1>8. SentOnce'
  <2> SUFFICES ASSUME NEW n \in 1 .. packet, n \notin doubtful'
               PROVE  Times(n, by_xdp') + Times(n, by_udp') = IF n \in accepted' THEN 1 ELSE 0
    BY <1>1 DEF SentOnce
  <2>1. CASE n = packet
    BY <1>7, <2>1
  <2>2. CASE n \in 1 .. calls.sends
    <3>1. n \notin doubtful /\ (n \in accepted' <=> n \in accepted)
      BY <1>1, <1>4, <2>2
    <3> QED BY <1>6, <2>2, <3>1 DEF SentOnce
  <2> QED BY <1>1, <2>1, <2>2
<1> QED BY <1>5, <1>8

(* One step per action: the others send nothing. *)
LEMMA SendStep ==
  ASSUME SendInv, [Next]_vars
  PROVE  SendInv'
<1>1. FrameInv'
  BY FrameInductive DEF SendInv
<1> USE DEF SendInv
<1>2. CASE UNCHANGED <<sending, calls>>
  BY <1>1, <1>2 DEF sending, Ledger, SentOnce, Times
<1>3. calls \in [sends : Nat, arrivals : Nat, inits : Nat] /\ pending = <<>>
  BY DEF FrameInv, Contents, FramesConserved
<1>4. CASE calls'.sends = calls.sends /\ UNCHANGED sending
  BY <1>1, <1>4 DEF sending, Ledger, SentOnce, Times
<1>5. ASSUME NEW f \in Frames, SendXdp(f) PROVE SendInv'
  <2>1. data'[f] = packet
    BY <1>5 DEF SendXdp, Queued, FrameInv, Contents
  <2>2. by_xdp' = Append(by_xdp, packet)
    BY <1>3, <1>5, <2>1, OneQueued DEF SendXdp
  <2> QED BY <1>1, <1>3, <1>5, <2>2, OnePacket DEF SendXdp, Send
<1>6. ASSUME NEW f \in Frames, SendRingFull(f) PROVE SendInv'
  BY <1>1, <1>3, <1>6, OnePacket DEF SendRingFull, Send
<1>7. ASSUME NEW f \in Frames, SendRingFails(f) PROVE SendInv'
  BY <1>1, <1>3, <1>7, OnePacket DEF SendRingFails, Send
<1>8. CASE SendUdp
  BY <1>1, <1>3, <1>8, OnePacket DEF SendUdp, Send
<1>9. ASSUME NEW f \in Frames, RecvXdp(f) \/ Transmits(f) PROVE SendInv'
  BY <1>2, <1>9 DEF RecvXdp, Transmits
<1>10. ASSUME NEW f \in Frames, Arrives(f) PROVE SendInv'
  BY <1>3, <1>4, <1>10 DEF Arrives
<1>11. CASE RecvUdp \/ RecvRingFails \/ UNCHANGED vars
  BY <1>2, <1>11 DEF RecvUdp, RecvRingFails, vars
<1>12. CASE reconfigure
  BY <1>3, <1>4, <1>12 DEF reconfigure
<1> QED
  BY <1>5, <1>6, <1>7, <1>8, <1>9, <1>10, <1>11, <1>12 DEF Next

(* A packet that send accepted has left once, by one of the two ways: the  *)
(* fallback to UDP neither repeats a packet that is in the ring nor leaves *)
(* one behind in a frame for a later call to send.                         *)
THEOREM SendSafe == Spec => []SentOnce
<1>1. Init => SendInv
  <2>1. Init => FrameInv
    BY DEF Init, FrameInv, Contents, FramesConserved, NeverOverwritten
  <2>2. Init => Ledger
    BY DEF Init, Ledger
  <2>3. Init => SentOnce
    BY DEF Init, SentOnce
  <2> QED BY <2>1, <2>2, <2>3 DEF SendInv
<1>2. SendInv => SentOnce
  BY DEF SendInv
<1> QED BY <1>1, <1>2, SendStep, PTL DEF Spec
=============================================================================
