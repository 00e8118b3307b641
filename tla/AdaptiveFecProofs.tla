-------------------------- MODULE AdaptiveFecProofs --------------------------
(***************************************************************************)
(* The invariants of AdaptiveFec for every set of loss estimates, every    *)
(* gain of the controller, every length of the cross-fade and without      *)
(* bounds on time or calls.                                                *)
(***************************************************************************)
EXTENDS AdaptiveFec, TLAPS

(* The inductive invariant.  The types carry the others: TransitionShape   *)
(* needs the retired pair to be a pair (TypeOK), the type of the new pair  *)
(* needs a window that is a number, and WindowInRange needs the mode.      *)
IInv ==
  /\ TypeOK
  /\ WindowInRange
  /\ EmergencyOverride
  /\ CodecsInStep
  /\ TransitionShape

-----------------------------------------------------------------------------
(* The range of every mode is a pair of naturals in order. *)
LEMMA RangeOrdered ==
  ASSUME NEW mode \in FecMode
  PROVE  /\ window_range(mode)[1] \in Nat /\ window_range(mode)[2] \in Nat
         /\ window_range(mode)[1] <= window_range(mode)[2]
  BY DEF FecMode, window_range

(* Clamping puts any integer into the range. *)
LEMMA ClampInRange ==
  ASSUME NEW mode \in FecMode, NEW w \in Int
  PROVE  /\ Clamp(w, window_range(mode)) \in Nat
         /\ InRange(mode, Clamp(w, window_range(mode)))
  BY RangeOrdered DEF Clamp, InRange

(* Thresholds and neighbours of a mode. *)
LEMMA ModeFacts ==
  ASSUME NEW mode \in FecMode
  PROVE  /\ mode_thresholds(mode) \in Nat
         /\ next_mode(mode) \in FecMode /\ prev_mode(mode) \in FecMode
         /\ overhead_ratio(mode) \in Nat
  BY DEF FecMode, mode_thresholds, next_mode, prev_mode, overhead_ratio

(* The scaled window of any mode, from any window, is in the mode's range. *)
LEMMA NewWindowInRange ==
  ASSUME NEW mode \in FecMode, NEW w \in Nat, NEW loss \in Nat
  PROVE  NewWindow(mode, w, loss) \in Nat /\ InRange(mode, NewWindow(mode, w, loss))
<1> DEFINE p == w * (200 + loss - mode_thresholds(mode)) + 100
<1>1. mode_thresholds(mode) \in Nat
  BY ModeFacts
<1>2. p \in Int
  BY <1>1
<1>3. p \div 200 \in Int
  <2> HIDE DEF p
  <2> QED BY <1>2
<1> QED BY <1>3, ClampInRange DEF NewWindow

(* A fresh encoder and a fresh decoder are well-typed. *)
LEMMA FreshCodecs ==
  ASSUME NEW mode \in FecMode, NEW w \in Nat
  PROVE  NewEncoder(mode, w) \in Encoders /\ NewDecoder(mode, w) \in Decoders
<1> DEFINE p == w * overhead_ratio(mode) + 99
<1>1. p \in Nat
  BY ModeFacts
<1>2. p \div 100 \in Nat
  <2> HIDE DEF p
  <2> QED BY <1>1
<1>3. RepairedLen(mode, w) \in Nat
  BY <1>2 DEF RepairedLen
<1> QED BY <1>3 DEF NewEncoder, NewDecoder, Encoders, Decoders

-----------------------------------------------------------------------------
(* The initial states. *)
LEMMA InitIInv == Init => IInv
<1> SUFFICES ASSUME Init PROVE IInv
  OBVIOUS
<1> USE DEF Init, ManagerInit
<1>1. current_mode \in FecMode /\ current_window \in Nat
  BY ModeAssumption, WindowAssumption DEF initial_window
<1>2. encoder \in Encoders /\ decoder \in Decoders
  BY <1>1, FreshCodecs
<1>3. ManagerTypeOK
  BY <1>1, TimeAssumption DEF ManagerTypeOK
<1>4. TypeOK
  BY <1>2, <1>3, FadeAssumption DEF TypeOK
<1>5. WindowInRange
  BY DEF WindowInRange
<1>6. EmergencyOverride
  BY ModeFacts, LossAssumption DEF EmergencyOverride, Emergency, FecMode
<1>7. CodecsInStep
  BY DEF CodecsInStep, NewEncoder, NewDecoder
<1>8. TransitionShape
  BY FadeAssumption DEF TransitionShape, Half
<1> QED BY <1>4, <1>5, <1>6, <1>7, <1>8 DEF IInv

-----------------------------------------------------------------------------
(* What ModeManager::update does to the manager's part of the invariant. *)
LEMMA UpdateStep ==
  ASSUME ManagerTypeOK, WindowInRange, NEW loss \in Losses, update(loss)
  PROVE  ManagerTypeOK' /\ WindowInRange' /\ EmergencyOverride'
<1> USE DEF ManagerTypeOK
<1>0. loss \in Nat /\ loss \in Losses
  BY LossAssumption
<1>1. CASE UpdateEmergency(loss)
  <2>1. "Extreme" \in FecMode
    BY DEF FecMode
  <2>2. ManagerTypeOK'
    BY <1>1, <2>1, WindowAssumption, TimeAssumption DEF UpdateEmergency, update, initial_window
  <2>3. WindowInRange'
    BY <1>1 DEF UpdateEmergency, WindowInRange
  <2>4. EmergencyOverride'
    BY <1>1 DEF UpdateEmergency, EmergencyOverride
  <2> QED BY <2>2, <2>3, <2>4
<1>2. CASE UpdateDwelling(loss)
  BY <1>2 DEF UpdateDwelling, update, WindowInRange, EmergencyOverride, Emergency
<1>3. CASE UpdatePid(loss)
  <2>1. PICK m \in Targets(loss) :
          /\ current_mode' = m
          /\ dwell' = IF m # current_mode THEN 0 ELSE dwell
          /\ current_window' =
               NewWindow(m, IF m # current_mode THEN initial_window(m) ELSE current_window, loss)
    BY <1>3 DEF UpdatePid
  <2>2. m \in FecMode
    BY DEF Targets
  <2>3. current_window' \in Nat /\ InRange(m, current_window')
    <3> DEFINE w == IF m # current_mode THEN initial_window(m) ELSE current_window
    <3>1. w \in Nat
      BY <2>2, WindowAssumption DEF initial_window
    <3> QED BY <2>1, <2>2, <3>1, <1>0, NewWindowInRange
  <2>4. integral' \in Int /\ previous_error' \in Int
    <3>1. Error(loss) \in Int
      BY <1>0, ModeFacts DEF Error
    <3>2. Error(loss) * dt \in Int
      BY <3>1
    <3>3. Integral(loss) \in Int
      BY <3>2 DEF Integral
    <3> QED BY <1>3, <3>1, <3>3 DEF UpdatePid
  <2>5. ManagerTypeOK'
    BY <1>3, <2>1, <2>2, <2>3, <2>4, TimeAssumption DEF UpdatePid, update
  <2>6. WindowInRange'
    BY <2>1, <2>3 DEF WindowInRange
  <2>7. EmergencyOverride'
    BY <1>3 DEF UpdatePid, update, EmergencyOverride, Emergency
  <2> QED BY <2>5, <2>6, <2>7
<1> QED BY <1>1, <1>2, <1>3 DEF update

(* report_loss: the new pair is in step, and the old one is kept for a     *)
(* whole cross-fade if there is a switch.                                  *)
LEMMA ReportStep ==
  ASSUME IInv, NEW loss \in Losses, report_loss(loss)
  PROVE  IInv'
<1> USE DEF IInv
<1>1. ManagerTypeOK' /\ WindowInRange' /\ EmergencyOverride'
  BY UpdateStep DEF TypeOK, report_loss
<1>2. encoder' \in Encoders /\ decoder' \in Decoders
  BY <1>1, FreshCodecs DEF ManagerTypeOK, report_loss
<1>3. TypeOK'
  BY <1>1, <1>2, FadeAssumption DEF TypeOK, report_loss
<1>4. CodecsInStep'
  BY DEF CodecsInStep, report_loss, NewEncoder, NewDecoder
<1>5. TransitionShape'
  <2>1. CASE Switches(loss)
    <3>1. encoder # None /\ decoder # None
      BY NoneAssumption DEF TypeOK
    <3>2. CROSS_FADE_LEN > Half
      BY FadeAssumption DEF Half
    <3>3. /\ transition_encoder' = encoder /\ transition_decoder' = decoder
          /\ transition_left' = CROSS_FADE_LEN
      BY <2>1 DEF report_loss
    <3> QED BY <3>1, <3>2, <3>3 DEF TransitionShape, Half
  <2>2. CASE ~Switches(loss)
    BY <2>2 DEF report_loss, TransitionShape
  <2> QED BY <2>1, <2>2
<1> QED BY <1>1, <1>3, <1>4, <1>5

(* on_send: the old pair goes exactly when the fade reaches its half. *)
LEMMA SendStep ==
  ASSUME IInv, on_send
  PROVE  IInv'
<1> USE DEF IInv
<1>1. ASSUME NEW enc \in Encoders
      PROVE  /\ AddSource(enc) \in Encoders
             /\ AddSource(enc).mode = enc.mode /\ AddSource(enc).k = enc.k
  BY DEF AddSource, Encoders
<1>2. encoder' \in Encoders /\ CodecsInStep'
  BY <1>1 DEF on_send, TypeOK, CodecsInStep, manager
<1>3. transition_encoder' \in Encoders \cup {None}
  BY <1>1 DEF on_send, TypeOK
<1>4. transition_left' \in 0 .. CROSS_FADE_LEN
  BY FadeAssumption DEF on_send, TypeOK
<1>5. UNCHANGED <<manager, time, decoder>> /\ transition_decoder' \in {transition_decoder, None}
  BY DEF on_send
<1>6. ManagerTypeOK'
  BY <1>5 DEF TypeOK, ManagerTypeOK, manager
<1>7. TypeOK'
  BY <1>2, <1>3, <1>4, <1>5, <1>6 DEF on_send, TypeOK
<1>8. WindowInRange' /\ EmergencyOverride'
  BY <1>5 DEF WindowInRange, EmergencyOverride, Emergency, manager
<1>9. TransitionShape'
  <2>1. Half \in Nat
    BY FadeAssumption DEF Half
  <2>2. CASE transition_left > 0 /\ transition_left - 1 = Half
    BY <2>1, <2>2 DEF on_send, TransitionShape, TypeOK, Half
  <2>3. CASE ~(transition_left > 0 /\ transition_left - 1 = Half)
    <3>1. transition_left' > Half <=> transition_left > Half
      BY <2>1, <2>3 DEF on_send, TypeOK
    <3>2. transition_encoder' # None <=> transition_encoder # None
      BY <1>1, <2>3, NoneAssumption DEF on_send, TypeOK
    <3>3. transition_decoder' = transition_decoder
      BY <2>3 DEF on_send
    <3> QED BY <3>1, <3>2, <3>3 DEF TransitionShape, Half
  <2> QED BY <2>2, <2>3
<1> QED BY <1>2, <1>7, <1>8, <1>9

(* on_receive: a packet changes neither the mode nor the k of a decoder. *)
LEMMA ReceiveStep ==
  ASSUME IInv, on_receive
  PROVE  IInv'
<1> USE DEF IInv
<1>1. ASSUME NEW d \in Decoders, NEW e \in AddPacket(d)
      PROVE  e \in Decoders /\ e.mode = d.mode /\ e.k = d.k
  <2>1. CASE e = d
    BY <1>1, <2>1
  <2>2. CASE e # d
    <3>1. e = WithRow(d) \/ e = [WithRow(d) EXCEPT !.done = TRUE]
      BY <1>1, <2>2 DEF AddPacket
    <3>2. /\ WithRow(d) \in Decoders
          /\ WithRow(d).mode = d.mode /\ WithRow(d).k = d.k
      BY DEF WithRow, Decoders
    <3>3. ASSUME NEW f \in Decoders
          PROVE  /\ [f EXCEPT !.done = TRUE] \in Decoders
                 /\ [f EXCEPT !.done = TRUE].mode = f.mode
                 /\ [f EXCEPT !.done = TRUE].k = f.k
      BY DEF Decoders
    <3> QED BY <3>1, <3>2, <3>3
  <2> QED BY <2>1, <2>2
<1>2. /\ decoder' \in Decoders
      /\ decoder'.mode = decoder.mode /\ decoder'.k = decoder.k
  BY <1>1 DEF on_receive, TypeOK
<1>3. /\ transition_decoder = None => transition_decoder' = None
      /\ transition_decoder # None => transition_decoder' \in Decoders
  BY <1>1 DEF on_receive, TypeOK
<1>4. UNCHANGED <<manager, time, encoder, transition_encoder, transition_left>>
  BY DEF on_receive
<1>5. ManagerTypeOK'
  BY <1>4 DEF TypeOK, ManagerTypeOK, manager
<1>6. received' \in Nat /\ reports' \in Nat
  BY DEF on_receive, TypeOK
<1>7. TypeOK'
  BY <1>2, <1>3, <1>4, <1>5, <1>6 DEF TypeOK
<1>8. WindowInRange' /\ EmergencyOverride' /\ CodecsInStep'
  BY <1>2, <1>4 DEF WindowInRange, EmergencyOverride, Emergency, CodecsInStep, manager
<1>9. TransitionShape'
  BY <1>3, <1>4, NoneAssumption DEF TransitionShape
<1> QED BY <1>7, <1>8, <1>9

(* Time touches only the clocks of the manager. *)
LEMMA TickStep ==
  ASSUME IInv, Tick
  PROVE  IInv'
<1> USE DEF IInv
<1>1. UNCHANGED <<codecs, reports, received, current_mode, current_window, estimate>>
  BY DEF Tick, ManagerTick
<1>2. ManagerTypeOK'
  BY TimeAssumption DEF Tick, ManagerTick, TypeOK, ManagerTypeOK
<1>3. TypeOK'
  BY <1>1, <1>2 DEF TypeOK, codecs
<1>4. WindowInRange' /\ EmergencyOverride' /\ CodecsInStep' /\ TransitionShape'
  BY <1>1 DEF codecs, WindowInRange, EmergencyOverride, Emergency, CodecsInStep,
              TransitionShape
<1> QED BY <1>3, <1>4

-----------------------------------------------------------------------------
(* The invariant holds in every reachable state of AdaptiveFec. *)
THEOREM Inductive == Spec => []IInv
<1>1. IInv /\ [Next]_vars => IInv'
  <2> SUFFICES ASSUME IInv, [Next]_vars PROVE IInv'
    OBVIOUS
  <2>1. CASE Tick
    BY <2>1, TickStep
  <2>2. CASE on_send
    BY <2>2, SendStep
  <2>3. CASE on_receive
    BY <2>3, ReceiveStep
  <2>4. ASSUME NEW loss \in Losses, report_loss(loss) PROVE IInv'
    BY <2>4, ReportStep
  <2>5. CASE UNCHANGED vars
    BY <2>5 DEF vars, manager, codecs, IInv, TypeOK, ManagerTypeOK, WindowInRange,
                EmergencyOverride, Emergency, CodecsInStep, TransitionShape
  <2> QED BY <2>1, <2>2, <2>3, <2>4, <2>5 DEF Next
<1> QED BY <1>1, InitIInv, PTL DEF Spec

(* Type correctness of AdaptiveFec and of its mode manager. *)
THEOREM TypeCorrect == Spec => []TypeOK
  BY Inductive, PTL DEF IInv

(* report_loss, on_send and on_receive keep the old encoder and decoder    *)
(* for exactly the first half of a cross-fade, whatever interrupts it.     *)
THEOREM FadeShape == Spec => []TransitionShape
  BY Inductive, PTL DEF IInv

(* The window ModeManager::update computes never leaves the range of the   *)
(* mode, for any loss estimates, any gains of the PID controller and any   *)
(* configured windows; only a configured window may be out of it, in the   *)
(* initial mode and after the emergency override.                          *)
THEOREM WindowSafe == Spec => []WindowInRange
  BY Inductive, PTL DEF IInv

(* The codecs in force are those of the mode manager's decision.           *)
THEOREM InStep == Spec => []CodecsInStep
  BY Inductive, PTL DEF IInv

(* ModeManager::update lets nothing delay the emergency override.          *)
THEOREM EmergencySafe == Spec => []EmergencyOverride
  BY Inductive, PTL DEF IInv
=============================================================================
