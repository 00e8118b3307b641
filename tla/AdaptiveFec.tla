----------------------------- MODULE AdaptiveFec -----------------------------
(***************************************************************************)
(* AdaptiveFec of src/src/fec/adaptive.rs: one endpoint's encoder and      *)
(* decoder, the pair of an earlier configuration that is kept while the    *)
(* change is cross-faded, and the mode manager that decides on changes.    *)
(*                                                                         *)
(* Of an encoder the model keeps its mode, k, n and the fill of its source *)
(* window; of a decoder its mode, k, number of rows and whether it has     *)
(* decoded.  What the rows hold is the matter of FecCodec: a packet may be *)
(* ignored as a duplicate, add a row, or add the row that solves the block.*)
(***************************************************************************)
EXTENDS ModeManager

CONSTANTS
  CROSS_FADE_LEN,   \* 32 in the code
  MaxReports,       \* bound: calls of report_loss
  MaxFill,          \* bound: packets counted in a source window
  MaxReceives,      \* bound: calls of on_receive
  None              \* Option::None

Encoders == [mode : FecMode, k : Nat, n : Nat, fill : Nat]
Decoders == [mode : FecMode, k : Nat, rows : Nat, done : BOOLEAN]

ASSUME NoneAssumption == None \notin Encoders /\ None \notin Decoders
ASSUME FadeAssumption == CROSS_FADE_LEN \in Nat \ {0}
ASSUME BoundAssumption == MaxReports \in Nat /\ MaxFill \in Nat /\ MaxReceives \in Nat

VARIABLES
  encoder, decoder,
  transition_encoder, transition_decoder, transition_left,
  reports,      \* calls of report_loss
  received      \* calls of on_receive

codecs == <<encoder, decoder, transition_encoder, transition_decoder, transition_left>>
vars == <<manager, time, codecs, reports, received>>

Half == CROSS_FADE_LEN \div 2

overhead_ratio(mode) ==      \* in percent
  CASE mode = "Zero" -> 100
    [] mode = "Light" -> 105
    [] mode = "Normal" -> 115
    [] mode = "Medium" -> 130
    [] mode = "Strong" -> 150
    [] mode = "Extreme" -> 200

(* params_for: n = ceil(window * ratio). *)
RepairedLen(mode, window) == (window * overhead_ratio(mode) + 99) \div 100

NewEncoder(mode, window) ==
  [mode |-> mode, k |-> window, n |-> RepairedLen(mode, window), fill |-> 0]
NewDecoder(mode, window) == [mode |-> mode, k |-> window, rows |-> 0, done |-> FALSE]

Init ==
  /\ ManagerInit
  /\ encoder = NewEncoder(current_mode, current_window)
  /\ decoder = NewDecoder(current_mode, current_window)
  /\ transition_encoder = None /\ transition_decoder = None /\ transition_left = 0
  /\ reports = 0 /\ received = 0

-----------------------------------------------------------------------------
Tick ==
  /\ ManagerTick
  /\ UNCHANGED <<codecs, reports, received>>

(* The window is full at k packets; then the oldest one makes room.  The   *)
(* test is for equality, so a window with k = 0 never counts as full again *)
(* once it holds a packet.                                                 *)
AddSource(enc) ==
  [enc EXCEPT !.fill = IF (@ = enc.k /\ @ > 0) \/ @ >= MaxFill THEN @ ELSE @ + 1]

(* mutant: half of the fade is tested before the decrement *)
on_sendTestFirst ==
  /\ encoder' = AddSource(encoder)
  /\ transition_left' = IF transition_left > 0 THEN transition_left - 1 ELSE 0
  /\ IF transition_left = Half
     THEN transition_encoder' = None /\ transition_decoder' = None
     ELSE UNCHANGED <<transition_encoder, transition_decoder>>
  /\ UNCHANGED <<manager, time, decoder, reports, received>>

(* mutant: the fade is counted only while the old encoder is there *)
on_sendCountsPair ==
  /\ encoder' = AddSource(encoder)
  /\ transition_left' = IF transition_encoder # None THEN transition_left - 1 ELSE transition_left
  /\ IF transition_left > 0 /\ transition_left - 1 = Half
     THEN transition_encoder' = None /\ transition_decoder' = None
     ELSE UNCHANGED <<transition_encoder, transition_decoder>>
  /\ UNCHANGED <<manager, time, decoder, reports, received>>

(* on_send; the repair packets themselves are the matter of FecCodec. *)
on_send ==
  /\ encoder' = AddSource(encoder)
  /\ transition_left' = IF transition_left > 0 THEN transition_left - 1 ELSE 0
  /\ IF transition_left > 0 /\ transition_left - 1 = Half
     THEN transition_encoder' = None /\ transition_decoder' = None
     ELSE /\ transition_encoder' = IF transition_encoder = None THEN None
                                   ELSE AddSource(transition_encoder)
          /\ UNCHANGED transition_decoder
  /\ UNCHANGED <<manager, time, decoder, reports, received>>

(* The states add_packet may leave a decoder in. *)
WithRow(d) == [d EXCEPT !.rows = @ + 1]
AddPacket(d) ==
  IF d.done \/ d.rows >= d.k THEN {d}
  ELSE {d, WithRow(d)} \cup
       (IF d.rows + 1 = d.k THEN {[WithRow(d) EXCEPT !.done = TRUE]} ELSE {})

(* The old decoder sees the packet too during the first half of the fade. *)
on_receive ==
  /\ received < MaxReceives
  /\ received' = received + 1
  /\ decoder' \in AddPacket(decoder)
  /\ transition_decoder' \in
       IF transition_left > Half /\ transition_decoder # None
       THEN AddPacket(transition_decoder) ELSE {transition_decoder}
  /\ UNCHANGED <<manager, time, encoder, transition_encoder, transition_left, reports>>

(* mutant: the decoder gets the window from before the update *)
report_lossStale(loss) ==
  /\ reports < MaxReports
  /\ reports' = reports + 1
  /\ update(loss)
  /\ encoder' = NewEncoder(current_mode', current_window')
  /\ decoder' = NewDecoder(current_mode', current_window)
  /\ IF Switches(loss)
     THEN /\ transition_encoder' = encoder
          /\ transition_decoder' = decoder
          /\ transition_left' = CROSS_FADE_LEN
     ELSE UNCHANGED <<transition_encoder, transition_decoder, transition_left>>
  /\ UNCHANGED received

(* report_loss: a switch keeps the old pair for the cross-fade; without    *)
(* one the pair is replaced all the same.                                  *)
report_loss(loss) ==
  /\ reports < MaxReports
  /\ reports' = reports + 1
  /\ update(loss)
  /\ encoder' = NewEncoder(current_mode', current_window')
  /\ decoder' = NewDecoder(current_mode', current_window')
  /\ IF Switches(loss)
     THEN /\ transition_encoder' = encoder
          /\ transition_decoder' = decoder
          /\ transition_left' = CROSS_FADE_LEN
     ELSE UNCHANGED <<transition_encoder, transition_decoder, transition_left>>
  /\ UNCHANGED received

Next == Tick \/ on_send \/ on_receive \/ \E loss \in Losses : report_loss(loss)

Spec == Init /\ [][Next]_vars

(* An endpoint that has something to send goes on sending. *)
SenderSpec == Spec /\ WF_vars(on_send)

-----------------------------------------------------------------------------
TypeOK ==
  /\ ManagerTypeOK
  /\ encoder \in Encoders /\ decoder \in Decoders
  /\ transition_encoder \in Encoders \cup {None}
  /\ transition_decoder \in Decoders \cup {None}
  /\ transition_left \in 0 .. CROSS_FADE_LEN
  /\ reports \in Nat /\ received \in Nat

(* The encoder and the decoder in force are always those of the mode and   *)
(* the window the manager has decided on, and so of each other.            *)
CodecsInStep ==
  /\ encoder.mode = current_mode /\ encoder.k = current_window
  /\ decoder.mode = current_mode /\ decoder.k = current_window

(* The old pair exists exactly during the first half of a cross-fade, also *)
(* when a new switch interrupts a fade: it is neither leaked nor dropped   *)
(* early, and the guards of on_send and on_receive on transition_left      *)
(* never find it missing.                                                  *)
TransitionShape ==
  /\ transition_encoder # None <=> transition_left > Half
  /\ transition_decoder # None <=> transition_left > Half

(* A cross-fade ends once no report restarts it. *)
FadeEnds == transition_left > 0 ~> transition_left = 0
=============================================================================
