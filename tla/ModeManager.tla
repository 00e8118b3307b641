----------------------------- MODULE ModeManager -----------------------------
(***************************************************************************)
(* ModeManager and PidController of src/src/fec/adaptive.rs: the FEC mode  *)
(* and the coding window follow the estimated loss.                        *)
(*                                                                         *)
(* Loss rates, thresholds and errors are whole percents; time is counted   *)
(* in units of 1/TPS second; the gains of the controller are in tenths.    *)
(* The comparisons of the controller's output with +-0.1 are then exact    *)
(* integer comparisons; where the output is exactly +-0.1 the f32 result   *)
(* may fall on either side and both outcomes are allowed.                  *)
(***************************************************************************)
EXTENDS Integers, FiniteSets

CONSTANTS
  Losses,         \* loss estimates, in percent
  KP, KI, KD,     \* gains, in tenths
  Hysteresis,     \* in percent
  InitialModes,   \* what config.initial_mode may be
  WindowSizes,    \* config.window_sizes
  TPS,            \* time units per second
  MinDwell,       \* min_dwell_time, 500 ms, in time units
  MaxTime         \* bound: time units in a behaviour

FecMode == {"Zero", "Light", "Normal", "Medium", "Strong", "Extreme"}

window_range(mode) ==
  CASE mode = "Zero" -> <<0, 0>>
    [] mode = "Light" -> <<8, 32>>
    [] mode = "Normal" -> <<32, 128>>
    [] mode = "Medium" -> <<64, 256>>
    [] mode = "Strong" -> <<256, 1024>>
    [] mode = "Extreme" -> <<1024, 4096>>

InRange(mode, w) == window_range(mode)[1] <= w /\ w <= window_range(mode)[2]

ASSUME LossAssumption == Losses \subseteq 0 .. 100 /\ Hysteresis \in Nat
ASSUME GainAssumption == KP \in Nat /\ KI \in Nat /\ KD \in Nat
ASSUME ModeAssumption == InitialModes \subseteq FecMode
ASSUME TimeAssumption == TPS \in Nat \ {0} /\ MinDwell \in Nat /\ MaxTime \in Nat

(* Any windows: FecConfig::validate does not look at those a configuration *)
(* file names, and they need not be in the range of their mode.            *)
ASSUME WindowAssumption == WindowSizes \in [FecMode -> Nat]

VARIABLES
  current_mode, current_window,
  dwell,            \* time since last_mode_change, up to MinDwell
  integral,         \* PidController, in percent times time units
  previous_error,   \* in percent
  dt,               \* time since the controller last ran
  time,             \* time that has passed
  estimate          \* the last estimate (telemetry LOSS_RATE)

manager == <<current_mode, current_window, dwell, integral, previous_error, dt, estimate>>

mode_thresholds(mode) ==
  CASE mode = "Zero" -> 1
    [] mode = "Light" -> 5
    [] mode = "Normal" -> 15
    [] mode = "Medium" -> 30
    [] mode = "Strong" -> 50
    [] mode = "Extreme" -> 100

next_mode(mode) ==
  CASE mode = "Zero" -> "Light"
    [] mode = "Light" -> "Normal"
    [] mode = "Normal" -> "Medium"
    [] mode = "Medium" -> "Strong"
    [] mode \in {"Strong", "Extreme"} -> "Extreme"

prev_mode(mode) ==
  CASE mode = "Extreme" -> "Strong"
    [] mode = "Strong" -> "Medium"
    [] mode = "Medium" -> "Normal"
    [] mode = "Normal" -> "Light"
    [] mode \in {"Light", "Zero"} -> "Zero"

initial_window(mode) == WindowSizes[mode]

ManagerInit ==
  /\ current_mode \in InitialModes
  /\ current_window = initial_window(current_mode)
  /\ dwell = 0 /\ dt = 0 /\ time = 0
  /\ integral = 0 /\ previous_error = 0
  /\ estimate = 0

-----------------------------------------------------------------------------
(* Time passes between two calls. *)
ManagerTick ==
  /\ time < MaxTime
  /\ time' = time + 1
  /\ dt' = dt + 1
  /\ dwell' = IF dwell < MinDwell THEN dwell + 1 ELSE dwell
  /\ UNCHANGED <<current_mode, current_window, integral, previous_error, estimate>>

Emergency(loss) == loss > mode_thresholds("Strong") + Hysteresis

(* Emergency override for sudden loss spikes. *)
UpdateEmergency(loss) ==
  /\ Emergency(loss)
  /\ current_mode' = "Extreme"
  /\ current_window' = initial_window("Extreme")
  /\ dwell' = 0
  /\ UNCHANGED <<integral, previous_error, dt>>

(* mutant: the dwell time holds back the emergency override too *)
UpdateDwellingFirst(loss) ==
  /\ dwell < MinDwell
  /\ UNCHANGED <<current_mode, current_window, dwell, integral, previous_error, dt>>

UpdateDwelling(loss) ==
  /\ ~Emergency(loss)
  /\ dwell < MinDwell
  /\ UNCHANGED <<current_mode, current_window, dwell, integral, previous_error, dt>>

(* PidController::update: setpoint - current_value, its integral and its   *)
(* difference.  Output is the controller's output times 1000 * TPS * dt,   *)
(* Deadband is 0.1 in that scale.                                          *)
Error(loss) == mode_thresholds(current_mode) - loss
Integral(loss) == integral + Error(loss) * dt
Output(loss) ==
  KP * Error(loss) * TPS * dt + KI * Integral(loss) * dt
    + KD * (Error(loss) - previous_error) * TPS * TPS
Deadband == 100 * TPS * dt

(* The modes the output may lead to; with no time since the last update    *)
(* the output is 0.                                                        *)
Targets(loss) ==
  IF dt = 0 THEN {current_mode}
  ELSE {m \in FecMode :
          \/ m = next_mode(current_mode) /\ Output(loss) >= Deadband
          \/ m = current_mode /\ -Deadband <= Output(loss) /\ Output(loss) <= Deadband
          \/ m = prev_mode(current_mode) /\ Output(loss) <= -Deadband}

Clamp(w, range) == IF w < range[1] THEN range[1] ELSE IF w > range[2] THEN range[2] ELSE w

(* mutant: the scaled window is not clamped *)
NewWindowUnclamped(mode, w, loss) ==
  (w * (200 + loss - mode_thresholds(mode)) + 100) \div 200

(* round(w * alpha), alpha = 1 + 0.5 * (loss - threshold), clamped to the  *)
(* range of the mode.  (A tie may be rounded down in f32; no property      *)
(* tells the two windows apart.)                                           *)
NewWindow(mode, w, loss) ==
  Clamp((w * (200 + loss - mode_thresholds(mode)) + 100) \div 200, window_range(mode))

UpdatePid(loss) ==
  /\ ~Emergency(loss)
  /\ dwell >= MinDwell
  /\ \E m \in Targets(loss) :
       /\ current_mode' = m
       /\ dwell' = IF m # current_mode THEN 0 ELSE dwell
       /\ current_window' =
            NewWindow(m, IF m # current_mode THEN initial_window(m) ELSE current_window, loss)
  /\ IF dt = 0
     THEN UNCHANGED <<integral, previous_error>>
     ELSE integral' = Integral(loss) /\ previous_error' = Error(loss)
  /\ dt' = 0

(* ModeManager::update, called with the estimate of report_loss. *)
update(loss) ==
  /\ UpdateEmergency(loss) \/ UpdateDwelling(loss) \/ UpdatePid(loss)
  /\ estimate' = loss
  /\ UNCHANGED time

(* Whether update returns the previous mode and window. *)
Switches(loss) ==
  \/ Emergency(loss)
  \/ current_mode' # current_mode
  \/ current_window' # current_window

-----------------------------------------------------------------------------
ManagerTypeOK ==
  /\ current_mode \in FecMode /\ current_window \in Nat
  /\ dwell \in 0 .. MinDwell /\ dt \in Nat /\ time \in Nat
  /\ integral \in Int /\ previous_error \in Int
  /\ estimate \in Losses \cup {0}

(* The coding window is in the range of the mode in force, through mode    *)
(* changes, emergency switches and the loss-driven scaling of the window,  *)
(* except that a configured window is taken as it is, in the range or not, *)
(* at the start and by the emergency override: no other mode ever has a    *)
(* window out of its range, and no window but the configured one.          *)
WindowInRange ==
  \/ InRange(current_mode, current_window)
  \/ /\ current_mode \in InitialModes \cup {"Extreme"}
     /\ current_window = initial_window(current_mode)

(* After an estimate above the Strong threshold plus the hysteresis the    *)
(* mode is Extreme, dwell time or not, until another estimate arrives.     *)
EmergencyOverride == Emergency(estimate) => current_mode = "Extreme"
=============================================================================
