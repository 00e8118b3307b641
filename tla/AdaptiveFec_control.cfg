\* The default gains; losses below, between and above the thresholds.
CONSTANTS
  Losses = {0, 3, 40, 60}
  KP = 12
  KI = 5
  KD = 1
  Hysteresis = 2
  InitialModes <- AllModes
  WindowSizes <- configured_windows
  TPS = 2
  MinDwell = 1
  MaxTime = 3
  CROSS_FADE_LEN = 4
  MaxReports = 3
  MaxFill = 2
  MaxReceives = 1
  None = None
SPECIFICATION SenderSpec
INVARIANTS CodecsInStep TransitionShape WindowInRange EmergencyOverride
PROPERTY FadeEnds
