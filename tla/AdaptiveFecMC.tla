---------------------------- MODULE AdaptiveFecMC ----------------------------
(* For the runs of AdaptiveFec: the default configuration of FecConfig,    *)
(* but for the window of Light, which a file has set out of its range.     *)
EXTENDS AdaptiveFec

configured_windows ==
  [m \in FecMode |->
     CASE m = "Zero" -> 0 [] m = "Light" -> 64 [] m = "Normal" -> 64
       [] m = "Medium" -> 128 [] m = "Strong" -> 512 [] m = "Extreme" -> 1024]
AllModes == FecMode
=============================================================================
