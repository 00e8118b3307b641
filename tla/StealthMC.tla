----------------------------- MODULE StealthMC -----------------------------
(* A rotation over three browsers.                                         *)
EXTENDS Stealth
CONSTANTS chrome, firefox, opera, safari
ThreeProfiles == <<chrome, firefox, opera>>
=============================================================================
