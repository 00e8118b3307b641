----------------------------- MODULE RecoveryMC -----------------------------
(* One chunk of CRYPTO data and two of STREAM data. *)
EXTENDS Recovery
SomeChunks == [ini |-> {}, hs |-> {"h"}, app |-> {"a", "b"}]
=============================================================================
