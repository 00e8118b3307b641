---------------------------- MODULE ConnectionMC ----------------------------
(* Parameters of mode Zero and of two small windows, for the runs of       *)
(* Connection; addresses are interchangeable.                              *)
EXTENDS Connection, TLC
SomeParams == {<<0, 0>>, <<2, 1>>, <<1, 2>>}
AnyAddr == Permutations(Addrs)
=============================================================================
