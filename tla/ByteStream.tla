----------------------------- MODULE ByteStream -----------------------------
(***************************************************************************)
(* What a QUIC stream promises its two applications: a first-in first-out  *)
(* channel of bytes with an end, that either side may abandon.             *)
(***************************************************************************)
EXTENDS Sequences, SequencesExt

VARIABLES
  input,      \* the bytes the writer has handed over
  closed,     \* the writer has ended its input
  output,     \* the bytes the reader has been given
  end,        \* what the reader knows of the end
  abandoned   \* one of the two gave the stream up

vars == <<input, closed, output, end, abandoned>>

Init ==
  /\ input = <<>> /\ closed = FALSE
  /\ output = <<>> /\ end = "open"
  /\ abandoned = FALSE

Write ==
  /\ ~closed
  /\ IsPrefix(input, input')
  /\ closed' \in BOOLEAN
  /\ UNCHANGED <<output, end, abandoned>>

(* The reader gets the bytes that come next, and the end only after the    *)
(* last of them, unless one of the two gave the stream up: then the end    *)
(* says nothing of what else was written.                                  *)
Read ==
  /\ end = "open"
  /\ IsPrefix(output, output') /\ IsPrefix(output', input)
  /\ end' \in IF (closed /\ output' = input) \/ abandoned THEN {"open", "fin"} ELSE {"open"}
  /\ UNCHANGED <<input, closed, abandoned>>

WriterAbandons == abandoned' = TRUE /\ UNCHANGED <<input, closed, output, end>>
ReaderAbandons ==
  /\ end = "open" /\ end' = "stopped" /\ abandoned' = TRUE
  /\ UNCHANGED <<input, closed, output>>

(* Only a stream that was given up is reported to the reader as reset. *)
ReadReset ==
  /\ end = "open" /\ abandoned /\ end' = "reset"
  /\ UNCHANGED <<input, closed, output, abandoned>>

Next == Write \/ Read \/ WriterAbandons \/ ReaderAbandons \/ ReadReset
Spec == Init /\ [][Next]_vars
=============================================================================
