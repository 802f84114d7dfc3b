----------------------------- MODULE BoundedPipe ------------------------------
(***************************************************************************)
(* What the goroutine pipelines of the gateway promise: a FIFO of bounded  *)
(* capacity between a goroutine that puts elements in and one that takes   *)
(* them out.  Nothing is skipped, repeated or reordered; once the taking   *)
(* side has ended nothing more comes out, and what is lost then is at most *)
(* what the pipe holds.  Conn and KafkaConsumer are shown to implement it. *)
(***************************************************************************)
EXTENDS Naturals, Sequences

CONSTANT Capacity

VARIABLES in,      \* the elements put in so far
          out,     \* the elements taken out so far
          ended    \* the taking side is gone

Init == in = <<>> /\ out = <<>> /\ ended = FALSE

Put ==
    /\ Len(in) - Len(out) < Capacity
    /\ Len(in') = Len(in) + 1
    /\ SubSeq(in', 1, Len(in)) = in
    /\ UNCHANGED <<out, ended>>

Take ==
    /\ ~ended
    /\ Len(out) < Len(in)
    /\ out' = Append(out, in[Len(out) + 1])
    /\ UNCHANGED <<in, ended>>

End == ended' /\ UNCHANGED <<in, out>>

Next == Put \/ Take \/ End

pipeVars == <<in, out, ended>>
Spec == Init /\ [][Next]_pipeVars

\* What was put in comes out, unless the taking side ends before: whenever no more is
\* put in, the pipe is empty in the end.
Drains == []<>(out = in \/ ended)
===============================================================================
