------------------------------- MODULE Relay --------------------------------
(***************************************************************************)
(* What every stage of the trace pipeline promises about the events it     *)
(* passes through (the `raw' outputs): its consumer takes exactly what its *)
(* producer put, in that order, and all of it in the end.  How many values *)
(* sit in which channel, and what else the stage does with them, is the    *)
(* stage's own affair.                                                     *)
(***************************************************************************)
EXTENDS Sequences

CONSTANT Values

VARIABLES
    pending,    \* put and not taken yet, oldest first
    taken,      \* taken by the consumer
    ended       \* whether the producer has ended its output

vars == <<pending, taken, ended>>

Init == pending = <<>> /\ taken = <<>> /\ ended = FALSE

Put(v) == ~ended /\ pending' = Append(pending, v) /\ UNCHANGED <<taken, ended>>

End == ~ended /\ ended' = TRUE /\ UNCHANGED <<pending, taken>>

Take ==
    /\ pending # <<>>
    /\ taken' = Append(taken, Head(pending)) /\ pending' = Tail(pending)
    /\ UNCHANGED ended

Next == (\E v \in Values : Put(v)) \/ End \/ Take

Safety == Init /\ [][Next]_vars

Spec == Safety /\ WF_vars(Take)
=============================================================================
