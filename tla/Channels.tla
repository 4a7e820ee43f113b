------------------------------ MODULE Channels ------------------------------
(***************************************************************************)
(* Go's buffered channels, as the goroutines of wiremark use them: a FIFO  *)
(* buffer and a closed flag.  The capacity given to make(chan T, n) is a   *)
(* parameter of the operator that asks for room, since every channel of    *)
(* the program has a capacity of its own.                                  *)
(*                                                                         *)
(* A send blocks until there is room, a receive until there is a value or  *)
(* the channel is closed; values sent before close() are still delivered.  *)
(* A send on a closed channel panics: the specifications state, as an      *)
(* invariant, that no goroutine is ever about to do that.                  *)
(***************************************************************************)
EXTENDS Naturals, Sequences

ChanOf(T) == [buf : Seq(T), closed : BOOLEAN]

MakeChan == [buf |-> <<>>, closed |-> FALSE]

HasRoom(c, cap) == Len(c.buf) < cap

HasValue(c) == c.buf # <<>>

\* `for v := range c` ends exactly here.
Drained(c) == c.closed /\ c.buf = <<>>

Send(c, v) == [buf |-> Append(c.buf, v), closed |-> c.closed]

Receive(c) == [buf |-> Tail(c.buf), closed |-> c.closed]

CloseChan(c) == [buf |-> c.buf, closed |-> TRUE]

-----------------------------------------------------------------------------
\* The elements of seq that are in A, in order: SelectSeq, as a recursive
\* function, whose definition the proofs can unfold.  Used by properties.
Only(seq, A) ==
    LET only[i \in 0 .. Len(seq)] ==
            IF i = 0 THEN <<>>
            ELSE IF seq[i] \in A THEN Append(only[i - 1], seq[i]) ELSE only[i - 1]
    IN  only[Len(seq)]

\* The sum of a sequence of numbers, defined in the same way.
Total(seq) ==
    LET total[i \in 0 .. Len(seq)] == IF i = 0 THEN 0 ELSE total[i - 1] + seq[i]
    IN  total[Len(seq)]
=============================================================================
