------------------------------ MODULE MCProbes ------------------------------
(* Two threads of the traced process and one of another; an fd and an SSL  *)
(* object numerically equal to it.                                         *)
EXTENDS Probes, TLC

MCPayloads == { <<"a", "b">> }

\* The two traced threads are interchangeable.
MCSymmetry == Permutations(Target)
=============================================================================
