---------------------------- MODULE MCCollector -----------------------------
(* Two rings, records that wait in every place they can wait in, one read  *)
(* error and one record that does not decode.                              *)
EXTENDS Collector

MCInputs == { WriteEvent(1, 3, <<"a">>, TRUE), CloseEvent(1, 3),
              SSLWriteEvent(1, 7, <<"b">>, TRUE) }

\* A record of the wrong size.
MCGarbled == { [WriteEvent(1, 3, <<>>, TRUE) EXCEPT !.total = 1] }
=============================================================================
