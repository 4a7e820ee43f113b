---------------------------- MODULE MCCorrelator ----------------------------
(* Two fds, reconnects, a write longer than what an event captures, and a  *)
(* TLS event, which has no fd.                                             *)
EXTENDS Correlator

MCAddrs == {NoAddr, "redis"}
MCInputs == {
    ConnectEvent(1, 3, "redis"), ConnectEvent(1, 4, NoAddr),
    WriteEvent(1, 3, <<"a", "b", "c">>, TRUE), ReadEvent(1, 3, <<"d">>, TRUE),
    SSLWriteEvent(1, 7, <<"e">>, TRUE),
    CloseEvent(1, 3), CloseEvent(1, 4) }
=============================================================================
