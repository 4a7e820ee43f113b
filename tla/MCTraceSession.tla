--------------------------- MODULE MCTraceSession ---------------------------
(* One fd, reconnected and reused, on which more is written than an event  *)
(* captures: its bytes decode as Redis calls, or as an HTTP request once   *)
(* one was read.                                                           *)
EXTENDS TraceSession

D == INSTANCE Decoders
MCDecodeHTTP(read, write) == D!TryHTTP(read, write)
MCDecodeRESP(write, read) == D!TryRESP(write, read)

Set == D!Command(<<<<"set">>, <<"k">>>>)
Request == D!HTTPRequest(<<"/users">>)
MCByte == {Set, Request}
MCAddrs == {NoAddr, "redis"}
MCInputs == {
    ConnectEvent(1, 3, "redis"), WriteEvent(1, 3, <<Set, Set>>, TRUE),
    ReadEvent(1, 3, <<Request>>, TRUE), CloseEvent(1, 3) }
=============================================================================
