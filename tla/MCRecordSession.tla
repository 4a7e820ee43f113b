-------------------------- MODULE MCRecordSession ---------------------------
(* A session that traces one HTTP request (fd 4) and the Redis commands it *)
(* causes on two connections (fds 3 and 5); a byte is a whole message.     *)
EXTENDS RecordSession

D == INSTANCE Decoders
MCDecodeHTTP(read, write) == D!TryHTTP(read, write)
MCDecodeRESP(write, read) == D!TryRESP(write, read)

SetA == D!Command(<<<<"set">>, <<"a">>>>)
SetB == D!Command(<<<<"set">>, <<"b">>>>)
Reply == D!Value("status", <<"OK">>)
Request == D!HTTPRequest(<<"/users">>)
MCByte == {SetA, SetB, Reply, Request}

MCInputs == { ReadEvent(1, 4, <<Request>>, TRUE), WriteEvent(1, 3, <<SetA>>, TRUE),
              ReadEvent(1, 3, <<Reply>>, TRUE), CloseEvent(1, 3) }
MCGarbled == { [WriteEvent(1, 3, <<>>, TRUE) EXCEPT !.total = 1] }

\* One request and one command on each of two connections.
MCTwoConnections == { ReadEvent(1, 4, <<Request>>, TRUE), WriteEvent(1, 3, <<SetA>>, TRUE),
                      WriteEvent(1, 5, <<SetB>>, TRUE) }
MCNoGarbled == {}
=============================================================================
