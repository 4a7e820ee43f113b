----------------------------- MODULE MCStreamer -----------------------------
(* Streamer on small instances: two fds and one SSL* that is numerically   *)
(* equal to an fd; a byte is a whole protocol message (see Decoders).      *)
EXTENDS Streamer

D == INSTANCE Decoders
MCDecodeHTTP(read, write) == D!TryHTTP(read, write)
MCDecodeRESP(write, read) == D!TryRESP(write, read)

Set == D!Command(<<<<"set">>, <<"k">>>>)
Reply == D!Value("status", <<"OK">>)
Request == D!HTTPRequest(<<"/users">>)
MCByte == {Set, Reply, Request, D!Junk}

MCInputs == {
    ConnectEvent(1, 3, "redis"),
    WriteEvent(1, 3, <<Set>>, TRUE),
    WriteEvent(1, 3, <<Set, Set, Set, Set>>, TRUE),   \* longer than DataCap
    ReadEvent(1, 3, <<Reply>>, TRUE),
    ReadEvent(1, 3, <<Reply>>, FALSE),                \* its page cannot be read
    ReadEvent(1, 4, <<Request>>, TRUE),
    SSLWriteEvent(1, 3, <<Set>>, TRUE),
    CloseEvent(1, 3),
    CloseEvent(1, 4) }
=============================================================================
