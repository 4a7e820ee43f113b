--------------------------- MODULE MCReplayProxy ----------------------------
(* Two clients of a proxy with two recorded dependencies.                  *)
EXTENDS ReplayProxy

P == INSTANCE Proxy
MCDeps == << [type |-> "redis", request |-> <<"set", "k">>, response |-> <<"OK">>],
             [type |-> "redis", request |-> <<"get", "k">>, response |-> <<"(nil)">>] >>
MCReply(cmd) == P!ReplyTo(MCDeps, cmd)

MCCommands == { <<<<"GET">>, <<"k">>>>, <<<<"hello">>>> }
MCMalformed == { <<<<"+inline">>>> }
=============================================================================
