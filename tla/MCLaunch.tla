------------------------------ MODULE MCLaunch ------------------------------
(* The menu, then a command with one connection and a process it leaves    *)
(* behind with another.                                                    *)
EXTENDS Launch

P == INSTANCE Proxy
MCDeps == << [type |-> "redis", request |-> <<"set", "k">>, response |-> <<"OK">>],
             [type |-> "redis", request |-> <<"get", "k">>, response |-> <<"(nil)">>] >>
MCReply(cmd) == P!ReplyTo(MCDeps, cmd)

MCCommands == { <<<<"GET">>, <<"k">>>>, <<<<"hello">>>> }
MCMalformed == { <<<<"+inline">>>> }
=============================================================================
