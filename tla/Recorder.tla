------------------------------ MODULE Recorder ------------------------------
(***************************************************************************)
(* internal/recorder: a test case from the exchanges of a session.  The    *)
(* first HTTP exchange is the request under test; every Redis call of      *)
(* every exchange is a dependency.                                         *)
(***************************************************************************)
EXTENDS Naturals, Sequences, SequencesExt

\* One Dependency; its request is the command's words joined with spaces.
DependencyOf(call) ==
    [type |-> "redis", request |-> FlattenSeq(call.command), response |-> call.reply]

CallsOf(exchanges) ==
    FlattenSeq([i \in DOMAIN exchanges |->
        IF exchanges[i].proto = "redis" THEN exchanges[i].content ELSE <<>>])

\* Build: ok is FALSE, and the caller gets an error, without an HTTP exchange.
Build(exchanges) ==
    LET http == {i \in DOMAIN exchanges : exchanges[i].proto = "http"}
        calls == CallsOf(exchanges)
    IN  [ok |-> http # {},
         request |-> IF http = {} THEN <<>> ELSE exchanges[Min(http)].content[1],
         response |-> IF http = {} THEN <<>> ELSE exchanges[Min(http)].content[2],
         dependencies |-> [i \in DOMAIN calls |-> DependencyOf(calls[i])]]
=============================================================================
