------------------------------- MODULE Proxy --------------------------------
(* p.reply: what the proxy answers to one command, given the dependencies. *)
EXTENDS Decoders

\* Errors are told apart by their cause, not by their wording.
EncodeError(cause) == Value("error", <<cause>>)

\* The first dependency whose text equals the command's, whatever the case.
MutReplyFallsBack(deps, cmd) ==
    LET want == LowerText(FlattenSeq(cmd))
        match == {i \in DOMAIN deps : LowerText(deps[i].request) = want}
    IN  IF cmd = <<>> THEN EncodeError("empty")
        ELSE IF IsAdminCommand(cmd[1]) THEN EncodeError("unknown")
        ELSE IF match = {} /\ deps # <<>> THEN EncodeReply(deps[1].response)
        ELSE IF match = {} THEN EncodeError("unrecorded")
        ELSE EncodeReply(deps[Min(match)].response)
ReplyTo(deps, cmd) ==
    LET want == LowerText(FlattenSeq(cmd))
        match == {i \in DOMAIN deps : LowerText(deps[i].request) = want}
    IN  IF cmd = <<>> THEN EncodeError("empty")
        ELSE IF IsAdminCommand(cmd[1]) THEN EncodeError("unknown")
        ELSE IF match = {} THEN EncodeError("unrecorded")
        ELSE EncodeReply(deps[Min(match)].response)
=============================================================================
