------------------------------ MODULE Decoders ------------------------------
(***************************************************************************)
(* internal/decoder at the granularity of whole protocol messages.  Here a *)
(* "byte" of a captured stream is one complete message (or a piece that is *)
(* none, `junk'); what matters of the decoders to the rest of the system   *)
(* is which messages they find, in which role, and how they pair them.     *)
(*                                                                         *)
(* Text is a sequence of space-free tokens: "set k v" is <<"set","k","v">>,*)
(* so that joining words with spaces is concatenation, and forgets where   *)
(* one word ended.                                                         *)
(***************************************************************************)
EXTENDS Naturals, Sequences, SequencesExt

\* Messages: a RESP array, another RESP value, an HTTP request or response,
\* and bytes that are the start of none of these.
Command(words) == [t |-> "array", words |-> words]
Value(kind, text) == [t |-> "value", kind |-> kind, text |-> text]
HTTPRequest(path) == [t |-> "request", text |-> path]
HTTPResponse(status) == [t |-> "response", text |-> status]
Junk == [t |-> "junk"]

\* ParseRESPStream: the values up to the first thing that does not parse.
ParseRESPStream(buf) ==
    LET bad == {i \in DOMAIN buf : buf[i].t \notin {"array", "value"}}
    IN  IF bad = {} THEN buf ELSE SubSeq(buf, 1, Min(bad) - 1)

\* strings.ToUpper / ToLower on the tokens the models use.
Lower(token) ==
    CASE token = "GET" -> "get" [] token = "Hello" -> "hello" [] OTHER -> token
LowerText(text) == [i \in DOMAIN text |-> Lower(text[i])]

AdminCommands == {"hello", "client", "auth", "select", "ping"}

IsAdminCommand(word) == word # <<>> /\ Len(word) = 1 /\ Lower(word[1]) \in AdminCommands

\* RESPValue.String: the display form a reply is recorded in.
Display(v) ==
    CASE v.t = "array" -> <<"[]">> \o FlattenSeq(v.words)
      [] v.t = "value" /\ v.kind = "error" -> <<"(error)">> \o v.text
      [] v.t = "value" /\ v.kind = "integer" -> <<"(integer)">> \o v.text
      [] v.t = "value" /\ v.kind = "null" -> <<"(nil)">>
      [] OTHER -> v.text

\* EncodeReply: from the display form back to a value on the wire.
EncodeReply(display) ==
    CASE display = <<"(nil)">> -> Value("null", <<>>)
      [] Len(display) > 1 /\ display[1] = "(error)" -> Value("error", Tail(display))
      [] Len(display) > 1 /\ display[1] = "(integer)" -> Value("integer", Tail(display))
      [] OTHER -> Value("status", display)

\* TryRESP: commands and replies are paired by position, and administrative
\* commands are dropped after the pairing.  Empty when nothing is left.
MutTryRESPPairsAfterFilter(cmdBuf, replyBuf) ==
    LET cmds == ParseRESPStream(cmdBuf)
        replies == ParseRESPStream(replyBuf)
        kept == SelectSeq(cmds, LAMBDA c : c.words # <<>> /\ ~IsAdminCommand(c.words[1]))
    IN  IF \E i \in DOMAIN cmds : cmds[i].t # "array" THEN <<>>
        ELSE [i \in DOMAIN kept |->
                [command |-> kept[i].words,
                 reply |-> IF i <= Len(replies) THEN Display(replies[i]) ELSE <<"?">>]]
TryRESP(cmdBuf, replyBuf) ==
    LET cmds == ParseRESPStream(cmdBuf)
        replies == ParseRESPStream(replyBuf)
        dropped(i) == cmds[i].words = <<>> \/ IsAdminCommand(cmds[i].words[1])
        call(i) == [command |-> cmds[i].words,
                    reply |-> IF i <= Len(replies) THEN Display(replies[i]) ELSE <<"?">>]
    IN  IF \E i \in DOMAIN cmds : cmds[i].t # "array" THEN <<>>
        ELSE FlattenSeq([i \in DOMAIN cmds |-> IF dropped(i) THEN <<>> ELSE <<call(i)>>])

\* TryHTTP: a request at the start of the read side (a server), else of the
\* write side (a client); the response is looked for on the other side.
\* <<request, response>>, where <<>> stands for a side that did not parse.
TryHTTP(readBuf, writeBuf) ==
    LET first(buf, t) == IF Len(buf) > 0 /\ buf[1].t = t THEN buf[1].text ELSE <<>>
        fromRead == first(readBuf, "request") # <<>>
        req == IF fromRead THEN first(readBuf, "request") ELSE first(writeBuf, "request")
        resp == first(IF fromRead THEN writeBuf ELSE readBuf, "response")
    IN  IF req = <<>> /\ resp = <<>> THEN <<>> ELSE <<req, resp>>
=============================================================================
