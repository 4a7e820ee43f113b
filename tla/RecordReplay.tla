---------------------------- MODULE RecordReplay ----------------------------
(***************************************************************************)
(* The data path of the tool, end to end: the commands of some Redis       *)
(* connections and their replies are captured, decoded (TryRESP), recorded *)
(* (Build), and later served by the proxy to the same commands (p.reply).  *)
(*                                                                         *)
(* Capturing is lossy: an event that meets a full ring is lost, so is what *)
(* went over a connection before the trace began, and a payload is cut at  *)
(* DATA_CAP.  The application and Redis are environment: Redis answers the *)
(* commands of a connection in order, and recording may stop at any time.  *)
(***************************************************************************)
EXTENDS Proxy, Recorder, FiniteSets

CONSTANTS
    Conns,          \* the Redis connections
    Tokens,         \* the tokens texts are made of
    AppCommands,    \* commands the application may send: sequences of words
    RedisReplies(_),    \* values Redis may answer a command with
    MaxCommands,    \* bound: commands sent
    MaxDamaged      \* bound: messages that are not captured whole

\* What is left of a text after bytes in it were lost; no command has it.
Garbled == "garbled"

Replies == UNION {RedisReplies(words) : words \in AppCommands}

\* A text that reads as the display form of another kind of value.
LooksDisplayed(text) ==
    text = <<"(nil)">> \/ (Len(text) > 1 /\ text[1] \in {"(error)", "(integer)"})

\* Redis answers with values that are no arrays; an error has a message and
\* an integer a digit, and no string looks like the display form of these.
ASSUME RecordReplayAssumption ==
    /\ IsFiniteSet(Conns) /\ MaxCommands \in Nat /\ MaxDamaged \in Nat
    /\ AppCommands \subseteq Seq(Seq(Tokens))
    /\ \A words \in AppCommands : LowerText(FlattenSeq(words)) # <<Garbled>>
    /\ \A v \in Replies :
          /\ v = Value(v.kind, v.text) /\ v.text \in Seq(Tokens)
          /\ \/ v.kind \in {"bulk", "status"} /\ ~LooksDisplayed(v.text)
             \/ v.kind \in {"error", "integer"} /\ v.text # <<>>
             \/ v.kind = "null" /\ v.text = <<>>

VARIABLES
    phase,      \* "record", "stopped" or "replayed"
    sent,       \* per connection: by "write" and "read", the messages in order
    damage,     \* what capturing did to messages: damage[<<c, side, i>>]
    recording,  \* Build's test case, once recording has stopped
    replayed    \* the proxy's answers to the same commands

vars == <<phase, sent, damage, recording, replayed>>

Sides == {"write", "read"}

Init ==
    /\ phase = "record" /\ sent = [c \in Conns |-> [side \in Sides |-> <<>>]]
    /\ damage = [m \in {} |-> "lost"]
    /\ recording = Build(<<>>) /\ replayed = [c \in Conns |-> <<>>]

-----------------------------------------------------------------------------
(* The application and Redis.                                              *)

Sent == FoldSet(LAMBDA c, n : n + Len(sent[c]["write"]), 0, Conns)

AppSends(c, words) ==
    /\ phase = "record" /\ Sent < MaxCommands
    /\ sent' = [sent EXCEPT ![c]["write"] = Append(@, Command(words))]
    /\ UNCHANGED <<phase, damage, recording, replayed>>

RedisAnswers(c, v) ==
    /\ phase = "record" /\ Len(sent[c]["read"]) < Len(sent[c]["write"])
    /\ v \in RedisReplies(sent[c]["write"][Len(sent[c]["read"]) + 1].words)
    /\ sent' = [sent EXCEPT ![c]["read"] = Append(@, v)]
    /\ UNCHANGED <<phase, damage, recording, replayed>>

-----------------------------------------------------------------------------
(* Capturing.  A message is captured whole unless it is                    *)
(*   lost       nothing is left of it: it was not captured, or io.ReadFull *)
(*              took all of it for the end of the message before;          *)
(*   headless   what is left starts inside it, at one of its elements, and *)
(*              is a value of its own: its first event was lost, or only   *)
(*              its beginning was taken for the end of the message before; *)
(*   cut        what is left of it does not parse;                         *)
(*   garbled    its end is missing, and io.ReadFull took bytes of the next *)
(*              message for it.                                            *)

Faults == {"lost", "headless", "cut", "garbled"}
Messages == UNION {{<<c, side, i>> : i \in DOMAIN sent[c][side]} :
                      c \in Conns, side \in Sides}

\* What a message lacks was taken from the next one.
Consistent(dmg) ==
    \A m \in DOMAIN dmg : dmg[m] = "garbled" =>
        LET next == <<m[1], m[2], m[3] + 1>>
        IN  next \in DOMAIN dmg /\ dmg[next] # "garbled"

CapturedAs(m, fault) ==
    CASE fault = "lost" -> <<>>
      [] fault = "headless" -> << Value("bulk", <<Garbled>>) >>
      [] fault = "cut" -> << Junk >>
      [] OTHER -> << IF m.t = "array" THEN Command(<< <<Garbled>> >>)
                     ELSE Value("bulk", <<Garbled>>) >>

\* The buffer the streamer has of one side of a connection.
Buffer(msgs, c, side, dmg) ==
    FlattenSeq([i \in DOMAIN msgs |->
        IF <<c, side, i>> \in DOMAIN dmg THEN CapturedAs(msgs[i], dmg[<<c, side, i>>])
        ELSE << msgs[i] >>])

\* The exchanges of the session, in the order the connections are flushed:
\* the Redis connections TryRESP accepts (decode), and the HTTP request
\* under test.
Exchanges(traffic, order, dmg) ==
    LET calls(c) == TryRESP(Buffer(traffic[c]["write"], c, "write", dmg),
                            Buffer(traffic[c]["read"], c, "read", dmg))
        redis(c) == IF calls(c) = <<>> THEN <<>>
                    ELSE << [proto |-> "redis", content |-> calls(c)] >>
    IN  FlattenSeq([i \in DOMAIN order |-> redis(order[i])])
            \o << [proto |-> "http", content |-> << <<"/">>, <<"200">> >>] >>

\* Recording stops: the rest of recordCmd.
StopRecording(order, dmg) ==
    /\ phase = "record" /\ phase' = "stopped"
    /\ damage' = dmg /\ recording' = Build(Exchanges(sent, order, dmg))
    /\ UNCHANGED <<sent, replayed>>

\* The application, run again under `wiremark run', sends the same commands;
\* p.reply reads nothing but the test case, so their order is of no account.
Replay ==
    /\ phase = "stopped" /\ phase' = "replayed"
    /\ replayed' = [c \in Conns |-> [i \in DOMAIN sent[c]["write"] |->
                       ReplyTo(recording.dependencies, sent[c]["write"][i].words)]]
    /\ UNCHANGED <<sent, damage, recording>>

Terminated == phase = "replayed" /\ UNCHANGED vars

Next ==
    \/ \E c \in Conns, words \in AppCommands : AppSends(c, words)
    \/ \E c \in Conns, v \in Replies : RedisAnswers(c, v)
    \/ \E order \in SetToSeqs(Conns), n \in 0 .. MaxDamaged :
          \E hit \in kSubset(n, Messages) :
             \E dmg \in [hit -> Faults] : Consistent(dmg) /\ StopRecording(order, dmg)
    \/ Replay \/ Terminated

Spec == Init /\ [][Next]_vars

-----------------------------------------------------------------------------
(* Properties.                                                             *)

IsData(words) == words # <<>> /\ ~IsAdminCommand(words[1])
TextOf(words) == LowerText(FlattenSeq(words))

\* The data commands of connection c with the given text, and the first.
Places(c, text) == {i \in DOMAIN sent[c]["write"] :
    LET words == sent[c]["write"][i].words IN IsData(words) /\ TextOf(words) = text}
First(c, text) == Min(Places(c, text))
Carriers(text) == {c \in Conns : Places(c, text) # {}}

\* A reply as a client sees it: a bulk string comes back as a simple string.
AsReplayed(v) == IF v.kind = "bulk" THEN Value("status", v.text) ELSE v
ReplyAt(c, i) == IF i <= Len(sent[c]["read"]) THEN AsReplayed(sent[c]["read"][i])
                 ELSE Value("status", <<"?">>)

DamagedUpTo(c, i) == \E m \in DOMAIN damage : m[1] = c /\ m[3] <= i

\* A value that is no array among the commands that parse: TryRESP gives the
\* connection up, the commands before that value included.
Discarded(c) ==
    LET is(i, fault) == <<c, "write", i>> \in DOMAIN damage /\ damage[<<c, "write", i>>] = fault
    IN  \E i \in DOMAIN sent[c]["write"] :
            is(i, "headless") /\ \A j \in 1 .. i - 1 : ~is(j, "cut")

Answered(P(_, _, _)) ==
    \A c \in Conns : \A i \in DOMAIN replayed[c] :
        LET words == sent[c]["write"][i].words
        IN  IsData(words) => P(words, Carriers(TextOf(words)), replayed[c][i])

\* A data command gets on replay the reply that the first command of its text
\* got on its connection, or on one of its connections where there are
\* several (which one is flushed first is not determined), provided nothing
\* was lost or cut on these connections, in either direction, up to that
\* command.  Damage later on changes nothing, with one exception: where it
\* leaves a value that is no array among the commands, the connection counts
\* as if it had not been recorded, and a command that only such connections
\* carried is answered as unrecorded.  Administrative, repeated and
\* unanswered commands around it change nothing either: pairing by position,
\* filtering, joining, matching and encoding undo each other.
FirstReplyReproduced ==
    Answered(LAMBDA words, carriers, answer :
        LET first(c) == First(c, TextOf(words))
            kept == {c \in carriers : ~Discarded(c)}
        IN  (\A c \in kept : ~DamagedUpTo(c, first(c)))
                => answer \in IF kept = {} THEN {EncodeError("unrecorded")}
                              ELSE {ReplyAt(c, first(c)) : c \in kept})

\* Whatever is lost, damage stays on its connection: a data command is
\* answered with a reply some connection that carried its text did receive
\* (another command's, if the loss shifted them), with "?", with the garbled
\* text, or with the error for a command that was not recorded.
DamageStaysOnConnection ==
    Answered(LAMBDA words, carriers, answer :
        \/ answer \in {EncodeError("unrecorded"), Value("status", <<"?">>),
                       Value("status", <<Garbled>>)}
        \/ \E c \in carriers : \E i \in DOMAIN sent[c]["read"] : answer = ReplyAt(c, i))
=============================================================================
