---------------------------- MODULE ReplayProxy -----------------------------
(***************************************************************************)
(* internal/replay: the proxy that stands in for Redis.  Serve accepts     *)
(* connections and starts one goroutine for each; a handler reads a        *)
(* command and writes its reply until the connection ends; Close stops the *)
(* listener and waits for the handlers counted in the WaitGroup.           *)
(*                                                                         *)
(* A connection is named by its client.  The clients (the subprocess       *)
(* `wiremark run' starts), TCP and the listener's backlog are environment. *)
(***************************************************************************)
EXTENDS Naturals, Sequences, FiniteSets, SequencesExt

CONSTANTS
    Clients,        \* connections that may be made
    Commands,       \* what clients send: sequences of words
    Malformed,      \* what ReadCommand rejects: not an array of bulk strings
    Reply(_),       \* p.reply, as a function of the command
    MaxCommands     \* bound: commands sent on all connections together

ASSUME ProxyAssumption == MaxCommands \in Nat /\ IsFiniteSet(Clients)

VARIABLES
    listener,   \* "open" or "closed"
    backlog,    \* connections established and not accepted yet
    client,     \* the client's side: "idle", "open", "closed" or "reset"
    inbox,      \* what the client sent and the proxy has not read
    serve,      \* Serve: "accept", "add" (accepted, not counted yet), "returned"
    accepted,   \* the connection Serve has accepted and not handed over, if any
    wg,         \* the WaitGroup's counter
    handler,    \* handleConn: "none", "read", "reply", "closing", "returned"
    cur,        \* the command each handler is answering, at most one
    closer,     \* Close: "idle", "wait", "returned"
    sent,       \* history: what each client sent
    got,        \* history: what was written to each client
    inFlight    \* history: the handlers running when Close began to wait

clientVars == <<client, sent>>
handlerVars == <<handler, cur, got>>
vars == <<listener, backlog, client, inbox, serve, accepted, wg, handler, cur,
          closer, sent, got, inFlight>>

Live(c) == handler[c] \in {"read", "reply", "closing"}

Init ==
    /\ listener = "open" /\ backlog = <<>> /\ serve = "accept" /\ accepted = <<>>
    /\ client = [c \in Clients |-> "idle"] /\ inbox = [c \in Clients |-> <<>>]
    /\ wg = 0 /\ handler = [c \in Clients |-> "none"] /\ cur = [c \in Clients |-> <<>>]
    /\ closer = "idle" /\ inFlight = {}
    /\ sent = [c \in Clients |-> <<>>] /\ got = [c \in Clients |-> <<>>]

-----------------------------------------------------------------------------
(* Serve.                                                                  *)

MutAcceptSerial ==
    /\ serve = "accept" /\ listener = "open" /\ backlog # <<>> /\ \A c \in Clients : ~Live(c)
    /\ accepted' = <<Head(backlog)>> /\ backlog' = Tail(backlog) /\ serve' = "add"
    /\ UNCHANGED <<listener, clientVars, inbox, wg, handlerVars, closer, inFlight>>
Accept ==
    /\ serve = "accept" /\ listener = "open" /\ backlog # <<>>
    /\ accepted' = <<Head(backlog)>> /\ backlog' = Tail(backlog) /\ serve' = "add"
    /\ UNCHANGED <<listener, clientVars, inbox, wg, handlerVars, closer, inFlight>>

\* ln.Accept fails once the listener is closed.
AcceptFails ==
    /\ serve = "accept" /\ listener = "closed"
    /\ serve' = "returned"
    /\ UNCHANGED <<listener, backlog, clientVars, inbox, accepted, wg, handlerVars, closer,
                   inFlight>>

\* p.wg.Add(1); go func() { ... }()
MutStartHandlerUncounted ==
    /\ serve = "add"
    /\ handler' = [handler EXCEPT ![accepted[1]] = "read"]
    /\ accepted' = <<>> /\ serve' = "accept"
    /\ UNCHANGED <<listener, backlog, clientVars, inbox, wg, cur, got, closer, inFlight>>
StartHandler ==
    /\ serve = "add"
    /\ wg' = wg + 1
    /\ handler' = [handler EXCEPT ![accepted[1]] = "read"]
    /\ accepted' = <<>> /\ serve' = "accept"
    /\ UNCHANGED <<listener, backlog, clientVars, inbox, cur, got, closer, inFlight>>

-----------------------------------------------------------------------------
(* handleConn.                                                             *)

\* decoder.ReadCommand takes one command and leaves the rest in the reader.
MutReadCommandDropsRest(c) ==
    /\ handler[c] = "read" /\ inbox[c] # <<>> /\ Head(inbox[c]) \notin Malformed
    /\ cur' = [cur EXCEPT ![c] = <<Last(inbox[c])>>]
    /\ inbox' = [inbox EXCEPT ![c] = <<>>]
    /\ handler' = [handler EXCEPT ![c] = "reply"]
    /\ UNCHANGED <<listener, backlog, clientVars, serve, accepted, wg, got, closer, inFlight>>
ReadCommand(c) ==
    /\ handler[c] = "read" /\ inbox[c] # <<>> /\ Head(inbox[c]) \notin Malformed
    /\ cur' = [cur EXCEPT ![c] = <<Head(inbox[c])>>]
    /\ inbox' = [inbox EXCEPT ![c] = Tail(@)]
    /\ handler' = [handler EXCEPT ![c] = "reply"]
    /\ UNCHANGED <<listener, backlog, clientVars, serve, accepted, wg, got, closer, inFlight>>

\* ReadCommand fails: end of stream, a lost connection or a malformed command.
MutReadFailsRetries(c) ==
    /\ handler[c] = "read"
    /\ \/ inbox[c] = <<>> /\ client[c] = "closed"
       \/ inbox[c] # <<>> /\ Head(inbox[c]) \in Malformed
    /\ UNCHANGED vars
ReadFails(c) ==
    /\ handler[c] = "read"
    /\ \/ inbox[c] = <<>> /\ client[c] = "closed"
       \/ inbox[c] # <<>> /\ Head(inbox[c]) \in Malformed
    /\ handler' = [handler EXCEPT ![c] = "closing"]
    /\ UNCHANGED <<listener, backlog, clientVars, inbox, serve, accepted, wg, cur, got, closer,
                   inFlight>>

\* conn.Write(p.reply(cmd)); it fails only towards a client that has gone.
WriteReply(c) ==
    /\ handler[c] = "reply"
    /\ got' = [got EXCEPT ![c] = Append(@, Reply(cur[c][1]))]
    /\ cur' = [cur EXCEPT ![c] = <<>>]
    /\ handler' = [handler EXCEPT ![c] = "read"]
    /\ UNCHANGED <<listener, backlog, clientVars, inbox, serve, accepted, wg, closer, inFlight>>

WriteFails(c) ==
    /\ handler[c] = "reply" /\ client[c] = "closed"
    /\ cur' = [cur EXCEPT ![c] = <<>>]
    /\ handler' = [handler EXCEPT ![c] = "closing"]
    /\ UNCHANGED <<listener, backlog, clientVars, inbox, serve, accepted, wg, got, closer,
                   inFlight>>

\* The deferred conn.Close() and wg.Done().
MutHandlerReturnsTwiceDone(c) ==
    /\ handler[c] = "closing"
    /\ handler' = [handler EXCEPT ![c] = "returned"] /\ wg' = wg - 2
    /\ client' = [client EXCEPT ![c] = IF @ = "open" THEN "reset" ELSE @]
    /\ UNCHANGED <<listener, backlog, sent, inbox, serve, accepted, cur, got, closer, inFlight>>
HandlerReturns(c) ==
    /\ handler[c] = "closing"
    /\ handler' = [handler EXCEPT ![c] = "returned"] /\ wg' = wg - 1
    /\ client' = [client EXCEPT ![c] = IF @ = "open" THEN "reset" ELSE @]
    /\ UNCHANGED <<listener, backlog, sent, inbox, serve, accepted, cur, got, closer, inFlight>>

Handler(c) ==
    ReadCommand(c) \/ ReadFails(c) \/ WriteReply(c) \/ WriteFails(c) \/ HandlerReturns(c)

-----------------------------------------------------------------------------
(* Close.                                                                  *)

\* p.ln.Close(): connections still in the backlog are reset.
CloseListener ==
    /\ closer = "idle"
    /\ listener' = "closed" /\ backlog' = <<>>
    /\ client' = [c \in Clients |-> IF c \in ToSet(backlog) /\ client[c] = "open"
                                    THEN "reset" ELSE client[c]]
    /\ closer' = "wait" /\ inFlight' = {c \in Clients : Live(c)}
    /\ UNCHANGED <<sent, inbox, serve, accepted, wg, handlerVars>>

\* p.wg.Wait() returns.
MutWaitReturnsAtOnce ==
    /\ closer = "wait"
    /\ closer' = "returned"
    /\ UNCHANGED <<listener, backlog, clientVars, inbox, serve, accepted, wg, handlerVars, inFlight>>
WaitReturns ==
    /\ closer = "wait" /\ wg = 0
    /\ closer' = "returned"
    /\ UNCHANGED <<listener, backlog, clientVars, inbox, serve, accepted, wg, handlerVars, inFlight>>

-----------------------------------------------------------------------------
(* The clients.                                                            *)

Connect(c) ==
    /\ client[c] = "idle" /\ listener = "open"
    /\ client' = [client EXCEPT ![c] = "open"] /\ backlog' = Append(backlog, c)
    /\ UNCHANGED <<listener, sent, inbox, serve, accepted, wg, handlerVars, closer, inFlight>>

\* Commands may be sent before the connection is accepted, and pipelined.
SendCommand(c, cmd) ==
    /\ client[c] = "open"
    /\ FoldSet(LAMBDA x, n : n + Len(sent[x]), 0, Clients) < MaxCommands
    /\ sent' = [sent EXCEPT ![c] = Append(@, cmd)]
    /\ inbox' = [inbox EXCEPT ![c] = Append(@, cmd)]
    /\ UNCHANGED <<listener, backlog, client, serve, accepted, wg, handlerVars, closer, inFlight>>

Disconnect(c) ==
    /\ client[c] = "open"
    /\ client' = [client EXCEPT ![c] = "closed"]
    /\ UNCHANGED <<listener, backlog, sent, inbox, serve, accepted, wg, handlerVars, closer,
                   inFlight>>

\* Close has returned, and nothing is left of what it did not wait for.
Terminated ==
    /\ closer = "returned" /\ serve = "returned" /\ wg = 0
    /\ UNCHANGED vars

Serving == Accept \/ AcceptFails \/ StartHandler

Next ==
    \/ Serving \/ CloseListener \/ WaitReturns
    \/ \E c \in Clients :
          \/ Handler(c) \/ Connect(c) \/ Disconnect(c)
          \/ \E cmd \in Commands \cup Malformed : SendCommand(c, cmd)
    \/ Terminated

\* The proxy's goroutines run whenever they can; clients do as they please.
Fairness ==
    /\ WF_vars(Serving) /\ WF_vars(WaitReturns)
    /\ \A c \in Clients : WF_vars(Handler(c))

Spec == Init /\ [][Next]_vars /\ Fairness

-----------------------------------------------------------------------------
(* Properties.                                                             *)

Types ==
    /\ listener \in {"open", "closed"} /\ backlog \in Seq(Clients)
    /\ client \in [Clients -> {"idle", "open", "closed", "reset"}]
    /\ handler \in [Clients -> {"none", "read", "reply", "closing", "returned"}]
    /\ serve \in {"accept", "add", "returned"}
    /\ accepted \in Seq(Clients) /\ Len(accepted) = (IF serve = "add" THEN 1 ELSE 0)
    /\ closer \in {"idle", "wait", "returned"} /\ inFlight \subseteq Clients
    /\ wg \in Nat
    /\ inbox \in [Clients -> Seq(Commands \cup Malformed)]
    /\ sent \in [Clients -> Seq(Commands \cup Malformed)]
    /\ cur \in [Clients -> Seq(Commands)] /\ DOMAIN got = Clients
    /\ \A c \in Clients : Len(cur[c]) = (IF handler[c] = "reply" THEN 1 ELSE 0)

InOnePlace ==
    /\ \A i, j \in DOMAIN backlog : backlog[i] = backlog[j] => i = j
    /\ \A c \in Clients :
          client[c] = "idle" \/ c \in ToSet(backlog) \/ c \in ToSet(accepted)
             => handler[c] = "none"
    /\ \A c \in ToSet(backlog) : client[c] # "idle" /\ c \notin ToSet(accepted)
    /\ \A c \in ToSet(accepted) : client[c] # "idle"

\* Every variable has its type, and a connection is in at most one of the
\* backlog, Serve's hands and a handler's.
TypeOK == Types /\ InOnePlace

\* The WaitGroup counts exactly the handlers that have not returned, so that
\* it cannot go negative (a panic) and Close waits for every one of them.
WgCountsHandlers == wg = Cardinality({c \in Clients : Live(c)})

\* On every connection the i-th reply is the reply to the i-th command:
\* nothing is skipped, duplicated, or answered out of turn or on another
\* connection, however commands are pipelined.
RepliesInOrder ==
    \A c \in Clients :
        /\ Len(got[c]) <= Len(sent[c])
        /\ \A i \in DOMAIN got[c] : got[c][i] = Reply(sent[c][i])
        /\ client[c] = "open" /\ Live(c) /\ handler[c] # "closing" =>
              Len(sent[c]) = Len(got[c]) + Len(cur[c]) + Len(inbox[c])

\* Close returns only after every handler that was running when it began to
\* wait has finished.
CloseWaitsForRunning ==
    closer = "returned" => \A c \in inFlight : handler[c] = "returned"

\* "Close ... waits for in-flight ones to finish": when it has returned, no
\* accepted connection is still to be served.
CloseWaitsForAll ==
    closer = "returned" => serve # "add" /\ \A c \in Clients : ~Live(c)
=============================================================================
