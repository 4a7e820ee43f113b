------------------------------ MODULE Streamer ------------------------------
(***************************************************************************)
(* internal/streamer: one goroutine that receives every event, forwards it *)
(* on `raw', appends its payload to the buffers of its connection, and     *)
(* decodes a connection when it is closed or, for the ones never closed,   *)
(* when the event stream ends.                                             *)
(*                                                                         *)
(* Blocking operations (the receive from `events', the sends on `raw' and  *)
(* `out', the two deferred closes) are separate steps; what the goroutine  *)
(* does between two of them touches only its own memory and happens in the *)
(* step of the first.  The decoders are parameters that return the decoded *)
(* content as a sequence, empty when the bytes were not recognised: the    *)
(* streamer is checked, and proved about, whatever they accept.            *)
(***************************************************************************)
EXTENDS Channels, Events, FiniteSets, SequencesExt

CONSTANTS
    Byte,           \* the bytes of payloads
    Inputs,         \* the events that can arrive
    DecodeHTTP(_, _),  \* decoder.TryHTTP(readBuf, writeBuf)
    DecodeRESP(_, _),  \* decoder.TryRESP(cmdBuf, replyBuf)
    BufCap,         \* bufCap: bytes kept per connection and direction
    EventsCap,      \* capacity of the incoming channel
    RawCap,         \* capacity of raw
    OutCap,         \* capacity of out
    MaxEvents       \* bound: number of events that ever arrive

ASSUME StreamerAssumption ==
    /\ BufCap \in Nat /\ EventsCap \in Nat /\ RawCap \in Nat \ {0}
    /\ OutCap \in Nat \ {0} /\ MaxEvents \in Nat
    /\ \A ev \in Inputs :
          /\ ev.op \in Ops /\ ev.pid \in Nat /\ ev.fd \in Int /\ ev.ssl \in Nat
          /\ -FdSpan <= 2 * ev.fd /\ 2 * ev.fd < FdSpan       \* an int32
          /\ ev.total \in Nat /\ ev.data \in Seq(Byte)

VARIABLES
    events,     \* the channel the goroutine ranges over
    raw,        \* rawOut
    out,        \* exchanges
    pc,         \* where the goroutine blocks
    cur,        \* the event of this iteration, as a sequence of at most one
    bufs,       \* map[key]*connBufs
    todo,       \* keys the final `range bufs' has still to visit
    sent,       \* environment, history: everything ever sent on events
    rawTaken,   \* environment, history: everything received from raw
    outTaken    \* environment, history: everything received from out

localVars == <<pc, cur, bufs, todo>>
vars == <<events, raw, out, pc, cur, bufs, todo, sent, rawTaken, outTaken>>

-----------------------------------------------------------------------------
(* Pure parts.                                                             *)

ReadOps == {"read", "ssl_read"}
WriteOps == {"write", "ssl_write"}

\* The connection an event belongs to.  The kind keeps an fd and an SSL*
\* that happen to be the same number apart.
MutKeyOfIgnoresKind(ev) ==
    [pid |-> ev.pid, kind |-> "fd",
     id |-> IF ev.op \in {"ssl_read", "ssl_write"} THEN ev.ssl ELSE WidenFd(ev.fd)]
KeyOf(ev) ==
    IF ev.op \in {"ssl_read", "ssl_write"}
    THEN [pid |-> ev.pid, kind |-> "tls", id |-> ev.ssl]
    ELSE [pid |-> ev.pid, kind |-> "fd", id |-> WidenFd(ev.fd)]

Keys == [pid : Nat, kind : {"fd", "tls"}, id : Nat]

NewBufs == [read |-> <<>>, write |-> <<>>, truncated |-> FALSE]

\* Room is what is left below bufCap; what does not fit is dropped.
MutAppendCappedByEvent(dst, add) ==
    IF Len(dst) >= BufCap THEN dst ELSE dst \o add
AppendCapped(dst, add) ==
    LET room == BufCap - Len(dst)
    IN  IF room <= 0 THEN dst
        ELSE dst \o (IF Len(add) > room THEN SubSeq(add, 1, room) ELSE add)

\* bufs[k], created on first use.
Get(k) == IF k \in DOMAIN bufs THEN bufs[k] ELSE NewBufs

Put(k, b) == [x \in DOMAIN bufs \cup {k} |-> IF x = k THEN b ELSE bufs[x]]

Delete(k) == [x \in DOMAIN bufs \ {k} |-> bufs[x]]

\* decode: HTTP first, then RESP with write = command and read = reply.
\* The content is empty when neither recognised the bytes.
Decode(pid, fd, b) ==
    LET http == DecodeHTTP(b.read, b.write)
    IN  IF http # <<>>
        THEN [pid |-> pid, fd |-> fd, proto |-> "http", content |-> http,
              truncated |-> b.truncated]
        ELSE [pid |-> pid, fd |-> fd, proto |-> "redis",
              content |-> DecodeRESP(b.write, b.read), truncated |-> b.truncated]

Decoded(ex) == ex.content # <<>>

\* The exchange the final flush makes of a connection.
FlushExchange(k) ==
    Decode(k.pid, IF k.kind = "fd" THEN NarrowFd(k.id) ELSE -1, bufs[k])

-----------------------------------------------------------------------------
(* The goroutine.                                                          *)

Init ==
    /\ events = MakeChan /\ raw = MakeChan /\ out = MakeChan
    /\ pc = "recv" /\ cur = <<>>
    /\ bufs = [k \in {} |-> NewBufs] /\ todo = {}
    /\ sent = <<>> /\ rawTaken = <<>> /\ outTaken = <<>>

\* for ev := range events
Recv ==
    /\ pc = "recv" /\ HasValue(events)
    /\ cur' = <<Head(events.buf)>>
    /\ events' = Receive(events)
    /\ pc' = "raw"
    /\ UNCHANGED <<raw, out, bufs, todo>>

\* raw <- ev: what every iteration does first, whatever the event.
MutPassRawDropsWhenFull ==
    /\ pc = "raw"
    /\ raw' = IF HasRoom(raw, RawCap) THEN Send(raw, cur[1]) ELSE raw
    /\ UNCHANGED <<events, out, todo>>
PassRaw ==
    /\ pc = "raw" /\ HasRoom(raw, RawCap)
    /\ raw' = Send(raw, cur[1])
    /\ UNCHANGED <<events, out, todo>>

NextIteration == pc' = "recv" /\ cur' = <<>>

HandleConnect ==
    /\ PassRaw
    /\ cur[1].op = "connect"
    /\ NextIteration
    /\ UNCHANGED bufs

\* The buffers of the connection after a read or a write event.
Buffered(b, ev) ==
    [read |-> IF ev.op \in ReadOps THEN AppendCapped(b.read, Payload(ev)) ELSE b.read,
     write |-> IF ev.op \in WriteOps THEN AppendCapped(b.write, Payload(ev)) ELSE b.write,
     truncated |-> b.truncated \/ Truncated(ev)]

HandleData ==
    /\ PassRaw
    /\ cur[1].op \in ReadOps \cup WriteOps
    /\ LET k == KeyOf(cur[1]) IN bufs' = Put(k, Buffered(Get(k), cur[1]))
    /\ NextIteration

\* A close of a connection whose bytes decode blocks on out before the
\* buffers are deleted; any other close goes on at once.
HandleClose ==
    /\ PassRaw
    /\ cur[1].op = "close"
    /\ LET k == KeyOf(cur[1])
           ex == Decode(cur[1].pid, cur[1].fd, bufs[k])
       IN  IF k \in DOMAIN bufs /\ Decoded(ex)
           THEN pc' = "out" /\ UNCHANGED <<cur, bufs>>
           ELSE NextIteration /\ bufs' = Delete(k)

\* out <- ex; delete(bufs, k)
SendExchange ==
    /\ pc = "out" /\ HasRoom(out, OutCap)
    /\ LET k == KeyOf(cur[1]) IN
         /\ out' = Send(out, Decode(cur[1].pid, cur[1].fd, bufs[k]))
         /\ bufs' = Delete(k)
    /\ NextIteration
    /\ UNCHANGED <<events, raw, todo>>

\* The range over events ends; the range over the map bufs begins.
EndOfEvents ==
    /\ pc = "recv" /\ Drained(events)
    /\ pc' = "flush" /\ todo' = DOMAIN bufs
    /\ UNCHANGED <<events, raw, out, cur, bufs>>

\* One iteration of the range over bufs.  Go visits a map in no fixed order.
MutFlushOneSendsUndecoded(k) ==
    /\ pc = "flush" /\ k \in todo
    /\ HasRoom(out, OutCap) /\ out' = Send(out, FlushExchange(k))
    /\ todo' = todo \ {k}
    /\ UNCHANGED <<events, raw, pc, cur, bufs>>
MutFlushOneDropsWhenFull(k) ==
    /\ pc = "flush" /\ k \in todo
    /\ IF Decoded(FlushExchange(k)) /\ HasRoom(out, OutCap)
       THEN out' = Send(out, FlushExchange(k))
       ELSE UNCHANGED out
    /\ todo' = todo \ {k}
    /\ UNCHANGED <<events, raw, pc, cur, bufs>>
FlushOne(k) ==
    /\ pc = "flush" /\ k \in todo
    /\ IF Decoded(FlushExchange(k))
       THEN HasRoom(out, OutCap) /\ out' = Send(out, FlushExchange(k))
       ELSE UNCHANGED out
    /\ todo' = todo \ {k}
    /\ UNCHANGED <<events, raw, pc, cur, bufs>>

\* The deferred calls run in reverse order: close(out), then close(raw).
CloseOut ==
    /\ pc = "flush" /\ todo = {}
    /\ out' = CloseChan(out) /\ pc' = "closeraw"
    /\ UNCHANGED <<events, raw, cur, bufs, todo>>

MutCloseRawForgotten ==
    /\ pc = "closeraw"
    /\ pc' = "done"
    /\ UNCHANGED <<events, raw, out, cur, bufs, todo>>
CloseRaw ==
    /\ pc = "closeraw"
    /\ raw' = CloseChan(raw) /\ pc' = "done"
    /\ UNCHANGED <<events, out, cur, bufs, todo>>

Goroutine ==
    \/ Recv \/ HandleConnect \/ HandleData \/ HandleClose \/ SendExchange
    \/ EndOfEvents \/ (\E k \in todo : FlushOne(k)) \/ CloseOut \/ CloseRaw

-----------------------------------------------------------------------------
(* The environment: whoever feeds events (the collector or the correlator) *)
(* and whoever receives from the two outputs (the TUI's tabs).             *)

Arrive(ev) ==
    /\ ~events.closed /\ HasRoom(events, EventsCap) /\ Len(sent) < MaxEvents
    /\ events' = Send(events, ev) /\ sent' = Append(sent, ev)
    /\ UNCHANGED <<raw, out, localVars, rawTaken, outTaken>>

EventsEnd ==
    /\ ~events.closed
    /\ events' = CloseChan(events)
    /\ UNCHANGED <<raw, out, localVars, sent, rawTaken, outTaken>>

TakeRaw ==
    /\ HasValue(raw)
    /\ rawTaken' = Append(rawTaken, Head(raw.buf)) /\ raw' = Receive(raw)
    /\ UNCHANGED <<events, out, localVars, sent, outTaken>>

TakeOut ==
    /\ HasValue(out)
    /\ outTaken' = Append(outTaken, Head(out.buf)) /\ out' = Receive(out)
    /\ UNCHANGED <<events, raw, localVars, sent, rawTaken>>

\* Nothing is left to happen: the goroutine has returned and been drained.
Terminated ==
    /\ pc = "done" /\ ~HasValue(raw) /\ ~HasValue(out)
    /\ UNCHANGED vars

Next ==
    \/ Goroutine /\ UNCHANGED <<sent, rawTaken, outTaken>>
    \/ \E ev \in Inputs : Arrive(ev)
    \/ EventsEnd \/ TakeRaw \/ TakeOut
    \/ Terminated

\* The Go scheduler runs every goroutine that can run; consumers keep
\* receiving.  Whether and when the input ends is the environment's choice.
Fairness ==
    /\ WF_vars(Goroutine /\ UNCHANGED <<sent, rawTaken, outTaken>>)
    /\ WF_vars(TakeRaw) /\ WF_vars(TakeOut)

Spec == Init /\ [][Next]_vars /\ Fairness

-----------------------------------------------------------------------------
(* What the buffers and the exchanges must be, from the events alone.      *)

Passed == rawTaken \o raw.buf
Emitted == outTaken \o out.buf

\* The events whose effect on bufs is complete: at "out" the close has been
\* forwarded but its connection is not deleted yet.
Applied == IF pc = "out" THEN Front(Passed) ELSE Passed

\* What an event is about in the traced process, whatever key it is filed
\* under: an SSL object, or an open file descriptor.
Endpoint(ev) ==
    IF ev.op \in {"ssl_read", "ssl_write"} THEN <<ev.pid, "SSL*", ev.ssl>>
    ELSE <<ev.pid, "fd", ev.fd>>

\* The reads and writes of e in h that follow its last close: their indices.
Lifetime(h, e) ==
    {i \in DOMAIN h :
        /\ h[i].op \in ReadOps \cup WriteOps /\ Endpoint(h[i]) = e
        /\ \A j \in DOMAIN h : j > i => ~(h[j].op = "close" /\ Endpoint(h[j]) = e)}

\* The bytes they captured in one direction.
Stream(h, e, ops) ==
    LET calls == Lifetime(h, e)
    IN  FlattenSeq([i \in DOMAIN h |->
                      IF i \in calls /\ h[i].op \in ops THEN Payload(h[i]) ELSE <<>>])

Capped(s) == SubSeq(s, 1, IF Len(s) > BufCap THEN BufCap ELSE Len(s))

BufsOf(h, e) ==
    [read |-> Capped(Stream(h, e, ReadOps)), write |-> Capped(Stream(h, e, WriteOps)),
     truncated |-> \E i \in Lifetime(h, e) : Truncated(h[i])]

\* The exchange a close is responsible for, if any.
ExchangeOfClose(h, ev) == Decode(ev.pid, ev.fd, BufsOf(h, Endpoint(ev)))

Due(h, ev) ==
    ev.op = "close" /\ Lifetime(h, Endpoint(ev)) # {} /\ Decoded(ExchangeOfClose(h, ev))

\* The exchanges closes are responsible for, in the order of the closes.
CloseExchanges(h) ==
    FlattenSeq([i \in DOMAIN h |->
                  LET before == SubSeq(h, 1, i - 1) IN
                  IF Due(before, h[i]) THEN <<ExchangeOfClose(before, h[i])>> ELSE <<>>])

-----------------------------------------------------------------------------
(* Properties.                                                             *)

BufsType == [read : Seq(Byte), write : Seq(Byte), truncated : BOOLEAN]

\* Every variable has its type, no channel exceeds its capacity and neither
\* direction of any connection its cap (bufCap), the goroutine holds an event
\* exactly between receiving it and finishing its iteration, and only what a
\* decoder recognised is sent on out.
TypeOK ==
    /\ events \in ChanOf(Inputs) /\ Len(events.buf) <= EventsCap
    /\ raw \in ChanOf(Inputs) /\ Len(raw.buf) <= RawCap
    /\ out \in ChanOf(ToSet(out.buf)) /\ Len(out.buf) <= OutCap
    /\ \A i \in DOMAIN out.buf : Decoded(out.buf[i])
    /\ pc = "out" => Decoded(Decode(cur[1].pid, cur[1].fd, bufs[KeyOf(cur[1])]))
    /\ pc \in {"recv", "raw", "out", "flush", "closeraw", "done"}
    /\ cur \in Seq(Inputs) /\ Len(cur) = (IF pc \in {"raw", "out"} THEN 1 ELSE 0)
    /\ DOMAIN bufs \subseteq Keys
    /\ \A k \in DOMAIN bufs :
          /\ bufs[k] \in BufsType
          /\ Len(bufs[k].read) <= BufCap /\ Len(bufs[k].write) <= BufCap
    /\ todo \subseteq DOMAIN bufs /\ (pc # "flush" => todo = {})
    /\ sent \in Seq(Inputs) /\ rawTaken \in Seq(Inputs)

\* rawOut passes every event through unchanged: nothing is lost, duplicated
\* or reordered between the input and the raw output, whatever blocks when.
RawIsPassThrough ==
    sent = Passed \o (IF pc = "raw" THEN cur ELSE <<>>) \o events.buf

\* The raw path implements the abstract relay: the channels and the event in
\* hand are its queue, and everything put in is taken in the end.
Pending == raw.buf \o (IF pc = "raw" THEN cur ELSE <<>>) \o events.buf
Stage == INSTANCE Relay WITH
            Values <- Inputs, pending <- Pending, taken <- rawTaken, ended <- events.closed
IsRelay == Stage!Spec

\* A connection's buffers hold exactly the captured bytes, up to bufCap, of
\* the reads and writes since the last close of that fd: an fd that is
\* reused starts afresh, and an fd and an SSL* of the same value stay apart.
BufsMatchHistory ==
    LET live == {i \in DOMAIN Applied : i \in Lifetime(Applied, Endpoint(Applied[i]))}
    IN  /\ \A k \in DOMAIN bufs : \E i \in live : KeyOf(Applied[i]) = k
        /\ \A i \in live :
              /\ KeyOf(Applied[i]) \in DOMAIN bufs
              /\ bufs[KeyOf(Applied[i])] = BufsOf(Applied, Endpoint(Applied[i]))

\* Every connection lifetime whose bytes decode yields exactly one exchange:
\* closed ones in the order of the closes, the others once each in the flush.
ExchangesMatchHistory ==
    LET byClose == CloseExchanges(Applied)
        visited == IF pc \in {"flush", "closeraw", "done"}
                   THEN {k \in DOMAIN bufs \ todo : Decoded(FlushExchange(k))}
                   ELSE {}
    IN  /\ Len(Emitted) = Len(byClose) + Cardinality(visited)
        /\ \A i \in DOMAIN byClose : Emitted[i] = byClose[i]
        /\ \A x \in ToSet(Emitted) :
              Cardinality({i \in DOMAIN Emitted : i > Len(byClose) /\ Emitted[i] = x})
                 = Cardinality({k \in visited : FlushExchange(k) = x})

\* Exchange.Truncated tells a consumer that bytes are missing: whenever fewer
\* bytes are buffered for a connection than its calls transferred, the flag
\* is up.
MissingBytesAreFlagged ==
    \A i \in DOMAIN Applied :
        LET k == KeyOf(Applied[i])
            calls == Lifetime(Applied, Endpoint(Applied[i]))
            transferred == Total([j \in DOMAIN Applied |->
                                    IF j \in calls THEN Applied[j].total ELSE 0])
        IN  calls # {} /\ transferred > Len(bufs[k].read) + Len(bufs[k].write)
               => bufs[k].truncated

\* Both channels close once the input has closed: the shutdown cascades.
BothCloseAfterInput == events.closed ~> (raw.closed /\ out.closed)
=============================================================================
