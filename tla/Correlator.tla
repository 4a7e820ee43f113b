----------------------------- MODULE Correlator -----------------------------
(***************************************************************************)
(* internal/correlator: one goroutine that forwards every event on `raw'   *)
(* and keeps, per (pid, fd), the connection opened by the last connect it  *)
(* saw, publishing a snapshot on `conns' each time that connection changes.*)
(* As in Streamer, the blocking sends are separate steps.                  *)
(***************************************************************************)
EXTENDS Channels, Events, FiniteSets, SequencesExt

CONSTANTS
    Inputs,     \* the events that can arrive
    Addrs,      \* remote addresses, NoAddr included
    EventsCap, RawCap, ConnsCap,
    MaxEvents   \* bound: number of events that ever arrive

ASSUME CorrelatorAssumption ==
    /\ EventsCap \in Nat \ {0} /\ RawCap \in Nat \ {0} /\ ConnsCap \in Nat \ {0}
    /\ MaxEvents \in Nat
    /\ \A ev \in Inputs :
          /\ ev.op \in Ops /\ ev.pid \in Nat /\ ev.fd \in Int /\ ev.total \in Nat
          /\ ev.addr \in Addrs

VARIABLES
    events, raw, conns,
    pc,         \* "recv", "raw", "conn" (about to send a snapshot), "done"
    cur,        \* the event of this iteration, at most one
    tracked,    \* map[key]*Connection
    nextSeq,
    handled,    \* history: the events whose switch has been executed
    snaps       \* history: every snapshot sent on conns

vars == <<events, raw, conns, pc, cur, tracked, nextSeq, handled, snaps>>

-----------------------------------------------------------------------------
KeyOf(ev) == [pid |-> ev.pid, fd |-> ev.fd]

Keys == [pid : Nat, fd : Int]

Connections == [seq : Nat \ {0}, pid : Nat, fd : Int, addr : Addrs,
                bytesOut : Nat, bytesIn : Nat, closed : BOOLEAN]

NewConnection(seq, ev) ==
    [seq |-> seq, pid |-> ev.pid, fd |-> ev.fd, addr |-> ev.addr,
     bytesOut |-> 0, bytesIn |-> 0, closed |-> FALSE]

\* The connection after a write, a read or a close of its fd.  The counters
\* take the call's true length, not the captured one.
MutUpdatedCapturedOnly(c, ev) ==
    [c EXCEPT !.bytesOut = IF ev.op = "write" THEN @ + Len(ev.data) ELSE @,
              !.bytesIn = IF ev.op = "read" THEN @ + Len(ev.data) ELSE @,
              !.closed = IF ev.op = "close" THEN TRUE ELSE @]
Updated(c, ev) ==
    [c EXCEPT !.bytesOut = IF ev.op = "write" THEN @ + ev.total ELSE @,
              !.bytesIn = IF ev.op = "read" THEN @ + ev.total ELSE @,
              !.closed = IF ev.op = "close" THEN TRUE ELSE @]

Track(k, c) == [x \in DOMAIN tracked \cup {k} |-> IF x = k THEN c ELSE tracked[x]]

Untrack(k) == [x \in DOMAIN tracked \ {k} |-> tracked[x]]

-----------------------------------------------------------------------------
Init ==
    /\ events = MakeChan /\ raw = MakeChan /\ conns = MakeChan
    /\ pc = "recv" /\ cur = <<>>
    /\ tracked = [k \in {} |-> {}] /\ nextSeq = 0
    /\ handled = <<>> /\ snaps = <<>>

Recv ==
    /\ pc = "recv" /\ HasValue(events)
    /\ cur' = <<Head(events.buf)>> /\ events' = Receive(events) /\ pc' = "raw"
    /\ UNCHANGED <<raw, conns, tracked, nextSeq, handled, snaps>>

\* raw <- ev: what every iteration does first.
PassRaw ==
    /\ pc = "raw" /\ HasRoom(raw, RawCap)
    /\ raw' = Send(raw, cur[1]) /\ handled' = Append(handled, cur[1])
    /\ UNCHANGED <<events, conns, snaps>>

\* A connect starts a new connection, replacing one that was never closed.
MutHandleConnectCountsAfter ==
    /\ PassRaw /\ cur[1].op = "connect"
    /\ nextSeq' = nextSeq + 1
    /\ tracked' = Track(KeyOf(cur[1]), NewConnection(nextSeq, cur[1]))
    /\ pc' = "conn" /\ UNCHANGED cur
MutHandleConnectReusesSeq ==
    /\ PassRaw /\ cur[1].op = "connect"
    /\ nextSeq' = IF KeyOf(cur[1]) \in DOMAIN tracked THEN nextSeq ELSE nextSeq + 1
    /\ tracked' = Track(KeyOf(cur[1]), NewConnection(nextSeq', cur[1]))
    /\ pc' = "conn" /\ UNCHANGED cur
HandleConnect ==
    /\ PassRaw /\ cur[1].op = "connect"
    /\ nextSeq' = nextSeq + 1
    /\ tracked' = Track(KeyOf(cur[1]), NewConnection(nextSeq + 1, cur[1]))
    /\ pc' = "conn" /\ UNCHANGED cur

\* A write, a read or a close of a tracked fd changes its connection.
HandleTracked ==
    /\ PassRaw /\ cur[1].op \in {"write", "read", "close"}
    /\ KeyOf(cur[1]) \in DOMAIN tracked
    /\ tracked' = Track(KeyOf(cur[1]), Updated(tracked[KeyOf(cur[1])], cur[1]))
    /\ pc' = "conn" /\ UNCHANGED <<cur, nextSeq>>

\* Anything else is only passed on: untracked fds and TLS events.
HandleOther ==
    /\ PassRaw /\ cur[1].op # "connect"
    /\ cur[1].op \in {"write", "read", "close"} => KeyOf(cur[1]) \notin DOMAIN tracked
    /\ pc' = "recv" /\ cur' = <<>> /\ UNCHANGED <<tracked, nextSeq>>

\* conns <- *c; a closed connection is then deleted.
MutSendSnapshotKeepsClosed ==
    /\ pc = "conn" /\ HasRoom(conns, ConnsCap)
    /\ conns' = Send(conns, tracked[KeyOf(cur[1])])
    /\ snaps' = Append(snaps, tracked[KeyOf(cur[1])])
    /\ pc' = "recv" /\ cur' = <<>>
    /\ UNCHANGED <<events, raw, tracked, nextSeq, handled>>
SendSnapshot ==
    /\ pc = "conn" /\ HasRoom(conns, ConnsCap)
    /\ LET k == KeyOf(cur[1]) IN
         /\ conns' = Send(conns, tracked[k]) /\ snaps' = Append(snaps, tracked[k])
         /\ tracked' = IF cur[1].op = "close" THEN Untrack(k) ELSE tracked
    /\ pc' = "recv" /\ cur' = <<>>
    /\ UNCHANGED <<events, raw, nextSeq, handled>>

\* The input has ended; the deferred calls close conns, then raw.
EndOfEvents ==
    /\ pc = "recv" /\ Drained(events)
    /\ conns' = CloseChan(conns) /\ pc' = "closeraw"
    /\ UNCHANGED <<events, raw, cur, tracked, nextSeq, handled, snaps>>

MutCloseRawForgotten ==
    /\ pc = "closeraw"
    /\ pc' = "done"
    /\ UNCHANGED <<events, raw, conns, cur, tracked, nextSeq, handled, snaps>>
CloseRaw ==
    /\ pc = "closeraw"
    /\ raw' = CloseChan(raw) /\ pc' = "done"
    /\ UNCHANGED <<events, conns, cur, tracked, nextSeq, handled, snaps>>

Goroutine ==
    \/ Recv \/ HandleConnect \/ HandleTracked \/ HandleOther \/ SendSnapshot
    \/ EndOfEvents \/ CloseRaw

-----------------------------------------------------------------------------
(* The environment: the collector, the streamer and the TUI.               *)

Arrive(ev) ==
    /\ ~events.closed /\ HasRoom(events, EventsCap)
    /\ Len(handled) + Len(cur) + Len(events.buf) < MaxEvents
    /\ events' = Send(events, ev)
    /\ UNCHANGED <<raw, conns, pc, cur, tracked, nextSeq, handled, snaps>>

EventsEnd ==
    /\ ~events.closed /\ events' = CloseChan(events)
    /\ UNCHANGED <<raw, conns, pc, cur, tracked, nextSeq, handled, snaps>>

TakeRaw ==
    /\ HasValue(raw) /\ raw' = Receive(raw)
    /\ UNCHANGED <<events, conns, pc, cur, tracked, nextSeq, handled, snaps>>

TakeConn ==
    /\ HasValue(conns) /\ conns' = Receive(conns)
    /\ UNCHANGED <<events, raw, pc, cur, tracked, nextSeq, handled, snaps>>

Terminated == pc = "done" /\ ~HasValue(raw) /\ ~HasValue(conns) /\ UNCHANGED vars

Next ==
    \/ Goroutine \/ (\E ev \in Inputs : Arrive(ev)) \/ EventsEnd
    \/ TakeRaw \/ TakeConn \/ Terminated

\* The Go scheduler runs every goroutine that can run; consumers keep receiving.
Fairness == WF_vars(Goroutine) /\ WF_vars(TakeRaw) /\ WF_vars(TakeConn)

Spec == Init /\ [][Next]_vars /\ Fairness

-----------------------------------------------------------------------------
(* Properties.                                                             *)

\* Every variable has its type, no channel exceeds its capacity, and the
\* goroutine holds an event exactly during its iteration.
TypeOK ==
    /\ events \in ChanOf(Inputs) /\ Len(events.buf) <= EventsCap
    /\ raw \in ChanOf(Inputs) /\ Len(raw.buf) <= RawCap
    /\ conns \in ChanOf(Connections) /\ Len(conns.buf) <= ConnsCap
    /\ pc \in {"recv", "raw", "conn", "closeraw", "done"}
    /\ cur \in Seq(Inputs) /\ Len(cur) = (IF pc \in {"raw", "conn"} THEN 1 ELSE 0)
    /\ DOMAIN tracked \subseteq Keys
    /\ \A k \in DOMAIN tracked : tracked[k] \in Connections
    /\ nextSeq \in Nat /\ handled \in Seq(Inputs) /\ snaps \in Seq(Connections)

\* Seq identifies a lifecycle: no two tracked connections share one, and a
\* tracked connection carries the identity of the key it is stored under.
SeqUnique ==
    /\ \A k \in DOMAIN tracked :
          /\ tracked[k].seq <= nextSeq
          /\ tracked[k].pid = k.pid /\ tracked[k].fd = k.fd
    /\ \A j, k \in DOMAIN tracked : tracked[j].seq = tracked[k].seq => j = k

\* Seq is a stable identity across the snapshots consumers see: equal Seq
\* means the same pid, fd and endpoint, byte counts only grow, and once a
\* snapshot says closed no later one of that Seq follows.
SnapshotsAreLifecycles ==
    \A i, j \in DOMAIN snaps :
        (i < j /\ snaps[i].seq = snaps[j].seq) =>
            /\ snaps[i].pid = snaps[j].pid /\ snaps[i].fd = snaps[j].fd
            /\ snaps[i].addr = snaps[j].addr
            /\ snaps[i].bytesOut <= snaps[j].bytesOut
            /\ snaps[i].bytesIn <= snaps[j].bytesIn
            /\ ~snaps[i].closed

\* After the events h, event c is the connect of a connection that is open:
\* no connect and no close of its fd follows.
Opened(h, c) ==
    /\ h[c].op = "connect"
    /\ \A i \in DOMAIN h : i > c /\ KeyOf(h[i]) = KeyOf(h[c]) => h[i].op \notin {"connect", "close"}

\* The bytes that the events of kind op after c moved over the fd of c.
BytesSince(h, c, op) ==
    Total([i \in DOMAIN h |-> IF i > c /\ KeyOf(h[i]) = KeyOf(h[c]) /\ h[i].op = op
                              THEN h[i].total ELSE 0])

\* The table tab holds, for each connection the events h leave open, the
\* endpoint of its connect and the bytes transferred since, and no other.
Matches(tab, h) ==
    /\ \A c \in DOMAIN h : Opened(h, c) => KeyOf(h[c]) \in DOMAIN tab
    /\ \A k \in DOMAIN tab : \E c \in DOMAIN h :
          /\ KeyOf(h[c]) = k /\ Opened(h, c)
          /\ tab[k].addr = h[c].addr
          /\ tab[k].bytesOut = BytesSince(h, c, "write")
          /\ tab[k].bytesIn = BytesSince(h, c, "read")

\* What is tracked is exactly what the events say: for each fd whose last
\* connect was not followed by a close, the endpoint of that connect and the
\* bytes transferred since.  A close counts once its snapshot is sent.
TrackedMatchesHistory ==
    Matches(tracked, IF pc = "conn" /\ cur[1].op = "close" THEN Front(handled) ELSE handled)

\* Both outputs close once the input has closed.
BothCloseAfterInput == events.closed ~> (raw.closed /\ conns.closed)
=============================================================================
