----------------------------- MODULE TraceProofs -----------------------------
(* `wiremark trace'.  First the correlator alone: its Seq identifies a     *)
(* connection's lifecycle, in its table and in the snapshots it publishes, *)
(* for any events, in any order.  Then the correlator, the streamer and    *)
(* the tabs composed.                                                      *)
(* Every step of the trace is a step of the correlator, or leaves it       *)
(* alone, and the same for the streamer, whose environment is the          *)
(* correlator on one side and two of the tabs on the other; so what is     *)
(* proved of the two holds in the trace.  With what the tabs do to what    *)
(* they receive that gives the properties of the whole.                    *)
EXTENDS TraceSession, ChannelTheorems

-----------------------------------------------------------------------------
(* The correlator: the inductive invariant.                                *)

\* a is an earlier, open state of the connection b.
Before(a, b) ==
    /\ a.pid = b.pid /\ a.fd = b.fd /\ a.addr = b.addr
    /\ a.bytesOut <= b.bytesOut /\ a.bytesIn <= b.bytesIn
    /\ ~a.closed

\* Every snapshot is an earlier state of the tracked connection with its Seq,
\* if that is still tracked, and no Seq is ahead of the counter.
SnapsBehind ==
    \A i \in DOMAIN snaps :
        /\ snaps[i].seq <= nextSeq
        /\ \A k \in DOMAIN tracked :
              snaps[i].seq = tracked[k].seq => Before(snaps[i], tracked[k])

\* Between its last change and its snapshot a connection is tracked; it is
\* marked closed only there, by a close.
ClosedOnlyInConn ==
    /\ pc = "conn" => KeyOf(cur[1]) \in DOMAIN tracked
    /\ \A k \in DOMAIN tracked :
          tracked[k].closed => pc = "conn" /\ cur[1].op = "close" /\ k = KeyOf(cur[1])

IInv == TypeOK /\ SeqUnique /\ SnapsBehind /\ ClosedOnlyInConn /\ SnapshotsAreLifecycles

-----------------------------------------------------------------------------
(* The operators.                                                          *)

LEMMA KeyFacts ==
    ASSUME NEW ev \in Inputs
    PROVE  KeyOf(ev) \in Keys /\ KeyOf(ev).pid = ev.pid /\ KeyOf(ev).fd = ev.fd
  BY CorrelatorAssumption DEF KeyOf, Keys

\* A connect's connection: of the event's fd and address, open.
LEMMA NewFacts ==
    ASSUME NEW ev \in Inputs, NEW n \in Nat \ {0}
    PROVE  LET c == NewConnection(n, ev) IN
             /\ c \in Connections /\ c.seq = n /\ c.pid = ev.pid /\ c.fd = ev.fd /\ ~c.closed
  BY CorrelatorAssumption DEF NewConnection, Connections

\* A change keeps the connection's identity and loses no bytes.
LEMMA UpdatedFacts ==
    ASSUME NEW c \in Connections, NEW ev \in Inputs
    PROVE  LET u == Updated(c, ev) IN
             /\ u \in Connections /\ u.seq = c.seq /\ u.pid = c.pid /\ u.fd = c.fd
             /\ u.addr = c.addr /\ c.bytesOut <= u.bytesOut /\ c.bytesIn <= u.bytesIn
             /\ u.closed <=> (c.closed \/ ev.op = "close")
  <1> DEFINE u == Updated(c, ev)
             o == IF ev.op = "write" THEN c.bytesOut + ev.total ELSE c.bytesOut
             n == IF ev.op = "read" THEN c.bytesIn + ev.total ELSE c.bytesIn
             d == IF ev.op = "close" THEN TRUE ELSE c.closed
  <1>1. o \in Nat /\ n \in Nat /\ c.bytesOut <= o /\ c.bytesIn <= n
    BY CorrelatorAssumption DEF Connections
  <1>2. d \in BOOLEAN /\ (d <=> (c.closed \/ ev.op = "close"))
    BY Zenon DEF Connections
  <1> HIDE DEF o, n, d
  <1>3. u = [[[c EXCEPT !.bytesOut = o] EXCEPT !.bytesIn = n] EXCEPT !.closed = d]
    BY DEF Updated, Connections, o, n, d
  <1> HIDE DEF u
  <1>4. u \in Connections
    BY <1>1, <1>2, <1>3, Zenon DEF Connections
  <1>5. /\ u.seq = c.seq /\ u.pid = c.pid /\ u.fd = c.fd /\ u.addr = c.addr
        /\ u.bytesOut = o /\ u.bytesIn = n /\ u.closed = d
    BY <1>3 DEF Connections
  <1> QED
    BY <1>1, <1>2, <1>4, <1>5 DEF u

\* The event of the iteration.
LEMMA CurFacts ==
    ASSUME TypeOK, pc \in {"raw", "conn"}
    PROVE  cur[1] \in Inputs /\ Len(cur) = 1
  <1>1. cur \in Seq(Inputs) /\ Len(cur) = 1
    BY DEF TypeOK
  <1> QED
    BY <1>1

\* raw <- ev.
LEMMA PassRawFacts ==
    ASSUME TypeOK, PassRaw
    PROVE  /\ raw' \in ChanOf(Inputs) /\ Len(raw'.buf) <= RawCap
           /\ handled' \in Seq(Inputs)
           /\ pc = "raw" /\ events' = events /\ conns' = conns /\ snaps' = snaps
  <1>1. pc = "raw" /\ cur[1] \in Inputs /\ raw \in ChanOf(Inputs)
    BY CurFacts DEF PassRaw, TypeOK
  <1>2. /\ Send(raw, cur[1]) \in ChanOf(Inputs)
        /\ Len(Send(raw, cur[1]).buf) = Len(raw.buf) + 1
    BY <1>1, SendChan
  <1>3. Len(raw.buf) + 1 <= RawCap
    BY <1>1, CorrelatorAssumption DEF PassRaw, HasRoom, ChanOf
  <1>4. handled' \in Seq(Inputs)
    BY <1>1 DEF PassRaw, TypeOK
  <1> QED
    BY <1>1, <1>2, <1>3, <1>4 DEF PassRaw

-----------------------------------------------------------------------------
(* What the events say, one more event at a time.                          *)

\* A connection stays open unless the event connects or closes its fd ...
LEMMA OpenedAppend ==
    ASSUME NEW h \in Seq(Inputs), NEW ev \in Inputs, NEW c \in DOMAIN h
    PROVE  Opened(Append(h, ev), c) <=>
             Opened(h, c) /\ (KeyOf(ev) = KeyOf(h[c]) => ev.op \notin {"connect", "close"})
  <1> DEFINE g == Append(h, ev)
             n == Len(h) + 1
  <1>1. /\ DOMAIN g = DOMAIN h \cup {n} /\ g[n] = ev /\ n \in Nat
        /\ \A i \in DOMAIN h : i \in Nat /\ i < n /\ g[i] = h[i]
    BY Appended
  <1> HIDE DEF g, n
  <1>2. n > c /\ g[c] = h[c]
    BY <1>1
  <1> QED
    BY <1>1, <1>2 DEF Opened, g

\* ... and a new one is opened by a connect.
LEMMA OpenedNew ==
    ASSUME NEW h \in Seq(Inputs), NEW ev \in Inputs
    PROVE  Opened(Append(h, ev), Len(h) + 1) <=> ev.op = "connect"
  <1> DEFINE g == Append(h, ev)
             n == Len(h) + 1
  <1>1. /\ DOMAIN g = DOMAIN h \cup {n} /\ g[n] = ev /\ n \in Nat
        /\ \A i \in DOMAIN h : i \in Nat /\ i < n
    BY Appended
  <1> HIDE DEF g, n
  <1>2. \A i \in DOMAIN g : ~(i > n)
    BY <1>1
  <1>3. Opened(g, n) <=> ev.op = "connect"
    BY <1>1, <1>2 DEF Opened
  <1> QED
    BY <1>3 DEF g, n

\* The bytes each event of h moves over the fd of c.
Moved(h, c, op) ==
    [i \in DOMAIN h |-> IF i > c /\ KeyOf(h[i]) = KeyOf(h[c]) /\ h[i].op = op
                        THEN h[i].total ELSE 0]

LEMMA MovedType ==
    ASSUME NEW h \in Seq(Inputs), NEW c, NEW op
    PROVE  Moved(h, c, op) \in Seq(Nat) /\ Len(Moved(h, c, op)) = Len(h)
  <1>1. \A i \in 1 .. Len(h) : h[i] \in Inputs
    OBVIOUS
  <1>2. \A i \in 1 .. Len(h) : h[i].total \in Nat
    BY <1>1, CorrelatorAssumption
  <1>3. Moved(h, c, op) \in [1 .. Len(h) -> Nat]
    BY <1>2 DEF Moved
  <1> QED
    BY <1>3

\* A write or a read of the fd of c adds its length.
LEMMA BytesAppend ==
    ASSUME NEW h \in Seq(Inputs), NEW ev \in Inputs, NEW c \in DOMAIN h, NEW op
    PROVE  BytesSince(Append(h, ev), c, op)
             = BytesSince(h, c, op) + (IF KeyOf(ev) = KeyOf(h[c]) /\ ev.op = op THEN ev.total ELSE 0)
  <1> DEFINE g == Append(h, ev)
             n == Len(h) + 1
             x == IF KeyOf(ev) = KeyOf(h[c]) /\ ev.op = op THEN ev.total ELSE 0
             w == Moved(h, c, op)
             v == Moved(g, c, op)
  <1>1. /\ g \in Seq(Inputs) /\ Len(g) = n /\ DOMAIN h = 1 .. Len(h) /\ DOMAIN g = 1 .. n
        /\ DOMAIN g = DOMAIN h \cup {n} /\ n \in Nat /\ g[n] = ev
        /\ \A i \in DOMAIN h : i \in Nat /\ i < n /\ g[i] = h[i]
    BY Appended
  <1>2. w \in Seq(Nat) /\ v \in Seq(Nat) /\ Len(w) = Len(h) /\ Len(v) = n
    BY <1>1, MovedType, Zenon
  <1>3. x \in Nat
    BY CorrelatorAssumption
  <1>4. v[n] = x
    <2>1. n > c /\ g[c] = h[c] /\ n \in DOMAIN g
      BY <1>1
    <2> HIDE DEF g, n
    <2> QED
      BY <1>1, <2>1 DEF Moved
  <1>5. \A i \in 1 .. Len(h) : v[i] = w[i]
    <2> SUFFICES ASSUME NEW i \in DOMAIN h PROVE v[i] = w[i]
      BY <1>1
    <2>1. i \in DOMAIN g /\ g[i] = h[i] /\ g[c] = h[c]
      BY <1>1
    <2> HIDE DEF g
    <2> QED
      BY <2>1 DEF Moved
  <1>6. v = Append(w, x)
    <2> DEFINE l == Len(h)
    <2>1. l \in Nat /\ n = l + 1 /\ Len(w) = l /\ \A i \in 1 .. l : v[i] = w[i]
      BY <1>2, <1>5
    <2> HIDE DEF v, w, x, n, l
    <2>2. /\ Append(w, x) \in Seq(Nat) /\ Len(Append(w, x)) = n
          /\ Append(w, x)[n] = x /\ \A i \in 1 .. l : Append(w, x)[i] = w[i]
      BY <1>2, <1>3, <2>1
    <2>3. \A i \in 1 .. n : v[i] = Append(w, x)[i]
      <3> SUFFICES ASSUME NEW i \in 1 .. n PROVE v[i] = Append(w, x)[i]
        BY Zenon
      <3>1. i = n \/ i \in 1 .. l
        BY <2>1
      <3> QED
        BY <3>1, <1>4, <2>1, <2>2
    <2> DEFINE a == Append(w, x)
    <2> HIDE DEF a
    <2>4. a \in Seq(Nat) /\ Len(a) = n /\ \A i \in 1 .. n : v[i] = a[i]
      BY <2>2, <2>3 DEF a
    <2> QED
      BY <1>2, <2>4, SeqEqual, Zenon DEF a
  <1>7. BytesSince(h, c, op) = Total(w) /\ BytesSince(g, c, op) = Total(v)
    BY DEF BytesSince, Moved
  <1> HIDE DEF w, v, x
  <1>8. Total(v) = Total(w) + x
    BY <1>2, <1>3, <1>6, TotalAppend
  <1> QED
    BY <1>7, <1>8 DEF x, g

\* Nothing is transferred before the connect.
LEMMA BytesNew ==
    ASSUME NEW h \in Seq(Inputs), NEW ev \in Inputs, NEW op
    PROVE  BytesSince(Append(h, ev), Len(h) + 1, op) = 0
  <1> DEFINE g == Append(h, ev)
             n == Len(h) + 1
  <1>1. n \in Nat /\ DOMAIN g = 1 .. n
    BY Appended
  <1> HIDE DEF g, n
  <1>2. \A i \in 1 .. n : ~(i > n)
    BY <1>1
  <1>3. Moved(g, n, op) = [i \in 1 .. n |-> 0]
    BY <1>1, <1>2 DEF Moved
  <1>4. Moved(g, n, op) \in Seq({0})
    BY <1>1, <1>3
  <1>5. BytesSince(g, n, op) = Total(Moved(g, n, op))
    BY DEF BytesSince, Moved
  <1> QED
    BY <1>4, <1>5, TotalZeros DEF g, n

\* Event c of h opened the connection conn of key k.
IsRow(conn, k, h, c) ==
    /\ KeyOf(h[c]) = k /\ Opened(h, c) /\ conn.addr = h[c].addr
    /\ conn.bytesOut = BytesSince(h, c, "write") /\ conn.bytesIn = BytesSince(h, c, "read")

LEMMA MatchesRows ==
    ASSUME NEW tab, NEW h
    PROVE  Matches(tab, h) <=>
             /\ \A c \in DOMAIN h : Opened(h, c) => KeyOf(h[c]) \in DOMAIN tab
             /\ \A k \in DOMAIN tab : \E c \in DOMAIN h : IsRow(tab[k], k, h, c)
  BY DEF Matches, IsRow

BytesType(conn) == conn.bytesOut \in Nat /\ conn.bytesIn \in Nat

\* A row that the event does not concern stays as it is.
LEMMA RowKept ==
    ASSUME NEW h \in Seq(Inputs), NEW ev \in Inputs, NEW c \in DOMAIN h, NEW conn, NEW k,
           IsRow(conn, k, h, c), BytesType(conn),
           k = KeyOf(ev) => ev.op \notin {"connect", "close", "write", "read"}
    PROVE  IsRow(conn, k, Append(h, ev), c) /\ c \in DOMAIN Append(h, ev)
  <1>1. Append(h, ev)[c] = h[c] /\ c \in DOMAIN Append(h, ev)
    BY Appended
  <1>2. Opened(Append(h, ev), c)
    BY OpenedAppend DEF IsRow
  <1>3. /\ BytesSince(Append(h, ev), c, "write") = BytesSince(h, c, "write") + 0
        /\ BytesSince(Append(h, ev), c, "read") = BytesSince(h, c, "read") + 0
    BY BytesAppend DEF IsRow
  <1> QED
    BY <1>1, <1>2, <1>3 DEF IsRow, BytesType

\* A connect replaces the row of its key by an empty one.
LEMMA MatchesConnect ==
    ASSUME NEW h \in Seq(Inputs), NEW ev \in Inputs, ev.op = "connect", NEW tab, NEW new,
           Matches(tab, h), \A k \in DOMAIN tab : BytesType(tab[k]),
           DOMAIN new = DOMAIN tab \cup {KeyOf(ev)},
           \A k \in DOMAIN tab \ {KeyOf(ev)} : new[k] = tab[k],
           new[KeyOf(ev)].addr = ev.addr,
           new[KeyOf(ev)].bytesOut = 0, new[KeyOf(ev)].bytesIn = 0
    PROVE  Matches(new, Append(h, ev))
  <1> DEFINE g == Append(h, ev)
             n == Len(h) + 1
             e == KeyOf(ev)
  <1>1. DOMAIN g = DOMAIN h \cup {n} /\ g[n] = ev /\ \A i \in DOMAIN h : g[i] = h[i]
    BY Appended
  <1>2. Opened(g, n) /\ BytesSince(g, n, "write") = 0 /\ BytesSince(g, n, "read") = 0
    BY OpenedNew, BytesNew
  <1>3. \A c \in DOMAIN h : Opened(g, c) => KeyOf(h[c]) \in DOMAIN tab
    BY OpenedAppend, MatchesRows
  <1>4. ASSUME NEW k \in DOMAIN tab \ {e} PROVE \E c \in DOMAIN g : IsRow(new[k], k, g, c)
    <2>1. PICK c \in DOMAIN h : IsRow(tab[k], k, h, c)
      BY MatchesRows
    <2>2. k # e /\ BytesType(tab[k]) /\ new[k] = tab[k]
      BY <1>4
    <2>3. IsRow(new[k], k, g, c) /\ c \in DOMAIN g
      BY <2>1, <2>2, RowKept
    <2> QED
      BY <2>3
  <1>5. IsRow(new[e], e, g, n) /\ n \in DOMAIN g
    <2> HIDE DEF g, n
    <2> QED
      BY <1>1, <1>2 DEF IsRow
  <1> HIDE DEF g, n
  <1>6. \A c \in DOMAIN g : Opened(g, c) => KeyOf(g[c]) \in DOMAIN new
    BY <1>1, <1>3
  <1>7. \A k \in DOMAIN new : \E c \in DOMAIN g : IsRow(new[k], k, g, c)
    BY <1>4, <1>5
  <1> QED
    BY <1>6, <1>7, MatchesRows, Zenon DEF g

\* A write or a read of a tracked fd adds its length to the row.
LEMMA MatchesUpdate ==
    ASSUME NEW h \in Seq(Inputs), NEW ev \in Inputs, ev.op \in {"write", "read"}, NEW tab, NEW new,
           Matches(tab, h), \A k \in DOMAIN tab : BytesType(tab[k]),
           KeyOf(ev) \in DOMAIN tab, DOMAIN new = DOMAIN tab,
           \A k \in DOMAIN tab \ {KeyOf(ev)} : new[k] = tab[k],
           new[KeyOf(ev)].addr = tab[KeyOf(ev)].addr,
           new[KeyOf(ev)].bytesOut
             = tab[KeyOf(ev)].bytesOut + (IF ev.op = "write" THEN ev.total ELSE 0),
           new[KeyOf(ev)].bytesIn
             = tab[KeyOf(ev)].bytesIn + (IF ev.op = "read" THEN ev.total ELSE 0)
    PROVE  Matches(new, Append(h, ev))
  <1> DEFINE g == Append(h, ev)
             n == Len(h) + 1
             e == KeyOf(ev)
  <1>1. DOMAIN g = DOMAIN h \cup {n} /\ g[n] = ev /\ \A i \in DOMAIN h : g[i] = h[i]
    BY Appended
  <1>2. ~Opened(g, n)
    BY OpenedNew
  <1>3. \A c \in DOMAIN h : Opened(g, c) => KeyOf(h[c]) \in DOMAIN tab
    BY OpenedAppend, MatchesRows
  <1>4. ASSUME NEW k \in DOMAIN tab \ {e} PROVE \E c \in DOMAIN g : IsRow(new[k], k, g, c)
    <2>1. PICK c \in DOMAIN h : IsRow(tab[k], k, h, c)
      BY MatchesRows
    <2>2. k # e /\ BytesType(tab[k]) /\ new[k] = tab[k]
      BY <1>4
    <2>3. IsRow(new[k], k, g, c) /\ c \in DOMAIN g
      BY <2>1, <2>2, RowKept
    <2> QED
      BY <2>3
  <1>5. \E c \in DOMAIN g : IsRow(new[e], e, g, c)
    <2>1. PICK c \in DOMAIN h : IsRow(tab[e], e, h, c)
      BY MatchesRows
    <2>2. Opened(g, c)
      BY <2>1, OpenedAppend DEF IsRow
    <2>3. BytesSince(g, c, "write")
            = BytesSince(h, c, "write") + (IF ev.op = "write" THEN ev.total ELSE 0)
      BY <2>1, BytesAppend DEF IsRow
    <2>4. BytesSince(g, c, "read")
            = BytesSince(h, c, "read") + (IF ev.op = "read" THEN ev.total ELSE 0)
      BY <2>1, BytesAppend DEF IsRow
    <2> HIDE DEF g, n
    <2>5. c \in DOMAIN g /\ g[c] = h[c]
      BY <1>1
    <2>6. IsRow(new[e], e, g, c)
      BY <2>1, <2>2, <2>3, <2>4, <2>5 DEF IsRow
    <2> QED
      BY <2>5, <2>6
  <1> HIDE DEF g, n
  <1>6. \A c \in DOMAIN g : Opened(g, c) => KeyOf(g[c]) \in DOMAIN new
    BY <1>1, <1>2, <1>3
  <1>7. \A k \in DOMAIN new : \E c \in DOMAIN g : IsRow(new[k], k, g, c)
    BY <1>4, <1>5
  <1> QED
    BY <1>6, <1>7, MatchesRows, Zenon DEF g

\* A close removes the row of its key; an event of an untracked fd and a TLS
\* event change nothing.
LEMMA MatchesRest ==
    ASSUME NEW h \in Seq(Inputs), NEW ev \in Inputs, ev.op # "connect", NEW tab, NEW new,
           Matches(tab, h), \A k \in DOMAIN tab : BytesType(tab[k]),
           DOMAIN new = (IF ev.op = "close" THEN DOMAIN tab \ {KeyOf(ev)} ELSE DOMAIN tab),
           ev.op \in {"write", "read"} => KeyOf(ev) \notin DOMAIN tab,
           \A k \in DOMAIN new : new[k] = tab[k]
    PROVE  Matches(new, Append(h, ev))
  <1> DEFINE g == Append(h, ev)
             n == Len(h) + 1
             e == KeyOf(ev)
  <1>1. DOMAIN g = DOMAIN h \cup {n} /\ g[n] = ev /\ \A i \in DOMAIN h : g[i] = h[i]
    BY Appended
  <1>2. ~Opened(g, n)
    BY OpenedNew
  <1>3. \A c \in DOMAIN h : Opened(g, c) => KeyOf(h[c]) \in DOMAIN new
    BY OpenedAppend, MatchesRows
  <1>4. ASSUME NEW k \in DOMAIN new PROVE \E c \in DOMAIN g : IsRow(new[k], k, g, c)
    <2>1. k \in DOMAIN tab /\ new[k] = tab[k] /\ BytesType(tab[k])
      OBVIOUS
    <2>2. PICK c \in DOMAIN h : IsRow(tab[k], k, h, c)
      BY <2>1, MatchesRows
    <2>3. k = KeyOf(ev) => ev.op \notin {"connect", "close", "write", "read"}
      BY <2>1
    <2>4. IsRow(new[k], k, g, c) /\ c \in DOMAIN g
      BY <2>1, <2>2, <2>3, RowKept
    <2> QED
      BY <2>4
  <1> HIDE DEF g, n
  <1>5. \A c \in DOMAIN g : Opened(g, c) => KeyOf(g[c]) \in DOMAIN new
    BY <1>1, <1>2, <1>3
  <1> QED
    BY <1>4, <1>5, MatchesRows, Zenon DEF g

LEMMA InitIInv == Init => IInv
  <1> SUFFICES ASSUME Init PROVE IInv
    OBVIOUS
  <1>1. DOMAIN tracked = {} /\ DOMAIN snaps = {}
    BY DEF Init
  <1>2. TypeOK
    BY <1>1, CorrelatorAssumption DEF Init, TypeOK, MakeChan, ChanOf
  <1> QED
    BY <1>1, <1>2 DEF Init, IInv, SeqUnique, SnapsBehind, ClosedOnlyInConn, SnapshotsAreLifecycles

-----------------------------------------------------------------------------
(* The switch.                                                             *)

\* A connect takes a Seq that no snapshot and no tracked connection has.
LEMMA HandleConnectStep == IInv /\ HandleConnect => IInv'
  <1> SUFFICES ASSUME IInv, HandleConnect PROVE IInv'
    OBVIOUS
  <1> DEFINE k == KeyOf(cur[1])
             c == NewConnection(nextSeq + 1, cur[1])
  <1>1. /\ TypeOK /\ PassRaw /\ nextSeq' = nextSeq + 1 /\ tracked' = Track(k, c)
        /\ pc' = "conn" /\ cur' = cur /\ cur[1].op = "connect"
    BY DEF IInv, HandleConnect
  <1>2. /\ raw' \in ChanOf(Inputs) /\ Len(raw'.buf) <= RawCap
        /\ handled' \in Seq(Inputs)
        /\ pc = "raw" /\ events' = events /\ conns' = conns /\ snaps' = snaps
    BY <1>1, PassRawFacts
  <1>3. cur[1] \in Inputs /\ Len(cur) = 1
    BY <1>1, <1>2, CurFacts
  <1>4. nextSeq \in Nat /\ nextSeq + 1 \in Nat \ {0}
    BY <1>1 DEF TypeOK
  <1>5. k \in Keys /\ k.pid = cur[1].pid /\ k.fd = cur[1].fd
    BY <1>3, KeyFacts
  <1>6. /\ c \in Connections /\ c.seq = nextSeq + 1
        /\ c.pid = k.pid /\ c.fd = k.fd /\ ~c.closed
    BY <1>3, <1>4, <1>5, NewFacts
  <1> HIDE DEF k, c
  <1>7. /\ DOMAIN tracked' = DOMAIN tracked \cup {k} /\ tracked'[k] = c
        /\ \A x \in DOMAIN tracked \ {k} : tracked'[x] = tracked[x]
    BY <1>1 DEF Track
  <1>8. TypeOK'
    BY <1>1, <1>2, <1>3, <1>4, <1>5, <1>6, <1>7 DEF TypeOK
  <1>9. \A x \in DOMAIN tracked : tracked[x].seq \in Nat /\ tracked[x].seq <= nextSeq
    BY <1>1 DEF IInv, SeqUnique, TypeOK, Connections
  <1>10. SeqUnique'
    BY <1>1, <1>4, <1>6, <1>7, <1>9 DEF IInv, SeqUnique
  <1>11. SnapsBehind'
    <2>1. \A i \in DOMAIN snaps : snaps[i].seq \in Nat /\ snaps[i].seq <= nextSeq
      <3>1. \A i \in DOMAIN snaps : snaps[i] \in Connections
        BY <1>1 DEF TypeOK
      <3> QED
        BY <3>1 DEF IInv, SnapsBehind, Connections
    <2> QED
      BY <1>1, <1>2, <1>4, <1>6, <1>7, <2>1 DEF IInv, SnapsBehind, Before
  <1>12. ClosedOnlyInConn'
    <2>1. \A x \in DOMAIN tracked : ~tracked[x].closed
      BY <1>2 DEF IInv, ClosedOnlyInConn
    <2>2. \A x \in DOMAIN tracked' : ~tracked'[x].closed
      BY <1>6, <1>7, <2>1
    <2>3. KeyOf(cur[1])' \in DOMAIN tracked'
      BY <1>1, <1>7 DEF k
    <2> QED
      BY <2>2, <2>3 DEF ClosedOnlyInConn
  <1>13. SnapshotsAreLifecycles'
    BY <1>2 DEF IInv, SnapshotsAreLifecycles
  <1> QED
    BY <1>8, <1>10, <1>11, <1>12, <1>13 DEF IInv

\* A write, a read or a close keeps the identity of the connection it changes.
LEMMA HandleTrackedStep == IInv /\ HandleTracked => IInv'
  <1> SUFFICES ASSUME IInv, HandleTracked PROVE IInv'
    OBVIOUS
  <1> DEFINE k == KeyOf(cur[1])
             c == tracked[k]
             u == Updated(c, cur[1])
  <1>1. /\ TypeOK /\ PassRaw /\ k \in DOMAIN tracked /\ tracked' = Track(k, u)
        /\ pc' = "conn" /\ cur' = cur /\ nextSeq' = nextSeq
    BY DEF IInv, HandleTracked
  <1>2. /\ raw' \in ChanOf(Inputs) /\ Len(raw'.buf) <= RawCap
        /\ handled' \in Seq(Inputs)
        /\ pc = "raw" /\ events' = events /\ conns' = conns /\ snaps' = snaps
    BY <1>1, PassRawFacts
  <1>3. cur[1] \in Inputs /\ Len(cur) = 1
    BY <1>1, <1>2, CurFacts
  <1>4. c \in Connections
    BY <1>1 DEF TypeOK
  <1>5. /\ u \in Connections /\ u.seq = c.seq /\ u.pid = c.pid /\ u.fd = c.fd
        /\ u.addr = c.addr /\ c.bytesOut <= u.bytesOut /\ c.bytesIn <= u.bytesIn
        /\ u.closed <=> (c.closed \/ cur[1].op = "close")
    BY <1>3, <1>4, UpdatedFacts
  <1> HIDE DEF k, u
  <1>6. /\ DOMAIN tracked' = DOMAIN tracked /\ tracked'[k] = u
        /\ \A x \in DOMAIN tracked \ {k} : tracked'[x] = tracked[x]
    BY <1>1 DEF Track
  <1>7. TypeOK'
    BY <1>1, <1>2, <1>3, <1>5, <1>6 DEF TypeOK
  <1>8. SeqUnique'
    BY <1>1, <1>5, <1>6 DEF IInv, SeqUnique
  <1>9. SnapsBehind'
    <2> SUFFICES ASSUME NEW i \in DOMAIN snaps
                 PROVE  /\ snaps[i].seq <= nextSeq
                        /\ \A x \in DOMAIN tracked :
                              snaps[i].seq = tracked'[x].seq => Before(snaps[i], tracked'[x])
      BY <1>1, <1>2, <1>6 DEF SnapsBehind
    <2>1. /\ snaps[i].seq <= nextSeq
          /\ \A x \in DOMAIN tracked :
                snaps[i].seq = tracked[x].seq => Before(snaps[i], tracked[x])
      BY DEF IInv, SnapsBehind
    <2>2. snaps[i] \in Connections
      BY <1>1 DEF TypeOK
    <2>3. snaps[i].seq = u.seq => Before(snaps[i], u)
      BY <1>1, <1>4, <1>5, <2>1, <2>2 DEF Before, Connections
    <2> QED
      BY <1>6, <2>1, <2>3
  <1>10. ClosedOnlyInConn'
    <2>1. \A x \in DOMAIN tracked : ~tracked[x].closed
      BY <1>2 DEF IInv, ClosedOnlyInConn
    <2>2. \A x \in DOMAIN tracked' : tracked'[x].closed => x = k /\ cur[1].op = "close"
      BY <1>1, <1>5, <1>6, <2>1
    <2>3. KeyOf(cur[1])' = k
      BY <1>1 DEF k
    <2> QED
      BY <1>1, <1>6, <2>2, <2>3 DEF ClosedOnlyInConn
  <1>11. SnapshotsAreLifecycles'
    BY <1>2 DEF IInv, SnapshotsAreLifecycles
  <1> QED
    BY <1>7, <1>8, <1>9, <1>10, <1>11 DEF IInv

\* A step that leaves the table, the counter and the snapshots alone, while no
\* tracked connection is closed or the event of the iteration stays.
LEMMA SameTable ==
    ASSUME IInv, UNCHANGED <<tracked, nextSeq, snaps>>, TypeOK',
           \/ pc \in {"recv", "raw", "closeraw", "done"} /\ pc' # "conn"
           \/ UNCHANGED <<pc, cur>>
    PROVE  IInv'
  <1>1. SeqUnique' /\ SnapsBehind' /\ SnapshotsAreLifecycles'
    BY DEF IInv, SeqUnique, SnapsBehind, SnapshotsAreLifecycles
  <1>2. ClosedOnlyInConn'
    BY DEF IInv, ClosedOnlyInConn
  <1> QED
    BY <1>1, <1>2 DEF IInv

LEMMA HandleOtherStep == IInv /\ HandleOther => IInv'
  <1> SUFFICES ASSUME IInv, HandleOther PROVE IInv'
    OBVIOUS
  <1>1. TypeOK /\ PassRaw /\ pc' = "recv" /\ cur' = <<>> /\ tracked' = tracked /\ nextSeq' = nextSeq
    BY DEF IInv, HandleOther
  <1>2. /\ raw' \in ChanOf(Inputs) /\ Len(raw'.buf) <= RawCap
        /\ handled' \in Seq(Inputs)
        /\ pc = "raw" /\ events' = events /\ conns' = conns /\ snaps' = snaps
    BY <1>1, PassRawFacts
  <1>3. TypeOK'
    BY <1>1, <1>2 DEF TypeOK
  <1> QED
    BY <1>1, <1>2, <1>3, SameTable

\* The snapshot is of the tracked connection, so later than every earlier one
\* of its Seq; if it is closed, the Seq is not tracked any more.
LEMMA SendSnapshotStep == IInv /\ SendSnapshot => IInv'
  <1> SUFFICES ASSUME IInv, SendSnapshot PROVE IInv'
    OBVIOUS
  <1> DEFINE k == KeyOf(cur[1])
             c == tracked[k]
  <1>1. /\ TypeOK /\ pc = "conn" /\ HasRoom(conns, ConnsCap)
        /\ conns' = Send(conns, c) /\ snaps' = Append(snaps, c)
        /\ tracked' = (IF cur[1].op = "close" THEN Untrack(k) ELSE tracked)
        /\ pc' = "recv" /\ cur' = <<>>
        /\ UNCHANGED <<events, raw, nextSeq, handled>>
    BY DEF IInv, SendSnapshot
  <1>2. k \in DOMAIN tracked /\ (c.closed => cur[1].op = "close")
    BY <1>1 DEF IInv, ClosedOnlyInConn
  <1>3. c \in Connections /\ snaps \in Seq(Connections) /\ conns \in ChanOf(Connections)
    BY <1>1, <1>2 DEF TypeOK
  <1>4. /\ DOMAIN tracked' \subseteq DOMAIN tracked
        /\ \A x \in DOMAIN tracked' : tracked'[x] = tracked[x]
        /\ cur[1].op = "close" => k \notin DOMAIN tracked'
    BY <1>1 DEF Untrack
  <1> HIDE DEF k, c
  <1>5. TypeOK'
    <2>1. conns' \in ChanOf(Connections) /\ Len(conns'.buf) = Len(conns.buf) + 1
      BY <1>1, <1>3, SendChan
    <2>2. Len(conns.buf) + 1 <= ConnsCap
      BY <1>1, <1>3, CorrelatorAssumption DEF HasRoom, ChanOf
    <2>3. snaps' \in Seq(Connections)
      BY <1>1, <1>3
    <2> QED
      BY <1>1, <1>4, <2>1, <2>2, <2>3 DEF TypeOK
  <1>6. SeqUnique'
    BY <1>1, <1>4 DEF IInv, SeqUnique
  <1>7. /\ DOMAIN snaps' = 1 .. Len(snaps) + 1 /\ DOMAIN snaps = 1 .. Len(snaps) /\ Len(snaps) \in Nat
        /\ \A i \in 1 .. Len(snaps) : snaps'[i] = snaps[i]
        /\ snaps'[Len(snaps) + 1] = c
    BY <1>1, <1>3
  <1>8. c.seq <= nextSeq /\ \A x \in DOMAIN tracked : tracked[x].seq = c.seq => x = k
    BY <1>2 DEF IInv, SeqUnique, c
  <1>9. \A i \in 1 .. Len(snaps) : snaps[i].seq = c.seq => Before(snaps[i], c)
    BY <1>2, <1>7 DEF IInv, SnapsBehind, c
  <1>10. SnapsBehind'
    <2>1. ASSUME NEW x \in DOMAIN tracked', c.seq = tracked'[x].seq
          PROVE  Before(c, tracked'[x])
      <3>1. x = k /\ tracked'[x] = c
        BY <1>4, <1>8, <2>1 DEF c
      <3>2. ~c.closed
        BY <1>2, <1>4, <3>1
      <3> QED
        BY <1>3, <3>1, <3>2 DEF Before, Connections
    <2>2. \A i \in 1 .. Len(snaps) :
             /\ snaps[i].seq <= nextSeq
             /\ \A x \in DOMAIN tracked' :
                   snaps[i].seq = tracked'[x].seq => Before(snaps[i], tracked'[x])
      BY <1>4, <1>7 DEF IInv, SnapsBehind
    <2>3. nextSeq' = nextSeq
      BY <1>1
    <2> QED
      BY <1>7, <1>8, <2>1, <2>2, <2>3 DEF SnapsBehind
  <1>11. ClosedOnlyInConn'
    <2>1. \A x \in DOMAIN tracked' : ~tracked'[x].closed
      BY <1>4 DEF IInv, ClosedOnlyInConn, k
    <2> QED
      BY <1>1, <2>1 DEF ClosedOnlyInConn
  <1>12. SnapshotsAreLifecycles'
    <2> SUFFICES ASSUME NEW i \in DOMAIN snaps', NEW j \in DOMAIN snaps',
                        i < j, snaps'[i].seq = snaps'[j].seq
                 PROVE  Before(snaps'[i], snaps'[j])
      BY DEF SnapshotsAreLifecycles, Before
    <2>1. CASE j \in 1 .. Len(snaps)
      <3>1. i \in 1 .. Len(snaps)
        BY <1>7, <2>1
      <3> QED
        BY <1>7, <2>1, <3>1 DEF IInv, SnapshotsAreLifecycles, Before
    <2>2. CASE j = Len(snaps) + 1
      <3>1. i \in 1 .. Len(snaps)
        BY <1>7, <2>2
      <3> QED
        BY <1>7, <1>9, <2>2, <3>1
    <2> QED
      BY <1>7, <2>1, <2>2
  <1> QED
    BY <1>5, <1>6, <1>10, <1>11, <1>12 DEF IInv

-----------------------------------------------------------------------------
(* The steps that only move events.                                        *)

LEMMA RecvStep == IInv /\ Recv => IInv'
  <1> SUFFICES ASSUME IInv, Recv PROVE IInv'
    OBVIOUS
  <1>1. TypeOK /\ pc = "recv" /\ pc' = "raw" /\ HasValue(events) /\ events \in ChanOf(Inputs)
    BY DEF IInv, Recv, TypeOK
  <1>2. /\ events' \in ChanOf(Inputs) /\ Len(events'.buf) = Len(events.buf) - 1
        /\ Head(events.buf) \in Inputs
    BY <1>1, ReceiveChan DEF Recv
  <1>3. Len(events'.buf) <= EventsCap
    BY <1>1, <1>2, CorrelatorAssumption DEF TypeOK, ChanOf
  <1>4. TypeOK'
    BY <1>1, <1>2, <1>3 DEF Recv, TypeOK
  <1> QED
    BY <1>1, <1>4, SameTable DEF Recv

LEMMA EndStep == IInv /\ (EndOfEvents \/ CloseRaw) => IInv'
  <1> SUFFICES ASSUME IInv, EndOfEvents \/ CloseRaw PROVE IInv'
    OBVIOUS
  <1>1. TypeOK /\ raw \in ChanOf(Inputs) /\ conns \in ChanOf(Connections)
    BY DEF IInv, TypeOK
  <1>2. /\ CloseChan(raw) \in ChanOf(Inputs) /\ CloseChan(raw).buf = raw.buf
        /\ CloseChan(conns) \in ChanOf(Connections) /\ CloseChan(conns).buf = conns.buf
    BY <1>1, CloseChanChan
  <1>3. TypeOK'
    BY <1>1, <1>2, Zenon DEF EndOfEvents, CloseRaw, TypeOK
  <1> QED
    BY <1>3, SameTable DEF EndOfEvents, CloseRaw

LEMMA EnvironmentStep ==
    ASSUME IInv, (\E ev \in Inputs : Arrive(ev)) \/ EventsEnd \/ TakeRaw \/ TakeConn
    PROVE  IInv'
  <1>1. /\ TypeOK /\ events \in ChanOf(Inputs) /\ raw \in ChanOf(Inputs)
        /\ conns \in ChanOf(Connections)
    BY DEF IInv, TypeOK
  <1>2. Len(events.buf) \in Nat /\ Len(raw.buf) \in Nat /\ Len(conns.buf) \in Nat
    BY <1>1 DEF ChanOf
  <1>3. ASSUME NEW ev \in Inputs, Arrive(ev) PROVE TypeOK' /\ UNCHANGED <<pc, cur, tracked, nextSeq, snaps>>
    <2>1. events' \in ChanOf(Inputs) /\ Len(events'.buf) = Len(events.buf) + 1
      BY <1>1, <1>3, SendChan DEF Arrive
    <2>2. Len(events'.buf) <= EventsCap
      BY <1>2, <1>3, <2>1, CorrelatorAssumption DEF Arrive, HasRoom
    <2> QED
      BY <1>1, <1>3, <2>1, <2>2 DEF Arrive, TypeOK
  <1>4. ASSUME EventsEnd PROVE TypeOK' /\ UNCHANGED <<pc, cur, tracked, nextSeq, snaps>>
    <2>1. events' \in ChanOf(Inputs) /\ events'.buf = events.buf
      BY <1>1, <1>4, CloseChanChan DEF EventsEnd
    <2> QED
      BY <1>1, <1>4, <2>1 DEF EventsEnd, TypeOK
  <1>5. ASSUME TakeRaw PROVE TypeOK' /\ UNCHANGED <<pc, cur, tracked, nextSeq, snaps>>
    <2>1. raw' \in ChanOf(Inputs) /\ Len(raw'.buf) = Len(raw.buf) - 1
      BY <1>1, <1>5, ReceiveChan, Zenon DEF TakeRaw
    <2>2. Len(raw'.buf) <= RawCap
      BY <1>1, <1>2, <2>1, CorrelatorAssumption DEF TypeOK
    <2> QED
      BY <1>1, <1>5, <2>1, <2>2 DEF TakeRaw, TypeOK
  <1>6. ASSUME TakeConn PROVE TypeOK' /\ UNCHANGED <<pc, cur, tracked, nextSeq, snaps>>
    <2>1. conns' \in ChanOf(Connections) /\ Len(conns'.buf) = Len(conns.buf) - 1
      BY <1>1, <1>6, ReceiveChan, Zenon DEF TakeConn
    <2>2. Len(conns'.buf) <= ConnsCap
      BY <1>1, <1>2, <2>1, CorrelatorAssumption DEF TypeOK
    <2> QED
      BY <1>1, <1>6, <2>1, <2>2 DEF TakeConn, TypeOK
  <1>7. TypeOK' /\ UNCHANGED <<pc, cur, tracked, nextSeq, snaps>>
    BY <1>3, <1>4, <1>5, <1>6
  <1> QED
    BY <1>7, SameTable

-----------------------------------------------------------------------------
(* The theorem.                                                            *)

LEMMA NextStep == IInv /\ [Next]_vars => IInv'
  <1> SUFFICES ASSUME IInv, [Next]_vars PROVE IInv'
    OBVIOUS
  <1>1. CASE Goroutine
    BY <1>1, RecvStep, HandleConnectStep, HandleTrackedStep, HandleOtherStep, SendSnapshotStep,
       EndStep DEF Goroutine
  <1>2. CASE (\E ev \in Inputs : Arrive(ev)) \/ EventsEnd \/ TakeRaw \/ TakeConn
    BY <1>2, EnvironmentStep
  <1>3. CASE Terminated \/ UNCHANGED vars
    <2>1. UNCHANGED vars
      BY <1>3 DEF Terminated
    <2>2. TypeOK'
      BY <2>1 DEF IInv, TypeOK, vars
    <2> QED
      BY <2>1, <2>2, SameTable DEF vars
  <1> QED
    BY <1>1, <1>2, <1>3 DEF Next

\* For any events in any order: no two tracked connections share a Seq, and
\* the snapshots consumers see of one Seq are states of one connection, with
\* growing byte counts, none after the one that says closed.
THEOREM CorrelatorSafety == Spec => [](TypeOK /\ SeqUnique /\ SnapshotsAreLifecycles)
  <1>1. IInv => TypeOK /\ SeqUnique /\ SnapshotsAreLifecycles
    BY DEF IInv
  <1> QED
    BY <1>1, InitIInv, NextStep, PTL DEF Spec

\* The correlator's state is well typed and its channels stay within their
\* capacities.
THEOREM CorrelatorTypeOK == Spec => []TypeOK
  BY CorrelatorSafety, PTL

\* No two tracked connections ever share a Seq, however fds are reused.
THEOREM CorrelatorSeqUnique == Spec => []SeqUnique
  BY CorrelatorSafety, PTL

-----------------------------------------------------------------------------
(* The table against the history.                                          *)

\* The events the table accounts for: a close once its snapshot is sent.
Accounted == IF pc = "conn" /\ cur[1].op = "close" THEN Front(handled) ELSE handled

\* The event in hand was handled last.
LastHandled == pc = "conn" => handled # <<>> /\ handled[Len(handled)] = cur[1]

HistInv == LastHandled /\ Matches(tracked, Accounted)

\* What the three arms of the switch do first.
LEMMA HandledFacts ==
    ASSUME IInv, HistInv, PassRaw
    PROVE  /\ pc = "raw" /\ handled \in Seq(Inputs) /\ cur[1] \in Inputs
           /\ handled' = Append(handled, cur[1]) /\ handled' # <<>>
           /\ handled'[Len(handled')] = cur[1] /\ Front(handled') = handled
           /\ Matches(tracked, handled)
           /\ \A k \in DOMAIN tracked : tracked[k] \in Connections /\ BytesType(tracked[k])
  <1>1. pc = "raw" /\ TypeOK /\ handled' = Append(handled, cur[1])
    BY DEF IInv, PassRaw
  <1>2. handled \in Seq(Inputs) /\ cur[1] \in Inputs
    BY <1>1, CurFacts DEF TypeOK
  <1>3. handled' # <<>> /\ handled'[Len(handled')] = cur[1]
    BY <1>1, <1>2
  <1>4. Front(handled') = handled
    BY <1>1, <1>2, FrontAppend
  <1>5. Matches(tracked, handled)
    BY <1>1 DEF HistInv, Accounted
  <1>6. \A k \in DOMAIN tracked : tracked[k] \in Connections /\ BytesType(tracked[k])
    BY <1>1, Zenon DEF TypeOK, Connections, BytesType
  <1> QED
    BY <1>1, <1>2, <1>3, <1>4, <1>5, <1>6

LEMMA HistConnect == IInv /\ HistInv /\ HandleConnect => HistInv'
  <1> SUFFICES ASSUME IInv, HistInv, HandleConnect PROVE HistInv'
    OBVIOUS
  <1> DEFINE k == KeyOf(cur[1])
             c == NewConnection(nextSeq + 1, cur[1])
  <1>1. PassRaw /\ cur[1].op = "connect" /\ tracked' = Track(k, c) /\ pc' = "conn" /\ cur' = cur
    BY DEF HandleConnect
  <1>2. /\ handled \in Seq(Inputs) /\ cur[1] \in Inputs
        /\ handled' = Append(handled, cur[1]) /\ handled' # <<>>
        /\ handled'[Len(handled')] = cur[1] /\ Matches(tracked, handled)
        /\ \A x \in DOMAIN tracked : BytesType(tracked[x])
    BY <1>1, HandledFacts
  <1>3. c.addr = cur[1].addr /\ c.bytesOut = 0 /\ c.bytesIn = 0
    BY DEF NewConnection
  <1> HIDE DEF c
  <1>4. /\ DOMAIN tracked' = DOMAIN tracked \cup {k} /\ tracked'[k] = c
        /\ \A x \in DOMAIN tracked \ {k} : tracked'[x] = tracked[x]
    BY <1>1 DEF Track
  <1>5. Matches(tracked', Append(handled, cur[1]))
    BY <1>1, <1>2, <1>3, <1>4, MatchesConnect, Zenon
  <1>6. Accounted' = handled'
    BY <1>1 DEF Accounted
  <1> QED
    BY <1>1, <1>2, <1>5, <1>6 DEF HistInv, LastHandled

LEMMA UpdatedBytes ==
    ASSUME NEW c \in Connections, NEW ev \in Inputs
    PROVE  LET u == Updated(c, ev) IN
             /\ u.addr = c.addr
             /\ u.bytesOut = c.bytesOut + (IF ev.op = "write" THEN ev.total ELSE 0)
             /\ u.bytesIn = c.bytesIn + (IF ev.op = "read" THEN ev.total ELSE 0)
  <1>1. c.bytesOut \in Nat /\ c.bytesIn \in Nat /\ ev.total \in Nat
    BY CorrelatorAssumption DEF Connections
  <1>2. /\ Updated(c, ev).addr = c.addr
        /\ Updated(c, ev).bytesOut = IF ev.op = "write" THEN c.bytesOut + ev.total ELSE c.bytesOut
        /\ Updated(c, ev).bytesIn = IF ev.op = "read" THEN c.bytesIn + ev.total ELSE c.bytesIn
    BY DEF Updated, Connections
  <1> QED
    BY <1>1, <1>2

LEMMA HistTracked == IInv /\ HistInv /\ HandleTracked => HistInv'
  <1> SUFFICES ASSUME IInv, HistInv, HandleTracked PROVE HistInv'
    OBVIOUS
  <1> DEFINE k == KeyOf(cur[1])
             u == Updated(tracked[k], cur[1])
  <1>1. /\ PassRaw /\ cur[1].op \in {"write", "read", "close"} /\ k \in DOMAIN tracked
        /\ tracked' = Track(k, u) /\ pc' = "conn" /\ cur' = cur
    BY DEF HandleTracked
  <1>2. /\ handled \in Seq(Inputs) /\ cur[1] \in Inputs
        /\ handled' = Append(handled, cur[1]) /\ handled' # <<>>
        /\ handled'[Len(handled')] = cur[1] /\ Front(handled') = handled
        /\ Matches(tracked, handled)
        /\ \A x \in DOMAIN tracked : tracked[x] \in Connections /\ BytesType(tracked[x])
    BY <1>1, HandledFacts
  <1>3. /\ u.addr = tracked[k].addr
        /\ u.bytesOut = tracked[k].bytesOut + (IF cur[1].op = "write" THEN cur[1].total ELSE 0)
        /\ u.bytesIn = tracked[k].bytesIn + (IF cur[1].op = "read" THEN cur[1].total ELSE 0)
    BY <1>1, <1>2, UpdatedBytes
  <1> HIDE DEF u
  <1>4. /\ DOMAIN tracked' = DOMAIN tracked /\ tracked'[k] = u
        /\ \A x \in DOMAIN tracked \ {k} : tracked'[x] = tracked[x]
    BY <1>1 DEF Track
  <1>5. CASE cur[1].op \in {"write", "read"}
    <2>1. Matches(tracked', Append(handled, cur[1]))
      BY <1>1, <1>2, <1>3, <1>4, <1>5, MatchesUpdate
    <2>2. Accounted' = handled'
      BY <1>1, <1>5 DEF Accounted
    <2> QED
      BY <1>1, <1>2, <2>1, <2>2 DEF HistInv, LastHandled
  <1>6. CASE cur[1].op = "close"
    <2>1. \A x \in DOMAIN tracked :
             /\ tracked'[x].addr = tracked[x].addr
             /\ tracked'[x].bytesOut = tracked[x].bytesOut /\ tracked'[x].bytesIn = tracked[x].bytesIn
      <3>1. /\ tracked[k].bytesOut \in Nat /\ tracked[k].bytesIn \in Nat
        BY <1>1, <1>2 DEF BytesType
      <3>2. /\ u.addr = tracked[k].addr /\ u.bytesOut = tracked[k].bytesOut
            /\ u.bytesIn = tracked[k].bytesIn
        BY <1>3, <1>6, <3>1
      <3> QED
        BY <1>1, <1>4, <3>2
    <2>2. Matches(tracked', handled)
      BY <1>2, <1>4, <2>1 DEF Matches
    <2>3. Accounted' = handled
      BY <1>1, <1>2, <1>6 DEF Accounted
    <2> QED
      BY <1>1, <1>2, <2>2, <2>3 DEF HistInv, LastHandled
  <1> QED
    BY <1>1, <1>5, <1>6

LEMMA HistOther == IInv /\ HistInv /\ HandleOther => HistInv'
  <1> SUFFICES ASSUME IInv, HistInv, HandleOther PROVE HistInv'
    OBVIOUS
  <1>1. /\ PassRaw /\ cur[1].op # "connect" /\ tracked' = tracked /\ pc' = "recv"
        /\ cur[1].op \in {"write", "read", "close"} => KeyOf(cur[1]) \notin DOMAIN tracked
    BY DEF HandleOther
  <1>2. /\ handled \in Seq(Inputs) /\ cur[1] \in Inputs
        /\ handled' = Append(handled, cur[1]) /\ Matches(tracked, handled)
        /\ \A x \in DOMAIN tracked : BytesType(tracked[x])
    BY <1>1, HandledFacts
  <1>3. DOMAIN tracked = IF cur[1].op = "close" THEN DOMAIN tracked \ {KeyOf(cur[1])}
                         ELSE DOMAIN tracked
    BY <1>1
  <1>4. Matches(tracked, Append(handled, cur[1]))
    BY <1>1, <1>2, <1>3, MatchesRest, Zenon
  <1> QED
    BY <1>1, <1>2, <1>4 DEF HistInv, LastHandled, Accounted

\* The close is accounted for when its snapshot is sent.
LEMMA HistSend == IInv /\ HistInv /\ SendSnapshot => HistInv'
  <1> SUFFICES ASSUME IInv, HistInv, SendSnapshot PROVE HistInv'
    OBVIOUS
  <1> DEFINE k == KeyOf(cur[1])
  <1>1. /\ pc = "conn" /\ pc' = "recv" /\ handled' = handled /\ TypeOK
        /\ tracked' = IF cur[1].op = "close" THEN Untrack(k) ELSE tracked
    BY DEF SendSnapshot, IInv
  <1>2. LastHandled' /\ Accounted' = handled
    BY <1>1 DEF LastHandled, Accounted
  <1>3. CASE cur[1].op # "close"
    BY <1>1, <1>2, <1>3 DEF HistInv, Accounted
  <1>4. CASE cur[1].op = "close"
    <2> DEFINE h == Front(handled)
    <2>1. /\ handled \in Seq(Inputs) /\ handled # <<>> /\ handled[Len(handled)] = cur[1]
          /\ Matches(tracked, h)
      BY <1>1, <1>4 DEF HistInv, LastHandled, Accounted, TypeOK
    <2>2. h \in Seq(Inputs) /\ cur[1] \in Inputs /\ handled = Append(h, cur[1])
      BY <2>1, FrontLast
    <2>3. \A x \in DOMAIN tracked : BytesType(tracked[x])
      BY <1>1 DEF TypeOK, Connections, BytesType
    <2>4. /\ DOMAIN tracked' = DOMAIN tracked \ {k}
          /\ \A x \in DOMAIN tracked' : tracked'[x] = tracked[x]
      BY <1>1, <1>4 DEF Untrack
    <2> HIDE DEF h
    <2>5. Matches(tracked', Append(h, cur[1]))
      BY <1>4, <2>1, <2>2, <2>3, <2>4, MatchesRest, Zenon
    <2> QED
      BY <1>2, <2>2, <2>5 DEF HistInv
  <1> QED
    BY <1>3, <1>4

LEMMA HistNext == IInv /\ HistInv /\ [Next]_vars => HistInv'
  <1> SUFFICES ASSUME IInv, HistInv, [Next]_vars PROVE HistInv'
    OBVIOUS
  <1>1. CASE HandleConnect \/ HandleTracked \/ HandleOther \/ SendSnapshot
    BY <1>1, HistConnect, HistTracked, HistOther, HistSend
  <1>2. CASE Recv \/ EndOfEvents \/ CloseRaw
    <2>1. pc # "conn" /\ pc' # "conn" /\ UNCHANGED <<tracked, handled>>
      BY <1>2 DEF Recv, EndOfEvents, CloseRaw
    <2> QED
      BY <2>1 DEF HistInv, LastHandled, Accounted
  <1>3. CASE \/ \E ev \in Inputs : Arrive(ev)
             \/ EventsEnd \/ TakeRaw \/ TakeConn \/ Terminated \/ UNCHANGED vars
    <2>1. UNCHANGED <<pc, cur, tracked, handled>>
      BY <1>3, Zenon DEF Arrive, EventsEnd, TakeRaw, TakeConn, Terminated, vars
    <2> QED
      BY <2>1 DEF HistInv, LastHandled, Accounted
  <1> QED
    BY <1>1, <1>2, <1>3 DEF Next, Goroutine

\* For any events in any order: the table holds exactly the connections that
\* the events handled leave open, each with the endpoint of its connect and
\* the true number of bytes written and read since.
THEOREM CorrelatorTrackedMatchesHistory == Spec => []TrackedMatchesHistory
  <1>1. Init => HistInv
    <2> SUFFICES ASSUME Init PROVE HistInv
      OBVIOUS
    <2>1. pc = "recv" /\ handled = <<>> /\ DOMAIN tracked = {}
      BY DEF Init
    <2>2. DOMAIN handled = {}
      BY <2>1
    <2> QED
      BY <2>1, <2>2 DEF HistInv, LastHandled, Accounted, Matches
  <1>2. HistInv => TrackedMatchesHistory
    BY DEF HistInv, Accounted, TrackedMatchesHistory
  <1> QED
    BY <1>1, <1>2, InitIInv, NextStep, HistNext, PTL DEF Spec

-----------------------------------------------------------------------------
(* The composition.                                                        *)

\* The streamer's theorems, for the streamer of the trace.
SP == INSTANCE StreamerProofs WITH
        events <- raw, raw <- raw2, pc <- spc, cur <- scur, EventsCap <- RawCap,
        RawCap <- Raw2Cap, sent <- handled, rawTaken <- shown["events"] \o msg["events"],
        outTaken <- shown["http"] \o msg["http"]

LEMMA StreamerConstants == SP!StreamerAssumption /\ SP!CapAssumption
  BY TraceAssumption, CorrelatorAssumption, CapAssumption
     DEF SP!StreamerAssumption, SP!CapAssumption, SP!Ops, Ops

-----------------------------------------------------------------------------
(* The tabs.                                                               *)

\* What tab t has taken from its channel.
Got(t) == shown[t] \o msg[t]

\* A tab holds at most the one value its command posted, and a tab that has
\* ended asks no more.
TabInv ==
    /\ cmd \in [U!Tabs -> {"waiting", "posted", "none"}] /\ closed \in [U!Tabs -> BOOLEAN]
    /\ DOMAIN msg = U!Tabs /\ DOMAIN shown = U!Tabs
    /\ \A t \in U!Tabs :
          /\ msg[t] \in Seq(ToSet(msg[t])) /\ shown[t] \in Seq(ToSet(shown[t]))
          /\ Len(msg[t]) <= 1 /\ (msg[t] # <<>> => cmd[t] = "posted")
          /\ (closed[t] => cmd[t] = "none")
    /\ active \in 0 .. 2 /\ running \in BOOLEAN

LEMMA TabsAre == U!Tabs = {"events", "conns", "http"}
  BY DEF U!Tabs

LEMMA OneInSeq ==
    ASSUME NEW x
    PROVE  <<x>> \in Seq(ToSet(<<x>>)) /\ <<>> \in Seq(ToSet(<<>>)) /\ <<x>> # <<>> /\ Len(<<x>>) = 1
  <1> DEFINE X == {x}
  <1>1. x \in X
    OBVIOUS
  <1> HIDE DEF X
  <1>2. <<x>> \in Seq(X) /\ <<x>> # <<>> /\ Len(<<x>>) = 1 /\ DOMAIN <<x>> = 1 .. 1 /\ <<x>>[1] = x
    BY <1>1
  <1>3. <<x>>[1] \in ToSet(<<x>>)
    BY <1>2 DEF ToSet
  <1>4. <<x>> \in Seq(ToSet(<<x>>))
    <2> DEFINE s == <<x>>
               Y == ToSet(s)
    <2>1. s \in Seq(X) /\ \A i \in 1 .. Len(s) : s[i] \in Y
      BY <1>2, <1>3
    <2> HIDE DEF s, Y
    <2>2. s \in Seq(Y)
      BY <2>1, SeqByElements
    <2> QED
      BY <2>2 DEF s, Y
  <1> QED
    BY <1>2, <1>4

\* A command that posts a value, and one that posts the end.
LEMMA PostTab ==
    ASSUME TabInv, NEW t \in U!Tabs, cmd[t] = "waiting", NEW x, U!Post(t, <<x>>)
    PROVE  /\ TabInv' /\ msg[t] = <<>> /\ Got(t)' = Append(Got(t), x)
           /\ \A u \in U!Tabs \ {t} : Got(u)' = Got(u)
  <1>1. msg[t] = <<>> /\ shown[t] \in Seq(ToSet(shown[t]))
    BY DEF TabInv
  <1>2. /\ msg' = [msg EXCEPT ![t] = <<x>>] /\ cmd' = [cmd EXCEPT ![t] = "posted"]
        /\ UNCHANGED <<closed, shown, active, running>>
    BY DEF U!Post
  <1>3. /\ DOMAIN msg' = U!Tabs /\ msg'[t] = <<x>> /\ \A u \in U!Tabs \ {t} : msg'[u] = msg[u]
        /\ cmd'[t] = "posted" /\ \A u \in U!Tabs \ {t} : cmd'[u] = cmd[u]
        /\ cmd' \in [U!Tabs -> {"waiting", "posted", "none"}]
    BY <1>2 DEF TabInv
  <1>4. <<x>> \in Seq(ToSet(<<x>>)) /\ <<x>> # <<>> /\ Len(<<x>>) = 1
    BY OneInSeq
  <1>5. TabInv'
    <2>1. ~closed[t]
      BY DEF TabInv
    <2>2. ASSUME NEW u \in U!Tabs
          PROVE  /\ msg'[u] \in Seq(ToSet(msg'[u])) /\ Len(msg'[u]) <= 1
                 /\ (msg'[u] # <<>> => cmd'[u] = "posted") /\ (closed[u] => cmd'[u] = "none")
      <3>1. CASE u = t
        <4>1. PICK y : y = <<x>>
          OBVIOUS
        <4>2. y \in Seq(ToSet(y)) /\ y # <<>> /\ Len(y) = 1
          BY <1>4, <4>1
        <4>3. msg'[t] = y
          BY <1>3, <4>1
        <4>4. cmd'[t] = "posted"
          BY <1>3
        <4>5. Len(y) <= 1
          BY <4>2
        <4>6. /\ msg'[t] \in Seq(ToSet(msg'[t])) /\ Len(msg'[t]) <= 1
          BY <4>2, <4>3, <4>5, Zenon
        <4> QED
          BY <4>6, <4>4, <2>1, <3>1, Zenon
      <3>2. CASE u # t
        BY <1>3, <3>2 DEF TabInv
      <3> QED
        BY <3>1, <3>2
    <2> QED
      BY <1>2, <1>3, <2>2 DEF TabInv
  <1>6. Got(t) = shown[t] /\ Got(t)' = shown[t] \o <<x>>
    <2>1. shown[t] \o <<>> = shown[t]
      BY <1>1
    <2> QED
      BY <1>1, <1>2, <1>3, <2>1 DEF Got
  <1>7. shown[t] \o <<x>> = Append(shown[t], x)
    <2>1. PICK s : s = shown[t]
      OBVIOUS
    <2> QED
      BY <1>1, <2>1, ConcatOne
  <1>8. \A u \in U!Tabs \ {t} : Got(u)' = Got(u)
    BY <1>2, <1>3 DEF Got
  <1> QED
    BY <1>1, <1>5, <1>6, <1>7, <1>8

LEMMA PostEnd ==
    ASSUME TabInv, NEW t \in U!Tabs, cmd[t] = "waiting", U!Post(t, <<>>)
    PROVE  /\ TabInv' /\ \A u \in U!Tabs : Got(u)' = Got(u)
           /\ \A u \in U!Tabs : msg'[u] = msg[u]
  <1>1. msg[t] = <<>>
    BY DEF TabInv
  <1>2. /\ msg' = [msg EXCEPT ![t] = <<>>] /\ cmd' = [cmd EXCEPT ![t] = "posted"]
        /\ UNCHANGED <<closed, shown, active, running>>
    BY DEF U!Post
  <1>3. /\ DOMAIN msg' = U!Tabs /\ \A u \in U!Tabs : msg'[u] = msg[u]
        /\ cmd'[t] = "posted" /\ \A u \in U!Tabs \ {t} : cmd'[u] = cmd[u]
        /\ cmd' \in [U!Tabs -> {"waiting", "posted", "none"}]
    BY <1>1, <1>2 DEF TabInv
  <1>4. TabInv'
    <2>1. closed[t] = FALSE
      BY DEF TabInv
    <2> QED
      BY <1>1, <1>2, <1>3, <2>1 DEF TabInv
  <1>5. \A u \in U!Tabs : Got(u)' = Got(u)
    BY <1>2, <1>3, Zenon DEF Got
  <1> QED
    BY <1>3, <1>4, <1>5

\* An update takes the posted value into the rows: it was taken already.
LEMMA RearmTab ==
    ASSUME TabInv, NEW t \in U!Tabs, U!Rearm(t)
    PROVE  /\ TabInv' /\ \A u \in U!Tabs : Got(u)' = Got(u)
           /\ msg[t] = <<msg[t][1]>> /\ shown'[t] = Append(shown[t], msg[t][1])
           /\ \A u \in U!Tabs \ {t} : shown'[u] = shown[u] /\ msg'[u] = msg[u]
           /\ msg'[t] = <<>> /\ cmd'[t] = "waiting" /\ \A u \in U!Tabs \ {t} : cmd'[u] = cmd[u]
  <1>1. /\ msg[t] # <<>> /\ cmd[t] = "posted" /\ msg[t] \in Seq(ToSet(msg[t]))
        /\ Len(msg[t]) <= 1 /\ shown[t] \in Seq(ToSet(shown[t])) /\ closed[t] = FALSE
    BY DEF U!Rearm, TabInv
  <1>2. PICK m, s : m = msg[t] /\ s = shown[t]
    OBVIOUS
  <1>3. m = <<m[1]>>
    <2>1. m \in Seq(ToSet(m)) /\ m # <<>> /\ Len(m) <= 1
      BY <1>1, <1>2
    <2>2. PICK T : m \in Seq(T)
      BY <2>1
    <2>3. Len(m) = 1
      BY <2>1, <2>2
    <2> QED
      BY <2>2, <2>3, SingletonSeq
  <1>4. s \o <<m[1]>> = Append(s, m[1]) /\ Append(s, m[1]) \in Seq(ToSet(Append(s, m[1])))
    BY <1>1, <1>2, ConcatOne, AppendToSet
  <1>5. /\ msg' = [msg EXCEPT ![t] = <<>>] /\ cmd' = [cmd EXCEPT ![t] = "waiting"]
        /\ shown' = [shown EXCEPT ![t] = Append(s, m[1])]
        /\ UNCHANGED <<closed, active, running>>
    BY <1>2 DEF U!Rearm
  <1>6. /\ DOMAIN msg' = U!Tabs /\ msg'[t] = <<>> /\ \A u \in U!Tabs \ {t} : msg'[u] = msg[u]
        /\ cmd'[t] = "waiting" /\ \A u \in U!Tabs \ {t} : cmd'[u] = cmd[u]
        /\ cmd' \in [U!Tabs -> {"waiting", "posted", "none"}]
        /\ DOMAIN shown' = U!Tabs /\ shown'[t] = Append(s, m[1])
        /\ \A u \in U!Tabs \ {t} : shown'[u] = shown[u]
    BY <1>5 DEF TabInv
  <1>7. TabInv'
    <2>1. <<>> \in Seq(ToSet(<<>>)) /\ Len(<<>>) <= 1
      OBVIOUS
    <2> QED
      BY <1>1, <1>4, <1>5, <1>6, <2>1, Zenon DEF TabInv
  <1>8. \A u \in U!Tabs : Got(u)' = Got(u)
    <2>1. Append(s, m[1]) \o <<>> = Append(s, m[1])
      BY <1>4
    <2>2. Got(t)' = Got(t)
      BY <1>2, <1>3, <1>4, <1>6, <2>1, Zenon DEF Got
    <2> QED
      BY <1>6, <2>2, Zenon DEF Got
  <1> QED
    BY <1>2, <1>3, <1>6, <1>7, <1>8

LEMMA EndTab ==
    ASSUME TabInv, NEW t \in U!Tabs, U!UpdateClosed(t)
    PROVE  TabInv' /\ \A u \in U!Tabs : Got(u)' = Got(u)
  <1>1. /\ UNCHANGED <<msg, shown, active, running>>
        /\ closed' = [closed EXCEPT ![t] = TRUE] /\ cmd' = [cmd EXCEPT ![t] = "none"]
        /\ msg[t] = <<>>
    BY DEF U!UpdateClosed
  <1> QED
    BY <1>1 DEF TabInv, Got

LEMMA KeyTabs ==
    ASSUME TabInv, U!KeyTab \/ U!KeyQuit
    PROVE  TabInv' /\ \A u \in U!Tabs : Got(u)' = Got(u)
  <1>1. \A n \in 0 .. 2 : (n + 1) % 3 \in 0 .. 2
    OBVIOUS
  <1>2. UNCHANGED <<msg, shown, cmd, closed>>
    BY DEF U!KeyTab, U!KeyQuit, U!tabVars
  <1>3. active \in 0 .. 2 /\ running \in BOOLEAN
    BY DEF TabInv
  <1>4. active' \in 0 .. 2 /\ running' \in BOOLEAN
    BY <1>1, <1>3, Zenon DEF U!KeyTab, U!KeyQuit
  <1> QED
    BY <1>2, <1>4 DEF TabInv, Got

LEMMA OtherTabs ==
    ASSUME TabInv, UNCHANGED tuiVars
    PROVE  TabInv' /\ \A u \in U!Tabs : Got(u)' = Got(u)
  BY DEF TabInv, Got, tuiVars

-----------------------------------------------------------------------------
(* The trace runs the correlator.                                          *)

LEMMA WaitCases ==
    ASSUME TabInv, WaitStep
    PROVE  \/ /\ Got("events")' = Got("events") /\ Got("conns")' = Got("conns")
              /\ Got("http")' = Got("http") /\ UNCHANGED <<raw2, conns, out>>
              /\ \E t \in U!Tabs : /\ cmd[t] = "waiting" /\ U!Post(t, <<>>)
                                   /\ t = "events" => Drained(raw2)
                                   /\ t = "conns" => Drained(conns)
                                   /\ t = "http" => Drained(out)
           \/ /\ HasValue(raw2) /\ raw2' = Receive(raw2) /\ UNCHANGED <<conns, out>>
              /\ cmd["events"] = "waiting" /\ U!Post("events", <<Head(raw2.buf)>>)
           \/ /\ HasValue(conns) /\ conns' = Receive(conns) /\ UNCHANGED <<raw2, out>>
              /\ cmd["conns"] = "waiting" /\ U!Post("conns", <<Head(conns.buf)>>)
           \/ /\ HasValue(out) /\ out' = Receive(out) /\ UNCHANGED <<raw2, conns>>
              /\ cmd["http"] = "waiting" /\ U!Post("http", <<Head(out.buf)>>)
  <1> USE DEF U!ReceiveFrom, U!After, U!HasValue, U!Drained, U!Receive, HasValue, Drained, Receive
  <1>1. CASE U!WaitForEvent
    <2>1. CASE HasValue(raw2)
      BY <1>1, <2>1 DEF U!WaitForEvent
    <2>2. CASE ~HasValue(raw2)
      <3>1. /\ Drained(raw2) /\ cmd["events"] = "waiting" /\ U!Post("events", <<>>)
            /\ UNCHANGED <<raw2, conns, out>> /\ "events" \in U!Tabs
        BY <1>1, <2>2, TabsAre DEF U!WaitForEvent
      <3> QED
        BY <3>1, PostEnd, TabsAre
    <2> QED
      BY <2>1, <2>2
  <1>2. CASE U!WaitForConn
    <2>1. CASE HasValue(conns)
      BY <1>2, <2>1 DEF U!WaitForConn
    <2>2. CASE ~HasValue(conns)
      <3>1. /\ Drained(conns) /\ cmd["conns"] = "waiting" /\ U!Post("conns", <<>>)
            /\ UNCHANGED <<raw2, conns, out>> /\ "conns" \in U!Tabs
        BY <1>2, <2>2, TabsAre DEF U!WaitForConn
      <3> QED
        BY <3>1, PostEnd, TabsAre
    <2> QED
      BY <2>1, <2>2
  <1>3. CASE U!WaitForExchange
    <2>1. CASE HasValue(out)
      BY <1>3, <2>1 DEF U!WaitForExchange
    <2>2. CASE ~HasValue(out)
      <3>1. /\ Drained(out) /\ cmd["http"] = "waiting" /\ U!Post("http", <<>>)
            /\ UNCHANGED <<raw2, conns, out>> /\ "http" \in U!Tabs
        BY <1>3, <2>2, TabsAre DEF U!WaitForExchange
      <3> QED
        BY <3>1, PostEnd, TabsAre
    <2> QED
      BY <2>1, <2>2
  <1> QED
    BY <1>1, <1>2, <1>3 DEF WaitStep, U!Waits

\* An update or a key touches neither the channels nor what was taken.
LEMMA UpdateTabs ==
    ASSUME TabInv, UpdateStep \/ KeyStep
    PROVE  /\ TabInv' /\ UNCHANGED <<raw2, conns, out>>
           /\ \A t \in U!Tabs : Got(t)' = Got(t)
  <1>1. CASE U!UpdateEvents
    BY <1>1, RearmTab, TabsAre DEF U!UpdateEvents, U!Rearm
  <1>2. CASE U!UpdateConns
    BY <1>2, RearmTab, TabsAre DEF U!UpdateConns, U!Rearm
  <1>3. CASE U!UpdateHTTP
    BY <1>3, RearmTab, TabsAre DEF U!UpdateHTTP, U!Rearm
  <1>4. ASSUME NEW t \in U!Tabs, U!UpdateClosed(t)
        PROVE  TabInv' /\ UNCHANGED <<raw2, conns, out>> /\ \A u \in U!Tabs : Got(u)' = Got(u)
    BY <1>4, EndTab, Zenon DEF U!UpdateClosed
  <1>5. CASE U!KeyTab \/ U!KeyQuit
    BY <1>5, KeyTabs, Zenon DEF U!KeyTab, U!KeyQuit
  <1> QED
    BY <1>1, <1>2, <1>3, <1>4, <1>5 DEF UpdateStep, U!Updates, KeyStep

\* Every step of the trace is one of the correlator's steps or leaves its
\* variables alone: the streamer receives from raw, the Connections tab from
\* conns.
LEMMA IsCorrelatorStep == TabInv /\ [TraceNext]_traceVars => [Next]_vars
  <1> SUFFICES ASSUME TabInv, [TraceNext]_traceVars PROVE [Next]_vars
    OBVIOUS
  <1>1. CASE CollectorStep
    BY <1>1 DEF CollectorStep, Next
  <1>2. CASE CorrelatorStep
    BY <1>2 DEF CorrelatorStep, Next
  <1>3. CASE StreamerStep
    <2>1. S!Goroutine /\ UNCHANGED <<events, conns, pc, cur, tracked, nextSeq, handled, snaps>>
      BY <1>3 DEF StreamerStep, correlatorVars
    <2>2. CASE S!Recv
      BY <2>1, <2>2 DEF S!Recv, S!HasValue, S!Receive, TakeRaw, HasValue, Receive, Next
    <2>3. CASE ~S!Recv
      <3>1. UNCHANGED raw
        BY <2>1, <2>3 DEF S!Goroutine, S!HandleConnect, S!HandleData, S!HandleClose, S!PassRaw,
           S!SendExchange, S!EndOfEvents, S!FlushOne, S!CloseOut, S!CloseRaw
      <3> QED
        BY <2>1, <3>1 DEF vars
    <2> QED
      BY <2>2, <2>3
  <1>4. CASE WaitStep
    <2>1. UNCHANGED <<events, raw, pc, cur, tracked, nextSeq, handled, snaps>>
      BY <1>4 DEF WaitStep, correlatorVars
    <2>2. \/ UNCHANGED conns
          \/ HasValue(conns) /\ conns' = Receive(conns)
      BY <1>4, WaitCases
    <2> QED
      BY <2>1, <2>2 DEF TakeConn, Next, vars
  <1>5. CASE UpdateStep \/ KeyStep
    BY <1>5, UpdateTabs DEF UpdateStep, KeyStep, vars, correlatorVars
  <1>6. CASE Quit \/ UNCHANGED traceVars
    BY <1>6 DEF Quit, traceVars, vars, correlatorVars
  <1> QED
    BY <1>1, <1>2, <1>3, <1>4, <1>5, <1>6 DEF TraceNext

-----------------------------------------------------------------------------
(* The trace runs the streamer.                                            *)

\* The streamer of the trace is the one its theorems are about.
LEMMA SameGoroutine == S!Goroutine => SP!Goroutine
  <1> USE DEF S!HasValue, SP!HasValue, S!HasRoom, SP!HasRoom, S!Receive, SP!Receive, S!Send, SP!Send,
              S!NextIteration, SP!NextIteration, S!PassRaw, SP!PassRaw, S!Drained, SP!Drained
  <1>0. SUFFICES ASSUME S!Goroutine PROVE SP!Goroutine
    OBVIOUS
  <1>1. CASE S!Recv
    BY <1>1 DEF S!Recv, SP!Recv, SP!Goroutine
  <1>2. CASE S!HandleConnect
    BY <1>2 DEF S!HandleConnect, SP!HandleConnect, SP!Goroutine
  <1>k. \A ev : S!KeyOf(ev) = SP!KeyOf(ev)
    BY DEF S!KeyOf, SP!KeyOf, S!WidenFd, SP!WidenFd
  <1>d. \A p, f, b : S!Decode(p, f, b) = SP!Decode(p, f, b)
    BY DEF S!Decode, SP!Decode
  <1>e. \A k : S!Delete(k) = SP!Delete(k) /\ S!FlushExchange(k) = SP!FlushExchange(k)
    BY <1>d DEF S!Delete, SP!Delete, S!FlushExchange, SP!FlushExchange, S!NarrowFd, SP!NarrowFd
  <1>f. \A ex : S!Decoded(ex) <=> SP!Decoded(ex)
    BY DEF S!Decoded, SP!Decoded
  <1>b. \A b, ev : S!Buffered(b, ev) = SP!Buffered(b, ev)
    BY DEF S!Buffered, SP!Buffered, S!AppendCapped, SP!AppendCapped, S!Payload, SP!Payload,
           S!Truncated, SP!Truncated, S!ReadOps, SP!ReadOps, S!WriteOps, SP!WriteOps
  <1>3. CASE S!HandleData
    BY <1>3, <1>k, <1>b DEF S!HandleData, SP!HandleData, S!Put, SP!Put, S!Get, SP!Get, S!NewBufs, SP!NewBufs,
       S!ReadOps, SP!ReadOps, S!WriteOps, SP!WriteOps, SP!Goroutine
  <1>4. CASE S!HandleClose
    BY <1>4, <1>k, <1>d, <1>e, <1>f DEF S!HandleClose, SP!HandleClose, SP!Goroutine
  <1>5. CASE S!SendExchange
    BY <1>5, <1>k, <1>d, <1>e, Zenon DEF S!SendExchange, SP!SendExchange, SP!Goroutine
  <1>6. CASE S!EndOfEvents \/ S!CloseOut \/ S!CloseRaw
    BY <1>6 DEF S!EndOfEvents, SP!EndOfEvents, S!CloseOut, SP!CloseOut, S!CloseRaw, SP!CloseRaw,
       S!CloseChan, SP!CloseChan, SP!Goroutine
  <1>7. ASSUME NEW k \in todo, S!FlushOne(k) PROVE SP!Goroutine
    BY <1>7, <1>e, <1>f DEF S!FlushOne, SP!FlushOne, SP!Goroutine
  <1> QED
    BY <1>0, <1>1, <1>2, <1>3, <1>4, <1>5, <1>6, <1>7 DEF S!Goroutine

\* A channel that has been closed is one its goroutine has done with, and a
\* goroutine past its loop has found its input closed and empty.
EndInv ==
    /\ raw.closed => pc = "done"
    /\ conns.closed => pc \in {"closeraw", "done"}
    /\ pc \in {"closeraw", "done"} => Drained(events)
    /\ raw2.closed => spc = "done"
    /\ out.closed => spc \in {"closeraw", "done"} /\ todo = {}
    /\ spc \in {"flush", "closeraw", "done"} => Drained(raw)

\* No more events than the bound are under way.
CountInv == Len(handled) + (IF pc = "raw" THEN 1 ELSE 0) + Len(events.buf) <= MaxEvents

\* Every step of the trace is one of the streamer's steps or leaves its
\* variables alone: the correlator feeds it, and the Events and HTTP tabs
\* receive from it.
LEMMA IsStreamerStep ==
    TypeOK /\ TabInv /\ EndInv /\ CountInv /\ [TraceNext]_traceVars => [SP!Next]_(SP!vars)
  <1> SUFFICES ASSUME TypeOK, TabInv, EndInv, CountInv, [TraceNext]_traceVars
               PROVE  [SP!Next]_(SP!vars)
    OBVIOUS
  <1>t. "events" \in U!Tabs /\ "conns" \in U!Tabs /\ "http" \in U!Tabs
    BY TabsAre
  <1>s. ASSUME UNCHANGED <<raw, raw2, out, spc, scur, bufs, todo, handled>>,
               Got("events")' = Got("events"), Got("http")' = Got("http")
        PROVE  UNCHANGED (SP!vars)
    BY <1>s DEF SP!vars, Got
  <1>1. CASE CollectorStep
    <2>1. UNCHANGED <<raw, handled, raw2, out, spc, scur, bufs, todo>> /\ UNCHANGED tuiVars
      BY <1>1, Zenon DEF CollectorStep, Arrive, EventsEnd, streamerVars
    <2> QED
      BY <2>1, <1>s, <1>t, OtherTabs
  <1>2. CASE CorrelatorStep
    <2>1. UNCHANGED <<raw2, out, spc, scur, bufs, todo>> /\ UNCHANGED tuiVars /\ Goroutine
      BY <1>2 DEF CorrelatorStep, streamerVars
    <2>2. Got("events")' = Got("events") /\ Got("http")' = Got("http")
      BY <1>t, <2>1, OtherTabs
    <2>3. CASE PassRaw
      <3>1. /\ cur[1] \in Inputs /\ Len(cur) = 1 /\ pc = "raw" /\ HasRoom(raw, RawCap)
            /\ raw' = Send(raw, cur[1]) /\ handled' = Append(handled, cur[1]) /\ ~raw.closed
        BY <2>3, CurFacts DEF PassRaw, EndInv
      <3>2. Len(handled) < MaxEvents
        <4>1. /\ Len(handled) \in Nat /\ Len(events.buf) \in Nat /\ MaxEvents \in Nat
              /\ Len(handled) + 1 + Len(events.buf) <= MaxEvents
          BY <3>1, CorrelatorAssumption DEF TypeOK, ChanOf, CountInv
        <4> DEFINE a == Len(handled)
                   b == Len(events.buf)
        <4>2. a \in Nat /\ b \in Nat /\ a + 1 + b <= MaxEvents
          BY <4>1, Zenon
        <4> HIDE DEF a, b
        <4>3. a < MaxEvents
          BY <4>1, <4>2
        <4> QED
          BY <4>3 DEF a
      <3>3. SP!Arrive(cur[1])
        BY <2>1, <2>2, <3>1, <3>2 DEF SP!Arrive, SP!HasRoom, HasRoom, SP!Send, Send, SP!localVars, Got
      <3> QED
        BY <3>1, <3>3, Zenon DEF SP!Next
    <2>4. CASE CloseRaw
      <3>1. SP!EventsEnd
        BY <2>1, <2>2, <2>4 DEF CloseRaw, EndInv, SP!EventsEnd, SP!CloseChan, CloseChan, SP!localVars, Got
      <3> QED
        BY <3>1 DEF SP!Next
    <2>5. CASE ~PassRaw /\ ~CloseRaw
      <3>1. UNCHANGED <<raw, handled>>
        BY <2>1, <2>5 DEF Goroutine, Recv, HandleConnect, HandleTracked, HandleOther, SendSnapshot,
           EndOfEvents
      <3> QED
        BY <2>1, <2>2, <3>1, <1>s
    <2> QED
      BY <2>3, <2>4, <2>5
  <1>3. CASE StreamerStep
    <2>1. SP!Goroutine /\ UNCHANGED handled /\ UNCHANGED tuiVars
      BY <1>3, SameGoroutine DEF StreamerStep, correlatorVars
    <2>2. Got("events")' = Got("events") /\ Got("http")' = Got("http")
      BY <1>t, <2>1, OtherTabs
    <2> QED
      BY <2>1, <2>2 DEF SP!Next, Got
  <1>4. CASE WaitStep
    <2>1. UNCHANGED <<raw, handled, spc, scur, bufs, todo>>
      BY <1>4 DEF WaitStep, correlatorVars, streamerVars
    <2>2. CASE /\ Got("events")' = Got("events") /\ Got("http")' = Got("http")
               /\ UNCHANGED <<raw2, out>>
      BY <2>1, <2>2, <1>s
    <2>3. CASE /\ HasValue(raw2) /\ raw2' = Receive(raw2) /\ UNCHANGED out
               /\ cmd["events"] = "waiting" /\ U!Post("events", <<Head(raw2.buf)>>)
      <3>1. Got("events")' = Append(Got("events"), Head(raw2.buf)) /\ Got("http")' = Got("http")
        <4>1. PICK x : x = Head(raw2.buf)
          OBVIOUS
        <4>2. U!Post("events", <<x>>)
          BY <2>3, <4>1
        <4>3. Got("events")' = Append(Got("events"), x) /\ \A u \in U!Tabs \ {"events"} : Got(u)' = Got(u)
          BY <1>t, <2>3, <4>2, PostTab
        <4> QED
          BY <1>t, <4>1, <4>3
      <3>2. SP!TakeRaw
        BY <2>1, <2>3, <3>1 DEF SP!TakeRaw, SP!HasValue, HasValue, SP!Receive, Receive, SP!localVars, Got
      <3> QED
        BY <3>2 DEF SP!Next
    <2>4. CASE /\ HasValue(conns) /\ UNCHANGED <<raw2, out>>
               /\ cmd["conns"] = "waiting" /\ U!Post("conns", <<Head(conns.buf)>>)
      <3>1. Got("events")' = Got("events") /\ Got("http")' = Got("http")
        <4>1. PICK x : x = Head(conns.buf)
          OBVIOUS
        <4>2. U!Post("conns", <<x>>)
          BY <2>4, <4>1
        <4>3. \A u \in U!Tabs \ {"conns"} : Got(u)' = Got(u)
          BY <1>t, <2>4, <4>2, PostTab
        <4> QED
          BY <1>t, <4>3
      <3> QED
        BY <2>1, <2>4, <3>1, <1>s
    <2>5. CASE /\ HasValue(out) /\ out' = Receive(out) /\ UNCHANGED raw2
               /\ cmd["http"] = "waiting" /\ U!Post("http", <<Head(out.buf)>>)
      <3>1. Got("http")' = Append(Got("http"), Head(out.buf)) /\ Got("events")' = Got("events")
        <4>1. PICK x : x = Head(out.buf)
          OBVIOUS
        <4>2. U!Post("http", <<x>>)
          BY <2>5, <4>1
        <4>3. Got("http")' = Append(Got("http"), x) /\ \A u \in U!Tabs \ {"http"} : Got(u)' = Got(u)
          BY <1>t, <2>5, <4>2, PostTab
        <4> QED
          BY <1>t, <4>1, <4>3
      <3>2. SP!TakeOut
        BY <2>1, <2>5, <3>1 DEF SP!TakeOut, SP!HasValue, HasValue, SP!Receive, Receive, SP!localVars, Got
      <3> QED
        BY <3>2 DEF SP!Next
    <2> QED
      BY <1>4, <2>2, <2>3, <2>4, <2>5, WaitCases
  <1>5. CASE UpdateStep \/ KeyStep
    <2>1. UNCHANGED <<raw, handled, spc, scur, bufs, todo>>
      BY <1>5 DEF UpdateStep, KeyStep, correlatorVars, streamerVars
    <2> QED
      BY <1>5, <2>1, <1>s, <1>t, UpdateTabs
  <1>6. CASE Quit \/ UNCHANGED traceVars
    <2>1. UNCHANGED <<raw, handled, raw2, out, spc, scur, bufs, todo>> /\ UNCHANGED tuiVars
      BY <1>6 DEF Quit, traceVars, correlatorVars, streamerVars
    <2> QED
      BY <2>1, <1>s, <1>t, OtherTabs
  <1> QED
    BY <1>1, <1>2, <1>3, <1>4, <1>5, <1>6 DEF TraceNext

-----------------------------------------------------------------------------
(* The end of the trace, and what the Connections tab receives.            *)

\* The streamer's channels and goroutine, whatever step it takes.
LEMMA StreamerEnds ==
    ASSUME SP!TypeOK, EndInv, SP!Goroutine
    PROVE  /\ raw2'.closed => spc' = "done"
           /\ out'.closed => spc' \in {"closeraw", "done"} /\ todo' = {}
           /\ spc' \in {"flush", "closeraw", "done"} => Drained(raw')
           /\ raw'.closed = raw.closed
  <1> USE DEF EndInv, Drained, SP!HasValue, SP!Send, SP!Receive, SP!CloseChan, SP!Drained, SP!PassRaw,
              SP!NextIteration
  <1>1. CASE SP!Recv
    BY <1>1 DEF SP!Recv
  <1>2. CASE SP!HandleConnect \/ SP!HandleData \/ SP!HandleClose
    BY <1>2 DEF SP!HandleConnect, SP!HandleData, SP!HandleClose
  <1>3. CASE SP!SendExchange
    BY <1>3 DEF SP!SendExchange
  <1>4. CASE SP!EndOfEvents
    BY <1>4, Zenon DEF SP!EndOfEvents
  <1>5. ASSUME NEW k \in todo, SP!FlushOne(k)
        PROVE  /\ raw2'.closed => spc' = "done"
               /\ out'.closed => spc' \in {"closeraw", "done"} /\ todo' = {}
               /\ spc' \in {"flush", "closeraw", "done"} => Drained(raw')
               /\ raw'.closed = raw.closed
    BY <1>5 DEF SP!FlushOne
  <1>6. CASE SP!CloseOut \/ SP!CloseRaw
    BY <1>6 DEF SP!CloseOut, SP!CloseRaw, SP!TypeOK
  <1> QED
    BY <1>1, <1>2, <1>3, <1>4, <1>5, <1>6 DEF SP!Goroutine

LEMMA CorrelatorEnds ==
    ASSUME TypeOK, EndInv, Goroutine
    PROVE  /\ raw'.closed => pc' = "done"
           /\ conns'.closed => pc' \in {"closeraw", "done"}
           /\ pc' \in {"closeraw", "done"} => Drained(events')
           /\ Drained(raw) => Drained(raw')
  <1> USE DEF EndInv, Drained, Send, Receive, CloseChan, PassRaw
  <1>1. CASE Recv
    BY <1>1 DEF Recv
  <1>2. CASE HandleConnect \/ HandleTracked \/ HandleOther
    BY <1>2 DEF HandleConnect, HandleTracked, HandleOther
  <1>3. CASE SendSnapshot
    BY <1>3 DEF SendSnapshot
  <1>4. CASE EndOfEvents
    BY <1>4 DEF EndOfEvents
  <1>5. CASE CloseRaw
    BY <1>5 DEF CloseRaw
  <1> QED
    BY <1>1, <1>2, <1>3, <1>4, <1>5 DEF Goroutine

LEMMA EndInvStep ==
    ASSUME TypeOK, SP!TypeOK, TabInv, EndInv, [TraceNext]_traceVars
    PROVE  EndInv'
  <1>1. CASE CollectorStep
    <2>1. UNCHANGED <<raw, conns, raw2, out, pc, spc, todo>>
      BY <1>1, Zenon DEF CollectorStep, streamerVars, Arrive, EventsEnd
    <2>2. ~events.closed
      BY <1>1, Zenon DEF CollectorStep, Arrive, EventsEnd
    <2> QED
      BY <2>1, <2>2 DEF EndInv, Drained
  <1>2. CASE CorrelatorStep
    <2>1. UNCHANGED <<raw2, out, spc, todo>> /\ Goroutine
      BY <1>2 DEF CorrelatorStep, streamerVars
    <2> QED
      BY <2>1, CorrelatorEnds DEF EndInv
  <1>3. CASE StreamerStep
    <2>1. UNCHANGED <<events, conns, pc>> /\ SP!Goroutine
      BY <1>3, SameGoroutine DEF StreamerStep, correlatorVars
    <2> QED
      BY <2>1, StreamerEnds DEF EndInv
  <1>4. CASE WaitStep
    <2>1. UNCHANGED <<events, raw, pc, spc, todo>>
      BY <1>4 DEF WaitStep, correlatorVars, streamerVars
    <2>2. raw2'.closed = raw2.closed /\ conns'.closed = conns.closed /\ out'.closed = out.closed
      BY <1>4, WaitCases DEF Receive
    <2> QED
      BY <2>1, <2>2 DEF EndInv
  <1>5. CASE UpdateStep \/ KeyStep
    <2>1. UNCHANGED <<events, raw, pc, spc, todo>>
      BY <1>5 DEF UpdateStep, KeyStep, correlatorVars, streamerVars
    <2> QED
      BY <1>5, <2>1, UpdateTabs DEF EndInv
  <1>6. CASE Quit \/ UNCHANGED traceVars
    BY <1>6 DEF Quit, traceVars, correlatorVars, streamerVars, EndInv
  <1> QED
    BY <1>1, <1>2, <1>3, <1>4, <1>5, <1>6 DEF TraceNext

\* CountInv, a property of the correlator alone.
LEMMA CountStep ==
    ASSUME TypeOK, CountInv, [Next]_vars
    PROVE  CountInv'
  <1> DEFINE h == Len(handled)
             b == Len(events.buf)
  <1>1. h \in Nat /\ b \in Nat /\ MaxEvents \in Nat /\ h + (IF pc = "raw" THEN 1 ELSE 0) + b <= MaxEvents
    BY CorrelatorAssumption DEF TypeOK, ChanOf, CountInv
  <1>2. CASE Recv
    <2>1. Len(events'.buf) = b - 1 /\ handled' = handled /\ pc' = "raw" /\ pc = "recv"
      BY <1>2, ReceiveChan, Zenon DEF Recv, TypeOK
    <2> HIDE DEF h, b
    <2>2. h + 1 + (b - 1) <= MaxEvents
      BY <1>1, <2>1
    <2> QED
      BY <2>1, <2>2 DEF h, CountInv
  <1>3. CASE PassRaw /\ pc' \in {"conn", "recv"}
    <2>1. Len(handled') = h + 1 /\ events' = events /\ pc = "raw" /\ pc' # "raw"
      BY <1>3 DEF PassRaw, TypeOK
    <2> HIDE DEF h, b
    <2>2. h + 1 + 0 + b <= MaxEvents
      BY <1>1, <2>1
    <2> QED
      BY <2>1, <2>2 DEF b, CountInv
  <1>4. ASSUME NEW ev \in Inputs, Arrive(ev) PROVE CountInv'
    <2>1. /\ Len(events'.buf) = b + 1 /\ handled' = handled /\ pc' = pc
          /\ h + Len(cur) + b < MaxEvents /\ Len(cur) = (IF pc \in {"raw", "conn"} THEN 1 ELSE 0)
      BY <1>4, SendChan, Zenon DEF Arrive, TypeOK
    <2> HIDE DEF h, b
    <2>2. h + (IF pc = "raw" THEN 1 ELSE 0) + (b + 1) <= MaxEvents
      BY <1>1, <2>1
    <2> QED
      BY <2>1, <2>2 DEF h, CountInv
  <1>5. CASE UNCHANGED <<handled, pc>> /\ events'.buf = events.buf
    BY <1>5, Zenon DEF CountInv
  <1>6. CASE SendSnapshot \/ EndOfEvents \/ CloseRaw
    <2>1. UNCHANGED <<handled, events>> /\ pc # "raw" /\ pc' # "raw"
      BY <1>6 DEF SendSnapshot, EndOfEvents, CloseRaw
    <2> QED
      BY <2>1 DEF CountInv
  <1>7. CASE EventsEnd \/ TakeRaw \/ TakeConn \/ Terminated \/ UNCHANGED vars
    <2>1. UNCHANGED <<handled, pc>> /\ events'.buf = events.buf
      BY <1>7 DEF EventsEnd, TakeRaw, TakeConn, Terminated, vars, CloseChan
    <2> QED
      BY <2>1, <1>5
  <1>8. CASE HandleConnect \/ HandleTracked \/ HandleOther
    BY <1>3, <1>8 DEF HandleConnect, HandleTracked, HandleOther
  <1> QED
    BY <1>2, <1>4, <1>6, <1>7, <1>8 DEF Next, Goroutine

\* Tab t has been told, or is about to be told, that its channel has ended.
Ended(t) == closed[t] \/ (cmd[t] = "posted" /\ msg[t] = <<>>)

TabEnds ==
    /\ Ended("events") => Drained(raw2)
    /\ Ended("conns") => Drained(conns)
    /\ Ended("http") => Drained(out)

\* A channel that is closed and empty stays so: nothing is sent on it.
LEMMA StaysDrained ==
    ASSUME TypeOK, SP!TypeOK, EndInv
    PROVE  /\ Goroutine /\ Drained(conns) => Drained(conns')
           /\ SP!Goroutine /\ Drained(raw2) => Drained(raw2')
           /\ SP!Goroutine /\ Drained(out) => Drained(out')
  <1>1. ASSUME Goroutine, Drained(conns) PROVE Drained(conns')
    BY <1>1 DEF Goroutine, Recv, HandleConnect, HandleTracked, HandleOther, SendSnapshot, EndOfEvents,
       CloseRaw, PassRaw, EndInv, Drained, CloseChan
  <1>2. ASSUME SP!Goroutine, Drained(raw2) PROVE Drained(raw2')
    BY <1>2 DEF SP!Goroutine, SP!Recv, SP!HandleConnect, SP!HandleData, SP!HandleClose, SP!SendExchange,
       SP!EndOfEvents, SP!FlushOne, SP!CloseOut, SP!CloseRaw, SP!PassRaw, EndInv, Drained, SP!CloseChan
  <1>3. ASSUME SP!Goroutine, Drained(out) PROVE Drained(out')
    BY <1>3 DEF SP!Goroutine, SP!Recv, SP!HandleConnect, SP!HandleData, SP!HandleClose, SP!SendExchange,
       SP!EndOfEvents, SP!FlushOne, SP!CloseOut, SP!CloseRaw, SP!PassRaw, EndInv, Drained, SP!CloseChan
  <1> QED
    BY <1>1, <1>2, <1>3

LEMMA SameTabs ==
    ASSUME UNCHANGED <<cmd, msg, closed>>
    PROVE  \A t \in U!Tabs : Ended(t)' <=> Ended(t)
  BY DEF Ended

\* A value posted: the tab has not ended.
LEMMA PostNotEnded ==
    ASSUME TabInv, NEW t \in U!Tabs, cmd[t] = "waiting", NEW x, U!Post(t, <<x>>)
    PROVE  ~Ended(t)' /\ \A u \in U!Tabs \ {t} : Ended(u)' <=> Ended(u)
  <1>1. msg' = [msg EXCEPT ![t] = <<x>>] /\ cmd' = [cmd EXCEPT ![t] = "posted"] /\ closed' = closed
    BY DEF U!Post
  <1>2. <<x>> # <<>> /\ ~closed[t]
    BY DEF TabInv
  <1>3. msg'[t] = <<x>> /\ \A u \in U!Tabs \ {t} : msg'[u] = msg[u] /\ cmd'[u] = cmd[u]
    BY <1>1 DEF TabInv
  <1> QED
    BY <1>1, <1>2, <1>3 DEF Ended

LEMMA TabEndsStep ==
    ASSUME TypeOK, SP!TypeOK, TabInv, EndInv, TabEnds, [TraceNext]_traceVars
    PROVE  TabEnds'
  <1>t. "events" \in U!Tabs /\ "conns" \in U!Tabs /\ "http" \in U!Tabs
    BY TabsAre
  <1>1. CASE CollectorStep \/ Quit \/ UNCHANGED traceVars
    BY <1>1, Zenon DEF CollectorStep, Quit, traceVars, tuiVars, TabEnds, Ended, Arrive, EventsEnd
  <1>2. CASE CorrelatorStep
    <2>1. UNCHANGED <<raw2, out, cmd, msg, closed>> /\ Goroutine
      BY <1>2 DEF CorrelatorStep, tuiVars
    <2> QED
      BY <2>1, <1>t, SameTabs, StaysDrained DEF TabEnds
  <1>3. CASE StreamerStep
    <2>1. UNCHANGED <<conns, cmd, msg, closed>> /\ SP!Goroutine
      BY <1>3, SameGoroutine DEF StreamerStep, tuiVars
    <2> QED
      BY <2>1, <1>t, SameTabs, StaysDrained DEF TabEnds
  <1>4. CASE WaitStep
    <2>1. CASE UNCHANGED <<raw2, conns, out>>
               /\ \E t \in U!Tabs : /\ cmd[t] = "waiting" /\ U!Post(t, <<>>)
                                    /\ t = "events" => Drained(raw2)
                                    /\ t = "conns" => Drained(conns)
                                    /\ t = "http" => Drained(out)
      <3>1. PICK t \in U!Tabs : /\ cmd[t] = "waiting" /\ U!Post(t, <<>>)
                                /\ t = "events" => Drained(raw2)
                                /\ t = "conns" => Drained(conns)
                                /\ t = "http" => Drained(out)
        BY <2>1
      <3>2. \A u \in U!Tabs \ {t} : Ended(u)' <=> Ended(u)
        BY <3>1 DEF U!Post, TabInv, Ended
      <3> QED
        BY <1>t, <2>1, <3>1, <3>2 DEF TabEnds
    <2>2. CASE /\ UNCHANGED <<conns, out>>
               /\ cmd["events"] = "waiting" /\ U!Post("events", <<Head(raw2.buf)>>)
      <3>1. ~Ended("events")' /\ \A u \in U!Tabs \ {"events"} : Ended(u)' <=> Ended(u)
        BY <1>t, <2>2, PostNotEnded
      <3> QED
        BY <1>t, <2>2, <3>1 DEF TabEnds
    <2>3. CASE /\ UNCHANGED <<raw2, out>>
               /\ cmd["conns"] = "waiting" /\ U!Post("conns", <<Head(conns.buf)>>)
      <3>1. ~Ended("conns")' /\ \A u \in U!Tabs \ {"conns"} : Ended(u)' <=> Ended(u)
        BY <1>t, <2>3, PostNotEnded
      <3> QED
        BY <1>t, <2>3, <3>1 DEF TabEnds
    <2>4. CASE /\ UNCHANGED <<raw2, conns>>
               /\ cmd["http"] = "waiting" /\ U!Post("http", <<Head(out.buf)>>)
      <3>1. ~Ended("http")' /\ \A u \in U!Tabs \ {"http"} : Ended(u)' <=> Ended(u)
        BY <1>t, <2>4, PostNotEnded
      <3> QED
        BY <1>t, <2>4, <3>1 DEF TabEnds
    <2> QED
      BY <1>4, <2>1, <2>2, <2>3, <2>4, WaitCases
  <1>5. CASE UpdateStep \/ KeyStep
    <2>1. UNCHANGED <<raw2, conns, out>>
      BY <1>5, UpdateTabs
    <2>2. ASSUME NEW t \in U!Tabs, U!Rearm(t)
          PROVE  \A u \in U!Tabs : Ended(u)' => Ended(u)
      <3>1. /\ cmd'[t] = "waiting" /\ ~closed[t] /\ closed' = closed
            /\ \A u \in U!Tabs \ {t} : msg'[u] = msg[u] /\ cmd'[u] = cmd[u]
        BY <2>2, RearmTab DEF U!Rearm, TabInv
      <3> QED
        BY <3>1 DEF Ended
    <2>3. ASSUME NEW t \in U!Tabs, U!UpdateClosed(t)
          PROVE  \A u \in U!Tabs : Ended(u)' => Ended(u)
      BY <2>3 DEF U!UpdateClosed, TabInv, Ended
    <2>4. ASSUME U!KeyTab \/ U!KeyQuit
          PROVE  \A u \in U!Tabs : Ended(u)' => Ended(u)
      BY <2>4 DEF U!KeyTab, U!KeyQuit, U!tabVars, Ended
    <2>5. \A u \in U!Tabs : Ended(u)' => Ended(u)
      BY <1>5, <1>t, <2>2, <2>3, <2>4
         DEF UpdateStep, KeyStep, U!Updates, U!UpdateEvents, U!UpdateConns, U!UpdateHTTP
    <2> QED
      BY <1>t, <2>1, <2>5 DEF TabEnds
  <1> QED
    BY <1>1, <1>2, <1>3, <1>4, <1>5 DEF TraceNext

\* The Connections tab takes the snapshots in the order they were published.
ConnsInv == Got("conns") \in Seq(Connections) /\ snaps = Got("conns") \o conns.buf

LEMMA ConnsStep ==
    ASSUME IInv, TabInv, ConnsInv, [TraceNext]_traceVars
    PROVE  ConnsInv'
  <1>t. "events" \in U!Tabs /\ "conns" \in U!Tabs /\ "http" \in U!Tabs
    BY TabsAre
  <1>c. conns \in ChanOf(Connections) /\ conns.buf \in Seq(Connections)
    BY DEF IInv, TypeOK, ChanOf
  <1>1. CASE CollectorStep \/ StreamerStep \/ UpdateStep \/ KeyStep \/ Quit \/ UNCHANGED traceVars
    <2>1. UNCHANGED <<snaps, conns>>
      BY <1>1, UpdateTabs, Zenon DEF CollectorStep, StreamerStep, UpdateStep, KeyStep, Quit, traceVars,
         correlatorVars, Arrive, EventsEnd
    <2>2. Got("conns")' = Got("conns")
      BY <1>1, <1>t, UpdateTabs, OtherTabs DEF CollectorStep, StreamerStep, Quit, traceVars
    <2> QED
      BY <2>1, <2>2 DEF ConnsInv
  <1>2. CASE CorrelatorStep
    <2>1. Goroutine /\ Got("conns")' = Got("conns")
      BY <1>2, <1>t, OtherTabs DEF CorrelatorStep
    <2>2. CASE SendSnapshot
      <3> DEFINE k == KeyOf(cur[1])
      <3>1. tracked[k] \in Connections
        <4>1. k \in DOMAIN tracked
          BY <2>2 DEF IInv, ClosedOnlyInConn, SendSnapshot
        <4> QED
          BY <4>1 DEF IInv, TypeOK
      <3>2. conns'.buf = Append(conns.buf, tracked[k]) /\ snaps' = Append(snaps, tracked[k])
        BY <2>2 DEF SendSnapshot, Send
      <3>3. PICK g, b, x : g = Got("conns") /\ b = conns.buf /\ x = tracked[k]
        OBVIOUS
      <3>4. g \in Seq(Connections) /\ b \in Seq(Connections) /\ x \in Connections /\ snaps = g \o b
        BY <1>c, <3>1, <3>3 DEF ConnsInv
      <3>5. g \o Append(b, x) = Append(g \o b, x)
        BY <3>4, ConcatAppend
      <3> QED
        BY <2>1, <3>2, <3>3, <3>4, <3>5, Zenon DEF ConnsInv
    <2>3. CASE ~SendSnapshot
      <3>1. UNCHANGED snaps /\ conns'.buf = conns.buf
        BY <2>1, <2>3 DEF Goroutine, Recv, HandleConnect, HandleTracked, HandleOther, PassRaw,
           EndOfEvents, CloseRaw, CloseChan
      <3> QED
        BY <2>1, <3>1 DEF ConnsInv
    <2> QED
      BY <2>2, <2>3
  <1>3. CASE WaitStep
    <2>1. UNCHANGED snaps
      BY <1>3 DEF WaitStep, correlatorVars
    <2>2. CASE Got("conns")' = Got("conns") /\ UNCHANGED conns
      BY <2>1, <2>2 DEF ConnsInv
    <2>3. CASE /\ UNCHANGED conns
               /\ cmd["events"] = "waiting" /\ U!Post("events", <<Head(raw2.buf)>>)
      <3>1. \A u \in U!Tabs \ {"events"} : Got(u)' = Got(u)
        BY <1>t, <2>3, PostTab
      <3> QED
        BY <1>t, <2>2, <2>3, <3>1
    <2>4. CASE /\ UNCHANGED conns
               /\ cmd["http"] = "waiting" /\ U!Post("http", <<Head(out.buf)>>)
      <3>1. \A u \in U!Tabs \ {"http"} : Got(u)' = Got(u)
        BY <1>t, <2>4, PostTab
      <3> QED
        BY <1>t, <2>2, <2>4, <3>1
    <2>5. CASE /\ HasValue(conns) /\ conns' = Receive(conns)
               /\ cmd["conns"] = "waiting" /\ U!Post("conns", <<Head(conns.buf)>>)
      <3>1. Got("conns")' = Append(Got("conns"), Head(conns.buf))
        BY <1>t, <2>5, PostTab
      <3>2. PICK g, b : g = Got("conns") /\ b = conns.buf
        OBVIOUS
      <3>3. /\ g \in Seq(Connections) /\ b \in Seq(Connections) /\ b # <<>>
            /\ conns'.buf = Tail(b) /\ snaps = g \o b
        BY <1>c, <2>5, <3>2 DEF ConnsInv, HasValue, Receive
      <3>4. Head(b) \in Connections /\ Append(g, Head(b)) \in Seq(Connections)
        BY <3>3
      <3>5. g \o b = Append(g, Head(b)) \o Tail(b)
        BY <3>3, MoveAcross
      <3> QED
        BY <2>1, <3>1, <3>2, <3>3, <3>4, <3>5, Zenon DEF ConnsInv
    <2> QED
      BY <1>3, <2>2, <2>3, <2>4, <2>5, WaitCases
  <1> QED
    BY <1>1, <1>2, <1>3 DEF TraceNext

-----------------------------------------------------------------------------
(* The rows of the tabs.                                                   *)

\* The tabs' modules count and select as this one does.
LEMMA SameCardinality == \A X : U!Cardinality(X) = Cardinality(X)
  BY DEF U!Cardinality, Cardinality

LEMMA SameOnly == \A s, A : U!Only(s, A) = Only(s, A)
  BY DEF U!Only, Only

LEMMA SameToSet == \A s : U!ToSet(s) = ToSet(s)
  BY DEF U!ToSet, ToSet

\* A row more: the oldest scrolls off.
LEMMA LastRowsStep ==
    ASSUME NEW T, NEW s \in Seq(T), NEW x \in T
    PROVE  /\ U!Scrolled(U!LastRows(s), x) = U!LastRows(Append(s, x))
           /\ U!LastRows(s) \in Seq(T) /\ Len(U!LastRows(s)) <= MaxRows
  <1> DEFINE n == Len(s)
             M == MaxRows
             a == Append(s, x)
             r == U!LastRows(s)
             all == Append(r, x)
  <1>1. /\ n \in Nat /\ M \in Nat /\ M >= 1 /\ a \in Seq(T) /\ Len(a) = n + 1 /\ a[n + 1] = x
        /\ \A i \in 1 .. n : a[i] = s[i]
    BY TraceAssumption
  <1>2. CASE n < M
    <2>1. r = s
      <3>0. ~(Len(s) > MaxRows)
        BY <1>1, <1>2
      <3>1. r = SubSeq(s, 1, n)
        BY <3>0 DEF U!LastRows
      <3> QED
        BY <3>1
    <2>2. U!LastRows(a) = a
      <3>1. U!LastRows(a) = SubSeq(a, 1, Len(a))
        BY <1>1, <1>2 DEF U!LastRows
      <3> QED
        BY <1>1, <3>1
    <2>3. U!Scrolled(r, x) = a
      BY <1>1, <1>2, <2>1 DEF U!Scrolled
    <2> QED
      BY <1>1, <1>2, <2>1, <2>2, <2>3
  <1>3. CASE n >= M
    <2>1. r = SubSeq(s, n - M + 1, n) /\ U!LastRows(a) = SubSeq(a, n - M + 2, n + 1)
      <3>2. Len(a) > M /\ Len(a) - M + 1 = n - M + 2
        BY <1>1, <1>3
      <3>3. r = SubSeq(s, n - M + 1, n)
        <4>1. CASE n = M
          <5>1. ~(Len(s) > MaxRows) /\ n - M + 1 = 1
            BY <1>1, <4>1
          <5>2. r = SubSeq(s, 1, n)
            BY <5>1 DEF U!LastRows
          <5> QED
            BY <5>1, <5>2
        <4>2. CASE n # M
          <5>1. Len(s) > MaxRows
            BY <1>1, <1>3, <4>2
          <5> QED
            BY <5>1, Zenon DEF U!LastRows
        <4> QED
          BY <4>1, <4>2
      <3>4. U!LastRows(a) = SubSeq(a, Len(a) - MaxRows + 1, Len(a))
        BY <3>2, Zenon DEF U!LastRows
      <3> QED
        BY <1>1, <3>2, <3>3, <3>4, Zenon
    <2> HIDE DEF n, M, a, r
    <2>2. r \in Seq(T) /\ Len(r) = M /\ \A i \in 1 .. M : r[i] = s[n - M + i]
      <3>1. n - M + 1 \in 1 .. n /\ n = Len(s)
        BY <1>1, <1>3 DEF n
      <3>2. Len(SubSeq(s, n - M + 1, n)) = n - (n - M + 1) + 1
        BY <1>1, <3>1
      <3>3. \A i \in 1 .. M : SubSeq(s, n - M + 1, n)[i] = s[n - M + i]
        BY <1>1, <3>1
      <3>4. SubSeq(s, n - M + 1, n) \in Seq(T)
        BY <1>1, <3>1
      <3> QED
        BY <1>1, <2>1, <3>2, <3>3, <3>4
    <2>3. /\ all \in Seq(T) /\ Len(all) = M + 1 /\ all[M + 1] = x
          /\ \A i \in 1 .. M : all[i] = s[n - M + i]
      BY <1>1, <2>2
    <2> HIDE DEF all
    <2>4. U!Scrolled(r, x) = SubSeq(all, 2, M + 1)
      <3>1. Len(all) > MaxRows /\ Len(all) - MaxRows + 1 = 2
        BY <1>1, <2>3 DEF M
      <3> QED
        BY <2>3, <3>1, Zenon DEF U!Scrolled, all
    <2>5. SubSeq(all, 2, M + 1) = SubSeq(a, n - M + 2, n + 1)
      <3> DEFINE p == SubSeq(all, 2, M + 1)
                 q == SubSeq(a, n - M + 2, n + 1)
      <3>1. p \in Seq(T) /\ Len(p) = M /\ \A i \in 1 .. M : p[i] = all[i + 1]
        <4>1. /\ Len(p) = M + 1 - 2 + 1 /\ M + 1 - 2 + 1 = M
          BY <1>1, <2>3
        <4>2. \A i \in 1 .. M : p[i] = all[i + 1]
          BY <1>1, <2>3
        <4>3. p \in Seq(T)
          BY <1>1, <2>3
        <4> QED
          BY <4>1, <4>2, <4>3
      <3>2. q \in Seq(T) /\ Len(q) = M /\ \A i \in 1 .. M : q[i] = a[n - M + 1 + i]
        <4>1. n - M + 2 \in 1 .. n + 1
          BY <1>1, <1>3
        <4>2. Len(q) = n + 1 - (n - M + 2) + 1
          BY <1>1, <4>1
        <4>3. \A i \in 1 .. M : q[i] = a[n - M + 1 + i]
          BY <1>1, <4>1
        <4>4. q \in Seq(T)
          BY <1>1, <4>1
        <4> QED
          BY <1>1, <4>2, <4>3, <4>4
      <3>3. ASSUME NEW i \in 1 .. M PROVE p[i] = q[i]
        <4>1. CASE i = M
          <5>1. n - M + 1 + i = n + 1
            BY <1>1, <4>1
          <5> QED
            BY <1>1, <2>3, <3>1, <3>2, <4>1, <5>1
        <4>2. CASE i # M
          <5>1. i + 1 \in 1 .. M /\ n - M + (i + 1) = n - M + 1 + i /\ n - M + 1 + i \in 1 .. n
            BY <1>1, <1>3, <4>2
          <5>2. all[i + 1] = s[n - M + 1 + i]
            BY <2>3, <5>1
          <5>3. a[n - M + 1 + i] = s[n - M + 1 + i]
            BY <1>1, <5>1
          <5> QED
            BY <3>1, <3>2, <5>2, <5>3, Zenon
        <4> QED
          BY <4>1, <4>2, Zenon
      <3> HIDE DEF p, q
      <3>4. p = q
        BY <3>1, <3>2, <3>3, SeqEqual
      <3> QED
        BY <3>4, Zenon DEF p, q
    <2>6. U!Scrolled(r, x) = U!LastRows(a)
      BY <2>1, <2>4, <2>5, Zenon
    <2>7. Len(r) <= MaxRows
      BY <1>1, <2>2 DEF M
    <2> QED
      BY <2>2, <2>6, <2>7 DEF r, a
  <1> QED
    BY <1>1, <1>2, <1>3

LEMMA RowsBounded ==
    ASSUME NEW T, NEW s \in Seq(T)
    PROVE  Len(U!LastRows(s)) <= MaxRows
  <1> DEFINE W == T \cup {T}
  <1>1. T \subseteq W /\ T \in W
    OBVIOUS
  <1> HIDE DEF W
  <1>2. s \in Seq(W)
    BY <1>1
  <1> QED
    BY <1>1, <1>2, LastRowsStep

LEMMA FirstsAppend ==
    ASSUME NEW T, NEW s \in Seq(T), NEW c \in T
    PROVE  U!Firsts(Append(s, c))
             = IF \E i \in DOMAIN s : s[i].seq = c.seq THEN U!Firsts(s)
               ELSE U!Firsts(s) \cup {Len(s) + 1}
  <1> DEFINE g == Append(s, c)
             n == Len(s) + 1
  <1>1. /\ DOMAIN g = DOMAIN s \cup {n} /\ g[n] = c /\ n \in Nat
        /\ \A i \in DOMAIN s : i \in Nat /\ i < n /\ g[i] = s[i]
    BY Appended
  <1> HIDE DEF g, n
  <1>2. ASSUME NEW i \in DOMAIN s PROVE i \in U!Firsts(g) <=> i \in U!Firsts(s)
    BY <1>1 DEF U!Firsts
  <1>3. n \in U!Firsts(g) <=> ~\E i \in DOMAIN s : s[i].seq = c.seq
    BY <1>1 DEF U!Firsts
  <1>4. U!Firsts(g) \subseteq DOMAIN s \cup {n} /\ U!Firsts(s) \subseteq DOMAIN s /\ n \notin DOMAIN s
    BY <1>1 DEF U!Firsts
  <1>5. U!Firsts(g) = IF \E i \in DOMAIN s : s[i].seq = c.seq THEN U!Firsts(s) ELSE U!Firsts(s) \cup {n}
    <2>1. CASE \E i \in DOMAIN s : s[i].seq = c.seq
      <3>1. U!Firsts(g) = U!Firsts(s)
        BY <1>2, <1>3, <1>4, <2>1, Zenon
      <3> QED
        BY <2>1, <3>1
    <2>2. CASE ~\E i \in DOMAIN s : s[i].seq = c.seq
      <3>1. U!Firsts(g) = U!Firsts(s) \cup {n}
        BY <1>2, <1>3, <1>4, <2>2
      <3> QED
        BY <2>2, <3>1
    <2> QED
      BY <2>1, <2>2
  <1> QED
    BY <1>5 DEF g, n

\* Every Seq has a first appearance.
LEMMA FirstExists ==
    ASSUME NEW T
    PROVE  \A s \in Seq(T) : \A i \in DOMAIN s : \E j \in U!Firsts(s) : s[j].seq = s[i].seq
  <1> DEFINE P(s) == \A i \in DOMAIN s : \E j \in U!Firsts(s) : s[j].seq = s[i].seq
             A == {s \in Seq(T) : P(s)}
  <1>1. <<>> \in A
    OBVIOUS
  <1>2. ASSUME NEW s \in Seq(T), NEW c \in T, s \in A PROVE Append(s, c) \in A
    <2> DEFINE g == Append(s, c)
               n == Len(s) + 1
    <2>1. g \in Seq(T) /\ DOMAIN g = DOMAIN s \cup {n} /\ g[n] = c /\ \A i \in DOMAIN s : g[i] = s[i]
      BY Appended
    <2>2. U!Firsts(g) = IF \E i \in DOMAIN s : s[i].seq = c.seq THEN U!Firsts(s) ELSE U!Firsts(s) \cup {n}
      BY FirstsAppend
    <2>3. P(s) /\ U!Firsts(s) \subseteq DOMAIN s
      BY <1>2 DEF U!Firsts
    <2> HIDE DEF g, n
    <2>4. ASSUME NEW i \in DOMAIN s PROVE \E j \in U!Firsts(g) : g[j].seq = g[i].seq
      <3>1. PICK j \in U!Firsts(s) : s[j].seq = s[i].seq
        BY <2>3
      <3>2. j \in U!Firsts(g) /\ j \in DOMAIN s
        BY <2>2, <2>3
      <3> QED
        BY <2>1, <3>1, <3>2
    <2>5. \E j \in U!Firsts(g) : g[j].seq = g[n].seq
      <3>1. CASE \E i \in DOMAIN s : s[i].seq = c.seq
        BY <2>1, <2>4, <3>1
      <3>2. CASE ~\E i \in DOMAIN s : s[i].seq = c.seq
        BY <2>2, <3>2
      <3> QED
        BY <3>1, <3>2
    <2>6. P(g)
      BY <2>1, <2>4, <2>5
    <2> QED
      BY <2>1, <2>6, Zenon DEF g
  <1> HIDE DEF A
  <1>3. Seq(T) \subseteq A
    BY <1>1, <1>2, AppendInduction
  <1> QED
    BY <1>3 DEF A

\* The row numbers are those of the table, and different for different Seqs.
LEMMA RowFacts ==
    ASSUME NEW T, NEW s \in Seq(T)
    PROVE  /\ IsFiniteSet(U!Firsts(s)) /\ Cardinality(U!Firsts(s)) \in Nat
           /\ \A i \in U!Firsts(s) : U!RowOf(s, i) \in 1 .. Cardinality(U!Firsts(s))
           /\ \A i, j \in U!Firsts(s) : U!RowOf(s, i) = U!RowOf(s, j) => i = j
           /\ \A i \in U!Firsts(s) : i \in Nat /\ i \in DOMAIN s
  <1> DEFINE F == U!Firsts(s)
             Up(i) == {j \in F : j <= i}
  <1>1. F \subseteq 1 .. Len(s) /\ Len(s) \in Nat
    BY DEF U!Firsts
  <1>2. IsFiniteSet(F) /\ Cardinality(F) \in Nat
    <2>1. IsFiniteSet(1 .. Len(s))
      BY <1>1, FS_Interval
    <2>2. IsFiniteSet(F)
      BY <1>1, <2>1, FS_Subset
    <2> QED
      BY <2>2, FS_CardinalityType
  <1> HIDE DEF F
  <1>3. ASSUME NEW i \in F
        PROVE  /\ IsFiniteSet(Up(i)) /\ Cardinality(Up(i)) \in Nat
               /\ Cardinality(Up(i)) <= Cardinality(F) /\ Cardinality(Up(i)) # 0
    <2>1. Up(i) \subseteq F /\ i \in Up(i)
      BY <1>1
    <2>2. IsFiniteSet(Up(i)) /\ Cardinality(Up(i)) <= Cardinality(F)
      BY <1>2, <2>1, FS_Subset
    <2>3. Cardinality(Up(i)) \in Nat /\ (Cardinality(Up(i)) = 0 <=> Up(i) = {})
      BY <2>2, FS_CardinalityType, FS_EmptySet
    <2> QED
      BY <2>1, <2>2, <2>3
  <1>4. ASSUME NEW i \in F, NEW j \in F, i < j PROVE Cardinality(Up(i)) < Cardinality(Up(j))
    <2>1. i \in Nat /\ j \in Nat
      BY <1>1
    <2>2. Up(i) \subseteq Up(j) /\ j \in Up(j) /\ j \notin Up(i)
      <3>1. \A k \in F : k \in Nat /\ (k <= i => k <= j)
        BY <1>1, <1>4, <2>1
      <3>2. j <= j /\ ~(j <= i)
        BY <1>4, <2>1
      <3> QED
        BY <3>1, <3>2
    <2>3. Up(i) # Up(j)
      BY <2>2
    <2>4. /\ Cardinality(Up(i)) <= Cardinality(Up(j))
          /\ Cardinality(Up(i)) = Cardinality(Up(j)) => Up(i) = Up(j)
      BY <1>3, <2>2, FS_Subset, Zenon
    <2>5. Cardinality(Up(i)) \in Nat /\ Cardinality(Up(j)) \in Nat
      BY <1>3
    <2> HIDE DEF Up
    <2> QED
      BY <2>3, <2>4, <2>5
  <1>5. ASSUME NEW i \in F, NEW j \in F, Cardinality(Up(i)) = Cardinality(Up(j)) PROVE i = j
    <2>1. i \in Nat /\ j \in Nat
      BY <1>1
    <2>2. Cardinality(Up(i)) \in Nat /\ Cardinality(Up(j)) \in Nat
      BY <1>3
    <2>3. /\ i < j => Cardinality(Up(i)) < Cardinality(Up(j))
          /\ j < i => Cardinality(Up(j)) < Cardinality(Up(i))
      BY <1>4
    <2> HIDE DEF Up
    <2> QED
      BY <1>5, <2>1, <2>2, <2>3
  <1>6. \A i \in F : U!RowOf(s, i) = Cardinality(Up(i))
    BY SameCardinality DEF U!RowOf, F
  <1>7. \A i \in F : Cardinality(Up(i)) \in 1 .. Cardinality(F)
    BY <1>2, <1>3
  <1> HIDE DEF Up
  <1> QED
    BY <1>1, <1>2, <1>5, <1>6, <1>7 DEF F

\* Rows once given do not move; a new Seq gets the next one.
LEMMA RowAppend ==
    ASSUME NEW T, NEW s \in Seq(T), NEW c \in T
    PROVE  /\ \A i \in U!Firsts(s) : U!RowOf(Append(s, c), i) = U!RowOf(s, i)
           /\ (~\E i \in DOMAIN s : s[i].seq = c.seq) =>
                 /\ U!RowOf(Append(s, c), Len(s) + 1) = Cardinality(U!Firsts(s)) + 1
                 /\ Cardinality(U!Firsts(Append(s, c))) = Cardinality(U!Firsts(s)) + 1
  <1> DEFINE g == Append(s, c)
             n == Len(s) + 1
             F == U!Firsts(s)
  <1>1. n \in Nat /\ \A i \in F : i \in Nat /\ i < n
    BY Appended, RowFacts DEF U!Firsts
  <1>2. U!Firsts(g) = IF \E i \in DOMAIN s : s[i].seq = c.seq THEN F ELSE F \cup {n}
    BY FirstsAppend
  <1>3. IsFiniteSet(F) /\ Cardinality(F) \in Nat
    BY RowFacts
  <1> HIDE DEF g, n, F
  <1>4. ASSUME NEW i \in F PROVE U!RowOf(g, i) = U!RowOf(s, i)
    <2>1. {j \in U!Firsts(g) : j <= i} = {j \in F : j <= i}
      BY <1>1, <1>2
    <2> QED
      BY <2>1, Zenon DEF U!RowOf, F
  <1>5. ASSUME ~\E i \in DOMAIN s : s[i].seq = c.seq
        PROVE  U!RowOf(g, n) = Cardinality(F) + 1 /\ Cardinality(U!Firsts(g)) = Cardinality(F) + 1
    <2>1. U!Firsts(g) = F \cup {n} /\ n \notin F
      BY <1>1, <1>2, <1>5
    <2>2. {j \in U!Firsts(g) : j <= n} = F \cup {n}
      BY <1>1, <2>1
    <2>3. Cardinality(F \cup {n}) = Cardinality(F) + 1
      BY <1>3, <2>1, FS_AddElement, Zenon
    <2> QED
      BY <2>1, <2>2, <2>3, SameCardinality, Zenon DEF U!RowOf
  <1> QED
    BY <1>4, <1>5 DEF g, n, F

\* The rows and the index of the Connections tab, from the snapshots s.
ConnTable(idx, rows, s) ==
    /\ DOMAIN idx = {s[i].seq : i \in DOMAIN s}
    /\ \A i \in U!Firsts(s) : idx[s[i].seq] = U!RowOf(s, i)
    /\ U!ShowsLatest(rows, s)

\* What UpdateConns does to them with the snapshot c.
Placed(idx, rows, c, idx2, rows2) ==
    IF c.seq \in DOMAIN idx
    THEN rows2 = [rows EXCEPT ![idx[c.seq]] = c] /\ idx2 = idx
    ELSE /\ rows2 = Append(rows, c)
         /\ idx2 = [q \in DOMAIN idx \cup {c.seq} |->
                       IF q = c.seq THEN Len(rows) + 1 ELSE idx[q]]

LEMMA ConnTableStep ==
    ASSUME NEW T, NEW s \in Seq(T), NEW c \in T, NEW idx, NEW rows \in Seq(T), ConnTable(idx, rows, s),
           NEW idx2, NEW rows2, Placed(idx, rows, c, idx2, rows2)
    PROVE  ConnTable(idx2, rows2, Append(s, c)) /\ rows2 \in Seq(T)
  <1> DEFINE g == Append(s, c)
             n == Len(s) + 1
             F == U!Firsts(s)
             N == Cardinality(F)
  <1>1. /\ DOMAIN g = DOMAIN s \cup {n} /\ g[n] = c /\ n \in Nat
        /\ \A i \in DOMAIN s : i \in Nat /\ i < n /\ g[i] = s[i]
    BY Appended
  <1>2. /\ N \in Nat /\ \A i \in F : U!RowOf(s, i) \in 1 .. N /\ i \in DOMAIN s
        /\ \A i, j \in F : U!RowOf(s, i) = U!RowOf(s, j) => i = j
    BY RowFacts
  <1>3. /\ DOMAIN idx = {s[i].seq : i \in DOMAIN s}
        /\ \A i \in F : idx[s[i].seq] = U!RowOf(s, i)
        /\ Len(rows) = N /\ DOMAIN rows = 1 .. N
        /\ \A i \in F, m \in DOMAIN s :
              s[m].seq = s[i].seq /\ U!Newest(s, m) => rows[U!RowOf(s, i)] = s[m]
    BY SameCardinality DEF ConnTable, U!ShowsLatest
  <1>4. \A i \in F : U!RowOf(g, i) = U!RowOf(s, i)
    BY RowAppend
  <1>5. U!Firsts(g) = IF \E i \in DOMAIN s : s[i].seq = c.seq THEN F ELSE F \cup {n}
    BY FirstsAppend
  <1>6. (~\E i \in DOMAIN s : s[i].seq = c.seq) => U!RowOf(g, n) = N + 1 /\ Cardinality(U!Firsts(g)) = N + 1
    BY RowAppend
  <1>7. \A i \in DOMAIN s : \E j \in F : s[j].seq = s[i].seq
    BY FirstExists
  <1>g. {g[i].seq : i \in DOMAIN g} = DOMAIN idx \cup {c.seq}
    BY <1>1, <1>3
  <1> HIDE DEF g, n, F, N
  <1>8. ASSUME NEW m \in DOMAIN s, U!Newest(g, m) PROVE U!Newest(s, m)
    BY <1>1, <1>8 DEF U!Newest
  <1>9. CASE c.seq \in DOMAIN idx
    <2>1. PICK i0 \in F : s[i0].seq = c.seq
      BY <1>3, <1>7, <1>9
    <2>2. U!Firsts(g) = F
      BY <1>2, <1>5, <2>1
    <2>3. idx[c.seq] = U!RowOf(s, i0) /\ U!RowOf(s, i0) \in 1 .. N
      BY <1>2, <1>3, <2>1
    <2>4. rows2 = [rows EXCEPT ![U!RowOf(s, i0)] = c] /\ idx2 = idx
      BY <1>9, <2>3 DEF Placed
    <2>5. rows2 \in Seq(T) /\ Len(rows2) = N
      BY <1>3, <2>3, <2>4, ExceptSeq
    <2>6. ASSUME NEW i \in F, NEW m \in DOMAIN g, g[m].seq = g[i].seq, U!Newest(g, m)
          PROVE  rows2[U!RowOf(g, i)] = g[m]
      <3>1. U!RowOf(g, i) = U!RowOf(s, i) /\ U!RowOf(s, i) \in 1 .. N /\ g[i] = s[i] /\ i \in DOMAIN s
        BY <1>1, <1>2, <1>4
      <3>2. CASE i = i0
        <4>1. n <= m
          BY <1>1, <2>1, <2>6, <3>1, <3>2 DEF U!Newest
        <4>2. m = n
          BY <1>1, <4>1
        <4> QED
          BY <1>1, <1>3, <2>3, <2>4, <3>1, <3>2, <4>2
      <3>3. CASE i # i0
        <4>1. U!RowOf(s, i) # U!RowOf(s, i0)
          BY <1>2, <3>3
        <4>2. s[i].seq # c.seq
          BY <1>3, <2>3, <4>1
        <4>3. m \in DOMAIN s /\ g[m] = s[m] /\ U!Newest(s, m)
          BY <1>1, <1>8, <2>6, <3>1, <4>2
        <4>4. rows[U!RowOf(s, i)] = s[m]
          BY <1>3, <2>6, <3>1, <4>3
        <4> QED
          BY <1>3, <2>4, <3>1, <4>1, <4>3, <4>4
      <3> QED
        BY <3>2, <3>3
    <2>7. U!ShowsLatest(rows2, g)
      BY <2>2, <2>5, <2>6, SameCardinality DEF U!ShowsLatest, N
    <2>8. DOMAIN idx2 = {g[i].seq : i \in DOMAIN g}
      BY <1>9, <1>g, <2>4, Zenon
    <2>9. \A i \in U!Firsts(g) : idx2[g[i].seq] = U!RowOf(g, i)
      BY <1>1, <1>2, <1>3, <1>4, <2>2, <2>4
    <2> QED
      BY <2>5, <2>7, <2>8, <2>9, Zenon DEF ConnTable, g
  <1>10. CASE c.seq \notin DOMAIN idx
    <2>1. ~\E i \in DOMAIN s : s[i].seq = c.seq
      BY <1>3, <1>10
    <2>2. U!Firsts(g) = F \cup {n} /\ U!RowOf(g, n) = N + 1 /\ Cardinality(U!Firsts(g)) = N + 1
      BY <1>5, <1>6, <2>1
    <2>3. /\ rows2 = Append(rows, c)
          /\ idx2 = [q \in DOMAIN idx \cup {c.seq} |-> IF q = c.seq THEN N + 1 ELSE idx[q]]
      BY <1>3, <1>10 DEF Placed
    <2>4. rows2 \in Seq(T) /\ Len(rows2) = N + 1 /\ rows2[N + 1] = c /\ \A r \in 1 .. N : rows2[r] = rows[r]
      BY <1>3, <2>3
    <2>5. ASSUME NEW i \in U!Firsts(g), NEW m \in DOMAIN g, g[m].seq = g[i].seq, U!Newest(g, m)
          PROVE  rows2[U!RowOf(g, i)] = g[m]
      <3>1. CASE i = n
        <4>1. g[m].seq = c.seq
          BY <1>1, <2>5, <3>1
        <4>2. m = n
          BY <1>1, <2>1, <4>1
        <4> QED
          BY <1>1, <2>2, <2>4, <3>1, <4>2
      <3>2. CASE i \in F
        <4>1. U!RowOf(g, i) = U!RowOf(s, i) /\ U!RowOf(s, i) \in 1 .. N /\ g[i] = s[i] /\ i \in DOMAIN s
          BY <1>1, <1>2, <1>4, <3>2
        <4>2. m \in DOMAIN s /\ g[m] = s[m] /\ U!Newest(s, m)
          BY <1>1, <1>8, <2>1, <2>5, <4>1
        <4>3. rows[U!RowOf(s, i)] = s[m]
          BY <1>3, <2>5, <3>2, <4>1, <4>2
        <4> QED
          BY <2>4, <4>1, <4>2, <4>3
      <3> QED
        BY <2>2, <3>1, <3>2
    <2>6. U!ShowsLatest(rows2, g)
      BY <2>2, <2>4, <2>5, SameCardinality DEF U!ShowsLatest
    <2>7. DOMAIN idx2 = {g[i].seq : i \in DOMAIN g}
      BY <1>g, <2>3
    <2>8. ASSUME NEW i \in U!Firsts(g) PROVE idx2[g[i].seq] = U!RowOf(g, i)
      <3>1. CASE i = n
        BY <1>1, <2>2, <2>3, <3>1
      <3>2. CASE i \in F
        <4>1. U!RowOf(g, i) = U!RowOf(s, i) /\ g[i] = s[i] /\ i \in DOMAIN s /\ s[i].seq \in DOMAIN idx
          BY <1>1, <1>2, <1>3, <1>4, <3>2
        <4> QED
          BY <1>3, <1>10, <2>3, <3>2, <4>1
      <3> QED
        BY <2>2, <3>1, <3>2
    <2> QED
      BY <2>4, <2>6, <2>7, <2>8, Zenon DEF ConnTable, g
  <1> QED
    BY <1>9, <1>10

LEMMA HTTPOnlyAppend ==
    ASSUME NEW s, s \in Seq(ToSet(s)), NEW x
    PROVE  /\ U!HTTPOnly(Append(s, x))
                = IF x.proto = "http" THEN Append(U!HTTPOnly(s), x) ELSE U!HTTPOnly(s)
           /\ U!HTTPOnly(s) \in Seq(ToSet(s))
  <1> DEFINE g == Append(s, x)
             T == ToSet(s) \cup {x}
             A == {ex \in ToSet(s) : ex.proto = "http"}
             B == {ex \in ToSet(g) : ex.proto = "http"}
  <1>1. U!HTTPOnly(s) = Only(s, A) /\ U!HTTPOnly(g) = Only(g, B)
    BY SameOnly, SameToSet, Zenon DEF U!HTTPOnly
  <1>2. ToSet(g) = T
    <2>1. /\ DOMAIN g = DOMAIN s \cup {Len(s) + 1} /\ g[Len(s) + 1] = x
          /\ \A i \in DOMAIN s : g[i] = s[i]
      BY AppendToSet
    <2> HIDE DEF g
    <2> QED
      BY <2>1 DEF ToSet
  <1>3. s \in Seq(T) /\ x \in T
    OBVIOUS
  <1>4. x \in B <=> x.proto = "http"
    BY <1>2, <1>3
  <1>5. \A ex \in ToSet(s) : ex \in A <=> ex \in B
    BY <1>2
  <1> HIDE DEF T, A, B
  <1>6. Only(s, A) = Only(s, B)
    BY <1>5, OnlySame
  <1>7. Only(g, B) = IF x \in B THEN Append(Only(s, B), x) ELSE Only(s, B)
    BY <1>3, OnlyAppend
  <1>8. Only(s, A) \in Seq(ToSet(s))
    <2>1. Only(s, A) \in Seq(A)
      BY OnlyType
    <2>2. A \subseteq ToSet(s)
      BY DEF A
    <2> QED
      BY <2>1, <2>2
  <1> HIDE DEF g
  <1>9. U!HTTPOnly(g) = IF x.proto = "http" THEN Append(U!HTTPOnly(s), x) ELSE U!HTTPOnly(s)
    BY <1>1, <1>4, <1>6, <1>7
  <1> QED
    BY <1>1, <1>8, <1>9 DEF g

\* What the tabs show, with the index of the Connections tab.
RowsInv ==
    /\ evRows = U!LastRows(shown["events"])
    /\ httpRows = U!LastRows(U!HTTPOnly(shown["http"]))
    /\ ConnTable(index, connRows, shown["conns"]) /\ connRows \in Seq(ToSet(shown["conns"]))

LEMMA SameRows ==
    ASSUME RowsInv, UNCHANGED <<evRows, connRows, httpRows, index>>,
           \A t \in U!Tabs : shown'[t] = shown[t]
    PROVE  RowsInv'
  <1>1. shown'["events"] = shown["events"] /\ shown'["conns"] = shown["conns"] /\ shown'["http"] = shown["http"]
    BY TabsAre
  <1> QED
    BY <1>1 DEF RowsInv

LEMMA RowsStep ==
    ASSUME TabInv, RowsInv, [TraceNext]_traceVars
    PROVE  RowsInv'
  <1>t. "events" \in U!Tabs /\ "conns" \in U!Tabs /\ "http" \in U!Tabs
    BY TabsAre
  <1>1. CASE CollectorStep \/ CorrelatorStep \/ StreamerStep \/ Quit \/ UNCHANGED traceVars
    BY <1>1, SameRows DEF CollectorStep, CorrelatorStep, StreamerStep, Quit, traceVars, tuiVars
  <1>2. CASE WaitStep
    <2>1. UNCHANGED <<evRows, connRows, httpRows, index, shown>>
      BY <1>2 DEF WaitStep, U!Waits, U!WaitForEvent, U!WaitForConn, U!WaitForExchange, U!ReceiveFrom,
         U!Post
    <2> QED
      BY <2>1, SameRows
  <1>3. CASE KeyStep \/ \E t \in U!Tabs : U!UpdateClosed(t)
    BY <1>3, SameRows DEF KeyStep, U!KeyTab, U!KeyQuit, U!tabVars, U!UpdateClosed
  <1>4. CASE U!UpdateEvents
    <2>1. /\ shown'["events"] = Append(shown["events"], msg["events"][1])
          /\ shown'["conns"] = shown["conns"] /\ shown'["http"] = shown["http"]
      BY <1>4, <1>t, RearmTab DEF U!UpdateEvents
    <2>2. UNCHANGED <<connRows, httpRows, index>> /\ evRows' = U!Scrolled(evRows, msg["events"][1])
      BY <1>4 DEF U!UpdateEvents
    <2>3. PICK s, x : s = shown["events"] /\ x = msg["events"][1]
      OBVIOUS
    <2>4. s \in Seq(ToSet(s) \cup {x}) /\ x \in ToSet(s) \cup {x}
      BY <1>t, <2>3 DEF TabInv
    <2>5. U!Scrolled(U!LastRows(s), x) = U!LastRows(Append(s, x))
      <3> DEFINE T == ToSet(s) \cup {x}
      <3>1. s \in Seq(T) /\ x \in T
        BY <2>4
      <3> HIDE DEF T
      <3> QED
        BY <3>1, LastRowsStep
    <2> QED
      BY <2>1, <2>2, <2>3, <2>5 DEF RowsInv
  <1>5. CASE U!UpdateHTTP
    <2>1. /\ shown'["http"] = Append(shown["http"], msg["http"][1])
          /\ shown'["conns"] = shown["conns"] /\ shown'["events"] = shown["events"]
      BY <1>5, <1>t, RearmTab DEF U!UpdateHTTP
    <2>2. UNCHANGED <<connRows, evRows, index>>
      BY <1>5 DEF U!UpdateHTTP
    <2>3. PICK s, x : s = shown["http"] /\ x = msg["http"][1]
      OBVIOUS
    <2>4. httpRows' = IF x.proto = "http" THEN U!Scrolled(httpRows, x) ELSE httpRows
      BY <1>5, <2>3 DEF U!UpdateHTTP
    <2>5. s \in Seq(ToSet(s))
      BY <1>t, <2>3 DEF TabInv
    <2>6. PICK h : h = U!HTTPOnly(s)
      OBVIOUS
    <2>7. U!HTTPOnly(Append(s, x)) = (IF x.proto = "http" THEN Append(h, x) ELSE h) /\ h \in Seq(ToSet(s))
      BY <2>5, <2>6, HTTPOnlyAppend
    <2>8. U!Scrolled(U!LastRows(h), x) = U!LastRows(Append(h, x))
      <3> DEFINE T == ToSet(s) \cup {x}
      <3>1. h \in Seq(T) /\ x \in T
        BY <2>7
      <3> HIDE DEF T
      <3> QED
        BY <3>1, LastRowsStep
    <2>9. httpRows = U!LastRows(h)
      BY <2>3, <2>6 DEF RowsInv
    <2>10. httpRows' = U!LastRows(U!HTTPOnly(Append(s, x)))
      BY <2>4, <2>7, <2>8, <2>9
    <2> QED
      BY <2>1, <2>2, <2>3, <2>10 DEF RowsInv
  <1>6. CASE U!UpdateConns
    <2>1. /\ shown'["conns"] = Append(shown["conns"], msg["conns"][1])
          /\ shown'["events"] = shown["events"] /\ shown'["http"] = shown["http"]
      BY <1>6, <1>t, RearmTab DEF U!UpdateConns
    <2>2. UNCHANGED <<evRows, httpRows>>
      BY <1>6 DEF U!UpdateConns
    <2>3. PICK s, c, idx, rows, idx2, rows2 :
             /\ s = shown["conns"] /\ c = msg["conns"][1] /\ idx = index /\ rows = connRows
             /\ idx2 = index' /\ rows2 = connRows'
      OBVIOUS
    <2>4. Placed(idx, rows, c, idx2, rows2)
      BY <1>6, <2>3 DEF U!UpdateConns, Placed
    <2>5. s \in Seq(ToSet(s)) /\ rows \in Seq(ToSet(s)) /\ ConnTable(idx, rows, s)
      BY <1>t, <2>3 DEF TabInv, RowsInv
    <2>6. ConnTable(idx2, rows2, Append(s, c)) /\ rows2 \in Seq(ToSet(Append(s, c)))
      <3> DEFINE T == ToSet(Append(s, c))
      <3>1. /\ DOMAIN Append(s, c) = DOMAIN s \cup {Len(s) + 1} /\ Append(s, c)[Len(s) + 1] = c
            /\ \A i \in DOMAIN s : Append(s, c)[i] = s[i]
        BY <2>5, AppendToSet
      <3>2. ToSet(s) \subseteq T /\ c \in T
        BY <3>1 DEF ToSet
      <3> HIDE DEF T
      <3>3. s \in Seq(T) /\ rows \in Seq(T)
        BY <2>5, <3>2
      <3>4. ConnTable(idx2, rows2, Append(s, c)) /\ rows2 \in Seq(T)
        BY <2>4, <2>5, <3>2, <3>3, ConnTableStep
      <3> QED
        BY <3>4 DEF T
    <2> QED
      BY <2>1, <2>2, <2>3, <2>6 DEF RowsInv
  <1> QED
    BY <1>1, <1>2, <1>3, <1>4, <1>5, <1>6 DEF TraceNext, UpdateStep, U!Updates

-----------------------------------------------------------------------------
(* The trace.                                                              *)

LEMMA TabStep ==
    ASSUME TabInv, [TraceNext]_traceVars
    PROVE  TabInv'
  <1>t. "events" \in U!Tabs /\ "conns" \in U!Tabs /\ "http" \in U!Tabs
    BY TabsAre
  <1>1. CASE CollectorStep \/ CorrelatorStep \/ StreamerStep \/ Quit \/ UNCHANGED traceVars
    <2>1. UNCHANGED tuiVars
      BY <1>1 DEF CollectorStep, CorrelatorStep, StreamerStep, Quit, traceVars
    <2> QED
      BY <2>1, OtherTabs
  <1>2. CASE WaitStep
    <2>1. CASE \E t \in U!Tabs : cmd[t] = "waiting" /\ U!Post(t, <<>>)
      BY <2>1, PostEnd
    <2>2. ASSUME NEW t \in U!Tabs, NEW x, cmd[t] = "waiting", U!Post(t, <<x>>) PROVE TabInv'
      BY <2>2, PostTab
    <2> QED
      BY <1>2, <1>t, <2>1, <2>2, WaitCases
  <1>3. CASE UpdateStep \/ KeyStep
    BY <1>3, UpdateTabs
  <1> QED
    BY <1>1, <1>2, <1>3 DEF TraceNext

\* The inductive invariant: the correlator's and the streamer's, and what
\* ties the tabs to them.
TraceInv ==
    /\ IInv /\ SP!IInv /\ TabInv /\ EndInv /\ CountInv
    /\ TabEnds /\ ConnsInv /\ RowsInv

LEMMA TraceStep == TraceInv /\ [TraceNext]_traceVars => TraceInv'
  <1> SUFFICES ASSUME TraceInv, [TraceNext]_traceVars PROVE TraceInv'
    OBVIOUS
  <1>1. IInv /\ SP!IInv /\ TabInv /\ EndInv /\ CountInv /\ TabEnds /\ ConnsInv /\ RowsInv
    BY DEF TraceInv
  <1>2. TypeOK
    BY <1>1 DEF IInv
  <1>3. SP!TypeOK
    BY <1>1, StreamerConstants, SP!IInvMeans
  <1>4. [Next]_vars /\ [SP!Next]_(SP!vars)
    BY <1>1, <1>2, IsCorrelatorStep, IsStreamerStep
  <1>5. IInv'
    BY <1>1, <1>4, NextStep
  <1>6. SP!IInv'
    BY <1>1, <1>4, StreamerConstants, SP!StepIInv
  <1>7. TabInv' /\ EndInv' /\ CountInv' /\ TabEnds' /\ ConnsInv' /\ RowsInv'
    BY <1>1, <1>2, <1>3, <1>4, TabStep, EndInvStep, CountStep, TabEndsStep, ConnsStep, RowsStep
  <1> QED
    BY <1>5, <1>6, <1>7 DEF TraceInv

LEMMA SameInit == TraceInit => Init /\ SP!Init
  <1> SUFFICES ASSUME TraceInit PROVE SP!Init
    BY DEF TraceInit
  <1>1. shown["events"] \o msg["events"] = <<>> /\ shown["http"] \o msg["http"] = <<>>
    <2>1. /\ shown["events"] = <<>> /\ msg["events"] = <<>>
          /\ shown["http"] = <<>> /\ msg["http"] = <<>>
      BY TabsAre DEF TraceInit, U!Init
    <2> QED
      BY <2>1
  <1> QED
    BY <1>1 DEF TraceInit, Init, S!Init, SP!Init, MakeChan, S!MakeChan, SP!MakeChan,
       S!NewBufs, SP!NewBufs

LEMMA TraceStart == TraceInit => TraceInv
  <1> SUFFICES ASSUME TraceInit PROVE TraceInv
    OBVIOUS
  <1>t. "events" \in U!Tabs /\ "conns" \in U!Tabs /\ "http" \in U!Tabs
    BY TabsAre
  <1>1. IInv /\ SP!IInv
    BY SameInit, InitIInv, StreamerConstants, SP!InitIInv
  <1>2. /\ \A t \in U!Tabs : cmd[t] = "waiting" /\ msg[t] = <<>> /\ shown[t] = <<>> /\ ~closed[t]
        /\ cmd \in [U!Tabs -> {"waiting", "posted", "none"}] /\ closed \in [U!Tabs -> BOOLEAN]
        /\ DOMAIN msg = U!Tabs /\ DOMAIN shown = U!Tabs /\ active = 0 /\ running = TRUE
        /\ evRows = <<>> /\ connRows = <<>> /\ httpRows = <<>> /\ DOMAIN index = {}
    BY DEF TraceInit, U!Init
  <1>3. TabInv
    <2>1. <<>> \in Seq(ToSet(<<>>)) /\ Len(<<>>) <= 1
      OBVIOUS
    <2>2. ASSUME NEW t \in U!Tabs
          PROVE  /\ msg[t] \in Seq(ToSet(msg[t])) /\ shown[t] \in Seq(ToSet(shown[t]))
                 /\ Len(msg[t]) <= 1 /\ (msg[t] # <<>> => cmd[t] = "posted")
                 /\ (closed[t] => cmd[t] = "none")
      BY <1>2, <2>1, Zenon
    <2>3. active \in 0 .. 2 /\ running \in BOOLEAN
      BY <1>2
    <2> QED
      BY <1>2, <2>2, <2>3, Zenon DEF TabInv
  <1>4. pc = "recv" /\ raw = MakeChan /\ events = MakeChan /\ conns = MakeChan /\ handled = <<>> /\ snaps = <<>>
    BY DEF TraceInit, Init
  <1>5. spc = "recv" /\ raw2 = MakeChan /\ out = MakeChan
    BY SameInit DEF SP!Init, SP!MakeChan, MakeChan
  <1>6. EndInv /\ CountInv
    BY <1>4, <1>5, CorrelatorAssumption DEF EndInv, CountInv, MakeChan
  <1>7. TabEnds
    BY <1>t, <1>2 DEF TabEnds, Ended
  <1>8. ConnsInv
    <2>1. Got("conns") = <<>>
      BY <1>t, <1>2 DEF Got
    <2>2. <<>> \in Seq(Connections) /\ <<>> \o <<>> = <<>>
      OBVIOUS
    <2>3. conns.buf = <<>>
      BY <1>4 DEF MakeChan
    <2> QED
      BY <1>4, <2>1, <2>2, <2>3, Zenon DEF ConnsInv
  <1>9. RowsInv
    <2>1. U!LastRows(<<>>) = <<>>
      BY TraceAssumption DEF U!LastRows
    <2>2. U!HTTPOnly(<<>>) = <<>>
      BY SameOnly, OnlyEmpty DEF U!HTTPOnly
    <2>3. ConnTable(index, <<>>, <<>>)
      <3>1. U!Firsts(<<>>) = {}
        BY DEF U!Firsts
      <3> QED
        BY <1>2, <3>1, SameCardinality, FS_EmptySet DEF ConnTable, U!ShowsLatest
    <2>4. <<>> \in Seq(ToSet(<<>>))
      OBVIOUS
    <2> QED
      BY <1>t, <1>2, <2>1, <2>2, <2>3, <2>4 DEF RowsInv
  <1> QED
    BY <1>1, <1>3, <1>6, <1>7, <1>8, <1>9 DEF TraceInv

\* The streamer's definitions, reached through its two instances.
LEMMA SameStreamerType == SP!TypeOK => S!TypeOK
  <1>1. \A ev : S!KeyOf(ev) = SP!KeyOf(ev)
    BY DEF S!KeyOf, SP!KeyOf, S!WidenFd, SP!WidenFd
  <1>2. \A p, f, b : S!Decode(p, f, b) = SP!Decode(p, f, b)
    BY DEF S!Decode, SP!Decode
  <1>3. \A ex : S!Decoded(ex) <=> SP!Decoded(ex)
    BY DEF S!Decoded, SP!Decoded
  <1>4. \A T : S!ChanOf(T) = SP!ChanOf(T)
    BY DEF S!ChanOf, SP!ChanOf
  <1>5. \A s : S!ToSet(s) = SP!ToSet(s)
    BY DEF S!ToSet, SP!ToSet
  <1>6. S!Keys = SP!Keys /\ S!BufsType = SP!BufsType
    BY DEF S!Keys, SP!Keys, S!BufsType, SP!BufsType
  <1> QED
    BY <1>1, <1>2, <1>3, <1>4, <1>5, <1>6 DEF S!TypeOK, SP!TypeOK

LEMMA SameExchanges == SP!ExchangesMatchHistory => S!ExchangesMatchHistory
  <1>1. \A p, f, b : S!Decode(p, f, b) = SP!Decode(p, f, b)
    BY DEF S!Decode, SP!Decode
  <1>2. \A ex : S!Decoded(ex) <=> SP!Decoded(ex)
    BY DEF S!Decoded, SP!Decoded
  <1>3. \A s : S!ToSet(s) = SP!ToSet(s)
    BY DEF S!ToSet, SP!ToSet
  <1>4. \A X : S!Cardinality(X) = SP!Cardinality(X)
    BY DEF S!Cardinality, SP!Cardinality
  <1>5. \A k : S!FlushExchange(k) = SP!FlushExchange(k)
    BY <1>1 DEF S!FlushExchange, SP!FlushExchange, S!NarrowFd, SP!NarrowFd
  <1>6. S!Emitted = SP!Emitted /\ S!Applied = SP!Applied
    BY DEF S!Emitted, SP!Emitted, S!Applied, SP!Applied, S!Passed, SP!Passed, S!Front, SP!Front
  <1>7. S!ReadOps = SP!ReadOps /\ S!WriteOps = SP!WriteOps
    BY DEF S!ReadOps, SP!ReadOps, S!WriteOps, SP!WriteOps
  <1>8. \A ev : /\ S!Endpoint(ev) = SP!Endpoint(ev) /\ S!Payload(ev) = SP!Payload(ev)
                /\ (S!Truncated(ev) <=> SP!Truncated(ev))
    BY DEF S!Endpoint, SP!Endpoint, S!Payload, SP!Payload, S!Truncated, SP!Truncated
  <1>9. \A h, e : S!Lifetime(h, e) = SP!Lifetime(h, e)
    BY <1>7, <1>8 DEF S!Lifetime, SP!Lifetime
  <1>10. \A ss : S!FlattenSeq(ss) = SP!FlattenSeq(ss)
    BY DEF S!FlattenSeq, SP!FlattenSeq
  <1>11. \A h, e, ops : S!Stream(h, e, ops) = SP!Stream(h, e, ops)
    BY <1>8, <1>9, <1>10 DEF S!Stream, SP!Stream
  <1>12. \A h, e : S!BufsOf(h, e) = SP!BufsOf(h, e)
    BY <1>7, <1>8, <1>9, <1>11, Zenon DEF S!BufsOf, SP!BufsOf, S!Capped, SP!Capped
  <1>13. \A h, ev : S!ExchangeOfClose(h, ev) = SP!ExchangeOfClose(h, ev)
    BY <1>1, <1>8, <1>12 DEF S!ExchangeOfClose, SP!ExchangeOfClose
  <1>14. \A h, ev : S!Due(h, ev) <=> SP!Due(h, ev)
    BY <1>2, <1>8, <1>9, <1>13 DEF S!Due, SP!Due
  <1>15. \A h : S!CloseExchanges(h) = SP!CloseExchanges(h)
    BY <1>10, <1>13, <1>14 DEF S!CloseExchanges, SP!CloseExchanges
  <1> QED
    BY <1>2, <1>3, <1>4, <1>5, <1>6, <1>15, Zenon DEF S!ExchangesMatchHistory, SP!ExchangesMatchHistory

LEMMA PrefixOfConcat ==
    ASSUME NEW T, NEW s \in Seq(T), NEW t \in Seq(T)
    PROVE  IsPrefix(s, s \o t)
  <1> DEFINE u == s \o t
  <1>1. u \in Seq(T) /\ Len(u) = Len(s) + Len(t) /\ \A i \in 1 .. Len(s) : u[i] = s[i]
    OBVIOUS
  <1>2. Len(s) \in Nat /\ Len(t) \in Nat
    OBVIOUS
  <1> HIDE DEF u
  <1>3. Len(s) <= Len(u)
    BY <1>1, <1>2
  <1>4. SubSeq(s, 1, Len(s)) = SubSeq(u, 1, Len(s))
    BY <1>1, <1>2, <1>3
  <1> QED
    BY <1>3, <1>4 DEF IsPrefix, u

\* What the invariant says of the tabs: with the events under way behind it,
\* what the Events tab has is what the correlator handled.
LEMMA TabsAreCurrent ==
    ASSUME TraceInv
    PROVE  TabsShowTheTrace
  <1>t. "events" \in U!Tabs /\ "conns" \in U!Tabs /\ "http" \in U!Tabs
    BY TabsAre
  <1>i. /\ SP!TypeOK /\ SP!RawIsPassThrough /\ SP!ExchangesMatchHistory
        /\ IInv /\ TabInv /\ EndInv /\ TabEnds /\ ConnsInv
    BY StreamerConstants, SP!IInvMeans DEF TraceInv
  <1>1. PICK s, m, b, c, e :
           /\ s = shown["events"] /\ m = msg["events"] /\ b = raw2.buf
           /\ c = (IF spc = "raw" THEN scur ELSE <<>>) /\ e = raw.buf
    OBVIOUS
  <1>2. /\ handled = ((s \o m) \o b) \o c \o e
        /\ s \o m \in Seq(Inputs) /\ b \in Seq(Inputs) /\ c \in Seq(Inputs) /\ e \in Seq(Inputs)
    BY <1>i, <1>1 DEF SP!RawIsPassThrough, SP!Passed, SP!TypeOK, SP!ChanOf
  <1>3. PICK V : s \in Seq(V) /\ m \in Seq(V) /\ Inputs \subseteq V
    <2> DEFINE V == ToSet(s) \cup ToSet(m) \cup Inputs
    <2>1. s \in Seq(ToSet(s)) /\ m \in Seq(ToSet(m))
      BY <1>t, <1>i, <1>1 DEF TabInv
    <2>2. ToSet(s) \subseteq V /\ ToSet(m) \subseteq V /\ Inputs \subseteq V
      OBVIOUS
    <2> HIDE DEF V
    <2>3. s \in Seq(V) /\ m \in Seq(V)
      BY <2>1, <2>2
    <2> QED
      BY <2>2, <2>3
  <1>4. b \in Seq(V) /\ c \in Seq(V) /\ e \in Seq(V)
    BY <1>2, <1>3
  <1>5. IsPrefix(shown["events"], handled)
    <2>1. PICK r : r = m \o (b \o (c \o e))
      BY Zenon
    <2>2. r \in Seq(V)
      BY <1>3, <1>4, <2>1
    <2>3. handled = s \o r
      <3>1. PICK sm, ce : sm = s \o m /\ ce = c \o e
        BY Zenon
      <3>2. sm \in Seq(V) /\ ce \in Seq(V)
        BY <1>3, <1>4, <3>1
      <3>3. ((sm \o b) \o c) \o e = (sm \o b) \o ce
        <4>1. PICK x : x = sm \o b
          BY Zenon
        <4>2. x \in Seq(V)
          BY <1>4, <3>2, <4>1
        <4>3. (x \o c) \o e = x \o (c \o e)
          BY <1>4, <4>2, ConcatAssociative
        <4> QED
          BY <3>1, <4>1, <4>3
      <3>4. (sm \o b) \o ce = sm \o (b \o ce)
        BY <1>4, <3>2, ConcatAssociative
      <3>5. PICK y : y = b \o ce
        BY Zenon
      <3>6. y \in Seq(V)
        BY <1>4, <3>2, <3>5
      <3>7. (s \o m) \o y = s \o (m \o y)
        BY <1>3, <3>6, ConcatAssociative
      <3> QED
        BY <1>2, <2>1, <3>1, <3>3, <3>4, <3>5, <3>7
    <2>4. IsPrefix(s, s \o r)
      BY <1>3, <2>2, PrefixOfConcat
    <2> QED
      BY <1>1, <2>3, <2>4
  <1>6. IsPrefix(shown["conns"], snaps)
    <2>1. PICK p, q, d : p = shown["conns"] /\ q = msg["conns"] /\ d = conns.buf
      OBVIOUS
    <2>2. p \o q \in Seq(Connections) /\ d \in Seq(Connections) /\ snaps = (p \o q) \o d
      BY <1>i, <2>1 DEF ConnsInv, Got, IInv, TypeOK, ChanOf
    <2>3. PICK W : p \in Seq(W) /\ q \in Seq(W) /\ Connections \subseteq W
      <3> DEFINE W == ToSet(p) \cup ToSet(q) \cup Connections
      <3>1. p \in Seq(ToSet(p)) /\ q \in Seq(ToSet(q))
        BY <1>t, <1>i, <2>1 DEF TabInv
      <3>2. ToSet(p) \subseteq W /\ ToSet(q) \subseteq W /\ Connections \subseteq W
        OBVIOUS
      <3> HIDE DEF W
      <3>3. p \in Seq(W) /\ q \in Seq(W)
        BY <3>1, <3>2
      <3> QED
        BY <3>2, <3>3
    <2>4. d \in Seq(W)
      BY <2>2, <2>3
    <2>5. PICK r : r = q \o d
      BY Zenon
    <2>6. r \in Seq(W)
      BY <2>3, <2>4, <2>5
    <2>7. (p \o q) \o d = p \o r
      BY <2>3, <2>4, <2>5, ConcatAssociative
    <2>8. IsPrefix(p, p \o r)
      BY <2>3, <2>6, PrefixOfConcat
    <2> QED
      BY <2>1, <2>2, <2>7, <2>8
  <1>7. ASSUME closed["events"] PROVE Drained(events) /\ shown["events"] = handled
    <2>1. Drained(raw2) /\ m = <<>>
      BY <1>t, <1>i, <1>1, <1>7 DEF TabEnds, Ended, TabInv
    <2>2. spc = "done" /\ Drained(raw) /\ pc = "done" /\ Drained(events)
      BY <1>i, <2>1 DEF EndInv, Drained
    <2>3. b = <<>> /\ c = <<>> /\ e = <<>>
      BY <1>1, <2>1, <2>2 DEF Drained
    <2>4. s \o <<>> = s
      BY <1>3
    <2> QED
      BY <1>1, <1>2, <2>1, <2>2, <2>3, <2>4
  <1>8. ASSUME closed["conns"] PROVE Drained(events) /\ shown["conns"] = snaps
    <2>1. Drained(conns) /\ msg["conns"] = <<>> /\ shown["conns"] \in Seq(ToSet(shown["conns"]))
      BY <1>t, <1>i, <1>8 DEF TabEnds, Ended, TabInv
    <2>2. Drained(events)
      BY <1>i, <2>1 DEF EndInv, Drained
    <2>3. shown["conns"] \o <<>> = shown["conns"]
      BY <2>1
    <2> QED
      BY <1>i, <2>1, <2>2, <2>3 DEF ConnsInv, Got, Drained
  <1>9. ASSUME closed["http"] PROVE Drained(raw) /\ todo = {} /\ S!ExchangesMatchHistory
    <2>1. Drained(out)
      BY <1>i, <1>9 DEF TabEnds, Ended
    <2> QED
      BY <1>i, <2>1, SameExchanges DEF EndInv, Drained
  <1> QED
    BY <1>5, <1>6, <1>7, <1>8, <1>9 DEF TabsShowTheTrace

LEMMA TraceTypes ==
    ASSUME TraceInv
    PROVE  TraceTypeOK
  <1>t. "events" \in U!Tabs /\ "http" \in U!Tabs
    BY TabsAre
  <1>1. TypeOK
    BY DEF TraceInv, IInv
  <1>2. S!TypeOK
    BY StreamerConstants, SP!IInvMeans, SameStreamerType DEF TraceInv
  <1>3. TabInv /\ RowsInv
    BY DEF TraceInv
  <1>4. Len(evRows) <= MaxRows
    <2>1. PICK s : s = shown["events"]
      OBVIOUS
    <2>2. s \in Seq(ToSet(s))
      BY <1>t, <1>3, <2>1 DEF TabInv
    <2>3. Len(U!LastRows(s)) <= MaxRows
      BY <2>2, RowsBounded
    <2> QED
      BY <1>3, <2>1, <2>3 DEF RowsInv
  <1>5. Len(httpRows) <= MaxRows
    <2>1. PICK s : s = shown["http"]
      OBVIOUS
    <2>2. s \in Seq(ToSet(s))
      BY <1>t, <1>3, <2>1 DEF TabInv
    <2>3. PICK h : h = U!HTTPOnly(s)
      OBVIOUS
    <2>4. h \in Seq(ToSet(s))
      BY <2>2, <2>3, HTTPOnlyAppend
    <2>5. Len(U!LastRows(h)) <= MaxRows
      BY <2>4, RowsBounded
    <2> QED
      BY <1>3, <2>1, <2>3, <2>5 DEF RowsInv
  <1>6. U!TypeOK
    BY <1>3, <1>4, <1>5 DEF U!TypeOK, TabInv
  <1> QED
    BY <1>1, <1>2, <1>6 DEF TraceTypeOK

\* Composed with a streamer and the tabs in place of its environment, the
\* correlator is still the one its theorems are about: every behaviour of the
\* trace is one of its own, between steps that do not concern it.
THEOREM TraceRunsCorrelator == TraceSpec => Init /\ [][Next]_vars
  <1>1. TraceInv => TabInv
    BY DEF TraceInv
  <1> QED
    BY <1>1, TraceStart, TraceStep, SameInit, IsCorrelatorStep, PTL DEF TraceSpec

\* And the same for the streamer, which the correlator feeds and the Events
\* and HTTP tabs drain.
THEOREM TraceRunsStreamer == TraceSpec => SP!Init /\ [][SP!Next]_(SP!vars)
  <1>1. TraceInv => TypeOK /\ TabInv /\ EndInv /\ CountInv
    BY DEF TraceInv, IInv
  <1> QED
    BY <1>1, TraceStart, TraceStep, SameInit, IsStreamerStep, PTL DEF TraceSpec

\* For any events, decoders and capacities, in any interleaving of the
\* goroutines, the commands and the keys: every variable of the three
\* components has its type, no tab keeps more than maxRows rows, and none has
\* more than one value posted.
THEOREM TraceWellTyped == TraceSpec => []TraceTypeOK
  BY TraceStart, TraceStep, TraceTypes, PTL DEF TraceSpec

\* The Events and HTTP tabs show the latest maxRows values they were handed,
\* and the Connections tab the latest snapshot of every connection, in the
\* order in which the connections were opened: the row the index names is
\* always the right one.
THEOREM TraceRowsAreCurrent == TraceSpec => []RowsAreCurrent
  <1>1. TraceInv => RowsAreCurrent
    BY DEF TraceInv, RowsInv, ConnTable, RowsAreCurrent, U!RowsAreCurrent
  <1> QED
    BY <1>1, TraceStart, TraceStep, PTL DEF TraceSpec

\* From the events channel to the screen nothing is lost, duplicated or
\* reordered, and a tab that says "trace ended" has shown all there was.
THEOREM TraceTabsShowTheTrace == TraceSpec => []TabsShowTheTrace
  BY TraceStart, TraceStep, TabsAreCurrent, PTL DEF TraceSpec
=============================================================================
