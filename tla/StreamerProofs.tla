--------------------------- MODULE StreamerProofs ---------------------------
(* TypeOK and RawIsPassThrough hold of the streamer for every capacity,    *)
(* every set of events and every pair of decoders.                         *)
EXTENDS Streamer, ChannelTheorems

\* appendCapped never lets a buffer that is within bufCap grow beyond it.
LEMMA AppendCappedBounded ==
    ASSUME NEW dst \in Seq(Byte), NEW add \in Seq(Byte), Len(dst) <= BufCap
    PROVE  AppendCapped(dst, add) \in Seq(Byte) /\ Len(AppendCapped(dst, add)) <= BufCap
  <1> DEFINE room == BufCap - Len(dst)
  <1>1. BufCap \in Nat /\ Len(dst) \in Nat /\ Len(add) \in Nat /\ room \in Nat
    BY StreamerAssumption
  <1>2. CASE room <= 0
    BY <1>2 DEF AppendCapped
  <1>3. CASE room > 0 /\ Len(add) > room
    <2>1. SubSeq(add, 1, room) \in Seq(Byte) /\ Len(SubSeq(add, 1, room)) = room
      BY <1>1, <1>3
    <2>2. /\ dst \o SubSeq(add, 1, room) \in Seq(Byte)
          /\ Len(dst \o SubSeq(add, 1, room)) = Len(dst) + room
      BY <2>1
    <2> QED
      BY <1>1, <1>3, <2>2 DEF AppendCapped
  <1>4. CASE room > 0 /\ ~(Len(add) > room)
    <2>1. dst \o add \in Seq(Byte) /\ Len(dst \o add) = Len(dst) + Len(add)
      OBVIOUS
    <2> QED
      BY <1>1, <1>4, <2>1 DEF AppendCapped
  <1> QED
    BY <1>1, <1>2, <1>3, <1>4

\* The key of every event is a key of the map.
LEMMA KeyOfType ==
    ASSUME NEW ev \in Inputs
    PROVE  KeyOf(ev) \in Keys
  <1>1. ev.pid \in Nat /\ ev.ssl \in Nat /\ WidenFd(ev.fd) \in Nat
    BY StreamerAssumption, CapAssumption DEF WidenFd
  <1> QED
    BY <1>1 DEF KeyOf, Keys

BufsOK(b) == b \in BufsType /\ Len(b.read) <= BufCap /\ Len(b.write) <= BufCap

\* Buffering a payload keeps a connection's buffers within their cap.
LEMMA BufferedOK ==
    ASSUME NEW ev \in Inputs, NEW b, BufsOK(b)
    PROVE  BufsOK(Buffered(b, ev))
  <1>1. ev.data \in Seq(Byte) /\ Truncated(ev) \in BOOLEAN
    BY StreamerAssumption DEF Truncated
  <1>2. b.read \in Seq(Byte) /\ b.write \in Seq(Byte) /\ b.truncated \in BOOLEAN
        /\ Len(b.read) <= BufCap /\ Len(b.write) <= BufCap
    BY DEF BufsOK, BufsType
  <1> DEFINE r == IF ev.op \in ReadOps THEN AppendCapped(b.read, Payload(ev)) ELSE b.read
             w == IF ev.op \in WriteOps THEN AppendCapped(b.write, Payload(ev)) ELSE b.write
             t == b.truncated \/ Truncated(ev)
  <1>3. r \in Seq(Byte) /\ Len(r) <= BufCap
    BY <1>1, <1>2, AppendCappedBounded DEF Payload
  <1>4. w \in Seq(Byte) /\ Len(w) <= BufCap
    BY <1>1, <1>2, AppendCappedBounded DEF Payload
  <1>5. t \in BOOLEAN
    BY <1>1, <1>2
  <1>6. Buffered(b, ev) = [read |-> r, write |-> w, truncated |-> t]
    BY DEF Buffered
  <1> HIDE DEF r, w, t
  <1> QED
    BY <1>3, <1>4, <1>5, <1>6 DEF BufsOK, BufsType

LEMMA GetOK ==
    ASSUME NEW k, \A x \in DOMAIN bufs : BufsOK(bufs[x])
    PROVE  BufsOK(Get(k))
  <1>1. BufsOK(NewBufs)
    BY StreamerAssumption DEF BufsOK, BufsType, NewBufs
  <1> QED
    BY <1>1 DEF Get

-----------------------------------------------------------------------------
(* The goroutine's steps.                                                  *)

LEMMA InitOK == Init => TypeOK /\ RawIsPassThrough
  <1> SUFFICES ASSUME Init PROVE TypeOK /\ RawIsPassThrough
    OBVIOUS
  <1>1. \A T : MakeChan \in ChanOf(T) /\ MakeChan.buf = <<>>
    BY DEF MakeChan, ChanOf
  <1>2. DOMAIN bufs = {} /\ Len(<<>>) = 0 /\ DOMAIN <<>> = {}
    BY DEF Init
  <1>3. TypeOK
    BY <1>1, <1>2, StreamerAssumption DEF Init, TypeOK
  <1>4. RawIsPassThrough
    BY <1>1 DEF Init, RawIsPassThrough, Passed
  <1> QED
    BY <1>3, <1>4

\* What forwarding the event in hand does to the raw channel.
LEMMA PassRawOK ==
    ASSUME TypeOK, RawIsPassThrough, PassRaw
    PROVE  /\ cur = <<cur[1]>> /\ cur[1] \in Inputs /\ pc = "raw"
           /\ raw' \in ChanOf(Inputs) /\ Len(raw'.buf) <= RawCap
           /\ sent = (rawTaken \o raw'.buf) \o events.buf
  <1>1. pc = "raw" /\ cur \in Seq(Inputs) /\ Len(cur) = 1
    BY DEF TypeOK, PassRaw
  <1>2. cur = <<cur[1]>> /\ cur[1] \in Inputs
    BY <1>1, SingletonSeq
  <1>3. raw \in ChanOf(Inputs) /\ Len(raw.buf) < RawCap /\ raw.buf \in Seq(Inputs)
    BY DEF TypeOK, PassRaw, HasRoom, ChanOf
  <1>4. /\ raw' \in ChanOf(Inputs) /\ raw'.buf = Append(raw.buf, cur[1])
        /\ Len(raw'.buf) = Len(raw.buf) + 1
    BY <1>2, <1>3, SendChan DEF PassRaw
  <1>5. Len(raw'.buf) <= RawCap
    BY <1>3, <1>4, StreamerAssumption
  <1>6. rawTaken \in Seq(Inputs) /\ events.buf \in Seq(Inputs)
    BY DEF TypeOK, ChanOf
  <1>7. (rawTaken \o raw.buf) \o <<cur[1]>> = rawTaken \o Append(raw.buf, cur[1])
    <2>1. rawTaken \in Seq(Inputs) /\ raw.buf \in Seq(Inputs) /\ <<cur[1]>> \in Seq(Inputs)
      BY <1>2, <1>3, <1>6
    <2>2. Append(raw.buf, cur[1]) = raw.buf \o <<cur[1]>>
      BY <1>2, <1>3, AppendIsConcat
    <2> DEFINE a == rawTaken
               b == raw.buf
               c == <<cur[1]>>
    <2>3. a \in Seq(Inputs) /\ b \in Seq(Inputs) /\ c \in Seq(Inputs)
      BY <2>1
    <2> HIDE DEF a, b, c
    <2>4. (a \o b) \o c = a \o (b \o c)
      BY <2>3, ConcatAssociative
    <2> QED
      BY <2>2, <2>4 DEF a, b, c
  <1>8. sent = ((rawTaken \o raw.buf) \o cur) \o events.buf
    BY <1>1 DEF RawIsPassThrough, Passed
  <1> QED
    BY <1>1, <1>2, <1>4, <1>5, <1>7, <1>8

\* What sending a recognised exchange does to the channel of exchanges.
LEMMA SendOutOK ==
    ASSUME TypeOK, HasRoom(out, OutCap), NEW ex, Decoded(ex), out' = Send(out, ex)
    PROVE  /\ out' \in ChanOf(ToSet(out'.buf)) /\ Len(out'.buf) <= OutCap
           /\ \A i \in DOMAIN out'.buf : Decoded(out'.buf[i])
  <1>1. /\ out \in ChanOf(ToSet(out.buf)) /\ Len(out.buf) < OutCap
        /\ out.buf \in Seq(ToSet(out.buf))
        /\ \A i \in DOMAIN out.buf : Decoded(out.buf[i])
    BY DEF TypeOK, HasRoom, ChanOf
  <1>2. /\ Send(out, ex) \in ChanOf(ToSet(Send(out, ex).buf))
        /\ Send(out, ex).buf = Append(out.buf, ex)
        /\ Len(Send(out, ex).buf) = Len(out.buf) + 1
    BY <1>1, SendToSet
  <1>3. Len(out.buf) + 1 <= OutCap
    BY <1>1, StreamerAssumption
  <1>4. \A i \in DOMAIN Append(out.buf, ex) :
           Append(out.buf, ex)[i] = ex
           \/ (i \in DOMAIN out.buf /\ Append(out.buf, ex)[i] = out.buf[i])
    BY <1>1
  <1> QED
    BY <1>1, <1>2, <1>3, <1>4

LEMMA GoroutineOK ==
    ASSUME TypeOK, RawIsPassThrough, Goroutine, UNCHANGED <<sent, rawTaken, outTaken>>
    PROVE  TypeOK' /\ RawIsPassThrough'
  <1>1. CASE Recv
    <2>1. /\ events' \in ChanOf(Inputs) /\ Head(events.buf) \in Inputs
          /\ events'.buf = Tail(events.buf) /\ Len(events'.buf) <= EventsCap
          /\ events.buf = <<Head(events.buf)>> \o events'.buf
      <3>1. events \in ChanOf(Inputs) /\ HasValue(events) /\ events' = Receive(events)
        BY <1>1 DEF TypeOK, Recv
      <3>2. Len(events.buf) <= EventsCap /\ events.buf \in Seq(Inputs)
        BY DEF TypeOK, ChanOf
      <3>3. /\ Receive(events) \in ChanOf(Inputs) /\ Head(events.buf) \in Inputs
            /\ Receive(events).buf = Tail(events.buf)
            /\ Len(Receive(events).buf) = Len(events.buf) - 1
            /\ events.buf = <<Head(events.buf)>> \o Receive(events).buf
        BY <3>1, ReceiveChan
      <3>4. Len(events.buf) - 1 <= EventsCap
        BY <3>2, StreamerAssumption
      <3> QED
        BY <3>1, <3>3, <3>4
    <2>2. cur' \in Seq(Inputs) /\ Len(cur') = 1 /\ pc' = "raw"
      BY <1>1, <2>1 DEF Recv
    <2>3. TypeOK'
      BY <1>1, <2>1, <2>2 DEF TypeOK, Recv
    <2>4. RawIsPassThrough'
      <3>1. /\ rawTaken \o raw.buf \in Seq(Inputs) /\ events'.buf \in Seq(Inputs)
            /\ sent = (rawTaken \o raw.buf \o <<>>) \o events.buf
        BY <1>1, <2>1 DEF TypeOK, ChanOf, RawIsPassThrough, Passed, Recv
      <3>2. sent = (rawTaken \o raw.buf) \o (<<Head(events.buf)>> \o events'.buf)
        BY <2>1, <3>1, ConcatEmptySeq
      <3>3. (rawTaken \o raw.buf) \o (<<Head(events.buf)>> \o events'.buf)
               = ((rawTaken \o raw.buf) \o <<Head(events.buf)>>) \o events'.buf
        <4>1. /\ rawTaken \o raw.buf \in Seq(Inputs) /\ events'.buf \in Seq(Inputs)
              /\ <<Head(events.buf)>> \in Seq(Inputs)
          BY <2>1, <3>1
        <4> DEFINE a == rawTaken \o raw.buf
                   b == <<Head(events.buf)>>
                   c == events'.buf
        <4>2. a \in Seq(Inputs) /\ b \in Seq(Inputs) /\ c \in Seq(Inputs)
          BY <4>1
        <4> HIDE DEF a, b, c
        <4>3. (a \o b) \o c = a \o (b \o c)
          BY <4>2, ConcatAssociative
        <4> QED
          BY <4>3 DEF a, b, c
      <3>4. cur' = <<Head(events.buf)>>
        BY <1>1 DEF Recv
      <3>5. sent = (rawTaken \o raw.buf \o cur') \o events'.buf
        BY <3>2, <3>3, <3>4, Zenon
      <3> QED
        BY <1>1, <2>2, <3>5 DEF RawIsPassThrough, Passed, Recv
    <2> QED
      BY <2>3, <2>4
  <1>2. CASE PassRaw /\ NextIteration /\ DOMAIN bufs' \subseteq Keys
             /\ \A k \in DOMAIN bufs' : BufsOK(bufs'[k])
    \* An iteration that ends without an exchange.
    <2>1. /\ raw' \in ChanOf(Inputs) /\ Len(raw'.buf) <= RawCap /\ pc = "raw"
          /\ sent = (rawTaken \o raw'.buf) \o events.buf
      BY <1>2, PassRawOK
    <2>2. pc' = "recv" /\ cur' = <<>> /\ UNCHANGED <<events, out, todo>>
      BY <1>2 DEF NextIteration, PassRaw
    <2>3. TypeOK'
      BY <1>2, <2>1, <2>2 DEF TypeOK, BufsOK
    <2>4. rawTaken \o raw'.buf \in Seq(Inputs)
      BY <2>1 DEF TypeOK, ChanOf
    <2>5. sent = ((rawTaken \o raw'.buf) \o <<>>) \o events.buf
      BY <2>1, <2>4, ConcatEmptySeq
    <2>6. RawIsPassThrough'
      BY <2>2, <2>5 DEF RawIsPassThrough, Passed
    <2> QED
      BY <2>3, <2>6
  <1>3. CASE HandleConnect
    BY <1>2, <1>3 DEF HandleConnect, TypeOK, BufsOK
  <1>4. CASE HandleData
    <2> DEFINE k == KeyOf(cur[1])
    <2>1. cur[1] \in Inputs
      BY <1>4, PassRawOK DEF HandleData
    <2>2. \A x \in DOMAIN bufs : BufsOK(bufs[x])
      BY DEF TypeOK, BufsOK
    <2>3. BufsOK(Buffered(Get(k), cur[1])) /\ k \in Keys
      BY <2>1, <2>2, GetOK, BufferedOK, KeyOfType
    <2>4. bufs' = Put(k, Buffered(Get(k), cur[1]))
      BY <1>4 DEF HandleData
    <2> HIDE DEF k
    <2>5. /\ DOMAIN bufs' = DOMAIN bufs \cup {k}
          /\ \A x \in DOMAIN bufs' : BufsOK(bufs'[x])
      BY <2>2, <2>3, <2>4 DEF Put
    <2>6. DOMAIN bufs \subseteq Keys
      BY DEF TypeOK
    <2> QED
      BY <1>2, <1>4, <2>3, <2>5, <2>6 DEF HandleData
  <1>5. CASE HandleClose
    <2> DEFINE k == KeyOf(cur[1])
    <2>1. /\ cur[1] \in Inputs /\ pc = "raw"
          /\ raw' \in ChanOf(Inputs) /\ Len(raw'.buf) <= RawCap
          /\ sent = (rawTaken \o raw'.buf) \o events.buf
      BY <1>5, PassRawOK DEF HandleClose
    <2>2. CASE pc' = "out" /\ UNCHANGED <<cur, bufs>>
      <3>1. UNCHANGED <<events, out, todo>>
        BY <1>5 DEF HandleClose, PassRaw
      <3>2. Decoded(Decode(cur[1].pid, cur[1].fd, bufs[KeyOf(cur[1])]))
        BY <1>5, <2>2 DEF HandleClose, NextIteration
      <3>6. TypeOK'
        BY <2>1, <2>2, <3>1, <3>2 DEF TypeOK
      <3>3. rawTaken \o raw'.buf \in Seq(Inputs)
        BY <2>1 DEF TypeOK, ChanOf
      <3>4. sent = ((rawTaken \o raw'.buf) \o <<>>) \o events.buf
        BY <2>1, <3>3, ConcatEmptySeq
      <3>5. RawIsPassThrough'
        BY <2>2, <3>1, <3>4 DEF RawIsPassThrough, Passed
      <3> QED
        BY <3>5, <3>6
    <2>3. CASE NextIteration /\ bufs' = Delete(k)
      <3>1. /\ DOMAIN bufs' = DOMAIN bufs \ {k}
            /\ \A x \in DOMAIN bufs' : bufs'[x] = bufs[x]
        BY <2>3 DEF Delete
      <3>2. /\ DOMAIN bufs' \subseteq Keys
            /\ \A x \in DOMAIN bufs' : BufsOK(bufs'[x])
        BY <3>1 DEF TypeOK, BufsOK
      <3> QED
        BY <1>2, <1>5, <2>3, <3>1, <3>2 DEF HandleClose
    <2> QED
      BY <1>5, <2>2, <2>3 DEF HandleClose
  <1>6. CASE SendExchange
    <2> DEFINE k == KeyOf(cur[1])
               ex == Decode(cur[1].pid, cur[1].fd, bufs[k])
    <2>1. /\ pc = "out" /\ HasRoom(out, OutCap) /\ out' = Send(out, ex)
          /\ bufs' = Delete(k) /\ pc' = "recv" /\ cur' = <<>>
          /\ UNCHANGED <<events, raw, todo>>
      BY <1>6 DEF SendExchange, NextIteration
    <2>2. /\ out' \in ChanOf(ToSet(out'.buf)) /\ Len(out'.buf) <= OutCap
          /\ \A i \in DOMAIN out'.buf : Decoded(out'.buf[i])
      <3>1. Decoded(ex)
        BY <2>1 DEF TypeOK
      <3> QED
        BY <2>1, <3>1, SendOutOK
    <2>3. /\ DOMAIN bufs' = DOMAIN bufs \ {k}
          /\ \A x \in DOMAIN bufs' : bufs'[x] = bufs[x]
      BY <2>1 DEF Delete
    <2> HIDE DEF k, ex
    <2>4. TypeOK'
      BY <2>1, <2>2, <2>3 DEF TypeOK
    <2>5. RawIsPassThrough'
      BY <2>1 DEF RawIsPassThrough, Passed
    <2> QED
      BY <2>4, <2>5
  <1>7. CASE EndOfEvents
    <2>1. TypeOK'
      BY <1>7 DEF TypeOK, EndOfEvents
    <2>2. RawIsPassThrough'
      BY <1>7 DEF RawIsPassThrough, Passed, EndOfEvents
    <2> QED
      BY <2>1, <2>2
  <1>8. ASSUME NEW k \in todo, FlushOne(k) PROVE TypeOK' /\ RawIsPassThrough'
    <2>1. /\ out' \in ChanOf(ToSet(out'.buf)) /\ Len(out'.buf) <= OutCap
          /\ \A i \in DOMAIN out'.buf : Decoded(out'.buf[i])
      <3>1. CASE Decoded(FlushExchange(k))
        BY <1>8, <3>1, SendOutOK DEF FlushOne
      <3>2. CASE ~Decoded(FlushExchange(k))
        BY <1>8, <3>2 DEF FlushOne, TypeOK
      <3> QED
        BY <3>1, <3>2
    <2>2. pc = "flush" /\ todo' = todo \ {k} /\ UNCHANGED <<events, raw, pc, cur, bufs>>
      BY <1>8 DEF FlushOne
    <2>3. TypeOK'
      BY <2>1, <2>2 DEF TypeOK
    <2>4. RawIsPassThrough'
      BY <2>2 DEF RawIsPassThrough, Passed
    <2> QED
      BY <2>3, <2>4
  <1>9. CASE CloseOut
    <2>1. out' \in ChanOf(ToSet(out'.buf)) /\ out'.buf = out.buf
      BY <1>9, CloseChanChan DEF CloseOut, TypeOK
    <2>2. TypeOK'
      BY <1>9, <2>1 DEF TypeOK, CloseOut
    <2>3. RawIsPassThrough'
      BY <1>9 DEF RawIsPassThrough, Passed, CloseOut
    <2> QED
      BY <2>2, <2>3
  <1>10. CASE CloseRaw
    <2>1. raw' \in ChanOf(Inputs) /\ raw'.buf = raw.buf
      BY <1>10, CloseChanChan DEF CloseRaw, TypeOK
    <2>2. TypeOK'
      BY <1>10, <2>1 DEF TypeOK, CloseRaw
    <2>3. RawIsPassThrough'
      BY <1>10, <2>1 DEF RawIsPassThrough, Passed, CloseRaw
    <2> QED
      BY <2>2, <2>3
  <1> QED
    BY <1>1, <1>3, <1>4, <1>5, <1>6, <1>7, <1>8, <1>9, <1>10 DEF Goroutine

-----------------------------------------------------------------------------
(* The environment's steps, and the theorem.                               *)

LEMMA EnvironmentOK ==
    ASSUME TypeOK, RawIsPassThrough,
           (\E ev \in Inputs : Arrive(ev)) \/ EventsEnd \/ TakeRaw \/ TakeOut
    PROVE  TypeOK' /\ RawIsPassThrough'
  <1>1. ASSUME NEW ev \in Inputs, Arrive(ev) PROVE TypeOK' /\ RawIsPassThrough'
    <2>1. /\ events' \in ChanOf(Inputs) /\ events'.buf = Append(events.buf, ev)
          /\ Len(events'.buf) <= EventsCap
      <3>1. events \in ChanOf(Inputs) /\ Len(events.buf) < EventsCap
            /\ events.buf \in Seq(Inputs) /\ events' = Send(events, ev)
        BY <1>1 DEF TypeOK, Arrive, HasRoom, ChanOf
      <3>2. /\ Send(events, ev) \in ChanOf(Inputs)
            /\ Send(events, ev).buf = Append(events.buf, ev)
            /\ Len(Send(events, ev).buf) = Len(events.buf) + 1
        BY <3>1, SendChan
      <3>3. Len(events.buf) + 1 <= EventsCap
        BY <3>1, StreamerAssumption
      <3> QED
        BY <3>1, <3>2, <3>3
    <2>2. /\ sent' = Append(sent, ev) /\ sent' \in Seq(Inputs)
          /\ UNCHANGED <<raw, out, pc, cur, bufs, todo, rawTaken, outTaken>>
      BY <1>1 DEF Arrive, localVars, TypeOK
    <2>3. TypeOK'
      BY <2>1, <2>2 DEF TypeOK
    <2> DEFINE a == Passed \o (IF pc = "raw" THEN cur ELSE <<>>)
    <2>4. a \in Seq(Inputs) /\ events.buf \in Seq(Inputs) /\ sent = a \o events.buf
      BY DEF TypeOK, ChanOf, Passed, RawIsPassThrough
    <2>5. a' = a
      BY <2>2 DEF Passed
    <2> HIDE DEF a
    <2>6. (a \o events.buf) \o <<ev>> = a \o Append(events.buf, ev)
      <3>1. a \in Seq(Inputs) /\ events.buf \in Seq(Inputs) /\ <<ev>> \in Seq(Inputs)
        BY <1>1, <2>4
      <3>2. Append(events.buf, ev) = events.buf \o <<ev>>
        BY <1>1, <2>4, AppendIsConcat
      <3> DEFINE b == events.buf
                 c == <<ev>>
      <3>3. b \in Seq(Inputs) /\ c \in Seq(Inputs)
        BY <3>1
      <3> HIDE DEF b, c
      <3>4. (a \o b) \o c = a \o (b \o c)
        BY <3>1, <3>3, ConcatAssociative
      <3> QED
        BY <3>2, <3>4 DEF b, c
    <2>7. Append(sent, ev) = sent \o <<ev>>
      BY AppendIsConcat DEF TypeOK
    <2>8. sent' = a' \o events'.buf
      BY <2>1, <2>2, <2>4, <2>5, <2>6, <2>7, Zenon
    <2>9. RawIsPassThrough'
      BY <2>8 DEF RawIsPassThrough, a
    <2> QED
      BY <2>3, <2>9
  <1>2. CASE EventsEnd
    <2>1. events' \in ChanOf(Inputs) /\ events'.buf = events.buf
      BY <1>2, CloseChanChan DEF EventsEnd, TypeOK
    <2>2. UNCHANGED <<raw, out, pc, cur, bufs, todo, sent, rawTaken, outTaken>>
      BY <1>2 DEF EventsEnd, localVars
    <2>3. TypeOK'
      BY <2>1, <2>2 DEF TypeOK
    <2>4. RawIsPassThrough'
      BY <2>1, <2>2 DEF RawIsPassThrough, Passed
    <2> QED
      BY <2>3, <2>4
  <1>3. CASE TakeRaw
    <2>1. /\ raw \in ChanOf(Inputs) /\ raw.buf \in Seq(Inputs) /\ Len(raw.buf) <= RawCap
          /\ HasValue(raw) /\ raw' = Receive(raw) /\ rawTaken \in Seq(Inputs)
          /\ rawTaken' = Append(rawTaken, Head(raw.buf))
      BY <1>3 DEF TakeRaw, TypeOK, ChanOf
    <2>2. /\ Receive(raw) \in ChanOf(Inputs) /\ Head(raw.buf) \in Inputs
          /\ Len(Receive(raw).buf) = Len(raw.buf) - 1
          /\ raw.buf = <<Head(raw.buf)>> \o Receive(raw).buf
      BY <2>1, ReceiveChan
    <2>3. Len(raw.buf) - 1 <= RawCap
      BY <2>1, StreamerAssumption
    <2>4. rawTaken' \in Seq(Inputs) /\ rawTaken' = rawTaken \o <<Head(raw.buf)>>
      BY <2>1, <2>2, AppendIsConcat
    <2>5. /\ rawTaken \in Seq(Inputs) /\ <<Head(raw.buf)>> \in Seq(Inputs)
          /\ raw'.buf \in Seq(Inputs)
      BY <2>1, <2>2 DEF ChanOf
    <2>6. rawTaken \o (<<Head(raw.buf)>> \o raw'.buf)
             = (rawTaken \o <<Head(raw.buf)>>) \o raw'.buf
      <3> DEFINE a == rawTaken
                 b == <<Head(raw.buf)>>
                 c == raw'.buf
      <3>1. a \in Seq(Inputs) /\ b \in Seq(Inputs) /\ c \in Seq(Inputs)
        BY <2>5
      <3> HIDE DEF a, b, c
      <3>2. (a \o b) \o c = a \o (b \o c)
        BY <3>1, ConcatAssociative
      <3> QED
        BY <3>2 DEF a, b, c
    <2>7. Passed' = Passed
      BY <2>1, <2>2, <2>4, <2>6, Zenon DEF Passed
    <2>8. UNCHANGED <<events, out, pc, cur, bufs, todo, sent, outTaken>>
      BY <1>3 DEF TakeRaw, localVars
    <2>9. TypeOK'
      BY <2>1, <2>2, <2>3, <2>4, <2>8 DEF TypeOK
    <2>10. RawIsPassThrough'
      BY <2>7, <2>8 DEF RawIsPassThrough
    <2> QED
      BY <2>9, <2>10
  <1>4. CASE TakeOut
    <2>1. /\ out \in ChanOf(ToSet(out.buf)) /\ out.buf \in Seq(ToSet(out.buf))
          /\ Len(out.buf) <= OutCap /\ HasValue(out) /\ out' = Receive(out)
          /\ \A i \in DOMAIN out.buf : Decoded(out.buf[i])
      BY <1>4 DEF TakeOut, TypeOK, ChanOf
    <2>2. /\ Receive(out) \in ChanOf(ToSet(Receive(out).buf))
          /\ Receive(out).buf = Tail(out.buf) /\ Len(Receive(out).buf) = Len(out.buf) - 1
      BY <2>1, ReceiveToSet
    <2>3. Len(out.buf) - 1 <= OutCap /\ out.buf # <<>>
      BY <2>1, StreamerAssumption DEF HasValue
    <2>4. \A i \in DOMAIN Tail(out.buf) :
             i + 1 \in DOMAIN out.buf /\ Tail(out.buf)[i] = out.buf[i + 1]
      BY <2>1, <2>3
    <2>5. \A i \in DOMAIN out'.buf : Decoded(out'.buf[i])
      BY <2>1, <2>2, <2>4
    <2>6. UNCHANGED <<events, raw, pc, cur, bufs, todo, sent, rawTaken>>
      BY <1>4 DEF TakeOut, localVars
    <2>7. TypeOK'
      BY <2>1, <2>2, <2>3, <2>5, <2>6 DEF TypeOK
    <2>8. RawIsPassThrough'
      BY <2>6 DEF RawIsPassThrough, Passed
    <2> QED
      BY <2>7, <2>8
  <1> QED
    BY <1>1, <1>2, <1>3, <1>4

Safe == TypeOK /\ RawIsPassThrough

LEMMA SafeStep == Safe /\ [Next]_vars => Safe'
  <1> SUFFICES ASSUME TypeOK, RawIsPassThrough, [Next]_vars
               PROVE  TypeOK' /\ RawIsPassThrough'
    BY DEF Safe
  <1>1. CASE UNCHANGED vars
    BY <1>1 DEF vars, TypeOK, RawIsPassThrough, Passed
  <1>2. CASE Goroutine /\ UNCHANGED <<sent, rawTaken, outTaken>>
    BY <1>2, GoroutineOK
  <1>3. CASE (\E ev \in Inputs : Arrive(ev)) \/ EventsEnd \/ TakeRaw \/ TakeOut
    BY <1>3, EnvironmentOK
  <1> QED
    BY <1>1, <1>2, <1>3 DEF Next, Terminated

\* The streamer's state is well typed, its channels and buffers stay within
\* their capacities, and rawOut is the input, unchanged and in order.
THEOREM StreamerSafety == Spec => [](TypeOK /\ RawIsPassThrough)
  BY InitOK, SafeStep, PTL DEF Spec, Safe

\* The type invariant alone.
THEOREM StreamerTypeOK == Spec => []TypeOK
  BY StreamerSafety, PTL

-----------------------------------------------------------------------------
(* The raw path implements the safety part of Relay: raw, the event in     *)
(* hand and the input channel are its queue.                               *)

InHand == IF pc = "raw" THEN cur ELSE <<>>

LEMMA PlacesType ==
    ASSUME TypeOK
    PROVE  /\ raw.buf \in Seq(Inputs) /\ InHand \in Seq(Inputs) /\ events.buf \in Seq(Inputs)
           /\ Pending = (raw.buf \o InHand) \o events.buf
  BY DEF TypeOK, ChanOf, InHand, Pending

\* The oldest value of a queue stays in front of whatever is put behind it.
LEMMA FirstOfTwo ==
    ASSUME NEW T, NEW x \in T, NEW a \in Seq(T), NEW b \in Seq(T)
    PROVE  (<<x>> \o a) \o b = <<x>> \o (a \o b)
  <1>1. <<x>> \in Seq(T)
    OBVIOUS
  <1> QED
    BY <1>1, ConcatAssociative

LEMMA FirstOfThree ==
    \A x \in Inputs : \A a, b, c \in Seq(Inputs) :
       ((<<x>> \o a) \o b) \o c = <<x>> \o ((a \o b) \o c)
  <1> SUFFICES ASSUME NEW x \in Inputs, NEW a \in Seq(Inputs), NEW b \in Seq(Inputs),
                      NEW c \in Seq(Inputs)
               PROVE  ((<<x>> \o a) \o b) \o c = <<x>> \o ((a \o b) \o c)
    OBVIOUS
  <1> DEFINE d == a \o b
  <1>1. d \in Seq(Inputs)
    OBVIOUS
  <1>2. (<<x>> \o a) \o b = <<x>> \o d
    BY FirstOfTwo
  <1>3. (<<x>> \o d) \o c = <<x>> \o (d \o c)
    <2> HIDE DEF d
    <2> QED
      BY <1>1, FirstOfTwo
  <1> QED
    BY <1>2, <1>3

\* Receiving an event and forwarding it move it within the queue.
LEMMA MovesWithinQueue ==
    ASSUME TypeOK, Recv \/ (PassRaw /\ pc' # "raw")
    PROVE  Pending' = Pending
  <1>1. /\ raw.buf \in Seq(Inputs) /\ events.buf \in Seq(Inputs)
        /\ Pending = (raw.buf \o InHand) \o events.buf
    BY PlacesType
  <1>2. CASE Recv
    <2>1. /\ pc = "recv" /\ pc' = "raw" /\ raw' = raw /\ cur' = <<Head(events.buf)>>
          /\ events' = Receive(events) /\ HasValue(events) /\ events \in ChanOf(Inputs)
      BY <1>2 DEF Recv, TypeOK
    <2>2. /\ Head(events.buf) \in Inputs /\ Receive(events) \in ChanOf(Inputs)
          /\ events.buf = <<Head(events.buf)>> \o Receive(events).buf
      BY <2>1, ReceiveChan
    <2> DEFINE a == raw.buf
               x == Head(events.buf)
               b == events'.buf
    <2>3. a \in Seq(Inputs) /\ b \in Seq(Inputs) /\ x \in Inputs
      BY <1>1, <2>1, <2>2 DEF ChanOf
    <2>4. Pending = (a \o <<>>) \o (<<x>> \o b) /\ Pending' = (a \o <<x>>) \o b
      BY <1>1, <2>1, <2>2 DEF Pending, InHand
    <2> HIDE DEF a, x, b
    <2>5. a \o <<>> = a /\ Append(a, x) = a \o <<x>>
      BY <2>3, AppendIsConcat
    <2>6. a \o (<<x>> \o b) = Append(a, x) \o b
      BY <2>3, MoveAcross
    <2> QED
      BY <2>4, <2>5, <2>6
  <1>3. CASE PassRaw /\ pc' # "raw"
    <2>1. /\ pc = "raw" /\ raw' = Send(raw, cur[1]) /\ events' = events
          /\ cur \in Seq(Inputs) /\ Len(cur) = 1 /\ raw \in ChanOf(Inputs)
      BY <1>3 DEF PassRaw, TypeOK
    <2>2. cur = <<cur[1]>> /\ cur[1] \in Inputs
      BY <2>1, SingletonSeq
    <2>3. raw'.buf = Append(raw.buf, cur[1])
      BY <2>1 DEF Send
    <2> DEFINE a == raw.buf
               x == cur[1]
               c == raw'.buf
    <2>4. a \in Seq(Inputs) /\ x \in Inputs /\ c = Append(a, x)
      BY <1>1, <2>2, <2>3
    <2>5. Pending = (a \o <<x>>) \o events.buf /\ Pending' = (c \o <<>>) \o events.buf
      BY <1>1, <1>3, <2>1, <2>2 DEF Pending, InHand
    <2> HIDE DEF a, x, c
    <2>6. c \o <<>> = c /\ c = a \o <<x>>
      BY <2>4, AppendIsConcat
    <2> QED
      BY <2>5, <2>6
  <1> QED
    BY <1>2, <1>3

\* Steps that leave the queue's places alone.
LEMMA SamePlaces ==
    ASSUME raw'.buf = raw.buf, UNCHANGED <<events, rawTaken>>,
           pc # "raw", pc' # "raw"
    PROVE  UNCHANGED <<Pending, rawTaken, events.closed>>
  BY DEF Pending

LEMMA RelayStep ==
    ASSUME TypeOK, [Next]_vars
    PROVE  [Stage!Next]_(Stage!vars)
  <1> USE DEF Stage!vars
  <1>1. CASE UNCHANGED vars
    BY <1>1 DEF vars, Pending
  <1>2. CASE Goroutine /\ UNCHANGED <<sent, rawTaken, outTaken>>
    <2>1. CASE Recv
      <3>1. events'.closed = events.closed
        BY <2>1 DEF Recv, Receive
      <3>2. Pending' = Pending
        BY <2>1, MovesWithinQueue
      <3>3. UNCHANGED Stage!vars
        BY <1>2, <3>1, <3>2
      <3> QED
        BY <3>3
    <2>2. CASE HandleConnect \/ HandleData \/ HandleClose
      <3>1. PassRaw /\ pc' # "raw"
        BY <2>2 DEF HandleConnect, HandleData, HandleClose, NextIteration
      <3>2. Pending' = Pending
        BY <3>1, MovesWithinQueue
      <3>3. events' = events
        BY <3>1 DEF PassRaw
      <3> QED
        BY <1>2, <3>2, <3>3
    <2>3. CASE SendExchange \/ EndOfEvents \/ (\E k \in todo : FlushOne(k)) \/ CloseOut
      <3>1. UNCHANGED <<raw, events>> /\ pc # "raw" /\ pc' # "raw"
        BY <2>3 DEF SendExchange, EndOfEvents, FlushOne, CloseOut, NextIteration
      <3> QED
        BY <1>2, <3>1, SamePlaces
    <2>4. CASE CloseRaw
      <3>1. raw'.buf = raw.buf /\ events' = events /\ pc # "raw" /\ pc' # "raw"
        BY <2>4 DEF CloseRaw, CloseChan
      <3> QED
        BY <1>2, <3>1, SamePlaces
    <2> QED
      BY <1>2, <2>1, <2>2, <2>3, <2>4 DEF Goroutine
  <1>3. ASSUME NEW ev \in Inputs, Arrive(ev) PROVE Stage!Put(ev)
    <2> DEFINE a == raw.buf \o InHand
               b == events.buf
               c == events'.buf
    <2>1. /\ a \in Seq(Inputs) /\ b \in Seq(Inputs) /\ Pending = a \o b
      <3>1. /\ raw.buf \in Seq(Inputs) /\ InHand \in Seq(Inputs) /\ b \in Seq(Inputs)
            /\ Pending = (raw.buf \o InHand) \o events.buf
        BY PlacesType
      <3>2. raw.buf \o InHand \in Seq(Inputs)
        BY <3>1
      <3> QED
        BY <3>1, <3>2
    <2>2. /\ UNCHANGED <<raw, pc, cur, rawTaken>> /\ c = Append(b, ev)
          /\ ~events.closed /\ events'.closed = events.closed
      BY <1>3 DEF Arrive, localVars, Send
    <2>3. Pending' = a \o c
      BY <2>2 DEF Pending, InHand
    <2> HIDE DEF a, b, c
    <2> DEFINE d == a \o b
               e == <<ev>>
    <2>4. d \in Seq(Inputs) /\ e \in Seq(Inputs)
      BY <2>1
    <2>5. Append(d, ev) = d \o <<ev>> /\ Append(b, ev) = b \o <<ev>>
      <3> HIDE DEF d
      <3> QED
        BY <2>1, <2>4, AppendIsConcat
    <2>6. (a \o b) \o e = a \o (b \o e)
      <3> HIDE DEF d, e
      <3> QED
        BY <2>1, <2>4, ConcatAssociative
    <2>7. Pending' = Append(Pending, ev)
      BY <2>1, <2>2, <2>3, <2>5, <2>6
    <2> QED
      BY <2>2, <2>7 DEF Stage!Put
  <1>4. CASE EventsEnd
    <2>1. /\ UNCHANGED <<raw, pc, cur, rawTaken>> /\ ~events.closed
          /\ events'.buf = events.buf /\ events'.closed = TRUE
      BY <1>4 DEF EventsEnd, localVars, CloseChan
    <2>2. Pending' = Pending
      BY <2>1 DEF Pending
    <2> QED
      BY <2>1, <2>2 DEF Stage!Next, Stage!End
  <1>5. CASE TakeRaw
    <2>1. /\ UNCHANGED <<events, pc, cur>> /\ HasValue(raw) /\ raw' = Receive(raw)
          /\ rawTaken' = Append(rawTaken, Head(raw.buf)) /\ raw \in ChanOf(Inputs)
      BY <1>5 DEF TakeRaw, localVars, TypeOK
    <2>2. /\ Head(raw.buf) \in Inputs /\ Receive(raw) \in ChanOf(Inputs)
          /\ raw.buf = <<Head(raw.buf)>> \o Receive(raw).buf
      BY <2>1, ReceiveChan
    <2> DEFINE x == Head(raw.buf)
               a == raw'.buf
               b == InHand
               c == events.buf
    <2>3. a \in Seq(Inputs) /\ b \in Seq(Inputs) /\ c \in Seq(Inputs) /\ x \in Inputs
      BY <2>1, <2>2, PlacesType DEF ChanOf
    <2>4. Pending = ((<<x>> \o a) \o b) \o c /\ Pending' = (a \o b) \o c
      BY <2>1, <2>2 DEF Pending, InHand
    <2> HIDE DEF x, a, b, c
    <2>5. ((<<x>> \o a) \o b) \o c = <<x>> \o ((a \o b) \o c)
      BY <2>3, FirstOfThree
    <2>6. (a \o b) \o c \in Seq(Inputs)
      BY <2>3
    <2>7. Pending = <<x>> \o Pending' /\ Pending' \in Seq(Inputs)
      BY <2>4, <2>5, <2>6
    <2> DEFINE q == Pending'
    <2>8. <<x>> \o q # <<>> /\ Head(<<x>> \o q) = x /\ Tail(<<x>> \o q) = q
      <3>1. q \in Seq(Inputs)
        BY <2>7
      <3> HIDE DEF q
      <3> QED
        BY <2>3, <3>1
    <2>9. Stage!Take
      BY <2>1, <2>7, <2>8 DEF Stage!Take, x
    <2> QED
      BY <2>9 DEF Stage!Next
  <1>6. CASE TakeOut
    BY <1>6 DEF TakeOut, localVars, Pending
  <1> QED
    BY <1>1, <1>2, <1>3, <1>4, <1>5, <1>6 DEF Next, Terminated, Stage!Next

\* Whatever blocks when, the consumer of rawOut takes exactly what the
\* producer put on events, in that order: the streamer implements Relay's
\* safety specification.
THEOREM StreamerIsRelay == Spec => Stage!Safety
  <1>1. Init => Stage!Init
    BY DEF Init, Stage!Init, Pending, MakeChan
  <1>2. TypeOK /\ [Next]_vars => [Stage!Next]_(Stage!vars)
    BY RelayStep
  <1> QED
    BY <1>1, <1>2, StreamerTypeOK, PTL DEF Spec, Stage!Safety

-----------------------------------------------------------------------------
(* The buffers against the history: one more event at a time.              *)

\* An int32 fd survives the conversion to uint32: no two share a key.
LEMMA WidenFdInjective ==
    ASSUME NEW x \in Int, NEW y \in Int, -FdSpan <= 2 * x, 2 * x < FdSpan,
           -FdSpan <= 2 * y, 2 * y < FdSpan, WidenFd(x) = WidenFd(y)
    PROVE  x = y
  <1>1. FdSpan \in Nat /\ FdSpan > 0
    BY CapAssumption
  <1>2. ASSUME NEW z \in Int, -FdSpan <= 2 * z, 2 * z < FdSpan
        PROVE  z % FdSpan = IF z >= 0 THEN z ELSE z + FdSpan
    BY <1>1, <1>2
  <1>3. /\ x % FdSpan = IF x >= 0 THEN x ELSE x + FdSpan
        /\ y % FdSpan = IF y >= 0 THEN y ELSE y + FdSpan
    BY <1>2
  <1> QED
    BY <1>1, <1>3 DEF WidenFd

\* The map's keys tell apart exactly what the traced process does.
LEMMA KeyIsEndpoint ==
    ASSUME NEW a \in Inputs, NEW b \in Inputs
    PROVE  KeyOf(a) = KeyOf(b) <=> Endpoint(a) = Endpoint(b)
  <1>1. /\ a.fd \in Int /\ -FdSpan <= 2 * a.fd /\ 2 * a.fd < FdSpan
        /\ b.fd \in Int /\ -FdSpan <= 2 * b.fd /\ 2 * b.fd < FdSpan
    BY StreamerAssumption
  <1>2. WidenFd(a.fd) = WidenFd(b.fd) <=> a.fd = b.fd
    BY <1>1, WidenFdInjective
  <1> DEFINE v == WidenFd(a.fd)
             w == WidenFd(b.fd)
  <1>3. v = w <=> a.fd = b.fd
    BY <1>2
  <1>4. /\ KeyOf(a) = IF a.op \in {"ssl_read", "ssl_write"}
                      THEN [pid |-> a.pid, kind |-> "tls", id |-> a.ssl]
                      ELSE [pid |-> a.pid, kind |-> "fd", id |-> v]
        /\ KeyOf(b) = IF b.op \in {"ssl_read", "ssl_write"}
                      THEN [pid |-> b.pid, kind |-> "tls", id |-> b.ssl]
                      ELSE [pid |-> b.pid, kind |-> "fd", id |-> w]
    BY DEF KeyOf
  <1> HIDE DEF v, w
  <1> QED
    BY <1>3, <1>4 DEF Endpoint

DataOps == ReadOps \cup WriteOps

Closes(ev, e) == ev.op = "close" /\ Endpoint(ev) = e

LEMMA LifetimeAppend ==
    ASSUME NEW h \in Seq(Inputs), NEW ev \in Inputs, NEW e
    PROVE  Lifetime(Append(h, ev), e)
             = IF Closes(ev, e) THEN {}
               ELSE IF ev.op \in DataOps /\ Endpoint(ev) = e
               THEN Lifetime(h, e) \cup {Len(h) + 1} ELSE Lifetime(h, e)
  <1> DEFINE g == Append(h, ev)
             n == Len(h) + 1
  <1>1. /\ DOMAIN g = DOMAIN h \cup {n} /\ g[n] = ev /\ n \in Nat
        /\ \A i \in DOMAIN h : i \in Nat /\ i < n /\ g[i] = h[i]
    BY Appended
  <1> HIDE DEF g, n
  <1>2. \A i \in DOMAIN h : i \in Lifetime(g, e) <=> i \in Lifetime(h, e) /\ ~Closes(ev, e)
    BY <1>1 DEF Lifetime, Closes
  <1>3. n \in Lifetime(g, e) <=> ev.op \in DataOps /\ Endpoint(ev) = e
    <2>1. \A j \in DOMAIN g : ~(j > n)
      BY <1>1
    <2> QED
      BY <1>1, <2>1 DEF Lifetime, DataOps
  <1>4. Lifetime(h, e) \subseteq DOMAIN h /\ Lifetime(g, e) \subseteq DOMAIN g
    BY DEF Lifetime
  <1>5. Closes(ev, e) => ev.op \notin DataOps
    BY DEF Closes, DataOps, ReadOps, WriteOps
  <1> DEFINE L == Lifetime(h, e)
             M == Lifetime(g, e)
             data == ev.op \in DataOps /\ Endpoint(ev) = e
  <1>6. /\ L \subseteq DOMAIN h /\ M \subseteq DOMAIN h \cup {n}
        /\ \A i \in DOMAIN h : i \in M <=> (i \in L /\ ~Closes(ev, e))
        /\ (n \in M <=> data)
        /\ Closes(ev, e) => ~data
    BY <1>1, <1>2, <1>3, <1>4, <1>5
  <1> HIDE DEF L, M, data
  <1>7. M = IF Closes(ev, e) THEN {} ELSE IF data THEN L \cup {n} ELSE L
    <2>1. CASE Closes(ev, e)
      BY <1>6, <2>1
    <2>2. CASE ~Closes(ev, e) /\ data
      BY <1>6, <2>2
    <2>3. CASE ~Closes(ev, e) /\ ~data
      <3>1. n \notin M
        BY <1>6, <2>3
      <3>2. \A i : i \in M <=> i \in L
        BY <1>6, <2>3, <3>1
      <3> QED
        BY <2>3, <3>2
    <2> QED
      BY <2>1, <2>2, <2>3
  <1> QED
    BY <1>7 DEF g, n, L, M, data

\* What each event of h contributes to a direction of e.
Parts(h, e, ops) ==
    [i \in DOMAIN h |-> IF i \in Lifetime(h, e) /\ h[i].op \in ops THEN Payload(h[i]) ELSE <<>>]

LEMMA PartsType ==
    ASSUME NEW h \in Seq(Inputs), NEW e, NEW ops
    PROVE  Parts(h, e, ops) \in Seq(Seq(Byte)) /\ Len(Parts(h, e, ops)) = Len(h)
  <1>1. \A i \in 1 .. Len(h) : h[i] \in Inputs
    OBVIOUS
  <1>2. \A i \in 1 .. Len(h) : Payload(h[i]) \in Seq(Byte)
    BY <1>1, StreamerAssumption DEF Payload
  <1>3. <<>> \in Seq(Byte) /\ DOMAIN h = 1 .. Len(h)
    OBVIOUS
  <1> DEFINE B == Seq(Byte)
  <1> HIDE DEF B
  <1>4. Parts(h, e, ops) \in [1 .. Len(h) -> B]
    BY <1>2, <1>3 DEF Parts, B
  <1>5. Parts(h, e, ops) \in Seq(B) /\ Len(Parts(h, e, ops)) = Len(h)
    BY <1>4
  <1> QED
    BY <1>5 DEF B

LEMMA StreamIsFlat ==
    ASSUME NEW h, NEW e, NEW ops
    PROVE  Stream(h, e, ops) = FlattenSeq(Parts(h, e, ops))
  BY DEF Stream, Parts

LEMMA StreamType ==
    ASSUME NEW h \in Seq(Inputs), NEW e, NEW ops
    PROVE  Stream(h, e, ops) \in Seq(Byte)
  BY PartsType, FlattenType, StreamIsFlat

\* Nothing since the last close: nothing in the stream.
LEMMA StreamEmpty ==
    ASSUME NEW h \in Seq(Inputs), NEW e, NEW ops, Lifetime(h, e) = {}
    PROVE  Stream(h, e, ops) = <<>>
  <1>1. DOMAIN h = 1 .. Len(h)
    OBVIOUS
  <1>2. Parts(h, e, ops) = [i \in 1 .. Len(h) |-> <<>>]
    BY <1>1 DEF Parts
  <1>3. Parts(h, e, ops) \in Seq({<<>>})
    <2> DEFINE Z == {<<>>}
    <2>1. <<>> \in Z
      OBVIOUS
    <2> HIDE DEF Z
    <2>2. Parts(h, e, ops) \in [1 .. Len(h) -> Z]
      BY <1>2, <2>1
    <2>3. Parts(h, e, ops) \in Seq(Z)
      BY <2>2
    <2> QED
      BY <2>3 DEF Z
  <1> QED
    BY <1>3, FlattenEmpties, StreamIsFlat

LEMMA StreamAppend ==
    ASSUME NEW h \in Seq(Inputs), NEW ev \in Inputs, NEW e, NEW ops, ops \subseteq DataOps
    PROVE  Stream(Append(h, ev), e, ops)
             = IF Closes(ev, e) THEN <<>>
               ELSE IF ev.op \in ops /\ Endpoint(ev) = e
               THEN Stream(h, e, ops) \o Payload(ev) ELSE Stream(h, e, ops)
  <1> DEFINE g == Append(h, ev)
             n == Len(h) + 1
             x == IF ev.op \in ops /\ Endpoint(ev) = e THEN Payload(ev) ELSE <<>>
             w == Parts(h, e, ops)
             v == Parts(g, e, ops)
  <1>1. /\ g \in Seq(Inputs) /\ Len(g) = n /\ DOMAIN h = 1 .. Len(h) /\ DOMAIN g = 1 .. n
        /\ DOMAIN g = DOMAIN h \cup {n} /\ n \in Nat /\ g[n] = ev
        /\ \A i \in DOMAIN h : i \in Nat /\ i < n /\ g[i] = h[i]
    BY Appended
  <1>2. CASE Closes(ev, e)
    <2>1. Lifetime(g, e) = {}
      BY <1>2, LifetimeAppend
    <2> QED
      BY <1>1, <1>2, <2>1, StreamEmpty
  <1>3. CASE ~Closes(ev, e)
    <2>1. w \in Seq(Seq(Byte)) /\ v \in Seq(Seq(Byte)) /\ Len(w) = Len(h) /\ Len(v) = n
      BY <1>1, PartsType
    <2>2. x \in Seq(Byte)
      BY StreamerAssumption DEF Payload
    <2>3. /\ n \in Lifetime(g, e) <=> ev.op \in DataOps /\ Endpoint(ev) = e
          /\ \A i \in DOMAIN h : i \in Lifetime(g, e) <=> i \in Lifetime(h, e)
      <3>1. Lifetime(h, e) \subseteq DOMAIN h /\ n \notin DOMAIN h
        BY <1>1 DEF Lifetime
      <3>2. Lifetime(g, e) = IF ev.op \in DataOps /\ Endpoint(ev) = e
                             THEN Lifetime(h, e) \cup {n} ELSE Lifetime(h, e)
        BY <1>3, LifetimeAppend
      <3> HIDE DEF g, n
      <3> QED
        BY <1>1, <3>1, <3>2
    <2>4. v[n] = x
      <3> HIDE DEF g, n
      <3> QED
        BY <1>1, <2>3 DEF Parts
    <2>5. \A i \in 1 .. Len(h) : v[i] = w[i]
      <3> SUFFICES ASSUME NEW i \in DOMAIN h PROVE v[i] = w[i]
        BY <1>1
      <3> HIDE DEF g, n
      <3> QED
        BY <1>1, <2>3 DEF Parts
    <2> HIDE DEF w, v, x, g
    <2>6. v = Append(w, x)
      <3> DEFINE B == Seq(Byte)
                 l == Len(h)
                 a == Append(w, x)
      <3>1. w \in Seq(B) /\ v \in Seq(B) /\ x \in B /\ Len(w) = l /\ Len(v) = l + 1 /\ v[l + 1] = x
            /\ l \in Nat /\ \A i \in 1 .. l : v[i] = w[i]
        BY <2>1, <2>2, <2>4, <2>5
      <3> HIDE DEF B, l, n
      <3>2. /\ a \in Seq(B) /\ Len(a) = l + 1
            /\ a[l + 1] = x /\ \A i \in 1 .. l : a[i] = w[i]
        BY <3>1
      <3> HIDE DEF a
      <3>3. \A i \in 1 .. l + 1 : v[i] = a[i]
        <4> SUFFICES ASSUME NEW i \in 1 .. l + 1 PROVE v[i] = a[i]
          OBVIOUS
        <4>1. i = l + 1 \/ i \in 1 .. l
          BY <3>1
        <4> QED
          BY <4>1, <3>1, <3>2
      <3>4. v = a
        BY <3>1, <3>2, <3>3, SeqEqual
      <3> QED
        BY <3>4 DEF a
    <2>7. FlattenSeq(v) = FlattenSeq(w) \o x
      BY <2>1, <2>2, <2>6, FlattenAppend
    <2>8. Stream(h, e, ops) = FlattenSeq(w) /\ Stream(g, e, ops) = FlattenSeq(v)
      BY StreamIsFlat DEF w, v
    <2>9. FlattenSeq(w) \in Seq(Byte)
      BY <2>1, FlattenType
    <2>10. FlattenSeq(w) \o <<>> = FlattenSeq(w)
      BY <2>9, ConcatEmptySeq
    <2>11. Stream(g, e, ops) = Stream(h, e, ops) \o x
      BY <2>7, <2>8
    <2>12. CASE ev.op \in ops /\ Endpoint(ev) = e
      BY <1>3, <2>11, <2>12 DEF x, g
    <2>13. CASE ~(ev.op \in ops /\ Endpoint(ev) = e)
      <3>1. x = <<>>
        BY <2>13 DEF x
      <3> QED
        BY <1>3, <2>8, <2>10, <2>11, <2>13, <3>1 DEF g
    <2> QED
      BY <2>12, <2>13
  <1> QED
    BY <1>2, <1>3

LEMMA CappedFacts ==
    ASSUME NEW s \in Seq(Byte)
    PROVE  /\ Capped(s) \in Seq(Byte)
           /\ Len(Capped(s)) = IF Len(s) > BufCap THEN BufCap ELSE Len(s)
           /\ \A i \in 1 .. Len(Capped(s)) : Capped(s)[i] = s[i]
  <1> DEFINE m == IF Len(s) > BufCap THEN BufCap ELSE Len(s)
  <1>1. m \in Nat /\ m <= Len(s)
    BY StreamerAssumption
  <1>2. Capped(s) = SubSeq(s, 1, m)
    BY DEF Capped
  <1>3. /\ SubSeq(s, 1, m) \in Seq(Byte) /\ Len(SubSeq(s, 1, m)) = m
        /\ \A i \in 1 .. m : SubSeq(s, 1, m)[i] = s[i]
    <2> HIDE DEF m
    <2> QED
      BY <1>1
  <1> QED
    BY <1>2, <1>3

LEMMA AppendCappedFacts ==
    ASSUME NEW d \in Seq(Byte), NEW p \in Seq(Byte), Len(d) <= BufCap
    PROVE  LET r == AppendCapped(d, p) IN
             /\ r \in Seq(Byte)
             /\ Len(r) = IF Len(d) + Len(p) > BufCap THEN BufCap ELSE Len(d) + Len(p)
             /\ \A i \in 1 .. Len(r) : r[i] = IF i <= Len(d) THEN d[i] ELSE p[i - Len(d)]
  <1> DEFINE room == BufCap - Len(d)
  <1>1. BufCap \in Nat /\ Len(d) \in Nat /\ Len(p) \in Nat /\ room \in Nat
    BY StreamerAssumption
  <1>2. CASE room = 0
    <2>1. AppendCapped(d, p) = d
      BY <1>2 DEF AppendCapped
    <2> QED
      BY <1>1, <1>2, <2>1
  <1>3. CASE room # 0
    <2> DEFINE q == IF Len(p) > room THEN SubSeq(p, 1, room) ELSE p
    <2>1. AppendCapped(d, p) = d \o q
      BY <1>1, <1>3 DEF AppendCapped
    <2>2. /\ q \in Seq(Byte) /\ Len(q) = (IF Len(p) > room THEN room ELSE Len(p))
          /\ \A i \in 1 .. Len(q) : q[i] = p[i]
      <3> HIDE DEF room
      <3> QED
        BY <1>1
    <2> HIDE DEF q
    <2>3. /\ d \o q \in Seq(Byte) /\ Len(d \o q) = Len(d) + Len(q)
          /\ \A i \in 1 .. Len(d) + Len(q) :
                (d \o q)[i] = IF i <= Len(d) THEN d[i] ELSE q[i - Len(d)]
      BY <2>2, ConcatProperties
    <2>4. Len(d) + Len(q) = IF Len(d) + Len(p) > BufCap THEN BufCap ELSE Len(d) + Len(p)
      BY <1>1, <2>2
    <2>5. \A i \in 1 .. Len(d) + Len(q) : i > Len(d) => q[i - Len(d)] = p[i - Len(d)]
      <3> SUFFICES ASSUME NEW i \in 1 .. Len(d) + Len(q), i > Len(d)
                   PROVE  q[i - Len(d)] = p[i - Len(d)]
        OBVIOUS
      <3>1. Len(q) \in Nat
        BY <2>2
      <3>2. i - Len(d) \in 1 .. Len(q)
        BY <1>1, <3>1
      <3> QED
        BY <2>2, <3>2
    <2> HIDE DEF room
    <2> QED
      BY <1>1, <2>1, <2>3, <2>4, <2>5
  <1> QED
    BY <1>2, <1>3

\* Capping each time bytes arrive is capping the whole stream.
LEMMA CappedAppend ==
    ASSUME NEW s \in Seq(Byte), NEW p \in Seq(Byte)
    PROVE  Capped(s \o p) = AppendCapped(Capped(s), p)
  <1> DEFINE c == Capped(s)
             a == Capped(s \o p)
             r == AppendCapped(c, p)
  <1>1. BufCap \in Nat /\ Len(s) \in Nat /\ Len(p) \in Nat
    BY StreamerAssumption
  <1>2. /\ s \o p \in Seq(Byte) /\ Len(s \o p) = Len(s) + Len(p)
        /\ \A i \in 1 .. Len(s) + Len(p) :
              (s \o p)[i] = IF i <= Len(s) THEN s[i] ELSE p[i - Len(s)]
    BY ConcatProperties
  <1>3. /\ c \in Seq(Byte) /\ Len(c) = (IF Len(s) > BufCap THEN BufCap ELSE Len(s))
        /\ \A i \in 1 .. Len(c) : c[i] = s[i]
    BY CappedFacts
  <1>4. /\ a \in Seq(Byte)
        /\ Len(a) = (IF Len(s) + Len(p) > BufCap THEN BufCap ELSE Len(s) + Len(p))
        /\ \A i \in 1 .. Len(a) : a[i] = (s \o p)[i]
    <2>1. /\ a \in Seq(Byte)
          /\ Len(a) = (IF Len(s \o p) > BufCap THEN BufCap ELSE Len(s \o p))
          /\ \A i \in 1 .. Len(a) : a[i] = (s \o p)[i]
      BY <1>2, CappedFacts
    <2> HIDE DEF a
    <2> QED
      BY <1>2, <2>1
  <1> HIDE DEF c, a
  <1>5. Len(c) <= BufCap
    BY <1>1, <1>3
  <1>6. /\ r \in Seq(Byte)
        /\ Len(r) = (IF Len(c) + Len(p) > BufCap THEN BufCap ELSE Len(c) + Len(p))
        /\ \A i \in 1 .. Len(r) : r[i] = IF i <= Len(c) THEN c[i] ELSE p[i - Len(c)]
    BY <1>3, <1>5, AppendCappedFacts
  <1> HIDE DEF r
  <1>7. Len(r) = Len(a)
    BY <1>1, <1>3, <1>4, <1>6
  <1>8. ASSUME NEW i \in 1 .. Len(a) PROVE a[i] = r[i]
    <2>1. i \in 1 .. Len(s) + Len(p) /\ a[i] = (s \o p)[i]
      BY <1>1, <1>4
    <2>2. a[i] = IF i <= Len(s) THEN s[i] ELSE p[i - Len(s)]
      BY <1>2, <2>1
    <2>3. r[i] = IF i <= Len(c) THEN c[i] ELSE p[i - Len(c)]
      BY <1>6, <1>7
    <2>4. i <= Len(c) => c[i] = s[i] /\ i <= Len(s)
      BY <1>1, <1>3
    <2>5. i > Len(c) => Len(c) = Len(s)
      BY <1>1, <1>3, <1>4
    <2>6. Len(c) \in Nat
      BY <1>3
    <2> QED
      BY <1>1, <2>2, <2>3, <2>4, <2>5, <2>6
  <1>9. a = r
    BY <1>4, <1>6, <1>7, <1>8, SeqEqual
  <1> QED
    BY <1>9 DEF a, r, c

LEMMA BufsOfNothing ==
    ASSUME NEW h \in Seq(Inputs), NEW e, Lifetime(h, e) = {}
    PROVE  BufsOf(h, e) = NewBufs
  <1>1. Stream(h, e, ReadOps) = <<>> /\ Stream(h, e, WriteOps) = <<>>
    BY StreamEmpty
  <1>2. Capped(<<>>) = <<>>
    <2>1. <<>> \in Seq(Byte) /\ Len(<<>>) = 0
      OBVIOUS
    <2>2. Capped(<<>>) \in Seq(Byte) /\ Len(Capped(<<>>)) = (IF Len(<<>>) > BufCap THEN BufCap ELSE Len(<<>>))
      BY <2>1, CappedFacts
    <2>3. ~(0 > BufCap)
      BY StreamerAssumption
    <2> QED
      BY <2>1, <2>2, <2>3
  <1>3. (\E i \in Lifetime(h, e) : Truncated(h[i])) = FALSE
    OBVIOUS
  <1> QED
    BY <1>1, <1>2, <1>3 DEF BufsOf, NewBufs

LEMMA BufsOfAppend ==
    ASSUME NEW h \in Seq(Inputs), NEW ev \in Inputs, NEW e, ~Closes(ev, e)
    PROVE  BufsOf(Append(h, ev), e)
             = IF ev.op \in DataOps /\ Endpoint(ev) = e THEN Buffered(BufsOf(h, e), ev)
               ELSE BufsOf(h, e)
  <1> DEFINE g == Append(h, ev)
             n == Len(h) + 1
             R == Stream(h, e, ReadOps)
             W == Stream(h, e, WriteOps)
             t == \E i \in Lifetime(h, e) : Truncated(h[i])
             u == \E i \in Lifetime(g, e) : Truncated(g[i])
  <1>1. /\ DOMAIN g = DOMAIN h \cup {n} /\ g[n] = ev
        /\ \A i \in DOMAIN h : g[i] = h[i]
    BY Appended
  <1>2. Lifetime(h, e) \subseteq DOMAIN h
    BY DEF Lifetime
  <1>3. Lifetime(g, e) = IF ev.op \in DataOps /\ Endpoint(ev) = e
                         THEN Lifetime(h, e) \cup {n} ELSE Lifetime(h, e)
    BY LifetimeAppend
  <1>4. /\ Stream(g, e, ReadOps) = IF ev.op \in ReadOps /\ Endpoint(ev) = e
                                   THEN R \o Payload(ev) ELSE R
        /\ Stream(g, e, WriteOps) = IF ev.op \in WriteOps /\ Endpoint(ev) = e
                                    THEN W \o Payload(ev) ELSE W
    BY StreamAppend DEF DataOps
  <1>5. R \in Seq(Byte) /\ W \in Seq(Byte) /\ Payload(ev) \in Seq(Byte)
    BY StreamType, StreamerAssumption DEF Payload
  <1>6. /\ BufsOf(h, e) = [read |-> Capped(R), write |-> Capped(W), truncated |-> t]
        /\ BufsOf(g, e) = [read |-> Capped(Stream(g, e, ReadOps)),
                           write |-> Capped(Stream(g, e, WriteOps)), truncated |-> u]
    BY DEF BufsOf
  <1>7. /\ Capped(R \o Payload(ev)) = AppendCapped(Capped(R), Payload(ev))
        /\ Capped(W \o Payload(ev)) = AppendCapped(Capped(W), Payload(ev))
    BY <1>5, CappedAppend
  <1>8. t \in BOOLEAN /\ u \in BOOLEAN
    OBVIOUS
  <1>9. CASE ev.op \in DataOps /\ Endpoint(ev) = e
    <2>1. u <=> (t \/ Truncated(ev))
      BY <1>1, <1>2, <1>3, <1>9
    <2>2. u = (t \/ Truncated(ev))
      BY <1>8, <2>1
    <2> DEFINE b == BufsOf(h, e)
               gr == Capped(Stream(g, e, ReadOps))
               gw == Capped(Stream(g, e, WriteOps))
    <2>3. b.read = Capped(R) /\ b.write = Capped(W) /\ b.truncated = t
      BY <1>6
    <2>4. gr = IF ev.op \in ReadOps THEN AppendCapped(b.read, Payload(ev)) ELSE b.read
      BY <1>4, <1>7, <1>9, <2>3
    <2>5. gw = IF ev.op \in WriteOps THEN AppendCapped(b.write, Payload(ev)) ELSE b.write
      BY <1>4, <1>7, <1>9, <2>3
    <2>6. BufsOf(g, e) = [read |-> gr, write |-> gw, truncated |-> b.truncated \/ Truncated(ev)]
      BY <1>6, <2>2, <2>3
    <2> HIDE DEF gr, gw, b
    <2>7. BufsOf(g, e) = Buffered(b, ev)
      BY <2>4, <2>5, <2>6 DEF Buffered
    <2> QED
      BY <1>9, <2>7 DEF b
  <1>10. CASE ~(ev.op \in DataOps /\ Endpoint(ev) = e)
    <2>1. Stream(g, e, ReadOps) = R /\ Stream(g, e, WriteOps) = W
      BY <1>4, <1>10 DEF DataOps
    <2>2. u = t
      BY <1>1, <1>2, <1>3, <1>8, <1>10
    <2> QED
      BY <1>6, <1>10, <2>1, <2>2
  <1> QED
    BY <1>9, <1>10

IsLive(h, i) == i \in DOMAIN h /\ i \in Lifetime(h, Endpoint(h[i]))

\* BufsMatchHistory, of any map of buffers and any events.
Matches(tab, h) ==
    /\ \A k \in DOMAIN tab : \E i \in DOMAIN h : IsLive(h, i) /\ KeyOf(h[i]) = k
    /\ \A i \in DOMAIN h : IsLive(h, i) =>
          KeyOf(h[i]) \in DOMAIN tab /\ tab[KeyOf(h[i])] = BufsOf(h, Endpoint(h[i]))

LEMMA MatchesIsMatch == BufsMatchHistory <=> Matches(bufs, Applied)
  BY DEF BufsMatchHistory, Matches, IsLive

\* What is live after one more event.
LEMMA LiveAppend ==
    ASSUME NEW h \in Seq(Inputs), NEW ev \in Inputs
    PROVE  LET g == Append(h, ev)  n == Len(h) + 1 IN
             /\ DOMAIN g = DOMAIN h \cup {n} /\ g[n] = ev /\ (IsLive(g, n) <=> ev.op \in DataOps)
             /\ \A i \in DOMAIN h :
                   /\ g[i] = h[i] /\ h[i] \in Inputs
                   /\ IsLive(g, i) <=> (IsLive(h, i) /\ ~Closes(ev, Endpoint(h[i])))
  <1> DEFINE g == Append(h, ev)
             n == Len(h) + 1
  <1>1. /\ DOMAIN g = DOMAIN h \cup {n} /\ g[n] = ev /\ n \notin DOMAIN h
        /\ \A i \in DOMAIN h : g[i] = h[i] /\ h[i] \in Inputs
    BY Appended
  <1>2. \A e : Lifetime(g, e) = IF Closes(ev, e) THEN {}
                                ELSE IF ev.op \in DataOps /\ Endpoint(ev) = e
                                THEN Lifetime(h, e) \cup {n} ELSE Lifetime(h, e)
    BY LifetimeAppend
  <1>3. \A e : Lifetime(h, e) \subseteq DOMAIN h
    BY DEF Lifetime
  <1>4. Closes(ev, Endpoint(ev)) => ev.op \notin DataOps
    BY DEF Closes, DataOps, ReadOps, WriteOps
  <1> HIDE DEF g, n
  <1>5. IsLive(g, n) <=> ev.op \in DataOps
    <2>1. Lifetime(g, Endpoint(ev)) = IF Closes(ev, Endpoint(ev)) THEN {}
                                      ELSE IF ev.op \in DataOps
                                      THEN Lifetime(h, Endpoint(ev)) \cup {n}
                                      ELSE Lifetime(h, Endpoint(ev))
      BY <1>2
    <2>2. n \notin Lifetime(h, Endpoint(ev))
      BY <1>1, <1>3
    <2> QED
      BY <1>1, <1>4, <2>1, <2>2 DEF IsLive
  <1>6. ASSUME NEW i \in DOMAIN h
        PROVE  IsLive(g, i) <=> (IsLive(h, i) /\ ~Closes(ev, Endpoint(h[i])))
    <2>1. g[i] = h[i] /\ i # n /\ i \in DOMAIN g
      BY <1>1
    <2> QED
      BY <1>2, <2>1 DEF IsLive
  <1>7. /\ DOMAIN g = DOMAIN h \cup {n} /\ g[n] = ev /\ (IsLive(g, n) <=> ev.op \in DataOps)
        /\ \A i \in DOMAIN h :
              /\ g[i] = h[i] /\ h[i] \in Inputs
              /\ IsLive(g, i) <=> (IsLive(h, i) /\ ~Closes(ev, Endpoint(h[i])))
    BY <1>1, <1>5, <1>6
  <1> QED
    BY <1>7 DEF g, n

\* A connect changes nothing.
LEMMA MatchesConnect ==
    ASSUME NEW h \in Seq(Inputs), NEW ev \in Inputs, ev.op = "connect", NEW tab, Matches(tab, h)
    PROVE  Matches(tab, Append(h, ev))
  <1> DEFINE g == Append(h, ev)
             n == Len(h) + 1
  <1>1. ev.op \notin DataOps /\ \A e : ~Closes(ev, e)
    BY DEF DataOps, ReadOps, WriteOps, Closes
  <1>2. /\ DOMAIN g = DOMAIN h \cup {n} /\ ~IsLive(g, n)
        /\ \A i \in DOMAIN h : g[i] = h[i] /\ (IsLive(g, i) <=> IsLive(h, i))
    BY <1>1, LiveAppend
  <1>3. \A e : BufsOf(g, e) = BufsOf(h, e)
    BY <1>1, BufsOfAppend
  <1> HIDE DEF g, n
  <1> QED
    BY <1>2, <1>3 DEF Matches, g

\* A close removes the entry of its fd, if there is one.
LEMMA MatchesClose ==
    ASSUME NEW h \in Seq(Inputs), NEW ev \in Inputs, ev.op = "close", NEW tab, NEW new,
           Matches(tab, h), DOMAIN new = DOMAIN tab \ {KeyOf(ev)},
           \A k \in DOMAIN new : new[k] = tab[k]
    PROVE  Matches(new, Append(h, ev))
  <1> DEFINE g == Append(h, ev)
             n == Len(h) + 1
  <1>1. ev.op \notin DataOps
    BY DEF DataOps, ReadOps, WriteOps
  <1>2. /\ DOMAIN g = DOMAIN h \cup {n} /\ ~IsLive(g, n)
        /\ \A i \in DOMAIN h : /\ g[i] = h[i] /\ h[i] \in Inputs
                               /\ IsLive(g, i) <=> (IsLive(h, i) /\ ~Closes(ev, Endpoint(h[i])))
    BY <1>1, LiveAppend
  <1>3. \A i \in DOMAIN h : Closes(ev, Endpoint(h[i])) <=> KeyOf(h[i]) = KeyOf(ev)
    BY <1>2, KeyIsEndpoint DEF Closes
  <1>4. \A e : ~Closes(ev, e) => BufsOf(g, e) = BufsOf(h, e)
    BY <1>1, BufsOfAppend
  <1> HIDE DEF g, n
  <1>5. ASSUME NEW k \in DOMAIN new PROVE \E i \in DOMAIN g : IsLive(g, i) /\ KeyOf(g[i]) = k
    <2>1. PICK i \in DOMAIN h : IsLive(h, i) /\ KeyOf(h[i]) = k
      BY DEF Matches
    <2>2. k # KeyOf(ev)
      OBVIOUS
    <2> QED
      BY <1>2, <1>3, <2>1, <2>2
  <1>6. ASSUME NEW i \in DOMAIN g, IsLive(g, i)
        PROVE  KeyOf(g[i]) \in DOMAIN new /\ new[KeyOf(g[i])] = BufsOf(g, Endpoint(g[i]))
    <2>1. i \in DOMAIN h /\ IsLive(h, i) /\ ~Closes(ev, Endpoint(h[i])) /\ g[i] = h[i]
      BY <1>2, <1>6
    <2>2. KeyOf(h[i]) \in DOMAIN tab /\ tab[KeyOf(h[i])] = BufsOf(h, Endpoint(h[i]))
      BY <2>1 DEF Matches
    <2> QED
      BY <1>3, <1>4, <2>1, <2>2
  <1> QED
    BY <1>5, <1>6 DEF Matches, g

\* A read or a write is buffered under its key.
LEMMA MatchesData ==
    ASSUME NEW h \in Seq(Inputs), NEW ev \in Inputs, ev.op \in DataOps, NEW tab, NEW new, NEW old,
           Matches(tab, h), DOMAIN new = DOMAIN tab \cup {KeyOf(ev)},
           \A k \in DOMAIN tab \ {KeyOf(ev)} : new[k] = tab[k],
           old = (IF KeyOf(ev) \in DOMAIN tab THEN tab[KeyOf(ev)] ELSE NewBufs),
           new[KeyOf(ev)] = Buffered(old, ev)
    PROVE  Matches(new, Append(h, ev))
  <1> DEFINE g == Append(h, ev)
             n == Len(h) + 1
             e == Endpoint(ev)
  <1>1. \A x : ~Closes(ev, x)
    BY DEF DataOps, ReadOps, WriteOps, Closes
  <1>2. /\ DOMAIN g = DOMAIN h \cup {n} /\ g[n] = ev /\ IsLive(g, n)
        /\ \A i \in DOMAIN h : /\ g[i] = h[i] /\ h[i] \in Inputs
                               /\ IsLive(g, i) <=> IsLive(h, i)
    BY <1>1, LiveAppend
  <1>3. \A i \in DOMAIN h : KeyOf(h[i]) = KeyOf(ev) <=> Endpoint(h[i]) = e
    BY <1>2, KeyIsEndpoint
  <1>4. /\ \A x : x # e => BufsOf(g, x) = BufsOf(h, x)
        /\ BufsOf(g, e) = Buffered(BufsOf(h, e), ev)
    BY <1>1, BufsOfAppend
  <1>5. old = BufsOf(h, e)
    <2>1. CASE KeyOf(ev) \in DOMAIN tab
      <3>1. PICK i \in DOMAIN h : IsLive(h, i) /\ KeyOf(h[i]) = KeyOf(ev)
        BY <2>1 DEF Matches
      <3>2. tab[KeyOf(h[i])] = BufsOf(h, Endpoint(h[i]))
        BY <3>1 DEF Matches
      <3> QED
        BY <1>3, <2>1, <3>1, <3>2
    <2>2. CASE KeyOf(ev) \notin DOMAIN tab
      <3>1. \A i \in DOMAIN h : IsLive(h, i) => Endpoint(h[i]) # e
        BY <1>3, <2>2 DEF Matches
      <3>2. \A i \in Lifetime(h, e) : i \in DOMAIN h /\ Endpoint(h[i]) = e
        BY DEF Lifetime
      <3>3. Lifetime(h, e) = {}
        BY <3>1, <3>2 DEF IsLive
      <3> QED
        BY <2>2, <3>3, BufsOfNothing
    <2> QED
      BY <2>1, <2>2
  <1> HIDE DEF g, n
  <1>6. ASSUME NEW k \in DOMAIN new PROVE \E i \in DOMAIN g : IsLive(g, i) /\ KeyOf(g[i]) = k
    <2>1. CASE k = KeyOf(ev)
      BY <1>2, <2>1
    <2>2. CASE k # KeyOf(ev)
      <3>1. PICK i \in DOMAIN h : IsLive(h, i) /\ KeyOf(h[i]) = k
        BY <2>2 DEF Matches
      <3> QED
        BY <1>2, <3>1
    <2> QED
      BY <2>1, <2>2
  <1>7. ASSUME NEW i \in DOMAIN g, IsLive(g, i)
        PROVE  KeyOf(g[i]) \in DOMAIN new /\ new[KeyOf(g[i])] = BufsOf(g, Endpoint(g[i]))
    <2>1. CASE i \in DOMAIN h /\ Endpoint(h[i]) # e
      <3>1. IsLive(h, i) /\ g[i] = h[i] /\ KeyOf(h[i]) # KeyOf(ev)
        BY <1>2, <1>3, <1>7, <2>1
      <3>2. KeyOf(h[i]) \in DOMAIN tab /\ tab[KeyOf(h[i])] = BufsOf(h, Endpoint(h[i]))
        BY <2>1, <3>1 DEF Matches
      <3> QED
        BY <1>4, <2>1, <3>1, <3>2
    <2>2. CASE ~(i \in DOMAIN h /\ Endpoint(h[i]) # e)
      <3>1. KeyOf(g[i]) = KeyOf(ev) /\ Endpoint(g[i]) = e
        BY <1>2, <1>3, <2>2
      <3> QED
        BY <1>4, <1>5, <3>1
    <2> QED
      BY <2>1, <2>2
  <1> QED
    BY <1>6, <1>7 DEF Matches, g

-----------------------------------------------------------------------------
(* BufsMatchHistory is an invariant.                                       *)

\* At "out" the close in hand is the event passed on last, and its buffers
\* are still there.
AtOut ==
    pc = "out" =>
        /\ Passed # <<>> /\ Passed[Len(Passed)] = cur[1] /\ cur[1].op = "close"
        /\ KeyOf(cur[1]) \in DOMAIN bufs

HistInv == AtOut /\ Matches(bufs, Applied)

LEMMA PassedType ==
    ASSUME TypeOK
    PROVE  Passed \in Seq(Inputs)
  BY DEF TypeOK, ChanOf, Passed

\* Forwarding an event appends it to what was passed on ...
LEMMA PassRawPassed ==
    ASSUME TypeOK, PassRaw, rawTaken' = rawTaken
    PROVE  /\ cur[1] \in Inputs /\ pc = "raw" /\ Passed \in Seq(Inputs) /\ Applied = Passed
           /\ Passed' = Append(Passed, cur[1])
           /\ Passed' # <<>> /\ Passed'[Len(Passed')] = cur[1] /\ Front(Passed') = Passed
  <1>1. /\ pc = "raw" /\ cur \in Seq(Inputs) /\ Len(cur) = 1 /\ raw.buf \in Seq(Inputs)
        /\ rawTaken \in Seq(Inputs) /\ raw'.buf = Append(raw.buf, cur[1])
    BY DEF TypeOK, PassRaw, ChanOf, Send
  <1>2. cur[1] \in Inputs
    BY <1>1, SingletonSeq
  <1>3. rawTaken \o Append(raw.buf, cur[1]) = Append(rawTaken \o raw.buf, cur[1])
    BY <1>1, <1>2, ConcatAppend
  <1>4. Passed \in Seq(Inputs) /\ Passed' = Append(Passed, cur[1])
    BY <1>1, <1>3, PassedType DEF Passed
  <1>5. PICK a : a = Passed
    OBVIOUS
  <1>6. PICK x : x = cur[1]
    OBVIOUS
  <1>7. Append(a, x) # <<>> /\ Append(a, x)[Len(Append(a, x))] = x /\ Front(Append(a, x)) = a
    <2>1. a \in Seq(Inputs) /\ x \in Inputs
      BY <1>2, <1>4, <1>5, <1>6
    <2>2. Append(a, x) # <<>> /\ Append(a, x)[Len(Append(a, x))] = x
      BY <2>1
    <2>3. Front(Append(a, x)) = a
      BY <2>1, FrontAppend
    <2> QED
      BY <2>2, <2>3
  <1>8. Applied = Passed
    BY <1>1 DEF Applied
  <1> QED
    BY <1>1, <1>2, <1>4, <1>5, <1>6, <1>7, <1>8

\* ... and a receive from rawOut does not change it.
LEMMA TakeRawPassed ==
    ASSUME TypeOK, TakeRaw
    PROVE  Passed' = Passed
  <1>1. /\ raw \in ChanOf(Inputs) /\ HasValue(raw) /\ raw' = Receive(raw)
        /\ rawTaken \in Seq(Inputs) /\ rawTaken' = Append(rawTaken, Head(raw.buf))
    BY DEF TakeRaw, TypeOK
  <1>2. /\ Head(raw.buf) \in Inputs /\ Receive(raw) \in ChanOf(Inputs)
        /\ raw.buf = <<Head(raw.buf)>> \o Receive(raw).buf
    BY <1>1, ReceiveChan
  <1> DEFINE a == rawTaken
             x == Head(raw.buf)
             b == raw'.buf
  <1>3. a \in Seq(Inputs) /\ x \in Inputs /\ b \in Seq(Inputs)
    BY <1>1, <1>2 DEF ChanOf
  <1>4. Passed = a \o (<<x>> \o b) /\ Passed' = Append(a, x) \o b
    BY <1>1, <1>2 DEF Passed
  <1> HIDE DEF a, x, b
  <1> QED
    BY <1>3, <1>4, MoveAcross

LEMMA HistPassRaw ==
    ASSUME TypeOK, HistInv, HandleConnect \/ HandleData \/ HandleClose, rawTaken' = rawTaken
    PROVE  HistInv'
  <1>1. PassRaw
    BY DEF HandleConnect, HandleData, HandleClose
  <1>2. /\ cur[1] \in Inputs /\ pc = "raw" /\ Passed \in Seq(Inputs) /\ Matches(bufs, Passed)
        /\ Passed' = Append(Passed, cur[1])
        /\ Passed' # <<>> /\ Passed'[Len(Passed')] = cur[1] /\ Front(Passed') = Passed
    BY <1>1, PassRawPassed DEF HistInv
  <1>3. PICK h : h = Passed
    OBVIOUS
  <1>4. PICK ev : ev = cur[1]
    OBVIOUS
  <1>5. ev \in Inputs /\ h \in Seq(Inputs) /\ Matches(bufs, h) /\ Passed' = Append(h, ev)
    BY <1>2, <1>3, <1>4
  <1>6. CASE HandleConnect
    <2>1. ev.op = "connect" /\ bufs' = bufs /\ pc' = "recv"
      BY <1>4, <1>6 DEF HandleConnect, NextIteration
    <2>2. Matches(bufs', Append(h, ev))
      BY <1>5, <2>1, MatchesConnect
    <2> QED
      BY <1>5, <2>1, <2>2 DEF HistInv, AtOut, Applied
  <1>7. CASE HandleData
    <2> DEFINE k == KeyOf(ev)
    <2>1. ev.op \in DataOps /\ bufs' = Put(k, Buffered(Get(k), ev)) /\ pc' = "recv"
      BY <1>4, <1>7 DEF HandleData, NextIteration, DataOps
    <2>2. /\ DOMAIN bufs' = DOMAIN bufs \cup {k} /\ bufs'[k] = Buffered(Get(k), ev)
          /\ \A x \in DOMAIN bufs \ {k} : bufs'[x] = bufs[x]
      BY <2>1 DEF Put
    <2>3. Get(k) = IF k \in DOMAIN bufs THEN bufs[k] ELSE NewBufs
      BY DEF Get
    <2>4. Matches(bufs', Append(h, ev))
      BY <1>5, <2>1, <2>2, <2>3, MatchesData
    <2> QED
      BY <1>5, <2>1, <2>4 DEF HistInv, AtOut, Applied
  <1>8. CASE HandleClose
    <2>1. ev.op = "close"
      BY <1>4, <1>8 DEF HandleClose
    <2>2. CASE pc' = "out"
      <3>1. UNCHANGED <<cur, bufs>> /\ KeyOf(cur[1]) \in DOMAIN bufs
        BY <1>8, <2>2 DEF HandleClose, NextIteration
      <3>2. AtOut'
        BY <1>2, <1>4, <2>1, <3>1 DEF AtOut
      <3>3. Applied' = Passed
        BY <1>2, <2>2 DEF Applied
      <3> QED
        BY <1>2, <3>1, <3>2, <3>3 DEF HistInv
    <2>3. CASE pc' # "out"
      <3>1. pc' = "recv" /\ bufs' = Delete(KeyOf(ev))
        BY <1>4, <1>8, <2>3 DEF HandleClose, NextIteration
      <3>2. /\ DOMAIN bufs' = DOMAIN bufs \ {KeyOf(ev)}
            /\ \A x \in DOMAIN bufs' : bufs'[x] = bufs[x]
        BY <3>1 DEF Delete
      <3>3. Matches(bufs', Append(h, ev))
        BY <1>5, <2>1, <3>2, MatchesClose
      <3> QED
        BY <1>5, <3>1, <3>3 DEF HistInv, AtOut, Applied
    <2> QED
      BY <2>2, <2>3
  <1> QED
    BY <1>6, <1>7, <1>8

LEMMA HistSend ==
    ASSUME TypeOK, HistInv, SendExchange, rawTaken' = rawTaken
    PROVE  HistInv'
  <1>1. /\ pc = "out" /\ pc' = "recv" /\ raw' = raw /\ bufs' = Delete(KeyOf(cur[1]))
    BY DEF SendExchange, NextIteration
  <1>2. PICK ev : ev = cur[1]
    OBVIOUS
  <1>3. PICK p : p = Passed
    OBVIOUS
  <1>4. /\ p \in Seq(Inputs) /\ p # <<>> /\ p[Len(p)] = ev /\ ev.op = "close"
        /\ Matches(bufs, Front(p))
    BY <1>1, <1>2, <1>3, PassedType DEF HistInv, AtOut, Applied
  <1>5. Front(p) \in Seq(Inputs) /\ ev \in Inputs /\ p = Append(Front(p), ev)
    BY <1>4, FrontLast
  <1>6. /\ DOMAIN bufs' = DOMAIN bufs \ {KeyOf(ev)}
        /\ \A x \in DOMAIN bufs' : bufs'[x] = bufs[x]
    BY <1>1, <1>2 DEF Delete
  <1>7. Matches(bufs', Append(Front(p), ev))
    BY <1>4, <1>5, <1>6, MatchesClose
  <1>8. Applied' = p
    BY <1>1, <1>3 DEF Applied, Passed
  <1> QED
    BY <1>1, <1>5, <1>7, <1>8 DEF HistInv, AtOut

\* Steps that touch neither the buffers nor what was passed on.
LEMMA HistSame ==
    ASSUME HistInv, bufs' = bufs, Passed' = Passed,
           (pc # "out" /\ pc' # "out") \/ UNCHANGED <<pc, cur>>
    PROVE  HistInv'
  BY DEF HistInv, AtOut, Applied

LEMMA HistStep == Safe /\ HistInv /\ [Next]_vars => HistInv'
  <1> SUFFICES ASSUME TypeOK, HistInv, [Next]_vars PROVE HistInv'
    BY DEF Safe
  <1>1. CASE Goroutine /\ UNCHANGED <<sent, rawTaken, outTaken>>
    <2>1. CASE HandleConnect \/ HandleData \/ HandleClose
      BY <1>1, <2>1, HistPassRaw
    <2>2. CASE SendExchange
      BY <1>1, <2>2, HistSend
    <2>3. CASE Recv \/ EndOfEvents \/ (\E k \in todo : FlushOne(k)) \/ CloseOut \/ CloseRaw
      <3>1. pc # "out" /\ pc' # "out" /\ bufs' = bufs /\ raw'.buf = raw.buf
        BY <2>3 DEF Recv, EndOfEvents, FlushOne, CloseOut, CloseRaw, CloseChan
      <3> QED
        BY <1>1, <3>1, HistSame DEF Passed
    <2> QED
      BY <1>1, <2>1, <2>2, <2>3 DEF Goroutine
  <1>2. CASE TakeRaw
    <2>1. UNCHANGED <<pc, cur, bufs>>
      BY <1>2 DEF TakeRaw, localVars
    <2> QED
      BY <1>2, <2>1, TakeRawPassed, HistSame
  <1>3. CASE \/ \E ev \in Inputs : Arrive(ev)
             \/ EventsEnd \/ TakeOut \/ Terminated \/ UNCHANGED vars
    <2>1. UNCHANGED <<raw, rawTaken, pc, cur, bufs>>
      BY <1>3 DEF Arrive, EventsEnd, TakeOut, Terminated, localVars, vars
    <2> QED
      BY <2>1, HistSame DEF Passed
  <1> QED
    BY <1>1, <1>2, <1>3 DEF Next

LEMMA HistInit == Init => HistInv
  <1> SUFFICES ASSUME Init PROVE HistInv
    OBVIOUS
  <1>1. pc = "recv" /\ Passed = <<>> /\ DOMAIN bufs = {}
    BY DEF Init, Passed, MakeChan
  <1>2. Applied = <<>> /\ DOMAIN Applied = {}
    BY <1>1 DEF Applied
  <1> QED
    BY <1>1, <1>2 DEF HistInv, AtOut, Matches

\* For any events in any order, any decoders and all capacities: the buffers
\* of each connection hold exactly the captured bytes, up to bufCap, of the
\* reads and writes since its last close, and nothing else is buffered.
THEOREM StreamerBufsMatchHistory == Spec => []BufsMatchHistory
  <1>1. HistInv => BufsMatchHistory
    BY MatchesIsMatch DEF HistInv
  <1>2. Spec => []Safe
    BY StreamerSafety, PTL DEF Safe
  <1> QED
    BY <1>1, <1>2, HistInit, HistStep, PTL DEF Spec

-----------------------------------------------------------------------------
(* The exchanges against the history.                                      *)

\* What each event of h adds to the exchanges of closes.
DueParts(h) ==
    [i \in DOMAIN h |->
       LET before == SubSeq(h, 1, i - 1) IN
       IF Due(before, h[i]) THEN <<ExchangeOfClose(before, h[i])>> ELSE <<>>]

LEMMA PrefixOfAppend ==
    ASSUME NEW T, NEW h \in Seq(T), NEW x \in T
    PROVE  /\ \A i \in DOMAIN h : SubSeq(Append(h, x), 1, i - 1) = SubSeq(h, 1, i - 1)
           /\ SubSeq(Append(h, x), 1, (Len(h) + 1) - 1) = h
  <1> DEFINE g == Append(h, x)
             l == Len(h)
  <1>1. /\ g \in Seq(T) /\ Len(g) = l + 1 /\ l \in Nat /\ DOMAIN h = 1 .. l
        /\ \A i \in 1 .. l : g[i] = h[i]
    BY Appended
  <1> HIDE DEF g, l
  <1>2. ASSUME NEW m \in 0 .. l PROVE SubSeq(g, 1, m) = SubSeq(h, 1, m)
    <2> DEFINE a == SubSeq(g, 1, m)
               b == SubSeq(h, 1, m)
    <2>1. m \in Nat /\ m <= Len(g) /\ m <= Len(h)
      BY <1>1 DEF l
    <2>2. a \in Seq(T) /\ Len(a) = m /\ \A i \in 1 .. m : a[i] = g[i]
      BY <1>1, <2>1
    <2>3. b \in Seq(T) /\ Len(b) = m /\ \A i \in 1 .. m : b[i] = h[i]
      BY <2>1
    <2> HIDE DEF a, b
    <2>4. \A i \in 1 .. m : a[i] = b[i]
      BY <1>1, <2>1, <2>2, <2>3 DEF l
    <2>5. a = b
      BY <2>2, <2>3, <2>4, SeqEqual
    <2> QED
      BY <2>5 DEF a, b
  <1>3. SubSeq(h, 1, l) = h
    <2> DEFINE b == SubSeq(h, 1, l)
    <2>1. b \in Seq(T) /\ Len(b) = Len(h) /\ \A i \in 1 .. Len(b) : b[i] = h[i]
      BY <1>1 DEF l
    <2> HIDE DEF b
    <2>2. b = h
      BY <2>1, SeqEqual
    <2> QED
      BY <2>2 DEF b
  <1>4. \A i \in DOMAIN h : i - 1 \in 0 .. l
    BY <1>1
  <1>5. l \in 0 .. l /\ (l + 1) - 1 = l
    BY <1>1
  <1>6. SubSeq(g, 1, (l + 1) - 1) = h
    BY <1>2, <1>3, <1>5
  <1> QED
    BY <1>2, <1>4, <1>6 DEF g, l

\* A close of a connection whose bytes decode adds one exchange.
LEMMA CloseExchangesAppend ==
    ASSUME NEW h \in Seq(Inputs), NEW ev \in Inputs
    PROVE  CloseExchanges(Append(h, ev))
             = CloseExchanges(h) \o (IF Due(h, ev) THEN <<ExchangeOfClose(h, ev)>> ELSE <<>>)
  <1> DEFINE g == Append(h, ev)
             n == Len(h) + 1
             x == IF Due(h, ev) THEN <<ExchangeOfClose(h, ev)>> ELSE <<>>
             w == DueParts(h)
             v == DueParts(g)
             T == {v[i] : i \in 1 .. n}
  <1>1. /\ Len(g) = n /\ DOMAIN h = 1 .. Len(h) /\ DOMAIN g = 1 .. n /\ Len(h) \in Nat
        /\ g[n] = ev /\ \A i \in DOMAIN h : g[i] = h[i] /\ i \in DOMAIN g
        /\ \A i \in DOMAIN h : SubSeq(g, 1, i - 1) = SubSeq(h, 1, i - 1)
        /\ SubSeq(g, 1, n - 1) = h /\ n \in DOMAIN g
    BY Appended, PrefixOfAppend
  <1>2. DOMAIN w = 1 .. Len(h) /\ DOMAIN v = 1 .. n
    BY <1>1 DEF DueParts
  <1> HIDE DEF g
  <1>3. v[n] = x
    <2> HIDE DEF n
    <2> QED
      BY <1>1 DEF DueParts
  <1>4. \A i \in 1 .. Len(h) : v[i] = w[i]
    <2> SUFFICES ASSUME NEW i \in DOMAIN h PROVE v[i] = w[i]
      BY <1>1
    <2> HIDE DEF n
    <2> QED
      BY <1>1 DEF DueParts
  <1>5. w = [i \in 1 .. Len(h) |-> w[i]] /\ v = [i \in 1 .. n |-> v[i]]
    BY <1>1 DEF DueParts
  <1>6. x \in Seq({ExchangeOfClose(h, ev)})
    <2> DEFINE y == ExchangeOfClose(h, ev)
    <2>1. x = IF Due(h, ev) THEN <<y>> ELSE <<>>
      OBVIOUS
    <2> DEFINE Y == {y}
    <2>2. y \in Y
      OBVIOUS
    <2> HIDE DEF x, y, Y
    <2>3. <<y>> \in Seq(Y) /\ <<>> \in Seq(Y)
      BY <2>2
    <2>4. x \in Seq(Y)
      BY <2>1, <2>3
    <2> QED
      BY <2>4 DEF Y, y
  <1> HIDE DEF w, v, x
  <1>7. \A i \in 1 .. n : v[i] \in T
    OBVIOUS
  <1> HIDE DEF T
  <1>8. v = Append(w, x) /\ w \in Seq(T) /\ x \in T
    <2> DEFINE l == Len(h)
               a == Append(w, x)
    <2>1. /\ l \in Nat /\ n = l + 1 /\ \A i \in 1 .. l : v[i] = w[i] /\ v[i] \in T
          /\ v[l + 1] = x /\ x \in T /\ w = [i \in 1 .. l |-> w[i]] /\ v = [i \in 1 .. l + 1 |-> v[i]]
      BY <1>1, <1>3, <1>4, <1>5, <1>7
    <2> HIDE DEF l, n
    <2>2. w \in [1 .. l -> T] /\ v \in [1 .. l + 1 -> T]
      BY <1>7, <2>1
    <2>3. w \in Seq(T) /\ Len(w) = l /\ v \in Seq(T) /\ Len(v) = l + 1
      BY <2>1, <2>2
    <2>4. /\ a \in Seq(T) /\ Len(a) = l + 1
          /\ a[l + 1] = x /\ \A i \in 1 .. l : a[i] = w[i]
      BY <2>1, <2>3
    <2> HIDE DEF a
    <2>5. \A i \in 1 .. l + 1 : v[i] = a[i]
      <3> SUFFICES ASSUME NEW i \in 1 .. l + 1 PROVE v[i] = a[i]
        OBVIOUS
      <3>1. i = l + 1 \/ i \in 1 .. l
        BY <2>1
      <3> QED
        BY <3>1, <2>1, <2>4
    <2>6. v = a
      BY <2>3, <2>4, <2>5, SeqEqual
    <2> QED
      BY <2>1, <2>3, <2>6 DEF a
  <1>9. FlattenSeq(v) = FlattenSeq(w) \o x
    BY <1>6, <1>8, FlattenAppend
  <1>10. CloseExchanges(h) = FlattenSeq(w) /\ CloseExchanges(g) = FlattenSeq(v)
    BY DEF CloseExchanges, DueParts, w, v
  <1> QED
    BY <1>9, <1>10 DEF x, g

\* The same, with the type of the result.
LEMMA CloseExchangesType ==
    \A h \in Seq(Inputs) : CloseExchanges(h) \in Seq(ToSet(CloseExchanges(h)))
  <1> DEFINE S == {h \in Seq(Inputs) : CloseExchanges(h) \in Seq(ToSet(CloseExchanges(h)))}
  <1>1. <<>> \in S
    <2>1. DueParts(<<>>) = <<>>
      BY DEF DueParts
    <2>2. CloseExchanges(<<>>) = FlattenSeq(DueParts(<<>>))
      BY DEF CloseExchanges, DueParts
    <2>3. CloseExchanges(<<>>) = <<>>
      BY <2>1, <2>2, FlattenEmpty
    <2>4. <<>> \in Seq(ToSet(<<>>)) /\ <<>> \in Seq(Inputs)
      OBVIOUS
    <2> QED
      BY <2>3, <2>4
  <1>2. ASSUME NEW h \in Seq(Inputs), NEW ev \in Inputs, h \in S PROVE Append(h, ev) \in S
    <2> DEFINE N == CloseExchanges(h)
               M == CloseExchanges(Append(h, ev))
    <2>1. N \in Seq(ToSet(N)) /\ Append(h, ev) \in Seq(Inputs)
      BY <1>2
    <2>2. M = N \o (IF Due(h, ev) THEN <<ExchangeOfClose(h, ev)>> ELSE <<>>)
      BY CloseExchangesAppend
    <2> HIDE DEF N, M
    <2>3. CASE Due(h, ev)
      <3>1. PICK x : x = ExchangeOfClose(h, ev)
        OBVIOUS
      <3>2. M = Append(N, x)
        BY <2>1, <2>2, <2>3, <3>1, ConcatOne
      <3>3. M \in Seq(ToSet(M))
        BY <2>1, <3>2, AppendToSet
      <3> QED
        BY <2>1, <3>3 DEF M
    <2>4. CASE ~Due(h, ev)
      <3>1. M = N
        BY <2>1, <2>2, <2>4, ConcatEmptySeq
      <3> QED
        BY <2>1, <3>1 DEF M
    <2> QED
      BY <2>3, <2>4
  <1> HIDE DEF S
  <1>3. Seq(Inputs) \subseteq S
    BY <1>1, <1>2, AppendInduction
  <1> QED
    BY <1>3 DEF S

LEMMA CloseExchangesStep ==
    ASSUME NEW h \in Seq(Inputs), NEW ev \in Inputs
    PROVE  CloseExchanges(Append(h, ev))
             = IF Due(h, ev) THEN Append(CloseExchanges(h), ExchangeOfClose(h, ev))
               ELSE CloseExchanges(h)
  <1> DEFINE N == CloseExchanges(h)
             x == ExchangeOfClose(h, ev)
             M == CloseExchanges(Append(h, ev))
  <1>1. N \in Seq(ToSet(N)) /\ M = N \o (IF Due(h, ev) THEN <<x>> ELSE <<>>)
    BY CloseExchangesType, CloseExchangesAppend
  <1> HIDE DEF N, x, M
  <1>2. N \o <<x>> = Append(N, x) /\ N \o <<>> = N
    BY <1>1, ConcatOne, ConcatEmptySeq
  <1>3. M = IF Due(h, ev) THEN Append(N, x) ELSE N
    BY <1>1, <1>2
  <1> QED
    BY <1>3 DEF M, N, x

Flushing == pc \in {"flush", "closeraw", "done"}

\* The connections the flush has made an exchange of.
Visited == IF Flushing THEN {k \in DOMAIN bufs \ todo : Decoded(FlushExchange(k))} ELSE {}

\* Where x was emitted after the exchanges N, and the visited keys that yield x.
SentAt(E, N, x) == {i \in DOMAIN E : i > Len(N) /\ E[i] = x}
Yield(V, x) == {k \in V : FlushExchange(k) = x}

\* E is N followed by one exchange for each key of V.
Tally(E, N, V) ==
    /\ Len(E) = Len(N) + Cardinality(V)
    /\ \A i \in DOMAIN N : E[i] = N[i]
    /\ \A x : Cardinality(SentAt(E, N, x)) = Cardinality(Yield(V, x))

ExInv ==
    /\ IsFiniteSet(DOMAIN bufs)
    /\ outTaken \in Seq(ToSet(outTaken))
    /\ ~Flushing => Emitted = CloseExchanges(Applied)
    /\ Flushing => Tally(Emitted, CloseExchanges(Applied), Visited)

LEMMA NothingFlushed ==
    ASSUME NEW E, E \in Seq(ToSet(E))
    PROVE  Tally(E, E, {})
  <1>1. Len(E) \in Nat /\ DOMAIN E = 1 .. Len(E)
    OBVIOUS
  <1>2. Cardinality({}) = 0
    BY FS_EmptySet
  <1>3. \A x : SentAt(E, E, x) = {}
    <2> DEFINE l == Len(E)
    <2> HIDE DEF l
    <2>1. l \in Nat /\ DOMAIN E = 1 .. l
      BY <1>1 DEF l
    <2>2. \A j \in DOMAIN E : ~(j > l)
      BY <2>1
    <2> QED
      BY <2>2 DEF SentAt, l
  <1>4. \A x : Yield({}, x) = {}
    BY DEF Yield
  <1>5. Len(E) = Len(E) + Cardinality({})
    BY <1>1, <1>2
  <1> QED
    BY <1>3, <1>4, <1>5 DEF Tally

\* One more key, one more exchange: its own.
LEMMA TallyOne ==
    ASSUME NEW E, E \in Seq(ToSet(E)), NEW N, Len(N) \in Nat, DOMAIN N = 1 .. Len(N), NEW V, NEW k,
           Tally(E, N, V), IsFiniteSet(V), k \notin V
    PROVE  Tally(Append(E, FlushExchange(k)), N, V \cup {k})
  <1> DEFINE y == FlushExchange(k)
             F == Append(E, y)
             n == Len(E) + 1
             W == V \cup {k}
  <1>1. Len(E) \in Nat /\ DOMAIN E = 1 .. Len(E)
    OBVIOUS
  <1>2. /\ Len(F) = n /\ DOMAIN F = DOMAIN E \cup {n} /\ n \notin DOMAIN E /\ F[n] = y
        /\ \A i \in DOMAIN E : F[i] = E[i]
    BY AppendToSet
  <1>3. Cardinality(V) \in Nat /\ Cardinality(W) = Cardinality(V) + 1
    BY FS_AddElement, FS_CardinalityType
  <1>4. Len(E) = Len(N) + Cardinality(V)
    BY DEF Tally
  <1> HIDE DEF y, F, n, W
  <1>5. Len(F) = Len(N) + Cardinality(W)
    BY <1>1, <1>2, <1>3, <1>4 DEF n
  <1>6. \A i \in DOMAIN N : F[i] = N[i]
    <2> SUFFICES ASSUME NEW i \in DOMAIN N PROVE F[i] = N[i]
      OBVIOUS
    <2>1. i \in DOMAIN E
      BY <1>1, <1>3, <1>4
    <2> QED
      BY <1>2, <2>1 DEF Tally
  <1>7. ASSUME NEW x PROVE Cardinality(SentAt(F, N, x)) = Cardinality(Yield(W, x))
    <2> DEFINE A == SentAt(E, N, x)
               B == Yield(V, x)
    <2>1. n > Len(N)
      BY <1>1, <1>3, <1>4 DEF n
    <2>2. SentAt(F, N, x) = IF x = y THEN A \cup {n} ELSE A
      BY <1>2, <2>1 DEF SentAt
    <2>3. Yield(W, x) = IF x = y THEN B \cup {k} ELSE B
      BY DEF Yield, W, y
    <2>4. n \notin A /\ k \notin B
      BY <1>2 DEF SentAt, Yield
    <2>5. IsFiniteSet(A) /\ IsFiniteSet(B)
      <3>1. A \in SUBSET (1 .. Len(E)) /\ B \in SUBSET V
        BY <1>1 DEF SentAt, Yield
      <3>2. IsFiniteSet(1 .. Len(E))
        BY <1>1, 1 \in Int, Len(E) \in Int, FS_Interval
      <3> QED
        BY <3>1, <3>2, FS_Subset
    <2>6. Cardinality(A) = Cardinality(B)
      BY DEF Tally
    <2> HIDE DEF A, B
    <2>7. /\ Cardinality(A \cup {n}) = Cardinality(A) + 1
          /\ Cardinality(B \cup {k}) = Cardinality(B) + 1
      BY <2>4, <2>5, FS_AddElement
    <2> QED
      BY <2>2, <2>3, <2>6, <2>7
  <1>8. Tally(F, N, W)
    BY <1>5, <1>6, <1>7 DEF Tally
  <1> QED
    BY <1>8 DEF F, W, y

LEMMA EmittedType ==
    ASSUME TypeOK, ExInv
    PROVE  Emitted \in Seq(ToSet(Emitted))
  <1>1. outTaken \in Seq(ToSet(outTaken)) /\ out.buf \in Seq(ToSet(out.buf))
    BY DEF ExInv, TypeOK, ChanOf
  <1>2. PICK a : a = outTaken
    OBVIOUS
  <1>3. PICK b : b = out.buf
    OBVIOUS
  <1>4. a \o b \in Seq(ToSet(a \o b))
    BY <1>1, <1>2, <1>3, ConcatToSet
  <1> QED
    BY <1>2, <1>3, <1>4 DEF Emitted

\* Sending an exchange appends it to what was emitted ...
LEMMA SendEmitted ==
    ASSUME TypeOK, ExInv, NEW ex, out' = Send(out, ex), outTaken' = outTaken
    PROVE  Emitted' = Append(Emitted, ex)
  <1>1. /\ outTaken \in Seq(ToSet(outTaken)) /\ out.buf \in Seq(ToSet(out.buf))
        /\ out'.buf = Append(out.buf, ex)
    BY DEF ExInv, TypeOK, ChanOf, Send
  <1>2. PICK a : a = outTaken
    OBVIOUS
  <1>3. PICK b : b = out.buf
    OBVIOUS
  <1> DEFINE T == ToSet(a) \cup ToSet(b) \cup {ex}
  <1>4. a \in Seq(T) /\ b \in Seq(T) /\ ex \in T
    BY <1>1, <1>2, <1>3
  <1> HIDE DEF T
  <1>5. a \o Append(b, ex) = Append(a \o b, ex)
    BY <1>4, ConcatAppend
  <1> QED
    BY <1>1, <1>2, <1>3, <1>5 DEF Emitted

\* ... and receiving one does not change it.
LEMMA TakeEmitted ==
    ASSUME TypeOK, ExInv, TakeOut
    PROVE  Emitted' = Emitted /\ outTaken' \in Seq(ToSet(outTaken'))
  <1>1. /\ outTaken \in Seq(ToSet(outTaken)) /\ out \in ChanOf(ToSet(out.buf))
        /\ HasValue(out) /\ out' = Receive(out) /\ outTaken' = Append(outTaken, Head(out.buf))
    BY DEF ExInv, TypeOK, TakeOut
  <1>2. /\ Head(out.buf) \in ToSet(out.buf) /\ Receive(out) \in ChanOf(ToSet(out.buf))
        /\ out.buf = <<Head(out.buf)>> \o Receive(out).buf
    BY <1>1, ReceiveChan
  <1>3. PICK a : a = outTaken
    OBVIOUS
  <1>4. PICK x : x = Head(out.buf)
    OBVIOUS
  <1>5. PICK b : b = Receive(out).buf
    OBVIOUS
  <1>6. PICK U : U = ToSet(out.buf)
    OBVIOUS
  <1> DEFINE T == ToSet(a) \cup U
  <1>7. a \in Seq(ToSet(a)) /\ b \in Seq(U) /\ x \in U
    BY <1>1, <1>2, <1>3, <1>4, <1>5, <1>6 DEF ChanOf
  <1>8. a \in Seq(T) /\ b \in Seq(T) /\ x \in T
    BY <1>7
  <1> HIDE DEF T
  <1>9. a \o (<<x>> \o b) = Append(a, x) \o b
    BY <1>8, MoveAcross
  <1>10. Append(a, x) \in Seq(ToSet(Append(a, x)))
    BY <1>7, AppendToSet
  <1> QED
    BY <1>1, <1>2, <1>3, <1>4, <1>5, <1>9, <1>10 DEF Emitted

\* Steps that leave alone what was emitted, applied and visited.
LEMMA ExSame ==
    ASSUME ExInv, IsFiniteSet(DOMAIN bufs'), outTaken' = outTaken, Emitted' = Emitted,
           CloseExchanges(Applied)' = CloseExchanges(Applied), Flushing' = Flushing,
           Flushing => UNCHANGED <<bufs, todo>>
    PROVE  ExInv'
  <1>1. CASE ~Flushing
    BY <1>1 DEF ExInv
  <1>2. CASE Flushing
    <2>1. Tally(Emitted, CloseExchanges(Applied), Visited)
      BY <1>2 DEF ExInv
    <2>2. Visited' = Visited /\ \A V, x : Yield(V, x)' = Yield(V, x)
      BY <1>2 DEF Visited, Yield, FlushExchange
    <2>3. Tally(Emitted, CloseExchanges(Applied), Visited)'
      BY <2>1, <2>2 DEF Tally, SentAt
    <2> QED
      BY <1>2, <2>3 DEF ExInv
  <1> QED
    BY <1>1, <1>2

\* The table's entry for a close is what the history says, if there is one.
LEMMA DueIsInTable ==
    ASSUME NEW h \in Seq(Inputs), NEW ev \in Inputs, ev.op = "close", NEW tab, Matches(tab, h)
    PROVE  /\ (KeyOf(ev) \in DOMAIN tab <=> Lifetime(h, Endpoint(ev)) # {})
           /\ KeyOf(ev) \in DOMAIN tab => tab[KeyOf(ev)] = BufsOf(h, Endpoint(ev))
  <1>1. \A i \in DOMAIN h : h[i] \in Inputs
    OBVIOUS
  <1>2. \A i \in DOMAIN h : KeyOf(h[i]) = KeyOf(ev) <=> Endpoint(h[i]) = Endpoint(ev)
    BY <1>1, KeyIsEndpoint
  <1>3. \A i \in Lifetime(h, Endpoint(ev)) : i \in DOMAIN h /\ Endpoint(h[i]) = Endpoint(ev)
    BY DEF Lifetime
  <1>4. ASSUME NEW i \in Lifetime(h, Endpoint(ev)) PROVE KeyOf(ev) \in DOMAIN tab
    <2>1. i \in DOMAIN h /\ IsLive(h, i) /\ KeyOf(h[i]) = KeyOf(ev)
      BY <1>2, <1>3 DEF IsLive
    <2> QED
      BY <2>1 DEF Matches
  <1>5. ASSUME KeyOf(ev) \in DOMAIN tab
        PROVE  Lifetime(h, Endpoint(ev)) # {} /\ tab[KeyOf(ev)] = BufsOf(h, Endpoint(ev))
    <2>1. PICK i \in DOMAIN h : IsLive(h, i) /\ KeyOf(h[i]) = KeyOf(ev)
      BY <1>5 DEF Matches
    <2>2. Endpoint(h[i]) = Endpoint(ev) /\ i \in Lifetime(h, Endpoint(ev))
      BY <1>2, <2>1 DEF IsLive
    <2>3. tab[KeyOf(h[i])] = BufsOf(h, Endpoint(h[i]))
      BY <2>1 DEF Matches
    <2> QED
      BY <2>1, <2>2, <2>3
  <1> QED
    BY <1>4, <1>5

LEMMA ExPassRaw ==
    ASSUME TypeOK, HistInv, ExInv, HandleConnect \/ HandleData \/ HandleClose,
           UNCHANGED <<rawTaken, outTaken>>
    PROVE  ExInv'
  <1>1. PassRaw /\ UNCHANGED <<out, todo>>
    BY DEF HandleConnect, HandleData, HandleClose, PassRaw
  <1>2. /\ cur[1] \in Inputs /\ pc = "raw" /\ Passed \in Seq(Inputs) /\ Applied = Passed
        /\ Passed' = Append(Passed, cur[1]) /\ Front(Passed') = Passed
    BY <1>1, PassRawPassed
  <1>3. PICK h : h = Passed
    OBVIOUS
  <1>4. PICK ev : ev = cur[1]
    OBVIOUS
  <1>5. /\ ev \in Inputs /\ h \in Seq(Inputs) /\ Matches(bufs, h) /\ Applied = h
        /\ Passed' = Append(h, ev) /\ IsFiniteSet(DOMAIN bufs)
    BY <1>2, <1>3, <1>4 DEF HistInv, ExInv
  <1>6. Emitted' = Emitted /\ ~Flushing /\ pc' \in {"recv", "out"}
    BY <1>1, <1>2 DEF Emitted, Flushing, HandleConnect, HandleData, HandleClose, NextIteration
  <1>7. ~Flushing' /\ Flushing' = Flushing
    BY <1>6 DEF Flushing
  <1>8. IsFiniteSet(DOMAIN bufs')
    <2>1. CASE HandleData
      <3>1. DOMAIN bufs' = DOMAIN bufs \cup {KeyOf(cur[1])}
        BY <2>1 DEF HandleData, Put
      <3> QED
        BY <1>5, <3>1, FS_AddElement
    <2>2. CASE HandleConnect \/ HandleClose
      <3>1. DOMAIN bufs' \in SUBSET DOMAIN bufs
        BY <2>2 DEF HandleConnect, HandleClose, Delete
      <3> QED
        BY <1>5, <3>1, FS_Subset
    <2> QED
      BY <2>1, <2>2
  <1>9. CloseExchanges(Applied') = CloseExchanges(h)
    <2>1. CASE pc' = "out"
      BY <1>2, <1>3, <2>1 DEF Applied
    <2>2. CASE pc' # "out"
      <3>1. Applied' = Append(h, ev)
        BY <1>5, <2>2 DEF Applied
      <3>2. ~Due(h, ev)
        <4>1. CASE HandleConnect \/ HandleData
          <5>1. ev.op # "close"
            BY <1>4, <4>1 DEF HandleConnect, HandleData, ReadOps, WriteOps
          <5> QED
            BY <5>1 DEF Due
        <4>2. CASE HandleClose
          <5>1. /\ ev.op = "close"
                /\ ~(KeyOf(ev) \in DOMAIN bufs /\ Decoded(Decode(ev.pid, ev.fd, bufs[KeyOf(ev)])))
            BY <1>4, <2>2, <4>2 DEF HandleClose
          <5>2. /\ KeyOf(ev) \in DOMAIN bufs <=> Lifetime(h, Endpoint(ev)) # {}
                /\ KeyOf(ev) \in DOMAIN bufs => bufs[KeyOf(ev)] = BufsOf(h, Endpoint(ev))
            BY <1>5, <5>1, DueIsInTable
          <5> QED
            BY <5>1, <5>2 DEF Due, ExchangeOfClose
        <4> QED
          BY <4>1, <4>2
      <3> QED
        BY <1>5, <3>1, <3>2, CloseExchangesStep
    <2> QED
      BY <2>1, <2>2
  <1> QED
    BY <1>5, <1>6, <1>7, <1>8, <1>9, ExSame

\* The close that found its connection's bytes decodable emits its exchange.
LEMMA ExSend ==
    ASSUME TypeOK, HistInv, ExInv, SendExchange, UNCHANGED <<rawTaken, outTaken>>
    PROVE  ExInv'
  <1>1. /\ pc = "out" /\ pc' = "recv" /\ raw' = raw /\ bufs' = Delete(KeyOf(cur[1]))
        /\ out' = Send(out, Decode(cur[1].pid, cur[1].fd, bufs[KeyOf(cur[1])]))
    BY DEF SendExchange, NextIteration
  <1>2. PICK ev : ev = cur[1]
    OBVIOUS
  <1>3. PICK p : p = Passed
    OBVIOUS
  <1>4. PICK h : h = Front(p)
    OBVIOUS
  <1>5. PICK x : x = Decode(ev.pid, ev.fd, bufs[KeyOf(ev)])
    OBVIOUS
  <1>6. /\ p \in Seq(Inputs) /\ p # <<>> /\ p[Len(p)] = ev /\ ev.op = "close"
        /\ KeyOf(ev) \in DOMAIN bufs /\ Matches(bufs, h) /\ Applied = h
    BY <1>1, <1>2, <1>3, <1>4, PassedType DEF HistInv, AtOut, Applied
  <1>7. h \in Seq(Inputs) /\ ev \in Inputs /\ p = Append(h, ev)
    BY <1>4, <1>6, FrontLast
  <1>8. /\ Lifetime(h, Endpoint(ev)) # {} /\ bufs[KeyOf(ev)] = BufsOf(h, Endpoint(ev))
    BY <1>6, <1>7, DueIsInTable
  <1>9. Decoded(x)
    BY <1>1, <1>2, <1>5 DEF TypeOK
  <1>10. Due(h, ev) /\ x = ExchangeOfClose(h, ev)
    BY <1>5, <1>6, <1>8, <1>9 DEF Due, ExchangeOfClose
  <1>11. Applied' = Append(h, ev)
    BY <1>1, <1>3, <1>7 DEF Applied, Passed
  <1>12. CloseExchanges(Applied') = Append(CloseExchanges(h), x)
    BY <1>7, <1>10, <1>11, CloseExchangesStep
  <1>13. Emitted' = Append(Emitted, x)
    BY <1>1, <1>2, <1>5, SendEmitted
  <1>14. ~Flushing /\ ~Flushing'
    BY <1>1 DEF Flushing
  <1>15. Emitted = CloseExchanges(h)
    BY <1>6, <1>14 DEF ExInv
  <1>16. IsFiniteSet(DOMAIN bufs')
    <2>1. DOMAIN bufs' \in SUBSET DOMAIN bufs
      BY <1>1 DEF Delete
    <2> QED
      BY <2>1, FS_Subset DEF ExInv
  <1>17. outTaken' \in Seq(ToSet(outTaken'))
    BY DEF ExInv
  <1> QED
    BY <1>12, <1>13, <1>14, <1>15, <1>16, <1>17 DEF ExInv

\* One iteration of the flush.
LEMMA ExFlush ==
    ASSUME TypeOK, ExInv, NEW k \in todo, FlushOne(k), UNCHANGED <<rawTaken, outTaken>>
    PROVE  ExInv'
  <1>1. /\ pc = "flush" /\ pc' = "flush" /\ raw' = raw /\ bufs' = bufs /\ todo' = todo \ {k}
        /\ todo \subseteq DOMAIN bufs
    BY DEF FlushOne, TypeOK
  <1>2. Flushing /\ Flushing' /\ Applied' = Applied
    BY <1>1 DEF Flushing, Applied, Passed
  <1>3. PICK V : V = Visited
    OBVIOUS
  <1>4. PICK N : N = CloseExchanges(Applied)
    OBVIOUS
  <1>5. PICK E : E = Emitted
    OBVIOUS
  <1>6. k \notin V /\ IsFiniteSet(V)
    <2>1. V \in SUBSET DOMAIN bufs /\ k \notin V
      BY <1>1, <1>2, <1>3 DEF Visited
    <2> QED
      BY <2>1, FS_Subset DEF ExInv
  <1>7. Visited' = IF Decoded(FlushExchange(k)) THEN V \cup {k} ELSE V
    <2>1. Visited = {x \in DOMAIN bufs \ todo : Decoded(FlushExchange(x))}
      BY <1>2 DEF Visited
    <2>2. Visited' = {x \in DOMAIN bufs \ (todo \ {k}) : Decoded(FlushExchange(x))}
      BY <1>1, <1>2 DEF Visited, FlushExchange
    <2> QED
      BY <1>1, <1>3, <2>1, <2>2
  <1>8. Applied \in Seq(Inputs)
    <2>1. Applied = Passed
      BY <1>1 DEF Applied
    <2> QED
      BY <2>1, PassedType
  <1>9. N \in Seq(ToSet(N)) /\ E \in Seq(ToSet(E)) /\ Tally(E, N, V)
    BY <1>2, <1>3, <1>4, <1>5, <1>8, CloseExchangesType, EmittedType DEF ExInv
  <1>10. Len(N) \in Nat /\ DOMAIN N = 1 .. Len(N)
    BY <1>9
  <1>11. Tally(Emitted', N, Visited')
    <2>1. CASE Decoded(FlushExchange(k))
      <3>1. Emitted' = Append(E, FlushExchange(k))
        BY <1>5, <2>1, SendEmitted DEF FlushOne
      <3>2. Tally(Append(E, FlushExchange(k)), N, V \cup {k})
        BY <1>6, <1>9, <1>10, TallyOne
      <3> QED
        BY <1>7, <2>1, <3>1, <3>2
    <2>2. CASE ~Decoded(FlushExchange(k))
      <3>1. Emitted' = E
        BY <1>5, <2>2 DEF FlushOne, Emitted
      <3> QED
        BY <1>7, <1>9, <2>2, <3>1
    <2> QED
      BY <2>1, <2>2
  <1>12. Tally(Emitted, CloseExchanges(Applied), Visited)'
    <2>1. \A W, x : Yield(W, x)' = Yield(W, x)
      BY <1>1 DEF Yield, FlushExchange
    <2>2. CloseExchanges(Applied)' = N
      BY <1>2, <1>4
    <2> QED
      BY <1>11, <2>1, <2>2 DEF Tally, SentAt
  <1>13. IsFiniteSet(DOMAIN bufs') /\ outTaken' \in Seq(ToSet(outTaken'))
    BY <1>1 DEF ExInv
  <1> QED
    BY <1>2, <1>12, <1>13 DEF ExInv

\* The input has ended: every connection is still to be visited.
LEMMA ExEnd ==
    ASSUME TypeOK, ExInv, EndOfEvents, UNCHANGED <<rawTaken, outTaken>>
    PROVE  ExInv'
  <1>1. /\ pc = "recv" /\ pc' = "flush" /\ UNCHANGED <<raw, out, bufs>> /\ todo' = DOMAIN bufs
    BY DEF EndOfEvents
  <1>2. ~Flushing /\ Flushing' /\ Applied' = Applied /\ Emitted' = Emitted
    BY <1>1 DEF Flushing, Applied, Passed, Emitted
  <1>3. PICK E : E = Emitted
    OBVIOUS
  <1>4. E = CloseExchanges(Applied)
    BY <1>2, <1>3 DEF ExInv
  <1>5. Visited' = {}
    BY <1>1, <1>2 DEF Visited
  <1>6. Tally(E, E, {})
    BY <1>3, EmittedType, NothingFlushed
  <1>7. Tally(Emitted, CloseExchanges(Applied), Visited)'
    <2>1. \A W, x : Yield(W, x)' = Yield(W, x)
      BY <1>1 DEF Yield, FlushExchange
    <2>2. CloseExchanges(Applied)' = E /\ Emitted' = E
      BY <1>2, <1>3, <1>4
    <2> QED
      BY <1>5, <1>6, <2>1, <2>2 DEF Tally, SentAt
  <1>8. IsFiniteSet(DOMAIN bufs') /\ outTaken' \in Seq(ToSet(outTaken'))
    BY <1>1 DEF ExInv
  <1> QED
    BY <1>2, <1>7, <1>8 DEF ExInv

LEMMA ExStep == Safe /\ HistInv /\ ExInv /\ [Next]_vars => ExInv'
  <1> SUFFICES ASSUME TypeOK, HistInv, ExInv, [Next]_vars PROVE ExInv'
    BY DEF Safe
  <1>1. IsFiniteSet(DOMAIN bufs)
    BY DEF ExInv
  <1>2. CASE Goroutine /\ UNCHANGED <<sent, rawTaken, outTaken>>
    <2>1. CASE HandleConnect \/ HandleData \/ HandleClose
      BY <1>2, <2>1, ExPassRaw
    <2>2. CASE SendExchange \/ EndOfEvents \/ \E k \in todo : FlushOne(k)
      BY <1>2, <2>2, ExSend, ExEnd, ExFlush
    <2>3. CASE Recv \/ CloseOut \/ CloseRaw
      <3>1. /\ pc # "out" /\ pc' # "out" /\ UNCHANGED <<bufs, todo>>
            /\ raw'.buf = raw.buf /\ out'.buf = out.buf
        BY <2>3 DEF Recv, CloseOut, CloseRaw, CloseChan
      <3>2. Flushing' = Flushing
        BY <2>3 DEF Recv, CloseOut, CloseRaw, Flushing
      <3>3. Applied' = Applied /\ Emitted' = Emitted
        BY <1>2, <3>1 DEF Applied, Passed, Emitted
      <3> QED
        BY <1>1, <1>2, <3>1, <3>2, <3>3, ExSame
    <2> QED
      BY <1>2, <2>1, <2>2, <2>3 DEF Goroutine
  <1>3. CASE TakeRaw
    <2>1. UNCHANGED <<out, pc, cur, bufs, todo, outTaken>> /\ Passed' = Passed
      BY <1>3, TakeRawPassed DEF TakeRaw, localVars
    <2>2. Applied' = Applied /\ Emitted' = Emitted /\ Flushing' = Flushing
      BY <2>1 DEF Applied, Emitted, Flushing
    <2> QED
      BY <1>1, <2>1, <2>2, ExSame
  <1>4. CASE TakeOut
    <2>1. UNCHANGED <<raw, pc, cur, bufs, todo, rawTaken>>
      BY <1>4 DEF TakeOut, localVars
    <2>2. Emitted' = Emitted /\ outTaken' \in Seq(ToSet(outTaken'))
      BY <1>4, TakeEmitted
    <2>3. Applied' = Applied /\ Flushing' = Flushing /\ Visited' = Visited
      BY <2>1 DEF Applied, Passed, Flushing, Visited, FlushExchange
    <2>4. \A W, x : Yield(W, x)' = Yield(W, x)
      BY <2>1 DEF Yield, FlushExchange
    <2>5. Flushing => Tally(Emitted, CloseExchanges(Applied), Visited)'
      BY <2>2, <2>3, <2>4 DEF ExInv, Tally, SentAt
    <2> QED
      BY <2>1, <2>2, <2>3, <2>5 DEF ExInv
  <1>5. CASE \/ \E ev \in Inputs : Arrive(ev)
             \/ EventsEnd \/ Terminated \/ UNCHANGED vars
    <2>1. UNCHANGED <<raw, rawTaken, out, outTaken, pc, cur, bufs, todo>>
      BY <1>5 DEF Arrive, EventsEnd, Terminated, localVars, vars
    <2>2. Applied' = Applied /\ Emitted' = Emitted /\ Flushing' = Flushing
      BY <2>1 DEF Applied, Passed, Emitted, Flushing
    <2> QED
      BY <1>1, <2>1, <2>2, ExSame
  <1> QED
    BY <1>2, <1>3, <1>4, <1>5 DEF Next

LEMMA ExInit == Init => ExInv
  <1> SUFFICES ASSUME Init PROVE ExInv
    OBVIOUS
  <1>1. /\ pc = "recv" /\ Passed = <<>> /\ DOMAIN bufs = {} /\ Emitted = <<>> /\ outTaken = <<>>
    BY DEF Init, Passed, Emitted, MakeChan
  <1>2. Applied = <<>> /\ ~Flushing
    BY <1>1 DEF Applied, Flushing
  <1>3. CloseExchanges(<<>>) = <<>>
    <2>1. DueParts(<<>>) = <<>>
      BY DEF DueParts
    <2>2. CloseExchanges(<<>>) = FlattenSeq(DueParts(<<>>))
      BY DEF CloseExchanges, DueParts
    <2> QED
      BY <2>1, <2>2, FlattenEmpty
  <1>4. <<>> \in Seq(ToSet(<<>>))
    OBVIOUS
  <1> QED
    BY <1>1, <1>2, <1>3, <1>4, FS_EmptySet DEF ExInv

\* The inductive invariant of all of the streamer's safety properties.
IInv == Safe /\ HistInv /\ ExInv

LEMMA InitIInv == Init => IInv
  BY InitOK, HistInit, ExInit DEF IInv, Safe

LEMMA StepIInv == IInv /\ [Next]_vars => IInv'
  BY SafeStep, HistStep, ExStep DEF IInv

LEMMA IInvMeans == IInv => TypeOK /\ RawIsPassThrough /\ BufsMatchHistory /\ ExchangesMatchHistory
  <1> SUFFICES ASSUME TypeOK, RawIsPassThrough, HistInv, ExInv
               PROVE  BufsMatchHistory /\ ExchangesMatchHistory
    BY DEF IInv, Safe
  <1>1. BufsMatchHistory
    BY MatchesIsMatch DEF HistInv
  <1>2. Tally(Emitted, CloseExchanges(Applied), Visited)
    <2>1. CASE Flushing
      BY <2>1 DEF ExInv
    <2>2. CASE ~Flushing
      <3>1. PICK E : E = Emitted
        OBVIOUS
      <3>2. Tally(E, E, {})
        BY <3>1, EmittedType, NothingFlushed
      <3>3. Visited = {} /\ E = CloseExchanges(Applied)
        BY <2>2, <3>1 DEF ExInv, Visited
      <3> QED
        BY <3>1, <3>2, <3>3
    <2> QED
      BY <2>1, <2>2
  <1> QED
    BY <1>1, <1>2 DEF ExchangesMatchHistory, Tally, SentAt, Yield, Visited, Flushing

\* For any events in any order, any decoders and all capacities: what is
\* emitted is one exchange for each close of a connection whose bytes decode,
\* in the order of the closes, and then one for each connection left open.
THEOREM StreamerExchangesMatchHistory == Spec => []ExchangesMatchHistory
  BY InitIInv, StepIInv, IInvMeans, PTL DEF Spec
=============================================================================
