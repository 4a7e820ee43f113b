---------------------------- MODULE RecordProofs -----------------------------
(* `wiremark record': the collector and the streamer composed.  Every step *)
(* of the session is a step of the collector, or leaves it alone, and the  *)
(* same for the streamer: each is a part of the other's environment, and   *)
(* recordCmd is the rest.  So what is proved of the two holds in the       *)
(* session, and with the order in which the end of the trace passes        *)
(* through them it gives the completeness of a recording.                  *)
EXTENDS RecordSession, ChannelTheorems

\* The theorems of the two components, for those of the session.
CP == INSTANCE CollectorProofs WITH delivered <- Received
SP == INSTANCE StreamerProofs WITH
        sent <- Received \o events.buf, rawTaken <- <<>>, outTaken <- collected,
        MaxEvents <- MaxSubmits

LEMMA CollectorConstants == CP!CollectorAssumption /\ CP!CapAssumption
  BY SessionAssumption, CapAssumption DEF CP!CollectorAssumption, CP!CapAssumption, TLS, CP!Ops, Ops

LEMMA StreamerConstants == SP!StreamerAssumption /\ SP!CapAssumption
  BY SessionAssumption, CapAssumption DEF SP!StreamerAssumption, SP!CapAssumption, SP!Ops, Ops

\* Without --tls there is one ring.
LEMMA OneRing == C!Sources = {"syscall"} /\ CP!Sources = {"syscall"}
  BY DEF C!Sources, CP!Sources, TLS

-----------------------------------------------------------------------------
(* The collector and the streamer of the session are the ones their        *)
(* theorems are about.                                                     *)

\* What the collector does in a session, all of it but the delivery of events.
CollectorNext ==
    \/ C!SetupStep \/ C!SetupFail \/ C!Run
    \/ \E rec \in Inputs \cup Garbled : C!Submit(rec)
    \/ C!Reader("syscall") \/ C!ReadError("syscall")
    \/ C!Waiter \/ C!CallClose \/ C!Closing \/ C!TakeErr

LEMMA SameSetup == C!SetupSteps = CP!SetupSteps
  BY DEF C!SetupSteps, CP!SetupSteps, C!SyscallSteps, CP!SyscallSteps, C!TLSSteps, CP!TLSSteps

LEMMA SameReader ==
    /\ C!ReadRecord("syscall") => CP!ReadRecord("syscall")
    /\ C!ReadClosed("syscall") => CP!ReadClosed("syscall")
    /\ C!ReadError("syscall") => CP!ReadError("syscall")
    /\ C!SendEvent("syscall") => CP!SendEvent("syscall")
    /\ C!SendErr("syscall") => CP!SendErr("syscall")
  <1> USE DEF C!setupVars, CP!setupVars, C!HasRoom, CP!HasRoom, C!Send, CP!Send
  <1>1. C!ReadRecord("syscall") => CP!ReadRecord("syscall")
    BY DEF C!ReadRecord, CP!ReadRecord
  <1>2. C!ReadClosed("syscall") => CP!ReadClosed("syscall")
    BY DEF C!ReadClosed, CP!ReadClosed
  <1>3. C!ReadError("syscall") => CP!ReadError("syscall")
    BY DEF C!ReadError, CP!ReadError
  <1>4. C!SendEvent("syscall") => CP!SendEvent("syscall")
    BY DEF C!SendEvent, CP!SendEvent
  <1>5. C!SendErr("syscall") => CP!SendErr("syscall")
    BY DEF C!SendErr, CP!SendErr
  <1> QED
    BY <1>1, <1>2, <1>3, <1>4, <1>5

LEMMA SameWaiter ==
    /\ C!CloseEvents => CP!CloseEvents
    /\ C!CloseErrs => CP!CloseErrs
    /\ C!TakeErr => CP!TakeErr
  BY OneRing DEF C!setupVars, CP!setupVars, C!readerVars, CP!readerVars, C!CloseChan, CP!CloseChan,
     C!HasValue, CP!HasValue, C!Receive, CP!Receive,
     C!CloseEvents, CP!CloseEvents, C!CloseErrs, CP!CloseErrs, C!TakeErr, CP!TakeErr

LEMMA CollectorRuns == CollectorNext => CP!Next
  <1> USE DEF C!setupVars, CP!setupVars, C!readerVars, CP!readerVars
  <1>1. C!SetupStep => CP!SetupStep
    BY SameSetup DEF C!SetupStep, CP!SetupStep
  <1>2. C!SetupFail => CP!SetupFail
    BY SameSetup DEF C!SetupFail, CP!SetupFail, C!Clock, CP!Clock
  <1>3. C!Run => CP!Run
    BY SameSetup, OneRing DEF C!Run, CP!Run
  <1>4. ASSUME NEW rec \in Inputs \cup Garbled, C!Submit(rec) PROVE CP!Submit(rec)
    <2>1. C!SourceOf(rec) = CP!SourceOf(rec)
      BY DEF C!SourceOf, CP!SourceOf
    <2>2. C!ProbeOf(rec.op) = CP!ProbeOf(rec.op)
      BY DEF C!ProbeOf, CP!ProbeOf
    <2>3. C!ToSet(links) = CP!ToSet(links) /\ C!Submitted = CP!Submitted
      BY DEF C!ToSet, CP!ToSet, C!Submitted, CP!Submitted
    <2> QED
      BY <1>4, <2>1, <2>2, <2>3, OneRing DEF C!Submit, CP!Submit
  <1>5. C!CallClose => CP!CallClose
    BY SameSetup DEF C!CallClose, CP!CallClose
  <1>6. C!Closing => CP!Closing
    <2>1. C!CloseRd => CP!CloseRd
      BY OneRing DEF C!CloseRd, CP!CloseRd, C!CloseReader, CP!CloseReader
    <2>2. C!CloseTLSRd => CP!CloseTLSRd
      BY OneRing DEF C!CloseTLSRd, CP!CloseTLSRd, C!CloseReader, CP!CloseReader
    <2>3. C!CloseLink => CP!CloseLink
      BY DEF C!CloseLink, CP!CloseLink
    <2>4. C!CloseObjs => CP!CloseObjs
      BY DEF C!CloseObjs, CP!CloseObjs
    <2> QED
      BY <2>1, <2>2, <2>3, <2>4 DEF C!Closing, CP!Closing
  <1>7. C!Waiter => CP!Waiter
    BY SameWaiter DEF C!Waiter, CP!Waiter
  <1>8. C!Reader("syscall") \/ C!ReadError("syscall") => \E s \in CP!Sources : CP!Reader(s) \/ CP!ReadError(s)
    BY SameReader, OneRing DEF C!Reader, CP!Reader
  <1>9. C!TakeErr => CP!TakeErr
    BY SameWaiter
  <1> QED
    BY <1>1, <1>2, <1>3, <1>4, <1>5, <1>6, <1>7, <1>8, <1>9 DEF CollectorNext, CP!Next

LEMMA SameGoroutine == S!Goroutine => SP!Goroutine
  <1> USE DEF S!HasValue, SP!HasValue, S!HasRoom, SP!HasRoom, S!Receive, SP!Receive, S!Send, SP!Send,
              S!NextIteration, SP!NextIteration, S!PassRaw, SP!PassRaw, S!Drained, SP!Drained
  <1>0. SUFFICES ASSUME S!Goroutine PROVE SP!Goroutine
    OBVIOUS
  <1>1. CASE S!Recv
    BY <1>1 DEF S!Recv, SP!Recv, SP!Goroutine
  <1>2. CASE S!HandleConnect
    BY <1>2 DEF S!HandleConnect, SP!HandleConnect, SP!Goroutine
  <1>k. \A ev : S!KeyOf(ev) = SP!KeyOf(ev)
    BY DEF S!KeyOf, SP!KeyOf, S!WidenFd, SP!WidenFd
  <1>d. \A p, f, b : S!Decode(p, f, b) = SP!Decode(p, f, b)
    BY DEF S!Decode, SP!Decode
  <1>e. \A k : S!Delete(k) = SP!Delete(k) /\ S!FlushExchange(k) = SP!FlushExchange(k)
    BY <1>d DEF S!Delete, SP!Delete, S!FlushExchange, SP!FlushExchange, S!NarrowFd, SP!NarrowFd
  <1>f. \A ex : S!Decoded(ex) <=> SP!Decoded(ex)
    BY DEF S!Decoded, SP!Decoded
  <1>b. \A b, ev : S!Buffered(b, ev) = SP!Buffered(b, ev)
    BY DEF S!Buffered, SP!Buffered, S!AppendCapped, SP!AppendCapped, S!Payload, SP!Payload,
           S!Truncated, SP!Truncated, S!ReadOps, SP!ReadOps, S!WriteOps, SP!WriteOps
  <1>3. CASE S!HandleData
    BY <1>3, <1>k, <1>b DEF S!HandleData, SP!HandleData, S!Put, SP!Put, S!Get, SP!Get, S!NewBufs, SP!NewBufs,
       S!ReadOps, SP!ReadOps, S!WriteOps, SP!WriteOps, SP!Goroutine
  <1>4. CASE S!HandleClose
    BY <1>4, <1>k, <1>d, <1>e, <1>f DEF S!HandleClose, SP!HandleClose, SP!Goroutine
  <1>5. CASE S!SendExchange
    BY <1>5, <1>k, <1>d, <1>e DEF S!SendExchange, SP!SendExchange, SP!Goroutine
  <1>6. CASE S!EndOfEvents \/ S!CloseOut \/ S!CloseRaw
    BY <1>6 DEF S!EndOfEvents, SP!EndOfEvents, S!CloseOut, SP!CloseOut, S!CloseRaw, SP!CloseRaw,
       S!CloseChan, SP!CloseChan, SP!Goroutine
  <1>7. ASSUME NEW k \in todo, S!FlushOne(k) PROVE SP!Goroutine
    BY <1>7, <1>e, <1>f DEF S!FlushOne, SP!FlushOne, SP!Goroutine
  <1> QED
    BY <1>0, <1>1, <1>2, <1>3, <1>4, <1>5, <1>6, <1>7 DEF S!Goroutine

-----------------------------------------------------------------------------
(* Who takes a step.                                                       *)

\* A step of the session is the collector's, the streamer's, the receive of
\* an exchange, or one of recordCmd that concerns neither of them.
LEMMA StepCases ==
    ASSUME [Next]_vars
    PROVE  \/ CollectorNext /\ UNCHANGED streamerVars /\ UNCHANGED <<collected, file>>
           \/ StreamerStep
           \/ Collect
           \/ UNCHANGED <<collectorVars, events, streamerVars, collected>>
  <1> USE DEF sessionVars
  <1>1. CASE New \/ NewFails \/ Start \/ DeferredClose
    BY <1>1 DEF New, NewFails, Start, DeferredClose, CollectorNext
  <1>2. CASE Collect
    BY <1>2
  <1>3. CASE CollectEnds \/ BuildAndWrite \/ Return \/ CtrlC \/ SignalDone \/ Returned \/ UNCHANGED vars
    BY <1>3 DEF CollectEnds, BuildAndWrite, Return, CtrlC, SignalDone, Returned, vars
  <1>4. CASE OnSignal
    BY <1>4 DEF OnSignal, CollectorNext
  <1>5. CASE CollectorStep \/ ReaderStep \/ WaiterStep \/ CloserStep \/ ErrsStep
    BY <1>5 DEF CollectorStep, ReaderStep, WaiterStep, CloserStep, ErrsStep, CollectorNext
  <1>6. CASE StreamerStep
    BY <1>6
  <1> QED
    BY <1>1, <1>2, <1>3, <1>4, <1>5, <1>6 DEF Next, Main

-----------------------------------------------------------------------------
(* The session runs the collector.                                         *)

\* The streamer takes an event out of the channel, and passes it on.
LEMMA StreamerReceives ==
    ASSUME CP!TypeOK, SP!TypeOK, SP!Goroutine
    PROVE  \/ /\ SP!Recv /\ HasValue(events) /\ events' = Receive(events)
              /\ Received' = Append(Received, Head(events.buf))
           \/ events' = events /\ Received' = Received
  <1>1. CASE SP!Recv
    <2>1. /\ pc = "recv" /\ pc' = "raw" /\ cur' = <<Head(events.buf)>> /\ raw' = raw
          /\ HasValue(events) /\ events' = Receive(events)
      BY <1>1 DEF SP!Recv, SP!HasValue, HasValue, SP!Receive, Receive
    <2>2. raw.buf \in Seq(Inputs)
      BY DEF SP!TypeOK, SP!ChanOf
    <2>3. Received = raw.buf /\ Received' = raw.buf \o <<Head(events.buf)>>
      BY <2>1, <2>2 DEF Received, Passed
    <2>4. Head(events.buf) \in Inputs
      BY <2>1, ReceiveChan DEF CP!TypeOK, CP!ChanOf, ChanOf
    <2>5. PICK x : x = Head(events.buf)
      OBVIOUS
    <2>6. PICK s : s = raw.buf
      OBVIOUS
    <2>7. s \o <<x>> = Append(s, x)
      BY <2>2, <2>4, <2>5, <2>6, AppendIsConcat
    <2> QED
      BY <1>1, <2>1, <2>3, <2>5, <2>6, <2>7
  <1>2. CASE SP!PassRaw /\ pc' # "raw"
    <2>1. /\ pc = "raw" /\ raw' = SP!Send(raw, cur[1]) /\ events' = events
          /\ raw.buf \in Seq(Inputs) /\ cur \in Seq(Inputs) /\ Len(cur) = 1
      BY <1>2 DEF SP!PassRaw, SP!TypeOK, SP!ChanOf
    <2>2. raw'.buf = Append(raw.buf, cur[1])
      BY <2>1 DEF SP!Send
    <2>3. PICK c : c = cur
      OBVIOUS
    <2>4. c = <<c[1]>> /\ c[1] \in Inputs
      BY <2>1, <2>3, SingletonSeq
    <2>5. PICK s : s = raw.buf
      OBVIOUS
    <2>6. Append(s, c[1]) = s \o <<c[1]>> /\ Append(s, c[1]) \in Seq(Inputs)
      BY <2>1, <2>4, <2>5, AppendIsConcat
    <2>7. s \o <<c[1]>> = s \o c
      BY <2>4
    <2>8. Received = s \o c
      BY <2>1, <2>3, <2>5 DEF Received, Passed
    <2>9. Received' = Append(s, c[1]) \o <<>>
      BY <1>2, <2>2, <2>3, <2>5 DEF Received, Passed
    <2>10. Append(s, c[1]) \o <<>> = Append(s, c[1])
      BY <2>6, ConcatEmptySeq
    <2> QED
      BY <2>1, <2>6, <2>7, <2>8, <2>9, <2>10
  <1>3. CASE pc # "raw" /\ pc' # "raw" /\ events' = events /\ raw'.buf = raw.buf
    BY <1>3 DEF Received, Passed
  <1>4. CASE SP!HandleConnect \/ SP!HandleData \/ SP!HandleClose
    BY <1>2, <1>4 DEF SP!HandleConnect, SP!HandleData, SP!HandleClose, SP!NextIteration
  <1>5. CASE SP!SendExchange \/ SP!EndOfEvents \/ SP!CloseOut \/ SP!CloseRaw
    BY <1>3, <1>5 DEF SP!SendExchange, SP!EndOfEvents, SP!CloseOut, SP!CloseRaw, SP!CloseChan,
       SP!NextIteration
  <1>6. ASSUME NEW k \in todo, SP!FlushOne(k) PROVE events' = events /\ Received' = Received
    BY <1>3, <1>6 DEF SP!FlushOne, Received, Passed
  <1> QED
    BY <1>1, <1>4, <1>5, <1>6 DEF SP!Goroutine

LEMMA IsCollectorStep ==
    CP!TypeOK /\ SP!TypeOK /\ [Next]_vars => [CP!Next]_(CP!vars)
  <1> SUFFICES ASSUME CP!TypeOK, SP!TypeOK, [Next]_vars PROVE [CP!Next]_(CP!vars)
    OBVIOUS
  <1>1. CASE CollectorNext
    BY <1>1, CollectorRuns
  <1>2. CASE StreamerStep
    <2>1. SP!Goroutine /\ UNCHANGED collectorVars
      BY <1>2, SameGoroutine DEF StreamerStep
    <2>2. CASE /\ HasValue(events) /\ events' = Receive(events)
               /\ Received' = Append(Received, Head(events.buf))
      <3>1. CP!TakeEvent
        BY <2>1, <2>2 DEF CP!TakeEvent, CP!HasValue, HasValue, CP!Receive, Receive, CP!setupVars,
           CP!readerVars, collectorVars
      <3> QED
        BY <3>1 DEF CP!Next
    <2>3. CASE events' = events /\ Received' = Received
      BY <2>1, <2>3 DEF CP!vars, collectorVars
    <2> QED
      BY <2>1, <2>2, <2>3, StreamerReceives
  <1>3. CASE Collect \/ UNCHANGED <<collectorVars, events, streamerVars, collected>>
    <2>1. UNCHANGED <<collectorVars, events, raw, pc, cur>>
      BY <1>3 DEF Collect, streamerVars
    <2> QED
      BY <2>1 DEF CP!vars, collectorVars, Received, Passed
  <1> QED
    BY <1>1, <1>2, <1>3, StepCases

-----------------------------------------------------------------------------
(* The session runs the streamer.                                          *)

\* What was received and what waits in the channel came from the one ring.
OwnInv ==
    /\ Received \in Seq(CP!From("syscall")) /\ events.buf \in Seq(CP!From("syscall"))
    /\ Len(accepted["syscall"]) <= MaxSubmits

LEMMA SameOnly == \A s, A : CP!Only(s, A) = Only(s, A)
  BY DEF CP!Only, Only

\* Selecting makes no sequence longer.
LEMMA OnlyShorter ==
    ASSUME NEW T, NEW A
    PROVE  \A s \in Seq(T) : Len(Only(s, A)) <= Len(s)
  <1> DEFINE G == {s \in Seq(T) : Len(Only(s, A)) <= Len(s)}
  <1>1. <<>> \in G
    BY OnlyEmpty
  <1>2. ASSUME NEW s \in Seq(T), NEW x \in T, s \in G PROVE Append(s, x) \in G
    <2>1. PICK k : k = Only(s, A)
      OBVIOUS
    <2>2. k \in Seq(A) /\ Only(Append(s, x), A) = IF x \in A THEN Append(k, x) ELSE k
      BY <2>1, OnlyType, OnlyAppend
    <2>3. Append(s, x) \in Seq(T) /\ Len(Append(s, x)) = Len(s) + 1 /\ Len(s) \in Nat
      OBVIOUS
    <2>4. Len(k) <= Len(s) /\ Len(k) \in Nat /\ (x \in A => Len(Append(k, x)) = Len(k) + 1)
      BY <1>2, <2>1, <2>2
    <2>5. Len(Only(Append(s, x), A)) <= Len(s) + 1
      BY <2>2, <2>3, <2>4
    <2> QED
      BY <2>3, <2>5
  <1> HIDE DEF G
  <1>3. Seq(T) \subseteq G
    BY <1>1, <1>2, AppendInduction
  <1> QED
    BY <1>3 DEF G

\* In a session the order of one ring is that of all events.
LEMMA AllInOrder ==
    ASSUME CP!IInv, OwnInv
    PROVE  Only(accepted["syscall"], Inputs)
              = ((Received \o events.buf) \o held["syscall"]) \o Only(ring["syscall"], Inputs)
  <1> DEFINE F == CP!From("syscall")
  <1>1. "syscall" \in CP!Sources
    BY OneRing
  <1>2. CP!PerRingFIFO
    BY DEF CP!IInv
  <1>3. F = {rec \in Inputs : CP!SourceOf(rec) = "syscall"}
    BY DEF CP!From
  <1>4. Only(accepted["syscall"], Inputs)
           = ((Only(Received, F) \o Only(events.buf, F)) \o held["syscall"]) \o Only(ring["syscall"], Inputs)
    BY <1>1, <1>2, <1>3, SameOnly DEF CP!PerRingFIFO
  <1>5. Only(Received, F) = Received /\ Only(events.buf, F) = events.buf
    BY OnlyAll DEF OwnInv
  <1> QED
    BY <1>4, <1>5

\* While a reader holds an event, fewer than the bound have been sent.
LEMMA RoomBelowBound ==
    ASSUME CP!IInv, OwnInv, loop["syscall"] = "sendEvent"
    PROVE  Len(Received \o events.buf) < MaxSubmits
  <1> DEFINE a == Received \o events.buf
             h == held["syscall"]
             r == Only(ring["syscall"], Inputs)
             c == accepted["syscall"]
             U == Inputs \cup Garbled
  <1>1. "syscall" \in CP!Sources /\ CP!TypeOK
    BY OneRing DEF CP!IInv
  <1>2. c \in Seq(U) /\ ring["syscall"] \in Seq(U) /\ h \in Seq(Inputs) /\ Len(h) = 1
    BY <1>1 DEF CP!TypeOK
  <1>3. Received \in Seq(Inputs) /\ events.buf \in Seq(Inputs)
    BY <1>1 DEF CP!TypeOK, CP!ChanOf
  <1>4. a \in Seq(Inputs)
    BY <1>3
  <1>5. r \in Seq(Inputs)
    BY <1>2, OnlyType
  <1>6. Only(c, Inputs) = (a \o h) \o r
    BY AllInOrder
  <1>7. Len(Only(c, Inputs)) <= Len(c) /\ Len(c) <= MaxSubmits /\ Len(c) \in Nat
    BY <1>2, OnlyShorter DEF OwnInv
  <1> HIDE DEF a, h, r, c, U
  <1>8. (a \o h) \in Seq(Inputs) /\ Len(a \o h) = Len(a) + 1
    <2>1. h \in Seq(Inputs) /\ Len(h) = 1
      BY <1>2
    <2>2. (a \o h) \in Seq(Inputs) /\ Len(a \o h) = Len(a) + Len(h)
      BY <1>4, <2>1, ConcatProperties
    <2> QED
      BY <2>1, <2>2
  <1>9. Len((a \o h) \o r) = Len(a) + 1 + Len(r) /\ Len(a) \in Nat /\ Len(r) \in Nat
    BY <1>4, <1>5, <1>8
  <1>10. Len(a) < MaxSubmits
    BY <1>6, <1>7, <1>9, SessionAssumption
  <1> QED
    BY <1>10 DEF a

LEMMA IsStreamerStep ==
    CP!IInv /\ SP!TypeOK /\ OwnInv /\ [Next]_vars => [SP!Next]_(SP!vars)
  <1> SUFFICES ASSUME CP!IInv, SP!TypeOK, OwnInv, [Next]_vars PROVE [SP!Next]_(SP!vars)
    OBVIOUS
  <1>0. CP!TypeOK /\ CP!ReadersBeforeClose /\ "syscall" \in CP!Sources
    BY OneRing DEF CP!IInv
  <1>t. /\ events \in ChanOf(Inputs) /\ events.buf \in Seq(Inputs) /\ Received \in Seq(Inputs)
    BY <1>0 DEF CP!TypeOK, CP!ChanOf, ChanOf
  <1>1. CASE CollectorNext /\ UNCHANGED streamerVars /\ UNCHANGED <<collected, file>>
    <2>0. UNCHANGED <<raw, out, pc, cur, bufs, todo, collected>> /\ Received' = Received
      BY <1>1 DEF streamerVars, Received, Passed
    <2>1. CASE CP!SendEvent("syscall")
      <3>1. PICK h : h = held["syscall"][1]
        OBVIOUS
      <3>2. /\ loop["syscall"] = "sendEvent" /\ HasRoom(events, EventsCap) /\ events' = Send(events, h)
        BY <2>1, <3>1 DEF CP!SendEvent, CP!HasRoom, HasRoom, CP!Send, Send
      <3>3. held["syscall"] \in Seq(Inputs) /\ Len(held["syscall"]) = 1
        BY <1>0, <3>2 DEF CP!TypeOK
      <3>4. h \in Inputs
        BY <3>1, <3>3
      <3>5. ~events.closed
        BY <1>0, <3>2 DEF CP!ReadersBeforeClose
      <3>6. Len(Received \o events.buf) < MaxSubmits
        BY <3>2, RoomBelowBound
      <3>7. events'.buf = Append(events.buf, h)
        BY <3>2 DEF Send
      <3>8. PICK a, b : a = Received /\ b = events.buf
        OBVIOUS
      <3>9. a \o Append(b, h) = Append(a \o b, h)
        BY <1>t, <3>4, <3>8, ConcatAppend
      <3>10. (Received \o events.buf)' = Append(Received \o events.buf, h)
        BY <2>0, <3>7, <3>8, <3>9
      <3>11. SP!Arrive(h)
        BY <2>0, <3>2, <3>5, <3>6, <3>10 DEF SP!Arrive, SP!HasRoom, HasRoom, SP!Send, Send, SP!localVars
      <3> QED
        BY <3>4, <3>11 DEF SP!Next
    <2>2. CASE CP!CloseEvents
      <3>1. /\ waiter = "wait" /\ events' = CloseChan(events)
        BY <2>2 DEF CP!CloseEvents, CP!CloseChan, CloseChan
      <3>2. ~events.closed
        BY <1>0, <3>1 DEF CP!ReadersBeforeClose
      <3>3. events'.buf = events.buf
        BY <3>1 DEF CloseChan
      <3>4. SP!EventsEnd
        BY <2>0, <3>1, <3>2, <3>3 DEF SP!EventsEnd, SP!CloseChan, CloseChan, SP!localVars
      <3> QED
        BY <3>4 DEF SP!Next
    <2>3. CASE ~C!SendEvent("syscall") /\ ~C!CloseEvents
      <3>1. events' = events
        BY <1>1, <2>3 DEF CollectorNext, C!SetupStep, C!SetupFail, C!Run, C!Submit, C!Reader, C!ReadRecord,
           C!ReadClosed, C!ReadError, C!SendErr, C!Waiter, C!CloseErrs, C!CallClose, C!Closing, C!CloseRd,
           C!CloseTLSRd, C!CloseReader, C!CloseLink, C!CloseObjs, C!TakeErr
      <3> QED
        BY <2>0, <3>1 DEF SP!vars
    <2> QED
      BY <2>1, <2>2, <2>3, SameReader, SameWaiter
  <1>2. CASE StreamerStep
    <2>1. SP!Goroutine /\ UNCHANGED collected
      BY <1>2, SameGoroutine DEF StreamerStep, sessionVars
    <2>2. (Received \o events.buf)' = Received \o events.buf
      <3>1. CASE /\ HasValue(events) /\ events' = Receive(events)
                 /\ Received' = Append(Received, Head(events.buf))
        <4>1. PICK x, a, b : x = Head(events.buf) /\ a = Received /\ b = Receive(events).buf
          OBVIOUS
        <4>2. x \in Inputs /\ b \in Seq(Inputs) /\ events.buf = <<x>> \o b
          BY <1>t, <3>1, <4>1, ReceiveChan DEF ChanOf
        <4>a. a \in Seq(Inputs)
          BY <1>t, <4>1
        <4>3. a \o (<<x>> \o b) = Append(a, x) \o b
          BY <4>a, <4>2, MoveAcross
        <4> QED
          BY <3>1, <4>1, <4>2, <4>3
      <3>2. CASE events' = events /\ Received' = Received
        BY <3>2
      <3> QED
        BY <1>0, <2>1, <3>1, <3>2, StreamerReceives
    <2> QED
      BY <2>1, <2>2 DEF SP!Next
  <1>3. CASE Collect
    <2>1. /\ UNCHANGED <<events, raw, pc, cur, bufs, todo>> /\ Received' = Received
          /\ HasValue(out) /\ collected' = Append(collected, Head(out.buf)) /\ out' = Receive(out)
      BY <1>3 DEF Collect, Received, Passed
    <2>2. SP!TakeOut
      BY <2>1 DEF SP!TakeOut, SP!HasValue, HasValue, SP!Receive, Receive, SP!localVars
    <2> QED
      BY <2>2 DEF SP!Next
  <1>4. CASE UNCHANGED <<collectorVars, events, streamerVars, collected>>
    BY <1>4 DEF SP!vars, streamerVars, Received, Passed
  <1> QED
    BY <1>1, <1>2, <1>3, <1>4, StepCases

\* The records of the one ring stay its records on their way.
LEMMA OwnStep ==
    ASSUME CP!IInv, OwnInv, [CP!Next]_(CP!vars)
    PROVE  OwnInv'
  <1> DEFINE F == CP!From("syscall")
  <1>0. CP!TypeOK /\ CP!OwnRecords /\ "syscall" \in CP!Sources
    BY OneRing DEF CP!IInv
  <1>t. Received \in Seq(F) /\ events.buf \in Seq(F) /\ Len(accepted["syscall"]) <= MaxSubmits
    BY DEF OwnInv
  <1> HIDE DEF F
  <1> SUFFICES Received' \in Seq(F) /\ events'.buf \in Seq(F) /\ Len(accepted'["syscall"]) <= MaxSubmits
    BY DEF OwnInv, F, CP!From, CP!SourceOf
  <1>1. ASSUME NEW rec \in Inputs \cup Garbled, CP!Submit(rec)
        PROVE  Received' \in Seq(F) /\ events'.buf \in Seq(F) /\ Len(accepted'["syscall"]) <= MaxSubmits
    <2>1. CP!SourceOf(rec) = "syscall"
      BY <1>1, OneRing DEF CP!Submit
    <2>2. /\ Len(accepted["syscall"]) < MaxSubmits /\ events' = events /\ Received' = Received
          /\ accepted' = [accepted EXCEPT !["syscall"] = Append(accepted["syscall"], rec)]
      BY <1>1, <2>1 DEF CP!Submit, CP!Submitted, TLS
    <2>3. accepted["syscall"] \in Seq(Inputs \cup Garbled)
          /\ accepted'["syscall"] = Append(accepted["syscall"], rec)
      BY <1>0, <2>2 DEF CP!TypeOK
    <2>4. Len(accepted'["syscall"]) = Len(accepted["syscall"]) + 1 /\ Len(accepted["syscall"]) \in Nat
      BY <2>3
    <2>5. Len(accepted'["syscall"]) <= MaxSubmits
      <3> DEFINE n == Len(accepted["syscall"])
      <3>1. n \in Nat /\ n < MaxSubmits /\ Len(accepted'["syscall"]) = n + 1
        BY <2>2, <2>4
      <3> HIDE DEF n
      <3> QED
        BY <3>1, SessionAssumption
    <2> QED
      BY <1>t, <2>2, <2>5
  <1>2. CASE CP!SendEvent("syscall")
    <2>1. PICK h : h = held["syscall"][1]
      OBVIOUS
    <2>2. /\ loop["syscall"] = "sendEvent" /\ events'.buf = Append(events.buf, h)
          /\ UNCHANGED accepted /\ Received' = Received
      BY <1>2, <2>1 DEF CP!SendEvent, CP!Send
    <2>3. held["syscall"] \in Seq(F) /\ Len(held["syscall"]) = 1
      BY <1>0, <2>2 DEF CP!OwnRecords, CP!TypeOK, F
    <2>4. h \in F
      BY <2>1, <2>3
    <2>5. Append(events.buf, h) \in Seq(F)
      BY <1>t, <2>4
    <2> QED
      BY <1>t, <2>2, <2>5
  <1>3. CASE CP!TakeEvent
    <2>1. /\ events.buf # <<>> /\ Received' = Append(Received, Head(events.buf))
          /\ events'.buf = Tail(events.buf) /\ UNCHANGED accepted
      BY <1>3 DEF CP!TakeEvent, CP!HasValue, CP!Receive
    <2>2. Head(events.buf) \in F /\ Tail(events.buf) \in Seq(F)
      BY <1>t, <2>1
    <2>3. Append(Received, Head(events.buf)) \in Seq(F)
      BY <1>t, <2>2
    <2> QED
      BY <1>t, <2>1, <2>2, <2>3
  <1>4. CASE events'.buf = events.buf /\ Received' = Received /\ UNCHANGED accepted
    BY <1>4, <1>t
  <1>5. CASE CP!Waiter
    BY <1>4, <1>5 DEF CP!Waiter, CP!CloseEvents, CP!CloseErrs, CP!CloseChan
  <1>6. CASE \/ CP!SetupStep \/ CP!SetupFail \/ CP!Run \/ CP!CallClose \/ CP!Closing
             \/ CP!TakeErr \/ CP!Terminated \/ UNCHANGED CP!vars
    BY <1>4, <1>6 DEF CP!SetupStep, CP!SetupFail, CP!Run, CP!CallClose, CP!Closing, CP!CloseRd,
       CP!CloseTLSRd, CP!CloseReader, CP!CloseLink, CP!CloseObjs, CP!TakeErr, CP!Terminated, CP!vars
  <1>7. CASE CP!ReadRecord("syscall") \/ CP!ReadClosed("syscall") \/ CP!SendErr("syscall")
             \/ CP!ReadError("syscall")
    BY <1>4, <1>7 DEF CP!ReadRecord, CP!ReadClosed, CP!SendErr, CP!ReadError
  <1> QED
    BY <1>1, <1>2, <1>3, <1>5, <1>6, <1>7, OneRing DEF CP!Next, CP!Reader

-----------------------------------------------------------------------------
(* The end of the trace.                                                   *)

\* out is closed by a streamer that has flushed everything, and a streamer
\* past its loop has found events closed and empty.
EndInv ==
    /\ out.closed => pc \in {"closeraw", "done"} /\ todo = {}
    /\ pc \in {"flush", "closeraw", "done"} => Drained(events)

LEMMA EndStep ==
    ASSUME SP!TypeOK, EndInv, [SP!Next]_(SP!vars)
    PROVE  EndInv'
  <1> USE DEF EndInv, Drained, SP!HasValue, SP!Send, SP!Receive, SP!CloseChan, SP!Drained, SP!PassRaw,
              SP!NextIteration, SP!localVars
  <1>1. CASE SP!Recv
    BY <1>1 DEF SP!Recv
  <1>2. CASE SP!HandleConnect \/ SP!HandleData \/ SP!HandleClose
    BY <1>2 DEF SP!HandleConnect, SP!HandleData, SP!HandleClose
  <1>3. CASE SP!SendExchange
    BY <1>3 DEF SP!SendExchange
  <1>4. CASE SP!EndOfEvents
    BY <1>4 DEF SP!EndOfEvents
  <1>5. ASSUME NEW k \in todo, SP!FlushOne(k) PROVE EndInv'
    BY <1>5 DEF SP!FlushOne
  <1>6. CASE SP!CloseOut \/ SP!CloseRaw
    BY <1>6 DEF SP!CloseOut, SP!CloseRaw, SP!TypeOK
  <1>7. ASSUME NEW ev, SP!Arrive(ev) PROVE EndInv'
    BY <1>7 DEF SP!Arrive
  <1>8. CASE SP!EventsEnd \/ SP!TakeRaw \/ SP!TakeOut
    BY <1>8 DEF SP!EventsEnd, SP!TakeRaw, SP!TakeOut
  <1>9. CASE SP!Terminated \/ UNCHANGED SP!vars
    BY <1>9 DEF SP!Terminated, SP!vars
  <1> QED
    BY <1>1, <1>2, <1>3, <1>4, <1>5, <1>6, <1>7, <1>8, <1>9 DEF SP!Next, SP!Goroutine

\* Once out is closed and empty nothing more is sent on it or collected.
LEMMA StaysDrained ==
    ASSUME EndInv, Drained(out), [SP!Next]_(SP!vars)
    PROVE  out' = out /\ collected' = collected
  <1>0. pc \in {"closeraw", "done"} /\ out.buf = <<>> /\ out.closed /\ todo = {}
    BY DEF EndInv, Drained
  <1>1. CASE SP!Goroutine /\ collected' = collected
    BY <1>0, <1>1 DEF SP!Goroutine, SP!Recv, SP!HandleConnect, SP!HandleData, SP!HandleClose, SP!PassRaw,
       SP!SendExchange, SP!EndOfEvents, SP!FlushOne, SP!CloseOut, SP!CloseRaw
  <1>2. CASE \/ \E ev \in Inputs : SP!Arrive(ev)
             \/ SP!EventsEnd \/ SP!TakeRaw \/ SP!Terminated \/ UNCHANGED SP!vars
    BY <1>2 DEF SP!Arrive, SP!EventsEnd, SP!TakeRaw, SP!Terminated, SP!vars
  <1>3. CASE SP!TakeOut
    BY <1>0, <1>3 DEF SP!TakeOut, SP!HasValue
  <1> QED
    BY <1>1, <1>2, <1>3 DEF SP!Next

\* recordCmd builds when it has collected everything, and writes what it
\* built of that.
SessionInv ==
    /\ mainpc \in {"new", "collect", "build", "defer", "returned"}
    /\ sigCh \in {0, 1} /\ sigpc \in {"wait", "close", "done"} /\ signals \in 0 .. MaxSignals
    /\ mainpc = "build" => Drained(out)
    /\ \/ file = <<>>
       \/ mainpc \in {"defer", "returned"} /\ Drained(out) /\ file = <<R!Build(collected)>>

LEMMA SessionStep ==
    ASSUME SessionInv, EndInv, [Next]_vars, [SP!Next]_(SP!vars)
    PROVE  SessionInv'
  <1>0. Drained(out) => Drained(out)' /\ collected' = collected
    BY StaysDrained DEF Drained
  <1>1. ASSUME UNCHANGED file, (mainpc' = mainpc \/ mainpc \notin {"defer", "returned"} \/ mainpc' = "returned"),
               mainpc' \in {"new", "collect", "build", "defer", "returned"},
               mainpc' = "build" => mainpc = "build" \/ Drained(out),
               sigCh' \in {0, 1}, sigpc' \in {"wait", "close", "done"}, signals' \in 0 .. MaxSignals
        PROVE  SessionInv'
    <2>1. mainpc' = "build" => Drained(out)'
      BY <1>0, <1>1 DEF SessionInv
    <2>2. CASE file = <<>>
      BY <1>1, <2>1, <2>2 DEF SessionInv
    <2>3. CASE mainpc \in {"defer", "returned"} /\ Drained(out) /\ file = <<R!Build(collected)>>
      <3>1. mainpc' \in {"defer", "returned"} /\ Drained(out)'
        BY <1>0, <1>1, <2>3
      <3>2. R!Build(collected)' = R!Build(collected)
        BY <1>0, <2>3
      <3> QED
        BY <1>1, <2>1, <2>3, <3>1, <3>2 DEF SessionInv
    <2> QED
      BY <2>2, <2>3 DEF SessionInv
  <1>t. /\ mainpc \in {"new", "collect", "build", "defer", "returned"}
        /\ sigCh \in {0, 1} /\ sigpc \in {"wait", "close", "done"} /\ signals \in 0 .. MaxSignals
    BY DEF SessionInv
  <1>2. CASE New \/ DeferredClose \/ CollectorStep \/ ReaderStep \/ WaiterStep \/ CloserStep \/ ErrsStep
             \/ StreamerStep \/ Collect \/ Returned \/ UNCHANGED vars
    <2>1. UNCHANGED <<mainpc, file, sigCh, sigpc, signals>>
      BY <1>2 DEF New, DeferredClose, CollectorStep, ReaderStep, WaiterStep, CloserStep, ErrsStep,
         StreamerStep, Collect, Returned, vars, sessionVars
    <2> QED
      BY <1>1, <1>t, <2>1
  <1>3. CASE NewFails \/ Start \/ CollectEnds \/ Return
    <2>1. UNCHANGED <<file, sigCh, sigpc, signals>>
      BY <1>3 DEF NewFails, Start, CollectEnds, Return
    <2>2. /\ mainpc' \in {"defer", "collect", "build", "returned"}
          /\ mainpc \notin {"defer", "returned"} \/ mainpc' = "returned"
          /\ mainpc' = "build" => Drained(out)
      BY <1>3 DEF NewFails, Start, CollectEnds, Return
    <2> QED
      BY <1>1, <1>t, <2>1, <2>2
  <1>4. CASE BuildAndWrite
    <2>1. /\ mainpc = "build" /\ mainpc' = "defer" /\ UNCHANGED <<out, collected, sigCh, sigpc, signals>>
          /\ file' = <<R!Build(collected)>> \/ file' = file
      BY <1>4 DEF BuildAndWrite, streamerVars
    <2>2. file = <<>> /\ Drained(out)
      BY <2>1 DEF SessionInv
    <2>3. R!Build(collected)' = R!Build(collected)
      BY <2>1
    <2>4. Drained(out)'
      BY <2>1, <2>2 DEF Drained
    <2> QED
      BY <1>t, <2>1, <2>2, <2>3, <2>4 DEF SessionInv
  <1>5. CASE CtrlC
    <2>1. /\ UNCHANGED <<mainpc, file, sigpc>> /\ sigCh' = 1 /\ signals' = signals + 1
          /\ signals < MaxSignals
      BY <1>5 DEF CtrlC
    <2>2. signals' \in 0 .. MaxSignals
      BY <1>t, <2>1, SessionAssumption
    <2> QED
      BY <1>1, <1>t, <2>1, <2>2
  <1>6. CASE OnSignal \/ SignalDone
    <2>1. /\ UNCHANGED <<mainpc, file, signals>> /\ sigCh' \in {0, sigCh} /\ sigpc' \in {"close", "done"}
      BY <1>6 DEF OnSignal, SignalDone
    <2> QED
      BY <1>1, <1>t, <2>1
  <1> QED
    BY <1>2, <1>3, <1>4, <1>5, <1>6 DEF Next, Main

-----------------------------------------------------------------------------
(* The inductive invariant, and what it means.                             *)

RecordInv == CP!IInv /\ SP!IInv /\ OwnInv /\ EndInv /\ SessionInv

LEMMA SameInit == Init => CP!Init /\ SP!Init
  <1> SUFFICES ASSUME Init PROVE CP!Init /\ SP!Init
    OBVIOUS
  <1>1. Received = <<>> /\ Received \o events.buf = <<>>
    <2>1. pc = "recv" /\ raw.buf = <<>> /\ events.buf = <<>>
      BY DEF Init, S!Init, S!MakeChan
    <2>2. <<>> \o <<>> = <<>>
      OBVIOUS
    <2> QED
      BY <2>1, <2>2 DEF Received, Passed
  <1>2. CP!Init
    BY <1>1, OneRing DEF Init, C!Init, CP!Init, C!MakeChan, CP!MakeChan
  <1>3. SP!Init
    BY <1>1 DEF Init, S!Init, SP!Init, S!MakeChan, SP!MakeChan, S!NewBufs, SP!NewBufs
  <1> QED
    BY <1>2, <1>3

LEMMA RecordStart == Init => RecordInv
  <1> SUFFICES ASSUME Init PROVE RecordInv
    OBVIOUS
  <1>0. CP!Init /\ SP!Init
    BY SameInit
  <1>1. CP!IInv
    BY <1>0, CollectorConstants, CP!InitInv
  <1>2. SP!IInv
    BY <1>0, StreamerConstants, SP!InitIInv
  <1>3. OwnInv
    <2>1. Received = <<>> /\ events.buf = <<>> /\ accepted["syscall"] = <<>>
      BY <1>0, OneRing DEF CP!Init, CP!MakeChan
    <2>2. \A T : <<>> \in Seq(T)
      OBVIOUS
    <2>3. Len(<<>>) <= MaxSubmits
      BY SessionAssumption
    <2> QED
      BY <2>1, <2>2, <2>3 DEF OwnInv
  <1>4. EndInv
    BY <1>0 DEF SP!Init, SP!MakeChan, EndInv
  <1>5. SessionInv
    BY SessionAssumption DEF Init, SessionInv
  <1> QED
    BY <1>1, <1>2, <1>3, <1>4, <1>5 DEF RecordInv

LEMMA RecordStep == RecordInv /\ [Next]_vars => RecordInv'
  <1> SUFFICES ASSUME RecordInv, [Next]_vars PROVE RecordInv'
    OBVIOUS
  <1>1. CP!IInv /\ SP!IInv /\ OwnInv /\ EndInv /\ SessionInv
    BY DEF RecordInv
  <1>2. CP!TypeOK
    BY <1>1 DEF CP!IInv
  <1>3. SP!TypeOK
    BY <1>1, StreamerConstants, SP!IInvMeans
  <1>4. [CP!Next]_(CP!vars) /\ [SP!Next]_(SP!vars)
    BY <1>1, <1>2, <1>3, IsCollectorStep, IsStreamerStep
  <1>5. CP!IInv'
    BY <1>1, <1>4, CollectorConstants, CP!StepInv
  <1>6. SP!IInv'
    BY <1>1, <1>4, StreamerConstants, SP!StepIInv
  <1>7. OwnInv' /\ EndInv' /\ SessionInv'
    BY <1>1, <1>3, <1>4, OwnStep, EndStep, SessionStep
  <1> QED
    BY <1>5, <1>6, <1>7 DEF RecordInv

\* The components' definitions, reached through their two instances.
LEMMA SameCollectorType == CP!TypeOK => C!TypeOK
  <1>1. \A T : C!ChanOf(T) = CP!ChanOf(T)
    BY DEF C!ChanOf, CP!ChanOf
  <1>2. \A s : C!ToSet(s) = CP!ToSet(s)
    BY DEF C!ToSet, CP!ToSet
  <1> QED
    BY <1>1, <1>2, SameSetup, OneRing DEF C!TypeOK, CP!TypeOK

LEMMA SameStreamerType == SP!TypeOK => S!TypeOK
  <1>1. \A ev : S!KeyOf(ev) = SP!KeyOf(ev)
    BY DEF S!KeyOf, SP!KeyOf, S!WidenFd, SP!WidenFd
  <1>2. \A p, f, b : S!Decode(p, f, b) = SP!Decode(p, f, b)
    BY DEF S!Decode, SP!Decode
  <1>3. \A ex : S!Decoded(ex) <=> SP!Decoded(ex)
    BY DEF S!Decoded, SP!Decoded
  <1>4. \A T : S!ChanOf(T) = SP!ChanOf(T)
    BY DEF S!ChanOf, SP!ChanOf
  <1>5. \A s : S!ToSet(s) = SP!ToSet(s)
    BY DEF S!ToSet, SP!ToSet
  <1>6. S!Keys = SP!Keys /\ S!BufsType = SP!BufsType
    BY DEF S!Keys, SP!Keys, S!BufsType, SP!BufsType
  <1> QED
    BY <1>1, <1>2, <1>3, <1>4, <1>5, <1>6 DEF S!TypeOK, SP!TypeOK

LEMMA SameExchanges == SP!ExchangesMatchHistory => S!ExchangesMatchHistory
  <1>1. \A p, f, b : S!Decode(p, f, b) = SP!Decode(p, f, b)
    BY DEF S!Decode, SP!Decode
  <1>2. \A ex : S!Decoded(ex) <=> SP!Decoded(ex)
    BY DEF S!Decoded, SP!Decoded
  <1>3. \A s : S!ToSet(s) = SP!ToSet(s)
    BY DEF S!ToSet, SP!ToSet
  <1>4. \A X : S!Cardinality(X) = SP!Cardinality(X)
    BY DEF S!Cardinality, SP!Cardinality
  <1>5. \A k : S!FlushExchange(k) = SP!FlushExchange(k)
    BY <1>1 DEF S!FlushExchange, SP!FlushExchange, S!NarrowFd, SP!NarrowFd
  <1>6. S!Emitted = SP!Emitted /\ S!Applied = SP!Applied
    BY DEF S!Emitted, SP!Emitted, S!Applied, SP!Applied, S!Passed, SP!Passed, S!Front, SP!Front
  <1>7. S!ReadOps = SP!ReadOps /\ S!WriteOps = SP!WriteOps
    BY DEF S!ReadOps, SP!ReadOps, S!WriteOps, SP!WriteOps
  <1>8. \A ev : /\ S!Endpoint(ev) = SP!Endpoint(ev) /\ S!Payload(ev) = SP!Payload(ev)
                /\ (S!Truncated(ev) <=> SP!Truncated(ev))
    BY DEF S!Endpoint, SP!Endpoint, S!Payload, SP!Payload, S!Truncated, SP!Truncated
  <1>9. \A h, e : S!Lifetime(h, e) = SP!Lifetime(h, e)
    BY <1>7, <1>8 DEF S!Lifetime, SP!Lifetime
  <1>10. \A ss : S!FlattenSeq(ss) = SP!FlattenSeq(ss)
    BY DEF S!FlattenSeq, SP!FlattenSeq
  <1>11. \A h, e, ops : S!Stream(h, e, ops) = SP!Stream(h, e, ops)
    BY <1>8, <1>9, <1>10 DEF S!Stream, SP!Stream
  <1>12. \A h, e : S!BufsOf(h, e) = SP!BufsOf(h, e)
    BY <1>7, <1>8, <1>9, <1>11 DEF S!BufsOf, SP!BufsOf, S!Capped, SP!Capped
  <1>13. \A h, ev : S!ExchangeOfClose(h, ev) = SP!ExchangeOfClose(h, ev)
    BY <1>1, <1>8, <1>12 DEF S!ExchangeOfClose, SP!ExchangeOfClose
  <1>14. \A h, ev : S!Due(h, ev) <=> SP!Due(h, ev)
    BY <1>2, <1>8, <1>9, <1>13 DEF S!Due, SP!Due
  <1>15. \A h : S!CloseExchanges(h) = SP!CloseExchanges(h)
    BY <1>10, <1>13, <1>14 DEF S!CloseExchanges, SP!CloseExchanges
  <1> QED
    BY <1>2, <1>3, <1>4, <1>5, <1>6, <1>15 DEF S!ExchangesMatchHistory, SP!ExchangesMatchHistory


LEMMA RecordTypes ==
    ASSUME RecordInv
    PROVE  TypeOK
  <1>1. C!TypeOK
    BY SameCollectorType DEF RecordInv, CP!IInv
  <1>2. S!TypeOK
    BY StreamerConstants, SP!IInvMeans, SameStreamerType DEF RecordInv
  <1>3. SessionInv
    BY DEF RecordInv
  <1>4. Len(file) <= 1
    <2>1. CASE file = <<>>
      BY <2>1
    <2>2. CASE file = <<R!Build(collected)>>
      <3>1. PICK tc : tc = R!Build(collected)
        OBVIOUS
      <3>2. Len(<<tc>>) = 1
        OBVIOUS
      <3> QED
        BY <2>2, <3>1, <3>2
    <2> QED
      BY <1>3, <2>1, <2>2 DEF SessionInv
  <1> QED
    BY <1>1, <1>2, <1>3, <1>4 DEF TypeOK, SessionInv

LEMMA RecordIsComplete ==
    ASSUME RecordInv
    PROVE  RecordingComplete
  <1> SUFFICES ASSUME file # <<>>
               PROVE  /\ out.closed /\ ~HasValue(out) /\ ~HasValue(events) /\ held["syscall"] = <<>>
                      /\ Only(accepted["syscall"], Inputs) = Passed \o Only(ring["syscall"], Inputs)
                      /\ S!ExchangesMatchHistory /\ file = <<R!Build(collected)>>
    BY DEF RecordingComplete
  <1>1. Drained(out) /\ file = <<R!Build(collected)>>
    BY DEF RecordInv, SessionInv
  <1>2. pc \in {"closeraw", "done"} /\ Drained(events)
    BY <1>1 DEF RecordInv, EndInv, Drained
  <1>3. CP!TypeOK /\ CP!ReadersBeforeClose /\ "syscall" \in CP!Sources
    BY OneRing DEF RecordInv, CP!IInv
  <1>4. loop["syscall"] = "returned"
    BY <1>2, <1>3 DEF CP!ReadersBeforeClose, Drained
  <1>5. held["syscall"] = <<>>
    BY <1>3, <1>4 DEF CP!TypeOK
  <1>6. Only(accepted["syscall"], Inputs) = Passed \o Only(ring["syscall"], Inputs)
    <2>1. PICK p, r : p = Passed /\ r = Only(ring["syscall"], Inputs)
      OBVIOUS
    <2>2. p \in Seq(Inputs)
      <3>1. SP!TypeOK
        BY StreamerConstants, SP!IInvMeans DEF RecordInv
      <3> QED
        BY <2>1, <3>1 DEF SP!TypeOK, SP!ChanOf, Passed
    <2>3. Received = p \o <<>> /\ events.buf = <<>>
      BY <1>2, <2>1 DEF Received, Drained
    <2>4. p \o <<>> = p
      BY <2>2, ConcatEmptySeq
    <2>5. Only(accepted["syscall"], Inputs) = ((Received \o events.buf) \o held["syscall"]) \o r
      BY <2>1, AllInOrder DEF RecordInv
    <2> QED
      BY <1>5, <2>1, <2>3, <2>4, <2>5
  <1>7. S!ExchangesMatchHistory
    BY StreamerConstants, SP!IInvMeans, SameExchanges DEF RecordInv
  <1> QED
    BY <1>1, <1>2, <1>5, <1>6, <1>7 DEF Drained, HasValue

-----------------------------------------------------------------------------
(* The theorems.                                                           *)

\* Composed with the streamer in place of its consumer, and closed by Ctrl-C
\* or by the deferred call of recordCmd, the collector is still the one its
\* theorems are about.
THEOREM RecordRunsCollector == Spec => CP!Init /\ [][CP!Next]_(CP!vars)
  <1>1. RecordInv => CP!TypeOK /\ SP!TypeOK
    BY StreamerConstants, SP!IInvMeans DEF RecordInv, CP!IInv
  <1> QED
    BY <1>1, RecordStart, RecordStep, SameInit, IsCollectorStep, PTL DEF Spec

\* And so is the streamer, fed by the collector's readers, with its raw
\* output undrained and its exchanges taken by recordCmd.
THEOREM RecordRunsStreamer == Spec => SP!Init /\ [][SP!Next]_(SP!vars)
  <1>1. RecordInv => CP!IInv /\ SP!TypeOK /\ OwnInv
    BY StreamerConstants, SP!IInvMeans DEF RecordInv
  <1> QED
    BY <1>1, RecordStart, RecordStep, SameInit, IsStreamerStep, PTL DEF Spec

\* For any events, decoders and capacities, however setup, teardown, Ctrl-C
\* and the goroutines interleave, every variable of the session has its type.
THEOREM RecordWellTyped == Spec => []TypeOK
  BY RecordStart, RecordStep, RecordTypes, PTL DEF Spec

\* A recording that was written has everything: the events the kernel
\* accepted, but for those left in the ring at the end, one exchange for each
\* connection lifetime that decodes, and the test case built of all of them.
THEOREM RecordRecordingComplete == Spec => []RecordingComplete
  BY RecordStart, RecordStep, RecordIsComplete, PTL DEF Spec
=============================================================================
