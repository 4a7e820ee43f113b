-------------------------- MODULE CollectorProofs ---------------------------
(* The collector's invariants, for every capacity, every set of records,   *)
(* with and without --tls.                                                 *)
EXTENDS Collector, ChannelTheorems

-----------------------------------------------------------------------------
(* The inductive invariant.                                                *)

\* Readers exist from Run on, have all returned before the waiting goroutine
\* closes anything, and events is closed before errs.
ReadersBeforeClose ==
    /\ main # "run" => waiter = "none"
    /\ waiter = "none" => \A s \in Sources : loop[s] = "none"
    /\ waiter \in {"closeErrs", "done"} => \A s \in Sources : loop[s] = "returned"
    /\ events.closed => waiter \in {"closeErrs", "done"}
    /\ errs.closed => waiter = "done"

\* Close begins when nothing more will be acquired, and goes through what
\* there is to release in order.
TeardownOrder ==
    /\ closer # "idle" => main = "failed" \/ setup = Len(SetupSteps)
    /\ closer \in {"tlsRd", "links", "done"} => rd["syscall"] # "open"
    /\ closer \in {"links", "done"} /\ TLS => rd["tls"] # "open"
    /\ closer = "done" => links = <<>> /\ objs = {}
    /\ setup = 0 => objs = {}
    /\ setup < Clock => links = <<>> /\ \A s \in Sources : rd[s] # "open"
    /\ main = "failed" /\ closer = "idle" => setup < Clock

\* A ring, and its reader, hold records of that ring's probes only.
Of(s) == {rec \in Inputs \cup Garbled : SourceOf(rec) = s}
From(s) == {rec \in Inputs : SourceOf(rec) = s}
OwnRecords == \A s \in Sources : ring[s] \in Seq(Of(s)) /\ held[s] \in Seq(From(s))

LEMMA SourcesFact ==
    /\ "syscall" \in Sources /\ Sources \subseteq {"syscall", "tls"}
    /\ TLS <=> "tls" \in Sources
  BY CollectorAssumption DEF Sources

LEMMA SetupStepsFact ==
    /\ Len(SetupSteps) \in Nat
    /\ \A i \in 1 .. Len(SetupSteps) : SetupSteps[i] \in ToSet(SetupSteps)
    /\ DOMAIN SetupSteps = 1 .. Len(SetupSteps)
  <1> DEFINE S == {"objs", "clock", "connect", "write", "enter_read", "exit_read", "close", "rd"}
             T == {"tlsObjs", "SSL_write", "SSL_read", "SSL_read_ret", "tlsRd"}
  <1>1. SyscallSteps \in Seq(S \cup T)
    BY DEF SyscallSteps
  <1>2. TLSSteps \in Seq(S \cup T)
    BY DEF TLSSteps
  <1> HIDE DEF S, T
  <1>3. SyscallSteps \o TLSSteps \in Seq(S \cup T)
    BY <1>1, <1>2
  <1>4. SetupSteps \in Seq(S \cup T)
    BY <1>1, <1>3, CollectorAssumption DEF SetupSteps
  <1> QED
    BY <1>4 DEF ToSet

-----------------------------------------------------------------------------
(* Types and bounds.                                                       *)

LEMMA TypeInit == Init => TypeOK
  <1> SUFFICES ASSUME Init PROVE TypeOK
    OBVIOUS
  <1>1. \A T : MakeChan \in ChanOf(T) /\ MakeChan.buf = <<>> /\ Len(<<>>) = 0
    BY DEF MakeChan, ChanOf
  <1>2. \A T : <<>> \in Seq(T)
    OBVIOUS
  <1>3. 0 \in 0 .. Len(SetupSteps) /\ 0 \in 0 .. MaxFaults
    BY SetupStepsFact, CollectorAssumption
  <1>4. ring \in [Sources -> Seq(Inputs \cup Garbled)] /\ held \in [Sources -> Seq(Inputs)]
        /\ accepted \in [Sources -> Seq(Inputs \cup Garbled)]
    BY <1>2 DEF Init
  <1>5. \A s \in Sources : ring[s] = <<>> /\ held[s] = <<>> /\ loop[s] = "none"
    BY DEF Init
  <1>6. \A s \in Sources : Len(ring[s]) <= RingCap
                           /\ Len(held[s]) = (IF loop[s] = "sendEvent" THEN 1 ELSE 0)
    BY <1>1, <1>5, CollectorAssumption
  <1>7. /\ links \in Seq(ToSet(SetupSteps)) /\ delivered \in Seq(Inputs)
        /\ rd \in [Sources -> {"nil", "open", "closed"}]
        /\ loop \in [Sources -> {"none", "read", "sendEvent", "sendDecodeErr", "sendReadErr",
                             "returned"}]
    BY <1>2 DEF Init
  <1> QED
    BY <1>1, <1>3, <1>4, <1>6, <1>7, CollectorAssumption DEF Init, TypeOK

\* New, EnableTLS and Close change setup, main, links, rd and closer only.
LEMMA TypeSetup ==
    ASSUME TypeOK, SetupStep \/ SetupFail \/ CallClose \/ Closing
    PROVE  TypeOK'
  <1>1. CASE SetupStep
    <2> DEFINE step == SetupSteps[setup + 1]
    <2>1. setup + 1 \in 1 .. Len(SetupSteps) /\ setup' = setup + 1
      BY <1>1, SetupStepsFact DEF SetupStep, TypeOK
    <2>2. step \in ToSet(SetupSteps) /\ setup' \in 0 .. Len(SetupSteps)
      BY <2>1, SetupStepsFact
    <2>3. \/ rd' = [rd EXCEPT !["syscall"] = "open"] /\ UNCHANGED <<objs, links>>
          \/ rd' = [rd EXCEPT !["tls"] = "open"] /\ UNCHANGED <<objs, links>>
          \/ links' = Append(links, step) /\ UNCHANGED <<objs, rd>>
          \/ objs' \in {objs, objs \cup {"syscall"}, objs \cup {"tls"}} /\ UNCHANGED <<links, rd>>
      BY <1>1 DEF SetupStep
    <2>4. links' \in Seq(ToSet(SetupSteps))
      <3>1. links \in Seq(ToSet(SetupSteps)) /\ (links' = links \/ links' = Append(links, step))
        BY <2>3 DEF TypeOK
      <3> HIDE DEF step
      <3> QED
        BY <2>2, <3>1
    <2>5. rd' \in [Sources -> {"nil", "open", "closed"}]
      <3> HIDE DEF step
      <3> QED
        BY <2>3 DEF TypeOK
    <2>6. objs' \subseteq {"syscall", "tls"}
      <3> HIDE DEF step
      <3> QED
        BY <2>3 DEF TypeOK
    <2> QED
      BY <1>1, <2>2, <2>4, <2>5, <2>6 DEF SetupStep, TypeOK, readerVars
  <1>2. CASE SetupFail
    BY <1>2 DEF SetupFail, TypeOK, readerVars
  <1>3. CASE CallClose
    BY <1>3 DEF CallClose, TypeOK, readerVars, setupVars
  <1>4. CASE CloseRd \/ CloseTLSRd
    <2>1. rd' \in [Sources -> {"nil", "open", "closed"}]
      BY <1>4 DEF CloseRd, CloseTLSRd, CloseReader, TypeOK
    <2>2. closer' \in {"tlsRd", "links"}
          /\ UNCHANGED <<setupVars, links, ring, readerVars, waiter, events, errs, accepted, delivered>>
      BY <1>4 DEF CloseRd, CloseTLSRd, CloseReader
    <2> QED
      BY <2>1, <2>2 DEF TypeOK, readerVars, setupVars
  <1>5. CASE CloseLink
    <2>1. links' \in Seq(ToSet(SetupSteps))
      BY <1>5 DEF CloseLink, TypeOK
    <2> QED
      BY <1>5, <2>1 DEF CloseLink, TypeOK, readerVars, setupVars
  <1>6. CASE CloseObjs
    BY <1>6 DEF CloseObjs, TypeOK, readerVars, setupVars
  <1> QED
    BY <1>1, <1>2, <1>3, <1>4, <1>5, <1>6 DEF Closing

LEMMA TypeRun ==
    ASSUME TypeOK, ReadersBeforeClose, Run \/ Waiter
    PROVE  TypeOK'
  <1>1. CASE Run
    <2>1. \A s \in Sources : loop[s] = "none"
      BY <1>1 DEF Run, ReadersBeforeClose
    <2>2. \A s \in Sources : Len(held[s]) = 0
      BY <2>1 DEF TypeOK
    <2> QED
      BY <1>1, <2>2 DEF Run, TypeOK
  <1>2. CASE CloseEvents
    <2>1. events' \in ChanOf(Inputs) /\ events'.buf = events.buf
      BY <1>2, CloseChanChan DEF CloseEvents, TypeOK
    <2> QED
      BY <1>2, <2>1 DEF CloseEvents, TypeOK, readerVars, setupVars
  <1>3. CASE CloseErrs
    <2>1. errs' \in ChanOf({"sendDecodeErr", "sendReadErr"}) /\ errs'.buf = errs.buf
      BY <1>3, CloseChanChan DEF CloseErrs, TypeOK
    <2> QED
      BY <1>3, <2>1 DEF CloseErrs, TypeOK, readerVars, setupVars
  <1> QED
    BY <1>1, <1>2, <1>3 DEF Waiter

\* Readers, probes and consumers move records and errors within the bounds.
LEMMA TypeSubmit ==
    ASSUME TypeOK, NEW rec \in Inputs \cup Garbled, Submit(rec)
    PROVE  TypeOK'
  <1> DEFINE s == SourceOf(rec)
  <1>1. /\ s \in Sources /\ Len(ring[s]) < RingCap
        /\ ring' = [ring EXCEPT ![s] = Append(ring[s], rec)]
        /\ accepted' = [accepted EXCEPT ![s] = Append(accepted[s], rec)]
        /\ UNCHANGED <<setup, objs, main, links, rd, loop, held, faults, waiter, closer, events,
                       errs, delivered>>
    BY DEF Submit, setupVars, readerVars
  <1> HIDE DEF s
  <1>2. ring[s] \in Seq(Inputs \cup Garbled) /\ accepted[s] \in Seq(Inputs \cup Garbled)
    BY <1>1 DEF TypeOK
  <1>3. /\ Append(ring[s], rec) \in Seq(Inputs \cup Garbled)
        /\ Append(accepted[s], rec) \in Seq(Inputs \cup Garbled)
        /\ Len(Append(ring[s], rec)) <= RingCap
    BY <1>1, <1>2, CollectorAssumption
  <1>4. /\ ring' \in [Sources -> Seq(Inputs \cup Garbled)]
        /\ accepted' \in [Sources -> Seq(Inputs \cup Garbled)]
        /\ \A x \in Sources : Len(ring'[x]) <= RingCap
    BY <1>1, <1>3 DEF TypeOK
  <1> QED
    BY <1>1, <1>4 DEF TypeOK

LEMMA TypeReader ==
    ASSUME TypeOK, NEW s \in Sources, Reader(s) \/ ReadError(s)
    PROVE  TypeOK'
  <1> USE DEF setupVars
  <1>0. /\ ring[s] \in Seq(Inputs \cup Garbled) /\ Len(ring[s]) <= RingCap
        /\ held[s] \in Seq(Inputs) /\ Len(held[s]) = (IF loop[s] = "sendEvent" THEN 1 ELSE 0)
    BY DEF TypeOK
  <1>1. CASE ReadRecord(s)
    <2>1. /\ loop[s] = "read" /\ ring[s] # <<>>
          /\ ring' = [ring EXCEPT ![s] = Tail(ring[s])]
          /\ UNCHANGED <<setup, objs, main, links, rd, waiter, closer, events, errs, faults,
                         accepted, delivered>>
      BY <1>1 DEF ReadRecord
    <2>2. /\ Head(ring[s]) \in Inputs \cup Garbled /\ Tail(ring[s]) \in Seq(Inputs \cup Garbled)
          /\ Len(Tail(ring[s])) <= RingCap
      BY <1>0, <2>1, CollectorAssumption
    <2>3. /\ ring' \in [Sources -> Seq(Inputs \cup Garbled)]
          /\ \A x \in Sources : Len(ring'[x]) <= RingCap
      BY <2>1, <2>2 DEF TypeOK
    <2>4. CASE Head(ring[s]) \in Garbled
      <3>1. loop' = [loop EXCEPT ![s] = "sendDecodeErr"] /\ UNCHANGED held
        BY <1>1, <2>4 DEF ReadRecord
      <3> QED
        BY <2>1, <2>3, <3>1 DEF TypeOK
    <2>5. CASE Head(ring[s]) \notin Garbled
      <3>1. /\ loop' = [loop EXCEPT ![s] = "sendEvent"]
            /\ held' = [held EXCEPT ![s] = <<Head(ring[s])>>]
        BY <1>1, <2>5 DEF ReadRecord
      <3>2. <<Head(ring[s])>> \in Seq(Inputs) /\ Len(<<Head(ring[s])>>) = 1
        BY <2>2, <2>5
      <3>3. /\ held' \in [Sources -> Seq(Inputs)]
            /\ \A x \in Sources : Len(held'[x]) = (IF loop'[x] = "sendEvent" THEN 1 ELSE 0)
        BY <3>1, <3>2 DEF TypeOK
      <3> QED
        BY <2>1, <2>3, <3>1, <3>3 DEF TypeOK
    <2> QED
      BY <2>4, <2>5
  <1>2. CASE ReadClosed(s)
    BY <1>2 DEF ReadClosed, TypeOK
  <1>3. CASE ReadError(s)
    <2>1. faults' \in 0 .. MaxFaults
      BY <1>3, CollectorAssumption DEF ReadError, TypeOK
    <2> QED
      BY <1>3, <2>1 DEF ReadError, TypeOK
  <1>4. CASE SendEvent(s)
    <2>1. /\ loop[s] = "sendEvent" /\ Len(events.buf) < EventsCap
          /\ events' = Send(events, held[s][1])
          /\ held' = [held EXCEPT ![s] = <<>>] /\ loop' = [loop EXCEPT ![s] = "read"]
          /\ UNCHANGED <<setup, objs, main, links, rd, ring, waiter, closer, errs, faults,
                         accepted, delivered>>
      BY <1>4 DEF SendEvent, HasRoom
    <2>2. held[s][1] \in Inputs
      BY <1>0, <2>1
    <2>3. events \in ChanOf(Inputs) /\ events.buf \in Seq(Inputs)
      BY DEF TypeOK, ChanOf
    <2>4. /\ Send(events, held[s][1]) \in ChanOf(Inputs)
          /\ Len(Send(events, held[s][1]).buf) = Len(events.buf) + 1
      BY <2>2, <2>3, SendChan
    <2>5. Len(events.buf) + 1 <= EventsCap
      BY <2>1, <2>3, CollectorAssumption
    <2>6. <<>> \in Seq(Inputs) /\ Len(<<>>) = 0
      OBVIOUS
    <2>7. /\ held' \in [Sources -> Seq(Inputs)]
          /\ \A x \in Sources : Len(held'[x]) = (IF loop'[x] = "sendEvent" THEN 1 ELSE 0)
      <3>1. /\ held' \in [Sources -> Seq(Inputs)] /\ held'[s] = <<>> /\ loop'[s] = "read"
            /\ \A x \in Sources \ {s} : held'[x] = held[x] /\ loop'[x] = loop[x]
        BY <2>1, <2>6 DEF TypeOK
      <3> QED
        BY <2>6, <3>1 DEF TypeOK
    <2> QED
      BY <2>1, <2>4, <2>5, <2>7 DEF TypeOK
  <1>5. CASE SendErr(s)
    <2> DEFINE T == {"sendDecodeErr", "sendReadErr"}
    <2>1. /\ loop[s] \in T /\ Len(errs.buf) < ErrsCap /\ errs' = Send(errs, loop[s])
          /\ loop' = [loop EXCEPT ![s] = IF loop[s] = "sendDecodeErr" THEN "read" ELSE "returned"]
          /\ UNCHANGED <<setup, objs, main, links, rd, ring, held, faults, waiter, closer, events,
                         accepted, delivered>>
      BY <1>5 DEF SendErr, HasRoom
    <2>2. errs \in ChanOf(T) /\ errs.buf \in Seq(T)
      BY DEF TypeOK, ChanOf
    <2>3. loop' \in [Sources -> {"none", "read", "sendEvent", "sendDecodeErr", "sendReadErr",
                                 "returned"}]
          /\ \A x \in Sources : Len(held'[x]) = (IF loop'[x] = "sendEvent" THEN 1 ELSE 0)
      BY <2>1 DEF TypeOK
    <2> HIDE DEF T
    <2>4. /\ Send(errs, loop[s]) \in ChanOf(T)
          /\ Len(Send(errs, loop[s]).buf) = Len(errs.buf) + 1
      BY <2>1, <2>2, SendChan
    <2>5. Len(errs.buf) + 1 <= ErrsCap
      BY <2>1, <2>2, CollectorAssumption
    <2>6. errs' \in ChanOf(T) /\ Len(errs'.buf) <= ErrsCap
      BY <2>1, <2>4, <2>5
    <2> QED
      BY <2>1, <2>3, <2>6 DEF TypeOK, T
  <1> QED
    BY <1>1, <1>2, <1>3, <1>4, <1>5 DEF Reader

LEMMA TypeTake ==
    ASSUME TypeOK, TakeEvent \/ TakeErr
    PROVE  TypeOK'
  <1> USE DEF setupVars, readerVars
  <1>1. CASE TakeEvent
    <2>1. /\ events \in ChanOf(Inputs) /\ events.buf \in Seq(Inputs)
          /\ Len(events.buf) <= EventsCap /\ HasValue(events) /\ events' = Receive(events)
          /\ delivered' = Append(delivered, Head(events.buf)) /\ delivered \in Seq(Inputs)
      BY <1>1 DEF TakeEvent, TypeOK, ChanOf
    <2>2. /\ Receive(events) \in ChanOf(Inputs) /\ Head(events.buf) \in Inputs
          /\ Len(Receive(events).buf) = Len(events.buf) - 1
      BY <2>1, ReceiveChan
    <2>3. Len(events.buf) - 1 <= EventsCap /\ delivered' \in Seq(Inputs)
      BY <2>1, <2>2, CollectorAssumption
    <2> QED
      BY <1>1, <2>1, <2>2, <2>3 DEF TakeEvent, TypeOK
  <1>2. CASE TakeErr
    <2> DEFINE T == {"sendDecodeErr", "sendReadErr"}
    <2>1. /\ errs \in ChanOf(T) /\ errs.buf \in Seq(T)
          /\ Len(errs.buf) <= ErrsCap /\ HasValue(errs) /\ errs' = Receive(errs)
      BY <1>2 DEF TakeErr, TypeOK, ChanOf
    <2> HIDE DEF T
    <2>2. /\ Receive(errs) \in ChanOf(T)
          /\ Len(Receive(errs).buf) = Len(errs.buf) - 1
      BY <2>1, ReceiveChan
    <2>3. Len(errs.buf) - 1 <= ErrsCap
      BY <2>1, CollectorAssumption
    <2>4. errs' \in ChanOf(T) /\ Len(errs'.buf) <= ErrsCap
      BY <2>1, <2>2, <2>3
    <2> QED
      BY <1>2, <2>4 DEF TakeErr, TypeOK, T
  <1> QED
    BY <1>1, <1>2

-----------------------------------------------------------------------------
(* No send on a closed channel.                                            *)

LEMMA ReadersStep ==
    ASSUME TypeOK, ReadersBeforeClose, Next
    PROVE  ReadersBeforeClose'
  <1> USE DEF ReadersBeforeClose
  <1>1. CASE SetupStep
    BY <1>1 DEF SetupStep, readerVars
  <1>2. CASE SetupFail
    BY <1>2 DEF SetupFail, readerVars
  <1>3. CASE Run
    BY <1>3 DEF Run
  <1>4. ASSUME NEW rec \in Inputs \cup Garbled, Submit(rec) PROVE ReadersBeforeClose'
    BY <1>4 DEF Submit, readerVars, setupVars
  <1>5. ASSUME NEW s \in Sources, Reader(s) \/ ReadError(s) PROVE ReadersBeforeClose'
    <2>1. loop[s] \notin {"none", "returned"}
      BY <1>5 DEF Reader, ReadRecord, ReadClosed, SendEvent, SendErr, ReadError
    <2>2. /\ waiter = "wait" /\ ~events.closed /\ ~errs.closed
      BY <2>1 DEF TypeOK
    <2>3. waiter' = waiter /\ main' = main
      BY <1>5 DEF Reader, ReadRecord, ReadClosed, SendEvent, SendErr, ReadError, setupVars
    <2>4. events'.closed = events.closed
      BY <1>5 DEF Reader, ReadRecord, ReadClosed, SendEvent, SendErr, ReadError, Send
    <2>5. errs'.closed = errs.closed
      BY <1>5 DEF Reader, ReadRecord, ReadClosed, SendEvent, SendErr, ReadError, Send
    <2> QED
      BY <2>2, <2>3, <2>4, <2>5
  <1>6. CASE CloseEvents
    BY <1>6 DEF CloseEvents, readerVars, setupVars
  <1>7. CASE CloseErrs
    BY <1>7 DEF CloseErrs, readerVars, setupVars
  <1>8. CASE CallClose
    BY <1>8 DEF CallClose, readerVars, setupVars
  <1>9. CASE Closing
    BY <1>9 DEF Closing, CloseRd, CloseTLSRd, CloseReader, CloseLink, CloseObjs, readerVars, setupVars
  <1>10. CASE TakeEvent
    <2>1. events'.closed = events.closed
      BY <1>10 DEF TakeEvent, Receive
    <2> QED
      BY <1>10, <2>1 DEF TakeEvent, readerVars, setupVars
  <1>11. CASE TakeErr
    <2>1. errs'.closed = errs.closed
      BY <1>11 DEF TakeErr, Receive
    <2> QED
      BY <1>11, <2>1 DEF TakeErr, readerVars, setupVars
  <1>12. CASE Terminated
    BY <1>12 DEF Terminated, vars
  <1> QED
    BY <1>1, <1>2, <1>3, <1>4, <1>5, <1>6, <1>7, <1>8, <1>9, <1>10, <1>11, <1>12 DEF Next, Waiter

-----------------------------------------------------------------------------
(* Close releases everything.                                              *)

\* The first step loads the objects.
LEMMA FirstStep ==
    ASSUME setup = 0, SetupStep
    PROVE  UNCHANGED <<links, rd>>
  <1>1. SetupSteps[1] = "objs"
    <2>1. (SyscallSteps \o TLSSteps)[1] = "objs"
      BY DEF SyscallSteps, TLSSteps
    <2>2. SyscallSteps[1] = "objs"
      BY DEF SyscallSteps
    <2> QED
      BY <2>1, <2>2 DEF SetupSteps
  <1>2. SetupSteps[setup + 1] = "objs"
    BY <1>1
  <1> QED
    BY <1>2 DEF SetupStep

LEMMA TeardownStep ==
    ASSUME TypeOK, TeardownOrder, Next
    PROVE  TeardownOrder'
  <1>0. setup \in Nat /\ Len(SetupSteps) \in Nat
    BY SetupStepsFact DEF TypeOK
  <1> USE DEF TeardownOrder
  <1>1. CASE SetupStep
    <2>1. closer = "idle"
      BY <1>1, SetupStepsFact DEF SetupStep, TypeOK
    <2>2. setup \in Nat /\ setup' = setup + 1 /\ main = "setup" /\ UNCHANGED <<main, closer>>
      BY <1>1, SetupStepsFact DEF SetupStep, TypeOK
    <2>3. setup' < Clock => setup = 0
      BY <2>2 DEF Clock
    <2>4. setup' < Clock => links' = <<>> /\ \A s \in Sources : rd'[s] # "open"
      BY <1>1, <2>2, <2>3, FirstStep DEF Clock
    <2> QED
      BY <2>1, <2>2, <2>4
  <1>2. CASE SetupFail
    <2>1. main = "setup" /\ setup < Len(SetupSteps)
      BY <1>2 DEF SetupFail
    <2>2. closer = "idle"
      <3>1. main # "failed" /\ setup # Len(SetupSteps)
        BY <1>0, <2>1
      <3>2. closer # "idle" => main = "failed" \/ setup = Len(SetupSteps)
        OBVIOUS
      <3> QED
        BY <3>1, <3>2
    <2> QED
      BY <1>2, <2>2 DEF SetupFail
  <1>3. CASE Run
    BY <1>3 DEF Run
  <1>4. ASSUME NEW rec \in Inputs \cup Garbled, Submit(rec) PROVE TeardownOrder'
    BY <1>4 DEF Submit, setupVars
  <1>5. ASSUME NEW s \in Sources, Reader(s) \/ ReadError(s) PROVE TeardownOrder'
    BY <1>5 DEF Reader, ReadRecord, ReadClosed, SendEvent, SendErr, ReadError, setupVars
  <1>6. CASE Waiter
    BY <1>6 DEF Waiter, CloseEvents, CloseErrs, setupVars
  <1>7. CASE CallClose
    BY <1>7 DEF CallClose, setupVars
  <1>8. CASE CloseRd
    <2>1. rd \in [Sources -> {"nil", "open", "closed"}]
      BY DEF TypeOK
    <2>2. rd'["syscall"] # "open"
      BY <1>8, <2>1, SourcesFact DEF CloseRd, CloseReader
    <2>3. \A s \in Sources : rd[s] # "open" => rd'[s] # "open"
      BY <1>8, <2>1 DEF CloseRd, CloseReader
    <2> QED
      BY <1>8, <2>2, <2>3 DEF CloseRd, CloseReader, setupVars
  <1>9. CASE CloseTLSRd
    <2>1. rd \in [Sources -> {"nil", "open", "closed"}]
      BY DEF TypeOK
    <2>2. TLS => rd'["tls"] # "open"
      BY <1>9, <2>1, SourcesFact DEF CloseTLSRd, CloseReader
    <2>3. rd'["syscall"] = rd["syscall"]
      BY <1>9, <2>1, SourcesFact DEF CloseTLSRd, CloseReader
    <2>4. \A s \in Sources : rd[s] # "open" => rd'[s] # "open"
      BY <1>9, <2>1 DEF CloseTLSRd, CloseReader
    <2> QED
      BY <1>9, <2>2, <2>3, <2>4 DEF CloseTLSRd, CloseReader, setupVars
  <1>10. CASE CloseLink \/ CloseObjs
    BY <1>10 DEF CloseLink, CloseObjs, setupVars
  <1>11. CASE TakeEvent \/ TakeErr \/ Terminated
    BY <1>11 DEF TakeEvent, TakeErr, Terminated, vars, setupVars
  <1> QED
    BY <1>1, <1>2, <1>3, <1>4, <1>5, <1>6, <1>7, <1>8, <1>9, <1>10, <1>11 DEF Next, Closing

-----------------------------------------------------------------------------
(* Order, per ring.                                                        *)

\* The right-hand side of PerRingFIFO: what is delivered, on the channel, in
\* the reader's hand, and still in the ring.
InOrder(s, del, buf, hand, rng) ==
    Only(del, From(s)) \o Only(buf, From(s)) \o hand \o Only(rng, Inputs)

LEMMA PerRingFIFODef ==
    PerRingFIFO <=> \A s \in Sources : Only(accepted[s], Inputs)
                                         = InOrder(s, delivered, events.buf, held[s], ring[s])
  BY DEF PerRingFIFO, InOrder, From

\* A reader takes a record out of its ring.
LEMMA InOrderRead ==
    ASSUME NEW s, NEW del \in Seq(Inputs), NEW buf \in Seq(Inputs),
           NEW rng \in Seq(Inputs \cup Garbled), rng # <<>>
    PROVE  InOrder(s, del, buf, <<>>, rng)
             = InOrder(s, del, buf, IF Head(rng) \in Garbled THEN <<>> ELSE <<Head(rng)>>, Tail(rng))
  <1> DEFINE a == Only(del, From(s)) \o Only(buf, From(s))
             r == Only(Tail(rng), Inputs)
             h == Head(rng)
  <1>1. h \in Inputs \cup Garbled /\ Tail(rng) \in Seq(Inputs \cup Garbled)
    OBVIOUS
  <1>2. From(s) \subseteq Inputs
    BY DEF From
  <1>3. a \in Seq(Inputs) /\ r \in Seq(Inputs)
    <2>1. Only(del, From(s)) \in Seq(From(s)) /\ Only(buf, From(s)) \in Seq(From(s))
      BY OnlyType
    <2>2. Only(del, From(s)) \in Seq(Inputs) /\ Only(buf, From(s)) \in Seq(Inputs)
      BY <1>2, <2>1, SeqMonotonic
    <2>3. r \in Seq(Inputs)
      BY <1>1, OnlyType
    <2> QED
      BY <2>2, <2>3
  <1>4. Only(rng, Inputs) = IF h \in Inputs THEN <<h>> \o r ELSE r
    BY OnlyHead
  <1> HIDE DEF a, r, h
  <1>5. a \o <<>> = a
    BY <1>3
  <1>6. CASE h \in Garbled
    <2>1. h \notin Inputs
      BY <1>6, CollectorAssumption
    <2> QED
      BY <1>4, <1>6, <2>1 DEF InOrder, a, r, h
  <1>7. CASE h \notin Garbled
    <2>1. h \in Inputs
      BY <1>1, <1>7
    <2>2. a \o (<<h>> \o r) = Append(a, h) \o r /\ Append(a, h) = a \o <<h>>
      BY <1>3, <2>1, MoveAcross, AppendIsConcat
    <2>3. (a \o <<>>) \o (<<h>> \o r) = (a \o <<h>>) \o r
      BY <1>5, <2>2
    <2> QED
      BY <1>4, <1>7, <2>1, <2>3 DEF InOrder, a, r, h
  <1> QED
    BY <1>6, <1>7

\* A reader sends the record in its hand; other rings do not see it.
LEMMA InOrderSend ==
    ASSUME NEW F, NEW a \in Seq(F), NEW buf \in Seq(Inputs), NEW h \in Inputs
    PROVE  IF h \in F
           THEN (a \o Only(buf, F)) \o <<h>> = (a \o Only(Append(buf, h), F)) \o <<>>
           ELSE Only(Append(buf, h), F) = Only(buf, F)
  <1> DEFINE b == Only(buf, F)
  <1>1. Only(Append(buf, h), F) = IF h \in F THEN b \o <<h>> ELSE b
    BY OnlyNewest
  <1>2. b \in Seq(F)
    BY OnlyType
  <1> HIDE DEF b
  <1>3. ASSUME h \in F PROVE (a \o b) \o <<h>> = (a \o (b \o <<h>>)) \o <<>>
    <2>1. <<h>> \in Seq(F)
      BY <1>3
    <2>2. (a \o b) \o <<h>> = a \o (b \o <<h>>)
      BY <1>2, <2>1, ConcatAssociative
    <2>3. b \o <<h>> \in Seq(F) /\ a \o (b \o <<h>>) \in Seq(F)
      BY <1>2, <2>1
    <2> QED
      BY <2>2, <2>3, ConcatEmptySeq
  <1> QED
    BY <1>1, <1>3 DEF b

\* A consumer receives the oldest event.
LEMMA InOrderTake ==
    ASSUME NEW s, NEW del \in Seq(Inputs), NEW buf \in Seq(Inputs), buf # <<>>,
           NEW hand, NEW rng
    PROVE  InOrder(s, del, buf, hand, rng)
             = InOrder(s, Append(del, Head(buf)), Tail(buf), hand, rng)
  <1> DEFINE a == Only(del, From(s))
             b == Only(Tail(buf), From(s))
             h == Head(buf)
  <1>1. h \in Inputs /\ Tail(buf) \in Seq(Inputs)
    OBVIOUS
  <1>2. a \in Seq(From(s)) /\ b \in Seq(From(s))
    BY <1>1, OnlyType
  <1>3. Only(buf, From(s)) = IF h \in From(s) THEN <<h>> \o b ELSE b
    BY OnlyHead
  <1>4. Only(Append(del, h), From(s)) = IF h \in From(s) THEN Append(a, h) ELSE a
    BY <1>1, OnlyAppend
  <1> HIDE DEF a, b, h
  <1>5. h \in From(s) => a \o (<<h>> \o b) = Append(a, h) \o b
    BY <1>2, MoveAcross
  <1> QED
    BY <1>3, <1>4, <1>5 DEF InOrder, a, b, h

\* A ring accepts a record, behind everything else.
LEMMA InOrderSubmit ==
    ASSUME NEW T, NEW a \in Seq(Inputs), NEW rng \in Seq(T), NEW acc \in Seq(T), NEW rec \in T
    PROVE  Only(acc, Inputs) = a \o Only(rng, Inputs)
             => Only(Append(acc, rec), Inputs) = a \o Only(Append(rng, rec), Inputs)
  <1> DEFINE l == Only(acc, Inputs)
             r == Only(rng, Inputs)
  <1>2. Only(Append(acc, rec), Inputs) = IF rec \in Inputs THEN l \o <<rec>> ELSE l
    BY OnlyNewest
  <1>3. Only(Append(rng, rec), Inputs) = IF rec \in Inputs THEN r \o <<rec>> ELSE r
    BY OnlyNewest
  <1>4. r \in Seq(Inputs)
    BY OnlyType
  <1> HIDE DEF l, r
  <1>5. ASSUME rec \in Inputs PROVE (a \o r) \o <<rec>> = a \o (r \o <<rec>>)
    <2>1. <<rec>> \in Seq(Inputs)
      BY <1>5
    <2> QED
      BY <1>4, <2>1, ConcatAssociative
  <1>6. ASSUME l = a \o r
        PROVE  Only(Append(acc, rec), Inputs) = a \o Only(Append(rng, rec), Inputs)
    BY <1>2, <1>3, <1>5, <1>6
  <1> QED
    BY <1>6 DEF l, r

LEMMA FIFOStep ==
    ASSUME TypeOK, OwnRecords, PerRingFIFO, Next
    PROVE  OwnRecords' /\ PerRingFIFO'
  <1> DEFINE FIFO == \A s \in Sources : Only(accepted[s], Inputs)
                        = InOrder(s, delivered, events.buf, held[s], ring[s])
  <1>a. FIFO /\ (FIFO' => PerRingFIFO')
    BY PerRingFIFODef DEF PerRingFIFO, InOrder, From
  <1>b. /\ delivered \in Seq(Inputs) /\ events.buf \in Seq(Inputs)
        /\ ring \in [Sources -> Seq(Inputs \cup Garbled)] /\ held \in [Sources -> Seq(Inputs)]
        /\ accepted \in [Sources -> Seq(Inputs \cup Garbled)]
        /\ loop \in [Sources -> {"none", "read", "sendEvent", "sendDecodeErr", "sendReadErr",
                                 "returned"}]
    BY DEF TypeOK, ChanOf
  <1>c. \A s : Only(delivered, From(s)) \in Seq(Inputs) /\ Only(events.buf, From(s)) \in Seq(Inputs)
    <2> SUFFICES ASSUME NEW s
                 PROVE  Only(delivered, From(s)) \in Seq(Inputs)
                        /\ Only(events.buf, From(s)) \in Seq(Inputs)
      OBVIOUS
    <2>1. From(s) \subseteq Inputs
      BY DEF From
    <2>2. Only(delivered, From(s)) \in Seq(From(s)) /\ Only(events.buf, From(s)) \in Seq(From(s))
      BY <1>b, OnlyType
    <2> QED
      BY <2>1, <2>2, SeqMonotonic
  <1> SUFFICES OwnRecords' /\ FIFO'
    BY <1>a
  <1>1. ASSUME UNCHANGED <<ring, held, accepted, delivered>>, events'.buf = events.buf
        PROVE  OwnRecords' /\ FIFO'
    BY <1>1, <1>a DEF OwnRecords
  <1>2. CASE SetupStep \/ SetupFail \/ Run \/ CallClose \/ Closing \/ CloseErrs \/ TakeErr \/ Terminated
    BY <1>1, <1>2 DEF SetupStep, SetupFail, Run, CallClose, Closing, CloseRd, CloseTLSRd, CloseReader,
          CloseLink, CloseObjs, CloseErrs, TakeErr, Terminated, readerVars, vars
  <1>3. CASE CloseEvents
    <2>1. events'.buf = events.buf
      BY <1>3 DEF CloseEvents, CloseChan
    <2> QED
      BY <1>1, <1>3, <2>1 DEF CloseEvents, readerVars
  <1>4. ASSUME NEW rec \in Inputs \cup Garbled, Submit(rec) PROVE OwnRecords' /\ FIFO'
    <2> DEFINE s == SourceOf(rec)
    <2>1. /\ s \in Sources
          /\ ring' = [ring EXCEPT ![s] = Append(ring[s], rec)]
          /\ accepted' = [accepted EXCEPT ![s] = Append(accepted[s], rec)]
          /\ UNCHANGED <<held, events, delivered>>
      BY <1>4 DEF Submit, readerVars
    <2>2. rec \in Of(s)
      BY DEF Of
    <2> HIDE DEF s
    <2>3. /\ ring'[s] = Append(ring[s], rec) /\ accepted'[s] = Append(accepted[s], rec)
          /\ \A x \in Sources \ {s} : ring'[x] = ring[x] /\ accepted'[x] = accepted[x]
      BY <1>b, <2>1
    <2>4. Append(ring[s], rec) \in Seq(Of(s))
      BY <2>1, <2>2 DEF OwnRecords
    <2>5. OwnRecords'
      BY <2>1, <2>3, <2>4 DEF OwnRecords
    <2>6. Only(Append(accepted[s], rec), Inputs)
             = InOrder(s, delivered, events.buf, held[s], Append(ring[s], rec))
      <3>1. /\ ring[s] \in Seq(Inputs \cup Garbled) /\ accepted[s] \in Seq(Inputs \cup Garbled)
            /\ held[s] \in Seq(Inputs)
            /\ Only(accepted[s], Inputs) = InOrder(s, delivered, events.buf, held[s], ring[s])
        BY <1>a, <1>b, <2>1
      <3> DEFINE a == Only(delivered, From(s)) \o Only(events.buf, From(s)) \o held[s]
                 acc == accepted[s]
                 rng == ring[s]
                 U == Inputs \cup Garbled
      <3>2. a \in Seq(Inputs)
        <4>1. Only(delivered, From(s)) \in Seq(Inputs) /\ Only(events.buf, From(s)) \in Seq(Inputs)
          BY <1>c
        <4> QED
          BY <3>1, <4>1
      <3>3. acc \in Seq(U) /\ rng \in Seq(U) /\ rec \in U
        BY <3>1
      <3>4. Only(acc, Inputs) = a \o Only(rng, Inputs)
        BY <3>1 DEF InOrder
      <3> HIDE DEF a, acc, rng, U
      <3>5. Only(acc, Inputs) = a \o Only(rng, Inputs)
              => Only(Append(acc, rec), Inputs) = a \o Only(Append(rng, rec), Inputs)
        BY <3>2, <3>3, InOrderSubmit
      <3> QED
        BY <3>4, <3>5 DEF InOrder, a, acc, rng
    <2>7. FIFO'
      BY <1>a, <2>1, <2>3, <2>6
    <2> QED
      BY <2>5, <2>7
  <1>5. ASSUME NEW s \in Sources, ReadRecord(s) PROVE OwnRecords' /\ FIFO'
    <2> DEFINE h == Head(ring[s])
    <2>1. /\ loop[s] = "read" /\ ring[s] # <<>> /\ ring' = [ring EXCEPT ![s] = Tail(ring[s])]
          /\ held' = IF h \in Garbled THEN held ELSE [held EXCEPT ![s] = <<h>>]
          /\ UNCHANGED <<events, accepted, delivered>>
      BY <1>5 DEF ReadRecord
    <2>2. held[s] = <<>>
      BY <1>b, <2>1 DEF TypeOK
    <2>3. /\ ring'[s] = Tail(ring[s]) /\ held'[s] = IF h \in Garbled THEN <<>> ELSE <<h>>
          /\ \A x \in Sources \ {s} : ring'[x] = ring[x] /\ held'[x] = held[x]
      BY <1>b, <2>1, <2>2
    <2>4. ring[s] \in Seq(Of(s)) /\ Tail(ring[s]) \in Seq(Of(s)) /\ h \in Of(s)
      BY <2>1 DEF OwnRecords
    <2>5. h \notin Garbled => <<h>> \in Seq(From(s))
      BY <2>4 DEF Of, From
    <2>6. InOrder(s, delivered, events.buf, <<>>, ring[s])
             = InOrder(s, delivered, events.buf, IF h \in Garbled THEN <<>> ELSE <<h>>, Tail(ring[s]))
      BY <1>b, <2>1, InOrderRead
    <2> HIDE DEF h
    <2>7. OwnRecords'
      BY <2>2, <2>3, <2>4, <2>5 DEF OwnRecords
    <2>8. FIFO'
      BY <1>a, <2>1, <2>2, <2>3, <2>6
    <2> QED
      BY <2>7, <2>8
  <1>6. ASSUME NEW s \in Sources, ReadClosed(s) \/ ReadError(s) \/ SendErr(s)
        PROVE  OwnRecords' /\ FIFO'
    BY <1>1, <1>6 DEF ReadClosed, ReadError, SendErr
  <1>7. ASSUME NEW s \in Sources, SendEvent(s) PROVE OwnRecords' /\ FIFO'
    <2> DEFINE h == held[s][1]
    <2>1. /\ loop[s] = "sendEvent" /\ events' = Send(events, h)
          /\ held' = [held EXCEPT ![s] = <<>>] /\ UNCHANGED <<ring, accepted, delivered>>
      BY <1>7 DEF SendEvent
    <2>2. events'.buf = Append(events.buf, h)
      BY <2>1 DEF Send
    <2>3. held[s] \in Seq(From(s)) /\ Len(held[s]) = 1
      BY <2>1 DEF TypeOK, OwnRecords
    <2>4. held[s] = <<h>> /\ h \in From(s)
      BY <2>3, SingletonSeq
    <2>5. h \in Inputs /\ \A x \in Sources \ {s} : h \notin From(x)
      BY <2>4 DEF From
    <2>6. held'[s] = <<>> /\ \A x \in Sources \ {s} : held'[x] = held[x]
      BY <1>b, <2>1
    <2> HIDE DEF h
    <2>7. OwnRecords'
      <3>1. <<>> \in Seq(From(s))
        OBVIOUS
      <3> QED
        BY <2>1, <2>6, <3>1 DEF OwnRecords
    <2>8. InOrder(s, delivered, events.buf, <<h>>, ring[s])
             = InOrder(s, delivered, events'.buf, <<>>, ring[s])
      <3> DEFINE F == From(s)
                 a == Only(delivered, F)
                 buf == events.buf
      <3>1. a \in Seq(F) /\ buf \in Seq(Inputs) /\ h \in Inputs /\ h \in F
        BY <1>b, <2>4, <2>5, OnlyType
      <3> HIDE DEF F, a, buf
      <3>2. (a \o Only(buf, F)) \o <<h>> = (a \o Only(Append(buf, h), F)) \o <<>>
        BY <3>1, InOrderSend
      <3> QED
        BY <2>2, <3>2 DEF InOrder, F, a, buf
    <2>9. ASSUME NEW x \in Sources \ {s}
          PROVE  InOrder(x, delivered, events.buf, held[x], ring[x])
                    = InOrder(x, delivered, events'.buf, held[x], ring[x])
      <3> DEFINE F == From(x)
                 buf == events.buf
      <3>1. buf \in Seq(Inputs) /\ h \in Inputs /\ h \notin F
        BY <1>b, <2>5, <2>9
      <3> HIDE DEF F, buf
      <3>2. Only(Append(buf, h), F) = Only(buf, F)
        BY <3>1, OnlyOther
      <3> QED
        BY <2>2, <3>2 DEF InOrder, F, buf
    <2>10. FIFO'
      BY <1>a, <2>1, <2>2, <2>4, <2>6, <2>8, <2>9
    <2> QED
      BY <2>7, <2>10
  <1>8. CASE TakeEvent
    <2>1. /\ events.buf # <<>> /\ delivered' = Append(delivered, Head(events.buf))
          /\ events'.buf = Tail(events.buf) /\ UNCHANGED <<ring, held, accepted>>
      BY <1>8 DEF TakeEvent, HasValue, Receive, readerVars
    <2>2. \A s \in Sources :
             InOrder(s, delivered, events.buf, held[s], ring[s])
                = InOrder(s, Append(delivered, Head(events.buf)), Tail(events.buf), held[s], ring[s])
      BY <1>b, <2>1, InOrderTake
    <2>3. FIFO'
      BY <1>a, <2>1, <2>2
    <2> QED
      BY <2>1, <2>3 DEF OwnRecords
  <1> QED
    BY <1>2, <1>3, <1>4, <1>5, <1>6, <1>7, <1>8 DEF Next, Reader, Waiter

-----------------------------------------------------------------------------
(* The theorems.                                                           *)

IInv ==
    /\ TypeOK /\ ReadersBeforeClose /\ TeardownOrder
    /\ OwnRecords /\ PerRingFIFO

LEMMA InitInv == Init => IInv
  <1> SUFFICES ASSUME Init PROVE IInv
    OBVIOUS
  <1>1. TypeOK
    BY TypeInit
  <1>2. ReadersBeforeClose
    BY DEF Init, ReadersBeforeClose, MakeChan
  <1>3. TeardownOrder
    BY DEF Init, TeardownOrder
  <1>4. \A s \in Sources : ring[s] = <<>> /\ held[s] = <<>> /\ accepted[s] = <<>>
    BY DEF Init
  <1>5. events.buf = <<>> /\ delivered = <<>>
    BY DEF Init, MakeChan
  <1>6. \A T : <<>> \in Seq(T) /\ Only(<<>>, T) = <<>>
    BY OnlyEmpty
  <1>7. OwnRecords
    BY <1>4, <1>6 DEF OwnRecords
  <1>8. PerRingFIFO
    <2>1. ((<<>> \o <<>>) \o <<>>) \o <<>> = <<>>
      OBVIOUS
    <2> QED
      BY <1>4, <1>5, <1>6, <2>1 DEF PerRingFIFO
  <1> QED
    BY <1>1, <1>2, <1>3, <1>7, <1>8 DEF IInv

LEMMA StepInv == IInv /\ [Next]_vars => IInv'
  <1> SUFFICES ASSUME IInv, [Next]_vars PROVE IInv'
    OBVIOUS
  <1>1. CASE Next
    <2>1. TypeOK /\ ReadersBeforeClose /\ TeardownOrder /\ OwnRecords /\ PerRingFIFO
      BY DEF IInv
    <2>2. TypeOK'
      <3>1. CASE Terminated
        BY <2>1, <3>1 DEF Terminated, vars, TypeOK
      <3> QED
        BY <1>1, <2>1, <3>1, TypeSetup, TypeRun, TypeSubmit, TypeReader, TypeTake DEF Next
    <2> QED
      BY <1>1, <2>1, <2>2, ReadersStep, TeardownStep, FIFOStep DEF IInv
  <1>2. CASE UNCHANGED vars
    BY <1>2 DEF IInv, vars, TypeOK, ReadersBeforeClose, TeardownOrder, OwnRecords, PerRingFIFO
  <1> QED
    BY <1>1, <1>2

LEMMA CollectorInv == Spec => []IInv
  BY InitInv, StepInv, PTL DEF Spec

\* Every variable of the collector has its type and no ring or channel
\* exceeds its capacity.
THEOREM CollectorTypeOK == Spec => []TypeOK
  <1>1. IInv => TypeOK
    BY DEF IInv
  <1> QED
    BY <1>1, CollectorInv, PTL

\* No reader is ever about to send on a channel that Run's waiting goroutine
\* has closed.
THEOREM CollectorNoSendOnClosed == Spec => []NoSendOnClosed
  <1>1. IInv => NoSendOnClosed
    BY DEF IInv, ReadersBeforeClose, NoSendOnClosed
  <1> QED
    BY <1>1, CollectorInv, PTL

\* From each ring, what consumers receive is what the kernel submitted, in
\* that order, without loss or duplication.
THEOREM CollectorPerRingFIFO == Spec => []PerRingFIFO
  <1>1. IInv => PerRingFIFO
    BY DEF IInv
  <1> QED
    BY <1>1, CollectorInv, PTL

\* In the end no probe stays attached, no reader open and no object loaded,
\* whichever step of New or EnableTLS failed, but for what New had loaded when
\* it could not read the clock.
THEOREM CollectorCloseReleasesAll == Spec => []CloseReleasesAll
  <1>1. IInv => CloseReleasesAll
    <2> SUFFICES ASSUME IInv, Over PROVE CloseReleasesAll
      BY DEF CloseReleasesAll
    <2>1. TeardownOrder /\ setup \in Nat
      BY SetupStepsFact DEF IInv, TypeOK
    <2>2. CASE closer = "done"
      BY <2>1, <2>2, SourcesFact DEF TeardownOrder, CloseReleasesAll
    <2>3. CASE main = "failed" /\ closer = "idle"
      <3>1. setup < Clock /\ links = <<>> /\ \A s \in Sources : rd[s] # "open"
        BY <2>1, <2>3 DEF TeardownOrder
      <3>2. objs # {} => setup + 1 = Clock
        BY <2>1, <3>1 DEF TeardownOrder, Clock
      <3> QED
        BY <2>3, <3>1, <3>2 DEF CloseReleasesAll
    <2> QED
      BY <2>2, <2>3 DEF Over
  <1> QED
    BY <1>1, CollectorInv, PTL

=============================================================================
