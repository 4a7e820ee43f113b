--------------------------- MODULE RecordSession ----------------------------
(***************************************************************************)
(* `wiremark record': the collector and the streamer composed as recordCmd *)
(* composes them.  They share the events channel; the streamer's rawOut is *)
(* discarded (`_, exchanges := streamer.Run(events)'), so nothing ever     *)
(* receives from raw; main collects the exchanges until their channel      *)
(* closes, builds the test case and writes it.  Ctrl-C wakes a goroutine   *)
(* that closes the collector, once, however often it is pressed.           *)
(***************************************************************************)
EXTENDS Channels, Events, FiniteSets, SequencesExt

CONSTANTS
    Byte, Inputs, Garbled, DecodeHTTP(_, _), DecodeRESP(_, _),
    BufCap, RingCap, EventsCap, ErrsCap, RawCap, OutCap,
    MaxSubmits, MaxFaults,
    MaxSignals      \* bound: how often Ctrl-C is pressed

ASSUME SessionAssumption ==
    /\ MaxSignals \in Nat /\ MaxSubmits \in Nat /\ MaxFaults \in Nat /\ BufCap \in Nat
    /\ RingCap \in Nat \ {0} /\ EventsCap \in Nat \ {0} /\ ErrsCap \in Nat \ {0}
    /\ RawCap \in Nat \ {0} /\ OutCap \in Nat \ {0}
    /\ Inputs \cap Garbled = {} /\ \A rec \in Garbled : rec.op \in Ops
    /\ \A ev \in Inputs :
          /\ ev.op \in Ops /\ ev.pid \in Nat /\ ev.fd \in Int /\ ev.ssl \in Nat
          /\ -FdSpan <= 2 * ev.fd /\ 2 * ev.fd < FdSpan       \* an int32
          /\ ev.total \in Nat /\ ev.data \in Seq(Byte)

VARIABLES
    setup, objs, links, rd, ring, main, loop, held, waiter, closer, events, errs,
    faults, accepted,                   \* the collector's (module Collector)
    raw, out, pc, cur, bufs, todo,      \* the streamer's (module Streamer)
    mainpc,     \* recordCmd: "new", "collect", "build", "defer", "returned"
    collected,  \* recordCmd's slice of exchanges
    file,       \* what was written to --output, at most one test case
    sigCh,      \* signals waiting in sigCh (capacity 1)
    sigpc,      \* the goroutine waiting for a signal: "wait", "close", "done"
    signals     \* how often Ctrl-C was pressed

TLS == FALSE

\* Nothing receives from raw, so what the streamer has passed on is all there.
Passed == raw.buf
Received == Passed \o (IF pc = "raw" THEN cur ELSE <<>>)

C == INSTANCE Collector WITH delivered <- Received
S == INSTANCE Streamer WITH
        sent <- Received \o events.buf, rawTaken <- <<>>, outTaken <- collected,
        MaxEvents <- MaxSubmits
R == INSTANCE Recorder

collectorVars == <<setup, objs, links, rd, ring, main, loop, held, waiter, closer, errs,
                   faults, accepted>>
streamerVars == <<raw, out, pc, cur, bufs, todo>>
sessionVars == <<mainpc, collected, file, sigCh, sigpc, signals>>
vars == <<collectorVars, events, streamerVars, sessionVars>>

Init ==
    /\ S!Init /\ C!Init
    /\ mainpc = "new" /\ collected = <<>> /\ file = <<>>
    /\ sigCh = 0 /\ sigpc = "wait" /\ signals = 0

-----------------------------------------------------------------------------
(* main.                                                                   *)

\* collector.New, and the return when it fails.
New == mainpc = "new" /\ UNCHANGED <<streamerVars, sessionVars>> /\ C!SetupStep

NewFails ==
    /\ mainpc = "new" /\ mainpc' = "defer"
    /\ UNCHANGED <<streamerVars, collected, file, sigCh, sigpc, signals>>
    /\ C!SetupFail

\* c.Run and streamer.Run: the goroutines start.
Start ==
    /\ mainpc = "new" /\ mainpc' = "collect"
    /\ UNCHANGED <<streamerVars, collected, file, sigCh, sigpc, signals>>
    /\ C!Run

\* for ex := range exchanges { collected = append(collected, ex) }
Collect ==
    /\ mainpc = "collect" /\ HasValue(out)
    /\ collected' = Append(collected, Head(out.buf)) /\ out' = Receive(out)
    /\ UNCHANGED <<collectorVars, events, raw, pc, cur, bufs, todo,
                   mainpc, file, sigCh, sigpc, signals>>

CollectEnds ==
    /\ mainpc = "collect" /\ Drained(out)
    /\ mainpc' = "build"
    /\ UNCHANGED <<collectorVars, events, streamerVars, collected, file, sigCh, sigpc, signals>>

\* recorder.Build, then storage.WriteYAML; either can fail, and writes nothing.
BuildAndWrite ==
    /\ mainpc = "build"
    /\ LET tc == R!Build(collected)
       IN  \/ tc.ok /\ file' = <<tc>>
           \/ UNCHANGED file
    /\ mainpc' = "defer"
    /\ UNCHANGED <<collectorVars, events, streamerVars, collected, sigCh, sigpc, signals>>

\* The deferred closeCollector: the first caller closes, any other waits for
\* it (sync.Once); after a failed New there is none to close.
DeferredClose ==
    /\ mainpc = "defer" /\ UNCHANGED <<streamerVars, sessionVars>>
    /\ C!CallClose

Return ==
    /\ mainpc = "defer" /\ C!Over
    /\ mainpc' = "returned"
    /\ UNCHANGED <<collectorVars, events, streamerVars, collected, file, sigCh, sigpc, signals>>

-----------------------------------------------------------------------------
(* Ctrl-C.                                                                 *)

\* signal.Notify sends without blocking: with sigCh full the signal is gone.
\* It is registered once New has returned.
CtrlC ==
    /\ mainpc # "returned" /\ main # "failed" /\ setup = Len(C!SetupSteps)
    /\ signals < MaxSignals
    /\ signals' = signals + 1 /\ sigCh' = 1
    /\ UNCHANGED <<collectorVars, events, streamerVars, mainpc, collected, file, sigpc>>

\* <-sigCh; closeCollector()
MutOnSignalReturns ==
    /\ sigpc = "wait" /\ sigCh = 1
    /\ sigCh' = 0 /\ sigpc' = "close"
    /\ UNCHANGED <<collectorVars, events, streamerVars, mainpc, collected, file, signals>>
OnSignal ==
    /\ sigpc = "wait" /\ sigCh = 1
    /\ sigCh' = 0 /\ sigpc' = "close"
    /\ UNCHANGED <<streamerVars, mainpc, collected, file, signals>>
    /\ IF closer = "idle" THEN C!CallClose ELSE UNCHANGED <<collectorVars, events>>

SignalDone ==
    /\ sigpc = "close" /\ closer = "done"
    /\ sigpc' = "done"
    /\ UNCHANGED <<collectorVars, events, streamerVars, mainpc, collected, file, sigCh, signals>>

-----------------------------------------------------------------------------
(* The collector's and the streamer's own steps.                           *)

CollectorStep ==
    /\ UNCHANGED <<streamerVars, sessionVars>>
    /\ \/ \E rec \in Inputs \cup Garbled : C!Submit(rec)
       \/ C!ReadError("syscall")
ReaderStep == UNCHANGED <<streamerVars, sessionVars>> /\ C!Reader("syscall")
WaiterStep == UNCHANGED <<streamerVars, sessionVars>> /\ C!Waiter
CloserStep == UNCHANGED <<streamerVars, sessionVars>> /\ C!Closing
\* for err := range errs { ... }
ErrsStep == UNCHANGED <<streamerVars, sessionVars>> /\ C!TakeErr
StreamerStep == mainpc # "new" /\ S!Goroutine /\ UNCHANGED <<collectorVars, sessionVars>>

Main == New \/ Start \/ Collect \/ CollectEnds \/ BuildAndWrite \/ DeferredClose \/ Return

Running == mainpc # "returned"

Returned == mainpc = "returned" /\ UNCHANGED vars

\* The process ends when main returns.
Next ==
    \/ Running /\ (\/ Main \/ NewFails \/ CtrlC \/ OnSignal \/ SignalDone
                   \/ CollectorStep \/ ReaderStep \/ WaiterStep \/ CloserStep
                   \/ ErrsStep \/ StreamerStep)
    \/ Returned

\* Every goroutine that can run does.  Ctrl-C and traffic need not come.
Fairness ==
    /\ WF_vars(Main) /\ WF_vars(Running /\ OnSignal) /\ WF_vars(Running /\ SignalDone)
    /\ WF_vars(Running /\ ReaderStep) /\ WF_vars(Running /\ WaiterStep)
    /\ WF_vars(Running /\ CloserStep) /\ WF_vars(Running /\ ErrsStep)
    /\ WF_vars(Running /\ StreamerStep)

Spec == Init /\ [][Next]_vars /\ Fairness

-----------------------------------------------------------------------------
(* Properties.                                                             *)

\* Every variable of the session has its type; the collector's and the
\* streamer's own type invariants hold of their parts.
TypeOK ==
    /\ C!TypeOK /\ S!TypeOK
    /\ mainpc \in {"new", "collect", "build", "defer", "returned"}
    /\ sigCh \in {0, 1} /\ sigpc \in {"wait", "close", "done"} /\ signals \in 0 .. MaxSignals
    /\ Len(file) <= 1

\* A recording that was written is complete: every event the kernel accepted
\* was buffered and decoded, except those still in the ring when its reader
\* was closed, every connection lifetime that decodes was collected, and the
\* file is the test case of all that was collected.
RecordingComplete ==
    file # <<>> =>
        /\ out.closed /\ ~HasValue(out) /\ ~HasValue(events) /\ held["syscall"] = <<>>
        /\ Only(accepted["syscall"], Inputs) = Passed \o Only(ring["syscall"], Inputs)
        /\ S!ExchangesMatchHistory
        /\ file = <<R!Build(collected)>>

\* "Ctrl-C stops the recording": once the signal goroutine has woken, the
\* command returns, whatever the readers and the streamer were doing.
CtrlCFinishes == (sigpc # "wait") ~> (mainpc = "returned")

\* Dependencies are recorded in the order observed: a command captured before
\* another stands before it in the file.
DependenciesInOrderObserved ==
    \A tc \in ToSet(file) : \A i, j \in DOMAIN tc.dependencies :
        LET at(d) == {n \in DOMAIN Passed :
                        \E m \in DOMAIN Passed[n].data :
                            /\ Passed[n].op = "write" /\ Passed[n].data[m].t = "array"
                            /\ FlattenSeq(Passed[n].data[m].words) = d.request}
        IN  i < j => \E x \in at(tc.dependencies[i]), y \in at(tc.dependencies[j]) : x <= y
=============================================================================
