----------------------------- MODULE Collector ------------------------------
(***************************************************************************)
(* internal/collector: attaching the probes (New, EnableTLS), one reader   *)
(* goroutine per ring buffer and the goroutine that closes the channels    *)
(* after them (Run), and the teardown that races all of these (Close).     *)
(*                                                                         *)
(* The ring buffers and their reader are the kernel's and cilium/ebpf's:   *)
(* a probe submits a record if there is room and drops it silently if not; *)
(* Read returns the oldest record, blocks on an empty ring, and fails with *)
(* ErrClosed from the moment the reader is closed, so that what a ring     *)
(* still holds then is lost.                                               *)
(***************************************************************************)
EXTENDS Channels, Events, FiniteSets, SequencesExt

CONSTANTS
    TLS,        \* whether --tls was given: EnableTLS is called after New
    Inputs,     \* the events the probes can submit
    Garbled,    \* records decodeEvent rejects (none, with the shipped programs)
    RingCap,    \* records that fit in a ring buffer
    EventsCap,  \* capacity of events
    ErrsCap,    \* capacity of errs
    MaxSubmits, \* bound: records ever submitted
    MaxFaults   \* bound: ring buffer read errors other than ErrClosed

ASSUME CollectorAssumption ==
    /\ TLS \in BOOLEAN /\ RingCap \in Nat \ {0} /\ EventsCap \in Nat \ {0}
    /\ ErrsCap \in Nat \ {0} /\ MaxSubmits \in Nat /\ MaxFaults \in Nat
    /\ Inputs \cap Garbled = {}
    /\ \A rec \in Inputs \cup Garbled : rec.op \in Ops

VARIABLES
    setup,      \* steps of New and EnableTLS done so far
    objs,       \* c.objs and c.tlsObjs: the rings whose maps and programs are loaded
    links,      \* c.links: the probes attached, in order
    rd,         \* c.rd and c.tlsRd: "nil", "open" or "closed", by ring
    ring,       \* the ring buffers
    main,       \* "setup", then "run" once Run was called, or "failed"
    loop,       \* where each readLoop is
    held,       \* what each readLoop is about to send, at most one value
    waiter,     \* where the goroutine that waits for the readers is
    closer,     \* where Close is
    events, errs,
    faults,     \* read errors so far
    accepted,   \* history: what each ring ever accepted
    delivered   \* environment, history: what was received from events

readerVars == <<loop, held, faults>>
setupVars == <<setup, objs, main>>
vars == <<setup, objs, links, rd, ring, main, loop, held, waiter, closer, events, errs,
          faults, accepted, delivered>>

-----------------------------------------------------------------------------
Sources == IF TLS THEN {"syscall", "tls"} ELSE {"syscall"}

\* What New and then EnableTLS do, in order; each step can fail.
SyscallSteps ==
    <<"objs", "clock", "connect", "write", "enter_read", "exit_read", "close", "rd">>
TLSSteps == <<"tlsObjs", "SSL_write", "SSL_read", "SSL_read_ret", "tlsRd">>
SetupSteps == IF TLS THEN SyscallSteps \o TLSSteps ELSE SyscallSteps
Clock == 2      \* New's step "clock"

\* The probe whose program submits events of an operation.  The exit probe of
\* a read is attached after the entry probe it needs.
ProbeOf(op) == CASE op = "read" -> "exit_read"
                 [] op = "ssl_write" -> "SSL_write"
                 [] op = "ssl_read" -> "SSL_read_ret"
                 [] OTHER -> op

SourceOf(rec) ==
    IF rec.op \in {"ssl_write", "ssl_read"} THEN "tls" ELSE "syscall"

Init ==
    /\ setup = 0 /\ objs = {} /\ links = <<>> /\ main = "setup"
    /\ rd = [s \in Sources |-> "nil"] /\ ring = [s \in Sources |-> <<>>]
    /\ loop = [s \in Sources |-> "none"] /\ held = [s \in Sources |-> <<>>]
    /\ waiter = "none" /\ closer = "idle"
    /\ events = MakeChan /\ errs = MakeChan /\ faults = 0
    /\ accepted = [s \in Sources |-> <<>>] /\ delivered = <<>>

-----------------------------------------------------------------------------
(* New and EnableTLS.                                                      *)

SetupStep ==
    /\ main = "setup" /\ setup < Len(SetupSteps)
    /\ LET step == SetupSteps[setup + 1] IN
         CASE step = "objs" -> objs' = objs \cup {"syscall"} /\ UNCHANGED <<links, rd>>
           [] step = "tlsObjs" -> objs' = objs \cup {"tls"} /\ UNCHANGED <<links, rd>>
           [] step = "clock" -> UNCHANGED <<objs, links, rd>>
           [] step = "rd" -> rd' = [rd EXCEPT !["syscall"] = "open"] /\ UNCHANGED <<objs, links>>
           [] step = "tlsRd" -> rd' = [rd EXCEPT !["tls"] = "open"] /\ UNCHANGED <<objs, links>>
           [] OTHER -> links' = Append(links, step) /\ UNCHANGED <<objs, rd>>
    /\ setup' = setup + 1
    /\ UNCHANGED <<ring, main, readerVars, waiter, closer, events, errs, accepted, delivered>>

\* A failing step: New calls Close itself once it has made the Collector,
\* after it has read the clock, and after EnableTLS the caller's deferred
\* Close is run.
SetupFail ==
    /\ main = "setup" /\ setup < Len(SetupSteps)
    /\ main' = "failed" /\ closer' = IF setup < Clock THEN closer ELSE "rd"
    /\ UNCHANGED <<setup, objs, links, rd, ring, readerVars, waiter, events, errs, accepted, delivered>>

\* Run: one reader per ring, and the goroutine that waits for all of them.
Run ==
    /\ main = "setup" /\ setup = Len(SetupSteps)
    /\ main' = "run" /\ waiter' = "wait"
    /\ loop' = [s \in Sources |-> "read"]
    /\ UNCHANGED <<setup, objs, links, rd, ring, held, faults, closer, events, errs, accepted, delivered>>

-----------------------------------------------------------------------------
(* The probes, in the kernel.                                              *)

Submitted == IF TLS THEN Len(accepted["syscall"]) + Len(accepted["tls"])
             ELSE Len(accepted["syscall"])

\* A record is reserved and submitted; with a full ring the event is dropped,
\* which changes nothing.
Submit(rec) ==
    LET s == SourceOf(rec) IN
    /\ s \in Sources /\ Submitted < MaxSubmits
    /\ ProbeOf(rec.op) \in ToSet(links)
    /\ Len(ring[s]) < RingCap
    /\ ring' = [ring EXCEPT ![s] = Append(@, rec)]
    /\ accepted' = [accepted EXCEPT ![s] = Append(@, rec)]
    /\ UNCHANGED <<setupVars, links, rd, readerVars, waiter, closer, events, errs, delivered>>

-----------------------------------------------------------------------------
(* readLoop.                                                               *)

\* rd.Read returns a record, which decodes or does not.
MutReadRecordIgnoresDecodeError(s) ==
    /\ loop[s] = "read" /\ rd[s] = "open" /\ ring[s] # <<>>
    /\ ring' = [ring EXCEPT ![s] = Tail(@)]
    /\ loop' = [loop EXCEPT ![s] = "sendEvent"]
    /\ held' = [held EXCEPT ![s] = <<Head(ring[s])>>]
    /\ UNCHANGED <<setupVars, links, rd, waiter, closer, events, errs, faults, accepted, delivered>>
ReadRecord(s) ==
    /\ loop[s] = "read" /\ rd[s] = "open" /\ ring[s] # <<>>
    /\ ring' = [ring EXCEPT ![s] = Tail(@)]
    /\ IF Head(ring[s]) \in Garbled
       THEN /\ loop' = [loop EXCEPT ![s] = "sendDecodeErr"]
            /\ UNCHANGED held
       ELSE /\ loop' = [loop EXCEPT ![s] = "sendEvent"]
            /\ held' = [held EXCEPT ![s] = <<Head(ring[s])>>]
    /\ UNCHANGED <<setupVars, links, rd, waiter, closer, events, errs, faults, accepted, delivered>>

\* rd.Read fails with ErrClosed: the reader returns, silently.
MutReadClosedRetries(s) == loop[s] = "read" /\ rd[s] = "closed" /\ UNCHANGED vars
ReadClosed(s) ==
    /\ loop[s] = "read" /\ rd[s] = "closed"
    /\ loop' = [loop EXCEPT ![s] = "returned"]
    /\ UNCHANGED <<setupVars, links, rd, ring, held, faults, waiter, closer, events, errs,
                   accepted, delivered>>

\* rd.Read fails in another way: the error is reported and the reader returns.
ReadError(s) ==
    /\ loop[s] = "read" /\ rd[s] = "open" /\ faults < MaxFaults
    /\ faults' = faults + 1
    /\ loop' = [loop EXCEPT ![s] = "sendReadErr"]
    /\ UNCHANGED <<setupVars, links, rd, ring, held, waiter, closer, events, errs,
                   accepted, delivered>>

\* events <- ev blocks for as long as the channel is full, closed ring or not.
MutSendEventDropsWhenFull(s) ==
    /\ loop[s] = "sendEvent"
    /\ events' = IF HasRoom(events, EventsCap) THEN Send(events, held[s][1]) ELSE events
    /\ held' = [held EXCEPT ![s] = <<>>]
    /\ loop' = [loop EXCEPT ![s] = "read"]
    /\ UNCHANGED <<setupVars, links, rd, ring, waiter, closer, errs, faults, accepted, delivered>>
SendEvent(s) ==
    /\ loop[s] = "sendEvent" /\ HasRoom(events, EventsCap)
    /\ events' = Send(events, held[s][1])
    /\ held' = [held EXCEPT ![s] = <<>>]
    /\ loop' = [loop EXCEPT ![s] = "read"]
    /\ UNCHANGED <<setupVars, links, rd, ring, waiter, closer, errs, faults, accepted, delivered>>

\* errs <- err, after which a decode error continues and a read error returns.
SendErr(s) ==
    /\ loop[s] \in {"sendDecodeErr", "sendReadErr"} /\ HasRoom(errs, ErrsCap)
    /\ errs' = Send(errs, loop[s])
    /\ loop' = [loop EXCEPT ![s] = IF @ = "sendDecodeErr" THEN "read" ELSE "returned"]
    /\ UNCHANGED <<setupVars, links, rd, ring, held, faults, waiter, closer, events,
                   accepted, delivered>>

-----------------------------------------------------------------------------
(* The goroutine that closes the channels.                                 *)

\* wg.Wait returns once every reader has; then close(events), close(errs).
MutCloseEventsAfterFirst ==
    /\ waiter = "wait" /\ \E s \in Sources : loop[s] = "returned"
    /\ events' = CloseChan(events) /\ waiter' = "closeErrs"
    /\ UNCHANGED <<setupVars, links, rd, ring, readerVars, closer, errs, accepted, delivered>>
CloseEvents ==
    /\ waiter = "wait" /\ \A s \in Sources : loop[s] = "returned"
    /\ events' = CloseChan(events) /\ waiter' = "closeErrs"
    /\ UNCHANGED <<setupVars, links, rd, ring, readerVars, closer, errs, accepted, delivered>>

CloseErrs ==
    /\ waiter = "closeErrs"
    /\ errs' = CloseChan(errs) /\ waiter' = "done"
    /\ UNCHANGED <<setupVars, links, rd, ring, readerVars, closer, events, accepted, delivered>>

-----------------------------------------------------------------------------
(* Close: the readers first, then the links, then the maps and programs.   *)

\* Only a collector New returned is closed this way, before or after Run.
CallClose ==
    /\ main # "failed" /\ setup = Len(SetupSteps) /\ closer = "idle"
    /\ closer' = "rd"
    /\ UNCHANGED <<setupVars, links, rd, ring, readerVars, waiter, events, errs, accepted, delivered>>

\* if c.rd != nil { c.rd.Close() }
CloseReader(s, from, to) ==
    /\ closer = from
    /\ rd' = IF s \in Sources /\ rd[s] = "open" THEN [rd EXCEPT ![s] = "closed"] ELSE rd
    /\ closer' = to
    /\ UNCHANGED <<setupVars, links, ring, readerVars, waiter, events, errs, accepted, delivered>>

CloseRd == CloseReader("syscall", "rd", "tlsRd")

MutCloseTLSRdSkipped ==
    /\ closer = "tlsRd" /\ closer' = "links"
    /\ UNCHANGED <<setupVars, rd, links, ring, readerVars, waiter, events, errs, accepted, delivered>>
CloseTLSRd == CloseReader("tls", "tlsRd", "links")

CloseLink ==
    /\ closer = "links" /\ links # <<>>
    /\ links' = Tail(links)
    /\ UNCHANGED <<setupVars, rd, ring, readerVars, waiter, closer, events, errs, accepted, delivered>>

\* c.objs.Close(); if c.tlsEnabled { c.tlsObjs.Close() }
CloseObjs ==
    /\ closer = "links" /\ links = <<>>
    /\ closer' = "done" /\ objs' = {}
    /\ UNCHANGED <<setup, main, links, rd, ring, readerVars, waiter, events, errs, accepted, delivered>>

-----------------------------------------------------------------------------
(* The environment: the consumers of the two channels.                     *)

TakeEvent ==
    /\ HasValue(events)
    /\ delivered' = Append(delivered, Head(events.buf)) /\ events' = Receive(events)
    /\ UNCHANGED <<setupVars, links, rd, ring, readerVars, waiter, closer, errs, accepted>>

TakeErr ==
    /\ HasValue(errs)
    /\ errs' = Receive(errs)
    /\ UNCHANGED <<setupVars, links, rd, ring, readerVars, waiter, closer, events,
                   accepted, delivered>>

\* Close has returned, or New has without calling it.
Over == closer = "done" \/ (main = "failed" /\ closer = "idle")

Terminated ==
    /\ Over /\ waiter \in {"none", "done"}
    /\ main \in {"run", "failed"}
    /\ ~HasValue(events) /\ ~HasValue(errs)
    /\ UNCHANGED vars

Reader(s) == ReadRecord(s) \/ ReadClosed(s) \/ SendEvent(s) \/ SendErr(s)
Waiter == CloseEvents \/ CloseErrs
Closing == CloseRd \/ CloseTLSRd \/ CloseLink \/ CloseObjs

Next ==
    \/ SetupStep \/ SetupFail \/ Run
    \/ \E rec \in Inputs \cup Garbled : Submit(rec)
    \/ \E s \in Sources : Reader(s) \/ ReadError(s)
    \/ Waiter \/ CallClose \/ Closing
    \/ TakeEvent \/ TakeErr \/ Terminated

\* Goroutines that can run do, and the channels have receivers; probes, read
\* errors and the call of Close need not ever happen.
Fairness ==
    /\ \A s \in Sources : WF_vars(Reader(s))
    /\ WF_vars(Waiter) /\ WF_vars(Closing) /\ WF_vars(TakeEvent) /\ WF_vars(TakeErr)

Spec == Init /\ [][Next]_vars /\ Fairness

-----------------------------------------------------------------------------
(* Properties.                                                             *)

\* Every variable has its type, no channel or ring exceeds its capacity, and
\* a reader holds an event exactly while it is sending it.
TypeOK ==
    /\ setup \in 0 .. Len(SetupSteps) /\ links \in Seq(ToSet(SetupSteps))
    /\ objs \subseteq {"syscall", "tls"}
    /\ main \in {"setup", "run", "failed"} /\ rd \in [Sources -> {"nil", "open", "closed"}]
    /\ loop \in [Sources -> {"none", "read", "sendEvent", "sendDecodeErr", "sendReadErr",
                             "returned"}]
    /\ waiter \in {"none", "wait", "closeErrs", "done"}
    /\ closer \in {"idle", "rd", "tlsRd", "links", "done"}
    /\ events \in ChanOf(Inputs) /\ Len(events.buf) <= EventsCap
    /\ errs \in ChanOf({"sendDecodeErr", "sendReadErr"}) /\ Len(errs.buf) <= ErrsCap
    /\ ring \in [Sources -> Seq(Inputs \cup Garbled)] /\ held \in [Sources -> Seq(Inputs)]
    /\ \A s \in Sources :
          Len(ring[s]) <= RingCap /\ Len(held[s]) = (IF loop[s] = "sendEvent" THEN 1 ELSE 0)
    /\ accepted \in [Sources -> Seq(Inputs \cup Garbled)]
    /\ delivered \in Seq(Inputs) /\ faults \in 0 .. MaxFaults

\* No reader sends on a channel the waiting goroutine has closed (a panic in
\* Go), however the two readers' returns interleave with errors and Close.
NoSendOnClosed ==
    \A s \in Sources :
        loop[s] \in {"read", "sendEvent", "sendDecodeErr", "sendReadErr"}
           => ~events.closed /\ ~errs.closed

\* From one ring, events are delivered in the order the kernel accepted them,
\* none lost or duplicated on the way: the only ones that never arrive are
\* those the ring still holds when its reader stops, and garbled records.
PerRingFIFO ==
    \A s \in Sources :
        LET from == {rec \in Inputs : SourceOf(rec) = s}
        IN  Only(accepted[s], Inputs)
               = Only(delivered, from) \o Only(events.buf, from) \o held[s]
                    \o Only(ring[s], Inputs)

\* "Close releases all BPF resources": at whichever step New or EnableTLS
\* failed and whatever the readers do, in the end no probe stays attached, no
\* reader open and no map or program loaded.  One failure is excepted: New
\* returns without Close when it cannot read the clock, and what it has
\* loaded by then stays loaded.
CloseReleasesAll ==
    Over => /\ links = <<>> /\ \A s \in Sources : rd[s] # "open"
            /\ objs # {} => main = "failed" /\ setup + 1 = Clock

\* Once Close is called, both channels get closed, so that everything that
\* ranges over them ends.
ClosedAfterClose ==
    (main = "run" /\ closer # "idle") ~> (events.closed /\ errs.closed)
=============================================================================
