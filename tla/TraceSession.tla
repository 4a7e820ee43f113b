---------------------------- MODULE TraceSession ----------------------------
(***************************************************************************)
(* `wiremark trace' from the events channel on: the correlator, the        *)
(* streamer behind its raw output, and the TUI, whose three tabs consume   *)
(* the streamer's raw output, the connections and the exchanges, composed  *)
(* as traceCmd composes them.  Each stage blocks on its outputs, so a tab  *)
(* that stopped receiving would stop all of them.                          *)
(*                                                                         *)
(* The collector, which feeds and may end the events channel, and the user *)
(* are environment.  Quitting ends the process: the deferred c.Close waits *)
(* for no goroutine.                                                       *)
(***************************************************************************)
EXTENDS Correlator

CONSTANTS
    Byte, DecodeHTTP(_, _), DecodeRESP(_, _), BufCap,
    Raw2Cap, OutCap,    \* capacities of the streamer's outputs
    MaxRows

ASSUME TraceAssumption ==
    /\ MaxRows \in Nat \ {0} /\ BufCap \in Nat
    /\ Raw2Cap \in Nat \ {0} /\ OutCap \in Nat \ {0}
    /\ \A ev \in Inputs :
          /\ ev.ssl \in Nat /\ ev.data \in Seq(Byte)
          /\ -FdSpan <= 2 * ev.fd /\ 2 * ev.fd < FdSpan       \* an int32

VARIABLES
    raw2, out, spc, scur, bufs, todo,       \* the streamer's
    cmd, msg, evRows, connRows, httpRows, index, closed, active, running,
    shown                                   \* the TUI's

S == INSTANCE Streamer WITH
        events <- raw, raw <- raw2, pc <- spc, cur <- scur, EventsCap <- RawCap,
        RawCap <- Raw2Cap, sent <- handled, rawTaken <- shown["events"] \o msg["events"],
        outTaken <- shown["http"] \o msg["http"]
U == INSTANCE Tui WITH evCh <- raw2, connCh <- conns, exCh <- out

correlatorVars == <<pc, cur, tracked, nextSeq, handled, snaps>>
streamerVars == <<spc, scur, bufs, todo>>
tuiVars == <<cmd, msg, evRows, connRows, httpRows, index, closed, active, running, shown>>
traceVars == <<events, raw, conns, correlatorVars, raw2, out, streamerVars, tuiVars>>

TraceInit == U!Init /\ Init /\ S!Init

-----------------------------------------------------------------------------
CollectorStep ==
    /\ (\E ev \in Inputs : Arrive(ev)) \/ EventsEnd
    /\ UNCHANGED <<raw2, out, streamerVars, tuiVars>>

CorrelatorStep == Goroutine /\ UNCHANGED <<raw2, out, streamerVars, tuiVars>>

StreamerStep == S!Goroutine /\ UNCHANGED <<events, conns, correlatorVars, tuiVars>>

WaitStep == U!Waits /\ UNCHANGED <<events, raw, correlatorVars, streamerVars>>

UpdateStep == U!Updates /\ UNCHANGED <<events, raw, correlatorVars, streamerVars>>

KeyStep ==
    (U!KeyTab \/ U!KeyQuit) /\ UNCHANGED <<events, raw, correlatorVars, streamerVars>>

\* The user has quit.  The end of the trace alone does not end the TUI.
Quit == ~running /\ UNCHANGED traceVars

TraceNext ==
    \/ running /\ (\/ CollectorStep \/ CorrelatorStep \/ StreamerStep
                   \/ WaitStep \/ UpdateStep \/ KeyStep)
    \/ Quit

\* Every goroutine that can run does, and the event loop gets round to every
\* message.  Traffic, its end and keys need not come.
TraceFairness ==
    /\ WF_traceVars(running /\ CorrelatorStep) /\ WF_traceVars(running /\ StreamerStep)
    /\ LET rest == UNCHANGED <<events, raw, correlatorVars, streamerVars>> IN
         /\ WF_traceVars(U!WaitForEvent /\ rest) /\ WF_traceVars(U!WaitForConn /\ rest)
         /\ WF_traceVars(U!WaitForExchange /\ rest)
         /\ WF_traceVars(U!UpdateEvents /\ rest) /\ WF_traceVars(U!UpdateConns /\ rest)
         /\ WF_traceVars(U!UpdateHTTP /\ rest)
         /\ WF_traceVars((\E t \in U!Tabs : U!UpdateClosed(t)) /\ rest)

TraceSpec == TraceInit /\ [][TraceNext]_traceVars /\ TraceFairness

-----------------------------------------------------------------------------
(* Properties.                                                             *)

\* Every variable has its type, in each of the three components.
TraceTypeOK == TypeOK /\ S!TypeOK /\ U!TypeOK

\* The Events and HTTP tabs show the latest maxRows of what they were handed,
\* in order; the Connections tab shows one row per Seq, in the order the
\* connections were opened, with the latest snapshot of each.
RowsAreCurrent == U!RowsAreCurrent

\* What the tabs were handed is what the trace produced: the events in the
\* order the collector delivered them, and every snapshot in the order the
\* correlator took it.  A tab that says "trace ended" has shown all of it.
TabsShowTheTrace ==
    /\ IsPrefix(shown["events"], handled) /\ IsPrefix(shown["conns"], snaps)
    /\ closed["events"] => Drained(events) /\ shown["events"] = handled
    /\ closed["conns"] => Drained(events) /\ shown["conns"] = snaps
    /\ closed["http"] => Drained(raw) /\ todo = {} /\ S!ExchangesMatchHistory

\* "Every tab must keep consuming its channel regardless of which is
\* visible": again and again, all that the correlator has handled is on the
\* tabs, unless the user has quit (the bound on events makes traffic pause).
TabsKeepUp ==
    []<>(~running \/ (/\ shown["events"] = handled /\ shown["conns"] = snaps
                      /\ ~HasValue(out) /\ msg["http"] = <<>>))

\* When the events channel closes, the end reaches all three tabs through
\* both goroutines, unless the user quits first.
EndReachesAllTabs == events.closed ~> ((\A t \in U!Tabs : closed[t]) \/ ~running)
=============================================================================
