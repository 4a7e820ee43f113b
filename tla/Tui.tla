-------------------------------- MODULE Tui ---------------------------------
(***************************************************************************)
(* internal/tui: three tabs, each the consumer of one channel.  A tab has  *)
(* at most one command outstanding, a goroutine that blocks in a receive   *)
(* and posts what it got as a message; the program's event loop hands      *)
(* messages and keys, one at a time, to Model.Update, which lets the tab   *)
(* take the value into its rows and ask for the next one.                  *)
(*                                                                         *)
(* A row is the value it displays: formatting, colours, the cursor and the *)
(* window size are left out.  The event loop is bubbletea's, external.     *)
(***************************************************************************)
EXTENDS Channels, FiniteSets, SequencesExt

CONSTANT MaxRows    \* maxRows: rows an Events or HTTP tab keeps

VARIABLES
    evCh, connCh, exCh,             \* the channels Run was given
    cmd,        \* each tab's command: "waiting", "posted" or "none"
    msg,        \* the value each tab's posted message carries; <<>>: closed
    evRows, connRows, httpRows,     \* the rows of the tabs
    index,      \* connsTab.index: Connection.Seq -> row
    closed,     \* the tabs' closed flags
    active,     \* the visible tab, 0 .. 2
    running,    \* FALSE once the program has quit
    shown       \* history: the values each tab's update has handled

tabVars == <<cmd, msg, evRows, connRows, httpRows, index, closed, shown>>
tuiVars == <<tabVars, active, running>>

Tabs == {"events", "conns", "http"}

\* Model.Init batches the three tabs' first commands.
Init ==
    /\ cmd = [t \in Tabs |-> "waiting"] /\ msg = [t \in Tabs |-> <<>>]
    /\ evRows = <<>> /\ connRows = <<>> /\ httpRows = <<>>
    /\ index = [s \in {} |-> 0] /\ closed = [t \in Tabs |-> FALSE]
    /\ active = 0 /\ running = TRUE /\ shown = [t \in Tabs |-> <<>>]

-----------------------------------------------------------------------------
(* The commands: one receive, posted as a message.                         *)

Post(t, m) ==
    /\ cmd' = [cmd EXCEPT ![t] = "posted"] /\ msg' = [msg EXCEPT ![t] = m]
    /\ UNCHANGED <<evRows, connRows, httpRows, index, closed, shown, active, running>>

\* v, ok := <-ch in tab t's command; ch' is left to the caller.
ReceiveFrom(t, ch) ==
    /\ running /\ cmd[t] = "waiting"
    /\ \/ HasValue(ch) /\ Post(t, <<Head(ch.buf)>>)
       \/ Drained(ch) /\ Post(t, <<>>)

After(ch) == IF HasValue(ch) THEN Receive(ch) ELSE ch

WaitForEvent ==
    ReceiveFrom("events", evCh) /\ evCh' = After(evCh) /\ UNCHANGED <<connCh, exCh>>
WaitForConn ==
    ReceiveFrom("conns", connCh) /\ connCh' = After(connCh) /\ UNCHANGED <<evCh, exCh>>
WaitForExchange ==
    ReceiveFrom("http", exCh) /\ exCh' = After(exCh) /\ UNCHANGED <<evCh, connCh>>

-----------------------------------------------------------------------------
(* Model.Update.  A message goes to every tab; only its own has a case for *)
(* it, whichever is visible.                                               *)

\* The tab has dealt with its message: it asks for the next value.
MutRearmVisible(t) ==
    /\ running /\ cmd[t] = "posted" /\ msg[t] # <<>>
    /\ cmd' = [cmd EXCEPT ![t] =
                  IF t = <<"events", "conns", "http">>[active + 1] THEN "waiting" ELSE "none"]
    /\ msg' = [msg EXCEPT ![t] = <<>>]
    /\ shown' = [shown EXCEPT ![t] = Append(@, msg[t][1])]
    /\ UNCHANGED <<evCh, connCh, exCh, closed, active, running>>
Rearm(t) ==
    /\ running /\ cmd[t] = "posted" /\ msg[t] # <<>>
    /\ cmd' = [cmd EXCEPT ![t] = "waiting"] /\ msg' = [msg EXCEPT ![t] = <<>>]
    /\ shown' = [shown EXCEPT ![t] = Append(@, msg[t][1])]
    /\ UNCHANGED <<evCh, connCh, exCh, closed, active, running>>

\* append, and let older rows scroll off.
MutScrolledOffByOne(rows, v) ==
    LET all == Append(rows, v)
    IN  IF Len(rows) > MaxRows THEN SubSeq(all, Len(all) - MaxRows + 1, Len(all)) ELSE all
Scrolled(rows, v) ==
    LET all == Append(rows, v)
    IN  IF Len(all) > MaxRows THEN SubSeq(all, Len(all) - MaxRows + 1, Len(all)) ELSE all

UpdateEvents ==
    /\ Rearm("events")
    /\ evRows' = Scrolled(evRows, msg["events"][1])
    /\ UNCHANGED <<connRows, httpRows, index>>

\* A snapshot replaces the row of its Seq, or starts one.  These rows are
\* not capped: index would point past the rows that scrolled off.
MutUpdateConnsScrolls ==
    /\ Rearm("conns")
    /\ LET c == msg["conns"][1] IN
         IF c.seq \in DOMAIN index
         THEN connRows' = [i \in DOMAIN connRows |->
                              IF i = index[c.seq] THEN c ELSE connRows[i]]
              /\ UNCHANGED index
         ELSE /\ connRows' = Scrolled(connRows, c)
              /\ index' = [s \in DOMAIN index \cup {c.seq} |->
                              IF s = c.seq THEN Len(connRows) + 1 ELSE index[s]]
    /\ UNCHANGED <<evRows, httpRows>>
UpdateConns ==
    /\ Rearm("conns")
    /\ LET c == msg["conns"][1] IN
         IF c.seq \in DOMAIN index
         THEN connRows' = [connRows EXCEPT ![index[c.seq]] = c] /\ UNCHANGED index
         ELSE /\ connRows' = Append(connRows, c)
              /\ index' = [s \in DOMAIN index \cup {c.seq} |->
                              IF s = c.seq THEN Len(connRows) + 1 ELSE index[s]]
    /\ UNCHANGED <<evRows, httpRows>>

\* Only HTTP exchanges have a row; a Redis one is taken off the channel too.
MutUpdateHTTPSkipsRedis ==
    /\ Rearm("http") /\ msg["http"][1].proto = "http"
    /\ httpRows' = Scrolled(httpRows, msg["http"][1])
    /\ UNCHANGED <<evRows, connRows, index>>
UpdateHTTP ==
    /\ Rearm("http")
    /\ httpRows' = IF msg["http"][1].proto = "http"
                   THEN Scrolled(httpRows, msg["http"][1]) ELSE httpRows
    /\ UNCHANGED <<evRows, connRows, index>>

\* eventsClosedMsg, connsClosedMsg, httpClosedMsg: the tab asks no more.
UpdateClosed(t) ==
    /\ running /\ cmd[t] = "posted" /\ msg[t] = <<>>
    /\ closed' = [closed EXCEPT ![t] = TRUE] /\ cmd' = [cmd EXCEPT ![t] = "none"]
    /\ UNCHANGED <<evCh, connCh, exCh, msg, evRows, connRows, httpRows, index, shown, active,
                   running>>

KeyTab ==
    /\ running /\ active' = (active + 1) % 3
    /\ UNCHANGED <<evCh, connCh, exCh, tabVars, running>>

\* q or Ctrl-C: tea.Quit.  Run returns, and with it the command.
KeyQuit ==
    /\ running /\ running' = FALSE
    /\ UNCHANGED <<evCh, connCh, exCh, tabVars, active>>

Waits == WaitForEvent \/ WaitForConn \/ WaitForExchange
Updates == UpdateEvents \/ UpdateConns \/ UpdateHTTP \/ \E t \in Tabs : UpdateClosed(t)

-----------------------------------------------------------------------------
(* What the tabs must show, from the values they were handed.              *)

TypeOK ==
    /\ cmd \in [Tabs -> {"waiting", "posted", "none"}]
    /\ \A t \in Tabs : /\ Len(msg[t]) <= 1 /\ (msg[t] # <<>> => cmd[t] = "posted")
                       /\ (closed[t] => cmd[t] = "none")
    /\ Len(evRows) <= MaxRows /\ Len(httpRows) <= MaxRows
    /\ active \in 0 .. 2 /\ running \in BOOLEAN

LastRows(s) == SubSeq(s, IF Len(s) > MaxRows THEN Len(s) - MaxRows + 1 ELSE 1, Len(s))

\* The exchanges that have a row, in order.
HTTPOnly(s) == Only(s, {ex \in ToSet(s) : ex.proto = "http"})

\* Where a Seq appears first in s, and whether it appears last at m.
Firsts(s) == {i \in DOMAIN s : \A j \in DOMAIN s : s[j].seq = s[i].seq => i <= j}
Newest(s, m) == \A l \in DOMAIN s : s[l].seq = s[m].seq => l <= m

\* The row of the Seq that appears first at i: one for each Seq before it.
RowOf(s, i) == Cardinality({j \in Firsts(s) : j <= i})

\* The rows are the latest snapshot of each Seq, in the order the Seqs first
\* appeared.
ShowsLatest(rows, s) ==
    /\ Len(rows) = Cardinality(Firsts(s))
    /\ \A i \in Firsts(s), m \in DOMAIN s :
          s[m].seq = s[i].seq /\ Newest(s, m) => rows[RowOf(s, i)] = s[m]

RowsAreCurrent ==
    /\ evRows = LastRows(shown["events"])
    /\ ShowsLatest(connRows, shown["conns"])
    /\ httpRows = LastRows(HTTPOnly(shown["http"]))
=============================================================================
