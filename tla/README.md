# A TLA+ model of wiremark

Wiremark traces a process with eBPF, turns the captured traffic into HTTP and
Redis exchanges, records them as a test case, and later replays the Redis side
from a proxy. This directory holds TLA+ modules for its parts, TLC
configurations that check them on small instances, and proofs checked by TLAPS.
`PROJECT.json` lists components, runs, mutants, the map from definitions to
source lines, findings, hazards and theorems.

## Inventory of the system

| Part | State it keeps | Operations | Talks to |
|---|---|---|---|
| Syscall probes, `bpf/syscall.bpf.c` | `read_stash` (arguments of reads in progress, by thread), a ring buffer | one program per tracepoint: connect, write, close on entry, read on entry and return | the kernel; the collector, through the ring |
| TLS probes, `bpf/tls.bpf.c` | `ssl_read_stash`, a second ring buffer | `SSL_write` entry, `SSL_read` entry and return | the same |
| Collector, `internal/collector` | loaded BPF objects, attached links, two ring readers, channels `events` (64) and `errs` (1) | `New`, `EnableTLS`, `Run` (a goroutine per ring and one that closes the channels), `Close` | whoever ranges over the channels |
| Correlator, `internal/correlator` | the open connection of each (pid, fd), the next Seq | one goroutine: forward the event on `raw`, publish a snapshot on `conns` | collector, streamer, TUI |
| Streamer, `internal/streamer` | read and write buffers of each connection | one goroutine: forward on `raw`, buffer, decode at close or at the end, send on `out` | its feeder, TUI or `recordCmd`, decoder |
| Decoder, `internal/decoder` | none | `TryHTTP`, `TryRESP`, `ReadCommand`, `EncodeReply` | streamer, proxy |
| Recorder and storage | none | `Build`, `WriteYAML`, `ReadYAML` | `recordCmd`, `runCmd` |
| `wiremark record` | the exchanges collected, `sync.Once`, the signal channel | main, signal goroutine, errs goroutine | all of the above |
| Replay proxy, `internal/replay` | listener, WaitGroup, a reader per connection | `Serve`, `handleConn`, `reply`, `Close` | Redis clients, `runCmd` |
| `wiremark run` | the proxy, the command's process, the signal channel | bind, start, wait, deferred `Close`; a goroutine that forwards Ctrl-C | proxy, the command |
| TUI, `internal/tui`, in `wiremark trace` | the rows of three tabs, an index from Seq to row, one outstanding command per tab | receive from a channel, `Update`, keys | streamer, correlator, the user |
| Launcher, `internal/launcher`, in `wiremark launch` | stage, choices, one shared text input | a key at each stage, then exec | the user; `trace`, `record`, `run` |
| Printer, bpfgen, `proc.go`, the example | none | formatting, generated code, reading `/proc` | - |

What is hard here is concurrency. Every stage is a goroutine that blocks on
bounded channels, shutdown is a cascade of closed channels started by `Close`
from another goroutine, probes run while they are being attached and detached,
and the proxy's `Close` races its accept loop. There is no persistence beyond
one file, no timeout and no retry. The other difficulty is identity: fds are
reused, SSL pointers and fds share a map, replies are paired with commands by
position, and what the probes lose shifts that position.

What makes each part correct:

- probes: an event describes the call it claims to, and calls are missed only
  for a stated reason;
- collector: no send on a closed channel, order kept per ring, every probe,
  reader and BPF object released by `Close`, both channels closed after it;
- streamer, correlator: `raw` is the input; buffers, exchanges, connections and
  snapshots are functions of the event history; both outputs close;
- record: a recording is complete, and Ctrl-C ends it;
- proxy: replies in order, nothing unanswered, `Close` waits for what it should
  and returns;
- run: the command finds the proxy from its first connection to its exit, the run
  does not end before it, returns when it and its connections are gone, and ends
  after a Ctrl-C;
- trace: the tabs show what the trace was, no tab stalls the chain of
  goroutines, and the end of the trace reaches all of them;
- launch: what is executed is what was chosen;
- record then replay: a command gets the reply it was recorded with, as long as
  nothing was lost before it and its connection was not discarded, and a loss does
  not spread to other connections.

## Modules

| Module | Models | Notes |
|---|---|---|
| `Channels` | Go channels | external; a channel is its buffer and a closed flag |
| `Events` | `struct event`, `fill_common`, the capture clamp, `Payload`, `Truncated`, fd widening | constructors, one per kind of record |
| `Probes` | `syscall.bpf.c`, `tls.bpf.c`, attach order of `New` and `EnableTLS`, detach order of `Close` | `step` counts attach and detach steps; a program is atomic, a read or `SSL_read` is not, and system calls happen inside `SSL_read`; the two BPF objects have the same shape and share the actions; `armed` says whether the return probe was there when the call was entered; a buffer or address may be unreadable, and the event is then submitted without it; `log` is what a reader can get |
| `Collector` | `collector.go` | `setup` counts steps of `New`/`EnableTLS`, any of which may fail; `objs` is what is loaded, `links` what is attached; `loop[s]` is where each `readLoop` is; `closer` is where `Close` is |
| `Relay` | nothing in the source: the abstract specification of a stage's `raw` path | refined by `Streamer` |
| `Streamer` | `streamer.go` | `pc` is the blocking operation the goroutine is at; decoders are operator constants |
| `Correlator` | `correlator.go` | the same shape |
| `Decoders`, `Recorder`, `Proxy` | pure code: `TryRESP`, `TryHTTP`, `EncodeReply`, `Build`, `reply` | a "byte" is a whole protocol message; text is a sequence of tokens |
| `RecordReplay` | capture, decode, build and reply in sequence | several Redis connections, flushed in any order; `damage` says which messages capturing lost, cut, left without their beginning, or completed with bytes of the next |
| `RecordSession` | `recordCmd` | composes `Collector` and `Streamer` through INSTANCE: they share `events`, nobody receives from `raw` |
| `ReplayProxy` | `proxy.go` | `Serve` is split between `Accept` and `wg.Add`; clients are environment |
| `Tui` | `tui.go` | per tab: `cmd` is the outstanding command, `msg` what it posted; `WaitFor...` is the receive, `Update...` the handling; a row is the value it shows |
| `TraceSession` | `traceCmd` | composes `Correlator` (extended), `Streamer` and `Tui` (INSTANCE): `raw` of one is `events` of the next |
| `RunCommand` | `runCmd` | extends `ReplayProxy`: every step is one of the proxy's or leaves it alone; `mainpc` is where main is, `sub` the command; `sub.Start` and `signal.Notify` are two steps, and `caught` says whether an interrupt is caught or kills wiremark |
| `Launcher` | `launcher.go` | one action per key and stage; a text is known by where it came from |
| `Launch` | `launchCmd` | `Launcher` and, after the exec, `RunCommand` |
| `ChannelTheorems` | - | lemmas on channels, sequences, `Only`, `Total`, `FlattenSeq`; induction over sequences |
| `StreamerProofs`, `CollectorProofs`, `ProbesProofs` | - | a component's invariant and theorems |
| `LaunchProofs`, `TraceProofs`, `RecordProofs` | - | the same for the compositions, from those of their parts; `LaunchProofs` begins with the proxy's own, `TraceProofs` with the correlator's |
| `RecordReplayProofs` | - | the data path: what each stage does to the traffic, and the theorems |

A blocking operation ends a step: what a goroutine does between two of them
touches only its own memory, so it belongs to the first. Channels with capacity
64 or 16 in the code have capacity 1 to 3 in the runs, so that full and empty
channels are reached; the proofs hold for every capacity.

Histories (`sent`, `rawTaken`, `accepted`, `handled`, `snaps`, `truth`, ...) are
variables that no guard of the code's actions reads, except where a bound needs a count.
`Mut...` definitions are plausible bugs; each stands before the definition it
would replace, and `PROJECT.json` names the property that notices it.

## Runs

| Run | Shows | Bounds |
|---|---|---|
| `probes` | `EventsAreTrue`, `MissedOnlyWithExcuse` while programs come and go | 2 interchangeable threads of the target and a foreign one, an fd and an SSL* equal to it, 3 calls, stashes of 1, payloads of `DATA_CAP` bytes, buffers that can be read or not. Two calls of a thread leave and use a stale entry; the third is for another thread or inside `SSL_read` |
| `collector` | `NoSendOnClosed`, `PerRingFIFO`, `CloseReleasesAll`, `ClosedAfterClose` | both rings, 3 records, one read error, one garbled record; setup fails at any of its thirteen steps |
| `streamer` | `RawIsPassThrough`, `BufsMatchHistory`, `ExchangesMatchHistory`, refinement of `Relay`, `BothCloseAfterInput` | 4 events of 9 kinds, channels of 1, `BufCap` 2: fd reuse, an SSL* equal to an fd, a truncated and an unreadable payload, a cap hit inside an event |
| `correlator` | `SeqUnique`, `SnapshotsAreLifecycles`, `TrackedMatchesHistory`, `BothCloseAfterInput` | 4 events on 2 fds |
| `record_session` | `RecordingComplete` (nothing is lost between ring and file, and the file is the test case of all that was collected), `CtrlCFinishes` when `raw` has room for every event | 2 events, a read error, a garbled record, two Ctrl-C |
| `trace_session` | `RowsAreCurrent`, `TabsShowTheTrace`, `TabsKeepUp`, `EndReachesAllTabs` | 3 events on an fd that is reused and reconnected, channels of 1, tabs of 1 row; Redis and HTTP exchanges |
| `launch` | `LaunchedAsChosen`, `NeverRefused`, `OutlivesCommand`, `RunReturns`, `InterruptEndsRun`, and the proxy's `WgCountsHandlers`, `RepliesInOrder`, `CloseWaitsForRunning`, `CommandsAnswered` | every path through the menu; one connection of the command and one of a process it leaves behind, 2 commands of 2 kinds or malformed; Ctrl-C at any time, any number of times |
| `record_replay` | `FirstReplyReproduced`, `DamageStaysOnConnection` | 3 commands of 4 kinds on 2 connections, each kind of reply, at most 2 damaged messages: a command and its reply both lost (the trace began after them), a loss in each direction, or a command completed with bytes of the next, whose rest discards the connection |

Disagreements between the code and what its comments or the README say; each is
a run that TLC must find violated (`PROJECT.json`, "findings"):

- `record_undrained`: `recordCmd` never receives from `rawOut`. After 64 events
  the streamer blocks for ever and Ctrl-C does not end the command. The run has
  a `raw` of capacity 1 and two events; the other runs of the session keep to
  no more events than `raw` holds, which the code does not.
- `proxy_close_race`: `Close` can return between `Accept` and `wg.Add`.
- `streamer_bufcap`: bytes dropped at `bufCap` are not flagged as truncated.
- `record_order`: connections open at the end are flushed in map order, so
  dependencies are not "in the order observed".

Met on the way, and not runs of their own:

- A write and an `SSL_write` are captured on entry, as requested. One that fails
  is counted and buffered as if it had succeeded; the comment at
  `bpf/syscall.bpf.c:77` names the approximation. `EventsAreTrue` states what
  does hold.
- `tui.Run` says that it blocks "until the user quits or all channels close"
  (`tui.go:646`). Nothing quits the program when they close: each tab is marked
  as ended and the program stays until a key. `EndReachesAllTabs` states that.
- The Connections tab is not cut at `maxRows` as the other two are. It must not
  be in this form, since `index` would point past rows that scrolled off
  (`MutUpdateConnsScrolls`); it grows with every connection.
- An interrupt between `sub.Start` (`main.go:207`) and `signal.Notify` (`:212`)
  kills wiremark by default action. The command was not sent it by wiremark and
  goes on, without its proxy. `OutlivesCommand` and `NeverRefused` state that
  this is the only case in which it does.
- The signal goroutine of `runCmd` forwards one Ctrl-C and returns, while
  `signal.Notify` stays in force, so a second one has no effect on wiremark. It
  then ends when the command does, and when every process the command left
  behind has dropped its connection to the proxy: `Close` has no timeout.
- `io.ReadFull` checks neither the bytes it takes nor the trailing CRLF
  (`resp.go:82`), so a cut bulk string is completed with bytes of the next message
  (`garbled`): all of it (`lost`), its beginning (`headless`, when the rest is a
  value), or so much that the rest does not parse (`cut`).
- Damage late in a stream can discard a whole connection: a command of which the
  beginning is missing, because its first event was lost or the command before
  swallowed it, leaves a value that is no array, and `TryRESP` rejects the stream
  (`resp.go:221`). The replay then answers with "no recorded reply" also to
  commands recorded before it, undamaged. `FirstReplyReproduced` says exactly
  when (`Discarded`).
- `New` returns without `Close` when it cannot read the clock (`collector.go:131`),
  although it has loaded the BPF objects by then; they stay loaded until the
  process exits. `CloseReleasesAll` states it as its one exception.

## Fairness

Weak fairness on each goroutine's steps: the Go scheduler runs a goroutine that
can run, and a channel operation that stays possible happens. Consumers of a
stage are assumed to keep receiving when the stage is checked alone; in
`RecordSession` the real consumers are there instead, and `raw` has none. Never
fair: traffic, Ctrl-C, calls of `Close`, read errors, clients. `ClosedAfterClose`
therefore starts from the call, and `RunReturns` from the command's exit; it
supposes that clients have gone, as the comment of `Close` does.
`InterruptEndsRun` supposes that the command exits when it is interrupted and that
processes it left behind drop their connections in the end; both are theirs to do,
and without either the code waits for ever. The kernel closes the connections of a process that is exiting, which is fair too.

In `TraceSession` every command of a tab (a goroutine of bubbletea's) and every
kind of message is weakly fair: the event loop takes messages from a channel
that all of them, and keys, are sent on, so each is handled in its turn.
`TabsKeepUp` and `CommandsAnswered` have the form `[]<>`: they hold in the model
because bounded traffic pauses, and in the program whenever it does.

## Proofs

Each theorem is a safety property of `Spec`, for every value of the constants
that satisfies the named assumption of its module: any number of events,
threads or clients, any capacities, any decoders. None uses fairness.

| Module | Theorem | Establishes | Inductive invariant, beyond the property |
|---|---|---|---|
| `StreamerProofs` | `StreamerSafety`, `StreamerTypeOK` | `TypeOK`, `RawIsPassThrough` | none |
| | `StreamerIsRelay` | the safety part of `Relay` | `TypeOK` |
| | `StreamerBufsMatchHistory` | `BufsMatchHistory` | at "out" the close in hand was passed on last |
| | `StreamerExchangesMatchHistory` | `ExchangesMatchHistory` | the above, and a finite table |
| `CollectorProofs` | `CollectorTypeOK`, `CollectorNoSendOnClosed`, `CollectorCloseReleasesAll` | what they name | `ReadersBeforeClose`, `TeardownOrder` (readers, links and objects go in this order, and nothing is attached or open before the clock is read) |
| | `CollectorPerRingFIFO` | `PerRingFIFO` | `OwnRecords` |
| `ProbesProofs` | `ProbesTypeOK`, `ProbesEventsAreTrue`, `ProbesMissedOnlyWithExcuse` | what they name | `CallInv`, `StashInv`, `Tracked` |
| `LaunchProofs` | `ProxySafety`, `ProxyTypeOK`, `ProxyWgCountsHandlers` | `TypeOK`, `WgCountsHandlers`, `CloseWaitsForRunning` | a handler `Close` found running runs or has returned |
| | `ProxyRepliesInOrder` | `RepliesInOrder` | `Aligned`: what a client sent is what was answered, then the command in hand, then its inbox |
| | `LaunchRunsProxy`, `LaunchProxySafety` | the process implements the proxy's specification, so the proxy's invariants hold of it | `TypeOK` of the proxy |
| | `LaunchNeverRefused`, `LaunchOutlivesCommand` | `NeverRefused`, `OutlivesCommand` | `RunOrder`: bound before started, closed after exited; `SignalInv`: a signal is in `sigCh` or was forwarded only if `Notify` is in force |
| | `LaunchExecutesChoice`, `LaunchWellTyped` | `LaunchedAsChosen`, `LaunchTypeOK` | `StageInv`, `ResultInv`, `ExecInv` |
| `TraceProofs` | `CorrelatorSafety`, `CorrelatorTypeOK`, `CorrelatorSeqUnique` | `TypeOK`, `SeqUnique`, `SnapshotsAreLifecycles` | `SnapsBehind`, `ClosedOnlyInConn` |
| | `CorrelatorTrackedMatchesHistory` | `TrackedMatchesHistory` | the above, and `LastHandled` |
| | `TraceRunsCorrelator`, `TraceRunsStreamer` | the trace implements the specifications of both goroutines | `TabInv`, `EndInv`, `CountInv` |
| | `TraceWellTyped`, `TraceRowsAreCurrent` | `TraceTypeOK`, `RowsAreCurrent` | `ConnTable`: the index names the row of each Seq |
| | `TraceTabsShowTheTrace` | `TabsShowTheTrace` | `TabEnds`, `ConnsInv` |
| `RecordProofs` | `RecordRunsCollector`, `RecordRunsStreamer` | the recording implements the specifications of both | the invariants of both, `OwnInv` |
| | `RecordWellTyped`, `RecordRecordingComplete` | `TypeOK`, `RecordingComplete` | `EndInv`, `SessionInv` |
| `RecordReplayProofs` | `ReplayDamageStays`, `ReplayFirstReply` | `DamageStaysOnConnection`, `FirstReplyReproduced` | `ReplayInv`: the recording is `Build` of the traffic under some consistent damage and some order of flushing, and the answers are those of the recording (the lemma `ReplayAnswersRecording`) |

What is assumed, besides that bounds and capacities are numbers:

- `StreamerAssumption`, `CorrelatorAssumption`, `TraceAssumption`: `raw`, `out`
  and `conns` have room for a value, a tab for a row, and events have the fields
  of an event. An fd is an `int32`: otherwise two fds could widen to the same key
  and `BufsMatchHistory` would be false. Nothing is assumed of the decoders.
- `CollectorAssumption`: a record is an event or is garbled, not both.
- `SessionAssumption`: both of these at once, of the one set of events and the one
  set of capacities that the collector and the streamer of a recording share.
- `ProbesAssumption`: threads, fds and SSL pointers are any sets, bytes any values.
- `ProxyAssumption`: finitely many clients; nothing about commands or replies.
- `RunAssumption`: the command's connections are among the clients.
- `RecordReplayAssumption`: finitely many connections; commands and replies are
  texts over any tokens. No command has the text that stands for garbled bytes.
  Replies are not arrays, an error or an integer has a text, and no string looks
  like the display form of another kind: in those cases the code does answer
  differently on replay (see "Not modelled").

### The arguments

`RawIsPassThrough` is inductive because it names the three places an event can
be: taken or in `raw`, in hand at `pc = "raw"`, in `events`. Each step moves the
boundary between two of them. `PerRingFIFO` has four such places, per ring, and
needs `OwnRecords`: a reader only holds records of its own ring, so that its
sends leave the other ring's order alone.

`SnapshotsAreLifecycles` relates snapshots already published, so a new one has
to be compared with all of them. `SnapsBehind` supplies that: every snapshot is
an open, earlier state of the tracked connection with its Seq. It needs the Seq
to be unique in the table, the counter to be ahead of every Seq, and
`ClosedOnlyInConn`: a connection is marked closed only between its close and the
snapshot that publishes it, after which it is no longer tracked.

`BufsMatchHistory`, `ExchangesMatchHistory` and `TrackedMatchesHistory` say that
a table is a function of the whole event history. What each proof needs is how
that function changes when an event is appended: `LifetimeAppend`,
`StreamAppend`, `CappedAppend` (a capped stream, extended and capped again, is
the cap of the longer stream), `BufsOfAppend`, `CloseExchangesAppend`,
`OpenedAppend`, `BytesAppend`. These rest on the recursive functions `Only`,
`Total` and `FlattenSeq`, and those on induction over sequences. The library's
induction theorems take an operator, which the provers cannot instantiate;
`SetInduction` and `AppendInduction` of `ChannelTheorems` take the set of the
numbers, or sequences, for which the claim holds. Both are proved from the least
element of a set of naturals. A recursive function's unfolding comes from
proving that a function satisfying its equations exists and is unique
(`IsOnlyExists`, `IsOnlyUnique`, and so on).

The buffers are filed under `KeyOf`, the histories under `Endpoint`.
`KeyIsEndpoint` says that they tell the same events apart: the kind keeps an
`SSL*` and an fd of equal value separate, and widening is injective on `int32`.
The flush visits keys in any order, so what it emits is compared as a multiset
(`Tally`): for each exchange, as many sends as visited keys that yield it.

`EventsAreTrue` needs that the stash entry a returning read finds is its own, since
its buffer and fd come from there; an unreadable buffer gives no bytes.
`StashInv` is why: while nothing has been detached, a thread's entry is that of
the read it is in, because an older one was overwritten at entry, and before
entries can be seen no entry exists. Once teardown has begun entries may be
stale, but the readers were closed first. `MissedOnlyWithExcuse` needs `Tracked`.

`WgCountsHandlers` equates a counter with the cardinality of the set of running
handlers. That `Serve` adds one that was not in it needs `InOnePlace` (part of
`TypeOK`): a connection is in at most one of the backlog, the hands of `Serve`
and a handler, and the backlog has no repetitions. That `wg.Done` never makes
the counter negative follows from the count, and so does that no handler is left
when `Wait` returns.

The compositions are proved from their parts. `Launch` extends the proxy, and
every step of it is a step of the proxy or leaves it alone. In `TraceSession` the
correlator and the streamer each see the other, and the tabs, as their
environment: `IsCorrelatorStep` and `IsStreamerStep` show that this environment
keeps to what the component's own specification allows. For the streamer that
means that the correlator does not send on `raw` after closing it (`EndInv`) and
sends no more events than the bound (`CountInv`), and that what a tab's command
received and its update has not yet handled counts as taken. The streamer's
lemmas are used through `INSTANCE StreamerProofs` with the substitution of
`TraceSession`. `EndInv` and `TabEnds` then carry the end from a tab back to
`events`: a tab that ended found its channel closed and empty, whoever closed it
had found its own input closed and empty, and so on.

`RecordSession` is proved the same way. What the streamer received is what the
collector delivered, so no history of deliveries is kept: it is `raw`, from which
nobody receives, and the event in hand. That the collector sends the streamer no
more events than its bound follows from `PerRingFIFO`: with one ring (`OwnInv`)
everything received or in `events` was accepted by the kernel, in that order
(`AllInOrder`), so there is room for one more whenever a reader holds a record
(`RoomBelowBound`). `RecordingComplete` then goes back from the file to the ring:
a file was written only after `out` was closed and empty (`SessionInv`); the
streamer closed it after flushing every connection, which it began when `events`
was closed and empty (`EndInv`); that was after both readers had returned, so none
holds a record; and `PerRingFIFO` accounts for the rest.

`RowsAreCurrent` is about the first and the latest occurrence of each Seq among
the snapshots. Adding one either replaces a row, in which case the rows of
all other Seqs must be different rows (`RowFacts`: the row number is injective on
first occurrences), or is the new last row.

In `RecordReplay` the invariant is plain and what follows from it is not: the two
properties are about a chain of pure stages, and the proof has a lemma for each.
`BufferParts` and `Buffered` say what is left of a side of a connection, and that
positions are kept up to the first damage; `Parsed` that the parser takes a
prefix of it; `WriteSide` and `ReadSide` what the commands and replies then are.
`CallsFrom` and `FirstCall` say which call of a connection is the first of a text
and what reply it is paired with, `RecordedFrom` and `RecordedFirst` the same of
the recording, where the connection flushed first decides, and `ServesFirst` what
the proxy finds there. `EveryConnFlushed` counts: an order without repetition, as
long as there are connections, has all of them. Each stage joins sequences,
so three facts about joining carry the argument: an element comes from a part
(`FlattenElement`), the n-th part is at position n as long as each part before it
is a single element (`FlattenPrefix`), and the first element of a kind is that
of the first part that has one (`FlattenFirst`). The last is why replies are found
by least position and not by a recursive search. `ReplyRoundTrip` is the
encoding: what `Display` writes, `EncodeReply` reads back, given the assumption.
Which connections are discarded is decided by the first thing in the buffer the
parser cannot take as a command: `FirstStop` finds it, `GivesUp` says that it is a
value that is no array, and `DiscardedIsGivenUp` that the connection then yields no
calls. `NoneKept` and `SomeKept` are the two cases of the property.

`OutlivesCommand` needs `SignalInv` for its exception: what was killed had not
called `Notify`, so nothing can have been caught before. That no later interrupt
kills follows because `caught`, once set, is never reset.

### Left to TLC

Liveness (`BothCloseAfterInput`, `ClosedAfterClose`, `CtrlCFinishes`,
`RunReturns`, `CommandsAnswered`, `InterruptEndsRun`, `TabsKeepUp`,
`EndReachesAllTabs` and the fairness of `Relay`) is out of the prover's reach.
Every invariant that a passing run checks is proved.

## Not modelled, and why

- Byte-level parsing: `parseRESPValue` and `net/http`. `Decoders` starts at whole
  messages; of a message that was captured in part it knows only how parsing goes
  on (`CapturedAs`). A message that swallows several is `garbled` followed by `lost`
  ones; a gap in which the bytes that are left happen to be an intact other message
  is not represented, nor are null and nested arrays.
- Length headers that do not fit in memory: `make` then panics (`resp.go:82`, `:96`),
  which no handler recovers, and the process ends, `wiremark run` with its proxy
  and `wiremark record` without a file. `ReadFails` and `Junk` stand for input that
  `parseRESPValue` returns an error for; a panic is no step of the model.
- A reply whose text looks like a display form (a bulk string "(nil)"), and
  array replies, which `EncodeReply` sends back as simple strings: not among the
  inputs of `record_replay`, and excluded by `RecordReplayAssumption`. Nor is a
  bulk string with a line break in it, which a simple string cannot carry.
- A later reply to a repeated command is never served: `reply` always finds the
  first. `FirstReplyReproduced` states that behaviour.
- Partial writes; the bpf source names them as its approximation.
- Fields nothing branches on: tid, timestamps, `Comm`, `ret`.
- Rendering, colours, window sizes, scrolling by keys, and the plain-text output
  of `trace --no-tui`, a loop that prints.
- What the bubbles list does with its asynchronous filter results: the library's
  source is not in the repository, and the launcher only forwards the messages.
- Ctrl-C in `recordCmd` before `signal.Notify`: it ends the process, as by default,
  and nothing has been recorded yet.
- `proc.go` (reading `/proc` and the directory), generated code, the example.

## Plan

1. Done: probes of both kinds, collector, streamer, correlator, the record, trace,
   run and launch commands, TUI, launcher, proxy, and the data path from a lossy
   capture to replay. The safety invariants of all of them are proved.
2. Left to model: the RESP parser against a reference encoder over bounded byte
   strings, which would replace `CapturedAs` by what the parser does.
