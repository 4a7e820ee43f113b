------------------------------- MODULE Probes -------------------------------
(***************************************************************************)
(* bpf/syscall.bpf.c and bpf/tls.bpf.c in the kernel: what the tracepoint  *)
(* programs and the uprobes on libssl put on the two ring buffers while    *)
(* threads of the traced process, and of others, make calls, and while New *)
(* and EnableTLS attach the programs one by one and Close detaches them.   *)
(*                                                                         *)
(* A program runs to its end on the thread that triggered it: each is one  *)
(* step.  A read enters and returns in two steps, so that other threads,   *)
(* attaching and detaching fall in between; a thread inside SSL_read makes *)
(* system calls meanwhile.  Calls are numbered; the number also stands for *)
(* the user buffer the call was given.  Threads and the results of their   *)
(* calls are environment.                                                  *)
(***************************************************************************)
EXTENDS Events, FiniteSets, SequencesExt

CONSTANTS
    Threads,    \* every thread that makes calls
    Target,     \* the threads of the traced process
    Fds,        \* file descriptors
    SSLs,       \* SSL objects
    Byte,       \* the bytes of payloads
    Payloads,   \* what a read returns or a write is given: sequences of bytes
    Stale,      \* a byte of a buffer that is not the call's own
    StashCap,   \* max_entries of read_stash and of ssl_read_stash
    MaxCalls    \* bound: calls made

ASSUME ProbesAssumption ==
    /\ Target \subseteq Threads /\ StashCap \in Nat /\ MaxCalls \in Nat
    /\ Target # {} /\ Payloads \subseteq Seq(Byte)

VARIABLES
    step,       \* how far New and EnableTLS, and then Close, have come
    call,       \* by BPF object and thread: the read the thread is in, if any
    stash,      \* by BPF object: read_stash and ssl_read_stash, by thread (pid_tgid)
    calls,      \* calls made so far
    log,        \* the records that were submitted while their reader was open
    truth,      \* history: by call of the traced process, what it did
    excused     \* history: calls that met a full map or ring, or a missing probe

vars == <<step, call, stash, calls, log, truth, excused>>

\* The two BPF objects, each with its programs, its ring and its stash.
Objects == {"sys", "tls"}
EnterRead == [sys |-> "enter_read", tls |-> "SSL_read"]
ExitRead == [sys |-> "exit_read", tls |-> "SSL_read_ret"]
Reader == [sys |-> "rd", tls |-> "tlsRd"]
Programs == [sys |-> {"connect", "write", "enter_read", "exit_read", "close"},
             tls |-> {"SSL_write", "SSL_read", "SSL_read_ret"}]

Pid(t) == IF t \in Target THEN 1 ELSE 2

\* pid_matches, with target_pid set to the traced process.
MutPidMatchesByTid(t) == t = CHOOSE u \in Target : TRUE
PidMatches(t) == Pid(t) = 1

-----------------------------------------------------------------------------
(* Attaching (New, EnableTLS) and detaching (Close).                       *)

AttachOrder == <<"connect", "write", "enter_read", "exit_read", "close", "rd",
                 "SSL_write", "SSL_read", "SSL_read_ret", "tlsRd">>

\* Close closes the ring buffer readers before it detaches anything.
MutCloseOrderReadersLast == <<"connect", "write", "enter_read", "exit_read", "close",
                              "SSL_write", "SSL_read", "SSL_read_ret", "rd", "tlsRd">>
CloseOrder == <<"rd", "tlsRd", "connect", "write", "enter_read", "exit_read", "close",
                "SSL_write", "SSL_read", "SSL_read_ret">>

Installed ==
    IF step <= Len(AttachOrder) THEN ToSet(SubSeq(AttachOrder, 1, step))
    ELSE ToSet(AttachOrder) \ ToSet(SubSeq(CloseOrder, 1, step - Len(AttachOrder)))

\* A reader reads what was submitted before it was opened, too.
ReaderClosed(o) == step > Len(AttachOrder) /\ Reader[o] \notin Installed

AllAttached(o) == Programs[o] \subseteq Installed

InProgress(o) == {t \in Threads : call[o][t] # <<>>}

SetupOrClose ==
    /\ step < Len(AttachOrder) + Len(CloseOrder)
    /\ step' = step + 1
    /\ excused' = excused \cup
          UNION {{call[o][t][1].id : t \in InProgress(o)} : o \in {p \in Objects : ~AllAttached(p)}}
    /\ UNCHANGED <<call, stash, calls, log, truth>>

-----------------------------------------------------------------------------
(* The programs' common parts.                                             *)

Fires(t, program) == program \in Installed /\ PidMatches(t)

\* bpf_ringbuf_reserve ... submit: room is FALSE when the ring is full.
Submit(o, id, ev, room) ==
    log' = IF room /\ ~ReaderClosed(o) THEN Append(log, [id |-> id, ev |-> ev]) ELSE log

\* Does this call have an excuse for missing from the log?
Excuse(o, id, ok) ==
    excused' = IF ok /\ AllAttached(o) /\ ~ReaderClosed(o) THEN excused ELSE excused \cup {id}

\* The call, if it is one of the traced process: what it was, on which fd or
\* SSL object, the bytes it was given or returned, and whether the program
\* could read them (for connect: the address, and whether it is an IPv4 one).
Describe(t, id, op, on, bytes, readable) ==
    truth' = IF t \in Target
             THEN [x \in DOMAIN truth \cup {id} |->
                      IF x = id THEN [op |-> op, on |-> on, bytes |-> bytes, readable |-> readable]
                      ELSE truth[x]]
             ELSE truth

Init ==
    /\ step = 0 /\ call = [o \in Objects |-> [t \in Threads |-> <<>>]]
    /\ stash = [o \in Objects |-> [t \in {} |-> <<>>]]
    /\ calls = 0 /\ log = <<>> /\ truth = [n \in {} |-> <<>>] /\ excused = {}

-----------------------------------------------------------------------------
(* connect, close, write and SSL_write: one program each, on entry, before *)
(* the call has had any effect; their return triggers nothing and is not a *)
(* step.  A thread inside read makes no call; inside SSL_read, only system *)
(* calls.                                                                  *)

Free(o, t) == call[o][t] = <<>> /\ call["sys"][t] = <<>> /\ calls < MaxCalls

Instant(o, t, program, ev, on, bytes, readable, room) ==
    /\ Free(o, t) /\ calls' = calls + 1
    /\ IF Fires(t, program) THEN Submit(o, calls + 1, ev, room) ELSE UNCHANGED log
    /\ Describe(t, calls + 1, ev.op, on, bytes, readable) /\ Excuse(o, calls + 1, room)
    /\ UNCHANGED <<step, call, stash>>

\* The address a connect is recorded with: the field stays zero unless the
\* program can read the sockaddr and finds an IPv4 address in it.
SeenAddr(readable) == IF readable THEN "redis" ELSE NoAddr

EnterConnect(t, fd, readable, room) ==
    Instant("sys", t, "connect", ConnectEvent(Pid(t), fd, SeenAddr(readable)), fd, <<>>,
            readable, room)

EnterClose(t, fd, room) ==
    Instant("sys", t, "close", CloseEvent(Pid(t), fd), fd, <<>>, TRUE, room)

\* When bpf_probe_read_user fails (the page is not in memory, or was not
\* mapped) data_len stays 0, and the event is submitted all the same.
EnterWrite(t, fd, bytes, readable, room) ==
    Instant("sys", t, "write", WriteEvent(Pid(t), fd, bytes, readable), fd, bytes,
            readable, room)

EnterSSLWrite(t, ssl, bytes, readable, room) ==
    Instant("tls", t, "SSL_write", SSLWriteEvent(Pid(t), ssl, bytes, readable), ssl, bytes,
            readable, room)

-----------------------------------------------------------------------------
(* read and SSL_read: the arguments are stashed on entry, used on return.  *)

HasStashRoom(o, t) == t \in DOMAIN stash[o] \/ Cardinality(DOMAIN stash[o]) < StashCap

\* bpf_map_update_elem(..., BPF_ANY): a new entry needs room, an old one is
\* overwritten.
Stashed(o, t, args) ==
    IF HasStashRoom(o, t)
    THEN [u \in DOMAIN stash[o] \cup {t} |-> IF u = t THEN args ELSE stash[o][u]]
    ELSE stash[o]

\* A return probe on a function applies to the calls entered while it is
\* attached; the exit tracepoint to every call.
MutEnterUnfiltered(o, t, on) ==
    /\ Free(o, t) /\ calls' = calls + 1
    /\ call' = [call EXCEPT ![o][t] = <<[id |-> calls + 1, on |-> on, armed |-> TRUE]>>]
    /\ stash' = IF EnterRead[o] \in Installed
                THEN [stash EXCEPT ![o] = Stashed(o, t, [buf |-> calls + 1, on |-> on])]
                ELSE stash
    /\ Excuse(o, calls + 1, HasStashRoom(o, t))
    /\ UNCHANGED <<step, log, truth>>
Enter(o, t, on) ==
    /\ Free(o, t) /\ calls' = calls + 1
    /\ call' = [call EXCEPT ![o][t] = <<[id |-> calls + 1, on |-> on,
                                         armed |-> o = "tls" => ExitRead[o] \in Installed]>>]
    /\ stash' = IF Fires(t, EnterRead[o])
                THEN [stash EXCEPT ![o] = Stashed(o, t, [buf |-> calls + 1, on |-> on])]
                ELSE stash
    /\ Excuse(o, calls + 1, HasStashRoom(o, t))
    /\ UNCHANGED <<step, log, truth>>

ReadEventOf(o, t, on, bytes, readable) ==
    IF o = "sys" THEN ReadEvent(Pid(t), on, bytes, readable)
    ELSE SSLReadEvent(Pid(t), on, bytes, readable)

\* The call returns bytes, or none (end of file, an error): the entry is
\* deleted in either case, and only a read of some bytes is an event.
Return(o, t, bytes, readable, room) ==
    LET c == call[o][t][1]
        fires == Fires(t, ExitRead[o]) /\ c.armed /\ t \in DOMAIN stash[o]
        args == stash[o][t]
        seen == IF args.buf = c.id THEN bytes ELSE [i \in DOMAIN bytes |-> Stale]
        ev == ReadEventOf(o, t, args.on, seen, readable)
    IN  /\ call[o][t] # <<>> /\ (o = "tls" => call["sys"][t] = <<>>)
        /\ call' = [call EXCEPT ![o][t] = <<>>]
        /\ stash' = IF fires THEN [stash EXCEPT ![o] = [u \in DOMAIN @ \ {t} |-> @[u]]] ELSE stash
        /\ IF bytes # <<>>
           THEN /\ IF fires THEN Submit(o, c.id, ev, room) ELSE UNCHANGED log
                /\ Describe(t, c.id, IF o = "sys" THEN "read" ELSE "ssl_read", c.on, bytes, readable)
           ELSE UNCHANGED <<log, truth>>
        /\ Excuse(o, c.id, room)
        /\ UNCHANGED <<step, calls>>

Next ==
    \/ SetupOrClose
    \/ \E t \in Threads :
          \/ \E fd \in Fds : Enter("sys", t, fd)
          \/ \E ssl \in SSLs : Enter("tls", t, ssl)
          \/ \E room \in BOOLEAN :
                \/ \E fd \in Fds : EnterClose(t, fd, room)
                \/ \E readable \in BOOLEAN :
                      \/ \E fd \in Fds : EnterConnect(t, fd, readable, room)
                      \/ \E fd \in Fds, bytes \in Payloads : EnterWrite(t, fd, bytes, readable, room)
                      \/ \E ssl \in SSLs, bytes \in Payloads :
                            EnterSSLWrite(t, ssl, bytes, readable, room)
                      \/ \E o \in Objects, bytes \in Payloads \cup {<<>>} :
                            Return(o, t, bytes, readable, room)

Spec == Init /\ [][Next]_vars

-----------------------------------------------------------------------------
(* Properties.                                                             *)

Logged == {log[i].id : i \in DOMAIN log}

\* Every variable has its type; neither stash exceeds its max_entries, and
\* both have entries for threads of the traced process only.
TypeOK ==
    /\ step \in 0 .. Len(AttachOrder) + Len(CloseOrder) /\ calls \in 0 .. MaxCalls
    /\ \A o \in Objects : \A t \in Threads :
          call[o][t] # <<>> => call[o][t][1].id \in 1 .. calls
    /\ \A o \in Objects :
          /\ DOMAIN stash[o] \subseteq Target /\ Cardinality(DOMAIN stash[o]) <= StashCap
          /\ \A t \in DOMAIN stash[o] : /\ stash[o][t].buf \in 1 .. calls
                                        /\ stash[o][t].on \in Fds \cup SSLs
    /\ DOMAIN truth \subseteq 1 .. calls /\ Logged \cup excused \subseteq 1 .. calls

Describes(ev, did) ==
    /\ ev.op = did.op /\ ev.pid = 1
    /\ IF ev.op \in {"ssl_read", "ssl_write"} THEN ev.fd = -1 /\ ev.ssl = did.on
       ELSE ev.fd = did.on /\ ev.ssl = 0
    /\ ev.addr = SeenAddr(ev.op = "connect" /\ did.readable)
    /\ ev.total = Len(did.bytes)
    /\ IF did.readable
       THEN /\ IsPrefix(ev.data, did.bytes)
            /\ Len(ev.data) = (IF ev.total < DataCap THEN ev.total ELSE DataCap - 1)
       ELSE ev.data = <<>>

\* A record the collector can receive describes a call the traced process
\* made: the right fd or SSL object, the true length, once, and the bytes of
\* that very call up to the capture limit, or no bytes at all when the
\* program could not read its buffer; a write is described as it was
\* requested.  A stale stash entry, left when the return program was attached
\* too late to see a read return, is never used for another read.
EventsAreTrue ==
    /\ \A i \in DOMAIN log :
          log[i].id \in DOMAIN truth /\ Describes(log[i].ev, truth[log[i].id])
    /\ \A i, j \in DOMAIN log : log[i].id = log[j].id => i = j

\* A call is missing from the log only if it met a full ring or a full stash
\* or was in progress while not all programs of its object were attached.
MissedOnlyWithExcuse == \A id \in DOMAIN truth : id \in Logged \cup excused
=============================================================================
