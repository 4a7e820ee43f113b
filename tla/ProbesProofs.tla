---------------------------- MODULE ProbesProofs ----------------------------
(* Whatever threads do while the programs are attached and detached, the   *)
(* records the collector can receive are true, and none is missing without *)
(* an excuse.                                                              *)
EXTENDS Probes, ChannelTheorems

-----------------------------------------------------------------------------
(* What an event captures of its call.                                     *)

LEMMA CapturedLenIs ==
    ASSUME NEW n \in Nat
    PROVE  CapturedLen(n) = (IF n < DataCap THEN n ELSE DataCap - 1)
  <1> DEFINE m == IF n > DataCap - 1 THEN DataCap - 1 ELSE n
  <1>1. DataCap \in Nat /\ DataCap > 0
    BY CapAssumption
  <1>2. m \in Nat /\ m < DataCap /\ m = (IF n < DataCap THEN n ELSE DataCap - 1)
    BY <1>1
  <1> HIDE DEF m
  <1>3. m % DataCap = m
    BY <1>1, <1>2
  <1>4. CapturedLen(n) = m % DataCap
    BY DEF CapturedLen, m
  <1> QED
    BY <1>2, <1>3, <1>4

LEMMA CapturedIs ==
    ASSUME NEW bytes \in Seq(Byte)
    PROVE  LET data == Captured(bytes, TRUE)
           IN  /\ data \in Seq(Byte) /\ IsPrefix(data, bytes)
               /\ Len(data) = (IF Len(bytes) < DataCap THEN Len(bytes) ELSE DataCap - 1)
  <1> DEFINE n == CapturedLen(Len(bytes))
             data == SubSeq(bytes, 1, n)
  <1>1. Len(bytes) \in Nat /\ DataCap \in Nat /\ DataCap > 0
    BY CapAssumption
  <1>2. n = (IF Len(bytes) < DataCap THEN Len(bytes) ELSE DataCap - 1)
    BY <1>1, CapturedLenIs
  <1>3. n \in 0 .. Len(bytes)
    BY <1>1, <1>2
  <1> HIDE DEF n
  <1>4. /\ data \in Seq(Byte) /\ Len(data) = n
        /\ \A i \in 1 .. n : data[i] = bytes[i]
    BY <1>3
  <1>5. SubSeq(data, 1, n) = data
    BY <1>3, <1>4
  <1>6. IsPrefix(data, bytes)
    BY <1>1, <1>3, <1>4, <1>5 DEF IsPrefix
  <1>7. Captured(bytes, TRUE) = data
    BY DEF Captured, n
  <1> QED
    BY <1>2, <1>4, <1>6, <1>7

-----------------------------------------------------------------------------
(* What is installed when.                                                 *)

LEMMA ToSetPrefix ==
    ASSUME NEW T, NEW s \in Seq(T), NEW n \in 0 .. Len(s)
    PROVE  ToSet(SubSeq(s, 1, n)) = {s[i] : i \in 1 .. n}
  <1>1. /\ DOMAIN SubSeq(s, 1, n) = 1 .. n
        /\ \A i \in 1 .. n : SubSeq(s, 1, n)[i] = s[i]
    OBVIOUS
  <1> QED
    BY <1>1 DEF ToSet

Names == {"connect", "write", "enter_read", "exit_read", "close", "rd",
          "SSL_write", "SSL_read", "SSL_read_ret", "tlsRd"}

LEMMA OrdersAre ==
    /\ AttachOrder \in Seq(Names) /\ Len(AttachOrder) = 10
    /\ CloseOrder \in Seq(Names) /\ Len(CloseOrder) = 10
  BY DEF AttachOrder, CloseOrder, Names

Early(n) == {AttachOrder[i] : i \in 1 .. n}
Gone(n) == {CloseOrder[i] : i \in 1 .. n}

LEMMA InstalledIs ==
    ASSUME step \in 0 .. 20
    PROVE  Installed = IF step <= 10 THEN Early(step) ELSE Early(10) \ Gone(step - 10)
  <1>1. CASE step <= 10
    <2>1. step \in 0 .. 10
      BY <1>1
    <2>2. ToSet(SubSeq(AttachOrder, 1, step)) = {AttachOrder[i] : i \in 1 .. step}
      BY <2>1, OrdersAre, ToSetPrefix
    <2> QED
      BY <1>1, <2>2, OrdersAre DEF Installed, Early
  <1>2. CASE step > 10
    <2> DEFINE k == step - 10
    <2>1. k \in 0 .. 10 /\ ~(step <= 10)
      BY <1>2
    <2>2. ToSet(SubSeq(CloseOrder, 1, k)) = {CloseOrder[i] : i \in 1 .. k}
      <3> HIDE DEF k
      <3> QED
        BY <2>1, OrdersAre, ToSetPrefix
    <2>3. ToSet(AttachOrder) = {AttachOrder[i] : i \in 1 .. 10}
      BY OrdersAre DEF ToSet
    <2> QED
      BY <2>1, <2>2, <2>3, OrdersAre DEF Installed, Early, Gone
  <1> QED
    BY <1>1, <1>2

\* While nothing has been detached, the program that sees a read enter is
\* installed from some step on; a reader is open only then.
LEMMA OrderFacts ==
    /\ \A i \in 1 .. 10 : AttachOrder[i] = "enter_read" <=> i = 3
    /\ \A i \in 1 .. 10 : AttachOrder[i] = "SSL_read" <=> i = 8
    /\ CloseOrder[1] = "rd" /\ CloseOrder[2] = "tlsRd"
  BY DEF AttachOrder, CloseOrder

First(o) == IF o = "sys" THEN 3 ELSE 8

LEMMA ReadAttached ==
    ASSUME step \in 0 .. 12, NEW o \in Objects
    PROVE  EnterRead[o] \in Installed <=> step >= First(o)
  <1>1. /\ EnterRead[o] \in {"enter_read", "SSL_read"}
        /\ \A i \in 1 .. 10 : AttachOrder[i] = EnterRead[o] <=> i = First(o)
        /\ First(o) \in 1 .. 10
    BY OrderFacts DEF Objects, EnterRead, First
  <1>2. Installed = IF step <= 10 THEN Early(step) ELSE Early(10) \ Gone(step - 10)
    BY InstalledIs
  <1>3. CASE step <= 10
    BY <1>1, <1>2, <1>3 DEF Early
  <1>4. CASE step > 10
    <2>1. EnterRead[o] \in Early(10) /\ step >= First(o)
      BY <1>1, <1>4 DEF Early
    <2>2. step - 10 = 1 \/ step - 10 = 2
      BY <1>4
    <2>3. EnterRead[o] \notin Gone(step - 10)
      BY <1>1, <2>2, OrderFacts DEF Gone
    <2> QED
      BY <1>2, <1>4, <2>1, <2>3
  <1> QED
    BY <1>3, <1>4

LEMMA OpenReader ==
    ASSUME step \in 0 .. 20, NEW o \in Objects, ~ReaderClosed(o)
    PROVE  step <= 12
  <1> SUFFICES ASSUME step > 12 PROVE FALSE
    OBVIOUS
  <1>1. Installed = Early(10) \ Gone(step - 10) /\ step - 10 \in 3 .. 10
    BY InstalledIs
  <1>2. CloseOrder[1] \in Gone(step - 10) /\ CloseOrder[2] \in Gone(step - 10)
    BY <1>1 DEF Gone
  <1>3. Reader[o] \in {CloseOrder[1], CloseOrder[2]}
    BY OrderFacts DEF Objects, Reader
  <1>4. Reader[o] \notin Installed
    BY <1>1, <1>2, <1>3
  <1> QED
    BY <1>4, OrdersAre DEF ReaderClosed

-----------------------------------------------------------------------------
(* The events of the traced process's calls.                               *)

Did(op, on, bytes, readable) ==
    [op |-> op, on |-> on, bytes |-> bytes, readable |-> readable]

LEMMA TargetPid ==
    ASSUME NEW t \in Threads
    PROVE  PidMatches(t) <=> t \in Target
  BY DEF PidMatches, Pid

LEMMA DataEventTrue ==
    ASSUME NEW t \in Target, NEW on, NEW bytes \in Payloads, NEW readable \in BOOLEAN
    PROVE  /\ Describes(WriteEvent(Pid(t), on, bytes, readable), Did("write", on, bytes, readable))
           /\ Describes(ReadEvent(Pid(t), on, bytes, readable), Did("read", on, bytes, readable))
           /\ Describes(SSLWriteEvent(Pid(t), on, bytes, readable),
                        Did("ssl_write", on, bytes, readable))
           /\ Describes(SSLReadEvent(Pid(t), on, bytes, readable),
                        Did("ssl_read", on, bytes, readable))
  <1> DEFINE data == Captured(bytes, readable)
             n == Len(bytes)
             did(op) == Did(op, on, bytes, readable)
  <1>1. bytes \in Seq(Byte) /\ n \in Nat /\ Pid(t) = 1
    BY ProbesAssumption DEF Pid
  <1>2. IF readable
        THEN /\ IsPrefix(data, bytes)
             /\ Len(data) = (IF n < DataCap THEN n ELSE DataCap - 1)
        ELSE data = <<>>
    <2>1. CASE readable
      BY <1>1, <2>1, CapturedIs
    <2>2. CASE ~readable
      BY <2>2 DEF Captured
    <2> QED
      BY <2>1, <2>2
  <1> HIDE DEF data, n
  <1>3. ASSUME NEW op \in {"write", "read"}, NEW ev,
               ev = [FillCommon(1, op) EXCEPT !.fd = on, !.total = n, !.data = data]
        PROVE  Describes(ev, did(op))
    <2>1. /\ ev.pid = 1 /\ ev.op = op /\ ev.fd = on /\ ev.ssl = 0 /\ ev.total = n
          /\ ev.data = data /\ ev.addr = NoAddr
      BY <1>3 DEF FillCommon
    <2>2. /\ did(op).op = op /\ did(op).on = on /\ did(op).bytes = bytes
          /\ did(op).readable = readable
      BY DEF Did
    <2>3. ev.addr = SeenAddr(ev.op = "connect" /\ did(op).readable)
      BY <2>1 DEF SeenAddr
    <2> HIDE DEF did
    <2> QED
      BY <1>2, <2>1, <2>2, <2>3 DEF Describes, n
  <1>4. ASSUME NEW op \in {"ssl_write", "ssl_read"}, NEW ev,
               ev = [FillCommon(1, op) EXCEPT !.fd = -1, !.ssl = on, !.total = n, !.data = data]
        PROVE  Describes(ev, did(op))
    <2>1. /\ ev.pid = 1 /\ ev.op = op /\ ev.fd = -1 /\ ev.ssl = on /\ ev.total = n
          /\ ev.data = data /\ ev.addr = NoAddr
      BY <1>4 DEF FillCommon
    <2>2. /\ did(op).op = op /\ did(op).on = on /\ did(op).bytes = bytes
          /\ did(op).readable = readable
      BY DEF Did
    <2>3. ev.addr = SeenAddr(ev.op = "connect" /\ did(op).readable)
      BY <2>1 DEF SeenAddr
    <2> HIDE DEF did
    <2> QED
      BY <1>2, <2>1, <2>2, <2>3 DEF Describes, n
  <1> HIDE DEF did
  <1>5. /\ Describes(WriteEvent(Pid(t), on, bytes, readable), did("write"))
        /\ Describes(ReadEvent(Pid(t), on, bytes, readable), did("read"))
    BY <1>1, <1>3 DEF WriteEvent, ReadEvent, n, data
  <1>6. /\ Describes(SSLWriteEvent(Pid(t), on, bytes, readable), did("ssl_write"))
        /\ Describes(SSLReadEvent(Pid(t), on, bytes, readable), did("ssl_read"))
    BY <1>1, <1>4 DEF SSLWriteEvent, SSLReadEvent, n, data
  <1> QED
    BY <1>5, <1>6 DEF did

LEMMA BareEventTrue ==
    ASSUME NEW t \in Target, NEW fd, NEW readable \in BOOLEAN
    PROVE  /\ Describes(ConnectEvent(Pid(t), fd, SeenAddr(readable)),
                        Did("connect", fd, <<>>, readable))
           /\ Describes(CloseEvent(Pid(t), fd), Did("close", fd, <<>>, TRUE))
  <1> DEFINE none == <<>>
  <1>1. Pid(t) = 1 /\ none \in Seq(Byte) /\ Len(none) = 0 /\ 0 < DataCap
    BY ProbesAssumption, CapAssumption DEF Pid
  <1>2. IsPrefix(none, none)
    BY <1>1 DEF IsPrefix
  <1>3. none = <<>>
    OBVIOUS
  <1> HIDE DEF none
  <1>4. ASSUME NEW op \in {"connect", "close"}, NEW readable_ \in BOOLEAN, NEW ev,
               ev.pid = 1, ev.op = op, ev.fd = fd, ev.ssl = 0, ev.total = 0, ev.data = none,
               ev.addr = SeenAddr(op = "connect" /\ readable_)
        PROVE  Describes(ev, Did(op, fd, none, readable_))
    BY <1>1, <1>2, <1>3, <1>4 DEF Describes, Did
  <1>5. LET ev == ConnectEvent(1, fd, SeenAddr(readable))
        IN  /\ ev.pid = 1 /\ ev.op = "connect" /\ ev.fd = fd /\ ev.ssl = 0
            /\ ev.total = 0 /\ ev.data = none /\ ev.addr = SeenAddr(readable)
    BY DEF ConnectEvent, FillCommon, none
  <1>6. LET ev == CloseEvent(1, fd)
        IN  /\ ev.pid = 1 /\ ev.op = "close" /\ ev.fd = fd /\ ev.ssl = 0
            /\ ev.total = 0 /\ ev.data = none /\ ev.addr = SeenAddr(FALSE)
    BY DEF CloseEvent, FillCommon, SeenAddr, none
  <1>7. Describes(ConnectEvent(1, fd, SeenAddr(readable)), Did("connect", fd, none, readable))
    BY <1>4, <1>5
  <1>8. Describes(CloseEvent(1, fd), Did("close", fd, none, TRUE))
    BY <1>4, <1>6
  <1> QED
    BY <1>1, <1>7, <1>8 DEF none

-----------------------------------------------------------------------------
(* The inductive invariant.                                                *)

CallRecords == [id : Nat, on : Fds \cup SSLs, armed : BOOLEAN]

\* A read in progress has a number of its own, and has not been described.
CallInv ==
    /\ call \in [Objects -> [Threads -> Seq(CallRecords)]]
    /\ \A o \in Objects, t \in Threads :
          /\ Len(call[o][t]) <= 1
          /\ call[o][t] # <<>> => call[o][t][1].id \notin Logged \cup DOMAIN truth
    /\ \A o, p \in Objects, t, u \in Threads :
          /\ call[o][t] # <<>> /\ call[p][u] # <<>> /\ call[o][t][1].id = call[p][u][1].id
          => o = p /\ t = u

\* Until something is detached, a thread's stash entry is that of the read it
\* is in: an entry that a read left behind was overwritten when the next one
\* entered, and there is none before reads can be seen to enter.
StashInv ==
    /\ DOMAIN stash = Objects
    /\ \A o \in Objects :
          /\ IsFiniteSet(DOMAIN stash[o])
          /\ step <= 12 =>
                /\ step < First(o) => DOMAIN stash[o] = {}
                /\ \A t \in DOMAIN stash[o] :
                      call[o][t] # <<>> => /\ stash[o][t].buf = call[o][t][1].id
                                           /\ stash[o][t].on = call[o][t][1].on

\* A read of the traced process will be recorded, unless it has an excuse.
Tracked ==
    \A o \in Objects, t \in Target :
        call[o][t] # <<>> => \/ call[o][t][1].id \in excused
                             \/ call[o][t][1].armed /\ t \in DOMAIN stash[o]

LogInv == log \in Seq(ToSet(log)) /\ EventsAreTrue /\ MissedOnlyWithExcuse

IInv == TypeOK /\ CallInv /\ StashInv /\ Tracked /\ LogInv

LEMMA InitIInv == Init => IInv
  <1> SUFFICES ASSUME Init PROVE IInv
    OBVIOUS
  <1>1. step = 0 /\ calls = 0 /\ log = <<>> /\ excused = {} /\ Logged = {} /\ DOMAIN truth = {}
    BY DEF Init, Logged
  <1>2. \A o \in Objects, t \in Threads : call[o][t] = <<>>
    BY DEF Init
  <1>3. DOMAIN stash = Objects /\ \A o \in Objects : DOMAIN stash[o] = {}
    BY DEF Init
  <1>4. Cardinality({}) = 0 /\ IsFiniteSet({})
    BY FS_EmptySet
  <1>5. StashCap \in Nat /\ MaxCalls \in Nat
    BY ProbesAssumption
  <1>6. TypeOK
    <2>1. step \in 0 .. Len(AttachOrder) + Len(CloseOrder) /\ calls \in 0 .. MaxCalls
      BY <1>1, <1>5, OrdersAre
    <2>2. \A o \in Objects : Cardinality(DOMAIN stash[o]) <= StashCap
      BY <1>3, <1>4, <1>5
    <2> QED
      BY <1>1, <1>2, <1>3, <2>1, <2>2 DEF TypeOK
  <1>7. CallInv
    <2>1. <<>> \in Seq(CallRecords) /\ Len(<<>>) = 0
      OBVIOUS
    <2>2. call \in [Objects -> [Threads -> Seq(CallRecords)]]
      BY <2>1 DEF Init
    <2> QED
      BY <1>2, <2>1, <2>2 DEF CallInv
  <1>8. StashInv
    BY <1>3, <1>4 DEF StashInv
  <1>9. Tracked
    BY <1>2, ProbesAssumption DEF Tracked
  <1>10. LogInv
    BY <1>1 DEF LogInv, EventsAreTrue, MissedOnlyWithExcuse
  <1> QED
    BY <1>6, <1>7, <1>8, <1>9, <1>10 DEF IInv

-----------------------------------------------------------------------------
(* What a step does to the records.                                        *)

Extended(id, did) == [x \in DOMAIN truth \cup {id} |-> IF x = id THEN did ELSE truth[x]]

\* The three things that can happen to a call: it is none of the traced
\* process's (or reads nothing), it is excused, or it is recorded truly.
Outcome(id, ev, did) ==
    \/ log' = log /\ truth' = truth
    \/ log' = log /\ truth' = Extended(id, did) /\ id \in excused'
    \/ log' = Append(log, [id |-> id, ev |-> ev]) /\ truth' = Extended(id, did) /\ Describes(ev, did)

LEMMA OutcomeLog ==
    ASSUME LogInv, NEW id, NEW ev, NEW did, id \notin Logged \cup DOMAIN truth,
           excused \subseteq excused', Outcome(id, ev, did)
    PROVE  /\ LogInv' /\ Logged' \subseteq Logged \cup {id}
           /\ DOMAIN truth' \subseteq DOMAIN truth \cup {id}
  <1> DEFINE rec == [id |-> id, ev |-> ev]
  <1>1. /\ log \in Seq(ToSet(log)) /\ EventsAreTrue /\ MissedOnlyWithExcuse
        /\ rec.id = id /\ rec.ev = ev
    BY DEF LogInv
  <1>2. CASE log' = log /\ truth' = truth
    <2>1. Logged' = Logged
      BY <1>2 DEF Logged
    <2> QED
      BY <1>1, <1>2, <2>1 DEF LogInv, EventsAreTrue, MissedOnlyWithExcuse
  <1>3. CASE log' = log /\ truth' = Extended(id, did) /\ id \in excused'
    <2>1. Logged' = Logged /\ DOMAIN truth' = DOMAIN truth \cup {id}
      BY <1>3 DEF Logged, Extended
    <2>2. \A i \in DOMAIN log : log[i].id \in DOMAIN truth /\ log[i].id # id
      BY <1>1 DEF EventsAreTrue, Logged
    <2>3. \A x \in DOMAIN truth : x # id => truth'[x] = truth[x]
      BY <1>3 DEF Extended
    <2>4. EventsAreTrue'
      BY <1>1, <1>3, <2>1, <2>2, <2>3 DEF EventsAreTrue
    <2>5. MissedOnlyWithExcuse'
      BY <1>1, <1>3, <2>1 DEF MissedOnlyWithExcuse
    <2> QED
      BY <1>1, <1>3, <2>1, <2>4, <2>5 DEF LogInv
  <1>4. CASE log' = Append(log, rec) /\ truth' = Extended(id, did) /\ Describes(ev, did)
    <2> HIDE DEF rec
    <2>1. /\ log' \in Seq(ToSet(log')) /\ DOMAIN log' = DOMAIN log \cup {Len(log) + 1}
          /\ log'[Len(log) + 1] = rec /\ \A i \in DOMAIN log : log'[i] = log[i]
          /\ Len(log) + 1 \notin DOMAIN log
      BY <1>1, <1>4, AppendToSet
    <2>2. \A i \in DOMAIN log : log[i].id \in DOMAIN truth /\ log[i].id # id
      BY <1>1 DEF EventsAreTrue, Logged
    <2>3. /\ DOMAIN truth' = DOMAIN truth \cup {id} /\ truth'[id] = did
          /\ \A x \in DOMAIN truth : x # id => truth'[x] = truth[x]
      BY <1>4 DEF Extended
    <2>4. Logged' = Logged \cup {id}
      BY <1>1, <2>1 DEF Logged
    <2>5. \A i \in DOMAIN log' :
             log'[i].id \in DOMAIN truth' /\ Describes(log'[i].ev, truth'[log'[i].id])
      BY <1>1, <1>4, <2>1, <2>2, <2>3 DEF EventsAreTrue
    <2>6. \A i, j \in DOMAIN log' : log'[i].id = log'[j].id => i = j
      BY <1>1, <2>1, <2>2 DEF EventsAreTrue
    <2>7. EventsAreTrue'
      BY <2>5, <2>6 DEF EventsAreTrue
    <2>8. MissedOnlyWithExcuse'
      BY <1>1, <2>3, <2>4 DEF MissedOnlyWithExcuse
    <2> QED
      BY <2>1, <2>3, <2>4, <2>7, <2>8 DEF LogInv
  <1> QED
    BY <1>2, <1>3, <1>4 DEF Outcome

\* An excuse is never taken back, and given to no other call.
LEMMA ExcuseGrows ==
    ASSUME NEW o, NEW id, NEW ok, Excuse(o, id, ok)
    PROVE  /\ excused \subseteq excused' /\ excused' \subseteq excused \cup {id}
           /\ id \in excused' \/ (ok /\ AllAttached(o) /\ ~ReaderClosed(o))
  BY DEF Excuse

\* Reads that stay in progress keep their numbers.
LEMMA CallsKept ==
    ASSUME CallInv, NEW id, call' \in [Objects -> [Threads -> Seq(CallRecords)]],
           \A o \in Objects, t \in Threads :
              \/ call'[o][t] = <<>>
              \/ call'[o][t] = call[o][t] /\ (call[o][t] # <<>> => call[o][t][1].id # id),
           Logged' \subseteq Logged \cup {id}, DOMAIN truth' \subseteq DOMAIN truth \cup {id}
    PROVE  CallInv'
  <1>1. \A o \in Objects, t \in Threads : Len(call[o][t]) <= 1
    BY DEF CallInv
  <1>2. Len(<<>>) = 0 /\ 0 <= 1
    OBVIOUS
  <1>3. \A o \in Objects, t \in Threads :
           /\ Len(call'[o][t]) <= 1
           /\ call'[o][t] # <<>> => call'[o][t] = call[o][t]
    BY <1>1, <1>2
  <1>4. \A o \in Objects, t \in Threads :
           call'[o][t] # <<>> => call'[o][t][1].id \notin Logged' \cup DOMAIN truth'
    BY <1>3 DEF CallInv
  <1>5. \A o, p \in Objects, t, u \in Threads :
           /\ call'[o][t] # <<>> /\ call'[p][u] # <<>> /\ call'[o][t][1].id = call'[p][u][1].id
           => o = p /\ t = u
    BY <1>3 DEF CallInv
  <1> QED
    BY <1>3, <1>4, <1>5 DEF CallInv

-----------------------------------------------------------------------------
(* Attaching and detaching.                                                *)

LEMMA SetupOrCloseStep == IInv /\ SetupOrClose => IInv'
  <1> SUFFICES ASSUME IInv, SetupOrClose PROVE IInv'
    OBVIOUS
  <1>1. /\ UNCHANGED <<call, stash, calls, log, truth>> /\ step' = step + 1
        /\ step \in 0 .. 19 /\ step' \in 0 .. 20 /\ excused \subseteq excused'
    BY OrdersAre DEF SetupOrClose, IInv, TypeOK
  <1>2. excused' \subseteq 1 .. calls
    <2>1. \A o \in Objects, t \in Threads : call[o][t] # <<>> => call[o][t][1].id \in 1 .. calls
      BY DEF IInv, TypeOK
    <2>2. excused \subseteq 1 .. calls
      BY DEF IInv, TypeOK
    <2>3. \A x \in excused' : x \in excused \/ \E o \in Objects : \E t \in InProgress(o) : x = call[o][t][1].id
      BY DEF SetupOrClose
    <2> QED
      BY <2>1, <2>2, <2>3 DEF InProgress
  <1>3. Logged' = Logged
    BY <1>1 DEF Logged
  <1>4. TypeOK'
    <2>1. step' \in 0 .. Len(AttachOrder) + Len(CloseOrder)
      BY <1>1, OrdersAre
    <2> QED
      BY <1>1, <1>2, <1>3, <2>1 DEF IInv, TypeOK
  <1>5. CallInv'
    BY <1>1, <1>3 DEF IInv, CallInv
  <1>6. StashInv'
    <2>1. step' <= 12 => step <= 12
      BY <1>1
    <2>2. \A o \in Objects : step' < First(o) => step < First(o)
      BY <1>1 DEF First
    <2> QED
      BY <1>1, <2>1, <2>2 DEF IInv, StashInv
  <1>7. Tracked'
    BY <1>1 DEF IInv, Tracked
  <1>8. LogInv'
    BY <1>1, <1>3 DEF IInv, LogInv, EventsAreTrue, MissedOnlyWithExcuse
  <1> QED
    BY <1>4, <1>5, <1>6, <1>7, <1>8 DEF IInv

-----------------------------------------------------------------------------
(* Calls seen on entry only.                                               *)

\* The number of a new call is nobody's yet.
LEMMA NewNumber ==
    ASSUME IInv, calls < MaxCalls
    PROVE  /\ calls + 1 \in 1 .. MaxCalls /\ calls + 1 \notin Logged \cup DOMAIN truth
           /\ calls \in Nat /\ 1 .. calls \subseteq 1 .. (calls + 1)
           /\ \A o \in Objects, t \in Threads : call[o][t] # <<>> => call[o][t][1].id # calls + 1
  <1>1. calls \in Nat /\ MaxCalls \in Nat /\ calls + 1 \notin 1 .. calls
    BY ProbesAssumption DEF IInv, TypeOK
  <1> QED
    BY <1>1 DEF IInv, TypeOK

LEMMA InstantStep ==
    ASSUME IInv, NEW o \in Objects, NEW t \in Threads, NEW program \in Programs[o], NEW ev,
           NEW on, NEW bytes, NEW readable \in BOOLEAN, NEW room \in BOOLEAN,
           t \in Target => Describes(ev, Did(ev.op, on, bytes, readable)),
           Instant(o, t, program, ev, on, bytes, readable, room)
    PROVE  IInv'
  <1>1. PICK n : n = calls + 1
    OBVIOUS
  <1> DEFINE did == Did(ev.op, on, bytes, readable)
  <1>2. /\ calls' = n /\ calls < MaxCalls /\ UNCHANGED <<step, call, stash>> /\ Excuse(o, n, room)
    BY <1>1 DEF Instant, Free
  <1>3. /\ n \in 1 .. MaxCalls /\ n \notin Logged \cup DOMAIN truth /\ 1 .. calls \subseteq 1 .. n
        /\ n \in 1 .. n
        /\ \A p \in Objects, u \in Threads : call[p][u] # <<>> => call[p][u][1].id # n
    BY <1>1, <1>2, NewNumber
  <1>4. /\ excused \subseteq excused' /\ excused' \subseteq excused \cup {n}
        /\ n \in excused' \/ (room /\ AllAttached(o) /\ ~ReaderClosed(o))
    BY <1>2, ExcuseGrows
  <1>5. Outcome(n, ev, did)
    <2>1. CASE t \notin Target
      BY <1>1, <2>1, TargetPid DEF Instant, Fires, Describe, Outcome
    <2>2. CASE t \in Target
      <3>1. truth' = Extended(n, did) /\ Describes(ev, did)
        BY <1>1, <2>2 DEF Instant, Describe, Extended, Did
      <3>2. IF program \in Installed /\ room /\ ~ReaderClosed(o)
            THEN log' = Append(log, [id |-> n, ev |-> ev]) ELSE log' = log
        BY <1>1, <2>2, TargetPid DEF Instant, Fires, Submit
      <3>3. AllAttached(o) => program \in Installed
        BY DEF AllAttached
      <3> HIDE DEF did
      <3> QED
        BY <1>4, <3>1, <3>2, <3>3 DEF Outcome
    <2> QED
      BY <2>1, <2>2
  <1>6. /\ LogInv' /\ Logged' \subseteq Logged \cup {n} /\ DOMAIN truth' \subseteq DOMAIN truth \cup {n}
    <2> HIDE DEF did
    <2> QED
      BY <1>3, <1>4, <1>5, OutcomeLog DEF IInv
  <1>7. CallInv'
    BY <1>2, <1>3, <1>6, CallsKept DEF IInv, CallInv
  <1>8. TypeOK'
    <2>1. calls' \in 0 .. MaxCalls
      BY <1>2, <1>3
    <2>2. \A p \in Objects : \A u \in Threads : call'[p][u] # <<>> => call'[p][u][1].id \in 1 .. n
      BY <1>2, <1>3 DEF IInv, TypeOK
    <2>3. \A p \in Objects :
             /\ DOMAIN stash[p] \subseteq Target /\ Cardinality(DOMAIN stash[p]) <= StashCap
             /\ \A u \in DOMAIN stash[p] : stash[p][u].buf \in 1 .. n /\ stash[p][u].on \in Fds \cup SSLs
      BY <1>3 DEF IInv, TypeOK
    <2>4. DOMAIN truth' \subseteq 1 .. n /\ Logged' \cup excused' \subseteq 1 .. n
      BY <1>3, <1>4, <1>6 DEF IInv, TypeOK
    <2> QED
      BY <1>2, <2>1, <2>2, <2>3, <2>4 DEF IInv, TypeOK
  <1>9. StashInv' /\ Tracked'
    BY <1>2, <1>4 DEF IInv, StashInv, Tracked
  <1> QED
    BY <1>6, <1>7, <1>8, <1>9 DEF IInv

LEMMA InstantsStep ==
    ASSUME IInv, NEW t \in Threads, NEW readable \in BOOLEAN, NEW room \in BOOLEAN,
           \/ \E fd \in Fds : EnterConnect(t, fd, readable, room) \/ EnterClose(t, fd, room)
           \/ \E fd \in Fds, bytes \in Payloads : EnterWrite(t, fd, bytes, readable, room)
           \/ \E ssl \in SSLs, bytes \in Payloads : EnterSSLWrite(t, ssl, bytes, readable, room)
    PROVE  IInv'
  <1>1. /\ "sys" \in Objects /\ "tls" \in Objects /\ "connect" \in Programs["sys"]
        /\ "close" \in Programs["sys"] /\ "write" \in Programs["sys"] /\ "SSL_write" \in Programs["tls"]
    BY DEF Objects, Programs
  <1>2. ASSUME NEW fd \in Fds, EnterConnect(t, fd, readable, room) PROVE IInv'
    <2> DEFINE ev == ConnectEvent(Pid(t), fd, SeenAddr(readable))
    <2>1. ev.op = "connect"
      BY DEF ConnectEvent, FillCommon
    <2>2. Instant("sys", t, "connect", ev, fd, <<>>, readable, room)
      BY <1>2 DEF EnterConnect
    <2>3. t \in Target => Describes(ev, Did(ev.op, fd, <<>>, readable))
      BY <2>1, BareEventTrue
    <2> HIDE DEF ev
    <2> QED
      BY <1>1, <2>2, <2>3, InstantStep
  <1>3. ASSUME NEW fd \in Fds, EnterClose(t, fd, room) PROVE IInv'
    <2> DEFINE ev == CloseEvent(Pid(t), fd)
    <2>1. ev.op = "close"
      BY DEF CloseEvent, FillCommon
    <2>2. Instant("sys", t, "close", ev, fd, <<>>, TRUE, room)
      BY <1>3 DEF EnterClose
    <2>3. t \in Target => Describes(ev, Did(ev.op, fd, <<>>, TRUE))
      BY <2>1, BareEventTrue
    <2> HIDE DEF ev
    <2> QED
      BY <1>1, <2>2, <2>3, InstantStep
  <1>4. ASSUME NEW fd \in Fds, NEW bytes \in Payloads, EnterWrite(t, fd, bytes, readable, room)
        PROVE  IInv'
    <2> DEFINE ev == WriteEvent(Pid(t), fd, bytes, readable)
    <2>1. ev.op = "write"
      BY DEF WriteEvent, FillCommon
    <2>2. Instant("sys", t, "write", ev, fd, bytes, readable, room)
      BY <1>4 DEF EnterWrite
    <2>3. t \in Target => Describes(ev, Did(ev.op, fd, bytes, readable))
      BY <2>1, DataEventTrue
    <2> HIDE DEF ev
    <2> QED
      BY <1>1, <2>2, <2>3, InstantStep
  <1>5. ASSUME NEW ssl \in SSLs, NEW bytes \in Payloads, EnterSSLWrite(t, ssl, bytes, readable, room)
        PROVE  IInv'
    <2> DEFINE ev == SSLWriteEvent(Pid(t), ssl, bytes, readable)
    <2>1. ev.op = "ssl_write"
      BY DEF SSLWriteEvent, FillCommon
    <2>2. Instant("tls", t, "SSL_write", ev, ssl, bytes, readable, room)
      BY <1>5 DEF EnterSSLWrite
    <2>3. t \in Target => Describes(ev, Did(ev.op, ssl, bytes, readable))
      BY <2>1, DataEventTrue
    <2> HIDE DEF ev
    <2> QED
      BY <1>1, <2>2, <2>3, InstantStep
  <1> QED
    BY <1>2, <1>3, <1>4, <1>5

-----------------------------------------------------------------------------
(* Reads.                                                                  *)

\* A read enters: its arguments are in the stash, or it has an excuse.
LEMMA EnterStep ==
    ASSUME IInv, NEW o \in Objects, NEW t \in Threads, NEW on \in Fds \cup SSLs, Enter(o, t, on)
    PROVE  IInv'
  <1>1. PICK n : n = calls + 1
    OBVIOUS
  <1>2. PICK c : c = [id |-> n, on |-> on, armed |-> o = "tls" => ExitRead[o] \in Installed]
    OBVIOUS
  <1>3. /\ calls' = n /\ calls < MaxCalls /\ UNCHANGED <<step, log, truth>>
        /\ Excuse(o, n, HasStashRoom(o, t)) /\ call[o][t] = <<>>
        /\ call' = [call EXCEPT ![o][t] = <<c>>]
        /\ stash' = IF Fires(t, EnterRead[o])
                    THEN [stash EXCEPT ![o] = Stashed(o, t, [buf |-> n, on |-> on])] ELSE stash
    BY <1>1, <1>2 DEF Enter, Free
  <1>4. /\ n \in 1 .. MaxCalls /\ n \notin Logged \cup DOMAIN truth /\ 1 .. calls \subseteq 1 .. n
        /\ n \in 1 .. n /\ n \in Nat
        /\ \A p \in Objects, u \in Threads : call[p][u] # <<>> => call[p][u][1].id # n
    BY <1>1, <1>3, NewNumber
  <1>5. /\ excused \subseteq excused' /\ excused' \subseteq excused \cup {n}
        /\ n \in excused' \/ (HasStashRoom(o, t) /\ AllAttached(o))
    BY <1>3, ExcuseGrows
  <1>6. c \in CallRecords /\ c.id = n /\ c.on = on
    BY <1>2, <1>4 DEF CallRecords
  <1>7. /\ call' \in [Objects -> [Threads -> Seq(CallRecords)]]
        /\ call'[o][t] = <<c>>
        /\ \A p \in Objects, u \in Threads : p # o \/ u # t => call'[p][u] = call[p][u]
    BY <1>3, <1>6 DEF IInv, CallInv
  <1>8. <<c>> # <<>> /\ <<c>>[1] = c /\ Len(<<c>>) <= 1
    OBVIOUS
  <1>9. Logged' = Logged
    BY <1>3 DEF Logged
  <1>10. CallInv'
    <2>1. call'[o][t] # <<>> /\ call'[o][t][1].id = n /\ Len(call'[o][t]) <= 1
      BY <1>6, <1>7, <1>8
    <2>2. \A p \in Objects, u \in Threads : p # o \/ u # t =>
             /\ Len(call'[p][u]) <= 1
             /\ call'[p][u] # <<>> => /\ call[p][u] # <<>> /\ call'[p][u][1].id = call[p][u][1].id
                                      /\ call'[p][u][1].id # n
      BY <1>4, <1>7 DEF IInv, CallInv
    <2>3. \A p \in Objects, u \in Threads :
             /\ Len(call'[p][u]) <= 1
             /\ call'[p][u] # <<>> => call'[p][u][1].id \notin Logged \cup DOMAIN truth
      <3> TAKE p \in Objects, u \in Threads
      <3>1. CASE p = o /\ u = t
        BY <1>4, <2>1, <3>1
      <3>2. CASE p # o \/ u # t
        BY <2>2, <3>2 DEF IInv, CallInv
      <3> QED
        BY <3>1, <3>2
    <2>4. \A p, q \in Objects, u, v \in Threads :
             /\ call'[p][u] # <<>> /\ call'[q][v] # <<>> /\ call'[p][u][1].id = call'[q][v][1].id
             => p = q /\ u = v
      <3> SUFFICES ASSUME NEW p \in Objects, NEW q \in Objects, NEW u \in Threads, NEW v \in Threads,
                          call'[p][u] # <<>>, call'[q][v] # <<>>,
                          call'[p][u][1].id = call'[q][v][1].id
                   PROVE  p = q /\ u = v
        OBVIOUS
      <3>1. CASE (p = o /\ u = t) \/ (q = o /\ v = t)
        BY <2>1, <2>2, <3>1
      <3>2. CASE (p # o \/ u # t) /\ (q # o \/ v # t)
        <4>1. call[p][u] # <<>> /\ call[q][v] # <<>> /\ call[p][u][1].id = call[q][v][1].id
          BY <2>2, <3>2
        <4> QED
          BY <4>1 DEF IInv, CallInv
      <3> QED
        BY <3>1, <3>2
    <2> QED
      BY <1>3, <1>7, <1>9, <2>3, <2>4 DEF CallInv
  <1>11. /\ DOMAIN stash' = Objects
         /\ \A p \in Objects : p # o => stash'[p] = stash[p]
         /\ \/ stash'[o] = stash[o] /\ ~(Fires(t, EnterRead[o]) /\ HasStashRoom(o, t))
            \/ /\ Fires(t, EnterRead[o]) /\ HasStashRoom(o, t)
               /\ DOMAIN stash'[o] = DOMAIN stash[o] \cup {t}
               /\ stash'[o][t] = [buf |-> n, on |-> on]
               /\ \A u \in DOMAIN stash[o] : u # t => stash'[o][u] = stash[o][u]
    BY <1>3 DEF IInv, StashInv, Stashed
  <1>12. Fires(t, EnterRead[o]) => t \in Target
    BY TargetPid DEF Fires
  <1>13. /\ IsFiniteSet(DOMAIN stash[o]) /\ Cardinality(DOMAIN stash[o]) <= StashCap
         /\ DOMAIN stash[o] \subseteq Target
    BY DEF IInv, StashInv, TypeOK
  <1>14. IsFiniteSet(DOMAIN stash'[o]) /\ Cardinality(DOMAIN stash'[o]) <= StashCap
    <2>1. CASE DOMAIN stash'[o] = DOMAIN stash[o]
      BY <1>13, <2>1
    <2>2. CASE t \notin DOMAIN stash[o] /\ HasStashRoom(o, t)
               /\ DOMAIN stash'[o] = DOMAIN stash[o] \cup {t}
      <3>1. Cardinality(DOMAIN stash[o]) < StashCap /\ StashCap \in Nat
        BY <2>2, ProbesAssumption DEF HasStashRoom
      <3>2. /\ IsFiniteSet(DOMAIN stash[o] \cup {t}) /\ Cardinality(DOMAIN stash[o]) \in Nat
            /\ Cardinality(DOMAIN stash[o] \cup {t}) = Cardinality(DOMAIN stash[o]) + 1
        BY <1>13, <2>2, FS_AddElement, FS_CardinalityType
      <3> QED
        BY <2>2, <3>1, <3>2
    <2> QED
      BY <1>11, <2>1, <2>2
  <1>15. TypeOK'
    <2>1. calls' \in 0 .. MaxCalls
      BY <1>3, <1>4
    <2>2. \A p \in Objects : \A u \in Threads : call'[p][u] # <<>> => call'[p][u][1].id \in 1 .. n
      <3>1. call'[o][t][1].id = n
        BY <1>6, <1>7, <1>8
      <3>2. \A p \in Objects : \A u \in Threads : p # o \/ u # t =>
               (call'[p][u] # <<>> => call'[p][u][1].id \in 1 .. n)
        BY <1>4, <1>7 DEF IInv, TypeOK
      <3> QED
        BY <1>4, <3>1, <3>2
    <2>3. \A p \in Objects :
             /\ DOMAIN stash'[p] \subseteq Target /\ Cardinality(DOMAIN stash'[p]) <= StashCap
             /\ \A u \in DOMAIN stash'[p] :
                   stash'[p][u].buf \in 1 .. n /\ stash'[p][u].on \in Fds \cup SSLs
      BY <1>4, <1>11, <1>12, <1>14 DEF IInv, TypeOK
    <2>4. DOMAIN truth' \subseteq 1 .. n /\ Logged' \cup excused' \subseteq 1 .. n
      BY <1>3, <1>4, <1>5, <1>9 DEF IInv, TypeOK
    <2> QED
      BY <1>3, <2>1, <2>2, <2>3, <2>4 DEF IInv, TypeOK
  <1>16. StashInv'
    <2>1. ASSUME step <= 12, step < First(o) PROVE DOMAIN stash'[o] = {}
      <3>1. step \in 0 .. 12
        BY <2>1, OrdersAre DEF IInv, TypeOK
      <3>2. EnterRead[o] \notin Installed
        BY <2>1, <3>1, ReadAttached DEF First
      <3> QED
        BY <1>11, <2>1, <3>2 DEF Fires, IInv, StashInv
    <2>2. ASSUME step <= 12, t \in DOMAIN stash'[o]
          PROVE  stash'[o][t].buf = n /\ stash'[o][t].on = on
      <3>1. CASE Fires(t, EnterRead[o]) /\ HasStashRoom(o, t)
        BY <1>11, <3>1
      <3>2. CASE ~Fires(t, EnterRead[o])
        <4>1. t \in DOMAIN stash[o] /\ t \in Target
          BY <1>11, <1>13, <2>2, <3>2
        <4>2. EnterRead[o] \notin Installed
          BY <3>2, <4>1, TargetPid DEF Fires
        <4>3. step \in 0 .. 12
          BY <2>2, OrdersAre DEF IInv, TypeOK
        <4>4. step < First(o)
          BY <4>2, <4>3, ReadAttached DEF First
        <4> QED
          BY <2>2, <4>1, <4>4 DEF IInv, StashInv
      <3>3. CASE ~HasStashRoom(o, t)
        BY <1>11, <2>2, <3>3 DEF HasStashRoom
      <3> QED
        BY <3>1, <3>2, <3>3
    <2>3. ASSUME step <= 12, NEW u \in DOMAIN stash'[o], call'[o][u] # <<>>, u # t
          PROVE  stash'[o][u].buf = call'[o][u][1].id /\ stash'[o][u].on = call'[o][u][1].on
      <3>1. u \in DOMAIN stash[o] /\ stash'[o][u] = stash[o][u] /\ u \in Threads
        BY <1>11, <1>13, <2>3, ProbesAssumption
      <3>2. call'[o][u] = call[o][u]
        BY <1>7, <2>3, <3>1
      <3>3. call[o][u] # <<>> => stash[o][u].buf = call[o][u][1].id /\ stash[o][u].on = call[o][u][1].on
        BY <2>3, <3>1 DEF IInv, StashInv
      <3> QED
        BY <2>3, <3>1, <3>2, <3>3
    <2>4. ASSUME NEW p \in Objects, p # o
          PROVE  /\ IsFiniteSet(DOMAIN stash'[p])
                 /\ step <= 12 =>
                      /\ step < First(p) => DOMAIN stash'[p] = {}
                      /\ \A u \in DOMAIN stash'[p] :
                            call'[p][u] # <<>> => /\ stash'[p][u].buf = call'[p][u][1].id
                                                  /\ stash'[p][u].on = call'[p][u][1].on
      <3>1. stash'[p] = stash[p] /\ \A u \in Threads : call'[p][u] = call[p][u]
        BY <1>7, <1>11, <2>4
      <3>2. DOMAIN stash[p] \subseteq Threads
        BY ProbesAssumption DEF IInv, TypeOK
      <3> QED
        BY <3>1, <3>2 DEF IInv, StashInv
    <2>5. /\ step <= 12 =>
                \A u \in DOMAIN stash'[o] :
                   call'[o][u] # <<>> => /\ stash'[o][u].buf = call'[o][u][1].id
                                         /\ stash'[o][u].on = call'[o][u][1].on
      BY <1>6, <1>7, <1>8, <2>2, <2>3
    <2>6. step' = step
      BY <1>3
    <2> QED
      BY <1>11, <1>14, <2>1, <2>4, <2>5, <2>6 DEF StashInv
  <1>17. Tracked'
    <2>1. ASSUME t \in Target, n \notin excused' PROVE c.armed /\ t \in DOMAIN stash'[o]
      <3>1. HasStashRoom(o, t) /\ AllAttached(o)
        BY <1>5, <2>1
      <3>2. EnterRead[o] \in Programs[o] /\ ExitRead[o] \in Programs[o]
        BY DEF Objects, EnterRead, ExitRead, Programs
      <3>3. EnterRead[o] \in Installed /\ ExitRead[o] \in Installed
        BY <3>1, <3>2 DEF AllAttached
      <3>4. Fires(t, EnterRead[o])
        BY <2>1, <3>3, TargetPid DEF Fires
      <3> QED
        BY <1>2, <1>11, <3>1, <3>3, <3>4
    <2>2. \A p \in Objects, u \in Target : p # o \/ u # t =>
             call'[p][u] = call[p][u] /\ (u \in DOMAIN stash[p] => u \in DOMAIN stash'[p])
      BY <1>7, <1>11, ProbesAssumption
    <2>3. call'[o][t][1] = c /\ c.id = n
      BY <1>6, <1>7, <1>8
    <2>4. \A p \in Objects, u \in Target : p # o \/ u # t =>
             (call'[p][u] # <<>> => \/ call'[p][u][1].id \in excused'
                                    \/ call'[p][u][1].armed /\ u \in DOMAIN stash'[p])
      BY <1>5, <2>2 DEF IInv, Tracked
    <2>5. t \in Target => \/ call'[o][t][1].id \in excused'
                          \/ call'[o][t][1].armed /\ t \in DOMAIN stash'[o]
      BY <2>1, <2>3
    <2> QED
      BY <2>4, <2>5 DEF Tracked
  <1>18. LogInv'
    BY <1>3, <1>5, <1>9 DEF IInv, LogInv, EventsAreTrue, MissedOnlyWithExcuse
  <1> QED
    BY <1>10, <1>15, <1>16, <1>17, <1>18 DEF IInv

LEMMA ReturnStep ==
    ASSUME IInv, NEW o \in Objects, NEW t \in Threads, NEW bytes \in Payloads \cup {<<>>},
           NEW readable \in BOOLEAN, NEW room \in BOOLEAN, Return(o, t, bytes, readable, room)
    PROVE  IInv'
  <1>1. PICK c : c = call[o][t][1]
    OBVIOUS
  <1>2. PICK fires : fires = (Fires(t, ExitRead[o]) /\ c.armed /\ t \in DOMAIN stash[o])
    OBVIOUS
  <1>3. PICK args : args = stash[o][t]
    OBVIOUS
  <1>4. PICK ev : ev = ReadEventOf(o, t, args.on, IF args.buf = c.id THEN bytes
                                                  ELSE [i \in DOMAIN bytes |-> Stale],
                              readable)
    OBVIOUS
  <1> DEFINE op == IF o = "sys" THEN "read" ELSE "ssl_read"
             did == Did(op, c.on, bytes, readable)
  <1>5. /\ call[o][t] # <<>> /\ call' = [call EXCEPT ![o][t] = <<>>]
        /\ stash' = IF fires THEN [stash EXCEPT ![o] = [u \in DOMAIN @ \ {t} |-> @[u]]] ELSE stash
        /\ Excuse(o, c.id, room) /\ UNCHANGED <<step, calls>>
    BY <1>1, <1>2 DEF Return
  <1>6. IF bytes # <<>>
        THEN /\ IF fires THEN Submit(o, c.id, ev, room) ELSE UNCHANGED log
             /\ Describe(t, c.id, op, c.on, bytes, readable)
        ELSE UNCHANGED <<log, truth>>
    BY <1>1, <1>2, <1>3, <1>4 DEF Return
  <1>7. /\ c.id \in 1 .. calls /\ c.id \notin Logged \cup DOMAIN truth
        /\ \A p \in Objects, u \in Threads : p # o \/ u # t =>
              (call[p][u] # <<>> => call[p][u][1].id # c.id)
    BY <1>1, <1>5 DEF IInv, TypeOK, CallInv
  <1>8. /\ excused \subseteq excused' /\ excused' \subseteq excused \cup {c.id}
        /\ c.id \in excused' \/ (room /\ AllAttached(o) /\ ~ReaderClosed(o))
    BY <1>5, ExcuseGrows
  <1>9. t \in Target => c.id \in excused \/ (c.armed /\ t \in DOMAIN stash[o])
    BY <1>1, <1>5 DEF IInv, Tracked
  <1>10. Outcome(c.id, ev, did)
    <2>1. CASE t \notin Target \/ bytes = <<>>
      BY <1>2, <1>6, <2>1, TargetPid DEF Fires, Describe, Outcome
    <2>2. CASE t \in Target /\ bytes # <<>>
      <3>1. truth' = Extended(c.id, did)
        BY <1>6, <2>2 DEF Describe, Extended, Did
      <3>2. CASE fires /\ room /\ ~ReaderClosed(o)
        <4>1. log' = Append(log, [id |-> c.id, ev |-> ev])
          BY <1>6, <2>2, <3>2 DEF Submit
        <4>2. step \in 0 .. 20
          BY OrdersAre DEF IInv, TypeOK
        <4>3. step <= 12
          BY <3>2, <4>2, OpenReader
        <4>4. args.buf = c.id /\ args.on = c.on
          BY <1>1, <1>2, <1>3, <1>5, <3>2, <4>3 DEF IInv, StashInv
        <4>5. ev = ReadEventOf(o, t, c.on, bytes, readable)
          BY <1>4, <4>4
        <4>6. Describes(ev, did)
          BY <2>2, <4>5, DataEventTrue DEF ReadEventOf, Objects
        <4> HIDE DEF did
        <4> QED
          BY <3>1, <4>1, <4>6 DEF Outcome
      <3>3. CASE ~(fires /\ room /\ ~ReaderClosed(o))
        <4>1. log' = log
          BY <1>6, <2>2, <3>3 DEF Submit
        <4>2. ExitRead[o] \in Programs[o]
          BY DEF Objects, ExitRead, Programs
        <4>3. c.id \in excused'
          BY <1>2, <1>8, <1>9, <2>2, <3>3, <4>2, TargetPid DEF AllAttached, Fires
        <4> HIDE DEF did
        <4> QED
          BY <3>1, <4>1, <4>3 DEF Outcome
      <3> QED
        BY <3>2, <3>3
    <2> QED
      BY <2>1, <2>2
  <1>11. /\ LogInv' /\ Logged' \subseteq Logged \cup {c.id}
         /\ DOMAIN truth' \subseteq DOMAIN truth \cup {c.id}
    <2>1. PICK id : id = c.id
      OBVIOUS
    <2> HIDE DEF did
    <2> QED
      BY <1>7, <1>8, <1>10, <2>1, OutcomeLog DEF IInv
  <1>12. /\ call' \in [Objects -> [Threads -> Seq(CallRecords)]] /\ call'[o][t] = <<>>
         /\ \A p \in Objects, u \in Threads : p # o \/ u # t => call'[p][u] = call[p][u]
    BY <1>5 DEF IInv, CallInv
  <1>13. CallInv'
    <2>1. PICK id : id = c.id
      OBVIOUS
    <2>2. \A p \in Objects, u \in Threads :
             \/ call'[p][u] = <<>>
             \/ call'[p][u] = call[p][u] /\ (call[p][u] # <<>> => call[p][u][1].id # id)
      BY <1>7, <1>12, <2>1
    <2>3. Logged' \subseteq Logged \cup {id} /\ DOMAIN truth' \subseteq DOMAIN truth \cup {id}
      BY <1>11, <2>1
    <2>4. call' \in [Objects -> [Threads -> Seq(CallRecords)]] /\ CallInv
      BY <1>12 DEF IInv
    <2> QED
      BY <2>2, <2>3, <2>4, CallsKept
  <1>14. /\ DOMAIN stash' = Objects
         /\ \A p \in Objects : p # o => stash'[p] = stash[p]
         /\ \/ stash'[o] = stash[o]
            \/ /\ DOMAIN stash'[o] = DOMAIN stash[o] \ {t}
               /\ \A u \in DOMAIN stash[o] : u # t => stash'[o][u] = stash[o][u]
    BY <1>5 DEF IInv, StashInv
  <1>15. \A p \in Objects :
            /\ DOMAIN stash'[p] \subseteq DOMAIN stash[p]
            /\ \A u \in DOMAIN stash'[p] : stash'[p][u] = stash[p][u]
    BY <1>14
  <1>16. \A p \in Objects :
            IsFiniteSet(DOMAIN stash'[p]) /\ Cardinality(DOMAIN stash'[p]) <= StashCap
    <2> TAKE p \in Objects
    <2>1. /\ IsFiniteSet(DOMAIN stash[p]) /\ Cardinality(DOMAIN stash[p]) <= StashCap
          /\ DOMAIN stash'[p] \subseteq DOMAIN stash[p] /\ StashCap \in Nat
      BY <1>15, ProbesAssumption DEF IInv, StashInv, TypeOK
    <2>2. /\ IsFiniteSet(DOMAIN stash'[p])
          /\ Cardinality(DOMAIN stash'[p]) <= Cardinality(DOMAIN stash[p])
          /\ Cardinality(DOMAIN stash'[p]) \in Nat /\ Cardinality(DOMAIN stash[p]) \in Nat
      BY <2>1, FS_Subset, FS_CardinalityType
    <2> QED
      BY <2>1, <2>2
  <1>17. TypeOK'
    <2>1. \A p \in Objects : \A u \in Threads :
             call'[p][u] # <<>> => call'[p][u][1].id \in 1 .. calls
      BY <1>12 DEF IInv, TypeOK
    <2>2. \A p \in Objects :
             /\ DOMAIN stash'[p] \subseteq Target /\ Cardinality(DOMAIN stash'[p]) <= StashCap
             /\ \A u \in DOMAIN stash'[p] :
                   stash'[p][u].buf \in 1 .. calls /\ stash'[p][u].on \in Fds \cup SSLs
      BY <1>15, <1>16 DEF IInv, TypeOK
    <2>3. DOMAIN truth' \subseteq 1 .. calls /\ Logged' \cup excused' \subseteq 1 .. calls
      BY <1>7, <1>8, <1>11 DEF IInv, TypeOK
    <2> QED
      BY <1>5, <2>1, <2>2, <2>3 DEF IInv, TypeOK
  <1>18. StashInv'
    <2>1. \A p \in Objects : \A u \in DOMAIN stash'[p] :
             u \in Threads /\ (call'[p][u] # <<>> => call'[p][u] = call[p][u])
      BY <1>12, <1>15, ProbesAssumption DEF IInv, TypeOK
    <2>2. step' = step
      BY <1>5
    <2>3. \A p \in Objects : step <= 12 /\ step < First(p) => DOMAIN stash'[p] = {}
      BY <1>15 DEF IInv, StashInv
    <2>4. \A p \in Objects : step <= 12 =>
             \A u \in DOMAIN stash'[p] :
                call'[p][u] # <<>> => /\ stash'[p][u].buf = call'[p][u][1].id
                                      /\ stash'[p][u].on = call'[p][u][1].on
      BY <1>15, <2>1 DEF IInv, StashInv
    <2> QED
      BY <1>14, <1>16, <2>2, <2>3, <2>4 DEF StashInv
  <1>19. Tracked'
    <2>1. \A p \in Objects, u \in Target : call'[p][u] # <<>> =>
             /\ call'[p][u] = call[p][u]
             /\ u \in DOMAIN stash[p] => u \in DOMAIN stash'[p]
      BY <1>12, <1>14, ProbesAssumption
    <2> QED
      BY <1>8, <2>1 DEF IInv, Tracked
  <1> QED
    BY <1>11, <1>13, <1>17, <1>18, <1>19 DEF IInv

-----------------------------------------------------------------------------
(* The theorems.                                                           *)

LEMMA NextStep == IInv /\ [Next]_vars => IInv'
  <1> SUFFICES ASSUME IInv, [Next]_vars PROVE IInv'
    OBVIOUS
  <1>1. CASE SetupOrClose
    BY <1>1, SetupOrCloseStep
  <1>2. ASSUME NEW t \in Threads,
               (\E fd \in Fds : Enter("sys", t, fd)) \/ (\E ssl \in SSLs : Enter("tls", t, ssl))
        PROVE  IInv'
    BY <1>2, EnterStep DEF Objects
  <1>3. ASSUME NEW t \in Threads, NEW readable \in BOOLEAN, NEW room \in BOOLEAN,
               \/ \E fd \in Fds : EnterConnect(t, fd, readable, room) \/ EnterClose(t, fd, room)
               \/ \E fd \in Fds, bytes \in Payloads : EnterWrite(t, fd, bytes, readable, room)
               \/ \E ssl \in SSLs, bytes \in Payloads : EnterSSLWrite(t, ssl, bytes, readable, room)
        PROVE  IInv'
    BY <1>3, InstantsStep
  <1>4. ASSUME NEW t \in Threads, NEW readable \in BOOLEAN, NEW room \in BOOLEAN,
               NEW o \in Objects, NEW bytes \in Payloads \cup {<<>>},
               Return(o, t, bytes, readable, room)
        PROVE  IInv'
    BY <1>4, ReturnStep
  <1>5. CASE UNCHANGED vars
    BY <1>5 DEF vars, IInv, TypeOK, CallInv, StashInv, Tracked, LogInv, Logged, EventsAreTrue,
                MissedOnlyWithExcuse
  <1> QED
    BY <1>1, <1>2, <1>3, <1>4, <1>5 DEF Next

LEMMA Invariance == Spec => []IInv
  BY InitIInv, NextStep, PTL DEF Spec

\* The probes' state is well typed and neither stash outgrows its map.
THEOREM ProbesTypeOK == Spec => []TypeOK
  <1>1. IInv => TypeOK
    BY DEF IInv
  <1> QED
    BY <1>1, Invariance, PTL

\* For any number of threads and calls, in any interleaving with attaching
\* and detaching, and whichever buffers the programs can read, every record
\* describes the call it was made for.
THEOREM ProbesEventsAreTrue == Spec => []EventsAreTrue
  <1>1. IInv => EventsAreTrue
    BY DEF IInv, LogInv
  <1> QED
    BY <1>1, Invariance, PTL

\* No call of the traced process goes missing without a full map or ring or
\* a program that was not attached.
THEOREM ProbesMissedOnlyWithExcuse == Spec => []MissedOnlyWithExcuse
  <1>1. IInv => MissedOnlyWithExcuse
    BY DEF IInv, LogInv
  <1> QED
    BY <1>1, Invariance, PTL
=============================================================================
