---------------------------- MODULE LaunchProofs ----------------------------
(* First the proxy: its WaitGroup counts exactly the handlers that run,    *)
(* and Close waits for those it found running, for any clients, commands   *)
(* and replies.  Then `wiremark launch' and the run it may become: the     *)
(* menu executes what the user chose, the command never finds the proxy    *)
(* missing, and the proxy inside the run is ReplayProxy's, with everything *)
(* proved of it.                                                           *)
EXTENDS Launch, FiniteSetTheorems, SequenceTheorems, TLAPS

-----------------------------------------------------------------------------
(* Sequences without repetition.                                           *)

Distinct(s) == \A i, j \in DOMAIN s : s[i] = s[j] => i = j

\* Appending a new element.
LEMMA AppendDistinct ==
    ASSUME NEW T, NEW s \in Seq(T), NEW x \in T, Distinct(s), x \notin ToSet(s)
    PROVE  /\ Append(s, x) \in Seq(T) /\ Distinct(Append(s, x))
           /\ ToSet(Append(s, x)) = ToSet(s) \cup {x}
  <1>1. /\ Append(s, x) \in Seq(T) /\ Len(s) \in Nat
        /\ DOMAIN s = 1 .. Len(s) /\ DOMAIN Append(s, x) = 1 .. Len(s) + 1
        /\ \A i \in 1 .. Len(s) : Append(s, x)[i] = s[i]
        /\ Append(s, x)[Len(s) + 1] = x
    OBVIOUS
  <1>2. \A i \in 1 .. Len(s) : s[i] # x
    BY <1>1 DEF ToSet
  <1>3. Distinct(Append(s, x))
    BY <1>1, <1>2 DEF Distinct
  <1>4. ToSet(Append(s, x)) = ToSet(s) \cup {x}
    BY <1>1 DEF ToSet
  <1> QED
    BY <1>1, <1>3, <1>4

\* Taking the first element.
LEMMA TailDistinct ==
    ASSUME NEW T, NEW s \in Seq(T), s # <<>>, Distinct(s)
    PROVE  /\ Head(s) \in T /\ Head(s) \in ToSet(s)
           /\ Tail(s) \in Seq(T) /\ Distinct(Tail(s))
           /\ ToSet(Tail(s)) = ToSet(s) \ {Head(s)}
  <1>1. /\ Tail(s) \in Seq(T) /\ Len(s) \in Nat /\ Len(s) >= 1 /\ Head(s) = s[1]
        /\ DOMAIN s = 1 .. Len(s) /\ DOMAIN Tail(s) = 1 .. Len(s) - 1
        /\ \A i \in 1 .. Len(s) - 1 : Tail(s)[i] = s[i + 1]
    OBVIOUS
  <1>2. Head(s) \in T /\ Head(s) \in ToSet(s)
    BY <1>1 DEF ToSet
  <1>3. Distinct(Tail(s))
    <2> SUFFICES ASSUME NEW i \in 1 .. Len(s) - 1, NEW j \in 1 .. Len(s) - 1,
                        Tail(s)[i] = Tail(s)[j]
                 PROVE  i = j
      BY <1>1 DEF Distinct
    <2>1. i + 1 \in DOMAIN s /\ j + 1 \in DOMAIN s /\ s[i + 1] = s[j + 1]
      BY <1>1
    <2> QED
      BY <2>1, <1>1 DEF Distinct
  <1>4. ToSet(Tail(s)) \subseteq ToSet(s) \ {Head(s)}
    <2> SUFFICES ASSUME NEW i \in 1 .. Len(s) - 1
                 PROVE  Tail(s)[i] \in ToSet(s) \ {Head(s)}
      BY <1>1 DEF ToSet
    <2>1. i + 1 \in DOMAIN s /\ Tail(s)[i] = s[i + 1] /\ 1 \in DOMAIN s /\ i + 1 # 1
      BY <1>1
    <2> QED
      BY <2>1, <1>1 DEF Distinct, ToSet
  <1>5. ToSet(s) \ {Head(s)} \subseteq ToSet(Tail(s))
    <2> SUFFICES ASSUME NEW i \in DOMAIN s, s[i] # s[1]
                 PROVE  s[i] \in ToSet(Tail(s))
      BY <1>1 DEF ToSet
    <2>1. i - 1 \in DOMAIN Tail(s) /\ Tail(s)[i - 1] = s[i]
      BY <1>1
    <2> QED
      BY <2>1 DEF ToSet
  <1> QED
    BY <1>1, <1>2, <1>3, <1>4, <1>5

\* What an accepted connection is.
LEMMA ToSetSingleton ==
    ASSUME NEW T, NEW s \in Seq(T), Len(s) = 1
    PROVE  ToSet(s) = {s[1]} /\ s[1] \in T
  BY DEF ToSet

LEMMA ToSetEmpty == ToSet(<<>>) = {}
  BY DEF ToSet

-----------------------------------------------------------------------------
(* The inductive invariant.                                                *)

LiveSet == {c \in Clients : Live(c)}

\* A handler that Close found running is still running or has returned.
WaitInv ==
    /\ \A c \in inFlight : Live(c) \/ handler[c] = "returned"
    /\ CloseWaitsForRunning

IInv == TypeOK /\ WgCountsHandlers /\ WaitInv

\* The running handlers are finitely many, and none is left when wg is zero.
LEMMA WgFacts ==
    ASSUME Types, WgCountsHandlers
    PROVE  /\ IsFiniteSet(LiveSet) /\ wg = Cardinality(LiveSet) /\ wg \in Nat
           /\ wg = 0 => \A c \in Clients : ~Live(c)
  <1>1. IsFiniteSet(LiveSet)
    BY ProxyAssumption, FS_Subset DEF LiveSet
  <1>2. wg = Cardinality(LiveSet)
    BY DEF WgCountsHandlers, LiveSet
  <1>3. wg = 0 => LiveSet = {}
    BY <1>1, <1>2, FS_EmptySet
  <1> QED
    BY <1>1, <1>2, <1>3 DEF LiveSet, Types

\* A step that leaves the handlers' liveness alone leaves the count right.
LEMMA SameLive ==
    ASSUME WgCountsHandlers, wg' = wg, \A c \in Clients : Live(c)' <=> Live(c)
    PROVE  WgCountsHandlers'
  BY DEF WgCountsHandlers

LEMMA InitIInv == Init => IInv
  <1> SUFFICES ASSUME Init PROVE IInv
    OBVIOUS
  <1>1. Types
    BY DEF Init, Types
  <1>2. InOnePlace
    BY ToSetEmpty DEF Init, InOnePlace
  <1>3. WgCountsHandlers
    <2>1. {c \in Clients : Live(c)} = {}
      BY DEF Init, Live
    <2> QED
      BY <2>1, FS_EmptySet DEF WgCountsHandlers, Init
  <1>4. WaitInv
    BY DEF Init, WaitInv, CloseWaitsForRunning
  <1> QED
    BY <1>1, <1>2, <1>3, <1>4 DEF IInv, TypeOK

-----------------------------------------------------------------------------
(* Serve.                                                                  *)

LEMMA AcceptStep == IInv /\ Accept => IInv'
  <1> SUFFICES ASSUME IInv, Accept PROVE IInv'
    OBVIOUS
  <1> USE DEF IInv, TypeOK
  <1>1. Distinct(backlog) /\ backlog \in Seq(Clients) /\ backlog # <<>>
    BY DEF Accept, Types, InOnePlace, Distinct
  <1> DEFINE h == Head(backlog)
  <1>2. /\ h \in Clients /\ h \in ToSet(backlog) /\ Tail(backlog) \in Seq(Clients)
        /\ Distinct(Tail(backlog)) /\ ToSet(Tail(backlog)) = ToSet(backlog) \ {h}
    BY <1>1, TailDistinct
  <1>3. accepted' = <<h>> /\ backlog' = Tail(backlog) /\ ToSet(<<h>>) = {h}
    <2>1. <<h>> \in Seq(Clients) /\ Len(<<h>>) = 1 /\ <<h>>[1] = h
      BY <1>2
    <2>2. ToSet(<<h>>) = {h}
      BY <2>1, ToSetSingleton
    <2> QED
      BY <2>2 DEF Accept
  <1>4. Types'
    BY <1>2, <1>3 DEF Accept, Types, clientVars, handlerVars
  <1>5. InOnePlace'
    <2>1. ToSet(backlog)' = ToSet(backlog) \ {h} /\ ToSet(accepted)' = {h}
      BY <1>2, <1>3
    <2>2. \A i, j \in DOMAIN backlog' : backlog'[i] = backlog'[j] => i = j
      BY <1>2, <1>3 DEF Distinct
    <2>3. client' = client /\ handler' = handler
      BY DEF Accept, clientVars, handlerVars
    <2> QED
      BY <1>2, <2>1, <2>2, <2>3 DEF InOnePlace
  <1>6. WgCountsHandlers'
    BY SameLive DEF Accept, Live, handlerVars
  <1>7. WaitInv'
    BY DEF Accept, WaitInv, CloseWaitsForRunning, Live, handlerVars
  <1> QED
    BY <1>4, <1>5, <1>6, <1>7

LEMMA AcceptFailsStep == IInv /\ AcceptFails => IInv'
  <1> SUFFICES ASSUME IInv, AcceptFails PROVE IInv'
    OBVIOUS
  <1> USE DEF IInv, TypeOK
  <1>1. Types' /\ InOnePlace'
    BY DEF AcceptFails, Types, InOnePlace, clientVars, handlerVars
  <1>2. WgCountsHandlers'
    BY SameLive DEF AcceptFails, Live, handlerVars
  <1>3. WaitInv'
    BY DEF AcceptFails, WaitInv, CloseWaitsForRunning, Live, handlerVars
  <1> QED
    BY <1>1, <1>2, <1>3

\* The accepted connection has no handler yet, so it was not counted, and
\* Close did not find it running.
LEMMA StartHandlerStep == IInv /\ StartHandler => IInv'
  <1> SUFFICES ASSUME IInv, StartHandler PROVE IInv'
    OBVIOUS
  <1> USE DEF IInv, TypeOK
  <1> DEFINE a == accepted[1]
  <1>1. a \in Clients /\ ToSet(accepted) = {a} /\ ToSet(accepted)' = {}
    BY ToSetSingleton, ToSetEmpty DEF StartHandler, Types
  <1>2. handler[a] = "none" /\ client[a] # "idle" /\ a \notin ToSet(backlog)
    BY <1>1 DEF InOnePlace
  <1>3. handler' = [handler EXCEPT ![a] = "read"] /\ backlog' = backlog /\ client' = client
    BY DEF StartHandler, clientVars
  <1>4. Types'
    BY <1>1, <1>2, <1>3 DEF StartHandler, Types, clientVars
  <1>5. InOnePlace'
    BY <1>1, <1>2, <1>3 DEF InOnePlace, Types
  <1>6. WgCountsHandlers'
    <2>1. LiveSet' = LiveSet \cup {a} /\ a \notin LiveSet
      BY <1>1, <1>2, <1>3 DEF LiveSet, Live, Types
    <2>2. Cardinality(LiveSet \cup {a}) = Cardinality(LiveSet) + 1
      BY <2>1, WgFacts, FS_AddElement
    <2>3. wg' = Cardinality(LiveSet')
      BY <2>1, <2>2, WgFacts DEF StartHandler
    <2> QED
      BY <2>3 DEF WgCountsHandlers, LiveSet
  <1>7. WaitInv'
    <2>1. a \notin inFlight
      BY <1>2 DEF WaitInv, Live
    <2> QED
      BY <1>1, <1>3, <2>1 DEF StartHandler, WaitInv, CloseWaitsForRunning, Live, Types
  <1> QED
    BY <1>4, <1>5, <1>6, <1>7

-----------------------------------------------------------------------------
(* The handlers.                                                           *)

\* A handler that goes on: from one running state to another.
LEMMA HandlerGoesOn ==
    ASSUME IInv, NEW c \in Clients, Live(c),
           NEW q \in {"read", "reply", "closing"},
           handler' = [handler EXCEPT ![c] = q],
           UNCHANGED <<backlog, client, accepted, wg, closer, inFlight>>
    PROVE  InOnePlace' /\ WgCountsHandlers' /\ WaitInv'
  <1> USE DEF IInv, TypeOK
  <1>1. handler \in [Clients -> {"none", "read", "reply", "closing", "returned"}]
    BY DEF Types
  <1>2. handler[c] # "none" /\ handler'[c] = q /\ \A d \in Clients \ {c} : handler'[d] = handler[d]
    BY <1>1 DEF Live
  <1>3. \A d \in Clients : Live(d)' <=> Live(d)
    BY <1>1, <1>2 DEF Live
  <1>4. InOnePlace'
    <2>1. ToSet(backlog)' = ToSet(backlog) /\ ToSet(accepted)' = ToSet(accepted)
      OBVIOUS
    <2>2. client[c] # "idle" /\ c \notin ToSet(backlog) /\ c \notin ToSet(accepted)
      BY <1>2 DEF InOnePlace
    <2> QED
      BY <1>2, <2>1, <2>2 DEF InOnePlace
  <1>5. WgCountsHandlers'
    BY <1>3, SameLive
  <1>6. WaitInv'
    <2>1. inFlight \subseteq Clients
      BY DEF Types
    <2> QED
      BY <1>2, <1>3, <2>1 DEF WaitInv, CloseWaitsForRunning, Live
  <1> QED
    BY <1>4, <1>5, <1>6

\* A handler holds a command exactly while it answers it.
CurOK ==
    /\ cur \in [Clients -> Seq(Commands)]
    /\ \A d \in Clients : Len(cur[d]) = (IF handler[d] = "reply" THEN 1 ELSE 0)

LEMMA CurStep ==
    ASSUME IInv, NEW c \in Clients, NEW q, NEW v \in Seq(Commands),
           q \in {"none", "read", "reply", "closing", "returned"},
           Len(v) = (IF q = "reply" THEN 1 ELSE 0),
           cur' = [cur EXCEPT ![c] = v], handler' = [handler EXCEPT ![c] = q]
    PROVE  CurOK'
  <1>1. Types
    BY DEF IInv, TypeOK
  <1>2. cur'[c] = v /\ handler'[c] = q
    BY <1>1 DEF Types
  <1>3. \A d \in Clients \ {c} : cur'[d] = cur[d] /\ handler'[d] = handler[d]
    BY <1>1 DEF Types
  <1>4. cur' \in [Clients -> Seq(Commands)]
    BY <1>1 DEF Types
  <1> QED
    BY <1>1, <1>2, <1>3, <1>4 DEF Types, CurOK

LEMMA ReadCommandStep ==
    ASSUME IInv, NEW c \in Clients, ReadCommand(c)
    PROVE  IInv'
  <1> USE DEF IInv, TypeOK
  <1>1. Head(inbox[c]) \in Commands /\ Tail(inbox[c]) \in Seq(Commands \cup Malformed)
    BY DEF ReadCommand, Types
  <1>2. <<Head(inbox[c])>> \in Seq(Commands) /\ Len(<<Head(inbox[c])>>) = 1
    BY <1>1
  <1>3. CurOK'
    BY <1>2, CurStep DEF ReadCommand
  <1>4. Types'
    BY <1>1, <1>3 DEF ReadCommand, Types, CurOK, clientVars
  <1>5. InOnePlace' /\ WgCountsHandlers' /\ WaitInv'
    BY HandlerGoesOn DEF ReadCommand, Live, clientVars
  <1> QED
    BY <1>4, <1>5

LEMMA ReadFailsStep ==
    ASSUME IInv, NEW c \in Clients, ReadFails(c)
    PROVE  IInv'
  <1> USE DEF IInv, TypeOK
  <1>1. Types'
    BY DEF ReadFails, Types, clientVars
  <1>2. InOnePlace' /\ WgCountsHandlers' /\ WaitInv'
    BY HandlerGoesOn DEF ReadFails, Live, clientVars
  <1> QED
    BY <1>1, <1>2

LEMMA WriteReplyStep ==
    ASSUME IInv, NEW c \in Clients, WriteReply(c)
    PROVE  IInv'
  <1> USE DEF IInv, TypeOK
  <1>1. CurOK'
    <2>1. <<>> \in Seq(Commands) /\ Len(<<>>) = (IF "read" = "reply" THEN 1 ELSE 0)
      OBVIOUS
    <2>2. cur' = [cur EXCEPT ![c] = <<>>] /\ handler' = [handler EXCEPT ![c] = "read"]
      BY DEF WriteReply
    <2> QED
      BY <2>1, <2>2, CurStep
  <1>2. Types'
    BY <1>1 DEF WriteReply, Types, CurOK, clientVars
  <1>3. InOnePlace' /\ WgCountsHandlers' /\ WaitInv'
    BY HandlerGoesOn DEF WriteReply, Live, clientVars
  <1> QED
    BY <1>2, <1>3

LEMMA WriteFailsStep ==
    ASSUME IInv, NEW c \in Clients, WriteFails(c)
    PROVE  IInv'
  <1> USE DEF IInv, TypeOK
  <1>1. CurOK'
    <2>1. <<>> \in Seq(Commands) /\ Len(<<>>) = (IF "closing" = "reply" THEN 1 ELSE 0)
      OBVIOUS
    <2>2. cur' = [cur EXCEPT ![c] = <<>>] /\ handler' = [handler EXCEPT ![c] = "closing"]
      BY DEF WriteFails
    <2> QED
      BY <2>1, <2>2, CurStep
  <1>2. Types'
    BY <1>1 DEF WriteFails, Types, CurOK, clientVars
  <1>3. InOnePlace' /\ WgCountsHandlers' /\ WaitInv'
    BY HandlerGoesOn DEF WriteFails, Live, clientVars
  <1> QED
    BY <1>2, <1>3

\* The only step that ends a handler: it was counted, so the counter is not
\* zero, and one less is the count of those that are left.
LEMMA HandlerReturnsStep ==
    ASSUME IInv, NEW c \in Clients, HandlerReturns(c)
    PROVE  IInv'
  <1> USE DEF IInv, TypeOK
  <1>1. handler' = [handler EXCEPT ![c] = "returned"] /\ handler[c] = "closing"
    BY DEF HandlerReturns
  <1>2. /\ client' \in [Clients -> {"idle", "open", "closed", "reset"}]
        /\ \A d \in Clients : client'[d] = "idle" <=> client[d] = "idle"
    BY DEF HandlerReturns, Types
  <1>3. LiveSet' = LiveSet \ {c} /\ c \in LiveSet
    BY <1>1 DEF LiveSet, Live, Types
  <1>4. IsFiniteSet(LiveSet) /\ wg = Cardinality(LiveSet) /\ wg \in Nat
    BY WgFacts
  <1>5. Cardinality(LiveSet \ {c}) = wg - 1 /\ Cardinality(LiveSet \ {c}) \in Nat
    BY <1>3, <1>4, FS_RemoveElement, FS_Subset, FS_CardinalityType
  <1>6. wg' = wg - 1
    BY DEF HandlerReturns
  <1>7. Types'
    <2>1. wg' \in Nat
      BY <1>5, <1>6
    <2> QED
      BY <1>1, <1>2, <2>1 DEF HandlerReturns, Types
  <1>8. InOnePlace'
    <2>1. backlog' = backlog /\ accepted' = accepted
      BY DEF HandlerReturns
    <2>2. ToSet(backlog)' = ToSet(backlog) /\ ToSet(accepted)' = ToSet(accepted)
      BY <2>1
    <2>3. client[c] # "idle" /\ c \notin ToSet(backlog) /\ c \notin ToSet(accepted)
      BY <1>1 DEF InOnePlace
    <2>4. ToSet(backlog) \subseteq Clients /\ ToSet(accepted) \subseteq Clients
      BY DEF Types, ToSet
    <2>5. \A d \in Clients \ {c} : handler'[d] = handler[d]
      BY <1>1 DEF Types
    <2> QED
      BY <1>2, <2>1, <2>2, <2>3, <2>4, <2>5 DEF InOnePlace
  <1>9. WgCountsHandlers'
    BY <1>3, <1>5, <1>6 DEF WgCountsHandlers, LiveSet
  <1>10. WaitInv'
    BY <1>1 DEF HandlerReturns, WaitInv, CloseWaitsForRunning, Live, Types
  <1> QED
    BY <1>7, <1>8, <1>9, <1>10

-----------------------------------------------------------------------------
(* Close.                                                                  *)

LEMMA CloseListenerStep == IInv /\ CloseListener => IInv'
  <1> SUFFICES ASSUME IInv, CloseListener PROVE IInv'
    OBVIOUS
  <1> USE DEF IInv, TypeOK
  <1>1. /\ client' \in [Clients -> {"idle", "open", "closed", "reset"}]
        /\ \A d \in Clients : client'[d] = "idle" <=> client[d] = "idle"
    BY DEF CloseListener, Types
  <1>2. backlog' = <<>> /\ accepted' = accepted /\ handler' = handler
    BY DEF CloseListener, handlerVars
  <1>3. Types'
    BY <1>1, <1>2 DEF CloseListener, Types, handlerVars
  <1>4. InOnePlace'
    <2>1. ToSet(backlog)' = {} /\ ToSet(accepted)' = ToSet(accepted)
      BY <1>2, ToSetEmpty
    <2>2. ToSet(accepted) \subseteq Clients
      BY DEF Types, ToSet
    <2> QED
      BY <1>1, <1>2, <2>1, <2>2 DEF InOnePlace
  <1>5. WgCountsHandlers'
    BY <1>2, SameLive DEF CloseListener, Live
  <1>6. WaitInv'
    BY <1>2 DEF CloseListener, WaitInv, CloseWaitsForRunning, Live
  <1> QED
    BY <1>3, <1>4, <1>5, <1>6

\* wg is zero, so no handler runs: those Close found running have returned.
LEMMA WaitReturnsStep == IInv /\ WaitReturns => IInv'
  <1> SUFFICES ASSUME IInv, WaitReturns PROVE IInv'
    OBVIOUS
  <1> USE DEF IInv, TypeOK
  <1>1. \A c \in Clients : ~Live(c)
    BY WgFacts DEF WaitReturns
  <1>2. Types' /\ InOnePlace'
    BY DEF WaitReturns, Types, InOnePlace, clientVars, handlerVars
  <1>3. WgCountsHandlers'
    BY SameLive DEF WaitReturns, Live, handlerVars
  <1>4. WaitInv'
    BY <1>1 DEF WaitReturns, WaitInv, CloseWaitsForRunning, Live, Types, handlerVars
  <1> QED
    BY <1>2, <1>3, <1>4

-----------------------------------------------------------------------------
(* The clients.                                                            *)

LEMMA ConnectStep ==
    ASSUME IInv, NEW c \in Clients, Connect(c)
    PROVE  IInv'
  <1> USE DEF IInv, TypeOK
  <1>1. Distinct(backlog) /\ backlog \in Seq(Clients)
    BY DEF Types, InOnePlace, Distinct
  <1>2. c \notin ToSet(backlog) /\ c \notin ToSet(accepted) /\ handler[c] = "none"
    BY DEF Connect, InOnePlace
  <1>3. /\ backlog' \in Seq(Clients) /\ Distinct(backlog')
        /\ ToSet(backlog)' = ToSet(backlog) \cup {c}
    BY <1>1, <1>2, AppendDistinct DEF Connect
  <1>4. client' = [client EXCEPT ![c] = "open"] /\ handler' = handler /\ accepted' = accepted
    BY DEF Connect, handlerVars
  <1>5. Types'
    BY <1>3, <1>4 DEF Connect, Types, handlerVars
  <1>6. InOnePlace'
    <2>1. ToSet(backlog) \subseteq Clients /\ ToSet(accepted) \subseteq Clients
      BY DEF Types, ToSet
    <2>2. client'[c] = "open" /\ \A d \in Clients \ {c} : client'[d] = client[d]
      BY <1>4 DEF Types
    <2>3. ToSet(accepted)' = ToSet(accepted)
      BY <1>4
    <2>4. \A i, j \in DOMAIN backlog' : backlog'[i] = backlog'[j] => i = j
      BY <1>3 DEF Distinct
    <2> QED
      BY <1>2, <1>3, <1>4, <2>1, <2>2, <2>3, <2>4 DEF InOnePlace
  <1>7. WgCountsHandlers'
    BY SameLive DEF Connect, Live, handlerVars
  <1>8. WaitInv'
    BY DEF Connect, WaitInv, CloseWaitsForRunning, Live, handlerVars
  <1> QED
    BY <1>5, <1>6, <1>7, <1>8

LEMMA SendCommandStep ==
    ASSUME IInv, NEW c \in Clients, NEW cmd \in Commands \cup Malformed, SendCommand(c, cmd)
    PROVE  IInv'
  <1> USE DEF IInv, TypeOK
  <1>1. /\ sent' = [sent EXCEPT ![c] = Append(@, cmd)]
        /\ inbox' = [inbox EXCEPT ![c] = Append(@, cmd)]
        /\ UNCHANGED <<listener, backlog, client, serve, accepted, wg, handlerVars, closer,
                       inFlight>>
    BY DEF SendCommand
  <1>2. Types'
    BY <1>1 DEF Types, handlerVars
  <1>3. InOnePlace'
    BY <1>1 DEF InOnePlace, handlerVars
  <1>4. WgCountsHandlers'
    BY <1>1, SameLive DEF Live, handlerVars
  <1>5. WaitInv'
    BY <1>1 DEF WaitInv, CloseWaitsForRunning, Live, handlerVars
  <1> QED
    BY <1>2, <1>3, <1>4, <1>5

LEMMA DisconnectStep ==
    ASSUME IInv, NEW c \in Clients, Disconnect(c)
    PROVE  IInv'
  <1> USE DEF IInv, TypeOK
  <1>1. /\ client' \in [Clients -> {"idle", "open", "closed", "reset"}]
        /\ \A d \in Clients : client'[d] = "idle" <=> client[d] = "idle"
    BY DEF Disconnect, Types
  <1>2. Types'
    BY <1>1 DEF Disconnect, Types, handlerVars
  <1>3. InOnePlace'
    <2>1. backlog' = backlog /\ accepted' = accepted /\ handler' = handler
      BY DEF Disconnect, handlerVars
    <2>2. ToSet(backlog)' = ToSet(backlog) /\ ToSet(accepted)' = ToSet(accepted)
      BY <2>1
    <2>3. ToSet(backlog) \subseteq Clients /\ ToSet(accepted) \subseteq Clients
      BY DEF Types, ToSet
    <2> QED
      BY <1>1, <2>1, <2>2, <2>3 DEF InOnePlace
  <1>4. WgCountsHandlers'
    BY SameLive DEF Disconnect, Live, handlerVars
  <1>5. WaitInv'
    BY DEF Disconnect, WaitInv, CloseWaitsForRunning, Live, handlerVars
  <1> QED
    BY <1>2, <1>3, <1>4, <1>5

-----------------------------------------------------------------------------
(* The theorem.                                                            *)

LEMMA Stutter == IInv /\ UNCHANGED vars => IInv'
  BY DEF IInv, TypeOK, Types, InOnePlace, WgCountsHandlers, WaitInv, CloseWaitsForRunning, Live,
         vars

LEMMA NextStep == IInv /\ [Next]_vars => IInv'
  <1> SUFFICES ASSUME IInv, [Next]_vars PROVE IInv'
    OBVIOUS
  <1>1. CASE Serving
    BY <1>1, AcceptStep, AcceptFailsStep, StartHandlerStep DEF Serving
  <1>2. CASE CloseListener \/ WaitReturns
    BY <1>2, CloseListenerStep, WaitReturnsStep
  <1>3. ASSUME NEW c \in Clients, Handler(c) PROVE IInv'
    BY <1>3, ReadCommandStep, ReadFailsStep, WriteReplyStep, WriteFailsStep, HandlerReturnsStep
       DEF Handler
  <1>4. ASSUME NEW c \in Clients, Connect(c) \/ Disconnect(c) PROVE IInv'
    BY <1>4, ConnectStep, DisconnectStep
  <1>5. ASSUME NEW c \in Clients, NEW cmd \in Commands \cup Malformed, SendCommand(c, cmd)
        PROVE  IInv'
    BY <1>5, SendCommandStep
  <1>6. CASE Terminated \/ UNCHANGED vars
    BY <1>6, Stutter DEF Terminated
  <1> QED
    BY <1>1, <1>2, <1>3, <1>4, <1>5, <1>6 DEF Next

\* For any clients and commands: every connection is in one place, the
\* WaitGroup counts exactly the handlers that run (so wg.Done never panics),
\* and Close returns only after the handlers it found running have finished.
THEOREM ProxySafety == Spec => [](TypeOK /\ WgCountsHandlers /\ CloseWaitsForRunning)
  <1>1. IInv => TypeOK /\ WgCountsHandlers /\ CloseWaitsForRunning
    BY DEF IInv, WaitInv
  <1> QED
    BY <1>1, InitIInv, NextStep, PTL DEF Spec

\* The type invariant, and the WaitGroup's count, on their own.
THEOREM ProxyTypeOK == Spec => []TypeOK
  BY ProxySafety, PTL

\* wg.Add and wg.Done keep the counter equal to the number of running
\* handlers, whatever Serve and Close do in between.
THEOREM ProxyWgCountsHandlers == Spec => []WgCountsHandlers
  BY ProxySafety, PTL

-----------------------------------------------------------------------------
(* Replies.  Until its handler gives up, what a client sent is what was    *)
(* answered, then the command in hand, then the inbox.                     *)

Answers == {Reply(cmd) : cmd \in Commands}

Answered(c) ==
    /\ got[c] \in Seq(Answers) /\ Len(got[c]) <= Len(sent[c])
    /\ \A i \in DOMAIN got[c] : got[c][i] = Reply(sent[c][i])

Waiting(c) ==
    /\ Len(sent[c]) = Len(got[c]) + Len(cur[c]) + Len(inbox[c])
    /\ \A i \in DOMAIN cur[c] : cur[c][i] = sent[c][Len(got[c]) + i]
    /\ \A i \in DOMAIN inbox[c] : inbox[c][i] = sent[c][Len(got[c]) + Len(cur[c]) + i]

Aligned(c) == Answered(c) /\ (handler[c] \in {"none", "read", "reply"} => Waiting(c))

AllAligned == \A c \in Clients : Aligned(c)

LEMMA AlignedFacts ==
    ASSUME TypeOK, NEW c \in Clients
    PROVE  /\ sent[c] \in Seq(Commands \cup Malformed) /\ inbox[c] \in Seq(Commands \cup Malformed)
           /\ cur[c] \in Seq(Commands) /\ Len(cur[c]) = (IF handler[c] = "reply" THEN 1 ELSE 0)
  BY DEF TypeOK, Types

\* A step that changes nothing of a connection's commands and replies, and
\* does not put a handler that gave up back to work.
LEMMA AlignedKept ==
    ASSUME NEW c \in Clients, Aligned(c), UNCHANGED <<sent[c], inbox[c], cur[c], got[c]>>,
           handler'[c] \in {"none", "read", "reply"} => handler[c] \in {"none", "read", "reply"}
    PROVE  Aligned(c)'
  BY DEF Aligned, Answered, Waiting

\* ReadCommand moves the oldest unread command into hand, WriteReply answers
\* it, and SendCommand adds one behind all others.
LEMMA ReadCommandAligned ==
    ASSUME TypeOK, AllAligned, NEW c \in Clients, ReadCommand(c)
    PROVE  Aligned(c)'
  <1> DEFINE T == Commands \cup Malformed
  <1>1. /\ sent[c] \in Seq(T) /\ inbox[c] \in Seq(T) /\ Len(cur[c]) = 0
        /\ handler[c] = "read" /\ inbox[c] # <<>> /\ Head(inbox[c]) \in Commands
    BY AlignedFacts DEF ReadCommand, TypeOK, Types
  <1>2. /\ cur'[c] = <<Head(inbox[c])>> /\ inbox'[c] = Tail(inbox[c])
        /\ sent' = sent /\ got' = got
    BY DEF ReadCommand, clientVars, TypeOK, Types
  <1>3. Answered(c) /\ Waiting(c) /\ Len(got[c]) \in Nat
    BY <1>1 DEF AllAligned, Aligned, Answered
  <1>4. /\ Len(cur'[c]) = 1 /\ cur'[c][1] = inbox[c][1] /\ DOMAIN cur'[c] = {1}
        /\ Len(inbox'[c]) = Len(inbox[c]) - 1 /\ 1 \in DOMAIN inbox[c]
        /\ \A i \in DOMAIN inbox'[c] : i + 1 \in DOMAIN inbox[c] /\ inbox'[c][i] = inbox[c][i + 1]
    BY <1>1, <1>2
  <1>5. DOMAIN inbox'[c] \subseteq Nat /\ Len(inbox[c]) \in Nat
    BY <1>1, <1>2
  <1>6. cur'[c][1] = sent[c][Len(got[c]) + 1]
    BY <1>1, <1>3, <1>4 DEF Waiting
  <1>7. \A i \in DOMAIN inbox'[c] : inbox'[c][i] = sent[c][Len(got[c]) + 1 + i]
    <2> TAKE i \in DOMAIN inbox'[c]
    <2>1. i \in Nat /\ inbox'[c][i] = sent[c][Len(got[c]) + 0 + (i + 1)]
      BY <1>1, <1>3, <1>4, <1>5 DEF Waiting
    <2> DEFINE n == Len(got[c])
    <2>2. n \in Nat /\ i \in Nat
      BY <1>3, <2>1
    <2> HIDE DEF n
    <2>3. n + 0 + (i + 1) = n + 1 + i
      BY <2>2
    <2> QED
      BY <2>1, <2>3 DEF n
  <1>8. Len(sent[c]) = Len(got[c]) + 1 + (Len(inbox[c]) - 1)
    <2> DEFINE n == Len(got[c])
               m == Len(inbox[c])
    <2>1. n \in Nat /\ m \in Nat /\ Len(sent[c]) = n + 0 + m
      BY <1>1, <1>3, <1>5 DEF Waiting
    <2> HIDE DEF n, m
    <2>2. n + 0 + m = n + 1 + (m - 1)
      BY <2>1
    <2> QED
      BY <2>1, <2>2 DEF n, m
  <1>9. Waiting(c)'
    BY <1>2, <1>4, <1>6, <1>7, <1>8 DEF Waiting
  <1> QED
    BY <1>2, <1>3, <1>9 DEF Aligned, Answered

LEMMA WriteReplyAligned ==
    ASSUME TypeOK, AllAligned, NEW c \in Clients, WriteReply(c)
    PROVE  Aligned(c)'
  <1>1. /\ cur[c] \in Seq(Commands) /\ Len(cur[c]) = 1 /\ handler[c] = "reply"
    BY AlignedFacts DEF WriteReply
  <1>2. Answered(c) /\ Waiting(c) /\ got[c] \in Seq(Answers) /\ Len(got[c]) \in Nat
    BY <1>1 DEF AllAligned, Aligned, Answered
  <1>3. /\ got'[c] = Append(got[c], Reply(cur[c][1])) /\ cur'[c] = <<>>
        /\ sent' = sent /\ inbox' = inbox
    BY DEF WriteReply, clientVars, TypeOK, Types
  <1>4. cur[c][1] \in Commands /\ Reply(cur[c][1]) \in Answers /\ 1 \in DOMAIN cur[c]
    <2>1. cur[c][1] \in Commands /\ 1 \in DOMAIN cur[c]
      BY <1>1
    <2> QED
      BY <2>1 DEF Answers
  <1>5. cur[c][1] = sent[c][Len(got[c]) + 1]
    BY <1>2, <1>4 DEF Waiting
  <1> DEFINE r == Reply(cur[c][1])
             g == got[c]
  <1>6. g \in Seq(Answers) /\ r \in Answers /\ r = Reply(sent[c][Len(g) + 1])
    BY <1>2, <1>4, <1>5
  <1>7. /\ Append(g, r) \in Seq(Answers) /\ Len(Append(g, r)) = Len(g) + 1
        /\ \A i \in DOMAIN Append(g, r) :
              \/ i \in DOMAIN g /\ Append(g, r)[i] = g[i]
              \/ i = Len(g) + 1 /\ Append(g, r)[i] = r
    <2> HIDE DEF g, r
    <2> QED
      BY <1>6
  <1>8. inbox[c] \in Seq(Commands \cup Malformed) /\ Len(inbox[c]) \in Nat
    BY AlignedFacts
  <1>9. Len(sent[c]) = Len(g) + 1 + Len(inbox[c])
    BY <1>1, <1>2 DEF Waiting
  <1>10. Answered(c)'
    <2>1. \A i \in DOMAIN g : g[i] = Reply(sent[c][i])
      BY <1>2 DEF Answered
    <2>2. Len(g) + 1 <= Len(sent[c])
      <3> DEFINE n == Len(g)
                 m == Len(inbox[c])
      <3>1. n \in Nat /\ m \in Nat /\ Len(sent[c]) = n + 1 + m
        BY <1>2, <1>8, <1>9
      <3> HIDE DEF n, m
      <3>2. n + 1 <= n + 1 + m
        BY <3>1
      <3> QED
        BY <3>1, <3>2 DEF n
    <2> HIDE DEF g, r
    <2>3. \A i \in DOMAIN Append(g, r) : Append(g, r)[i] = Reply(sent[c][i])
      BY <1>6, <1>7, <2>1
    <2>4. got'[c] = Append(g, r)
      BY <1>3 DEF g, r
    <2> QED
      BY <1>3, <1>7, <2>2, <2>3, <2>4 DEF Answered
  <1>11. Waiting(c)'
    <2>1. Len(got'[c]) = Len(g) + 1 /\ Len(cur'[c]) = 0 /\ DOMAIN cur'[c] = {}
      BY <1>3, <1>7
    <2>2. \A i \in DOMAIN inbox[c] : inbox[c][i] = sent[c][Len(g) + 1 + i]
      BY <1>1, <1>2 DEF Waiting
    <2>3. Len(sent[c]) = Len(g) + 1 + 0 + Len(inbox[c]) /\ Len(g) + 1 + 0 = Len(g) + 1
      BY <1>2, <1>8, <1>9
    <2> HIDE DEF g
    <2> QED
      BY <1>3, <2>1, <2>2, <2>3 DEF Waiting
  <1> QED
    BY <1>10, <1>11 DEF Aligned

LEMMA SendCommandAligned ==
    ASSUME TypeOK, AllAligned, NEW c \in Clients, NEW cmd \in Commands \cup Malformed,
           SendCommand(c, cmd)
    PROVE  Aligned(c)'
  <1> DEFINE T == Commands \cup Malformed
             s == sent[c]
             b == inbox[c]
  <1>1. /\ s \in Seq(T) /\ b \in Seq(T) /\ cur[c] \in Seq(Commands) /\ Aligned(c)
    BY AlignedFacts DEF AllAligned
  <1>2. /\ sent'[c] = Append(s, cmd) /\ inbox'[c] = Append(b, cmd)
        /\ cur' = cur /\ got' = got /\ handler' = handler
    BY DEF SendCommand, handlerVars, TypeOK, Types
  <1>3. /\ Len(Append(s, cmd)) = Len(s) + 1 /\ Append(s, cmd)[Len(s) + 1] = cmd
        /\ \A i \in 1..Len(s) : Append(s, cmd)[i] = s[i]
        /\ Len(Append(b, cmd)) = Len(b) + 1 /\ Append(b, cmd)[Len(b) + 1] = cmd
        /\ DOMAIN Append(b, cmd) = 1..(Len(b) + 1) /\ DOMAIN b = 1..Len(b)
        /\ \A i \in 1..Len(b) : Append(b, cmd)[i] = b[i]
        /\ Len(s) \in Nat /\ Len(b) \in Nat
    <2> HIDE DEF s, b, T
    <2> QED
      BY <1>1 DEF T
  <1>4. /\ Len(got[c]) \in Nat /\ DOMAIN got[c] = 1..Len(got[c]) /\ Len(got[c]) <= Len(s)
        /\ Len(cur[c]) \in Nat /\ DOMAIN cur[c] = 1..Len(cur[c])
    BY <1>1 DEF Aligned, Answered
  <1>5. Answered(c)'
    BY <1>1, <1>2, <1>3, <1>4 DEF Aligned, Answered
  <1>6. ASSUME Waiting(c) PROVE Waiting(c)'
    <2> DEFINE n == Len(got[c])
               m == Len(cur[c])
               k == Len(b)
    <2>1. n \in Nat /\ m \in Nat /\ k \in Nat /\ Len(s) = n + m + k
      BY <1>3, <1>4, <1>6 DEF Waiting
    <2>2. \A i \in 1..m : cur[c][i] = s[n + i]
      BY <1>4, <1>6 DEF Waiting
    <2>3. \A i \in 1..k : b[i] = s[n + m + i]
      BY <1>3, <1>6 DEF Waiting
    <2>4. Len(sent'[c]) = Len(s) + 1 /\ Len(inbox'[c]) = k + 1
      BY <1>2, <1>3
    <2>5. /\ \A i \in 1..Len(s) : sent'[c][i] = s[i]
          /\ \A i \in 1..k : inbox'[c][i] = b[i]
          /\ sent'[c][Len(s) + 1] = cmd /\ inbox'[c][k + 1] = cmd
          /\ DOMAIN inbox'[c] = 1..(k + 1)
      BY <1>2, <1>3
    <2> HIDE DEF n, m, k, s, b
    <2>6. /\ \A i \in 1..m : n + i \in 1..Len(s)
          /\ \A i \in 1..k : n + m + i \in 1..Len(s)
          /\ n + m + (k + 1) = Len(s) + 1
          /\ \A i \in 1..(k + 1) : i \in 1..k \/ i = k + 1
      BY <2>1
    <2>7. \A i \in 1..m : cur[c][i] = sent'[c][n + i]
      BY <2>2, <2>5, <2>6
    <2>8. \A i \in DOMAIN inbox'[c] : inbox'[c][i] = sent'[c][n + m + i]
      BY <2>3, <2>5, <2>6
    <2>9. Len(sent'[c]) = n + m + Len(inbox'[c])
      BY <2>1, <2>4
    <2> QED
      BY <1>2, <1>4, <2>7, <2>8, <2>9 DEF Waiting, n, m
  <1> QED
    BY <1>1, <1>2, <1>5, <1>6 DEF Aligned

LEMMA InitAligned == Init => AllAligned
  <1> SUFFICES ASSUME Init, NEW c \in Clients PROVE Aligned(c)
    BY DEF AllAligned
  <1>1. got[c] = <<>> /\ sent[c] = <<>> /\ cur[c] = <<>> /\ inbox[c] = <<>>
    BY DEF Init
  <1> QED
    BY <1>1 DEF Aligned, Answered, Waiting

LEMMA NextAligned ==
    ASSUME TypeOK, AllAligned, [Next]_vars
    PROVE  AllAligned'
  <1> SUFFICES ASSUME NEW d \in Clients PROVE Aligned(d)'
    BY DEF AllAligned
  <1>0. Aligned(d)
    BY DEF AllAligned
  <1>1. CASE Accept \/ AcceptFails \/ CloseListener \/ WaitReturns \/ UNCHANGED vars
    <2>1. UNCHANGED <<sent, inbox, cur, got, handler>>
      BY <1>1 DEF Accept, AcceptFails, CloseListener, WaitReturns, clientVars, handlerVars, vars
    <2> QED
      BY <1>0, <2>1, AlignedKept
  <1>2. CASE StartHandler
    <2>1. UNCHANGED <<sent, inbox, cur, got>> /\ Len(accepted) = 1 /\ accepted \in Seq(Clients)
      BY <1>2 DEF StartHandler, clientVars, TypeOK, Types
    <2>2. accepted[1] \in Clients /\ accepted[1] \in ToSet(accepted)
      BY <2>1 DEF ToSet
    <2>3. handler[accepted[1]] = "none"
      BY <2>2 DEF TypeOK, InOnePlace
    <2>4. handler'[d] = handler[d] \/ handler[d] = "none"
      BY <1>2, <2>3 DEF StartHandler, TypeOK, Types
    <2> QED
      BY <1>0, <2>1, <2>4, AlignedKept
  <1>3. ASSUME NEW c \in Clients, Handler(c) PROVE Aligned(d)'
    <2>1. CASE d # c
      <3>1. UNCHANGED <<sent[d], inbox[d], cur[d], got[d], handler[d]>>
        BY <1>3, <2>1 DEF Handler, ReadCommand, ReadFails, WriteReply, WriteFails, HandlerReturns,
                          clientVars, TypeOK, Types
      <3> QED
        BY <1>0, <3>1, AlignedKept
    <2>2. CASE d = c /\ (ReadCommand(c) \/ WriteReply(c))
      BY <2>2, ReadCommandAligned, WriteReplyAligned
    <2>3. CASE d = c /\ (ReadFails(c) \/ WriteFails(c) \/ HandlerReturns(c))
      <3>1. /\ UNCHANGED <<sent, got>> /\ handler'[d] \in {"closing", "returned"}
        BY <2>3 DEF ReadFails, WriteFails, HandlerReturns, clientVars, TypeOK, Types
      <3> QED
        BY <1>0, <3>1 DEF Aligned, Answered
    <2> QED
      BY <1>3, <2>1, <2>2, <2>3 DEF Handler
  <1>4. ASSUME NEW c \in Clients, Connect(c) \/ Disconnect(c) PROVE Aligned(d)'
    <2>1. UNCHANGED <<sent, inbox, cur, got, handler>>
      BY <1>4 DEF Connect, Disconnect, handlerVars
    <2> QED
      BY <1>0, <2>1, AlignedKept
  <1>5. ASSUME NEW c \in Clients, NEW cmd \in Commands \cup Malformed, SendCommand(c, cmd)
        PROVE  Aligned(d)'
    <2>1. CASE d = c
      BY <1>5, <2>1, SendCommandAligned
    <2>2. CASE d # c
      <3>1. UNCHANGED <<sent[d], inbox[d], cur[d], got[d], handler[d]>>
        BY <1>5, <2>2 DEF SendCommand, handlerVars, TypeOK, Types
      <3> QED
        BY <1>0, <3>1, AlignedKept
    <2> QED
      BY <2>1, <2>2
  <1> QED
    BY <1>1, <1>2, <1>3, <1>4, <1>5 DEF Next, Serving, Terminated

LEMMA AlignedIsInOrder == AllAligned => RepliesInOrder
  <1>1. ASSUME AllAligned, NEW c \in Clients
        PROVE  /\ Len(got[c]) <= Len(sent[c])
               /\ \A i \in DOMAIN got[c] : got[c][i] = Reply(sent[c][i])
               /\ Live(c) /\ handler[c] # "closing" =>
                     Len(sent[c]) = Len(got[c]) + Len(cur[c]) + Len(inbox[c])
    BY <1>1 DEF AllAligned, Aligned, Answered, Waiting, Live
  <1> QED
    BY <1>1 DEF RepliesInOrder

\* On every connection the i-th reply answers the i-th command, however many
\* clients there are and however they pipeline.
THEOREM ProxyRepliesInOrder == Spec => []RepliesInOrder
  <1>1. TypeOK /\ AllAligned /\ [Next]_vars => AllAligned'
    BY NextAligned
  <1> QED
    BY <1>1, InitAligned, AlignedIsInOrder, ProxyTypeOK, PTL DEF Spec

-----------------------------------------------------------------------------
(* The run and the menu: every step of the process is one of the proxy's   *)
(* steps or leaves it alone, so its invariants carry over.                 *)

LEMMA RunStepIsProxyStep == RunStep => [Next]_vars
  <1> SUFFICES ASSUME RunStep PROVE [Next]_vars
    OBVIOUS
  <1>1. CASE Main
    <2>1. CASE ReadTest \/ BindProxy \/ StartCommand \/ Notify \/ WaitCommand \/ ReturnResult
      BY <2>1 DEF ReadTest, BindProxy, StartCommand, Notify, WaitCommand, ReturnResult
    <2>2. CASE BeginClose \/ EndClose
      BY <2>2 DEF BeginClose, EndClose, Next
    <2> QED
      BY <1>1, <2>1, <2>2 DEF Main
  <1>2. CASE CtrlC \/ Interrupted \/ ForwardSignal \/ CommandExits
    BY <1>2 DEF CtrlC, Interrupted, ForwardSignal, CommandExits
  <1>3. CASE ServeStep
    BY <1>3 DEF ServeStep, Next
  <1>4. ASSUME NEW c \in Clients, HandlerStep(c) \/ ClientStep(c)
        PROVE  [Next]_vars
    BY <1>4 DEF HandlerStep, ClientStep, Next
  <1>5. ASSUME NEW c \in Own, ConnectRefused(c)
        PROVE  [Next]_vars
    BY <1>5 DEF ConnectRefused
  <1> QED
    BY <1>1, <1>2, <1>3, <1>4, <1>5 DEF RunStep

\* The whole process, menu included, implements the safety part of the
\* proxy's specification: runCmd adds no behaviour to it.
THEOREM LaunchRunsProxy == LaunchSpec => Init /\ [][Next]_vars
  <1>1. LaunchInit => Init
    BY DEF LaunchInit, RunInit
  <1>2. [LaunchNext]_launchVars => [Next]_vars
    <2> SUFFICES ASSUME [LaunchNext]_launchVars PROVE [Next]_vars
      OBVIOUS
    <2>1. CASE MenuStep \/ Exec \/ Ended \/ UNCHANGED launchVars
      BY <2>1 DEF MenuStep, Exec, Ended, launchVars, runVars
    <2>2. CASE RunStep
      BY <2>2, RunStepIsProxyStep
    <2> QED
      BY <2>1, <2>2 DEF LaunchNext
  <1> QED
    BY <1>1, <1>2, PTL DEF LaunchSpec

\* The proxy's invariants hold throughout a run.
THEOREM LaunchProxySafety ==
    LaunchSpec => [](TypeOK /\ WgCountsHandlers /\ CloseWaitsForRunning /\ RepliesInOrder)
  <1>1. IInv => TypeOK /\ WgCountsHandlers /\ CloseWaitsForRunning
    BY DEF IInv, WaitInv
  <1>2. TypeOK /\ AllAligned /\ [Next]_vars => AllAligned'
    BY NextAligned
  <1> QED
    BY <1>1, <1>2, AlignedIsInOrder, InitIInv, NextStep, InitAligned, LaunchRunsProxy, PTL

-----------------------------------------------------------------------------
(* runCmd: the listener outlives the command.                              *)

RunInv ==
    /\ mainpc \in {"read", "bind", "start", "notify", "wait", "close", "returned", "killed"}
    /\ sub \in {"none", "running", "exiting", "exited"} /\ refused \subseteq Own
    /\ sigCh \in {0, 1} /\ caught \in BOOLEAN /\ forwarded \in BOOLEAN

\* The order runCmd keeps: bound before started, closed after exited.
RunOrder ==
    /\ mainpc \in {"start", "notify", "wait", "close"} => bound
    /\ mainpc \in {"read", "bind", "start"} => sub = "none"
    /\ sub \in {"running", "exiting"} => mainpc \in {"notify", "wait", "killed"}
    /\ mainpc \in {"read", "bind", "start", "notify", "wait"} => listener = "open"

\* An interrupt kills wiremark only while none can have been caught.
SignalInv ==
    /\ mainpc = "killed" => ~caught
    /\ sigCh = 1 \/ forwarded => caught

Running == RunInv /\ RunOrder /\ SignalInv /\ NeverRefused

LEMMA InitRunning == RunInit => Running
  <1> SUFFICES ASSUME RunInit PROVE Running
    OBVIOUS
  <1>1. /\ mainpc = "read" /\ sub = "none" /\ refused = {} /\ sigCh = 0
        /\ listener = "open" /\ bound = FALSE
    BY DEF RunInit, Init
  <1>2. ~caught /\ ~forwarded /\ caught \in BOOLEAN /\ forwarded \in BOOLEAN
    BY DEF RunInit
  <1> QED
    BY <1>1, <1>2 DEF Running, RunInv, RunOrder, SignalInv, NeverRefused

LEMMA MainRunning == Running /\ Main => Running'
  <1> SUFFICES ASSUME Running, Main PROVE Running'
    OBVIOUS
  <1> USE DEF Running, RunInv, RunOrder, SignalInv, NeverRefused, sigVars, mainVars
  <1>1. CASE ReadTest
    BY <1>1 DEF ReadTest, vars
  <1>2. CASE BindProxy
    BY <1>2 DEF BindProxy, vars
  <1>3. CASE StartCommand
    BY <1>3 DEF StartCommand, vars
  <1>4. CASE WaitCommand
    BY <1>4 DEF WaitCommand, vars
  <1>5. CASE BeginClose
    BY <1>5 DEF BeginClose
  <1>6. CASE EndClose
    BY <1>6 DEF EndClose, WaitReturns
  <1>7. CASE ReturnResult
    BY <1>7 DEF ReturnResult, vars
  <1>8. CASE Notify
    BY <1>8 DEF Notify, vars
  <1> QED
    BY <1>1, <1>2, <1>3, <1>4, <1>5, <1>6, <1>7, <1>8 DEF Main

LEMMA SignalRunning == Running /\ (CtrlC \/ Interrupted \/ ForwardSignal) => Running'
  <1> SUFFICES ASSUME Running, CtrlC \/ Interrupted \/ ForwardSignal PROVE Running'
    OBVIOUS
  <1>1. UNCHANGED <<bound, sub, refused, listener, caught>>
    BY DEF CtrlC, Interrupted, ForwardSignal, mainVars, vars
  <1>2. CASE CtrlC
    BY <1>1, <1>2 DEF CtrlC, mainVars, Running, RunInv, RunOrder, SignalInv, NeverRefused
  <1>3. CASE Interrupted
    BY <1>1, <1>3 DEF Interrupted, Running, RunInv, RunOrder, SignalInv, NeverRefused
  <1>4. CASE ForwardSignal
    BY <1>1, <1>4 DEF ForwardSignal, mainVars, Running, RunInv, RunOrder, SignalInv, NeverRefused
  <1> QED
    BY <1>2, <1>3, <1>4

LEMMA ProxyRunning ==
    ASSUME Running, ServeStep \/ \E c \in Clients : HandlerStep(c) \/ ClientStep(c)
    PROVE  Running'
  <1>1. UNCHANGED <<mainpc, bound, sub, refused, caught, sigCh, forwarded>>
    BY DEF ServeStep, HandlerStep, ClientStep, mainVars, sigVars
  <1>2. listener' = listener
    <2>1. CASE ServeStep
      BY <2>1 DEF ServeStep, Serving, Accept, AcceptFails, StartHandler
    <2>2. ASSUME NEW c \in Clients, HandlerStep(c) PROVE listener' = listener
      BY <2>2 DEF HandlerStep, Handler, ReadCommand, ReadFails, WriteReply, WriteFails,
                  HandlerReturns
    <2>3. ASSUME NEW c \in Clients, ClientStep(c) PROVE listener' = listener
      BY <2>3 DEF ClientStep, Connect, SendCommand, Disconnect
    <2> QED
      BY <2>1, <2>2, <2>3
  <1> QED
    BY <1>1, <1>2 DEF Running, RunInv, RunOrder, SignalInv, NeverRefused

\* The command is refused only when wiremark was killed: else, while it
\* runs, the proxy is bound and listening.
LEMMA RefusedRunning ==
    ASSUME Running, NEW c \in Own, ConnectRefused(c)
    PROVE  Running'
  <1>1. UNCHANGED <<mainpc, bound, sub, caught, sigCh, forwarded, listener>>
        /\ refused' = refused \cup {c}
    BY DEF ConnectRefused, mainVars, sigVars, vars
  <1>2. mainpc = "killed"
    BY DEF ConnectRefused, Alive, Living, Running, RunInv, RunOrder
  <1> QED
    BY <1>1, <1>2 DEF Running, RunInv, RunOrder, SignalInv, NeverRefused

LEMMA RunStepRunning == Running /\ RunStep => Running'
  <1> SUFFICES ASSUME Running, RunStep PROVE Running'
    OBVIOUS
  <1>1. CASE CommandExits
    <2>1. /\ UNCHANGED <<mainpc, bound, refused, caught, sigCh, forwarded, listener>>
          /\ \/ sub = "running" /\ sub' = "exiting"
             \/ sub = "exiting" /\ sub' = "exited"
      BY <1>1 DEF CommandExits, mainVars, sigVars, vars
    <2> QED
      BY <2>1 DEF Running, RunInv, RunOrder, SignalInv, NeverRefused
  <1> QED
    BY <1>1, MainRunning, SignalRunning, ProxyRunning, RefusedRunning DEF RunStep

-----------------------------------------------------------------------------
(* The menu: what each stage knows.                                        *)

\* The answers of the stages behind the current one, and a text input that
\* holds nothing but an answer to the current prompt.
StageInv ==
    /\ stage \in {"mode", "target"} => yamlPath \in {M!Blank, M!Found}
    /\ stage = "target" => mode \in M!TraceModes \cup {"record"}
    /\ stage = "output" => /\ mode = "record" /\ pid \in Processes
                           /\ textIn \in {M!Blank, M!DefaultOutput, M!Typed("output")}
    /\ stage = "yaml" => mode = "run" /\ textIn \in {M!Blank, M!Found, M!Typed("yaml")}
    /\ stage = "command" => /\ mode = "run" /\ yamlPath \in {M!Found, M!Typed("yaml")}
                            /\ textIn \in {M!Blank, M!Typed("command")}

\* A command line the user chose.
Chosen(r) ==
    /\ r.args[1] = mode
    /\ \/ /\ mode = "run" /\ r.needsSudo = FALSE
          /\ r.args[2] \in {M!Found, M!Typed("yaml")} /\ r.args[3] = M!Typed("command")
       \/ mode \in M!TraceModes /\ r.needsSudo = TRUE /\ r.args[2] \in Processes
       \/ /\ mode = "record" /\ r.needsSudo = TRUE /\ r.args[2] \in Processes
          /\ r.args[3] \in {M!DefaultOutput, M!Typed("output")}

MenuTypes ==
    /\ stage \in {"mode", "target", "output", "yaml", "command", "done", "quit"}
    /\ mode \in M!Modes /\ pid \in Processes \cup {0}

\* There is a result exactly when the last stage was completed.
ResultInv ==
    /\ stage \in {"done", "quit"} => over
    /\ IF stage = "done" THEN result = <<result[1]>> /\ Chosen(result[1]) ELSE result = <<>>

MenuInv == MenuTypes /\ StageInv /\ ResultInv

\* Nothing is executed before the menu has ended, and nothing but its result.
ExecInv ==
    /\ image \in {"launch", "run", "sudo", "exited"}
    /\ image # "run" => mainpc = "read" /\ sub = "none"
    /\ argv # <<>> => /\ argv = result /\ stage = "done"
                      /\ image = IF result[1].needsSudo THEN "sudo" ELSE "run"
    /\ image = "launch" => argv = <<>>

LEMMA InitMenu == M!Init => MenuInv
  BY DEF M!Init, MenuInv, MenuTypes, StageInv, ResultInv, M!Modes, M!TraceModes

LEMMA EnterModeMenu ==
    ASSUME MenuInv, NEW m \in M!Modes, M!EnterMode(m)
    PROVE  MenuInv'
  <1>1. /\ mode' = m /\ UNCHANGED <<pid, yamlPath, result, over>> /\ ~over /\ stage = "mode"
        /\ \/ m = "run" /\ stage' = "yaml" /\ textIn' = yamlPath
           \/ m # "run" /\ stage' = "target"
    BY DEF M!EnterMode
  <1>2. yamlPath \in {M!Blank, M!Found} /\ result = <<>>
    BY <1>1 DEF MenuInv, StageInv, ResultInv
  <1>3. MenuTypes'
    BY <1>1 DEF MenuInv, MenuTypes
  <1>4. StageInv'
    BY <1>1, <1>2 DEF StageInv, M!Modes
  <1>5. ResultInv'
    BY <1>1, <1>2 DEF ResultInv
  <1> QED
    BY <1>3, <1>4, <1>5 DEF MenuInv

LEMMA EnterTargetMenu ==
    ASSUME MenuInv, NEW p \in Processes, M!EnterTarget(p)
    PROVE  MenuInv'
  <1>1. /\ pid' = p /\ UNCHANGED <<mode, yamlPath>> /\ ~over /\ stage = "target"
    BY DEF M!EnterTarget
  <1>2. mode \in M!TraceModes \cup {"record"} /\ result = <<>>
    BY <1>1 DEF MenuInv, StageInv, ResultInv
  <1>3. CASE mode = "record"
    <2>1. stage' = "output" /\ textIn' = M!DefaultOutput /\ UNCHANGED <<result, over>>
      BY <1>3 DEF M!EnterTarget
    <2> QED
      BY <1>1, <1>2, <1>3, <2>1 DEF MenuInv, MenuTypes, StageInv, ResultInv
  <1>4. CASE mode # "record"
    <2> DEFINE args == <<mode, p>>
    <2>1. M!Done(args, TRUE) /\ mode \in M!TraceModes
      BY <1>2, <1>4 DEF M!EnterTarget
    <2>2. MenuTypes' /\ stage' = "done" /\ over' = TRUE
          /\ result' = <<[args |-> args, needsSudo |-> TRUE]>>
      BY <1>1, <2>1 DEF MenuInv, MenuTypes, M!Done
    <2>3. Chosen(result[1])'
      BY <1>1, <2>1, <2>2 DEF Chosen
    <2> QED
      BY <2>2, <2>3 DEF MenuInv, StageInv, ResultInv
  <1> QED
    BY <1>3, <1>4

LEMMA EnterTextMenu ==
    ASSUME MenuInv, M!EnterOutput \/ M!EnterYAML \/ M!EnterCommand
    PROVE  MenuInv'
  <1>1. CASE M!EnterOutput
    <2>1. /\ stage = "output" /\ UNCHANGED <<mode, pid>> /\ stage' = "done" /\ over' = TRUE
          /\ result' = <<[args |-> <<"record", pid, textIn>>, needsSudo |-> TRUE]>>
          /\ textIn # M!Blank
      BY <1>1 DEF M!EnterOutput, M!Done
    <2>2. /\ mode = "record" /\ pid \in Processes
          /\ textIn \in {M!DefaultOutput, M!Typed("output")}
      BY <2>1 DEF MenuInv, StageInv
    <2>3. Chosen(result[1])'
      BY <2>1, <2>2 DEF Chosen
    <2> QED
      BY <2>1, <2>3 DEF MenuInv, MenuTypes, StageInv, ResultInv
  <1>2. CASE M!EnterYAML
    <2>1. /\ stage = "yaml" /\ UNCHANGED <<mode, pid, result, over>> /\ stage' = "command"
          /\ textIn # M!Blank /\ yamlPath' = textIn /\ textIn' = M!Blank
      BY <1>2 DEF M!EnterYAML
    <2>2. mode = "run" /\ textIn \in {M!Found, M!Typed("yaml")}
      BY <2>1 DEF MenuInv, StageInv
    <2> QED
      BY <2>1, <2>2 DEF MenuInv, MenuTypes, StageInv, ResultInv
  <1>3. CASE M!EnterCommand
    <2>1. /\ stage = "command" /\ UNCHANGED <<mode, pid>> /\ stage' = "done" /\ over' = TRUE
          /\ result' = <<[args |-> <<"run", yamlPath, textIn>>, needsSudo |-> FALSE]>>
          /\ textIn # M!Blank
      BY <1>3 DEF M!EnterCommand, M!Done
    <2>2. /\ mode = "run" /\ yamlPath \in {M!Found, M!Typed("yaml")}
          /\ textIn = M!Typed("command")
      BY <2>1 DEF MenuInv, StageInv
    <2>3. Chosen(result[1])'
      BY <2>1, <2>2 DEF Chosen
    <2> QED
      BY <2>1, <2>3 DEF MenuInv, MenuTypes, StageInv, ResultInv
  <1> QED
    BY <1>1, <1>2, <1>3

LEMMA OtherKeysMenu ==
    ASSUME MenuInv, M!UseList \/ M!ListQuits \/ M!EditText \/ \E key \in {"ctrl+c", "esc"} : M!QuitKey(key)
    PROVE  MenuInv'
  <1> USE DEF MenuInv, MenuTypes, StageInv, ResultInv, Chosen
  <1>1. CASE M!UseList \/ M!ListQuits
    BY <1>1 DEF M!UseList, M!ListQuits
  <1>2. CASE M!EditText
    BY <1>2 DEF M!EditText
  <1>3. ASSUME NEW key \in {"ctrl+c", "esc"}, M!QuitKey(key) PROVE MenuInv'
    BY <1>3 DEF M!QuitKey
  <1> QED
    BY <1>1, <1>2, <1>3

LEMMA MenuStepMenu == MenuInv /\ M!Menu => MenuInv'
  BY EnterModeMenu, EnterTargetMenu, EnterTextMenu, OtherKeysMenu DEF M!Menu, M!Enter

-----------------------------------------------------------------------------
(* The process.                                                            *)

LaunchInv == Running /\ MenuInv /\ ExecInv

LEMMA LaunchInitInv == LaunchInit => LaunchInv
  BY InitRunning, InitMenu DEF LaunchInit, LaunchInv, ExecInv, RunInit

LEMMA LaunchNextInv == LaunchInv /\ [LaunchNext]_launchVars => LaunchInv'
  <1> SUFFICES ASSUME LaunchInv, [LaunchNext]_launchVars PROVE LaunchInv'
    OBVIOUS
  <1>1. ASSUME UNCHANGED runVars PROVE Running'
    BY <1>1 DEF LaunchInv, Running, RunInv, RunOrder, SignalInv, NeverRefused, runVars, vars, mainVars, sigVars
  <1>2. ASSUME UNCHANGED menuVars PROVE MenuInv'
    BY <1>2 DEF LaunchInv, MenuInv, MenuTypes, StageInv, ResultInv, Chosen, menuVars
  <1>3. CASE MenuStep
    <2>1. MenuInv'
      BY <1>3, MenuStepMenu DEF MenuStep, LaunchInv
    <2>2. UNCHANGED runVars /\ UNCHANGED <<image, argv, mainpc, sub>> /\ image = "launch"
      BY <1>3 DEF MenuStep, runVars, mainVars
    <2>3. ExecInv'
      BY <2>2 DEF LaunchInv, ExecInv
    <2> QED
      BY <1>1, <2>1, <2>2, <2>3 DEF LaunchInv
  <1>4. CASE Exec
    <2>1. UNCHANGED <<runVars, menuVars, mainpc, sub, stage, result>> /\ image = "launch"
      BY <1>4 DEF Exec, runVars, mainVars, menuVars
    <2>2. mainpc = "read" /\ sub = "none" /\ argv = <<>>
      BY <2>1 DEF LaunchInv, ExecInv
    <2>3. \/ stage = "done" /\ argv' = result /\ image' = IF result[1].needsSudo THEN "sudo" ELSE "run"
          \/ image' = "exited" /\ argv' = argv
      BY <1>4 DEF Exec, M!Ok
    <2>4. ExecInv'
      BY <2>1, <2>2, <2>3 DEF ExecInv
    <2> QED
      BY <1>1, <1>2, <2>1, <2>4 DEF LaunchInv
  <1>5. CASE RunImage /\ RunStep
    <2>1. UNCHANGED menuVars /\ UNCHANGED <<image, argv, result, stage>> /\ image = "run"
      BY <1>5 DEF RunImage, menuVars
    <2>2. ExecInv'
      BY <2>1 DEF LaunchInv, ExecInv
    <2> QED
      BY <1>2, <1>5, <2>1, <2>2, RunStepRunning DEF LaunchInv
  <1>6. CASE UNCHANGED launchVars
    <2>1. UNCHANGED runVars /\ UNCHANGED menuVars
          /\ UNCHANGED <<image, argv, mainpc, sub, result, stage>>
      BY <1>6 DEF launchVars, runVars, mainVars, menuVars
    <2>2. ExecInv'
      BY <2>1 DEF LaunchInv, ExecInv
    <2> QED
      BY <1>1, <1>2, <2>1, <2>2 DEF LaunchInv
  <1> QED
    BY <1>3, <1>4, <1>5, <1>6 DEF LaunchNext, Ended

LEMMA LaunchInvMeans ==
    LaunchInv => /\ NeverRefused /\ OutlivesCommand /\ LaunchedAsChosen
                 /\ TypeOK => LaunchTypeOK
  <1> SUFFICES ASSUME LaunchInv
               PROVE  /\ NeverRefused /\ OutlivesCommand /\ LaunchedAsChosen
                      /\ TypeOK => LaunchTypeOK
    OBVIOUS
  <1>1. NeverRefused /\ OutlivesCommand
    BY DEF LaunchInv, Running, RunInv, RunOrder, SignalInv, OutlivesCommand, Living
  <1>2. ASSUME argv # <<>> PROVE argv = result /\ stage = "done" /\ Chosen(argv[1])
                                 /\ image = IF argv[1].needsSudo THEN "sudo" ELSE "run"
    BY <1>2 DEF LaunchInv, ExecInv, MenuInv, ResultInv
  <1>3. LaunchedAsChosen
    BY <1>2 DEF LaunchedAsChosen, Chosen
  <1>4. Len(result) <= 1
    <2>1. Len(<<>>) = 0 /\ Len(<<result[1]>>) = 1
      OBVIOUS
    <2>2. result = <<>> \/ result = <<result[1]>>
      BY DEF LaunchInv, MenuInv, ResultInv
    <2> DEFINE n == Len(result)
    <2>3. n = 0 \/ n = 1
      BY <2>1, <2>2
    <2> HIDE DEF n
    <2>4. n <= 1
      BY <2>3
    <2> QED
      BY <2>4 DEF n
  <1>5. TypeOK => LaunchTypeOK
    BY <1>4 DEF LaunchTypeOK, RunTypeOK, LaunchInv, Running, RunInv, MenuInv, MenuTypes, ExecInv
  <1> QED
    BY <1>1, <1>3, <1>5

\* While the command `wiremark run' started is running it never finds the
\* proxy missing, unless an interrupt killed wiremark: the listener is bound
\* before the command is started and closed after it has exited.
THEOREM LaunchNeverRefused == LaunchSpec => []NeverRefused
  BY LaunchInitInv, LaunchNextInv, LaunchInvMeans, PTL DEF LaunchSpec

\* wiremark ends before the command it started only if it was interrupted
\* before signal.Notify was called: no interrupt that follows a caught one,
\* forwarded or still waiting in sigCh, ends it early.
THEOREM LaunchOutlivesCommand == LaunchSpec => []OutlivesCommand
  BY LaunchInitInv, LaunchNextInv, LaunchInvMeans, PTL DEF LaunchSpec

\* What launchCmd executes is what the user chose, whatever keys were pressed
\* in between.
THEOREM LaunchExecutesChoice == LaunchSpec => []LaunchedAsChosen
  BY LaunchInitInv, LaunchNextInv, LaunchInvMeans, PTL DEF LaunchSpec

\* The process's state is well typed, and nothing of a run happens before
\* the menu has been left for it.
THEOREM LaunchWellTyped == LaunchSpec => []LaunchTypeOK
  BY LaunchInitInv, LaunchNextInv, LaunchInvMeans, LaunchProxySafety, PTL DEF LaunchSpec
=============================================================================
