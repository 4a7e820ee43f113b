----------------------------- MODULE RunCommand -----------------------------
(***************************************************************************)
(* `wiremark run': the replay proxy, the command it is run for, and the    *)
(* main goroutine that starts the one before the other and, when the       *)
(* command has exited, returns its result through the deferred proxy.Close.*)
(* Processes the command leaves behind may keep connections to the proxy,  *)
(* or make new ones, after it has exited.                                  *)
(*                                                                         *)
(* The proxy is ReplayProxy's: every step here is one of its steps or      *)
(* leaves it alone.  Its variables are in their initial state until        *)
(* NewProxy has bound the listener.  The command, its descendants and      *)
(* Ctrl-C are environment.  Until signal.Notify has been called an         *)
(* interrupt ends wiremark at once, and the proxy with it, whether or not  *)
(* the command has been started.                                           *)
(***************************************************************************)
EXTENDS ReplayProxy

CONSTANT Own    \* the connections the command itself makes

ASSUME RunAssumption == Own \subseteq Clients

VARIABLES
    mainpc,     \* runCmd: "read", "bind", "start", "notify", "wait", "close",
                \* "returned", or "killed" by an interrupt
    bound,      \* whether NewProxy has bound the listener
    sub,        \* the command: "none", "running", "exiting" or "exited"
    refused,    \* history: connections of the command that found no listener
    caught,     \* whether signal.Notify is in force
    pressed,    \* history: whether Ctrl-C was ever pressed
    sigCh,      \* signals waiting in sigCh (capacity 1)
    forwarded   \* whether the signal goroutine has forwarded one and returned

mainVars == <<mainpc, bound>>
sigVars == <<caught, pressed, sigCh, forwarded>>
runVars == <<vars, mainVars, sub, refused, sigVars>>

RunInit ==
    /\ Init
    /\ mainpc = "read" /\ bound = FALSE /\ sub = "none" /\ refused = {}
    /\ caught = FALSE /\ pressed = FALSE /\ sigCh = 0 /\ forwarded = FALSE

Living == mainpc \notin {"returned", "killed"}

-----------------------------------------------------------------------------
(* main.                                                                   *)

\* storage.ReadYAML; without a test case nothing is started.
ReadTest ==
    /\ mainpc = "read" /\ mainpc' \in {"bind", "returned"}
    /\ UNCHANGED <<vars, bound, sub, refused, sigVars>>

\* replay.NewProxy binds, and `go proxy.Serve()'.
BindProxy ==
    /\ mainpc = "bind"
    /\ \/ bound' = TRUE /\ mainpc' = "start"
       \/ mainpc' = "returned" /\ UNCHANGED bound
    /\ UNCHANGED <<vars, sub, refused, sigVars>>

\* sub.Start(); a failed start returns through Close.
MutStartCommandNoWait ==
    /\ mainpc = "start"
    /\ \/ sub' = "running" /\ mainpc' = "close"
       \/ mainpc' = "close" /\ UNCHANGED sub
    /\ UNCHANGED <<vars, bound, refused, sigVars>>
StartCommand ==
    /\ mainpc = "start"
    /\ \/ sub' = "running" /\ mainpc' = "notify"
       \/ mainpc' = "close" /\ UNCHANGED sub
    /\ UNCHANGED <<vars, bound, refused, sigVars>>

\* signal.Notify, and the goroutine that waits for a signal.
Notify ==
    /\ mainpc = "notify" /\ mainpc' = "wait" /\ caught' = TRUE
    /\ UNCHANGED <<vars, bound, sub, refused, pressed, sigCh, forwarded>>

\* sub.Wait() returns when the command has exited, whatever it left behind.
WaitCommand ==
    /\ mainpc = "wait" /\ sub = "exited"
    /\ mainpc' = "close"
    /\ UNCHANGED <<vars, bound, sub, refused, sigVars>>

\* The deferred proxy.Close().
BeginClose ==
    mainpc = "close" /\ CloseListener /\ UNCHANGED <<mainVars, sub, refused, sigVars>>
EndClose == WaitReturns /\ UNCHANGED <<mainVars, sub, refused, sigVars>>
ReturnResult ==
    /\ mainpc = "close" /\ closer = "returned"
    /\ mainpc' = "returned"
    /\ UNCHANGED <<vars, bound, sub, refused, sigVars>>

Main ==
    ReadTest \/ BindProxy \/ StartCommand \/ Notify \/ WaitCommand \/ BeginClose \/ EndClose
    \/ ReturnResult

\* The runtime sends on sigCh without blocking: with sigCh full the signal
\* is gone.
MutCtrlCUnbuffered ==
    /\ caught /\ pressed' = TRUE /\ sigCh' \in {sigCh, 1}
    /\ UNCHANGED <<vars, mainVars, sub, refused, caught, forwarded>>
CtrlC ==
    /\ caught /\ pressed' = TRUE /\ sigCh' = 1
    /\ UNCHANGED <<vars, mainVars, sub, refused, caught, forwarded>>

\* What an interrupt does while signal.Notify is not in force.
Interrupted ==
    /\ ~caught /\ pressed' = TRUE /\ mainpc' = "killed"
    /\ UNCHANGED <<vars, bound, sub, refused, caught, sigCh, forwarded>>

\* <-sigCh; sub.Process.Signal(os.Interrupt), once; Notify stays in force.
MutForwardSignalStops ==
    /\ sigCh = 1 /\ ~forwarded
    /\ sigCh' = 0 /\ forwarded' = TRUE /\ caught' = FALSE
    /\ UNCHANGED <<vars, mainVars, sub, refused, pressed>>
ForwardSignal ==
    /\ sigCh = 1 /\ ~forwarded
    /\ sigCh' = 0 /\ forwarded' = TRUE
    /\ UNCHANGED <<vars, mainVars, sub, refused, caught, pressed>>

-----------------------------------------------------------------------------
(* The proxy's goroutines.                                                 *)

ServeStep == bound /\ Serving /\ UNCHANGED <<mainVars, sub, refused, sigVars>>
HandlerStep(c) == Handler(c) /\ UNCHANGED <<mainVars, sub, refused, sigVars>>

-----------------------------------------------------------------------------
(* The command and its descendants.                                        *)

Alive(c) == IF c \in Own THEN sub = "running" ELSE sub # "none"

\* The command exits, of itself or interrupted; the kernel closes its
\* connections one by one.
CommandExits ==
    \/ /\ sub = "running" /\ sub' = "exiting"
       /\ UNCHANGED <<vars, mainVars, refused, sigVars>>
    \/ /\ sub = "exiting" /\ \A c \in Own : client[c] # "open"
       /\ sub' = "exited" /\ UNCHANGED <<vars, mainVars, refused, sigVars>>

ClientStep(c) ==
    /\ UNCHANGED <<mainVars, sub, refused, sigVars>>
    /\ \/ Alive(c) /\ bound /\ Connect(c)
       \/ Alive(c) /\ \E cmd \in Commands \cup Malformed : SendCommand(c, cmd)
       \/ (Alive(c) \/ sub = "exiting") /\ Disconnect(c)

\* There is no listener, or no process that has it open.
ConnectRefused(c) ==
    /\ Alive(c) /\ client[c] = "idle" /\ ~(Living /\ bound /\ listener = "open")
    /\ refused' = refused \cup {c}
    /\ UNCHANGED <<vars, mainVars, sub, sigVars>>

RunStep ==
    \/ /\ Living
       /\ \/ Main \/ CtrlC \/ Interrupted \/ ForwardSignal \/ ServeStep \/ CommandExits
          \/ \E c \in Clients : HandlerStep(c) \/ ClientStep(c)
    \/ \E c \in Own : ConnectRefused(c)

-----------------------------------------------------------------------------
(* Properties.                                                             *)

\* The proxy's type invariant, and the types of runCmd's own state.
RunTypeOK ==
    /\ TypeOK
    /\ mainpc \in {"read", "bind", "start", "notify", "wait", "close", "returned", "killed"}
    /\ sub \in {"none", "running", "exiting", "exited"} /\ refused \subseteq Own
    /\ sigCh \in {0, 1}

\* "Bind before exec'ing the subprocess: otherwise the app's first connection
\* attempt could race the listener": the command never finds the proxy
\* missing, from its first connection attempt to its exit, unless wiremark
\* was killed by an interrupt.
NeverRefused == refused # {} => mainpc = "killed"

\* wiremark does not end before the command it started, but for an interrupt
\* that comes after sub.Start and before signal.Notify.  Once one has been
\* caught no other ends it, however often Ctrl-C is pressed.
OutlivesCommand ==
    (~Living /\ sub \in {"running", "exiting"})
        => mainpc = "killed" /\ sigCh = 0 /\ ~forwarded

\* Once the command has exited and nobody holds a connection any more, the
\* run returns, whatever Serve and the handlers were doing.
RunReturns ==
    (sub = "exited" /\ \A c \in Clients : client[c] # "open")
        ~> (~Living \/ \E c \in Clients : client[c] = "open")

\* Ctrl-C ends the run, whenever it is pressed and whatever main, Serve and
\* the handlers are doing then: if the command exits when the interrupt
\* reaches it, and the processes it left behind drop their connections,
\* wiremark ends.
InterruptEndsRun ==
    (/\ forwarded ~> sub # "running"
     /\ <>[](\A c \in Clients \ Own : client[c] # "open"))
        => (pressed ~> ~Living)

\* Every command a client sends is answered, even one sent before Serve has
\* accepted the connection or pipelined behind others, unless the connection
\* or the run ends first: again and again nothing is left unanswered (the
\* bound on commands makes clients pause).
CommandsAnswered ==
    []<>(\/ ~Living
         \/ \A c \in Clients : client[c] = "open" => Len(got[c]) = Len(sent[c]))
=============================================================================
