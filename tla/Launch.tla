------------------------------- MODULE Launch -------------------------------
(***************************************************************************)
(* `wiremark launch': the menu, and then, in the same process, the command *)
(* it assembled (launchCmd ends in syscall.Exec).  `run' is RunCommand's;  *)
(* trace and record run under sudo and are the subject of other modules.   *)
(***************************************************************************)
EXTENDS RunCommand

CONSTANT Processes

VARIABLES
    stage, mode, pid, yamlPath, textIn, filtering, result, over,
    image,      \* what the process runs: "launch", "run", "sudo" or "exited"
    argv        \* what was exec'ed, at most one command line

M == INSTANCE Launcher

menuVars == <<stage, mode, pid, yamlPath, textIn, filtering, result, over>>
launchVars == <<runVars, menuVars, image, argv>>

LaunchInit == RunInit /\ M!Init /\ image = "launch" /\ argv = <<>>

MenuStep == image = "launch" /\ M!Menu /\ UNCHANGED <<runVars, image, argv>>

\* launcher.Run has returned: nothing to do unless the menu was completed.
Exec ==
    /\ image = "launch" /\ over
    /\ \/ /\ M!Ok /\ argv' = result
          /\ image' = IF result[1].needsSudo THEN "sudo" ELSE "run"
       \/ image' = "exited" /\ UNCHANGED argv     \* not ok, or a call failed
    /\ UNCHANGED <<runVars, menuVars>>

RunImage == image = "run" /\ UNCHANGED <<menuVars, image, argv>>

Ended == (image \in {"sudo", "exited"} \/ ~Living) /\ UNCHANGED launchVars

LaunchNext ==
    \/ MenuStep \/ Exec
    \/ RunImage /\ mainpc # "returned" /\ RunStep
    \/ Ended

\* wiremark's goroutines run whenever they can.  The user need not press a
\* key, the command need not exit, and a client need not disconnect.
LaunchFairness ==
    /\ WF_launchVars(Exec)
    /\ WF_launchVars(RunImage /\ Living /\ Main)
    /\ WF_launchVars(RunImage /\ Living /\ ForwardSignal)
    /\ WF_launchVars(RunImage /\ Living /\ ServeStep)
    /\ \A c \in Clients : WF_launchVars(RunImage /\ Living /\ HandlerStep(c))
    /\ WF_launchVars(RunImage /\ Living /\ sub = "exiting" /\ \E c \in Own : ClientStep(c))
    /\ WF_launchVars(RunImage /\ Living /\ sub = "exiting" /\ CommandExits)

LaunchSpec == LaunchInit /\ [][LaunchNext]_launchVars /\ LaunchFairness

-----------------------------------------------------------------------------
(* Properties.                                                             *)

\* Every variable has its type, the proxy's and runCmd's included; nothing of
\* a run happens before the process has become one.
LaunchTypeOK ==
    /\ RunTypeOK
    /\ stage \in {"mode", "target", "output", "yaml", "command", "done", "quit"}
    /\ mode \in M!Modes /\ pid \in Processes \cup {0} /\ Len(result) <= 1
    /\ image \in {"launch", "run", "sudo", "exited"}
    /\ image # "run" => mainpc = "read" /\ sub = "none"

\* What is exec'ed is what the user chose, stage by stage: the mode, a listed
\* process, and texts that were entered for their own purpose: nothing left
\* in the shared text input by one prompt is taken for another's answer, and
\* a menu that was left, by whichever key, executes nothing.
LaunchedAsChosen ==
    argv # <<>> =>
        LET args == argv[1].args IN
        /\ args[1] = mode /\ stage = "done"
        /\ \/ /\ mode = "run" /\ image = "run"
              /\ args[2] \in {M!Found, M!Typed("yaml")} /\ args[3] = M!Typed("command")
           \/ mode \in M!TraceModes /\ image = "sudo" /\ args[2] \in Processes
           \/ /\ mode = "record" /\ image = "sudo" /\ args[2] \in Processes
              /\ args[3] \in {M!DefaultOutput, M!Typed("output")}
=============================================================================
