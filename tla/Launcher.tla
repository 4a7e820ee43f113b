------------------------------ MODULE Launcher ------------------------------
(***************************************************************************)
(* internal/launcher: the menu that assembles a wiremark command.  Each    *)
(* mode goes through stages of its own; one text input serves the output   *)
(* path, the test case and the command line in turn.                       *)
(*                                                                         *)
(* Each action is one message to Update.  The list and the text input are  *)
(* bubbles components, external: the list has some item selected or none,  *)
(* is being filtered or not, and has a quit key of its own.  A text is     *)
(* known by where it came from: typed at some stage, found in the working  *)
(* directory, a default, or blank (nothing is left by strings.TrimSpace).  *)
(***************************************************************************)
EXTENDS Naturals, Sequences

CONSTANT Processes      \* ListProcesses

Blank == <<>>
Found == <<"found">>            \* what findFirstYAML found
DefaultOutput == <<"default">>  \* recorded-<time>.yaml
Typed(at) == <<"typed", at>>

TraceModes == {"trace", "trace --no-tui", "trace --tls"}
Modes == TraceModes \cup {"record", "run"}

VARIABLES
    stage,      \* "mode", "target", "output", "yaml", "command", "done", "quit"
    mode, pid, yamlPath,
    textIn,     \* the text input's value
    filtering,  \* whether a filter is being typed into the process list
    result,     \* Result, at most one: the arguments, and whether sudo is needed
    over        \* whether the menu's program has ended

menuVars == <<stage, mode, pid, yamlPath, textIn, filtering, result, over>>

\* newModel, with the test case findFirstYAML found, if any.
Init ==
    /\ stage = "mode" /\ mode = "trace" /\ pid = 0 /\ yamlPath \in {Blank, Found}
    /\ textIn = Blank /\ filtering = FALSE /\ result = <<>> /\ over = FALSE

-----------------------------------------------------------------------------
(* Enter, at each stage.                                                   *)

EnterMode(m) ==
    /\ ~over /\ stage = "mode"
    /\ mode' = m
    /\ IF m = "run" THEN stage' = "yaml" /\ textIn' = yamlPath
       ELSE stage' = "target" /\ UNCHANGED textIn
    /\ UNCHANGED <<pid, yamlPath, filtering, result, over>>

Done(args, sudo) ==
    stage' = "done" /\ over' = TRUE /\ result' = <<[args |-> args, needsSudo |-> sudo]>>

\* While a filter is typed, Enter applies it (UseList); with no process
\* selected it does nothing.
EnterTarget(p) ==
    /\ ~over /\ stage = "target" /\ ~filtering
    /\ pid' = p
    /\ IF mode = "record"
       THEN stage' = "output" /\ textIn' = DefaultOutput /\ UNCHANGED <<result, over>>
       ELSE Done(<<mode, p>>, TRUE) /\ UNCHANGED textIn
    /\ UNCHANGED <<mode, yamlPath, filtering>>

EnterOutput ==
    /\ ~over /\ stage = "output" /\ textIn # Blank
    /\ Done(<<"record", pid, textIn>>, TRUE)
    /\ UNCHANGED <<mode, pid, yamlPath, textIn, filtering>>

\* The text input is cleared for the next prompt.
MutEnterYAMLKeepsText ==
    /\ ~over /\ stage = "yaml" /\ textIn # Blank
    /\ yamlPath' = textIn /\ stage' = "command"
    /\ UNCHANGED <<mode, pid, textIn, filtering, result, over>>
EnterYAML ==
    /\ ~over /\ stage = "yaml" /\ textIn # Blank
    /\ yamlPath' = textIn /\ textIn' = Blank /\ stage' = "command"
    /\ UNCHANGED <<mode, pid, filtering, result, over>>

EnterCommand ==
    /\ ~over /\ stage = "command" /\ textIn # Blank
    /\ Done(<<"run", yamlPath, textIn>>, FALSE)
    /\ UNCHANGED <<mode, pid, yamlPath, textIn, filtering>>

Enter ==
    \/ \E m \in Modes : EnterMode(m)
    \/ \E p \in Processes : EnterTarget(p)
    \/ EnterOutput \/ EnterYAML \/ EnterCommand

-----------------------------------------------------------------------------
(* Other keys and messages.                                                *)

\* Ctrl-C, or Esc unless a filter is being typed.
QuitKey(key) ==
    /\ ~over
    /\ key = "esc" => ~(stage = "target" /\ filtering)
    /\ stage' = "quit" /\ over' = TRUE
    /\ UNCHANGED <<mode, pid, yamlPath, textIn, filtering, result>>

\* Everything else is forwarded to the component on screen.  The process
\* list starts a filter, or ends it (Enter, Esc).
UseList ==
    /\ ~over /\ stage = "target" /\ filtering' = ~filtering
    /\ UNCHANGED <<stage, mode, pid, yamlPath, textIn, result, over>>

\* The lists quit on their own key; the stage stays what it was.
ListQuits ==
    /\ ~over /\ (stage = "mode" \/ (stage = "target" /\ ~filtering))
    /\ over' = TRUE
    /\ UNCHANGED <<stage, mode, pid, yamlPath, textIn, filtering, result>>

EditText ==
    /\ ~over /\ stage \in {"output", "yaml", "command"}
    /\ textIn' \in {Blank, Typed(stage)}
    /\ UNCHANGED <<stage, mode, pid, yamlPath, filtering, result, over>>

Menu ==
    \/ Enter \/ UseList \/ ListQuits \/ EditText
    \/ \E key \in {"ctrl+c", "esc"} : QuitKey(key)

\* Run's second result.
Ok == stage = "done"
=============================================================================
