----------------------------- MODULE ShellCommands ------------------------------
(***************************************************************************)
(* One command in a process of its own: the shell tool and the search tool *)
(* of the agent (core/tools/builtins/bash.py, grep.py), a post-turn hook   *)
(* (core/hooks/executor.py), and a line the user starts with '!'           *)
(* (cli/textual_ui/app.py).  A command's shell may                         *)
(* start a child that outlives it, with or without its output.  The        *)
(* command ends by itself, at its timeout, or when it is cancelled, and a  *)
(* cancellation reaches whatever is awaited then.                          *)
(***************************************************************************)
EXTENDS Integers, Sequences

CONSTANT MaxCancels \* bound: cancellations of one command

ASSUME CancelBound == MaxCancels \in Nat

VARIABLES
  kind,     \* "bash", "grep", "hook" or "bang"
  awaits,   \* what the coroutine awaits: "off", "run", "kill", "finish", "save"
  branch,   \* why it leaves: "own", "timeout", "cancel", "error"
  shell,    \* the process: "none", "alive", "dead"
  child,    \* a child of the shell lives
  holds,    \* the child holds the pipe of the output
  outcome,  \* what the agent is told: "none", "result", "timeout", "cancel"
  shown,    \* the '!' line on the screen: "none", "pending", "own", "failed", "interrupted"
  contexts, \* what the history is told of a '!' line, in order
  cancels,
  early     \* history: the shell had ended before it was to be killed

commandVars == <<kind, awaits, branch, shell, child, holds, outcome, shown, contexts, cancels, early>>

CommandInit ==
  /\ kind \in {"bash", "grep", "hook", "bang"} /\ awaits = "off" /\ branch = "own"
  /\ shell = "none" /\ child = FALSE /\ holds = FALSE
  /\ outcome = "none" /\ shown = "none" /\ contexts = <<>> /\ cancels = 0 /\ early = FALSE

-----------------------------------------------------------------------------
(* The processes *)

StartCommand ==
  /\ awaits = "off" /\ shell = "none" /\ shown = "none" /\ outcome = "none"
  /\ awaits' = "run" /\ shown' = IF kind = "bang" THEN "pending" ELSE "none"
  /\ shell' = "alive"
  /\ UNCHANGED <<kind, branch, child, holds, outcome, contexts, cancels, early>>

\* The process of a '!' line cannot be created.
StartFails ==
  /\ awaits = "off" /\ shell = "none" /\ shown = "none" /\ kind = "bang"
  /\ awaits' = "finish" /\ shown' = "pending" /\ branch' = "error"
  /\ UNCHANGED <<kind, shell, child, holds, outcome, contexts, cancels, early>>

\* That of a hook neither: the hook has failed.
HookStartFails ==
  /\ awaits = "off" /\ shell = "none" /\ outcome = "none" /\ kind = "hook"
  /\ outcome' = "result"
  /\ UNCHANGED <<kind, awaits, branch, shell, child, holds, shown, contexts, cancels, early>>

Spawn ==
  /\ shell = "alive" /\ kind # "grep" /\ ~child
  /\ child' = TRUE /\ holds' \in BOOLEAN
  /\ UNCHANGED <<kind, awaits, branch, shell, outcome, shown, contexts, cancels, early>>

ShellExits ==
  /\ shell = "alive" /\ shell' = "dead"
  /\ UNCHANGED <<kind, awaits, branch, child, holds, outcome, shown, contexts, cancels, early>>

ChildExits ==
  /\ child /\ child' = FALSE
  /\ UNCHANGED <<kind, awaits, branch, shell, holds, outcome, shown, contexts, cancels, early>>

\* The process has ended and so has its output.
Ended == shell = "dead" /\ ~(child /\ holds)

\* Mutant: only the shell is killed.
KilledShell == shell' = "dead" /\ UNCHANGED child

\* kill_async_subprocess and _kill_running_process: nothing is done once the shell has
\* ended; the shell tool and a hook kill the group, the others the process they started.
Killed ==
  /\ shell' = IF shell = "none" THEN "none" ELSE "dead"
  /\ child' = (child /\ (shell = "dead" \/ kind \notin {"bash", "hook"}))

-----------------------------------------------------------------------------
(* The tools *)

\* run: communicate() returns.
ToolEnds ==
  /\ kind # "bang" /\ awaits = "run" /\ Ended
  /\ awaits' = "off" /\ outcome' = "result"
  /\ UNCHANGED <<kind, branch, shell, child, holds, shown, contexts, cancels, early>>

\* The timeout, or for the shell tool a cancellation: kill, and wait for the end.
ToolKills(why) ==
  /\ kind # "bang" /\ awaits = "run" /\ Killed
  /\ early' = (shell = "dead")
  /\ branch' = why
  /\ awaits' = IF shell = "dead" THEN "off" ELSE "kill"
  /\ outcome' = IF shell = "dead" THEN why ELSE "none"
  /\ UNCHANGED <<kind, holds, shown, contexts, cancels>>

ToolTimeout == ~Ended /\ ToolKills("timeout")

\* A cancelled search or hook is left alone: neither has a cleanup for it.
ToolCancelled ==
  /\ cancels < MaxCancels /\ cancels' = cancels + 1
  /\ \/ /\ kind = "bash" /\ awaits = "run" /\ Killed
        /\ early' = (shell = "dead") /\ branch' = "cancel"
        /\ awaits' = IF shell = "dead" THEN "off" ELSE "kill"
        /\ outcome' = IF shell = "dead" THEN "cancel" ELSE "none"
     \/ /\ (kind \in {"grep", "hook"} /\ awaits = "run") \/ (kind # "bang" /\ awaits = "kill")
        /\ awaits' = "off" /\ outcome' = "cancel" /\ branch' = "cancel"
        /\ UNCHANGED <<shell, child, early>>
  /\ UNCHANGED <<kind, holds, shown, contexts>>

\* The killed process has been waited for.
ToolKilled ==
  /\ kind # "bang" /\ awaits = "kill"
  /\ awaits' = "off" /\ outcome' = branch
  /\ UNCHANGED <<kind, branch, shell, child, holds, shown, contexts, cancels, early>>

-----------------------------------------------------------------------------
(* _handle_bash_command *)

BangEnds ==
  /\ kind = "bang" /\ awaits = "run" /\ Ended
  /\ awaits' = "finish"
  /\ UNCHANGED <<kind, branch, shell, child, holds, outcome, shown, contexts, cancels, early>>

Leaves(why) ==
  /\ Killed /\ branch' = why
  /\ awaits' = IF shell = "alive" THEN "kill" ELSE "finish"

BangTimeout ==
  /\ kind = "bang" /\ awaits = "run" /\ ~Ended
  /\ Leaves("timeout")
  /\ UNCHANGED <<kind, holds, outcome, shown, contexts, cancels, early>>

\* Appending to the widget fails.
BangFails ==
  /\ kind = "bang" /\ awaits = "run"
  /\ Leaves("error")
  /\ UNCHANGED <<kind, holds, outcome, shown, contexts, cancels, early>>

BangKilled ==
  /\ kind = "bang" /\ awaits = "kill" /\ awaits' = "finish"
  /\ UNCHANGED <<kind, branch, shell, child, holds, outcome, shown, contexts, cancels, early>>

\* Mutant: after a timeout the history is told nothing.
BangFinishSilent ==
  /\ kind = "bang" /\ awaits = "finish"
  /\ shown' = IF branch = "own" THEN "own" ELSE IF branch = "cancel" THEN "interrupted" ELSE "failed"
  /\ contexts' = IF branch = "timeout" THEN contexts ELSE Append(contexts, branch)
  /\ awaits' = "save"
  /\ UNCHANGED <<kind, branch, shell, child, holds, outcome, cancels, early>>

\* finish on the widget, then inject_user_context, which saves.
BangFinish ==
  /\ kind = "bang" /\ awaits = "finish"
  /\ shown' = IF branch = "own" THEN "own" ELSE IF branch = "cancel" THEN "interrupted" ELSE "failed"
  /\ contexts' = Append(contexts, branch)
  /\ awaits' = "save"
  /\ UNCHANGED <<kind, branch, shell, child, holds, outcome, cancels, early>>

BangSaved ==
  /\ kind = "bang" /\ awaits = "save" /\ awaits' = "off"
  /\ UNCHANGED <<kind, branch, shell, child, holds, outcome, shown, contexts, cancels, early>>

\* Escape, or the next line the user submits: inside try the handler of the cancellation
\* runs; inside a handler only the finally clause does.
BangCancelled ==
  /\ kind = "bang" /\ awaits # "off" /\ cancels < MaxCancels /\ cancels' = cancels + 1
  /\ \/ branch \in {"own", "timeout"} /\ Leaves("cancel")
     \/ branch \in {"cancel", "error"} /\ awaits' = "off" /\ UNCHANGED <<branch, shell, child>>
  /\ UNCHANGED <<kind, holds, outcome, shown, contexts, early>>

TimesOut == ToolTimeout \/ BangTimeout
GoesOn == ToolEnds \/ ToolKilled \/ BangEnds \/ BangKilled \/ BangFinish \/ BangSaved

CommandNext ==
  \/ StartCommand \/ StartFails \/ HookStartFails \/ Spawn \/ ShellExits \/ ChildExits
  \/ ToolCancelled \/ BangFails \/ BangCancelled
  \/ TimesOut \/ GoesOn

-----------------------------------------------------------------------------
(* Properties *)

CommandTypeOK ==
  /\ kind \in {"bash", "grep", "hook", "bang"} /\ awaits \in {"off", "run", "kill", "finish", "save"}
  /\ branch \in {"own", "timeout", "cancel", "error"} /\ shell \in {"none", "alive", "dead"}
  /\ child \in BOOLEAN /\ holds \in BOOLEAN /\ early \in BOOLEAN /\ cancels \in 0..MaxCancels
  /\ outcome \in {"none", "result", "timeout", "cancel"}
  /\ shown \in {"none", "pending", "own", "failed", "interrupted"}
  /\ Len(contexts) <= 2

\* Once a command is over its process is gone, but for a cancelled search or hook; a shell
\* command, or a hook at its timeout, that was killed while its shell lived leaves no child
\* either.
NoStrays ==
  awaits = "off" =>
    /\ shell = "alive" => kind \in {"grep", "hook"} /\ outcome = "cancel"
    /\ kind = "bash" /\ outcome \in {"timeout", "cancel"} /\ ~early => ~child
    /\ kind = "hook" /\ outcome = "timeout" /\ ~early => ~child
    /\ outcome = "result" => ~(child /\ holds)

\* A '!' line that is over is told to the model as it is shown to the user, unless it was
\* cancelled again; it is told once unless it was cancelled while that was saved.
CommandTold ==
  kind = "bang" /\ awaits = "off" /\ shown # "none" =>
    \/ cancels > 1
    \/ branch = "error" /\ cancels > 0
    \/ /\ contexts # <<>> /\ contexts[Len(contexts)] = branch
       /\ shown = CASE branch = "own" -> "own" [] branch = "cancel" -> "interrupted" [] OTHER -> "failed"
       /\ cancels = 0 => Len(contexts) = 1

\* A command ends clean: its processes are gone, and it was told of as it ended.
EndsClean == NoStrays /\ CommandTold

\* The timeout passes, and a coroutine that is ready runs.
CommandFairness == WF_commandVars(TimesOut) /\ WF_commandVars(GoesOn)

\* A command that never ends does not keep the agent waiting.
CommandEnds == awaits # "off" ~> awaits = "off"

CommandSpec == CommandInit /\ [][CommandNext]_commandVars /\ CommandFairness
=============================================================================
