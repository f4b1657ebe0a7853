------------------------------- MODULE Profiles --------------------------------
(***************************************************************************)
(* Agent profiles (core/agents), the configuration each one gives and the  *)
(* tools it offers (core/tools/manager.py), and the ways the profile       *)
(* changes while a turn runs: shift+tab switches in a thread, the          *)
(* exit_plan_mode tool in the turn, /reload, /leanstall and /unleanstall   *)
(* replace the configuration beneath it, and closing a settings panel does *)
(* so without writing the system prompt again.  A subagent (task tool) has *)
(* its own configuration and asks through the main agent's callback.       *)
(*                                                                         *)
(* Tools are one of a kind; patterns of names are the sets they match.     *)
(***************************************************************************)
EXTENDS Integers, Sequences, FiniteSets, SequencesExt

CONSTANTS
  Threads,  \* threads that switch
  Bases,    \* the configurations the files can hold, see Base
  Lists,    \* what --enabled-tools may list
  MaxChanges \* bound: changes asked for

Tools == {"grep", "edit", "bash", "exit_plan_mode", "remote"}
Remote == {"remote"}

\* AgentProfile: an empty `enabled` is one the profile does not override.
Profile(order, subagent, install, bypass, enabled, baseDisabled, perm) ==
  [order |-> order, subagent |-> subagent, install |-> install, bypass |-> bypass,
   enabled |-> enabled, baseDisabled |-> baseDisabled, perm |-> perm]

None == [t \in {} |-> "ask"]
Builtin ==
  [p \in {"default", "plan", "accept-edits", "auto-approve", "lean", "explore"} |->
     CASE p = "default" -> Profile(1, FALSE, FALSE, FALSE, {}, {"exit_plan_mode"}, None)
       [] p = "plan" -> Profile(2, FALSE, FALSE, FALSE, {}, {}, [t \in {"edit"} |-> "never"])
       [] p = "accept-edits" -> Profile(3, FALSE, FALSE, FALSE, {}, {"exit_plan_mode"},
                                        [t \in {"edit"} |-> "always"])
       [] p = "auto-approve" -> Profile(4, FALSE, FALSE, TRUE, {}, {"exit_plan_mode"}, None)
       [] p = "lean" -> Profile(5, FALSE, TRUE, FALSE, {}, {"exit_plan_mode"}, None)
       [] p = "explore" -> Profile(6, TRUE, FALSE, FALSE, {"grep"}, {}, None)]
Agents == DOMAIN Builtin

\* A configuration.
Base(enabled, disabled, lean, off) ==
  [enabled |-> enabled, disabled |-> disabled, lean |-> lean, off |-> off]

DefaultPermission ==
  [t \in Tools |-> IF t \in {"grep", "exit_plan_mode"} THEN "always" ELSE "ask"]

Available(b) == {p \in Agents : Builtin[p].install => b.lean}

\* apply_to_config: what is disabled is taken out of an allowlist as well.
MergeKeepsAllowlist(p, b) ==
  LET own == Builtin[p]
      allow == IF own.enabled # {} THEN own.enabled ELSE b.enabled
  IN [bypass |-> own.bypass, enabled |-> allow,
      disabled |-> own.baseDisabled \cup b.disabled, off |-> b.off,
      perm |-> [t \in Tools |-> IF t \in DOMAIN own.perm THEN own.perm[t]
                                ELSE DefaultPermission[t]]]

Effective(p, b) ==
  LET own == Builtin[p]
      allow == IF own.enabled # {} THEN own.enabled ELSE b.enabled
  IN [bypass |-> own.bypass,
      enabled |-> allow \ b.disabled,
      disabled |-> own.baseDisabled \cup b.disabled,
      off |-> b.off,
      perm |-> [t \in Tools |-> IF t \in DOMAIN own.perm THEN own.perm[t]
                                ELSE DefaultPermission[t]]]

\* available_tools: sources switched off first, then the allowlist or the disables.
Offered(cfg, registered) ==
  LET on == registered \ cfg.off
  IN IF cfg.enabled # {} THEN on \cap cfg.enabled ELSE on \ cfg.disabled

\* get_agent_order, next_agent
NextAgent(p, b) ==
  LET order == SetToSortSeq({a \in Available(b) : ~Builtin[a].subagent},
                            LAMBDA a, c : Builtin[a].order < Builtin[c].order)
      at == IF Contains(order, p) THEN CHOOSE i \in DOMAIN order : order[i] = p ELSE 0
  IN order[(at % Len(order)) + 1]

VARIABLES
  file,      \* the configuration the files hold
  base,      \* _base_config
  only,      \* the list of the command line while it is in force, or {}
  active,    \* active_profile
  cached,    \* _cached_config, a sequence of at most one
  inited,    \* the deferred initialisation: "no", "yes", "failed"
  prompt,    \* the system prompt: the profile and the tools it names
  stale,     \* the configuration was read again since the prompt was written
  label,     \* the profile the text box shows
  switching, \* switching_mode: the text box submits nothing
  gen,       \* _switch_agent_generation
  press,     \* a _cycle_agent that has not run yet
  after,     \* the profiles whose schedule_switch waits for the next refresh
  job,       \* the changes under way: of a thread, of the turn, of a command
  turn,      \* the turn: "idle", "running", "asked" (exit_plan_mode), "switch"
  before,    \* the profile when its tools began
  panel,     \* a prompt is shown instead of the text box
  mixed,     \* two changes were under way at once, one was torn, or one was redrawn over
  ran,       \* the tool that has just run unasked
  crashed,   \* a worker's exception has ended the application
  changes    \* changes asked for

vars == <<file, base, only, active, cached, inited, prompt, stale, label, switching, gen, press,
          after, job, turn, before, panel, mixed, ran, crashed, changes>>
asked == <<press, after, gen>>
bases == <<file, base, only>>
settings == <<bases, active, cached, prompt, stale>>
screen == <<label, switching>>
turns == <<turn, before, panel>>

Changer == Threads \cup {"turn", "command"}
Idle == [at |-> "off", to |-> "default", base |-> <<>>, cfg |-> <<>>, gen |-> 0]
Jobs(c) == {d \in Changer \ {c} : job[d].at # "off"}
\* A change is asked for or under way.
Busy == press \/ after # <<>> \/ (\E c \in Changer : job[c].at # "off") \/ turn = "switch"
\* The event loop is inside the part of a reload that does not wait.
Loop == \A c \in {"turn", "command"} : job[c].at \notin {"store", "prompt"}
Up == ~crashed /\ Loop

Registered == (Tools \ Remote) \cup (IF inited = "yes" THEN Remote ELSE {})
PromptFor(p, cfg) == [agent |-> p, tools |-> Offered(cfg, Registered)]

Init ==
  /\ file \in Bases /\ only \in Lists \cup {{}} /\ active \in {"default", "plan"}
  /\ base = IF only = {} THEN file ELSE [file EXCEPT !.enabled = only]
  /\ stale = FALSE
  /\ cached = <<Effective(active, base)>>
  /\ inited = "no"
  /\ prompt = [agent |-> active, tools |-> Offered(cached[1], Tools \ Remote)]
  /\ label = active /\ switching = FALSE /\ gen = 0 /\ press = FALSE /\ after = <<>>
  /\ job = [c \in Changer |-> Idle]
  /\ turn = "idle" /\ before = active /\ panel = FALSE /\ mixed = FALSE
  /\ ran = <<>> /\ crashed = FALSE /\ changes = 0

\* _complete_init: the remote tools are found, or the error is shown and any key exits.
Initialised ==
  /\ ~crashed /\ inited = "no"
  /\ \/ /\ inited' = "yes"
        /\ LET cfg == IF cached # <<>> THEN cached[1] ELSE Effective(active, base)
           IN prompt' = [agent |-> active, tools |-> Offered(cfg, Tools)] /\ cached' = <<cfg>>
        /\ stale' = FALSE /\ UNCHANGED crashed
     \/ inited' = "failed" /\ crashed' = TRUE /\ UNCHANGED <<prompt, cached, stale>>
  /\ UNCHANGED <<bases, active, screen, asked, job, turns, mixed, changes>>

------------------------------------------------------------------------------
\* The application.

\* action_cycle_mode: a coroutine that has not run yet is cancelled by the next one.
Press ==
  /\ Up /\ ~panel /\ changes < MaxChanges /\ changes' = changes + 1
  /\ label' = active /\ press' = TRUE
  /\ UNCHANGED <<settings, inited, switching, gen, after, job, turns, mixed, crashed>>

\* _cycle_agent
Cycle ==
  /\ Up /\ press
  /\ LET new == NextAgent(active, base)
     IN label' = new /\ after' = Append(after, new)
  /\ press' = FALSE /\ switching' = TRUE
  /\ UNCHANGED <<settings, inited, gen, job, turns, mixed, crashed, changes>>

\* schedule_switch: a worker whose thread has not begun is cancelled.
Schedule ==
  /\ Up /\ after # <<>>
  /\ \E t \in Threads :
       /\ job[t].at = "off"
       /\ job' = [c \in Changer |->
                    IF c = t THEN [Idle EXCEPT !.at = "made", !.to = Head(after),
                                          !.gen = gen + 1]
                    ELSE IF job[c].at = "made" THEN Idle ELSE job[c]]
       /\ mixed' = (mixed \/ Jobs(t) # {} \/ turn = "switch")
  /\ gen' = gen + 1 /\ after' = Tail(after)
  /\ UNCHANGED <<settings, inited, screen, press, turns, crashed, changes>>

\* The message a user submits starts a turn.
Submit ==
  /\ Up /\ ~panel /\ ~switching /\ turn = "idle" /\ inited = "yes"
  /\ turn' = "running" /\ before' = active
  /\ UNCHANGED <<settings, inited, screen, asked, job, panel, mixed, crashed, changes>>

\* A prompt of the turn takes the place of the text box; when it ends, the label is
\* drawn again (_switch_to_input_app).
PromptOpens ==
  /\ Up /\ ~panel /\ turn = "running" /\ panel' = TRUE
  /\ UNCHANGED <<settings, inited, screen, asked, job, turn, before, mixed, crashed, changes>>
PromptEnds ==
  /\ Up /\ panel /\ turn = "running" /\ panel' = FALSE
  /\ label' = active /\ mixed' = (mixed \/ Busy)
  /\ UNCHANGED <<settings, inited, switching, asked, job, turn, before, crashed, changes>>

\* VibeConfig.load: the files as they are now.
Loads(b) == file' = b

\* /reload, /leanstall and /unleanstall, typed while no switch blocks the text
\* box; a command that comes during a turn interrupts it first.
Reload ==
  /\ Up /\ ~panel /\ ~switching /\ job["command"].at = "off" /\ turn = "idle"
  /\ changes < MaxChanges /\ changes' = changes + 1
  /\ \E b \in Bases :
       /\ Loads(b)
       /\ job' = [job EXCEPT !["command"] = [Idle EXCEPT !.at = "wait", !.base = <<b>>]]
  /\ mixed' = (mixed \/ Busy)
  /\ UNCHANGED <<base, only, active, cached, prompt, stale, inited, screen, asked, turns, crashed>>

\* refresh_config, when the voice settings are closed or a server is switched in the MCP
\* panel: the files are read at once, and the system prompt stays.
Refresh ==
  /\ Up /\ ~panel /\ ~switching /\ job["command"].at = "off" /\ turn = "idle"
  /\ changes < MaxChanges /\ changes' = changes + 1
  /\ \E b \in Bases : Loads(b) /\ base' = b
  /\ only' = {} /\ cached' = <<>> /\ stale' = TRUE
  /\ mixed' = (mixed \/ Busy)
  /\ UNCHANGED <<active, prompt, inited, screen, asked, job, turns, crashed>>

\* The tools of a turn have answered: AgentProfileChangedEvent.
ToolsDone ==
  /\ Up /\ turn \in {"running", "switch"} /\ ~panel /\ job["turn"].at = "off"
  /\ label' = IF active # before THEN active ELSE label
  /\ mixed' = (mixed \/ (active # before /\ (press \/ after # <<>> \/ Jobs("turn") # {})))
  /\ turn' \in {"running", "idle"} /\ before' = active
  /\ UNCHANGED <<settings, inited, switching, asked, job, panel, crashed, changes>>

------------------------------------------------------------------------------
\* Tools.

\* ExitPlanMode.run: asks whether to leave the plan mode it found active.
ExitAsks ==
  /\ Up /\ turn = "running" /\ ~panel
  /\ "exit_plan_mode" \in Offered(Effective(active, base), Registered) /\ active = "plan"
  /\ turn' = "asked" /\ panel' = TRUE
  /\ UNCHANGED <<settings, inited, screen, asked, job, before, mixed, crashed, changes>>
ExitAnswered ==
  /\ Up /\ turn = "asked"
  /\ panel' = FALSE /\ label' = active /\ mixed' = (mixed \/ Busy \/ active # before)
  /\ \/ turn' = "running" /\ UNCHANGED <<job, changes>>
     \/ /\ turn' = "switch" /\ changes < MaxChanges /\ changes' = changes + 1
        /\ \E p \in {"accept-edits", "default"} :
             job' = [job EXCEPT !["turn"] = [Idle EXCEPT !.at = "wait", !.to = p]]
  /\ UNCHANGED <<settings, inited, switching, asked, before, crashed>>

\* _should_execute_tool, with the configuration of this moment.
Runs(cfg, t) == cfg.bypass \/ cfg.perm[t] = "always"
Unasked(who, t) ==
  ran' = <<[who |-> who, tool |-> t, calm |-> ~Busy /\ ~mixed, shown |-> label]>>

ToolRuns(t) ==
  LET cfg == IF cached # <<>> THEN cached[1] ELSE Effective(active, base)
  IN /\ Up /\ turn = "running" /\ ~panel
     /\ t \in Offered(cfg, Registered) \ {"exit_plan_mode"} /\ Runs(cfg, t)
     /\ cached' = <<cfg>> /\ Unasked("main", t)
     /\ UNCHANGED <<bases, active, prompt, stale, inited, screen, asked, job, turns, mixed,
                    crashed, changes>>

\* Task.run: the subagent reads the files again, without the list of the command line, and
\* has the main agent's _approval_callback, which answers for the main agent when it would
\* not ask and offers the tool itself.
SubagentConfig == Effective("explore", file)
AnyToolOfMain(cfg, t) == TRUE

EnabledInMain(cfg, t) == t \in Offered(cfg, Registered)

SubagentRuns(t) ==
  LET cfg == IF cached # <<>> THEN cached[1] ELSE Effective(active, base)
      sub == SubagentConfig
  IN /\ Up /\ turn = "running" /\ ~panel
     /\ t \in Offered(sub, Tools)
     /\ \/ Runs(sub, t) /\ UNCHANGED cached
        \/ ~Runs(sub, t) /\ cfg.bypass /\ EnabledInMain(cfg, t) /\ cached' = <<cfg>>
     /\ Unasked("sub", t)
     /\ UNCHANGED <<bases, active, prompt, stale, inited, screen, asked, job, turns, mixed,
                    crashed, changes>>

------------------------------------------------------------------------------
\* switch_agent and reload_with_initial_messages.

Set(c, at) == job' = [job EXCEPT ![c].at = at]

\* An exception of a change ends the application when a worker raises it.
Fail(c) ==
  /\ job' = [job EXCEPT ![c] = Idle]
  /\ crashed' = (c \in Threads) /\ mixed' = TRUE

Begin(t) ==
  /\ ~crashed /\ job[t].at = "made" /\ Set(t, "wait")
  /\ UNCHANGED <<settings, inited, screen, asked, turns, mixed, crashed, changes>>

\* switch_profile, once the agent loop is ready; a profile that has become unavailable raises.
SwitchKeepsCache(c) ==
  job[c].to \in Available(base) /\ active' = job[c].to /\ UNCHANGED cached

SwitchProfile(c) ==
  /\ job[c].to \in Available(base)
  /\ active' = job[c].to /\ cached' = <<>>

Switch(c) ==
  /\ ~crashed /\ job[c].at = "wait" /\ inited = "yes"
  /\ \/ /\ c # "command" /\ job[c].to = active
        /\ Set(c, "end") /\ UNCHANGED <<active, cached, mixed, crashed>>
     \/ /\ c # "command" /\ job[c].to # active
        /\ \/ SwitchProfile(c) /\ Set(c, "save") /\ UNCHANGED <<mixed, crashed>>
           \/ job[c].to \notin Available(base) /\ Fail(c) /\ UNCHANGED <<active, cached>>
     \/ /\ c = "command" /\ Set(c, "save")
        /\ UNCHANGED <<active, cached, mixed, crashed>>
  /\ UNCHANGED <<bases, prompt, stale, inited, screen, asked, turns, changes>>

\* The session is saved first; when that fails the rest of the reload is not done.
Save(c) ==
  /\ ~crashed /\ job[c].at = "save"
  /\ \/ Fail(c) /\ UNCHANGED <<base, only, cached>>
     \/ /\ UNCHANGED <<mixed, crashed>> /\ Set(c, "read")
        /\ IF c = "command" THEN base' = job[c].base[1] /\ only' = {} /\ cached' = <<>>
           ELSE UNCHANGED <<base, only, cached>>
  /\ UNCHANGED <<file, active, prompt, stale, inited, screen, asked, turns, changes>>

\* AgentManager.config, read for the new tool manager and the new system prompt.
Read(c) ==
  /\ ~crashed /\ job[c].at = "read"
  /\ job' = IF cached # <<>> THEN [job EXCEPT ![c].at = "prompt", ![c].cfg = cached]
            ELSE [job EXCEPT ![c].at = "store", ![c].cfg = <<Effective(active, base)>>]
  /\ UNCHANGED <<settings, inited, screen, asked, turns, mixed, crashed, changes>>
Store(c) ==
  /\ ~crashed /\ job[c].at = "store"
  /\ cached' = job[c].cfg /\ Set(c, "prompt")
  /\ UNCHANGED <<bases, active, prompt, stale, inited, screen, asked, turns, mixed, crashed, changes>>
WritePrompt(c) ==
  /\ ~crashed /\ job[c].at = "prompt"
  /\ prompt' = PromptFor(active, job[c].cfg[1]) /\ stale' = FALSE /\ Set(c, "end")
  /\ UNCHANGED <<bases, active, cached, inited, screen, asked, turns, mixed, crashed, changes>>

\* The end of switch_agent_sync: the latest switch frees the text box.
DoneAnotherGen(c) ==
  /\ ~crashed /\ job[c].at = "end"
  /\ job' = [job EXCEPT ![c] = Idle]
  /\ switching' = (switching /\ ~(c \in Threads /\ job[c].gen = gen + 1))
  /\ UNCHANGED <<settings, inited, label, asked, turns, mixed, crashed, changes>>

Done(c) ==
  /\ ~crashed /\ job[c].at = "end"
  /\ job' = [job EXCEPT ![c] = Idle]
  /\ switching' = (switching /\ ~(c \in Threads /\ job[c].gen = gen))
  /\ UNCHANGED <<settings, inited, label, asked, turns, mixed, crashed, changes>>

Change(c) == Switch(c) \/ Save(c) \/ Read(c) \/ Store(c) \/ WritePrompt(c) \/ Done(c)

Next ==
  \/ /\ ran' = <<>>
     /\ \/ Initialised \/ Press \/ Cycle \/ Schedule \/ Submit \/ PromptOpens \/ PromptEnds
        \/ Reload \/ Refresh \/ ToolsDone \/ ExitAsks \/ ExitAnswered
        \/ \E t \in Threads : Begin(t)
        \/ \E c \in Changer : Change(c)
  \/ \E t \in Tools : ToolRuns(t) \/ SubagentRuns(t)

Spec == Init /\ [][Next]_vars

------------------------------------------------------------------------------
TypeOK ==
  /\ file \in Bases /\ only \in Lists \cup {{}} /\ stale \in BOOLEAN
  /\ [base EXCEPT !.enabled = {}] \in {[b EXCEPT !.enabled = {}] : b \in Bases}
  /\ {active, label, before} \subseteq Agents
  /\ Len(cached) <= 1 /\ inited \in {"no", "yes", "failed"}
  /\ prompt.agent \in Agents /\ prompt.tools \subseteq Tools
  /\ {switching, press, panel, mixed, crashed} \subseteq BOOLEAN
  /\ {gen, changes} \subseteq 0..MaxChanges /\ turn \in {"idle", "running", "asked", "switch"}
  /\ \A c \in Changer : job[c].at \in {"off", "made", "wait", "save", "read", "store",
                                       "prompt", "end"}

\* Once every change has ended - none overlapped another, was torn by a failing save or was
\* redrawn over - the text box shows the active profile, the cached configuration is its own,
\* and the system prompt was written for it; and it names the tools that are offered, unless
\* a settings panel has had the configuration read again since.
ShownIsTrue ==
  (~Busy /\ ~mixed /\ ~crashed /\ ~(turn = "running" /\ active # before)) =>
     /\ label = active
     /\ cached # <<>> => cached[1] = Effective(active, base)
     /\ prompt.agent = active
     /\ ~stale => prompt = PromptFor(active, Effective(active, base))

\* The text box is given back: whatever presses overlapped, it is frozen only while a
\* switch is still asked for or under way.
Unfrozen == (switching /\ ~crashed) => after # <<>> \/ \E t \in Threads : job[t].at # "off"

\* A tool that runs unasked while nothing is being changed is one the profile on the screen
\* lets run, and one of a subagent is one its own configuration lets run or that the main
\* agent is offered and would not ask about.  The list of the command line binds the main
\* agent until the configuration is read again.
NothingUnseen ==
  \A i \in DOMAIN ran :
     LET r == ran[i]
         shown == Effective(r.shown, base)
     IN r.calm =>
          /\ r.who = "main" => /\ shown.bypass \/ shown.perm[r.tool] = "always"
                               /\ only # {} => r.tool \in only
          /\ r.who = "sub" /\ DefaultPermission[r.tool] # "always" =>
               shown.bypass /\ r.tool \in Offered(shown, Registered)
================================================================================
