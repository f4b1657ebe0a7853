----------------------------- MODULE TurnControl -----------------------------
(***************************************************************************)
(* What decides, around each completion of an act(), whether the model is  *)
(* asked again and what it is told: the middleware pipeline                *)
(* (vibe/core/middleware.py), compaction, the post-agent-turn hooks        *)
(* (vibe/core/hooks/manager.py) and the counters of AgentStats they read.  *)
(*                                                                         *)
(* Tokens are counted in units: a completion adds one to the session total *)
(* and any amount to the context.  Of the history only the mode notices    *)
(* and the context warning that the middleware injects are kept.           *)
(***************************************************************************)
EXTENDS Integers, Functions

CONSTANTS
  MaxTurns,     \* --max-turns
  MaxTokens,    \* --max-tokens, in completions
  Threshold,    \* auto_compact_threshold; 0 turns compaction off
  MaxContext,   \* bound: the largest context
  Hooks,        \* number of post-agent-turn hooks, run in this order
  MaxRetries,   \* _MAX_RETRIES of the hooks manager
  ReadOnly      \* the read-only profiles: subset of {"plan", "chat"}

Hook  == 1..Hooks
Mode  == {"default"} \cup ReadOnly

ASSUME LimitsAssumption ==
  /\ MaxTurns \in Nat /\ MaxTokens \in Nat /\ Threshold \in Nat
  /\ MaxContext \in Nat /\ Hooks \in Nat /\ MaxRetries \in Nat
ASSUME ModesAssumption == ReadOnly \subseteq {"plan", "chat"}

VARIABLES
  phase,       \* where the act() stands
  hook,        \* the hook being run
  mode,        \* the active agent profile
  \* AgentStats
  steps, context, tokens,
  turns,       \* history: requests for an assistant turn
  \* the middlewares
  warned,      \* ContextWarningMiddleware.has_warned
  wasActive,   \* read-only profiles whose middleware has _was_active set
  \* the history the model sees
  told,        \* profiles the notices in the history say are active
  lastNotice,  \* the last notice in the history
  warnings,    \* context warnings in the history
  outOfStep,   \* history: the history and the middlewares were not reset together
  seen,        \* the profile the pipeline saw before the current request
  compacted,   \* the pipeline ended in a compaction before it
  \* HookRetryState
  count,       \* retries counted against each hook
  retries      \* history: retries each hook got in this act()

statVars == <<steps, context, tokens, turns>>
viewVars == <<warned, wasActive, told, lastNotice, warnings, outOfStep>>
hookVars == <<hook, count, retries>>
vars == <<phase, mode, statVars, viewVars, seen, compacted, hookVars>>

Phases == {"idle", "before", "compacting", "counting", "asking", "hooks"}
NoNotice    == <<"none", "default">>
Reminder(m) == <<"reminder", m>>
Exit(m)     == <<"exit", m>>
Notice      == {NoNotice} \cup {Reminder(m) : m \in ReadOnly} \cup {Exit(m) : m \in ReadOnly}

-----------------------------------------------------------------------------
Init ==
  /\ phase = "idle" /\ hook = 0 /\ mode \in Mode
  /\ steps = 0 /\ context = 0 /\ tokens = 0 /\ turns = 0
  /\ warned = FALSE /\ wasActive = {}
  /\ told = {} /\ lastNotice = NoNotice /\ warnings = 0 /\ outOfStep = FALSE
  /\ seen = "default" /\ compacted = FALSE
  /\ count = [h \in Hook |-> 0] /\ retries = [h \in Hook |-> 0]

\* A user message starts an act() (bound: steps <= MaxTurns).
StartAct ==
  /\ phase = "idle" /\ steps <= MaxTurns
  /\ steps' = steps + 1
  /\ phase' = "before"
  /\ count' = [h \in Hook |-> 0] /\ retries' = [h \in Hook |-> 0]
  /\ UNCHANGED <<mode, context, tokens, turns, viewVars, seen, compacted, hook>>

-----------------------------------------------------------------------------
(* The middleware pipeline, run before every request *)

\* Mutant: tokens are compared after one more completion than allowed.
LimitReachedTokens == steps - 1 >= MaxTurns \/ tokens > MaxTokens + 1

\* TurnLimit, PriceLimit and TokenLimit, the first of the pipeline.
LimitReached == steps - 1 >= MaxTurns \/ tokens > MaxTokens

MustCompact  == Threshold > 0 /\ context >= Threshold
MustWarn     == ~warned /\ Threshold > 0 /\ 2 * context >= Threshold

Stop ==
  /\ phase = "before" /\ LimitReached
  /\ phase' = "idle"
  /\ UNCHANGED <<mode, statVars, viewVars, seen, compacted, hookVars>>

\* The pipeline ends at AutoCompact: no later middleware runs for this request.
StartCompact ==
  /\ phase = "before" /\ ~LimitReached /\ MustCompact
  /\ phase' = "compacting"
  /\ steps' = steps + 1
  /\ UNCHANGED <<mode, context, tokens, turns, viewVars, seen, compacted, hookVars>>

\* The profiles entered and left since their middleware last looked, and the
\* last notice they inject: plan's middleware comes before chat's.
Entered == {m \in ReadOnly : m = mode /\ m \notin wasActive}
Left    == {m \in ReadOnly : m # mode /\ m \in wasActive}
NoticeOf(m) == IF m \in Entered THEN Reminder(m) ELSE Exit(m)

\* Mutant: leaving a read-only profile is not noticed.
InjectEntered ==
  /\ told' = told \cup Entered
  /\ lastNotice' = IF "chat" \in Entered THEN NoticeOf("chat")
                   ELSE IF "plan" \in Entered THEN NoticeOf("plan")
                   ELSE lastNotice
  /\ warned' = (warned \/ MustWarn)
  /\ warnings' = warnings + (IF MustWarn THEN 1 ELSE 0)

\* Mutant: the warning is not remembered.
InjectForget ==
  /\ told' = (told \cup Entered) \ Left
  /\ lastNotice' = IF "chat" \in Entered \cup Left THEN NoticeOf("chat")
                   ELSE IF "plan" \in Entered \cup Left THEN NoticeOf("plan")
                   ELSE lastNotice
  /\ warned' = warned
  /\ warnings' = warnings + (IF MustWarn THEN 1 ELSE 0)

\* ContextWarning and the two ReadOnlyAgent middlewares: what they inject is
\* joined into one message.
Inject ==
  /\ told' = (told \cup Entered) \ Left
  /\ lastNotice' = IF "chat" \in Entered \cup Left THEN NoticeOf("chat")
                   ELSE IF "plan" \in Entered \cup Left THEN NoticeOf("plan")
                   ELSE lastNotice
  /\ warned' = (warned \/ MustWarn)
  /\ warnings' = warnings + (IF MustWarn THEN 1 ELSE 0)

\* Mutant: the request is not counted as a step.
RequestUncounted(viaCompaction) ==
  /\ UNCHANGED steps
  /\ turns' = turns + 1
  /\ compacted' = viaCompaction
  /\ phase' = "asking"

\* The request goes out.
Request(viaCompaction) ==
  /\ steps' = steps + 1
  /\ turns' = turns + 1
  /\ compacted' = viaCompaction
  /\ phase' = "asking"

RunPipeline ==
  /\ phase = "before" /\ ~LimitReached /\ ~MustCompact
  /\ Inject
  /\ wasActive' = {mode} \cap ReadOnly
  /\ seen' = mode
  /\ Request(FALSE)
  /\ UNCHANGED <<mode, context, tokens, outOfStep, hookVars>>

-----------------------------------------------------------------------------
(* Compaction *)

\* A history without notices, and middlewares that start over.
ResetView ==
  /\ told' = {} /\ lastNotice' = NoNotice /\ warnings' = 0
  /\ warned' = FALSE /\ wasActive' = {} /\ outOfStep' = FALSE

\* The completion's usage is counted; the context only grows.
Answered ==
  /\ tokens' = tokens + 1
  /\ context' \in context..MaxContext

\* The summary replaces the history, before the middlewares know of it.
Summarize ==
  /\ phase = "compacting"
  /\ Answered
  /\ told' = {} /\ lastNotice' = NoNotice /\ warnings' = 0 /\ outOfStep' = TRUE
  /\ phase' = "counting"
  /\ UNCHANGED <<mode, steps, turns, warned, wasActive, seen, compacted, hookVars>>

\* The new context is counted and saved, the middlewares start over and the turn
\* goes on to its request.
Compact ==
  /\ phase = "counting"
  /\ context' \in 0..MaxContext
  /\ ResetView
  /\ seen' = mode
  /\ Request(TRUE)
  /\ UNCHANGED <<mode, tokens, hookVars>>

\* The summary, the count, the completion or its tools fail or are interrupted.
Fail ==
  /\ phase # "idle"
  /\ phase' = "idle" /\ hook' = 0
  /\ UNCHANGED <<mode, statVars, viewVars, seen, compacted, count, retries>>

-----------------------------------------------------------------------------
(* The turn and the hooks after it *)

\* The turn used tools: another one follows.
ToolTurn ==
  /\ phase = "asking"
  /\ Answered
  /\ phase' = "before"
  /\ UNCHANGED <<mode, steps, turns, viewVars, seen, compacted, hookVars>>

\* The turn used none: the hooks run, or the act() is over.
FinalTurn ==
  /\ phase = "asking"
  /\ Answered
  /\ phase' = IF Hooks = 0 THEN "idle" ELSE "hooks"
  /\ hook' = IF Hooks = 0 THEN 0 ELSE 1
  /\ UNCHANGED <<mode, steps, turns, viewVars, seen, compacted,
                 count, retries>>

\* Mutant: after the last hook the first one runs again.
NextHookWraps ==
  /\ hook' = IF hook < Hooks THEN hook + 1 ELSE 1
  /\ phase' = "hooks"

\* The next hook, or the end of the act().
NextHook ==
  /\ hook' = IF hook < Hooks THEN hook + 1 ELSE 0
  /\ phase' = IF hook < Hooks THEN "hooks" ELSE "idle"

\* A hook that exits with anything but RETRY, or times out.
HookPasses ==
  /\ phase = "hooks"
  /\ count' = [count EXCEPT ![hook] = 0]
  /\ NextHook
  /\ UNCHANGED <<mode, statVars, viewVars, seen, compacted, retries>>

\* Mutant: the retry limit is not checked.
HookRetriesUnchecked ==
  /\ phase = "hooks"
  /\ count' = [count EXCEPT ![hook] = @ + 1]
  /\ retries' = [retries EXCEPT ![hook] = @ + 1]
  /\ phase' = "before" /\ hook' = 0
  /\ UNCHANGED <<mode, statVars, viewVars, seen, compacted>>

\* Mutant: the retry is not counted.
HookRetriesUncounted ==
  /\ phase = "hooks" /\ count[hook] < MaxRetries
  /\ retries' = [retries EXCEPT ![hook] = @ + 1]
  /\ phase' = "before" /\ hook' = 0
  /\ UNCHANGED <<mode, statVars, viewVars, seen, compacted, count>>

\* RETRY with output and retries left: the model is asked again at once, and the
\* hooks after this one do not run.
HookRetries ==
  /\ phase = "hooks" /\ count[hook] < MaxRetries
  /\ count' = [count EXCEPT ![hook] = @ + 1]
  /\ retries' = [retries EXCEPT ![hook] = @ + 1]
  /\ phase' = "before" /\ hook' = 0
  /\ UNCHANGED <<mode, statVars, viewVars, seen, compacted>>

\* RETRY without output, or with no retries left: its count stays.
HookGivesUp ==
  /\ phase = "hooks"
  /\ NextHook
  /\ UNCHANGED <<mode, statVars, viewVars, seen, compacted, count, retries>>

-----------------------------------------------------------------------------
(* The user *)

\* The active profile changes, by the user or by a tool.
SwitchMode(m) ==
  /\ m # mode
  /\ mode' = m
  /\ UNCHANGED <<phase, statVars, viewVars, seen, compacted, hookVars>>

\* A reload of the configuration rebuilds the pipeline and keeps the history.
Reload ==
  /\ phase = "idle"
  /\ warned' = FALSE /\ wasActive' = {} /\ outOfStep' = TRUE
  /\ UNCHANGED <<phase, mode, statVars, told, lastNotice, warnings, seen, compacted,
                 hookVars>>

\* clear_history: fresh statistics, an empty history, middlewares reset.
Clear ==
  /\ phase = "idle"
  /\ steps' = 0 /\ context' = 0 /\ tokens' = 0 /\ turns' = 0
  /\ ResetView
  /\ UNCHANGED <<phase, mode, seen, compacted, hookVars>>

-----------------------------------------------------------------------------
Turn ==
  \/ Stop \/ StartCompact \/ RunPipeline \/ Summarize \/ Compact
  \/ ToolTurn \/ FinalTurn
  \/ HookPasses \/ HookRetries \/ HookGivesUp

Next ==
  \/ StartAct \/ Turn \/ Fail
  \/ \E m \in Mode : SwitchMode(m)
  \/ Reload \/ Clear

\* Completions and hooks end, if need be in their timeouts.
Spec == Init /\ [][Next]_vars /\ WF_vars(Turn)

-----------------------------------------------------------------------------
(* Properties *)

\* Type invariant of the counters, the pipeline, the history and the hooks.
TypeOK ==
  /\ phase \in Phases /\ hook \in 0..Hooks /\ mode \in Mode
  /\ steps \in Nat /\ context \in 0..MaxContext
  /\ tokens \in Nat /\ turns \in Nat
  /\ warned \in BOOLEAN /\ wasActive \in SUBSET ReadOnly
  /\ told \in SUBSET ReadOnly /\ lastNotice \in Notice
  /\ warnings \in Nat /\ outOfStep \in BOOLEAN
  /\ seen \in Mode /\ compacted \in BOOLEAN
  /\ count \in [Hook -> 0..MaxRetries] /\ retries \in [Hook -> Nat]

\* --max-turns bounds the requests of the whole session, although the counter it
\* reads also counts user messages and compactions.
TurnsWithinLimit == turns <= MaxTurns

\* --max-tokens is exceeded by no more than what the pipeline starts after its
\* last check: a summary and the turn that follows it.
OverrunBounded == tokens <= MaxTokens + 2

\* When the pipeline ran to its end, the notices of the history say exactly which
\* read-only profile is active, unless a reload or a compaction that failed half-way
\* reset the middlewares or the history without the other.
ModeNoticed ==
  (phase = "asking" /\ ~compacted /\ ~outOfStep) => told = {seen} \cap ReadOnly

\* The context warning appears once between two resets of the history and of the
\* middlewares.
WarnedOnce == ~outOfStep => warnings <= 1

\* The retries of the first h hooks, (MaxRetries + 1)^h - 1: whatever the hooks
\* before h use up, they can use up again after each retry of h.
MostRetries[h \in 0..Hooks] ==
  IF h = 0 THEN 0 ELSE MaxRetries + (MaxRetries + 1) * MostRetries[h - 1]

\* The hooks of one user message ask for a bounded number of retries: the last
\* hook for MaxRetries, and all of them together for what a counter that starts
\* over whenever a later hook asks can add up to.
HookRetriesBounded ==
  /\ Hooks > 0 => retries[Hooks] <= MaxRetries
  /\ SumFunction(retries) <= MostRetries[Hooks]

\* docs_deepdive/concepts/hooks.md:154 says a single user message can cause at
\* most MaxRetries (three) retries per hook.
RetriesPerHookBounded == \A h \in Hook : retries[h] <= MaxRetries

\* docs_deepdive/concepts/middleware.md:200 says mode switching is a conversation
\* event, turned into explicit messages: the last notice before a request is the
\* reminder of the active read-only profile, and no reminder when there is none.
LastNoticeIsMode ==
  phase = "asking" =>
     IF seen \in ReadOnly THEN lastNotice = Reminder(seen)
     ELSE lastNotice[1] # "reminder"

\* Every act() ends, even if the model calls tools and the hooks ask for retries
\* for ever: the turn limit stops it.
ActEnds == (phase # "idle") ~> (phase = "idle")
=============================================================================
