-------------------------- MODULE TurnControlProofs --------------------------
(***************************************************************************)
(* Theorems about TurnControl for any limits, any number of hooks and any  *)
(* set of read-only profiles: its type invariant, the limits on turns and  *)
(* tokens, the mode notices, the context warning and the bound on what the *)
(* hooks of one user message can ask for.                                  *)
(***************************************************************************)
EXTENDS TurnControl, Recursion, TLAPS

\* AgentStats.steps counts at least the requests, and the user message of the
\* act() that is under way; a compaction was started below the limit.
StepsCountTurns ==
  /\ turns <= steps
  /\ phase # "idle" => turns + 1 <= steps
  /\ phase \in {"compacting", "counting"} => turns < MaxTurns

\* How far past the limit each part of a turn may find the tokens.
TokensByPhase ==
  /\ phase = "compacting" => tokens <= MaxTokens
  /\ phase \in {"counting", "asking"} => tokens <= MaxTokens + 1

\* What the middlewares remember is what their notices say, and the pipeline
\* that ran last for the request under way saw the profile of the request.
NoticesRemembered ==
  /\ ~outOfStep => told = wasActive
  /\ (phase = "asking" /\ ~compacted) => wasActive = {seen} \cap ReadOnly

\* ContextWarningMiddleware.has_warned says whether the warning is there.
WarningRemembered == ~outOfStep => (warnings = IF warned THEN 1 ELSE 0)

\* A hook runs only in its phase; the retries of the last one are all counted, for
\* no hook after it can restart the hooks when it has passed.
HookInPhase == phase = "hooks" => hook \in Hook

LastHookCounted ==
  Hooks > 0 => /\ retries[Hooks] <= MaxRetries
               /\ phase # "idle" => retries[Hooks] = count[Hooks]

IInv ==
  /\ TypeOK /\ HookInPhase /\ LastHookCounted
  /\ TurnsWithinLimit /\ StepsCountTurns
  /\ OverrunBounded /\ TokensByPhase
  /\ NoticesRemembered /\ WarningRemembered

USE DEF Hook, Mode, Phases, NoNotice, Reminder, Exit, Notice
USE LimitsAssumption, ModesAssumption

Limits == TurnsWithinLimit /\ StepsCountTurns /\ OverrunBounded /\ TokensByPhase
Views  == NoticesRemembered /\ WarningRemembered

\* The initial states satisfy the inductive invariant.
LEMMA InitInv == Init => IInv
<1> SUFFICES ASSUME Init PROVE IInv
  OBVIOUS
<1>1. TypeOK
  <2>1. /\ phase \in Phases /\ hook \in 0..Hooks /\ mode \in Mode
        /\ steps \in Nat /\ context \in 0..MaxContext /\ tokens \in Nat /\ turns \in Nat
        /\ warnings \in Nat /\ seen \in Mode
    BY DEF Init
  <2>2. /\ warned \in BOOLEAN /\ outOfStep \in BOOLEAN /\ compacted \in BOOLEAN
        /\ wasActive \in SUBSET ReadOnly /\ told \in SUBSET ReadOnly
        /\ lastNotice \in Notice
    BY DEF Init
  <2>3. count \in [Hook -> 0..MaxRetries] /\ retries \in [Hook -> Nat]
    BY DEF Init
  <2> QED
    BY <2>1, <2>2, <2>3 DEF TypeOK
<1>2. Limits
  BY DEF Init, Limits, TurnsWithinLimit, StepsCountTurns, OverrunBounded, TokensByPhase
<1>3. Views /\ HookInPhase /\ LastHookCounted
  BY DEF Init, Views, NoticesRemembered, WarningRemembered, HookInPhase, LastHookCounted
<1> QED
  BY <1>1, <1>2, <1>3 DEF IInv, Limits, Views

-----------------------------------------------------------------------------
(* The limits *)

\* The parts of the type invariant the counters need.
Counters == steps \in Nat /\ tokens \in Nat /\ turns \in Nat

\* No step exceeds the limits.
LEMMA LimitsStep ==
  ASSUME Counters, Limits, [Next]_vars
  PROVE  Limits'
<1> USE DEF Counters, Limits, TurnsWithinLimit, StepsCountTurns, OverrunBounded,
            TokensByPhase
<1>1. CASE StartAct
  BY <1>1 DEF StartAct
<1>2. CASE Stop
  BY <1>2 DEF Stop, statVars
<1>3. CASE StartCompact
  BY <1>3 DEF StartCompact, LimitReached
<1>4. CASE RunPipeline
  BY <1>4 DEF RunPipeline, Request, LimitReached
<1>5. CASE Summarize \/ Compact
  BY <1>5 DEF Summarize, Answered, Compact, Request
<1>6. CASE ToolTurn
  BY <1>6 DEF ToolTurn, Answered
<1>7. CASE FinalTurn
  BY <1>7 DEF FinalTurn, Answered
<1>8. CASE HookPasses \/ HookRetries \/ HookGivesUp
  BY <1>8 DEF HookPasses, HookRetries, HookGivesUp, NextHook, statVars
<1>9. CASE Fail
  BY <1>9 DEF Fail, statVars
<1>10. CASE \E m \in Mode : SwitchMode(m)
  BY <1>10 DEF SwitchMode, statVars
<1>11. CASE Reload \/ Clear
  BY <1>11 DEF Reload, Clear, statVars
<1>12. CASE UNCHANGED vars
  BY <1>12 DEF vars, statVars
<1> QED
  BY <1>1, <1>2, <1>3, <1>4, <1>5, <1>6, <1>7, <1>8, <1>9, <1>10, <1>11, <1>12
  DEF Next, Turn

-----------------------------------------------------------------------------
(* What the history says *)

\* The parts of the type invariant the notices need.
ViewTypes ==
  /\ mode \in Mode /\ seen \in Mode /\ wasActive \in SUBSET ReadOnly
  /\ told \in SUBSET ReadOnly /\ warnings \in Nat
  /\ warned \in BOOLEAN /\ outOfStep \in BOOLEAN

\* Whoever enters or leaves a read-only profile, the pipeline leaves the notices
\* at the active one.
LEMMA PipelineNotices ==
  ASSUME ViewTypes, Views, RunPipeline
  PROVE  Views'
<1>1. ~outOfStep' => told' = wasActive'
  <2>1. told' = (told \cup Entered) \ Left /\ wasActive' = {mode} \cap ReadOnly
        /\ outOfStep' = outOfStep
    BY DEF RunPipeline, Inject
  <2> QED
    BY <2>1 DEF Views, NoticesRemembered, Entered, Left, ViewTypes
<1>2. wasActive' = {seen'} \cap ReadOnly
  BY DEF RunPipeline
<1>3. WarningRemembered'
  <2>1. /\ warned' = (warned \/ MustWarn) /\ outOfStep' = outOfStep
        /\ warnings' = warnings + (IF MustWarn THEN 1 ELSE 0)
    BY DEF RunPipeline, Inject
  <2>2. MustWarn => ~warned
    BY DEF MustWarn
  <2>3. ~outOfStep => (warnings = IF warned THEN 1 ELSE 0)
    BY DEF Views, WarningRemembered
  <2>4. CASE MustWarn
    <3>1. warned' /\ warnings' = warnings + 1 /\ ~warned
      BY <2>1, <2>2, <2>4
    <3> QED
      BY <2>1, <2>3, <3>1 DEF WarningRemembered
  <2>5. CASE ~MustWarn
    <3>1. warned' = warned /\ warnings' = warnings
      BY <2>1, <2>5 DEF ViewTypes
    <3> QED
      BY <2>1, <2>3, <3>1 DEF WarningRemembered
  <2> QED
    BY <2>4, <2>5
<1> QED
  BY <1>1, <1>2, <1>3 DEF Views, NoticesRemembered

\* No other step lets the middlewares and the history disagree.
LEMMA ViewsStep ==
  ASSUME ViewTypes, Views, [Next]_vars
  PROVE  Views'
<1>1. CASE RunPipeline
  BY <1>1, PipelineNotices
<1>2. CASE Summarize \/ Compact
  BY <1>2 DEF Summarize, Compact, ResetView, Request, Views, NoticesRemembered,
              WarningRemembered
<1>3. CASE Clear
  BY <1>3 DEF Clear, ResetView, Views, NoticesRemembered, WarningRemembered
<1>4. CASE Reload
  BY <1>4 DEF Reload, Views, NoticesRemembered, WarningRemembered
<1>5. ASSUME UNCHANGED <<viewVars, seen, compacted>>, phase' = "asking" => phase = "asking"
      PROVE  Views'
  BY <1>5 DEF viewVars, Views, NoticesRemembered, WarningRemembered
<1>6. CASE StartAct \/ Stop \/ StartCompact \/ ToolTurn \/ FinalTurn \/ Fail
  BY <1>5, <1>6 DEF StartAct, Stop, StartCompact, ToolTurn, FinalTurn, Fail
<1>7. CASE HookPasses \/ HookRetries \/ HookGivesUp
  BY <1>5, <1>7 DEF HookPasses, HookRetries, HookGivesUp, NextHook
<1>8. CASE \E m \in Mode : SwitchMode(m)
  BY <1>5, <1>8 DEF SwitchMode
<1>9. CASE UNCHANGED vars
  BY <1>5, <1>9 DEF vars
<1> QED
  BY <1>1, <1>2, <1>3, <1>4, <1>6, <1>7, <1>8, <1>9 DEF Next, Turn

-----------------------------------------------------------------------------
(* Types and hooks *)

Hooked == HookInPhase /\ LastHookCounted

\* The steps of the hooks, and those that start or end an act().
LEMMA HookStep ==
  ASSUME TypeOK, Hooked, [Next]_vars
  PROVE  /\ Hooked' /\ phase' \in Phases /\ hook' \in 0..Hooks
         /\ count' \in [Hook -> 0..MaxRetries] /\ retries' \in [Hook -> Nat]
<1> USE DEF TypeOK, Hooked, HookInPhase, LastHookCounted
<1>1. CASE StartAct
  BY <1>1 DEF StartAct
<1>2. CASE HookPasses
  BY <1>2 DEF HookPasses, NextHook
<1>3. CASE HookRetries
  <2>1. /\ phase = "hooks" /\ hook \in Hook /\ count[hook] < MaxRetries
        /\ count' = [count EXCEPT ![hook] = @ + 1]
        /\ retries' = [retries EXCEPT ![hook] = @ + 1]
        /\ phase' = "before" /\ hook' = 0
    BY <1>3 DEF HookRetries
  <2>2. count[hook] + 1 \in 0..MaxRetries /\ retries[hook] + 1 \in Nat
    BY <2>1
  <2>3. count' \in [Hook -> 0..MaxRetries] /\ retries' \in [Hook -> Nat]
    BY <2>1, <2>2
  <2>4. CASE hook = Hooks
    BY <2>1, <2>2, <2>3, <2>4
  <2>5. CASE hook # Hooks
    BY <2>1, <2>3, <2>5
  <2> QED
    BY <2>1, <2>3, <2>4, <2>5
<1>4. CASE HookGivesUp
  BY <1>4 DEF HookGivesUp, NextHook
<1>5. CASE FinalTurn
  BY <1>5 DEF FinalTurn
<1>6. CASE Fail
  BY <1>6 DEF Fail
<1>7. CASE Stop \/ StartCompact \/ RunPipeline \/ Summarize \/ Compact \/ ToolTurn
  BY <1>7 DEF Stop, StartCompact, RunPipeline, Summarize, Compact, Request, ToolTurn, hookVars
<1>8. CASE (\E m \in Mode : SwitchMode(m)) \/ Reload \/ Clear
  BY <1>8 DEF SwitchMode, Reload, Clear, hookVars
<1>9. CASE UNCHANGED vars
  BY <1>9 DEF vars, hookVars
<1> QED
  BY <1>1, <1>2, <1>3, <1>4, <1>5, <1>6, <1>7, <1>8, <1>9 DEF Next, Turn

\* The counters and the context stay numbers of their range.
LEMMA CountersStep ==
  ASSUME TypeOK, [Next]_vars
  PROVE  Counters' /\ context' \in 0..MaxContext
<1> USE DEF TypeOK, Counters
<1>1. CASE StartAct \/ Stop \/ StartCompact \/ RunPipeline
  BY <1>1 DEF StartAct, Stop, StartCompact, RunPipeline, Request, statVars
<1>2. CASE Summarize \/ Compact
  BY <1>2 DEF Summarize, Answered, Compact, Request
<1>3. CASE ToolTurn \/ FinalTurn
  BY <1>3 DEF ToolTurn, FinalTurn, Answered
<1>4. CASE HookPasses \/ HookRetries \/ HookGivesUp \/ Fail
  BY <1>4 DEF HookPasses, HookRetries, HookGivesUp, Fail, statVars
<1>5. CASE (\E m \in Mode : SwitchMode(m)) \/ Reload \/ Clear
  BY <1>5 DEF SwitchMode, Reload, Clear, statVars
<1>6. CASE UNCHANGED vars
  BY <1>6 DEF vars, statVars
<1> QED
  BY <1>1, <1>2, <1>3, <1>4, <1>5, <1>6 DEF Next, Turn

\* So do the profiles, the notices and the flags.
LEMMA ViewTypesStep ==
  ASSUME TypeOK, [Next]_vars
  PROVE  ViewTypes' /\ lastNotice' \in Notice /\ compacted' \in BOOLEAN
<1> USE DEF TypeOK, ViewTypes
<1>1. CASE RunPipeline
  <2>1. told' \in SUBSET ReadOnly /\ wasActive' \in SUBSET ReadOnly
    BY <1>1 DEF RunPipeline, Inject, Entered, Left
  <2>2. lastNotice' \in Notice
    BY <1>1 DEF RunPipeline, Inject, NoticeOf, Entered, Left
  <2>3. warnings' \in Nat /\ mode' \in Mode /\ seen' \in Mode
    BY <1>1 DEF RunPipeline, Inject
  <2>4. warned' \in BOOLEAN /\ outOfStep' \in BOOLEAN /\ compacted' \in BOOLEAN
    BY <1>1 DEF RunPipeline, Inject, Request
  <2> QED
    BY <2>1, <2>2, <2>3, <2>4
<1>2. CASE Summarize
  BY <1>2 DEF Summarize
<1>9. CASE Compact
  BY <1>9 DEF Compact, ResetView, Request
<1>3. CASE Reload
  BY <1>3 DEF Reload
<1>4. CASE Clear
  BY <1>4 DEF Clear, ResetView
<1>5. CASE \E m \in Mode : SwitchMode(m)
  BY <1>5 DEF SwitchMode, viewVars
<1>6. CASE StartAct \/ Stop \/ StartCompact \/ ToolTurn \/ FinalTurn \/ Fail
  BY <1>6 DEF StartAct, Stop, StartCompact, ToolTurn, FinalTurn, Fail, viewVars
<1>7. CASE HookPasses \/ HookRetries \/ HookGivesUp
  BY <1>7 DEF HookPasses, HookRetries, HookGivesUp, viewVars
<1>8. CASE UNCHANGED vars
  BY <1>8 DEF vars, viewVars
<1> QED
  BY <1>1, <1>2, <1>3, <1>4, <1>5, <1>6, <1>7, <1>8, <1>9 DEF Next, Turn

-----------------------------------------------------------------------------
\* Every step preserves the inductive invariant.
LEMMA NextInv == IInv /\ [Next]_vars => IInv'
<1> SUFFICES ASSUME IInv, [Next]_vars PROVE IInv'
  OBVIOUS
<1>1. TypeOK /\ Hooked /\ Limits /\ Views /\ Counters /\ ViewTypes
  BY DEF IInv, Hooked, Limits, Views, TypeOK, Counters, ViewTypes
<1>2. Hooked' /\ Limits' /\ Views'
  BY <1>1, HookStep, LimitsStep, ViewsStep
<1>3. TypeOK'
  BY <1>1, HookStep, CountersStep, ViewTypesStep DEF TypeOK, Counters, ViewTypes
<1> QED
  BY <1>2, <1>3 DEF IInv, Hooked, Limits, Views

\* The invariant of counters, notices and hooks holds throughout.
THEOREM Invariance == Spec => []IInv
<1> QED
  BY InitInv, NextInv, PTL DEF Spec

\* The type invariant, for all limits, hooks and profiles.
THEOREM TypeCorrect == Spec => []TypeOK
<1>1. IInv => TypeOK
  BY DEF IInv
<1> QED
  BY <1>1, Invariance, PTL

\* --max-turns bounds the requests of the session, whatever it is and however many
\* messages, compactions and hook retries come between them.
THEOREM TurnLimitHolds == Spec => []TurnsWithinLimit
<1>1. IInv => TurnsWithinLimit
  BY DEF IInv
<1> QED
  BY <1>1, Invariance, PTL

\* --max-tokens is overrun by at most one summary and one turn.
THEOREM TokenOverrunBounded == Spec => []OverrunBounded
<1>1. IInv => OverrunBounded
  BY DEF IInv
<1> QED
  BY <1>1, Invariance, PTL

\* After a complete pipeline the notices name the active read-only profile and no
\* other, for any number of profile switches between two requests.
THEOREM ModeNoticesAreRight == Spec => []ModeNoticed
<1>1. IInv => ModeNoticed
  BY DEF IInv, ModeNoticed, NoticesRemembered
<1> QED
  BY <1>1, Invariance, PTL

\* The context warning is injected once.
THEOREM ContextWarnedOnce == Spec => []WarnedOnce
<1>1. IInv => WarnedOnce
  BY DEF IInv, WarnedOnce, WarningRemembered
<1> QED
  BY <1>1, Invariance, PTL

-----------------------------------------------------------------------------
(* The budget of the hooks *)

\* What the counts c are worth: a retry of a hook lets the hooks before it use up
\* all they can once more.
Worth(c)      == [h \in Hook |-> c[h] * (MostRetries[h - 1] + 1)]
Counted(c, h) == SumFunctionOnSet(Worth(c), h..Hooks)

\* The retries given so far are paid for by the counts; while hook h runs, the hooks
\* before it may have dropped theirs, and with them what they could use up.
BudgetKept ==
  /\ SumFunction(retries) <= MostRetries[Hooks]
  /\ phase \notin {"idle", "hooks"} => SumFunction(retries) <= Counted(count, 1)
  /\ phase = "hooks" =>
        SumFunction(retries) <= Counted(count, hook) + MostRetries[hook - 1]

\* The recursion has a solution, and its values are naturals.
LEMMA MostRetriesProperties ==
  /\ MostRetries \in [0..Hooks -> Nat] /\ MostRetries[0] = 0
  /\ \A h \in Hook : MostRetries[h] = MaxRetries + (MaxRetries + 1) * MostRetries[h - 1]
<1> DEFINE step == [h \in Nat |-> [v \in Nat |-> MaxRetries + (MaxRetries + 1) * v]]
           Solves(g) == g = [h \in 0..Hooks |->
              IF h = 0 THEN 0 ELSE MaxRetries + (MaxRetries + 1) * g[h - 1]]
<1>0. \A m, v \in Nat : m + (m + 1) * v \in Nat
  OBVIOUS
<1>1. step \in [Nat -> [Nat -> Nat]]
  BY <1>0
<1>2. PICK g : Recursive(g, Nat, 0, step, Hooks)
  <2> HIDE DEF step
  <2>1. \A V, base : base \in V /\ step \in [Nat -> [V -> V]] =>
           \E g : Recursive(g, V, base, step, Hooks)
    BY RecursionDefines
  <2> QED
    BY <2>1, <1>1
<1>3. ASSUME NEW h \in 1..Hooks PROVE g[h] = MaxRetries + (MaxRetries + 1) * g[h - 1]
  <2>1. h \in Nat /\ g[h - 1] \in Nat /\ g[h] = step[h][g[h - 1]]
    <3> HIDE DEF step
    <3> QED
      BY <1>2 DEF Recursive
  <2> QED
    BY <2>1
<1>4. Solves(g)
  BY <1>2, <1>3 DEF Recursive
<1>5. Solves(MostRetries)
  <2>1. MostRetries = CHOOSE f : Solves(f)
    BY DEF MostRetries
  <2> HIDE DEF Solves
  <2> QED
    BY <1>4, <2>1
<1>6. /\ MostRetries[0] = 0
      /\ \A h \in Hook : MostRetries[h] = MaxRetries + (MaxRetries + 1) * MostRetries[h - 1]
  BY <1>5
<1>7. \A h \in 0..Hooks : MostRetries[h] \in Nat
  <2> DEFINE N == {h \in Nat : h <= Hooks => MostRetries[h] \in Nat}
  <2>1. 0 \in N
    BY <1>6
  <2>2. ASSUME NEW h \in Nat, h \in N PROVE h + 1 \in N
    <3>1. CASE h + 1 <= Hooks
      <4>1. h + 1 \in Hook /\ (h + 1) - 1 = h /\ MostRetries[h] \in Nat
        BY <2>2, <3>1
      <4>2. MostRetries[h + 1] = MaxRetries + (MaxRetries + 1) * MostRetries[h]
        BY <4>1, <1>6
      <4>3. MostRetries[h + 1] \in Nat
        BY <4>1, <4>2, <1>0
      <4> QED
        BY <4>3
    <3> QED
      BY <3>1
  <2>3. Nat \subseteq N
    <3> HIDE DEF N
    <3> QED
      BY <2>1, <2>2, SetInduction
  <2> QED
    BY <2>3
<1> QED
  BY <1>5, <1>6, <1>7

\* A hook that passes, or gives up, has no more than its own and the earlier hooks'
\* share of what they can use up together.
LEMMA ShareOfHook ==
  ASSUME NEW h \in Hook, NEW c \in 0..MaxRetries
  PROVE  /\ c * (MostRetries[h - 1] + 1) \in Nat
         /\ c * (MostRetries[h - 1] + 1) + MostRetries[h - 1] <= MostRetries[h]
<1>1. MostRetries[h] = MaxRetries + (MaxRetries + 1) * MostRetries[h - 1]
      /\ MostRetries[h - 1] \in Nat
  BY MostRetriesProperties
<1>2. \A m, x, y \in Nat : y <= m => y * (x + 1) \in Nat /\ y * (x + 1) + x <= m + (m + 1) * x
  OBVIOUS
<1> QED
  BY <1>1, <1>2

Counts == [Hook -> 0..MaxRetries]

\* The counts of the hooks from h on are that of h and those after it.
LEMMA CountedProperties ==
  ASSUME NEW c \in Counts
  PROVE  /\ \A h \in 1..Hooks + 1 : Counted(c, h) \in Nat /\ Counted(c, h) <= Counted(c, 1)
         /\ \A h \in Hook : Counted(c, h) = Worth(c)[h] + Counted(c, h + 1)
         /\ Counted(c, Hooks + 1) = 0
<1>1. \A h \in Hook : Worth(c)[h] \in Nat
  <2>1. ASSUME NEW h \in Hook PROVE Worth(c)[h] = c[h] * (MostRetries[h - 1] + 1)
                                    /\ c[h] \in 0..MaxRetries
    BY DEF Worth, Counts
  <2> QED
    BY <2>1, ShareOfHook
<1>2. \A h \in 1..Hooks + 1 : IsFiniteSet(h..Hooks) /\ IntOn(Worth(c), h..Hooks)
  <2>1. ASSUME NEW h \in 1..Hooks + 1 PROVE IsFiniteSet(h..Hooks)
    BY FS_Interval
  <2>2. ASSUME NEW h \in 1..Hooks + 1 PROVE IntOn(Worth(c), h..Hooks)
    BY <1>1 DEF IntOn
  <2> QED
    BY <2>1, <2>2
<1>3. ASSUME NEW h \in 1..Hooks + 1
      PROVE  Counted(c, h) \in Nat /\ Counted(c, h) <= Counted(c, 1)
  <2>1. h..Hooks \subseteq 1..Hooks /\ IsFiniteSet(1..Hooks)
    BY <1>2
  <2>2. 0 <= Counted(c, h) /\ Counted(c, h) <= Counted(c, 1)
    BY <2>1, <1>1, SumOfPart DEF Counted
  <2>3. Counted(c, h) \in Int
    BY <1>2, SumProperties DEF Counted
  <2> QED
    BY <2>2, <2>3
<1>4. ASSUME NEW h \in Hook PROVE Counted(c, h) = Worth(c)[h] + Counted(c, h + 1)
  <2>1. (h..Hooks) \ {h} = (h + 1)..Hooks /\ h \in h..Hooks
    OBVIOUS
  <2> QED
    BY <2>1, <1>2, SumProperties DEF Counted
<1>5. Counted(c, Hooks + 1) = 0
  <2>1. (Hooks + 1)..Hooks = {}
    OBVIOUS
  <2> QED
    BY <2>1, <1>2, SumProperties DEF Counted
<1> QED
  BY <1>3, <1>4, <1>5

\* Counts that agree from h on are worth the same from there.
LEMMA CountedOfEqual ==
  ASSUME NEW c \in Counts, NEW d \in Counts, NEW h \in 1..Hooks + 1,
         \A k \in h..Hooks : c[k] = d[k]
  PROVE  Counted(c, h) = Counted(d, h)
<1>1. IsFiniteSet(h..Hooks)
  BY FS_Interval
<1>2. IntOn(Worth(c), h..Hooks)
  <2> SUFFICES ASSUME NEW k \in h..Hooks PROVE Worth(c)[k] \in Int
    BY DEF IntOn
  <2>1. k \in Hook /\ c[k] \in 0..MaxRetries /\ Worth(c)[k] = c[k] * (MostRetries[k - 1] + 1)
    BY DEF Worth, Counts
  <2> QED
    BY <2>1, ShareOfHook
<1>3. EqualOn(Worth(c), Worth(d), h..Hooks)
  BY DEF EqualOn, Worth
<1> QED
  BY <1>1, <1>2, <1>3, SumOfEqual DEF Counted

\* What all counts are worth is what all hooks can use up.
LEMMA CountedBounded ==
  ASSUME NEW c \in Counts
  PROVE  Counted(c, 1) <= MostRetries[Hooks]
<1> DEFINE N == {h \in Nat : h <= Hooks => Counted(c, 1) <= Counted(c, h + 1) + MostRetries[h]}
<1>1. 0 \in N
  BY CountedProperties, MostRetriesProperties
<1>2. ASSUME NEW h \in Nat, h \in N PROVE h + 1 \in N
  <2> SUFFICES ASSUME h + 1 <= Hooks
               PROVE  Counted(c, 1) <= Counted(c, h + 2) + MostRetries[h + 1]
    OBVIOUS
  <2>1. h + 1 \in Hook /\ (h + 1) - 1 = h /\ (h + 1) + 1 = h + 2 /\ h + 2 \in 1..Hooks + 1
        /\ c[h + 1] \in 0..MaxRetries
    BY DEF Counts
  <2>2. Counted(c, h + 1) = Worth(c)[h + 1] + Counted(c, h + 2)
    BY <2>1, CountedProperties
  <2>3. Worth(c)[h + 1] = c[h + 1] * (MostRetries[h] + 1)
    BY <2>1 DEF Worth
  <2>4. Worth(c)[h + 1] \in Nat /\ Worth(c)[h + 1] + MostRetries[h] <= MostRetries[h + 1]
    BY <2>1, <2>3, ShareOfHook
  <2>5. Counted(c, 1) <= Counted(c, h + 1) + MostRetries[h]
    BY <1>2
  <2>6. Counted(c, 1) \in Nat /\ Counted(c, h + 2) \in Nat
        /\ MostRetries[h] \in Nat /\ MostRetries[h + 1] \in Nat
    BY <2>1, CountedProperties, MostRetriesProperties
  <2> HIDE DEF N
  <2> QED
    BY <2>2, <2>4, <2>5, <2>6
<1>3. Nat \subseteq N
  <2> HIDE DEF N
  <2> QED
    BY <1>1, <1>2, SetInduction
<1>4. Counted(c, 1) <= Counted(c, Hooks + 1) + MostRetries[Hooks]
  BY <1>3
<1> QED
  BY <1>4, CountedProperties, MostRetriesProperties

\* One retry more for hook h is one more in all.
LEMMA OneRetryMore ==
  ASSUME NEW r \in [Hook -> Nat], NEW h \in Hook
  PROVE  /\ SumFunction(r) \in Nat
         /\ SumFunction([r EXCEPT ![h] = @ + 1]) = SumFunction(r) + 1
<1> DEFINE s == [r EXCEPT ![h] = @ + 1]
<1>1. s \in [Hook -> Nat] /\ s[h] = r[h] + 1 /\ \A k \in Hook \ {h} : s[k] = r[k]
  OBVIOUS
<1> HIDE DEF s
<1>2. IsFiniteSet(Hook) /\ IsFiniteSet(Hook \ {h}) /\ Hook \subseteq Hook
  BY FS_Interval, FS_Subset
<1>3. IntOn(r, Hook) /\ IntOn(s, Hook) /\ IntOn(s, Hook \ {h}) /\ EqualOn(s, r, Hook \ {h})
  BY <1>1 DEF IntOn, EqualOn
<1>4. SumFunctionOnSet(s, Hook \ {h}) = SumFunctionOnSet(r, Hook \ {h})
  BY <1>2, <1>3, SumOfEqual
<1>5. SumFunctionOnSet(s, Hook) = s[h] + SumFunctionOnSet(s, Hook \ {h})
  BY <1>2, <1>3, SumProperties
<1>6. SumFunctionOnSet(r, Hook) = r[h] + SumFunctionOnSet(r, Hook \ {h})
      /\ SumFunctionOnSet(r, Hook) \in Int
  BY <1>2, <1>3, SumProperties
<1>7. 0 <= SumFunctionOnSet(r, Hook)
  BY <1>2, SumOfPart
<1>8. SumFunctionOnSet(s, Hook) = SumFunctionOnSet(r, Hook) + 1
  <2>1. r[h] \in Nat /\ s[h] = r[h] + 1
    BY <1>1
  <2>2. SumFunctionOnSet(r, Hook \ {h}) \in Int
    <3>1. IntOn(r, Hook \ {h})
      BY DEF IntOn
    <3> QED
      BY <1>2, <3>1, SumProperties
  <2> HIDE DEF Hook
  <2> QED
    BY <2>1, <2>2, <1>4, <1>5, <1>6
<1>9. SumFunction(r) = SumFunctionOnSet(r, Hook) /\ SumFunction(s) = SumFunctionOnSet(s, Hook)
  BY <1>1 DEF SumFunction
<1> QED
  BY <1>6, <1>7, <1>8, <1>9 DEF s

\* With no retries the hooks have used up nothing.
LEMMA NoRetries ==
  ASSUME NEW r, r = [h \in Hook |-> 0]
  PROVE  SumFunction(r) = 0
<1>1. IsFiniteSet(Hook) /\ \A h \in Hook : r[h] = 0
  BY FS_Interval
<1>2. DOMAIN r = Hook
  OBVIOUS
<1> QED
  BY <1>1, <1>2, SumOfZeros DEF SumFunction

\* A hook that passes drops its count, one that gives up keeps it: the next hook
\* finds no more given than what is counted from it on and what those before it
\* could use up.
LEMMA NextHookPays ==
  ASSUME NEW c \in Counts, NEW d \in Counts, NEW h \in Hook, NEW given \in Nat,
         \A k \in h + 1..Hooks : d[k] = c[k],
         given <= Counted(c, h) + MostRetries[h - 1]
  PROVE  given <= Counted(d, h + 1) + MostRetries[h]
<1>1. c[h] \in 0..MaxRetries /\ h + 1 \in 1..Hooks + 1
  BY DEF Counts
<1>2. Worth(c)[h] = c[h] * (MostRetries[h - 1] + 1)
  BY DEF Worth
<1>3. Worth(c)[h] \in Nat /\ Worth(c)[h] + MostRetries[h - 1] <= MostRetries[h]
  BY <1>1, <1>2, ShareOfHook
<1>4. Counted(c, h) = Worth(c)[h] + Counted(c, h + 1)
  BY CountedProperties
<1>5. Counted(c, h + 1) = Counted(d, h + 1) /\ Counted(c, h + 1) \in Nat
  BY <1>1, CountedOfEqual, CountedProperties
<1>6. MostRetries[h] \in Nat /\ MostRetries[h - 1] \in Nat
  BY MostRetriesProperties
<1> QED
  BY <1>3, <1>4, <1>5, <1>6

\* A retry is paid for by the count it adds.
LEMMA RetryPays ==
  ASSUME NEW c \in Counts, NEW d \in Counts, NEW h \in Hook, NEW given \in Nat,
         d = [c EXCEPT ![h] = @ + 1],
         given <= Counted(c, h) + MostRetries[h - 1]
  PROVE  given + 1 <= Counted(d, 1)
<1>1. d[h] = c[h] + 1 /\ c[h] \in 0..MaxRetries /\ (\A k \in h + 1..Hooks : c[k] = d[k])
      /\ h + 1 \in 1..Hooks + 1 /\ h \in 1..Hooks + 1
  BY DEF Counts
<1>2. Worth(c)[h] = c[h] * (MostRetries[h - 1] + 1)
      /\ Worth(d)[h] = d[h] * (MostRetries[h - 1] + 1)
  BY DEF Worth
<1>3. Worth(d)[h] = Worth(c)[h] + MostRetries[h - 1] + 1 /\ Worth(c)[h] \in Nat
  <2>1. \A x, y \in Nat : (y + 1) * (x + 1) = y * (x + 1) + x + 1 /\ y * (x + 1) \in Nat
    OBVIOUS
  <2>2. MostRetries[h - 1] \in Nat /\ c[h] \in Nat
    BY <1>1, MostRetriesProperties
  <2> QED
    BY <2>1, <2>2, <1>1, <1>2
<1>4. Counted(c, h) = Worth(c)[h] + Counted(c, h + 1)
      /\ Counted(d, h) = Worth(d)[h] + Counted(d, h + 1)
  BY CountedProperties
<1>5. Counted(c, h + 1) = Counted(d, h + 1)
  BY <1>1, CountedOfEqual
<1>6. Counted(c, h + 1) \in Nat /\ Counted(d, h) <= Counted(d, 1) /\ Counted(d, 1) \in Nat
  BY <1>1, CountedProperties
<1>7. MostRetries[h - 1] \in Nat
  BY MostRetriesProperties
<1> HIDE DEF Hook
<1> QED
  BY <1>3, <1>4, <1>5, <1>6, <1>7

\* The budget is kept: no step gives a retry that is not paid for.
LEMMA BudgetStep ==
  ASSUME TypeOK, HookInPhase, BudgetKept, TypeOK', [Next]_vars
  PROVE  BudgetKept'
<1>0. /\ count \in Counts /\ count' \in Counts /\ retries \in [Hook -> Nat]
      /\ phase \in Phases /\ hook \in 0..Hooks
      /\ MostRetries \in [0..Hooks -> Nat] /\ MostRetries[0] = 0
  BY MostRetriesProperties DEF TypeOK, Counts
<1>1. SumFunction(retries) \in Nat \/ Hook = {}
  BY <1>0, OneRetryMore
<1>2. CASE StartAct
  <2>1. retries' = [h \in Hook |-> 0] /\ phase' = "before"
    BY <1>2 DEF StartAct
  <2>2. SumFunction(retries') = 0
    BY <2>1, NoRetries
  <2>3. Counted(count', 1) \in Nat /\ MostRetries[Hooks] \in Nat
    BY <1>0, CountedProperties
  <2> QED
    BY <2>1, <2>2, <2>3 DEF BudgetKept
<1>3. CASE HookPasses \/ HookGivesUp
  <2>0. /\ phase = "hooks" /\ hook \in Hook /\ retries' = retries
        /\ count' = count \/ count' = [count EXCEPT ![hook] = 0]
        /\ hook' = IF hook < Hooks THEN hook + 1 ELSE 0
        /\ phase' = IF hook < Hooks THEN "hooks" ELSE "idle"
    BY <1>3 DEF HookPasses, HookGivesUp, NextHook, HookInPhase
  <2>1. \A k \in hook + 1..Hooks : count'[k] = count[k]
    <3>1. \A k \in Hook : k # hook => count'[k] = count[k]
      BY <2>0, <1>0 DEF Counts
    <3> QED
      BY <2>0, <3>1
  <2>2. SumFunction(retries) <= Counted(count', hook + 1) + MostRetries[hook]
    BY <1>0, <1>1, <2>0, <2>1, NextHookPays DEF BudgetKept
  <2> QED
    BY <2>0, <2>2 DEF BudgetKept
<1>4. CASE HookRetries
  <2>1. /\ phase = "hooks" /\ hook \in Hook /\ phase' = "before"
        /\ retries' = [retries EXCEPT ![hook] = @ + 1]
        /\ count' = [count EXCEPT ![hook] = @ + 1]
    BY <1>4 DEF HookRetries, HookInPhase
  <2>2. SumFunction(retries') = SumFunction(retries) + 1 /\ SumFunction(retries) \in Nat
    BY <1>0, <2>1, OneRetryMore
  <2>3. SumFunction(retries) + 1 <= Counted(count', 1)
    BY <1>0, <2>1, <2>2, RetryPays DEF BudgetKept
  <2>4. Counted(count', 1) <= MostRetries[Hooks] /\ Counted(count', 1) \in Nat
    BY <1>0, CountedBounded, CountedProperties
  <2> QED
    BY <1>0, <2>1, <2>2, <2>3, <2>4 DEF BudgetKept
<1>5. CASE FinalTurn
  <2>1. /\ phase = "asking" /\ UNCHANGED <<count, retries>>
        /\ phase' = IF Hooks = 0 THEN "idle" ELSE "hooks"
        /\ hook' = IF Hooks = 0 THEN 0 ELSE 1
    BY <1>5 DEF FinalTurn
  <2>2. Counted(count, 1) \in Nat
    BY <1>0, CountedProperties
  <2> QED
    BY <1>0, <2>1, <2>2 DEF BudgetKept
<1>6. ASSUME UNCHANGED <<count, retries>>,
             \/ phase' = "idle"
             \/ phase' \notin {"idle", "hooks"} /\ phase \notin {"idle", "hooks"}
             \/ phase' = phase /\ hook' = hook
      PROVE  BudgetKept'
  BY <1>6 DEF BudgetKept
<1>7. CASE Fail \/ Stop
  BY <1>6, <1>7 DEF Fail, Stop, hookVars
<1>8. CASE StartCompact \/ RunPipeline \/ Summarize \/ Compact \/ ToolTurn
  BY <1>6, <1>8 DEF StartCompact, RunPipeline, Request, Summarize, Compact, ToolTurn, hookVars
<1>9. CASE (\E m \in Mode : SwitchMode(m)) \/ Reload \/ Clear
  BY <1>6, <1>9 DEF SwitchMode, Reload, Clear, hookVars
<1>10. CASE UNCHANGED vars
  BY <1>6, <1>10 DEF vars, hookVars
<1> QED
  BY <1>2, <1>3, <1>4, <1>5, <1>7, <1>8, <1>9, <1>10 DEF Next, Turn

\* The hooks of one user message, however many they are and in whatever order they
\* ask, pass, fail and give up, cause no more than (MaxRetries + 1)^Hooks - 1 retries.
THEOREM HookBudgetHolds == Spec => []HookRetriesBounded
<1>1. Init => BudgetKept
  <2> SUFFICES ASSUME Init PROVE BudgetKept
    OBVIOUS
  <2>1. SumFunction(retries) = 0 /\ phase = "idle"
    BY NoRetries DEF Init
  <2> QED
    BY <2>1, MostRetriesProperties DEF BudgetKept
<1>2. IInv /\ IInv' /\ BudgetKept /\ [Next]_vars => BudgetKept'
  BY BudgetStep DEF IInv
<1>3. IInv /\ BudgetKept => HookRetriesBounded
  BY DEF IInv, LastHookCounted, BudgetKept, HookRetriesBounded
<1> QED
  BY <1>1, <1>2, <1>3, Invariance, PTL DEF Spec
===============================================================================
