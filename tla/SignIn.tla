--------------------------------- MODULE SignIn ----------------------------------
(***************************************************************************)
(* Signing in through the browser (setup/auth, setup/onboarding) and the   *)
(* key it yields.  A flow asks the service for a process, polls it, and    *)
(* exchanges its token for a key.  On the onboarding screen there is one   *)
(* attempt at a time, which the user may retry, leave for the manual entry *)
(* or cancel.  An ACP client signs in in one request, or starts a process  *)
(* and completes it in later requests, several at a time if it likes; it   *)
(* asks for the state of the authentication and signs out.                 *)
(* A process is named after the flow that created it, as is its key.       *)
(***************************************************************************)
EXTENDS Integers, FiniteSets

CONSTANT MaxFlows \* bound: attempts, or requests

Flow == 1..MaxFlows
NoKey == 0
OldKey == -1
ManualKey == -2
MaxFails == 3 \* _max_consecutive_poll_failures

VARIABLES
  host,     \* "screen" or "acp"
  process,  \* of each flow, at the service: "none", "pending", "allowed", "denied", "gone", "used"
  flow,     \* at, kind, process, fails, result
  cut,      \* flows that are to be cancelled at their next await
  next,     \* _attempt_number: the flows so far
  active,   \* _active_attempt_number, 0 if there is none
  view,     \* "start", "pending", "error", "success", or "left": another screen or the end
  running,  \* state.running
  pending,  \* _pending_browser_sign_in_attempts
  before,   \* the variable had a value when the program was started
  file,     \* the key in ~/.vibe/.env
  env,      \* the key in the environment of the program
  stored,   \* history: processes whose key was stored
  dropped,  \* history: attempts the user left before their key was stored
  mislaid,  \* history: processes whose key was on its way when its answer or its storing failed
  unsaved   \* history: a key could not be written to the file

flowVars == <<process, flow, cut, next>>
screenVars == <<active, view, running>>
keyVars == <<file, env, stored, mislaid, unsaved>>
signInVars == <<host, flowVars, screenVars, pending, before, keyVars, dropped>>

Over == {"off", "over"}
Idle == [at |-> "off", kind |-> "whole", process |-> 0, fails |-> 0, result |-> "none"]
Init ==
  /\ host \in {"screen", "acp"} /\ process = [f \in Flow |-> "none"]
  /\ flow = [f \in Flow |-> Idle] /\ cut = {} /\ next = 0
  /\ active = 0 /\ view = "start" /\ running = FALSE /\ pending = {}
  /\ file \in {NoKey, OldKey} /\ before \in BOOLEAN /\ (host = "screen" => ~before)
  /\ env = IF file # NoKey THEN file ELSE IF before THEN OldKey ELSE NoKey
  /\ stored = {} /\ dropped = {} /\ mislaid = {} /\ unsaved = FALSE

Begins(kind, p, at) ==
  /\ next < MaxFlows /\ next' = next + 1
  /\ flow' = [flow EXCEPT ![next'] = [at |-> at, kind |-> kind, process |-> p,
                                      fails |-> 0, result |-> "none"]]

-----------------------------------------------------------------------------
(* The service and the browser *)

Decide(p) ==
  /\ process[p] = "pending" /\ \E d \in {"allowed", "denied"} : process' = [process EXCEPT ![p] = d]
  /\ UNCHANGED <<host, flow, cut, next, screenVars, pending, before, keyVars, dropped>>

Expire(p) ==
  /\ process[p] \in {"pending", "allowed"} /\ process' = [process EXCEPT ![p] = "gone"]
  /\ UNCHANGED <<host, flow, cut, next, screenVars, pending, before, keyVars, dropped>>

-----------------------------------------------------------------------------
(* A flow *)

Goes(f, at, result) == flow' = [flow EXCEPT ![f].at = at, ![f].result = result]
Stays == <<host, cut, next, screenVars, pending, before, dropped>>
Awaits(f, at) == flow[f].at = at /\ f \notin cut

\* start_attempt; a whole flow then opens the browser.
Create(f) ==
  /\ Awaits(f, "create") /\ process' = [process EXCEPT ![f] = "pending"]
  /\ flow' = [flow EXCEPT ![f].at = IF flow[f].kind = "whole" THEN "poll" ELSE "close",
                          ![f].process = f, ![f].result = "begun"]
  /\ UNCHANGED <<Stays, keyVars>>

\* The process cannot be created, or the browser cannot be opened.
CreateFails(f) ==
  /\ Awaits(f, "create") /\ Goes(f, "close", "failed")
  /\ \/ UNCHANGED process
     \/ flow[f].kind = "whole" /\ process' = [process EXCEPT ![f] = "pending"]
  /\ UNCHANGED <<Stays, keyVars>>

\* _wait_for_completion: one poll and what becomes of its answer; an answer resets the count
\* of the failures.  The service may go on calling a used process completed.
Poll(f) ==
  /\ Awaits(f, "poll")
  /\ LET p == process[flow[f].process] IN
     flow' = [flow EXCEPT ![f].fails = 0,
                ![f].at = CASE p = "pending" -> "poll"
                            [] p \in {"allowed", "used"} -> "exchange"
                            [] OTHER -> "close",
                ![f].result = IF p \in {"denied", "gone"} THEN "failed" ELSE @]
  /\ UNCHANGED <<process, Stays, keyVars>>

\* A poll that fails is repeated, but not for ever.
PollFails(f) ==
  /\ Awaits(f, "poll")
  /\ IF flow[f].fails + 1 >= MaxFails THEN Goes(f, "close", "retryable")
     ELSE flow' = [flow EXCEPT ![f].fails = @ + 1]
  /\ UNCHANGED <<process, Stays, keyVars>>

\* The time is over, or the answer makes no sense.
PollEnds(f) ==
  /\ Awaits(f, "poll") /\ Goes(f, "close", "failed")
  /\ UNCHANGED <<process, Stays, keyVars>>

Exchange(f) ==
  /\ Awaits(f, "exchange") /\ process[flow[f].process] = "allowed"
  /\ process' = [process EXCEPT ![flow[f].process] = "used"]
  /\ \/ Goes(f, "close", "key") /\ UNCHANGED keyVars
     \/ Goes(f, "close", "retryable") /\ mislaid' = mislaid \cup {flow[f].process}
        /\ UNCHANGED <<file, env, stored, unsaved>>
  /\ UNCHANGED Stays

ExchangeFails(f) ==
  /\ Awaits(f, "exchange") /\ Goes(f, "close", "retryable")
  /\ UNCHANGED <<process, Stays, keyVars>>

\* A cancellation reaches the flow; a key that has arrived is given up.
Cut(f) ==
  /\ f \in cut /\ flow[f].at \notin Over /\ cut' = cut \ {f}
  /\ Goes(f, IF flow[f].at \in {"close", "delay"} THEN "over" ELSE "close", "cancelled")
  /\ UNCHANGED <<host, process, next, screenVars, pending, before, keyVars, dropped>>

\* persist_api_key: the environment first, then the file.
Persist(p) ==
  \/ /\ env' = p /\ file' = p /\ stored' = stored \cup {p} /\ UNCHANGED <<mislaid, unsaved>>
  \/ /\ env' = p /\ unsaved' = TRUE /\ stored' = stored \cup {p} /\ UNCHANGED <<file, mislaid>>
  \/ /\ mislaid' = mislaid \cup {p} /\ UNCHANGED <<file, env, stored, unsaved>>

-----------------------------------------------------------------------------
(* The onboarding screen *)

\* _start_browser_sign_in, after the screen is shown or for R.
Launch ==
  /\ host = "screen" /\ view \in {"start", "error"} /\ ~running
  /\ Begins("whole", 0, "create") /\ active' = next' /\ view' = "pending" /\ running' = TRUE
  /\ UNCHANGED <<host, process, cut, pending, before, keyVars, dropped>>

IsActive(f) == active = f /\ running

\* The end of _authenticate_in_browser once the service is closed.
Shown(f) ==
  /\ host = "screen" /\ Awaits(f, "close")
  /\ IF flow[f].result = "cancelled" \/ ~IsActive(f)
     THEN Goes(f, "over", "cancelled") /\ UNCHANGED <<screenVars, keyVars>>
     ELSE IF flow[f].result # "key"
     THEN /\ Goes(f, "over", "failed") /\ active' = 0 /\ view' = "error" /\ running' = FALSE
          /\ UNCHANGED keyVars
     ELSE /\ Persist(flow[f].process)
          /\ IF stored' # stored /\ unsaved' = unsaved
             THEN Goes(f, "delay", "key") /\ view' = "success" /\ UNCHANGED <<active, running>>
             ELSE Goes(f, "over", "key") /\ active' = 0 /\ view' = "left" /\ UNCHANGED running
  /\ UNCHANGED <<host, process, cut, next, pending, before, dropped>>

Exits(f) ==
  /\ Awaits(f, "delay") /\ Goes(f, "over", "key") /\ active' = 0 /\ view' = "left"
  /\ UNCHANGED <<host, process, cut, next, running, pending, before, keyVars, dropped>>

\* Mutant: the screen is left and nothing else.
CancelForgotten ==
  /\ dropped' = IF running THEN dropped \cup {active} ELSE dropped
  /\ UNCHANGED <<active, running, cut>>

\* _cancel_current_attempt.
CancelCurrent ==
  /\ dropped' = IF running THEN dropped \cup {active} ELSE dropped
  /\ cut' = IF running THEN cut \cup {active} ELSE cut
  /\ active' = 0 /\ running' = FALSE

\* M: the key is typed on the next screen; Esc ends the setup.
Leave ==
  /\ host = "screen" /\ view \in {"pending", "error"} /\ CancelCurrent /\ view' = "left"
  /\ \/ UNCHANGED keyVars
     \/ env' = ManualKey /\ file' = ManualKey /\ UNCHANGED <<stored, mislaid, unsaved>>
  /\ UNCHANGED <<host, process, flow, next, pending, before>>

-----------------------------------------------------------------------------
(* ACP *)

\* authenticate: both methods.
Request ==
  /\ host = "acp"
  /\ \/ \E kind \in {"whole", "start"} : Begins(kind, 0, "create")
     \/ \E p \in pending : Begins("complete", p, "poll")
  /\ UNCHANGED <<host, process, cut, screenVars, pending, before, keyVars, dropped>>

\* Mutant: an attempt is forgotten as soon as its completion fails.
AnsweredOnce(f) ==
  /\ host = "acp" /\ Awaits(f, "close") /\ Goes(f, "over", flow[f].result)
  /\ pending' = IF flow[f].kind = "start" /\ flow[f].result = "begun" THEN pending \cup {f}
                ELSE pending \ {flow[f].process}
  /\ IF flow[f].result = "key" THEN Persist(flow[f].process) ELSE UNCHANGED keyVars
  /\ UNCHANGED <<host, process, cut, next, screenVars, before, dropped>>

\* The request ends: an attempt is remembered after its start, and forgotten when its key
\* came or when trying again is of no use.
Answered(f) ==
  /\ host = "acp" /\ Awaits(f, "close") /\ Goes(f, "over", flow[f].result)
  /\ pending' = CASE flow[f].kind = "start" /\ flow[f].result = "begun" -> pending \cup {f}
                  [] flow[f].kind = "complete" /\ flow[f].result \in {"key", "failed"} ->
                       pending \ {flow[f].process}
                  [] OTHER -> pending
  /\ IF flow[f].result = "key" THEN Persist(flow[f].process) ELSE UNCHANGED keyVars
  /\ UNCHANGED <<host, process, cut, next, screenVars, before, dropped>>

\* load_dotenv_values: a value in the file replaces the one in the environment.
Loaded == IF file # NoKey THEN file ELSE env

\* assess_auth_state, for the provider Vibe can sign out of.
State ==
  CASE Loaded = NoKey -> "signed out"
    [] file # NoKey /\ before -> "file overrides process"
    [] file # NoKey /\ ~before -> "file"
    [] OTHER -> "process"

\* auth/status, and new_session.
Status ==
  /\ host = "acp" /\ env # Loaded /\ env' = Loaded
  /\ UNCHANGED <<host, flowVars, screenVars, pending, before, file, stored, mislaid, unsaved, dropped>>

SignOut ==
  /\ host = "acp" /\ State = "file" /\ file' = NoKey /\ env' = NoKey
  /\ UNCHANGED <<host, flowVars, screenVars, pending, before, stored, mislaid, unsaved, dropped>>

Next ==
  \/ Launch \/ Leave \/ Request \/ Status \/ SignOut
  \/ \E f \in Flow :
       \/ Decide(f) \/ Expire(f) \/ Create(f) \/ CreateFails(f)
       \/ Poll(f) \/ PollFails(f) \/ PollEnds(f) \/ Exchange(f) \/ ExchangeFails(f)
       \/ Cut(f) \/ Shown(f) \/ Exits(f) \/ Answered(f)

-----------------------------------------------------------------------------
(* Properties *)

TypeOK ==
  /\ next \in 0..MaxFlows /\ active \in 0..next
  /\ view \in {"start", "pending", "error", "success", "left"}
  /\ pending \cup stored \cup dropped \cup mislaid \cup cut \subseteq 1..next
  /\ {file, env} \subseteq Flow \cup {NoKey, OldKey, ManualKey}
  /\ \A f \in Flow : /\ flow[f].at \in Over \cup {"create", "poll", "exchange", "close", "delay"}
                     /\ flow[f].process \in 0..next /\ flow[f].fails \in 0..(MaxFails - 1)

\* A key is stored only for an attempt the user has not left; the screen says "done" only when
\* the key is stored, and while it says "wait" there is an attempt to wait for.
OnlyWantedKeys ==
  /\ stored \cap dropped = {}
  /\ view = "success" => active \in stored /\ file = active
  /\ running /\ view = "pending" => flow[active].at \notin Over

\* A key the service has given out is stored, unless its answer was lost, it could not be
\* stored or the user gave it up; an attempt that failed for the moment can be completed
\* later, and one that is done cannot; and the key in use is the one the file holds, unless
\* one could not be written.
KeysArrive ==
  /\ \A p \in Flow : process[p] = "used" /\ (\A f \in Flow : flow[f].process = p => flow[f].at \in Over)
                       => p \in stored \cup mislaid \cup dropped
  /\ host = "acp" => /\ pending \cap stored = {}
                     /\ \A f \in Flow : flow[f].at = "over" /\ flow[f].kind = "start"
                                        /\ process[f] = "allowed"
                            /\ (\A g \in Flow : flow[g].process = f => flow[g].result # "failed")
                            => f \in pending
  /\ file # NoKey /\ ~unsaved => env = file

SignInSpec == Init /\ [][Next]_signInVars
=============================================================================
