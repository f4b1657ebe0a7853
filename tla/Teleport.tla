-------------------------------- MODULE Teleport ---------------------------------
(***************************************************************************)
(* Handing the work over to the Vibe Code service (core/teleport,          *)
(* AgentLoop.teleport_to_vibe_code, VibeApp._teleport, programmatic.py):   *)
(* the state of the repository is read, the branch is pushed if the user   *)
(* agrees, and a session is started from the commit and the changes that   *)
(* are not committed.  Meanwhile the agent and the user go on working in   *)
(* the repository, and a second teleport may be started.                   *)
(* Commit n of a branch holds n edits; commit 0 is on every branch.        *)
(***************************************************************************)
EXTENDS Integers, FiniteSets

CONSTANTS
  Job,     \* teleports, numbered as they begin, each carried out once
  Branch,
  Main,    \* the branch checked out first
  MaxWork  \* bound: steps of whoever works in the repository or at the remote

Detached == "detached"
NoJob == 0

VARIABLES
  head,     \* the commit each branch is at
  on,       \* the branch checked out, or Detached
  dirty,    \* the workspace has an edit that is not committed
  remote,   \* the commit of each branch at the remote, -1 if it is not there
  tracked,  \* the remote's branches as fetches and pushes saw them
  github,   \* the first remote with a GitHub URL; remote and tracked are of "origin"
  job,      \* where each teleport is
  end,      \* how it ends, once that is known
  info,     \* GitRepoInfo: URL, branch, commit and number of edits in the diff
  service,  \* _teleport_service: the job that made it
  used,     \* the service each job has entered
  shut,     \* services whose executor is shut down
  told,     \* telemetry of each job: "none", "completed", "failed"
  started,  \* sessions of the service: branch, commit and diff
  version,  \* history: the edits in the workspace when the diff was taken
  slipped,  \* history: jobs during which the facts they had read changed
  work

repoVars == <<head, on, dirty, remote, tracked, github>>
jobVars == <<job, end, info, service, used, shut, told, started>>
historyVars == <<version, slipped>>
teleportVars == <<repoVars, jobVars, historyVars, work>>

NoInfo == [url |-> "none", branch |-> Detached, commit |-> 0, diff |-> 0]
Init ==
  /\ head \in [Branch -> 0..1] /\ on = Main /\ dirty = FALSE
  /\ remote \in [Branch -> -1..1] /\ remote[on] <= head[on]
  /\ \A b \in Branch \ {on} : head[b] = 0 /\ remote[b] = 0
  /\ tracked \in [Branch -> -1..1]
  /\ \A b \in Branch \ {on} : tracked[b] = 0
  /\ \A b \in Branch : tracked[b] <= head[b] /\ (remote[b] >= 0 => tracked[b] <= remote[b])
  /\ github \in {"origin", "fork"}
  /\ job = [j \in Job |-> "off"] /\ end = [j \in Job |-> "none"] /\ info = [j \in Job |-> NoInfo]
  /\ service = NoJob /\ used = [j \in Job |-> NoJob] /\ shut = {}
  /\ told = [j \in Job |-> "none"] /\ started = [j \in Job |-> {}]
  /\ version = [j \in Job |-> 0] /\ slipped = {} /\ work = 0

Ended(j) == job[j] \in {"done", "error", "crashed"}
Running == {j \in Job : job[j] # "off" /\ ~Ended(j)}

-----------------------------------------------------------------------------
(* The repository *)

Works == work < MaxWork /\ work' = work + 1 /\ UNCHANGED jobVars

Edit ==
  /\ Works /\ ~dirty /\ dirty' = TRUE
  /\ UNCHANGED <<head, on, remote, tracked, github, historyVars>>

\* A commit of the edit there is, or of a new one.
Commit ==
  /\ Works /\ on \in Branch
  /\ head' = [head EXCEPT ![on] = @ + 1] /\ dirty' = FALSE
  /\ slipped' = slipped \cup {j \in Job : job[j] = "diff"}
  /\ UNCHANGED <<on, remote, tracked, github, version>>

Checkout ==
  /\ Works /\ on' \in (Branch \cup {Detached}) \ {on}
  /\ slipped' = slipped \cup Running
  /\ UNCHANGED <<head, dirty, remote, tracked, github, version>>

\* Somebody deletes a branch of the remote.
RemoteDeleted ==
  /\ Works /\ \E b \in Branch : remote[b] >= 0 /\ remote' = [remote EXCEPT ![b] = -1]
  /\ UNCHANGED <<head, on, dirty, tracked, github, historyVars>>

\* The refs of branches that were deleted there: no fetch prunes them.
Gone == {b \in Branch : tracked[b] >= 0 /\ remote[b] < 0}

OnRemote(refs, i) ==
  \/ i.commit = 0 /\ \E b \in Branch : refs[b] >= 0
  \/ refs[i.branch] >= i.commit

-----------------------------------------------------------------------------
(* One teleport *)

Goes(j, at) == job' = [job EXCEPT ![j] = at]

\* Its end is known, and `async with self.teleport_service` is left: the executor is shut
\* down, the HTTP client is waited for.
Leaves(j, at) ==
  /\ Goes(j, "closing") /\ end' = [end EXCEPT ![j] = at] /\ shut' = shut \cup {used[j]}
  /\ told' = [told EXCEPT ![j] = IF at = "done" THEN "completed" ELSE @]

\* Mutant: the loop keeps the service that was left.
ClosedKept(j) ==
  /\ job[j] = "closing" /\ Goes(j, end[j]) /\ UNCHANGED service
  /\ told' = [told EXCEPT ![j] = IF @ = "none" THEN "failed" ELSE @]
  /\ UNCHANGED <<repoVars, end, info, used, shut, started, historyVars, work>>

\* The finally of teleport_to_vibe_code: whatever service the loop has now is given up.
Closed(j) ==
  /\ job[j] = "closing" /\ Goes(j, end[j]) /\ service' = NoJob
  /\ told' = [told EXCEPT ![j] = IF @ = "none" THEN "failed" ELSE @]
  /\ UNCHANGED <<repoVars, end, info, used, shut, started, historyVars, work>>

Fails(j) ==
  Leaves(j, "error") /\ UNCHANGED <<repoVars, info, service, used, started, historyVars>>

\* An executor that is shut down: the exception is none the application expects.
Crashes(j) ==
  Leaves(j, "crashed") /\ UNCHANGED <<repoVars, info, service, used, started, historyVars>>
Usable(j) == used[j] \notin shut

\* The first lines of execute(): the prompt, the key, the repository and a remote on GitHub
\* are there or not, and a branch must be checked out.  The service may be one whose user
\* still waits for its client to close.
Begin(j) ==
  /\ job[j] = "off" /\ (\A k \in Job : k < j => job[k] # "off") /\ Goes(j, "diff")
  /\ service' = IF service = NoJob THEN j ELSE service
  /\ used' = [used EXCEPT ![j] = service']
  /\ info' = [info EXCEPT ![j] = [url |-> github, branch |-> on, diff |-> 0,
                                  commit |-> IF on \in Branch THEN head[on] ELSE 0]]
  /\ UNCHANGED <<repoVars, end, shut, told, started, historyVars, work>>

Refused(j) == job[j] = "diff" /\ Fails(j) /\ UNCHANGED work

\* _get_diff: nothing if git fails or takes too long.
Diff(j) ==
  /\ job[j] = "diff" /\ Usable(j)
  /\ info' = [info EXCEPT ![j].diff = IF dirty THEN 1 ELSE 0]
  /\ version' = [version EXCEPT ![j] = (IF on \in Branch THEN head[on] ELSE 0) + info'[j].diff]
  /\ IF info[j].branch = Detached
     THEN Leaves(j, "error") ELSE Goes(j, "fetch") /\ UNCHANGED <<end, shut, told>>
  /\ UNCHANGED <<repoVars, service, used, started, slipped, work>>

DiffFails(j) ==
  /\ job[j] = "diff" /\ Usable(j) /\ info[j].branch # Detached
  /\ Goes(j, "fetch") /\ slipped' = slipped \cup {j}
  /\ UNCHANGED <<repoVars, end, info, service, used, shut, told, started, version, work>>

\* _fetch: the refs of what origin has; the others stay.  When it fails, all do.
Fetched ==
  \/ UNCHANGED tracked
  \/ tracked' = [b \in Branch |-> IF remote[b] >= 0 THEN remote[b] ELSE tracked[b]]
Fetch(j) ==
  /\ job[j] = "fetch" /\ Usable(j) /\ Goes(j, "check") /\ Fetched
  /\ UNCHANGED <<head, on, dirty, remote, github, end, info, service, used, shut, told, started,
                 historyVars, work>>

\* Mutant: a commit on some branch of the remote is enough.
NeedsPushCommit(j) == ~OnRemote(tracked, info[j])

\* is_commit_pushed and is_branch_pushed.
NeedsPush(j) == ~OnRemote(tracked, info[j]) \/ (on \in Branch /\ tracked[on] < 0)

\* Either command may fail, which counts as "not pushed".  Counting the commits fetches again
\* and needs a branch.
Check(j) ==
  /\ job[j] = "check" /\ Usable(j)
  /\ \/ ~NeedsPush(j) /\ Goes(j, "start") /\ UNCHANGED <<tracked, end, shut, told>>
     \/ on \in Branch /\ Goes(j, "question") /\ Fetched /\ UNCHANGED <<end, shut, told>>
     \/ Leaves(j, "error") /\ Fetched
  /\ UNCHANGED <<head, on, dirty, remote, github, info, service, used, started, historyVars, work>>

\* _ask_push_approval: one question at a time.
Ask(j) ==
  /\ job[j] = "question" /\ \A k \in Job : job[k] # "asked"
  /\ Goes(j, "asked")
  /\ UNCHANGED <<repoVars, end, info, service, used, shut, told, started, historyVars, work>>

Approve(j) ==
  /\ job[j] = "asked" /\ Goes(j, "push")
  /\ UNCHANGED <<repoVars, end, info, service, used, shut, told, started, historyVars, work>>

Deny(j) == job[j] = "asked" /\ Fails(j) /\ UNCHANGED work

Pushes ==
  /\ remote' = [remote EXCEPT ![on] = head[on]] /\ tracked' = [tracked EXCEPT ![on] = head[on]]

\* push_current_branch: the branch that is checked out now.
Push(j) ==
  /\ job[j] = "push" /\ Usable(j) /\ on \in Branch /\ Pushes /\ Goes(j, "start")
  /\ UNCHANGED <<head, on, dirty, github, end, info, service, used, shut, told, started,
                 historyVars, work>>

\* The push is refused, or takes too long and lands all the same.
PushFails(j) ==
  /\ job[j] = "push" /\ Usable(j) /\ Leaves(j, "error")
  /\ \/ on \in Branch /\ Pushes
     \/ UNCHANGED <<remote, tracked>>
  /\ UNCHANGED <<head, on, dirty, github, info, service, used, started, historyVars, work>>

\* NuageClient.start.
Start(j) ==
  /\ job[j] = "start" /\ Usable(j) /\ Leaves(j, "done")
  /\ started' = [started EXCEPT ![j] = {info[j]}]
  /\ UNCHANGED <<repoVars, info, service, used, historyVars, work>>

\* The diff is too large, the request is refused, or its answer cannot be read: then the
\* session may be there.
StartFails(j) ==
  /\ job[j] = "start" /\ Usable(j) /\ Leaves(j, "error")
  /\ started' \in {started, [started EXCEPT ![j] = {info[j]}]}
  /\ UNCHANGED <<repoVars, info, service, used, historyVars, work>>

Broken(j) ==
  /\ job[j] \in {"diff", "fetch", "check", "push", "start"} /\ ~Usable(j)
  /\ Crashes(j) /\ UNCHANGED work

Next ==
  \/ Edit \/ Commit \/ Checkout \/ RemoteDeleted
  \/ \E j \in Job :
       \/ Begin(j) \/ Refused(j) \/ Diff(j) \/ DiffFails(j) \/ Fetch(j) \/ Check(j)
       \/ Ask(j) \/ Approve(j) \/ Deny(j) \/ Push(j) \/ PushFails(j)
       \/ Start(j) \/ StartFails(j) \/ Broken(j) \/ Closed(j)

-----------------------------------------------------------------------------
(* Properties *)

TypeOK ==
  /\ \A b \in Branch : head[b] \in 0..(MaxWork + 1) /\ {remote[b], tracked[b]} \subseteq -1..head[b]
  /\ on \in Branch \cup {Detached} /\ dirty \in BOOLEAN /\ work \in 0..MaxWork
  /\ service \in Job \cup {NoJob} /\ shut \subseteq Job
  /\ \A j \in Job :
       /\ job[j] \in {"off", "diff", "fetch", "check", "question", "asked", "push", "start",
                      "closing", "done", "error", "crashed"}
       /\ end[j] \in {"none", "done", "error", "crashed"}
       /\ told[j] \in {"none", "completed", "failed"} /\ started[j] \subseteq {info[j]}

\* A session starts from a commit origin has, with the branch, and from the workspace as it
\* was when the diff was taken, unless the repository moved on under the teleport.  That
\* the first GitHub remote is origin, and that no branch of it was deleted behind the refs,
\* is taken for granted by the code, so here as well.
WorkCarriedOver ==
  \A j \in Job \ slipped : \A i \in started[j] :
    /\ i.url = "origin" /\ Gone = {} => OnRemote(remote, i) /\ remote[i.branch] >= 0
    /\ i.commit + i.diff = version[j]

\* The service of the loop is shut only while one that uses it closes it; a teleport that is
\* over was reported once, as what it was, and fails unexpectedly only if another one with
\* the same service ended, or closed it, before it did.
ServiceFresh ==
  /\ service \in shut => \E j \in Job : used[j] = service /\ job[j] = "closing"
  /\ \A j \in Job :
       /\ told[j] = CASE end[j] = "done" -> "completed"
                      [] Ended(j) /\ end[j] # "done" -> "failed"
                      [] OTHER -> "none"
       /\ told[j] = "completed" => started[j] # {}
       /\ end[j] = "crashed" =>
            \E k \in Job \ {j} : used[k] = used[j] /\ (Ended(k) \/ job[k] = "closing")

TeleportSpec == Init /\ [][Next]_teleportVars
=============================================================================
