--------------------------- MODULE SessionLogProofs ---------------------------
(***************************************************************************)
(* Theorems about SessionLog for any number of savers and patchers and any *)
(* bounds.  First its type invariant, and that the metadata never counts   *)
(* more messages than messages.jsonl holds: this needs what each writer    *)
(* carries across its awaits, that the total it read is within the file    *)
(* and the total it will set within the file and the lines it has left.    *)
(* Then that no message a save covered is ever missing, from the log or    *)
(* from the history: every total, in the metadata or in a writer's hands,  *)
(* counts only messages of the history that are in the file.  Last that    *)
(* the log is exact while writers come one after the other.                *)
(***************************************************************************)
EXTENDS SessionLog, TLAPS

\* The total a writer has read is within the file ...
ReadWithinFile == \A w \in Writers : pc[w] = "reading" => base[w] <= Len(file)

\* ... and the one a saver will set is within the file once its lines are there.
GoalReachable ==
  \A w \in Writers : pc[w] = "writing" => goal[w] <= Len(file) + Len(rest[w])

\* The history only grows while a save is under way.
GoalInHistory == \A w \in Writers : pc[w] = "writing" => goal[w] <= Len(history)

\* Nobody writes while the process is down.
IdleWhenDown == ~up => \A w \in Writers : pc[w] = "idle"

IInv == TypeOK /\ CountWithinFile /\ ReadWithinFile /\ GoalReachable /\ GoalInHistory

USE DEF Msg, None, Writers

\* Every subsequence that ends with the sequence has its type and its length.
LEMMA SuffixOfSeq ==
  ASSUME NEW S, NEW s \in Seq(S), NEW n \in Nat
  PROVE  /\ SubSeq(s, n + 1, Len(s)) \in Seq(S)
         /\ n < Len(s) => Len(SubSeq(s, n + 1, Len(s))) = Len(s) - n
  OBVIOUS

\* A prefix of a sequence has its type.
LEMMA PrefixOfSeq ==
  ASSUME NEW S, NEW s \in Seq(S), NEW n \in 0..Len(s)
  PROVE  SubSeq(s, 1, n) \in Seq(S)
  OBVIOUS

\* Inserting an element keeps the type.
LEMMA InsertInSeq ==
  ASSUME NEW S, NEW s \in Seq(S), NEW i \in 1..Len(s), NEW e \in S
  PROVE  InsertAt(s, i, e) \in Seq(S) /\ Len(InsertAt(s, i, e)) = Len(s) + 1
<1>1. SubSeq(s, 1, i - 1) \in Seq(S)
  BY PrefixOfSeq
<1>2. SubSeq(s, i, Len(s)) \in Seq(S)
  OBVIOUS
<1> QED
  BY <1>1, <1>2 DEF InsertAt

\* The values of a sequence are of its type.
LEMMA RangeInType ==
  ASSUME NEW S, NEW s \in Seq(S)
  PROVE  Range(s) \subseteq S
  BY DEF Range

\* The empty sequence has every type.
LEMMA Nil ==
  ASSUME NEW S
  PROVE  <<>> \in Seq(S) /\ Len(<<>>) = 0
  OBVIOUS

\* The initial states satisfy the inductive invariant.
LEMMA InitInv == Init => IInv /\ IdleWhenDown
<1> SUFFICES ASSUME Init PROVE IInv /\ IdleWhenDown
  OBVIOUS
<1>1. TypeOK
  <2>1. /\ history \in Seq(Msg) /\ file \in Seq(Msg)
        /\ rest \in [Writers -> Seq(Msg)]
    BY Nil DEF Init
  <2>2. /\ created \in 0..MaxMsgs /\ faults \in 0..MaxFaults
        /\ total \in Nat \cup {None}
        /\ base \in [Writers -> Nat] /\ goal \in [Writers -> Nat]
    BY BoundsAssumption DEF Init
  <2>3. /\ placeholders \in SUBSET Msg /\ confirmed \in SUBSET Msg
        /\ resetting \in SUBSET Savers /\ pc \in [Writers -> Steps]
    BY DEF Init, Steps
  <2>4. up \in BOOLEAN /\ overlapped \in BOOLEAN
    BY DEF Init
  <2> QED
    BY <2>1, <2>2, <2>3, <2>4 DEF TypeOK
<1>2. CountWithinFile /\ ReadWithinFile /\ GoalReachable /\ GoalInHistory
      /\ IdleWhenDown
  BY DEF Init, CountWithinFile, ReadWithinFile, GoalReachable, GoalInHistory,
         IdleWhenDown
<1> QED
  BY <1>1, <1>2 DEF IInv

\* The history in memory does not concern the directory.
LEMMA MemoryStep ==
  ASSUME IInv, AppendMessage \/ \E i \in 1..MaxMsgs : Repair(i)
  PROVE  IInv'
<1> USE DEF IInv, TypeOK
<1>1. created' \in 0..MaxMsgs /\ created' \in Msg
  BY BoundsAssumption DEF AppendMessage, Repair
<1>2. history' \in Seq(Msg) /\ Len(history') = Len(history) + 1
  <2>1. CASE AppendMessage
    BY <2>1, <1>1 DEF AppendMessage
  <2>2. ASSUME NEW i \in 1..MaxMsgs, Repair(i)
        PROVE  history' \in Seq(Msg) /\ Len(history') = Len(history) + 1
    <3>1. i \in 1..Len(history) /\ history' = InsertAt(history, i, created')
      BY <2>2 DEF Repair
    <3>2. history \in Seq(Msg)
      OBVIOUS
    <3> HIDE DEF IInv, TypeOK, Msg
    <3> QED
      BY <3>1, <3>2, <1>1, InsertInSeq
  <2> QED
    BY <2>1, <2>2
<1>3. /\ placeholders' \in SUBSET Msg /\ faults' \in 0..MaxFaults
  <2>1. faults' \in {faults, faults + 1} /\ (faults' = faults \/ faults < MaxFaults)
    BY DEF AppendMessage, Repair
  <2>2. placeholders' \in {placeholders, placeholders \cup {created'}}
    BY DEF AppendMessage, Repair
  <2> QED
    BY <2>1, <2>2, <1>1, BoundsAssumption
<1>4. UNCHANGED <<up, file, total, pc, base, rest, goal, resetting, confirmed, overlapped>>
  BY DEF AppendMessage, Repair, diskVars, writerVars
<1> QED
  BY <1>1, <1>2, <1>3, <1>4
  DEF CountWithinFile, ReadWithinFile, GoalReachable, GoalInHistory

\* A save that slices beyond a count within the file can set what it plans to.
LEMMA PlanEffect ==
  ASSUME IInv, NEW w \in Savers, NEW n \in Nat, n <= Len(file), Plan(w, n),
         UNCHANGED <<file, history>>
  PROVE  /\ pc' \in [Writers -> Steps] /\ rest' \in [Writers -> Seq(Msg)]
         /\ goal' \in [Writers -> Nat]
         /\ GoalReachable' /\ GoalInHistory'
         /\ \A v \in Writers : pc'[v] = "reading" => pc[v] = "reading" /\ v # w
<1> USE DEF IInv, TypeOK, Plan, Slice, After, Steps
<1>1. SubSeq(history, n + 1, Len(history)) \in Seq(Msg)
  BY SuffixOfSeq
<1>2. Len(history) > n => Len(SubSeq(history, n + 1, Len(history))) = Len(history) - n
  BY SuffixOfSeq
<1>3. /\ pc' \in [Writers -> Steps] /\ rest' \in [Writers -> Seq(Msg)]
      /\ goal' \in [Writers -> Nat]
  BY <1>1
<1>4. \A v \in Writers : pc'[v] = "reading" => pc[v] = "reading" /\ v # w
  OBVIOUS
<1>5. ASSUME NEW v \in Writers, pc'[v] = "writing"
      PROVE  goal'[v] <= Len(file) + Len(rest'[v]) /\ goal'[v] <= Len(history)
  <2>1. CASE v = w
    BY <2>1, <1>2, <1>5
  <2>2. CASE v # w
    BY <2>2, <1>5 DEF GoalReachable, GoalInHistory
  <2> QED
    BY <2>1, <2>2
<1> QED
  BY <1>3, <1>4, <1>5 DEF GoalReachable, GoalInHistory

\* A line written is one line more in the file and at most one less to write.
LEMMA LineMoves ==
  ASSUME NEW g \in Nat, NEW f \in Nat, NEW r \in Nat, g <= f + r,
         NEW g2, NEW f2, NEW r2, g2 = g, f2 = f + 1, r2 = r \/ r2 = r - 1
  PROVE  g2 <= f2 + r2
  OBVIOUS

\* The steps of save_interaction.
LEMMA SaveStep ==
  ASSUME IInv, NEW w \in Savers, Save(w)
  PROVE  IInv'
<1> USE DEF IInv
<1>1. ASSUME NEW reset \in BOOLEAN, StartSave(w, reset) PROVE IInv'
  <2>0. /\ UNCHANGED <<history, created, placeholders, up, file, total, confirmed, faults>>
        /\ resetting' \in SUBSET Savers /\ overlapped' \in BOOLEAN
    BY <1>1 DEF StartSave, Overlap, memVars, diskVars, TypeOK
  <2>1. CASE total = None
    <3>1. Plan(w, 0) /\ UNCHANGED base
      BY <1>1, <2>1 DEF StartSave
    <3>2. 0 <= Len(file)
      BY DEF TypeOK
    <3> QED
      BY <3>1, <3>2, <2>0, PlanEffect DEF TypeOK, CountWithinFile, ReadWithinFile
  <2>2. CASE total # None
    BY <1>1, <2>2, <2>0
    DEF StartSave, TypeOK, Steps, CountWithinFile, ReadWithinFile, GoalReachable,
        GoalInHistory
  <2> QED
    BY <2>1, <2>2
<1>2. CASE PlanSave(w)
  <2>1. base[w] \in Nat /\ base[w] <= Len(file)
    BY <1>2 DEF PlanSave, TypeOK, ReadWithinFile
  <2>2. Plan(w, base[w])
    BY <1>2 DEF PlanSave
  <2>3. UNCHANGED <<history, created, placeholders, up, file, total, base, resetting,
                    confirmed, faults, overlapped>>
    BY <1>2 DEF PlanSave, memVars, diskVars
  <2> QED
    BY <2>1, <2>2, <2>3, PlanEffect DEF TypeOK, CountWithinFile, ReadWithinFile
<1>3. CASE WriteLine(w)
  <2>1. /\ Head(rest[w]) \in Msg /\ Tail(rest[w]) \in Seq(Msg)
        /\ Len(Tail(rest[w])) = Len(rest[w]) - 1
    <3>1. rest[w] \in Seq(Msg) /\ rest[w] # <<>>
      BY <1>3 DEF WriteLine, TypeOK
    <3> HIDE DEF Msg
    <3> QED
      BY <3>1
  <2>2. /\ file' \in Seq(Msg) /\ Len(file') = Len(file) + 1
        /\ rest' \in [Writers -> Seq(Msg)]
        /\ rest'[w] = Tail(rest[w])
        /\ \A v \in Writers : v # w => rest'[v] = rest[v]
    BY <1>3, <2>1 DEF WriteLine, TypeOK
  <2>3. UNCHANGED <<history, created, placeholders, up, total, pc, base, goal,
                    resetting, confirmed, faults, overlapped>>
    BY <1>3 DEF WriteLine, memVars
  <2>4. GoalReachable'
    <3> SUFFICES ASSUME NEW v \in Writers, pc[v] = "writing"
                 PROVE  goal[v] <= Len(file') + Len(rest'[v])
      BY <2>3 DEF GoalReachable
    <3>1. goal[v] <= Len(file) + Len(rest[v])
      BY DEF GoalReachable
    <3>2. goal[v] \in Nat /\ Len(file) \in Nat /\ Len(rest[v]) \in Nat
      BY DEF TypeOK
    <3> HIDE DEF IInv, Msg, None, Writers
    <3>3. Len(rest'[w]) = Len(rest[w]) - 1 /\ Len(file') = Len(file) + 1
      BY <2>1, <2>2
    <3>4. v # w => rest'[v] = rest[v]
      BY <2>2
    <3>5. Len(rest'[v]) = Len(rest[v]) \/ Len(rest'[v]) = Len(rest[v]) - 1
      BY <3>3, <3>4
    <3>6. Len(file') = Len(file) + 1
      BY <3>3
    <3> QED
      BY <3>1, <3>2, <3>5, <3>6, LineMoves
  <2>5. CountWithinFile' /\ ReadWithinFile' /\ GoalInHistory'
    BY <2>2, <2>3 DEF TypeOK, CountWithinFile, ReadWithinFile, GoalInHistory
  <2>6. TypeOK'
    BY <2>2, <2>3 DEF TypeOK
  <2> QED
    BY <2>4, <2>5, <2>6
<1>4. CASE Commit(w)
  <2>1. goal[w] \in Nat /\ goal[w] <= Len(file)
    BY <1>4 DEF Commit, GoalReachable, TypeOK
  <2>2. pc' \in [Writers -> Steps] /\ total' \in Nat \cup {None}
    BY <1>4, <2>1 DEF Commit, After, Steps, TypeOK
  <2>3. UNCHANGED <<history, created, placeholders, up, file, base, rest, goal,
                    resetting, faults, overlapped>>
    BY <1>4 DEF Commit, memVars
  <2>4. confirmed' \in SUBSET Msg
    <3>1. goal[w] \in 0..Len(history)
      BY <1>4, <2>1 DEF Commit, GoalInHistory, TypeOK
    <3>2. Range(SubSeq(history, 1, goal[w])) \subseteq Msg
      BY <3>1, PrefixOfSeq, RangeInType DEF TypeOK
    <3> QED
      BY <1>4, <3>2 DEF Commit, TypeOK
  <2>5. CountWithinFile' /\ ReadWithinFile' /\ GoalReachable' /\ GoalInHistory'
    BY <1>4, <2>1, <2>3
    DEF Commit, After, TypeOK, CountWithinFile, ReadWithinFile, GoalReachable,
        GoalInHistory
  <2> QED
    BY <2>2, <2>3, <2>4, <2>5 DEF TypeOK
<1> QED
  BY <1>1, <1>2, <1>3, <1>4 DEF Save

\* clear_history, compact and rewind_to_message move to an empty directory.
LEMMA ResetStep ==
  ASSUME IInv, NEW w \in Savers, NEW n \in 0..Len(history), Reset(w, n)
  PROVE  IInv'
<1>1. history' \in Seq(Msg)
  BY PrefixOfSeq DEF Reset, IInv, TypeOK
<1>2. /\ file' = <<>> /\ total' = None /\ confirmed' = {} /\ resetting' = {}
      /\ pc' = [v \in Writers |-> "idle"] /\ rest' = [v \in Writers |-> <<>>]
      /\ UNCHANGED <<created, placeholders, up, base, goal, overlapped>>
  BY DEF Reset
<1>3. faults' \in 0..MaxFaults
  BY BoundsAssumption DEF Reset, IInv, TypeOK
<1> QED
  BY <1>1, <1>2, <1>3
  DEF IInv, TypeOK, Steps, CountWithinFile, ReadWithinFile, GoalReachable, GoalInHistory

\* The steps of persist_loops and persist_experiments.
LEMMA PatchStep ==
  ASSUME IInv, NEW w \in Patchers, StartPatch(w) \/ CommitPatch(w)
  PROVE  IInv'
<1>1. CASE StartPatch(w)
  BY <1>1
  DEF StartPatch, Overlap, memVars, diskVars, IInv, TypeOK, Steps, CountWithinFile,
      ReadWithinFile, GoalReachable, GoalInHistory
<1>2. CASE CommitPatch(w)
  BY <1>2
  DEF CommitPatch, memVars, IInv, TypeOK, Steps, CountWithinFile, ReadWithinFile,
      GoalReachable, GoalInHistory
<1> QED
  BY <1>1, <1>2

\* Interrupts, crashes and restarts.
LEMMA FaultStep ==
  ASSUME IInv, IdleWhenDown,
         (\E w \in Writers : Interrupt(w)) \/ Crash \/ Load \/ StartOver
  PROVE  IInv'
<1> USE DEF IInv, TypeOK, Steps
<1>1. ASSUME NEW w \in Writers, Interrupt(w) PROVE IInv'
  BY <1>1, BoundsAssumption
  DEF Interrupt, memVars, diskVars, CountWithinFile, ReadWithinFile, GoalReachable,
      GoalInHistory
<1>2. CASE Crash
  <2>1. /\ history' = <<>> /\ up' = FALSE /\ resetting' = {}
        /\ pc' = [w \in Writers |-> "idle"] /\ rest' = [w \in Writers |-> <<>>]
        /\ UNCHANGED <<created, placeholders, file, total, base, goal, confirmed, overlapped>>
    BY <1>2 DEF Crash, diskVars
  <2>2. history' \in Seq(Msg) /\ rest' \in [Writers -> Seq(Msg)]
    BY <2>1, Nil
  <2>3. faults' \in 0..MaxFaults
    BY <1>2, BoundsAssumption DEF Crash
  <2>4. CountWithinFile' /\ ReadWithinFile' /\ GoalReachable' /\ GoalInHistory'
    BY <2>1 DEF CountWithinFile, ReadWithinFile, GoalReachable, GoalInHistory
  <2> QED
    BY <2>1, <2>2, <2>3, <2>4
<1>3. CASE Load
  <2>1. /\ history' = file /\ up' = TRUE
        /\ UNCHANGED <<created, placeholders, file, total, pc, base, rest, goal,
                       resetting, confirmed, faults, overlapped>>
    BY <1>3 DEF Load, diskVars, writerVars
  <2>2. CountWithinFile' /\ ReadWithinFile' /\ GoalReachable'
    BY <2>1 DEF CountWithinFile, ReadWithinFile, GoalReachable
  <2>3. GoalInHistory'
    BY <1>3, <2>1 DEF Load, IdleWhenDown, GoalInHistory
  <2> QED
    BY <2>1, <2>2, <2>3
<1>4. CASE StartOver
  <2>1. /\ file' = <<>> /\ total' = None /\ up' = TRUE /\ confirmed' = {}
        /\ UNCHANGED <<history, created, placeholders, pc, base, rest, goal,
                       resetting, faults, overlapped>>
    BY <1>4 DEF StartOver, memVars, writerVars
  <2>2. \A w \in Writers : pc'[w] = "idle"
    BY <1>4, <2>1 DEF StartOver, IdleWhenDown
  <2>3. CountWithinFile' /\ ReadWithinFile' /\ GoalReachable' /\ GoalInHistory'
    BY <2>1, <2>2 DEF CountWithinFile, ReadWithinFile, GoalReachable, GoalInHistory
  <2>4. file' \in Seq(Msg)
    BY <2>1, Nil
  <2> QED
    BY <2>1, <2>2, <2>3, <2>4
<1> QED
  BY <1>1, <1>2, <1>3, <1>4

\* Every step preserves the inductive invariant.
LEMMA NextInv == IInv /\ IdleWhenDown /\ [Next]_vars => IInv'
<1> SUFFICES ASSUME IInv, IdleWhenDown, [Next]_vars PROVE IInv'
  OBVIOUS
<1>1. CASE UNCHANGED vars
  BY <1>1
  DEF vars, memVars, diskVars, writerVars, IInv, TypeOK, CountWithinFile,
      ReadWithinFile, GoalReachable, GoalInHistory
<1>2. CASE Next
  BY <1>2, MemoryStep, SaveStep, ResetStep, PatchStep, FaultStep DEF Next
<1> QED
  BY <1>1, <1>2

\* A writer leaves its idle state only while the process runs.
LEMMA IdleStep == TypeOK /\ IdleWhenDown /\ [Next]_vars => IdleWhenDown'
<1> SUFFICES ASSUME TypeOK, IdleWhenDown, Next \/ UNCHANGED vars PROVE IdleWhenDown'
  OBVIOUS
<1> USE DEF TypeOK, IdleWhenDown
<1>1. ASSUME AppendMessage \/ \E i \in 1..MaxMsgs : Repair(i) PROVE IdleWhenDown'
  BY <1>1 DEF AppendMessage, Repair, writerVars
<1>2. ASSUME NEW w \in Savers, Save(w) PROVE IdleWhenDown'
  BY <1>2 DEF Save, StartSave, PlanSave, WriteLine, Commit, Busy
<1>3. ASSUME NEW w \in Savers, NEW n \in 0..Len(history), Reset(w, n) PROVE IdleWhenDown'
  BY <1>3 DEF Reset
<1>4. ASSUME NEW w \in Patchers, StartPatch(w) \/ CommitPatch(w) PROVE IdleWhenDown'
  BY <1>4 DEF StartPatch, CommitPatch, Busy
<1>5. ASSUME NEW w \in Writers, Interrupt(w) PROVE IdleWhenDown'
  BY <1>5 DEF Interrupt
<1>6. ASSUME Crash \/ Load \/ StartOver PROVE IdleWhenDown'
  BY <1>6 DEF Crash, Load, StartOver
<1>7. ASSUME UNCHANGED vars PROVE IdleWhenDown'
  BY <1>7 DEF vars, writerVars
<1> QED
  BY <1>1, <1>2, <1>3, <1>4, <1>5, <1>6, <1>7 DEF Next

\* The invariant of the counts holds throughout, and nobody writes while the process is down.
THEOREM Invariance == Spec => [](IInv /\ IdleWhenDown)
<1>1. IInv => TypeOK
  BY DEF IInv
<1> QED
  BY <1>1, InitInv, NextInv, IdleStep, PTL DEF Spec

\* The type invariant, for every number of writers and every bound.
THEOREM TypeCorrect == Spec => []TypeOK
<1>1. IInv => TypeOK
  BY DEF IInv
<1> QED
  BY <1>1, Invariance, PTL

\* The metadata of a session never counts more messages than its file holds,
\* however many savers and patchers overlap, are interrupted or killed: what a
\* resumed session slices from never skips a line that was not written.
THEOREM CountNeverAhead == Spec => []CountWithinFile
<1>1. IInv => CountWithinFile
  BY DEF IInv
<1> QED
  BY <1>1, Invariance, PTL

-----------------------------------------------------------------------------
(* What a save has covered *)

HIDE DEF Msg, None, Writers

\* The first n messages of h are among those of S.
Covered(h, n, S) == \A i \in DOMAIN h : i <= n => h[i] \in S

\* The messages the log is not to lose, or holds.
Safe == placeholders \cup Range(file)

\* The totals, in the metadata and those writers have read, count messages that are
\* in the file; so does the one a saver will set, once its lines are there.
TotalsKept ==
  /\ total # None => Covered(history, total, Safe)
  /\ \A w \in Writers : pc[w] = "reading" => Covered(history, base[w], Safe)
  /\ \A w \in Writers : pc[w] = "writing" =>
        Covered(history, goal[w], Safe \cup Range(rest[w]))

\* While the process runs they count messages it has; when it is down it has none.
TotalsInHistory ==
  /\ up /\ total # None => total <= Len(history)
  /\ \A w \in Writers : pc[w] = "reading" => base[w] <= Len(history)
  /\ ~up => history = <<>>

DInv == TotalsKept /\ TotalsInHistory /\ ConfirmedOnDisk /\ ConfirmedInMemory

\* An appended element is one value more.
LEMMA RangeAppend ==
  ASSUME NEW S, NEW s \in Seq(S), NEW e \in S
  PROVE  Range(Append(s, e)) = Range(s) \cup {e}
<1>1. \A i \in DOMAIN s : Append(s, e)[i] = s[i]
  OBVIOUS
<1>2. Append(s, e)[Len(s) + 1] = e /\ DOMAIN Append(s, e) = 1..Len(s) + 1 /\ DOMAIN s = 1..Len(s)
  OBVIOUS
<1> QED
  BY <1>1, <1>2 DEF Range

\* The values of a sequence that is not empty are its head's and its tail's.
LEMMA RangeTail ==
  ASSUME NEW S, NEW s \in Seq(S), s # <<>>
  PROVE  Range(s) = Range(Tail(s)) \cup {Head(s)}
<1>1. /\ DOMAIN s = 1..Len(s) /\ DOMAIN Tail(s) = 1..Len(s) - 1 /\ Len(s) \in Nat /\ Len(s) > 0
      /\ Head(s) = s[1] /\ \A i \in 1..Len(s) - 1 : Tail(s)[i] = s[i + 1]
  OBVIOUS
<1>2. ASSUME NEW i \in DOMAIN s PROVE s[i] \in Range(Tail(s)) \cup {Head(s)}
  <2>1. CASE i = 1
    BY <1>1, <2>1
  <2>2. CASE i # 1
    <3>1. i - 1 \in DOMAIN Tail(s) /\ Tail(s)[i - 1] = s[i]
      BY <1>1, <2>2
    <3> QED
      BY <3>1 DEF Range
  <2> QED
    BY <2>1, <2>2
<1>3. ASSUME NEW i \in DOMAIN Tail(s) PROVE Tail(s)[i] \in Range(s)
  BY <1>1 DEF Range
<1>4. Head(s) \in Range(s)
  BY <1>1 DEF Range
<1> QED
  BY <1>2, <1>3, <1>4 DEF Range

\* What lies beyond the first n is in the slice beyond n.
LEMMA RangeSuffix ==
  ASSUME NEW S, NEW s \in Seq(S), NEW n \in Nat, NEW i \in DOMAIN s, i > n
  PROVE  s[i] \in Range(SubSeq(s, n + 1, Len(s)))
<1>1. /\ i - n \in DOMAIN SubSeq(s, n + 1, Len(s))
      /\ SubSeq(s, n + 1, Len(s))[i - n] = s[i]
  OBVIOUS
<1> QED
  BY <1>1 DEF Range

\* What is in the slice of the first n is in the sequence.
LEMMA RangePrefix ==
  ASSUME NEW S, NEW s \in Seq(S), NEW n \in 0..Len(s), NEW e \in Range(SubSeq(s, 1, n))
  PROVE  \E i \in DOMAIN s : i <= n /\ s[i] = e
<1>1. PICK i \in DOMAIN SubSeq(s, 1, n) : SubSeq(s, 1, n)[i] = e
  BY DEF Range
<1>2. i \in 1..n /\ s[i] = e
  BY <1>1
<1> QED
  BY <1>2

\* An insertion keeps every value, and puts no value nearer to the beginning.
LEMMA InsertKeeps ==
  ASSUME NEW S, NEW s \in Seq(S), NEW p \in 1..Len(s), NEW e \in S
  PROVE  /\ Range(s) \subseteq Range(InsertAt(s, p, e))
         /\ \A i \in DOMAIN InsertAt(s, p, e) :
               \/ InsertAt(s, p, e)[i] = e
               \/ \E k \in DOMAIN s : k <= i /\ InsertAt(s, p, e)[i] = s[k]
<1> DEFINE t == InsertAt(s, p, e)
<1>1. /\ DOMAIN s = 1..Len(s) /\ DOMAIN t = 1..Len(s) + 1
      /\ \A i \in 1..p - 1 : t[i] = s[i]
      /\ t[p] = e
      /\ \A i \in p + 1..Len(s) + 1 : t[i] = s[i - 1]
  BY DEF InsertAt
<1> HIDE DEF t
<1>2. ASSUME NEW i \in DOMAIN s PROVE s[i] \in Range(t)
  <2>1. CASE i < p
    BY <1>1, <2>1 DEF Range
  <2>2. CASE i >= p
    <3>1. i + 1 \in DOMAIN t /\ t[i + 1] = s[i]
      BY <1>1, <2>2
    <3> QED
      BY <3>1 DEF Range
  <2> QED
    BY <1>1, <2>1, <2>2
<1>3. ASSUME NEW i \in DOMAIN t, t[i] # e
      PROVE  \E k \in DOMAIN s : k <= i /\ t[i] = s[k]
  <2>1. CASE i < p
    BY <1>1, <2>1
  <2>2. CASE i > p
    <3>1. i - 1 \in DOMAIN s /\ i - 1 <= i /\ t[i] = s[i - 1]
      BY <1>1, <2>2
    <3> QED
      BY <3>1
  <2> QED
    BY <1>1, <1>3, <2>1, <2>2
<1> QED
  BY <1>2, <1>3 DEF t, Range

\* More than what covers a prefix covers it too, and the same history is covered alike.
LEMMA CoveredMore ==
  ASSUME NEW h, NEW n, NEW S, Covered(h, n, S), NEW T, S \subseteq T
  PROVE  Covered(h, n, T)
  BY DEF Covered

\* A message appended lies past everything that is counted.
LEMMA CoveredAppend ==
  ASSUME NEW M, NEW h \in Seq(M), NEW e \in M, NEW n \in Nat, n <= Len(h), NEW S,
         Covered(h, n, S)
  PROVE  Covered(Append(h, e), n, S)
<1>1. \A i \in DOMAIN Append(h, e) : i <= n => i \in DOMAIN h /\ Append(h, e)[i] = h[i]
  OBVIOUS
<1> QED
  BY <1>1 DEF Covered

\* A message inserted only pushes others back.
LEMMA CoveredInsert ==
  ASSUME NEW M, NEW h \in Seq(M), NEW p \in 1..Len(h), NEW e \in M, NEW n \in Nat,
         NEW S, Covered(h, n, S), NEW T, S \cup {e} \subseteq T
  PROVE  Covered(InsertAt(h, p, e), n, T)
<1> SUFFICES ASSUME NEW i \in DOMAIN InsertAt(h, p, e), i <= n, InsertAt(h, p, e)[i] # e
             PROVE  InsertAt(h, p, e)[i] \in S
  BY DEF Covered
<1>1. PICK k \in DOMAIN h : k <= i /\ InsertAt(h, p, e)[i] = h[k]
  BY InsertKeeps
<1>2. i \in Int /\ k \in Int
  BY InsertInSeq
<1>3. k <= n
  BY <1>1, <1>2
<1> QED
  BY <1>1, <1>3 DEF Covered

\* Beyond what is covered, the slice covers the rest.
LEMMA CoveredSlice ==
  ASSUME NEW M, NEW h \in Seq(M), NEW n \in Nat, NEW S, Covered(h, n, S)
  PROVE  Covered(h, Len(h), S \cup Range(SubSeq(h, n + 1, Len(h))))
<1> SUFFICES ASSUME NEW i \in DOMAIN h
             PROVE  h[i] \in S \cup Range(SubSeq(h, n + 1, Len(h)))
  BY DEF Covered
<1>1. CASE i <= n
  BY <1>1 DEF Covered
<1>2. CASE i > n
  BY <1>2, RangeSuffix
<1> QED
  BY <1>1, <1>2

\* The values of a covered prefix.
LEMMA CoveredPrefix ==
  ASSUME NEW M, NEW h \in Seq(M), NEW n \in 0..Len(h), NEW S, Covered(h, n, S)
  PROVE  Range(SubSeq(h, 1, n)) \subseteq S \cap Range(h)
<1> SUFFICES ASSUME NEW e \in Range(SubSeq(h, 1, n)) PROVE e \in S \cap Range(h)
  OBVIOUS
<1>1. PICK i \in DOMAIN h : i <= n /\ h[i] = e
  BY RangePrefix
<1> QED
  BY <1>1 DEF Covered, Range

\* A sequence covers itself, and nothing need cover the empty one.
LEMMA CoveredSelf ==
  ASSUME NEW h, NEW n, NEW S, Range(h) \subseteq S
  PROVE  Covered(h, n, S) /\ Range(<<>>) = {} /\ Covered(<<>>, n, S)
<1>1. DOMAIN <<>> = {}
  OBVIOUS
<1> QED
  BY <1>1 DEF Covered, Range

\* The types the steps below need.
DTypes ==
  /\ history \in Seq(Msg) /\ file \in Seq(Msg) /\ total \in Nat \cup {None}
  /\ pc \in [Writers -> Steps] /\ base \in [Writers -> Nat]
  /\ rest \in [Writers -> Seq(Msg)] /\ goal \in [Writers -> Nat]
  /\ GoalInHistory /\ CountWithinFile

\* They follow from the inductive invariant.
LEMMA TypesHold == IInv => DTypes
  BY DEF IInv, TypeOK, DTypes

\* The history grows at its end, past everything that is counted.
LEMMA AppendKeeps ==
  ASSUME DTypes, DInv, created' \in Msg, AppendMessage
  PROVE  DInv'
<1> USE DEF DInv
<1>1. /\ history' = Append(history, created') /\ up
      /\ UNCHANGED <<placeholders, up, file, total, pc, base, rest, goal, confirmed>>
  BY DEF AppendMessage, diskVars, writerVars
<1>2. history \in Seq(Msg) /\ Safe' = Safe
  BY <1>1 DEF DTypes, Safe
<1>3. Len(history') = Len(history) + 1 /\ Len(history) \in Nat
  BY <1>1, <1>2
<1>4. ASSUME NEW n \in Nat, n <= Len(history), NEW S, Covered(history, n, S)
      PROVE  Covered(history', n, S)
  BY <1>1, <1>2, <1>4, CoveredAppend
<1>5. TotalsKept'
  <2>1. ASSUME total # None PROVE Covered(history', total, Safe)
    BY <1>1, <1>4, <2>1 DEF DTypes, TotalsKept, TotalsInHistory
  <2>2. ASSUME NEW w \in Writers, pc[w] = "reading" PROVE Covered(history', base[w], Safe)
    BY <1>4, <2>2 DEF DTypes, TotalsKept, TotalsInHistory
  <2>3. ASSUME NEW w \in Writers, pc[w] = "writing"
        PROVE  Covered(history', goal[w], Safe \cup Range(rest[w]))
    BY <1>4, <2>3 DEF DTypes, TotalsKept, GoalInHistory
  <2> QED
    BY <1>1, <1>2, <2>1, <2>2, <2>3 DEF TotalsKept
<1>6. TotalsInHistory'
  BY <1>1, <1>3 DEF TotalsInHistory, DTypes
<1>7. Range(history') = Range(history) \cup {created'}
  BY <1>1, <1>2, RangeAppend
<1> QED
  BY <1>1, <1>5, <1>6, <1>7 DEF ConfirmedOnDisk, ConfirmedInMemory

\* An answer inserted inside the history only pushes messages back.
LEMMA RepairKeeps ==
  ASSUME DTypes, DInv, created' \in Msg, NEW p, Repair(p)
  PROVE  DInv'
<1> USE DEF DInv
<1>1. /\ history' = InsertAt(history, p, created') /\ up
      /\ p \in 1..Len(history) /\ placeholders' = placeholders \cup {created'}
      /\ UNCHANGED <<up, file, total, pc, base, rest, goal, confirmed>>
  BY DEF Repair, diskVars, writerVars
<1>2. history \in Seq(Msg) /\ Safe' = Safe \cup {created'}
  BY <1>1 DEF DTypes, Safe
<1>3. Len(history') = Len(history) + 1 /\ Len(history) \in Nat
  BY <1>1, <1>2, InsertInSeq
<1>4. ASSUME NEW n \in Nat, NEW S, Covered(history, n, S), NEW T, S \cup {created'} \subseteq T
      PROVE  Covered(history', n, T)
  BY <1>1, <1>2, <1>4, CoveredInsert
<1>5. TotalsKept'
  <2>1. ASSUME total # None PROVE Covered(history', total, Safe')
    BY <1>2, <1>4, <2>1 DEF DTypes, TotalsKept
  <2>2. ASSUME NEW w \in Writers, pc[w] = "reading" PROVE Covered(history', base[w], Safe')
    BY <1>2, <1>4, <2>2 DEF DTypes, TotalsKept
  <2>3. ASSUME NEW w \in Writers, pc[w] = "writing"
        PROVE  Covered(history', goal[w], Safe' \cup Range(rest[w]))
    <3>1. Covered(history, goal[w], Safe \cup Range(rest[w])) /\ goal[w] \in Nat
      BY <2>3 DEF DTypes, TotalsKept
    <3>2. (Safe \cup Range(rest[w])) \cup {created'} \subseteq Safe' \cup Range(rest[w])
      BY <1>2
    <3> QED
      BY <1>4, <3>1, <3>2
  <2> QED
    BY <1>1, <2>1, <2>2, <2>3 DEF TotalsKept
<1>6. TotalsInHistory'
  BY <1>1, <1>3 DEF TotalsInHistory, DTypes
<1>7. Range(history) \subseteq Range(history')
  BY <1>1, <1>2, InsertKeeps
<1> QED
  BY <1>1, <1>5, <1>6, <1>7 DEF ConfirmedOnDisk, ConfirmedInMemory

\* A saver that slices beyond a count of kept messages carries the others.
LEMMA PlanKeeps ==
  ASSUME DTypes, DInv, NEW w \in Writers, NEW n \in Nat, Covered(history, n, Safe),
         Plan(w, n), UNCHANGED <<history, placeholders, up, file, total, base, confirmed>>
  PROVE  DInv'
<1> USE DEF DInv
<1>1. /\ \A v \in Writers : pc'[v] = "reading" => pc[v] = "reading"
      /\ \A v \in Writers : pc'[v] = "writing" =>
            v = w \/ (pc[v] = "writing" /\ rest'[v] = rest[v] /\ goal'[v] = goal[v])
      /\ rest'[w] = Slice(n) /\ goal'[w] = Len(history) /\ Safe' = Safe
  BY DEF Plan, After, DTypes, Safe
<1>2. Covered(history, Len(history), Safe \cup Range(Slice(n)))
  BY CoveredSlice DEF Slice, DTypes
<1>3. TotalsKept'
  <2>1. \A v \in Writers : pc'[v] = "writing" =>
           Covered(history, goal'[v], Safe \cup Range(rest'[v]))
    BY <1>1, <1>2 DEF TotalsKept
  <2> QED
    BY <1>1, <2>1 DEF TotalsKept
<1>4. TotalsInHistory'
  BY <1>1 DEF TotalsInHistory
<1> QED
  BY <1>3, <1>4 DEF ConfirmedOnDisk, ConfirmedInMemory

\* The steps of save_interaction.
LEMMA SaveKeeps ==
  ASSUME DTypes, DInv, IdleWhenDown, NEW w \in Writers, Save(w)
  PROVE  DInv'
<1> USE DEF DInv
<1>1. ASSUME NEW reset \in BOOLEAN, StartSave(w, reset) PROVE DInv'
  <2>1. UNCHANGED <<history, placeholders, up, file, total, confirmed>> /\ up
    BY <1>1 DEF StartSave, memVars, diskVars
  <2>2. CASE total = None
    <3>1. Plan(w, 0) /\ UNCHANGED base
      BY <1>1, <2>2 DEF StartSave
    <3>2. Covered(history, 0, Safe)
      BY DEF Covered, DTypes
    <3> QED
      BY <2>1, <3>1, <3>2, PlanKeeps
  <2>3. CASE total # None
    <3>1. /\ pc' = [pc EXCEPT ![w] = "reading"] /\ base' = [base EXCEPT ![w] = total]
          /\ UNCHANGED <<rest, goal>> /\ Safe' = Safe
      BY <1>1, <2>1, <2>3 DEF StartSave, Safe
    <3>2. TotalsKept'
      BY <2>1, <2>3, <3>1 DEF TotalsKept, DTypes
    <3>3. TotalsInHistory'
      BY <2>1, <2>3, <3>1 DEF TotalsInHistory, DTypes
    <3> QED
      BY <2>1, <3>2, <3>3 DEF ConfirmedOnDisk, ConfirmedInMemory
  <2> QED
    BY <2>2, <2>3
<1>2. CASE PlanSave(w)
  <2>1. Plan(w, base[w]) /\ pc[w] = "reading"
        /\ UNCHANGED <<history, placeholders, up, file, total, base, confirmed>>
    BY <1>2 DEF PlanSave, memVars, diskVars
  <2>2. base[w] \in Nat /\ Covered(history, base[w], Safe)
    BY <2>1 DEF TotalsKept, DTypes
  <2> QED
    BY <2>1, <2>2, PlanKeeps
<1>3. CASE WriteLine(w)
  <2>1. /\ file' = Append(file, Head(rest[w])) /\ rest[w] # <<>> /\ pc[w] = "writing"
        /\ rest'[w] = Tail(rest[w]) /\ \A v \in Writers : v # w => rest'[v] = rest[v]
        /\ UNCHANGED <<history, placeholders, up, total, pc, base, goal, confirmed>>
    BY <1>3 DEF WriteLine, memVars, DTypes
  <2>2. rest[w] \in Seq(Msg) /\ file \in Seq(Msg)
    BY DEF DTypes
  <2>3. Head(rest[w]) \in Msg
    BY <2>1, <2>2
  <2>4. Range(file') = Range(file) \cup {Head(rest[w])}
    BY <2>1, <2>2, <2>3, RangeAppend
  <2>5. Safe' = Safe \cup {Head(rest[w])}
    BY <2>1, <2>4 DEF Safe
  <2>6. Range(rest[w]) = Range(rest'[w]) \cup {Head(rest[w])}
    BY <2>1, <2>2, RangeTail
  <2>7. \A v \in Writers : Safe \cup Range(rest[v]) \subseteq Safe' \cup Range(rest'[v])
    BY <2>1, <2>5, <2>6
  <2>8. \A n : Covered(history, n, Safe) => Covered(history, n, Safe')
    BY <2>5, CoveredMore
  <2>9. \A v \in Writers : pc[v] = "writing" =>
           Covered(history, goal[v], Safe' \cup Range(rest'[v]))
    BY <2>7, CoveredMore DEF TotalsKept
  <2>10. TotalsKept'
    BY <2>1, <2>8, <2>9 DEF TotalsKept
  <2>11. TotalsInHistory'
    BY <2>1 DEF TotalsInHistory
  <2> QED
    BY <2>1, <2>4, <2>10, <2>11 DEF ConfirmedOnDisk, ConfirmedInMemory
<1>4. CASE Commit(w)
  <2>1. /\ pc[w] = "writing" /\ rest[w] = <<>> /\ total' = goal[w]
        /\ pc' = [pc EXCEPT ![w] = After(w)]
        /\ confirmed' = confirmed \cup Range(SubSeq(history, 1, goal[w]))
        /\ UNCHANGED <<history, placeholders, up, file, base, rest, goal>>
    BY <1>4 DEF Commit, memVars
  <2>2. goal[w] \in 0..Len(history) /\ goal[w] \in Nat /\ history \in Seq(Msg)
    BY <2>1 DEF DTypes, GoalInHistory
  <2>3. Covered(history, goal[w], Safe) /\ Safe' = Safe
    BY <2>1, CoveredSelf DEF TotalsKept, Safe
  <2>4. Range(SubSeq(history, 1, goal[w])) \subseteq Safe \cap Range(history)
    BY <2>2, <2>3, CoveredPrefix
  <2>5. \A v \in Writers : pc'[v] \in {"reading", "writing"} => pc'[v] = pc[v]
    BY <2>1 DEF After, DTypes
  <2>6. TotalsKept'
    BY <2>1, <2>3, <2>5 DEF TotalsKept
  <2>7. TotalsInHistory'
    BY <2>1, <2>2, <2>5 DEF TotalsInHistory
  <2> QED
    BY <2>1, <2>4, <2>6, <2>7 DEF ConfirmedOnDisk, ConfirmedInMemory, Safe
<1> QED
  BY <1>1, <1>2, <1>3, <1>4 DEF Save

\* A new directory: nothing is counted, nothing was confirmed.
LEMMA ResetKeeps ==
  ASSUME DTypes, DInv, IdleWhenDown, NEW w \in Writers, NEW n, Reset(w, n)
  PROVE  DInv'
<1>1. /\ total' = None /\ confirmed' = {} /\ up' = up /\ up
      /\ \A v \in Writers : pc'[v] = "idle"
  BY DEF Reset, IdleWhenDown
<1>2. TotalsKept' /\ TotalsInHistory'
  BY <1>1 DEF TotalsKept, TotalsInHistory
<1> QED
  BY <1>1, <1>2 DEF DInv, ConfirmedOnDisk, ConfirmedInMemory

\* The steps of persist_loops and persist_experiments.
LEMMA PatchKeeps ==
  ASSUME DTypes, DInv, IdleWhenDown, NEW w \in Writers, StartPatch(w) \/ CommitPatch(w)
  PROVE  DInv'
<1> USE DEF DInv
<1>1. /\ UNCHANGED <<history, placeholders, up, file, rest, goal, confirmed>>
      /\ Safe' = Safe
  BY DEF StartPatch, CommitPatch, memVars, diskVars, Safe
<1>2. CASE StartPatch(w)
  <2>1. /\ up /\ total # None /\ total' = total
        /\ pc' = [pc EXCEPT ![w] = "reading"] /\ base' = [base EXCEPT ![w] = total]
    BY <1>2 DEF StartPatch, diskVars
  <2>2. TotalsKept'
    BY <1>1, <2>1 DEF TotalsKept, DTypes
  <2>3. TotalsInHistory'
    BY <1>1, <2>1 DEF TotalsInHistory, DTypes
  <2> QED
    BY <1>1, <2>2, <2>3 DEF ConfirmedOnDisk, ConfirmedInMemory
<1>3. CASE CommitPatch(w)
  <2>1. /\ pc[w] = "reading" /\ total' = base[w] /\ pc' = [pc EXCEPT ![w] = "idle"]
        /\ base' = base
    BY <1>3 DEF CommitPatch
  <2>2. TotalsKept'
    BY <1>1, <2>1 DEF TotalsKept, DTypes
  <2>3. TotalsInHistory'
    BY <1>1, <2>1 DEF TotalsInHistory, DTypes
  <2> QED
    BY <1>1, <2>2, <2>3 DEF ConfirmedOnDisk, ConfirmedInMemory
<1> QED
  BY <1>2, <1>3

\* Interrupts, crashes and restarts.
LEMMA FaultKeeps ==
  ASSUME DTypes, DInv, IdleWhenDown,
         (\E w \in Writers : Interrupt(w)) \/ Crash \/ Load \/ StartOver
  PROVE  DInv'
<1> USE DEF DInv
<1>1. ASSUME NEW w \in Writers, Interrupt(w) PROVE DInv'
  <2>1. /\ pc' = [pc EXCEPT ![w] = "idle"] /\ rest' = [rest EXCEPT ![w] = <<>>]
        /\ UNCHANGED <<history, placeholders, up, file, total, base, goal, confirmed>>
        /\ Safe' = Safe
    BY <1>1 DEF Interrupt, memVars, diskVars, Safe
  <2>2. /\ \A v \in Writers : pc'[v] = "reading" => pc[v] = "reading"
        /\ \A v \in Writers : pc'[v] = "writing" => pc[v] = "writing" /\ rest'[v] = rest[v]
    BY <2>1 DEF DTypes
  <2>3. TotalsKept'
    BY <2>1, <2>2 DEF TotalsKept
  <2>4. TotalsInHistory'
    BY <2>1, <2>2 DEF TotalsInHistory
  <2> QED
    BY <2>1, <2>3, <2>4 DEF ConfirmedOnDisk, ConfirmedInMemory
<1>2. CASE Crash
  <2>1. /\ history' = <<>> /\ up' = FALSE /\ \A w \in Writers : pc'[w] = "idle"
        /\ UNCHANGED <<placeholders, file, total, confirmed>> /\ Safe' = Safe
    BY <1>2 DEF Crash, diskVars, Safe
  <2>2. TotalsKept'
    BY <2>1, CoveredSelf DEF TotalsKept
  <2>3. TotalsInHistory'
    BY <2>1 DEF TotalsInHistory
  <2> QED
    BY <2>1, <2>2, <2>3 DEF ConfirmedOnDisk, ConfirmedInMemory
<1>3. CASE Load
  <2>1. /\ history' = file /\ up' /\ \A w \in Writers : pc'[w] = "idle"
        /\ UNCHANGED <<placeholders, file, total, confirmed>> /\ Safe' = Safe
    BY <1>3 DEF Load, IdleWhenDown, diskVars, writerVars, Safe
  <2>2. Covered(file, total, Safe)
    BY CoveredSelf DEF Safe
  <2>3. TotalsKept'
    BY <2>1, <2>2 DEF TotalsKept
  <2>4. TotalsInHistory'
    BY <2>1 DEF TotalsInHistory, DTypes, CountWithinFile
  <2> QED
    BY <2>1, <2>3, <2>4 DEF ConfirmedOnDisk, ConfirmedInMemory
<1>4. CASE StartOver
  <2>1. /\ total' = None /\ confirmed' = {} /\ up' /\ \A w \in Writers : pc'[w] = "idle"
    BY <1>4 DEF StartOver, IdleWhenDown, writerVars
  <2>2. TotalsKept' /\ TotalsInHistory'
    BY <2>1 DEF TotalsKept, TotalsInHistory
  <2> QED
    BY <2>1, <2>2 DEF ConfirmedOnDisk, ConfirmedInMemory
<1> QED
  BY <1>1, <1>2, <1>3, <1>4

\* Nothing is covered at first.
LEMMA InitKeeps == Init => DInv
<1> SUFFICES ASSUME Init PROVE DInv
  OBVIOUS
<1>1. /\ total = None /\ confirmed = {} /\ up /\ \A w \in Writers : pc[w] = "idle"
  BY DEF Init
<1> QED
  BY <1>1 DEF DInv, TotalsKept, TotalsInHistory, ConfirmedOnDisk, ConfirmedInMemory

\* Every step keeps what the saves have covered.
LEMMA NextKeeps == IInv /\ IInv' /\ IdleWhenDown /\ DInv /\ [Next]_vars => DInv'
<1> SUFFICES ASSUME IInv, IInv', IdleWhenDown, DInv, [Next]_vars PROVE DInv'
  OBVIOUS
<1>1. DTypes
  BY TypesHold
<1>2. CASE UNCHANGED vars
  BY <1>2
  DEF vars, memVars, diskVars, writerVars, DInv, TotalsKept, TotalsInHistory, Safe,
      ConfirmedOnDisk, ConfirmedInMemory
<1>3. ASSUME AppendMessage \/ \E p \in 1..MaxMsgs : Repair(p)
      PROVE  DInv'
  <2>1. created' \in Msg
    BY <1>3, BoundsAssumption DEF AppendMessage, Repair, IInv, TypeOK, Msg
  <2> QED
    BY <1>1, <1>3, <2>1, AppendKeeps, RepairKeeps
<1>4. Savers \subseteq Writers /\ Patchers \subseteq Writers
  BY DEF Writers
<1>5. CASE Next
  BY <1>1, <1>3, <1>4, <1>5, SaveKeeps, ResetKeeps, PatchKeeps, FaultKeeps DEF Next
<1> QED
  BY <1>2, <1>5

\* The invariant about what completed saves have covered holds throughout.
THEOREM CoveredInvariance == Spec => []DInv
  BY Invariance, InitKeeps, NextKeeps, PTL DEF Spec

\* No message a completed save of this session has covered is ever missing from
\* messages.jsonl, placeholder answers aside, whatever savers and patchers overlap,
\* are interrupted or killed: the total a save slices from only counts such messages.
THEOREM ConfirmedStaysOnDisk == Spec => []ConfirmedOnDisk
<1>1. DInv => ConfirmedOnDisk
  BY DEF DInv
<1> QED
  BY <1>1, CoveredInvariance, PTL

\* Nor is it missing from the history of a running process, however often the
\* process was killed and the session resumed.
THEOREM ConfirmedStaysInMemory == Spec => []ConfirmedInMemory
<1>1. DInv => ConfirmedInMemory
  BY DEF DInv
<1> QED
  BY <1>1, CoveredInvariance, PTL

-----------------------------------------------------------------------------
(* Writers that come one after the other *)

\* The file f is the beginning of the history h, and r is what comes next in it.
Begins(f, h)       == Len(f) <= Len(h) /\ \A i \in 1..Len(f) : f[i] = h[i]
Continues(f, r, h) == \A j \in 1..Len(r) : r[j] = h[Len(f) + j]

\* At most one writer is under way.
OneWriter == \A v, w \in Writers : Busy(v) /\ Busy(w) => v = w

\* The metadata counts the lines of the file unless a saver is adding some ...
TotalExact ==
  (\A w \in Writers : pc[w] # "writing") =>
     IF total = None THEN file = <<>> ELSE total = Len(file)

\* ... and a total that was read is still the one there is.
ReadExact == \A w \in Writers : pc[w] = "reading" => total # None /\ base[w] = total

\* A saver still has to write what lies between the file and what it covers.
RestExact ==
  \A w \in Writers : pc[w] = "writing" =>
     Len(file) + Len(rest[w]) = goal[w] /\ Continues(file, rest[w], history)

Calm  == faults = 0 /\ ~overlapped
Exact == OneWriter /\ Begins(file, history) /\ TotalExact /\ ReadExact /\ RestExact
SInv  == (faults = 0 => up) /\ (Calm => Exact)

\* A message appended to the history changes neither its beginning nor what is next.
LEMMA BeginsAppend ==
  ASSUME NEW M, NEW f \in Seq(M), NEW r \in Seq(M), NEW h \in Seq(M), NEW e \in M
  PROVE  /\ Begins(f, h) => Begins(f, Append(h, e))
         /\ Len(f) + Len(r) <= Len(h) /\ Continues(f, r, h) =>
               Continues(f, r, Append(h, e))
<1>1. /\ Len(Append(h, e)) = Len(h) + 1
      /\ \A i \in 1..Len(h) : Append(h, e)[i] = h[i]
      /\ Len(f) \in Nat /\ Len(h) \in Nat /\ Len(r) \in Nat
  OBVIOUS
<1> QED
  BY <1>1 DEF Begins, Continues

\* The slice beyond the file is what comes next, up to the end of the history.
LEMMA SliceContinues ==
  ASSUME NEW M, NEW f \in Seq(M), NEW h \in Seq(M), Len(f) <= Len(h)
  PROVE  /\ Continues(f, SubSeq(h, Len(f) + 1, Len(h)), h)
         /\ Len(f) + Len(SubSeq(h, Len(f) + 1, Len(h))) = Len(h)
<1> DEFINE r == SubSeq(h, Len(f) + 1, Len(h))
<1>1. /\ Len(f) \in Nat /\ Len(h) \in Nat /\ Len(r) = Len(h) - Len(f)
      /\ \A j \in 1..Len(h) - Len(f) : r[j] = h[Len(f) + j]
  OBVIOUS
<1> QED
  BY <1>1 DEF Continues

\* Writing the first of the lines that come next leaves the others to come next.
LEMMA LineContinues ==
  ASSUME NEW M, NEW f \in Seq(M), NEW r \in Seq(M), NEW h \in Seq(M), r # <<>>,
         Begins(f, h), Continues(f, r, h), Len(f) + Len(r) <= Len(h)
  PROVE  /\ Begins(Append(f, Head(r)), h)
         /\ Continues(Append(f, Head(r)), Tail(r), h)
         /\ Len(Append(f, Head(r))) + Len(Tail(r)) = Len(f) + Len(r)
<1>1. /\ Len(f) \in Nat /\ Len(h) \in Nat /\ Len(r) \in Nat /\ Len(r) > 0
      /\ Head(r) = r[1] /\ Len(Tail(r)) = Len(r) - 1
      /\ \A j \in 1..Len(r) - 1 : Tail(r)[j] = r[j + 1]
  OBVIOUS
<1>2. Head(r) \in M
  BY <1>1
<1>3. /\ Len(Append(f, Head(r))) = Len(f) + 1
      /\ \A i \in 1..Len(f) : Append(f, Head(r))[i] = f[i]
      /\ Append(f, Head(r))[Len(f) + 1] = Head(r)
  BY <1>2
<1>4. r[1] = h[Len(f) + 1]
  BY <1>1 DEF Continues
<1>5. Begins(Append(f, Head(r)), h)
  BY <1>1, <1>3, <1>4 DEF Begins
<1>6. ASSUME NEW j \in 1..Len(r) - 1 PROVE Tail(r)[j] = h[Len(f) + 1 + j]
  <2>1. Tail(r)[j] = r[j + 1] /\ j + 1 \in 1..Len(r) /\ Len(f) + (j + 1) = Len(f) + 1 + j
    BY <1>1
  <2>2. r[j + 1] = h[Len(f) + (j + 1)]
    BY <2>1 DEF Continues
  <2> QED
    BY <2>1, <2>2
<1>7. Continues(Append(f, Head(r)), Tail(r), h)
  BY <1>1, <1>3, <1>6 DEF Continues
<1> QED
  BY <1>1, <1>3, <1>5, <1>7

\* A beginning is a prefix.
LEMMA BeginningIsPrefix ==
  ASSUME NEW M, NEW f \in Seq(M), NEW h \in Seq(M), Begins(f, h)
  PROVE  IsPrefix(f, h)
<1>1. /\ Len(f) \in Nat /\ Len(f) <= Len(h)
      /\ f = SubSeq(h, 1, Len(f))
  BY DEF Begins
<1> QED
  BY <1>1 DEF IsPrefix

\* A saver that slices beyond the lines of the file carries what comes next.
LEMMA PlanExact ==
  ASSUME DTypes, Exact, NEW w \in Writers, \A v \in Writers : v # w => pc[v] = "idle",
         Plan(w, Len(file)), UNCHANGED <<history, file, total>>,
         IF total = None THEN file = <<>> ELSE total = Len(file)
  PROVE  Exact'
<1>1. history \in Seq(Msg) /\ file \in Seq(Msg) /\ Len(file) <= Len(history)
  BY DEF DTypes, Exact, Begins
<1>2. /\ rest'[w] = SubSeq(history, Len(file) + 1, Len(history))
      /\ goal'[w] = Len(history) /\ pc'[w] # "reading"
      /\ \A v \in Writers : v # w => pc'[v] = "idle"
  BY DEF Plan, Slice, After, DTypes
<1>3. Len(file) + Len(rest'[w]) = goal'[w] /\ Continues(file, rest'[w], history)
  BY <1>1, <1>2, SliceContinues
<1>4. OneWriter' /\ TotalExact' /\ ReadExact' /\ RestExact'
  BY <1>2, <1>3 DEF OneWriter, Busy, TotalExact, ReadExact, RestExact
<1> QED
  BY <1>4 DEF Exact

\* The steps of save_interaction.
LEMMA SaveExact ==
  ASSUME DTypes, Calm', Calm, Exact, NEW w \in Writers, Save(w)
  PROVE  Exact'
<1>1. ASSUME NEW reset \in BOOLEAN, StartSave(w, reset) PROVE Exact'
  <2>1. /\ UNCHANGED <<history, file, total>> /\ pc[w] = "idle"
        /\ \A v \in Writers : v # w => pc[v] = "idle"
    BY <1>1 DEF StartSave, memVars, diskVars, Overlap, Busy, Calm
  <2>2. IF total = None THEN file = <<>> ELSE total = Len(file)
    BY <2>1 DEF Exact, TotalExact
  <2>3. CASE total = None
    <3>1. Plan(w, Len(file))
      BY <1>1, <2>2, <2>3 DEF StartSave
    <3> QED
      BY <2>1, <2>2, <3>1, PlanExact
  <2>4. CASE total # None
    <3>1. /\ pc'[w] = "reading" /\ base'[w] = total
          /\ \A v \in Writers : v # w => pc'[v] = "idle"
      BY <1>1, <2>1, <2>4 DEF StartSave, DTypes
    <3> QED
      BY <2>1, <2>2, <2>4, <3>1 DEF Exact, OneWriter, Busy, TotalExact, ReadExact, RestExact
  <2> QED
    BY <2>3, <2>4
<1>2. CASE PlanSave(w)
  <2>1. Plan(w, base[w]) /\ pc[w] = "reading" /\ UNCHANGED <<history, file, total>>
    BY <1>2 DEF PlanSave, memVars, diskVars
  <2>2. \A v \in Writers : v # w => pc[v] = "idle"
    BY <2>1 DEF Exact, OneWriter, Busy
  <2>3. total = Len(file) /\ base[w] = total /\ total # None
    BY <2>1, <2>2 DEF Exact, TotalExact, ReadExact
  <2> QED
    BY <2>1, <2>2, <2>3, PlanExact
<1>3. CASE WriteLine(w)
  <2>1. /\ pc[w] = "writing" /\ rest[w] # <<>> /\ file' = Append(file, Head(rest[w]))
        /\ rest'[w] = Tail(rest[w]) /\ UNCHANGED <<history, total, pc, base, goal>>
    BY <1>3 DEF WriteLine, memVars, DTypes
  <2>2. \A v \in Writers : v # w => pc[v] = "idle"
    BY <2>1 DEF Exact, OneWriter, Busy
  <2>3. /\ history \in Seq(Msg) /\ file \in Seq(Msg) /\ rest[w] \in Seq(Msg)
        /\ Len(file) + Len(rest[w]) = goal[w] /\ goal[w] <= Len(history)
    BY <2>1 DEF DTypes, Exact, RestExact, GoalInHistory
  <2>4. /\ Begins(file', history) /\ Continues(file', rest'[w], history)
        /\ Len(file') + Len(rest'[w]) = goal[w]
    BY <2>1, <2>3, LineContinues DEF Exact, RestExact
  <2> QED
    BY <2>1, <2>2, <2>4 DEF Exact, OneWriter, Busy, TotalExact, ReadExact, RestExact
<1>4. CASE Commit(w)
  <2>1. /\ pc[w] = "writing" /\ rest[w] = <<>> /\ total' = goal[w]
        /\ pc' = [pc EXCEPT ![w] = After(w)] /\ UNCHANGED <<history, file, base, rest, goal>>
    BY <1>4 DEF Commit, memVars
  <2>2. \A v \in Writers : v # w => pc[v] = "idle"
    BY <2>1 DEF Exact, OneWriter, Busy
  <2>3. total' = Len(file) /\ total' # None
    <3>1. Len(file) + Len(<<>>) = goal[w]
      BY <2>1 DEF Exact, RestExact
    <3>2. Len(file) \in Nat
      BY DEF DTypes
    <3> QED
      BY <2>1, <3>1, <3>2 DEF None
  <2>4. \A v \in Writers : pc'[v] \notin {"reading", "writing"} /\ (v # w => pc'[v] = "idle")
    BY <2>1, <2>2 DEF After, DTypes
  <2> QED
    BY <2>1, <2>3, <2>4 DEF Exact, OneWriter, Busy, TotalExact, ReadExact, RestExact
<1> QED
  BY <1>1, <1>2, <1>3, <1>4 DEF Save

\* The steps of persist_loops and persist_experiments.
LEMMA PatchExact ==
  ASSUME DTypes, Calm', Calm, Exact, NEW w \in Writers, StartPatch(w) \/ CommitPatch(w)
  PROVE  Exact'
<1>1. CASE StartPatch(w)
  <2>1. /\ UNCHANGED <<history, file, total>> /\ total # None
        /\ \A v \in Writers : pc[v] = "idle"
        /\ pc' = [pc EXCEPT ![w] = "reading"] /\ base' = [base EXCEPT ![w] = total]
    BY <1>1 DEF StartPatch, memVars, diskVars, Overlap, Busy, Calm
  <2>2. /\ pc'[w] = "reading" /\ base'[w] = total
        /\ \A v \in Writers : v # w => pc'[v] = "idle"
    BY <2>1 DEF DTypes
  <2> QED
    BY <2>1, <2>2 DEF Exact, OneWriter, Busy, TotalExact, ReadExact, RestExact
<1>2. CASE CommitPatch(w)
  <2>1. /\ pc[w] = "reading" /\ total' = base[w] /\ pc' = [pc EXCEPT ![w] = "idle"]
        /\ UNCHANGED <<history, file, base>>
    BY <1>2 DEF CommitPatch, memVars
  <2>2. \A v \in Writers : v # w => pc[v] = "idle"
    BY <2>1 DEF Exact, OneWriter, Busy
  <2>3. total' = total /\ \A v \in Writers : pc'[v] = "idle"
    BY <2>1, <2>2 DEF Exact, ReadExact, DTypes
  <2> QED
    BY <2>1, <2>2, <2>3 DEF Exact, OneWriter, Busy, TotalExact, ReadExact, RestExact
<1> QED
  BY <1>1, <1>2

\* The history grows past the file and past what a saver covers.
LEMMA AppendExact ==
  ASSUME DTypes, Calm, Exact, created' \in Msg, AppendMessage
  PROVE  Exact'
<1>1. /\ history' = Append(history, created')
      /\ UNCHANGED <<file, total, pc, base, rest, goal>>
  BY DEF AppendMessage, diskVars, writerVars
<1>2. history \in Seq(Msg) /\ file \in Seq(Msg)
  BY DEF DTypes
<1>3. Begins(file, history')
  BY <1>1, <1>2, Nil, BeginsAppend DEF Exact
<1>4. ASSUME NEW w \in Writers, pc[w] = "writing"
      PROVE  Continues(file, rest[w], history')
  <2>1. /\ rest[w] \in Seq(Msg) /\ Continues(file, rest[w], history)
        /\ Len(file) + Len(rest[w]) <= Len(history)
    BY <1>4 DEF DTypes, Exact, RestExact, GoalInHistory
  <2> QED
    BY <1>1, <1>2, <2>1, BeginsAppend
<1> QED
  BY <1>1, <1>3, <1>4 DEF Exact, OneWriter, Busy, TotalExact, ReadExact, RestExact

\* What fails is counted, and stays counted.
LEMMA FaultsCounted ==
  ASSUME IInv, SInv,
         \/ \E p \in 1..MaxMsgs : Repair(p)
         \/ \E w \in Savers : \E n \in 0..Len(history) : Reset(w, n)
         \/ \E w \in Writers : Interrupt(w)
         \/ Crash \/ Load \/ StartOver
  PROVE  SInv'
<1>1. faults \in Nat
  BY DEF IInv, TypeOK
<1>2. faults' # 0
  BY <1>1 DEF Repair, Reset, Interrupt, Crash, Load, StartOver, SInv
<1> QED
  BY <1>2 DEF SInv, Calm

\* At first there is nothing, and every step keeps the log exact while all is calm.
LEMMA InitExact == Init => SInv
<1> SUFFICES ASSUME Init PROVE Exact /\ up
  BY DEF SInv
<1>1. file = <<>> /\ history = <<>> /\ up /\ \A w \in Writers : pc[w] = "idle"
  BY DEF Init
<1>2. Begins(file, history)
  BY <1>1 DEF Begins
<1> QED
  BY <1>1, <1>2 DEF Init, Exact, OneWriter, Busy, TotalExact, ReadExact, RestExact

\* Every step keeps the log exact while writers come one after the other.
LEMMA NextExact == IInv /\ SInv /\ [Next]_vars => SInv'
<1> SUFFICES ASSUME IInv, SInv, [Next]_vars PROVE SInv'
  OBVIOUS
<1>1. DTypes
  BY TypesHold
<1>2. CASE UNCHANGED vars
  BY <1>2
  DEF vars, memVars, diskVars, writerVars, SInv, Calm, Exact, OneWriter, Busy, TotalExact,
      ReadExact, RestExact
<1>3. ASSUME AppendMessage PROVE SInv'
  <2>1. created' \in Msg /\ UNCHANGED <<up, faults, overlapped>>
    BY <1>3, BoundsAssumption DEF AppendMessage, IInv, TypeOK, Msg
  <2> QED
    BY <1>1, <1>3, <2>1, AppendExact DEF SInv, Calm
<1>4. ASSUME NEW w \in Writers, Save(w) \/ StartPatch(w) \/ CommitPatch(w) PROVE SInv'
  <2>1. UNCHANGED <<up, faults>> /\ (~overlapped' => ~overlapped)
    <3>1. ASSUME NEW reset \in BOOLEAN, StartSave(w, reset)
          PROVE  UNCHANGED <<up, faults>> /\ (~overlapped' => ~overlapped)
      BY <3>1 DEF StartSave, Overlap
    <3>2. CASE PlanSave(w) \/ WriteLine(w) \/ Commit(w) \/ CommitPatch(w)
      <4>1. UNCHANGED <<up, faults, overlapped>>
        BY <3>2 DEF PlanSave, WriteLine, Commit, CommitPatch
      <4> QED
        BY <4>1
    <3>3. CASE StartPatch(w)
      BY <3>3 DEF StartPatch, Overlap
    <3> QED
      BY <1>4, <3>1, <3>2, <3>3 DEF Save
  <2> QED
    BY <1>1, <1>4, <2>1, SaveExact, PatchExact DEF SInv, Calm
<1>5. Savers \subseteq Writers /\ Patchers \subseteq Writers
  BY DEF Writers
<1>6. CASE Next
  BY <1>3, <1>4, <1>5, <1>6, FaultsCounted DEF Next
<1> QED
  BY <1>2, <1>6

\* The invariant of writers that come one after the other holds throughout.
THEOREM CalmInvariance == Spec => [](IInv /\ SInv)
  BY Invariance, InitExact, NextExact, PTL DEF Spec

\* While writers come one after the other and nothing fails, the log is exactly the
\* history up to the last save and the metadata counts its lines: every message once,
\* in the order of the history.
THEOREM SequentialLogIsExact == Spec => []SequentialLogExact
<1>1. IInv /\ SInv => SequentialLogExact
  <2> SUFFICES ASSUME IInv, SInv, Calm, \A w \in Writers : ~Busy(w)
               PROVE  IsPrefix(file, history) /\ (total # None => total = Len(file))
    BY DEF SequentialLogExact, Calm
  <2>1. Exact /\ file \in Seq(Msg) /\ history \in Seq(Msg)
    BY DEF SInv, IInv, TypeOK
  <2>2. IsPrefix(file, history)
    BY <2>1, BeginningIsPrefix DEF Exact
  <2> QED
    BY <2>1, <2>2 DEF Exact, TotalExact, Busy
<1> QED
  BY <1>1, CalmInvariance, PTL
===============================================================================
