----------------------------- MODULE RewindProofs -----------------------------
(***************************************************************************)
(* Theorems about Rewind for any files, tools and bounds.  Their inductive *)
(* invariants say where each message the front end shows can be by now,    *)
(* and that all checkpoints know of the same files, those that a running   *)
(* tool is about to write included.                                        *)
(***************************************************************************)
EXTENDS Rewind, Recursion

\* A rewind under way cuts at a message there is.
TargetInHistory ==
  IF phase = "rewinding"
  THEN target \in 1..Len(widgets) /\ widgets[target].index <= Len(messages)
  ELSE target = 0

\* A message that is submitted has a number.
SubmittedCounted == phase = "submitted" => submits \in 1..MaxSubmits + 1

TInv == TypeOK /\ TargetInHistory /\ SubmittedCounted

\* No checkpoint is behind the point where a repair will insert.
GapBehindCheckpoints ==
  gap > 0 => \A k \in DOMAIN checkpoints : checkpoints[k].index <= gap

CInv == CheckpointsAtTheirMessages /\ GapBehindCheckpoints

\* Every checkpoint knows of the same files ...
SameFilesTracked ==
  \A j, k \in DOMAIN checkpoints : Tracked(checkpoints[j]) = Tracked(checkpoints[k])

\* ... and of those a tool with a snapshot has still to write.
EditsTracked ==
  \A t \in Tool : editing[t] # NoPath /\ t \notin stale =>
     /\ checkpoints # <<>>
     /\ \A k \in DOMAIN checkpoints : editing[t] \in Tracked(checkpoints[k])

EInv == EditsUndoable /\ SameFilesTracked /\ EditsTracked

\* The widgets that show the history there is: a compaction left the others.
Shown == leftover + 1..Len(widgets)

\* A message shown is at its index or before the end of the history; its act() never
\* began, or begins next.
WidgetsInHistory ==
  \A w \in Shown :
     \/ widgets[w].id \in abandoned
     \/ widgets[w].index <= Len(messages)
     \/ /\ phase = "submitted" /\ w = Len(widgets) /\ widgets[w].id = submits
        /\ widgets[w].index <= Len(messages) + 1

\* Those whose act() began come in the order of their indexes.
WidgetsInOrder ==
  \A v, w \in Shown :
     v < w /\ widgets[v].id \notin abandoned => widgets[v].index < widgets[w].index

WInv == WidgetRestoresItsOwn /\ WidgetsInHistory /\ WidgetsInOrder
-----------------------------------------------------------------------------
(* The operators of the model *)

\* A function on 1..n is a sequence of length n.
LEMMA FunctionIsSeq ==
  ASSUME NEW S, NEW n \in Nat, NEW f \in [1..n -> S]
  PROVE  f \in Seq(S) /\ Len(f) = n /\ DOMAIN f = 1..n
  OBVIOUS

\* A prefix of a sequence.
LEMMA PrefixOfSeq ==
  ASSUME NEW S, NEW s \in Seq(S), NEW n \in 0..Len(s)
  PROVE  /\ SubSeq(s, 1, n) \in Seq(S) /\ Len(SubSeq(s, 1, n)) = n
         /\ \A i \in 1..n : SubSeq(s, 1, n)[i] = s[i]
  OBVIOUS

\* An element appended.
LEMMA AppendedSeq ==
  ASSUME NEW S, NEW s \in Seq(S), NEW e \in S
  PROVE  /\ Append(s, e) \in Seq(S) /\ Len(Append(s, e)) = Len(s) + 1
         /\ DOMAIN Append(s, e) = 1..Len(s) + 1 /\ DOMAIN s = 1..Len(s)
         /\ Append(s, e)[Len(s) + 1] = e
         /\ \A i \in 1..Len(s) : Append(s, e)[i] = s[i]
  OBVIOUS

\* An element inserted.
LEMMA InsertedSeq ==
  ASSUME NEW S, NEW s \in Seq(S), NEW p \in 1..Len(s) + 1, NEW e \in S
  PROVE  /\ InsertAt(s, p, e) \in Seq(S) /\ Len(InsertAt(s, p, e)) = Len(s) + 1
         /\ \A i \in 1..p - 1 : InsertAt(s, p, e)[i] = s[i]
<1>1. /\ SubSeq(s, 1, p - 1) \in Seq(S) /\ Len(SubSeq(s, 1, p - 1)) = p - 1
      /\ \A i \in 1..p - 1 : SubSeq(s, 1, p - 1)[i] = s[i]
  BY PrefixOfSeq
<1>2. SubSeq(s, p, Len(s)) \in Seq(S) /\ Len(SubSeq(s, p, Len(s))) = Len(s) - p + 1
  OBVIOUS
<1> DEFINE r == SubSeq(s, 1, p - 1)
           u == SubSeq(s, p, Len(s))
<1>4. InsertAt(s, p, e) = r \o <<e>> \o u
  BY DEF InsertAt
<1>5. /\ r \in Seq(S) /\ Len(r) = p - 1 /\ u \in Seq(S) /\ Len(u) = Len(s) - p + 1
      /\ \A i \in 1..p - 1 : r[i] = s[i]
  BY <1>1, <1>2
<1> HIDE DEF r, u
<1>6. /\ InsertAt(s, p, e) \in Seq(S) /\ Len(InsertAt(s, p, e)) = Len(r) + 1 + Len(u)
      /\ \A i \in 1..Len(r) : InsertAt(s, p, e)[i] = r[i]
  <2>1. r \in Seq(S) /\ u \in Seq(S)
    BY <1>5
  <2>2. /\ r \o <<e>> \o u \in Seq(S) /\ Len(r \o <<e>> \o u) = Len(r) + 1 + Len(u)
        /\ \A i \in 1..Len(r) : (r \o <<e>> \o u)[i] = r[i]
    BY <2>1
  <2> QED
    BY <1>4, <2>2
<1>7. p \in Int /\ Len(s) \in Int
  OBVIOUS
<1>8. \A i \in 1..p - 1 : InsertAt(s, p, e)[i] = s[i]
  BY <1>5, <1>6
<1>9. Len(InsertAt(s, p, e)) = Len(s) + 1
  BY <1>5, <1>6, <1>7
<1> QED
  BY <1>6, <1>8, <1>9

\* What a checkpoint consists of ...
LEMMA CheckpointParts ==
  ASSUME NEW c \in Checkpoint
  PROVE  /\ c.id \in 1..MaxSubmits + 1 /\ c.index \in 1..MaxMessages
         /\ c.was \in [Path -> Content]
         /\ Tracked(c) \subseteq Path /\ c.files \in [Tracked(c) -> Content]
<1>1. c.files \in Snapshots
  BY DEF Checkpoint
<1>2. PICK ps \in SUBSET Path : c.files \in [ps -> Content]
  BY <1>1 DEF Snapshots
<1>3. Tracked(c) = ps
  BY <1>2 DEF Tracked
<1> QED
  BY <1>2, <1>3 DEF Checkpoint

\* ... and what makes one.
LEMMA CheckpointMade ==
  ASSUME NEW n \in 1..MaxSubmits + 1, NEW i \in 1..MaxMessages, NEW ps \in SUBSET Path,
         NEW f \in [ps -> Content], NEW was \in [Path -> Content]
  PROVE  [id |-> n, index |-> i, files |-> f, was |-> was] \in Checkpoint
<1>1. f \in Snapshots
  BY DEF Snapshots
<1> QED
  BY <1>1 DEF Checkpoint

\* A snapshot of p is added to a checkpoint.
LEMMA SnapshotAdded ==
  ASSUME NEW c \in Checkpoint, NEW p \in Path, Snapshot(p) \in Content
  PROVE  LET d == WithSnapshot(c, p)
         IN  /\ d \in Checkpoint /\ d.id = c.id /\ d.index = c.index /\ d.was = c.was
             /\ Tracked(d) = Tracked(c) \cup {p} /\ d.files[p] = Snapshot(p)
             /\ \A q \in Tracked(c) : q # p => d.files[q] = c.files[q]
<1> DEFINE v == Snapshot(p)
           f == [q \in DOMAIN c.files \cup {p} |-> IF q = p THEN v ELSE c.files[q]]
           d == WithSnapshot(c, p)
<1>1. c.files \in [Tracked(c) -> Content] /\ DOMAIN c.files = Tracked(c)
  BY CheckpointParts DEF Tracked
<1>2. /\ f \in [Tracked(c) \cup {p} -> Content] /\ f[p] = v
      /\ \A q \in Tracked(c) : q # p => f[q] = c.files[q]
  BY <1>1
<1>3. /\ d.files = f /\ d.id = c.id /\ d.index = c.index /\ d.was = c.was
      /\ d = [id |-> c.id, index |-> c.index, files |-> f, was |-> c.was]
  BY DEF Checkpoint, WithSnapshot
<1> HIDE DEF f, d
<1>4. Tracked(d) = Tracked(c) \cup {p}
  BY <1>2, <1>3 DEF Tracked
<1>5. Tracked(c) \cup {p} \in SUBSET Path
  BY CheckpointParts
<1>6. d \in Checkpoint
  BY <1>2, <1>3, <1>5, CheckpointParts, CheckpointMade
<1> QED
  BY <1>2, <1>3, <1>4, <1>6 DEF d

\* Another content is noted for p.
LEMMA ContentNoted ==
  ASSUME NEW c \in Checkpoint, NEW p \in Path, NEW v \in Content
  PROVE  LET d == [c EXCEPT !.was[p] = v]
         IN  /\ d \in Checkpoint /\ d.id = c.id /\ d.index = c.index
             /\ d.files = c.files /\ d.was = [c.was EXCEPT ![p] = v]
  BY DEF Checkpoint

\* The checkpoints before an index are among those there were.
LEMMA BeforeKeeps ==
  ASSUME NEW S, NEW cps \in Seq(S), NEW i \in Int
  PROVE  /\ Before(cps, i) \in Seq(S)
         /\ \A j \in DOMAIN Before(cps, i) : \E k \in DOMAIN cps :
               Before(cps, i)[j] = cps[k] /\ cps[k].index < i
<1> DEFINE E == {cps[k] : k \in {n \in DOMAIN cps : cps[n].index < i}}
           step == [k \in Nat |-> [s \in Seq(E) |->
              IF k \in DOMAIN cps /\ cps[k].index < i THEN Append(s, cps[k]) ELSE s]]
           Solves(g) == g = [k \in 0..Len(cps) |->
              IF k = 0 THEN <<>>
              ELSE IF cps[k].index < i THEN Append(g[k - 1], cps[k]) ELSE g[k - 1]]
           N == Len(cps)
<1>1. step \in [Nat -> [Seq(E) -> Seq(E)]]
  <2>1. ASSUME NEW k \in Nat, NEW s \in Seq(E)
        PROVE  (IF k \in DOMAIN cps /\ cps[k].index < i THEN Append(s, cps[k]) ELSE s) \in Seq(E)
    <3>1. CASE k \in DOMAIN cps /\ cps[k].index < i
      <4>1. cps[k] \in E
        BY <3>1
      <4> HIDE DEF E
      <4> QED
        BY <3>1, <4>1
    <3>2. CASE ~(k \in DOMAIN cps /\ cps[k].index < i)
      BY <3>2
    <3> QED
      BY <3>1, <3>2
  <2> HIDE DEF E
  <2> QED
    BY <2>1
<1>2. N \in Nat /\ DOMAIN cps = 1..N /\ <<>> \in Seq(E)
  OBVIOUS
<1>3. PICK g : Recursive(g, Seq(E), <<>>, step, N)
  <2> HIDE DEF step, E, N
  <2> QED
    BY <1>1, <1>2, RecursionDefines
<1>4. ASSUME NEW k \in 1..N
      PROVE  g[k] = IF cps[k].index < i THEN Append(g[k - 1], cps[k]) ELSE g[k - 1]
  <2>1. k \in Nat /\ g[k - 1] \in Seq(E) /\ g[k] = step[k][g[k - 1]]
    <3> HIDE DEF step, E
    <3> QED
      BY <1>3 DEF Recursive
  <2> HIDE DEF E
  <2> QED
    BY <1>2, <2>1
<1>5. Solves(g)
  <2>1. g \in [0..N -> Seq(E)] /\ g[0] = <<>>
    <3> HIDE DEF step, E
    <3> QED
      BY <1>3 DEF Recursive
  <2>2. \A k \in 0..N : g[k] = IF k = 0 THEN <<>>
                               ELSE IF cps[k].index < i THEN Append(g[k - 1], cps[k])
                                    ELSE g[k - 1]
    <3>1. \A k \in 0..N : k = 0 \/ k \in 1..N
      BY <1>2
    <3> HIDE DEF E, N
    <3> QED
      BY <1>4, <2>1, <3>1
  <2> HIDE DEF E
  <2> QED
    BY <2>1, <2>2
<1>6. PICK h : Solves(h) /\ Before(cps, i) = h[N]
  <2>1. Before(cps, i) = (CHOOSE f : Solves(f))[N]
    BY DEF Before
  <2> HIDE DEF Solves
  <2> QED
    BY <1>5, <2>1
<1>7. ASSUME TRUE PROVE \A k \in 0..N : h[k] = g[k]
  <2> DEFINE T == {k \in Nat : k \in 0..N => h[k] = g[k]}
  <2>1. 0 \in T
    BY <1>2, <1>5, <1>6
  <2>2. ASSUME NEW k \in Nat, k \in T PROVE k + 1 \in T
    <3>1. SUFFICES ASSUME k + 1 \in 0..N PROVE h[k + 1] = g[k + 1]
      OBVIOUS
    <3>2. k \in 0..N /\ k + 1 # 0 /\ k + 1 - 1 = k /\ h[k] = g[k]
      BY <1>2, <2>2, <3>1
    <3>3. ASSUME NEW f, Solves(f)
          PROVE  f[k + 1] = IF cps[k + 1].index < i THEN Append(f[k], cps[k + 1]) ELSE f[k]
      <4>1. \A m \in 0..N : f[m] = IF m = 0 THEN <<>>
                                   ELSE IF cps[m].index < i THEN Append(f[m - 1], cps[m])
                                        ELSE f[m - 1]
        BY <3>3
      <4> HIDE DEF Solves, N
      <4> QED
        BY <3>1, <3>2, <4>1
    <3> HIDE DEF Solves
    <3> QED
      BY <1>5, <1>6, <3>2, <3>3
  <2>3. Nat \subseteq T
    <3> HIDE DEF T
    <3> QED
      BY <2>1, <2>2, SetInduction
  <2> QED
    BY <2>3
<1>8. Before(cps, i) \in Seq(E)
  <2>1. g \in [0..N -> Seq(E)] /\ N \in 0..N
    <3> HIDE DEF step, E
    <3> QED
      BY <1>2, <1>3 DEF Recursive
  <2> HIDE DEF E, Solves, N
  <2> QED
    BY <1>6, <1>7, <2>1
<1>9. ASSUME NEW s \in Seq(E)
      PROVE  /\ s \in Seq(S)
             /\ \A j \in DOMAIN s : \E k \in DOMAIN cps : s[j] = cps[k] /\ cps[k].index < i
  <2>1. \A j \in DOMAIN s : s[j] \in E
    <3> HIDE DEF E
    <3> QED
      OBVIOUS
  <2>2. E \subseteq S
    OBVIOUS
  <2>3. s \in Seq(S)
    <3> HIDE DEF E
    <3> QED
      BY <2>2
  <2> QED
    BY <2>1, <2>3
<1> QED
  BY <1>8, <1>9
-----------------------------------------------------------------------------
(* Types *)

\* The checkpoints stay where they are.
PlacesKept ==
  /\ checkpoints' \in Seq(Checkpoint) /\ DOMAIN checkpoints' = DOMAIN checkpoints
  /\ \A k \in DOMAIN checkpoints :
        /\ checkpoints'[k].id = checkpoints[k].id
        /\ checkpoints'[k].index = checkpoints[k].index

\* Every checkpoint knows of p once a snapshot is added.
LEMMA AddSnapshotEffect ==
  ASSUME checkpoints \in Seq(Checkpoint), NEW p \in Path, Snapshot(p) \in Content,
         AddSnapshot(p)
  PROVE  /\ PlacesKept
         /\ \A k \in DOMAIN checkpoints :
               /\ checkpoints'[k].was = checkpoints[k].was
               /\ Tracked(checkpoints'[k]) = Tracked(checkpoints[k]) \cup {p}
               /\ \A q \in Tracked(checkpoints[k]) :
                     checkpoints'[k].files[q] = checkpoints[k].files[q]
               /\ p \notin Tracked(checkpoints[k]) =>
                     checkpoints'[k].files[p] = Snapshot(p)
<1>1. \A c \in Checkpoint :
         LET d == WithSnapshot(c, p)
         IN  /\ d \in Checkpoint /\ d.id = c.id /\ d.index = c.index /\ d.was = c.was
             /\ Tracked(d) = Tracked(c) \cup {p} /\ d.files[p] = Snapshot(p)
             /\ \A q \in Tracked(c) : q # p => d.files[q] = c.files[q]
  BY SnapshotAdded
<1>2. DOMAIN checkpoints = 1..Len(checkpoints) /\ Len(checkpoints) \in Nat
      /\ \A k \in DOMAIN checkpoints : checkpoints[k] \in Checkpoint
  OBVIOUS
<1>3. /\ DOMAIN checkpoints' = DOMAIN checkpoints
      /\ \A k \in DOMAIN checkpoints : checkpoints'[k] =
            IF p \in Tracked(checkpoints[k]) THEN checkpoints[k]
            ELSE WithSnapshot(checkpoints[k], p)
      /\ checkpoints' = [k \in DOMAIN checkpoints |-> checkpoints'[k]]
  BY DEF AddSnapshot
<1>4. \A k \in DOMAIN checkpoints :
         /\ checkpoints'[k] \in Checkpoint
         /\ checkpoints'[k].id = checkpoints[k].id
         /\ checkpoints'[k].index = checkpoints[k].index
         /\ checkpoints'[k].was = checkpoints[k].was
         /\ Tracked(checkpoints'[k]) = Tracked(checkpoints[k]) \cup {p}
         /\ \A q \in Tracked(checkpoints[k]) :
               checkpoints'[k].files[q] = checkpoints[k].files[q]
         /\ p \notin Tracked(checkpoints[k]) => checkpoints'[k].files[p] = Snapshot(p)
  <2> SUFFICES ASSUME NEW k \in DOMAIN checkpoints
      PROVE  /\ checkpoints'[k] \in Checkpoint
             /\ checkpoints'[k].id = checkpoints[k].id
             /\ checkpoints'[k].index = checkpoints[k].index
             /\ checkpoints'[k].was = checkpoints[k].was
             /\ Tracked(checkpoints'[k]) = Tracked(checkpoints[k]) \cup {p}
             /\ \A q \in Tracked(checkpoints[k]) :
                   checkpoints'[k].files[q] = checkpoints[k].files[q]
             /\ p \notin Tracked(checkpoints[k]) =>
                   checkpoints'[k].files[p] = Snapshot(p)
    OBVIOUS
  <2>1. CASE p \in Tracked(checkpoints[k])
    BY <1>2, <1>3, <2>1
  <2>2. CASE p \notin Tracked(checkpoints[k])
    BY <1>1, <1>2, <1>3, <2>2
  <2> QED
    BY <2>1, <2>2
<1>5. checkpoints' \in [1..Len(checkpoints) -> Checkpoint]
  BY <1>2, <1>3, <1>4
<1>6. checkpoints' \in Seq(Checkpoint)
  BY <1>2, <1>5, FunctionIsSeq
<1> QED
  BY <1>3, <1>4, <1>6 DEF PlacesKept

\* An edit no checkpoint could know of is noted in those without a snapshot.
LEMMA ForeignEffect ==
  ASSUME checkpoints \in Seq(Checkpoint), NEW p \in Path, NEW v \in Content, Foreign(p, v)
  PROVE  /\ PlacesKept
         /\ \A k \in DOMAIN checkpoints :
               /\ checkpoints'[k].files = checkpoints[k].files
               /\ Tracked(checkpoints'[k]) = Tracked(checkpoints[k])
               /\ \A q \in Path : checkpoints'[k].was[q] =
                     IF q = p /\ p \notin Tracked(checkpoints[k]) THEN v
                     ELSE checkpoints[k].was[q]
<1>1. \A c \in Checkpoint :
         LET d == [c EXCEPT !.was[p] = v]
         IN  /\ d \in Checkpoint /\ d.id = c.id /\ d.index = c.index
             /\ d.files = c.files /\ d.was = [c.was EXCEPT ![p] = v]
  BY ContentNoted
<1>2. DOMAIN checkpoints = 1..Len(checkpoints) /\ Len(checkpoints) \in Nat
      /\ \A k \in DOMAIN checkpoints : checkpoints[k] \in Checkpoint
  OBVIOUS
<1>3. /\ DOMAIN checkpoints' = DOMAIN checkpoints
      /\ \A k \in DOMAIN checkpoints : checkpoints'[k] =
            IF p \in Tracked(checkpoints[k]) THEN checkpoints[k]
            ELSE [checkpoints[k] EXCEPT !.was[p] = v]
      /\ checkpoints' = [k \in DOMAIN checkpoints |-> checkpoints'[k]]
  BY DEF Foreign
<1>4. ASSUME NEW k \in DOMAIN checkpoints
      PROVE  /\ checkpoints'[k] \in Checkpoint
             /\ checkpoints'[k].id = checkpoints[k].id
             /\ checkpoints'[k].index = checkpoints[k].index
             /\ checkpoints'[k].files = checkpoints[k].files
             /\ \A q \in Path : checkpoints'[k].was[q] =
                   IF q = p /\ p \notin Tracked(checkpoints[k]) THEN v
                   ELSE checkpoints[k].was[q]
  <2>1. CASE p \in Tracked(checkpoints[k])
    BY <1>2, <1>3, <2>1
  <2>2. CASE p \notin Tracked(checkpoints[k])
    <3>1. checkpoints[k].was \in [Path -> Content]
      BY <1>2, CheckpointParts
    <3>2. /\ checkpoints'[k] \in Checkpoint
          /\ checkpoints'[k].id = checkpoints[k].id
          /\ checkpoints'[k].index = checkpoints[k].index
          /\ checkpoints'[k].files = checkpoints[k].files
          /\ checkpoints'[k].was = [checkpoints[k].was EXCEPT ![p] = v]
      BY <1>1, <1>2, <1>3, <2>2
    <3> QED
      BY <2>2, <3>1, <3>2
  <2> QED
    BY <2>1, <2>2
<1>5. checkpoints' \in [1..Len(checkpoints) -> Checkpoint]
  BY <1>2, <1>3, <1>4
<1>6. checkpoints' \in Seq(Checkpoint)
  BY <1>2, <1>5, FunctionIsSeq
<1> QED
  BY <1>3, <1>4, <1>6 DEF PlacesKept, Tracked

\* What a snapshot holds.
LEMMA SnapshotType ==
  ASSUME disk \in [Path -> Content], NEW p \in Path
  PROVE  Snapshot(p) \in Content
  BY BoundsAssumption DEF Snapshot, Content, Absent

\* The type of what the front end shows.
Widget == [id : 1..MaxSubmits + 1, index : 1..MaxMessages + 1]

\* The numbers that bound a run.
LEMMA Bounds ==
  /\ MaxMessages \in Nat /\ MaxMessages > 0 /\ MaxSubmits \in Nat /\ MaxEdits \in Nat
  /\ MaxFaults \in Nat /\ Content = 0..MaxEdits + 1 /\ Message = -1..MaxSubmits + 1
  /\ Other = 0 /\ Injected = -1
  BY BoundsAssumption DEF Content, Message, Other, Injected

\* The initial states have their types.
LEMMA InitTypes == Init => TInv
<1> SUFFICES ASSUME Init PROVE TInv
  OBVIOUS
<1>1. PICK r \in 0..1 : /\ messages = [k \in 1..r |-> k] /\ submits = r
                        /\ widgets = [k \in 1..r |-> [id |-> k, index |-> k]]
  BY DEF Init
<1>2. messages \in Seq(Message) /\ Len(messages) = r /\ r <= MaxMessages
  <2>1. messages \in [1..r -> Message]
    BY <1>1, Bounds
  <2> QED
    BY <2>1, FunctionIsSeq, Bounds
<1>3. widgets \in Seq(Widget)
  <2>1. widgets \in [1..r -> Widget]
    BY <1>1, Bounds DEF Widget
  <2> QED
    BY <2>1, FunctionIsSeq
<1>4. /\ phase = "idle" /\ gap = 0 /\ checkpoints = <<>> /\ abandoned = {} /\ target = 0
      /\ disk \in [Path -> {Absent, 1}] /\ unreadable = {} /\ edits = 0 /\ misread = {}
      /\ editing = [t \in Tool |-> NoPath] /\ stale = {} /\ faults = 0
      /\ leftover = 0 /\ removing = FALSE
  BY DEF Init
<1>5. disk \in [Path -> Content] /\ checkpoints \in Seq(Checkpoint)
  BY <1>4, Bounds DEF Absent
<1>6. submits \in 0..MaxSubmits + 1 /\ Len(widgets) \in Nat
  BY <1>1, <1>3, Bounds
<1>7. /\ leftover \in 0..Len(widgets) /\ target \in 0..Len(widgets)
      /\ gap \in 0..Len(messages)
  BY <1>2, <1>4, <1>6
<1>8. removing \in BOOLEAN
  BY <1>4
<1>9. TargetInHistory /\ SubmittedCounted
  BY <1>4 DEF TargetInHistory, SubmittedCounted
<1>10. TypeOK
  BY <1>2, <1>3, <1>4, <1>5, <1>6, <1>7, <1>8, Bounds DEF TypeOK, Widget
<1> QED
  BY <1>9, <1>10 DEF TInv

\* The types in terms of Widget.
LEMMA WidgetType == TypeOK => widgets \in Seq(Widget)
  BY DEF TypeOK, Widget

\* A repair inserts at most one message.
LEMMA RepairedType ==
  ASSUME messages \in Seq(Message), gap \in 0..Len(messages)
  PROVE  Repaired \in Seq(Message) /\ Len(Repaired) \in {Len(messages), Len(messages) + 1}
<1>1. CASE gap = 0
  BY <1>1 DEF Repaired
<1>2. CASE gap # 0
  <2>1. gap + 1 \in 1..Len(messages) + 1 /\ Other \in Message
    BY <1>2, Bounds
  <2>2. /\ InsertAt(messages, gap + 1, Other) \in Seq(Message)
        /\ Len(InsertAt(messages, gap + 1, Other)) = Len(messages) + 1
    BY <2>1, InsertedSeq
  <2> QED
    BY <1>2, <2>2 DEF Repaired
<1> QED
  BY <1>1, <1>2

\* The steps of the conversation.
LEMMA ConversationTypes ==
  ASSUME TInv, Conversation
  PROVE  TInv'
<1> USE DEF TInv
<1>0. /\ messages \in Seq(Message) /\ Len(messages) \in Nat /\ Len(messages) <= MaxMessages
      /\ gap \in 0..Len(messages) /\ submits \in 0..MaxSubmits + 1
      /\ checkpoints \in Seq(Checkpoint) /\ widgets \in Seq(Widget)
      /\ target \in 0..Len(widgets) /\ faults \in 0..MaxFaults
      /\ leftover \in 0..Len(widgets) /\ removing \in BOOLEAN /\ Len(widgets) \in Nat
      /\ disk \in [Path -> Content] /\ editing \in [Tool -> Path \cup {NoPath}]
  BY WidgetType DEF TypeOK
<1>idle. phase # "rewinding" => target = 0
  BY DEF TargetInHistory
<1>1. CASE Submit
  <2>1. /\ phase = "idle" /\ phase' = "submitted" /\ submits' = submits + 1 /\ submits <= MaxSubmits
        /\ widgets' = Append(widgets, [id |-> submits', index |-> Len(messages) + 1])
        /\ UNCHANGED <<messages, gap, checkpoints, leftover, removing, abandoned, target, disk,
                       unreadable, edits, misread, editing, stale, faults>>
    BY <1>1 DEF Submit, LandingIndex, fileVars, toolVars
  <2>2. submits' \in 1..MaxSubmits + 1
    BY <1>0, <2>1, Bounds
  <2>3. [id |-> submits', index |-> Len(messages) + 1] \in Widget
    BY <1>0, <2>2, Bounds DEF Widget
  <2>4. widgets' \in Seq(Widget) /\ Len(widgets') = Len(widgets) + 1
    BY <1>0, <2>1, <2>3, AppendedSeq
  <2>5. target' \in 0..Len(widgets') /\ leftover' \in 0..Len(widgets')
    BY <1>0, <2>1, <2>4
  <2> QED
    BY <1>idle, <2>1, <2>2, <2>4, <2>5 DEF TypeOK, TargetInHistory, SubmittedCounted, Widget
<1>2. CASE Abandon
  <2>1. /\ phase = "submitted" /\ phase' = "idle" /\ abandoned' = abandoned \cup {submits} 
        /\ faults' = faults + 1 /\ faults < MaxFaults /\ submits \in 1..MaxSubmits + 1
        /\ UNCHANGED <<messages, gap, submits, checkpoints, widgets, leftover, removing,
                       target, disk, unreadable, edits, misread, editing, stale>>
    BY <1>2 DEF Abandon, historyVars, shownVars, fileVars, toolVars, SubmittedCounted
  <2>2. faults' \in 0..MaxFaults
    BY <1>0, <2>1, Bounds
  <2> QED
    BY <1>idle, <2>1, <2>2 DEF TypeOK, TargetInHistory, SubmittedCounted
<1>3. CASE Act
  <2> DEFINE r == Repaired
             known == IF checkpoints = <<>> THEN {} ELSE Tracked(Last(checkpoints))
             cp == [id |-> submits, index |-> Len(r) + 1,
                    files |-> [p \in known |-> Snapshot(p)], was |-> disk]
  <2>1. /\ phase = "submitted" /\ phase' = "running" /\ submits \in 1..MaxSubmits + 1 /\ gap' = 0
        /\ Len(messages) + 1 < MaxMessages /\ messages' = Append(r, submits)
        /\ checkpoints' = Append(checkpoints, cp) /\ Misread(known)
        /\ UNCHANGED <<submits, widgets, leftover, removing, abandoned, target, disk,
                       unreadable, edits, editing, stale, faults>>
    BY <1>3 DEF Act, CreateCheckpoint, uiVars, shownVars, fileVars, toolVars, SubmittedCounted
  <2>2. r \in Seq(Message) /\ Len(r) \in {Len(messages), Len(messages) + 1}
    BY <1>0, RepairedType
  <2>3. known \in SUBSET Path
    <3>1. checkpoints # <<>> => Last(checkpoints) \in Checkpoint
      BY <1>0 DEF Last
    <3> QED
      BY <3>1, CheckpointParts
  <2>4. \A p \in Path : Snapshot(p) \in Content
    BY <1>0, SnapshotType
  <2> HIDE DEF r, known
  <2>5. Len(r) + 1 \in 1..MaxMessages
    BY <1>0, <2>1, <2>2, Bounds
  <2>6. cp \in Checkpoint
    <3>1. [p \in known |-> Snapshot(p)] \in [known -> Content]
      BY <2>3, <2>4
    <3> QED
      BY <1>0, <2>1, <2>3, <2>5, <3>1, CheckpointMade
  <2>7. checkpoints' \in Seq(Checkpoint)
    <3> HIDE DEF cp
    <3> QED
      BY <1>0, <2>1, <2>6
  <2>8. messages' \in Seq(Message) /\ Len(messages') = Len(r) + 1
    <3>1. submits \in Message
      BY <2>1, Bounds
    <3> QED
      BY <2>1, <2>2, <3>1, AppendedSeq
  <2>9. Len(messages') <= MaxMessages /\ gap' \in 0..Len(messages')
    BY <2>1, <2>2, <2>5, <2>8, Bounds
  <2>10. misread' \in SUBSET Path
    BY <2>1, <2>3 DEF Misread, TypeOK
  <2> QED
    BY <1>idle, <2>1, <2>7, <2>8, <2>9, <2>10 DEF TypeOK, TargetInHistory, SubmittedCounted
<1>4. ASSUME NEW m \in {Other, Injected}, AppendMessage(m) PROVE TInv'
  <2>1. /\ messages' = Append(messages, m) /\ Len(messages) < MaxMessages
        /\ gap' \in {gap, 0}
        /\ UNCHANGED <<phase, submits, checkpoints, widgets, leftover, removing, abandoned,
                       target, disk, unreadable, edits, misread, editing, stale, faults>>
    BY <1>4 DEF AppendMessage, uiVars, shownVars, fileVars, toolVars
  <2>2. messages' \in Seq(Message) /\ Len(messages') = Len(messages) + 1
    <3>1. m \in Message
      BY Bounds
    <3> QED
      BY <1>0, <2>1, <3>1, AppendedSeq
  <2>3. /\ Len(messages') <= MaxMessages /\ gap' \in 0..Len(messages')
        /\ \A i \in Int : i <= Len(messages) => i <= Len(messages')
    BY <1>0, <2>1, <2>2, Bounds
  <2>4. TargetInHistory'
    <3>1. \A w \in 1..Len(widgets) : widgets[w].index \in Int
      <4>1. \A w \in 1..Len(widgets) : widgets[w] \in Widget
        BY <1>0
      <4> QED
        BY <4>1, Bounds DEF Widget
    <3> QED
      BY <2>1, <2>3, <3>1 DEF TargetInHistory
  <2> QED
    BY <2>1, <2>2, <2>3, <2>4 DEF TypeOK, SubmittedCounted
<1>5. ASSUME NEW b \in BOOLEAN, EndAct(b) PROVE TInv'
  <2>1. /\ phase = "running" /\ phase' = "idle" /\ gap' \in {gap, Len(messages)}
        /\ faults' = faults \/ (faults < MaxFaults /\ faults' = faults + 1)
        /\ UNCHANGED <<messages, submits, checkpoints, widgets, leftover, removing, abandoned,
                       target, disk, unreadable, edits, misread, editing, stale>>
    BY <1>5 DEF EndAct, uiVars, shownVars, fileVars, toolVars
  <2>2. faults' \in 0..MaxFaults /\ gap' \in 0..Len(messages)
    BY <1>0, <2>1, Bounds
  <2> QED
    BY <1>idle, <2>1, <2>2 DEF TypeOK, TargetInHistory, SubmittedCounted
<1>6. ASSUME NEW fails \in BOOLEAN, Clear(fails) PROVE TInv'
  <2>1. /\ phase = "idle" /\ messages' = <<>> /\ gap' = 0 /\ checkpoints' = <<>>
        /\ \/ widgets' = <<>> /\ leftover' = 0 /\ faults' = faults
           \/ /\ widgets' = widgets /\ leftover' = Len(widgets)
              /\ faults < MaxFaults /\ faults' = faults + 1
        /\ stale' \in SUBSET Tool
        /\ UNCHANGED <<phase, submits, removing, abandoned, target, disk, unreadable, edits,
                       misread, editing>>
    BY <1>6 DEF Clear, Reset, fileVars
  <2>2. messages' \in Seq(Message) /\ checkpoints' \in Seq(Checkpoint) /\ Len(messages') = 0
    BY <2>1
  <2>3. widgets' \in Seq(Widget) /\ Len(widgets') \in Nat /\ leftover' \in 0..Len(widgets')
    <3>1. CASE widgets' = <<>> /\ leftover' = 0
      BY <3>1
    <3>2. CASE widgets' = widgets /\ leftover' = Len(widgets)
      BY <1>0, <3>2
    <3> QED
      BY <2>1, <3>1, <3>2
  <2>4. target' = 0 /\ Len(messages') <= MaxMessages /\ faults' \in 0..MaxFaults
    BY <1>0, <2>1, <2>2, Bounds DEF TargetInHistory
  <2>5. gap' \in 0..Len(messages') /\ target' \in 0..Len(widgets')
    BY <2>1, <2>2, <2>3, <2>4
  <2> QED
    BY <2>1, <2>2, <2>3, <2>4, <2>5 DEF TypeOK, TargetInHistory, SubmittedCounted, Widget
<1>7. ASSUME NEW kept \in 0..MaxMessages, Summarize(kept) PROVE TInv'
  <2>1. /\ phase \in {"idle", "running"} /\ phase' \in {"compacting", "summarizing"}
        /\ messages' = [i \in 1..kept + 1 |-> Injected] /\ kept < MaxMessages
        /\ gap' = 0 /\ checkpoints' = <<>> /\ leftover' = Len(widgets) /\ stale' \in SUBSET Tool
        /\ UNCHANGED <<submits, widgets, removing, abandoned, target, disk, unreadable, edits,
                       misread, editing, faults>>
    BY <1>7 DEF Summarize, Reset, fileVars
  <2>2. kept + 1 \in Nat /\ kept + 1 <= MaxMessages
    BY <2>1, Bounds
  <2>3. messages' \in Seq(Message) /\ Len(messages') = kept + 1
    <3>1. messages' \in [1..kept + 1 -> Message]
      BY <2>1, Bounds
    <3> QED
      BY <2>2, <3>1, FunctionIsSeq
  <2>4. checkpoints' \in Seq(Checkpoint) /\ leftover' \in 0..Len(widgets')
    BY <1>0, <2>1
  <2>5. gap' \in 0..Len(messages')
    BY <2>1, <2>2, <2>3
  <2> QED
    BY <1>idle, <2>1, <2>2, <2>3, <2>4, <2>5 DEF TypeOK, TargetInHistory, SubmittedCounted
<1>8. ASSUME NEW asked \in BOOLEAN, FailSummary(asked) PROVE TInv'
  <2>1. /\ phase \in {"idle", "running"} /\ phase' = "idle" /\ gap' = 0
        /\ messages' = Append(Repaired, Injected) \/ messages' = Repaired
        /\ Len(messages) + 1 < MaxMessages
        /\ faults < MaxFaults /\ faults' = faults + 1
        /\ UNCHANGED <<submits, checkpoints, widgets, leftover, removing, abandoned, target,
                       disk, unreadable, edits, misread, editing, stale>>
    BY <1>8 DEF FailSummary, uiVars, shownVars, fileVars, toolVars
  <2>2. /\ messages' \in Seq(Message) /\ Len(messages') \in {Len(Repaired), Len(Repaired) + 1}
        /\ Len(Repaired) \in {Len(messages), Len(messages) + 1}
    <3>1. Injected \in Message
      BY Bounds
    <3>2. Repaired \in Seq(Message) /\ Len(Repaired) \in {Len(messages), Len(messages) + 1}
      BY <1>0, RepairedType
    <3> QED
      BY <2>1, <3>1, <3>2, AppendedSeq
  <2>3. /\ Len(messages') <= MaxMessages /\ gap' \in 0..Len(messages')
        /\ faults' \in 0..MaxFaults
    BY <1>0, <2>1, <2>2, Bounds
  <2> QED
    BY <1>idle, <2>1, <2>2, <2>3 DEF TypeOK, TargetInHistory, SubmittedCounted
<1>9. ASSUME NEW fails \in BOOLEAN, EndCompact(fails) PROVE TInv'
  <2>1. /\ phase \in {"compacting", "summarizing"} /\ phase' \in {"running", "idle"}
        /\ faults' = faults \/ (faults < MaxFaults /\ faults' = faults + 1)
        /\ removing' = ~fails
        /\ UNCHANGED <<messages, gap, submits, checkpoints, widgets, leftover, abandoned,
                       target, disk, unreadable, edits, misread, editing, stale>>
    BY <1>9 DEF EndCompact, historyVars, fileVars, toolVars
  <2>2. faults' \in 0..MaxFaults /\ removing' \in BOOLEAN
    BY <1>0, <2>1, Bounds
  <2> QED
    BY <1>idle, <2>1, <2>2 DEF TypeOK, TargetInHistory, SubmittedCounted
<1>10. CASE RemoveOld
  <2>1. /\ phase # "rewinding" /\ leftover' = 0 /\ removing' = FALSE
        /\ widgets' = SubSeq(widgets, leftover + 1, Len(widgets))
        /\ UNCHANGED <<phase, messages, gap, submits, checkpoints, abandoned, target, disk,
                       unreadable, edits, misread, editing, stale, faults>>
    BY <1>10 DEF RemoveOld, historyVars, fileVars, toolVars
  <2>2. widgets' \in Seq(Widget) /\ Len(widgets') \in Nat
    BY <1>0, <2>1
  <2>3. target' = 0 /\ leftover' \in 0..Len(widgets') /\ target' \in 0..Len(widgets')
    BY <1>idle, <2>1, <2>2
  <2> QED
    BY <2>1, <2>2, <2>3 DEF TypeOK, TargetInHistory, SubmittedCounted, Widget
<1> QED
  BY <1>1, <1>2, <1>3, <1>4, <1>5, <1>6, <1>7, <1>8, <1>9, <1>10 DEF Conversation

\* A content is written to a path.
LEMMA DiskWritten ==
  ASSUME disk \in [Path -> Content], NEW p \in Path, NEW v \in Content,
         disk' = [disk EXCEPT ![p] = v]
  PROVE  /\ disk' \in [Path -> Content] /\ disk'[p] = v
         /\ \A q \in Path : q # p => disk'[q] = disk[q]
  OBVIOUS

\* The tools, the user and the access to the files.
LEMMA FilesTypes ==
  ASSUME TInv, Files
  PROVE  TInv'
<1> USE DEF TInv
<1>0. /\ checkpoints \in Seq(Checkpoint) /\ edits \in 0..MaxEdits /\ faults \in 0..MaxFaults
      /\ disk \in [Path -> Content] /\ editing \in [Tool -> Path \cup {NoPath}]
      /\ unreadable \in SUBSET Path /\ misread \in SUBSET Path /\ stale \in SUBSET Tool
  BY DEF TypeOK
<1>1. ASSUME NEW t \in Tool, NEW p \in Path, BeginEdit(t, p) PROVE TInv'
  <2>1. /\ editing' = [editing EXCEPT ![t] = p] /\ AddSnapshot(p) /\ Misread({p})
        /\ stale' \in {stale \cup {t}, stale}
        /\ UNCHANGED <<phase, messages, gap, submits, widgets, leftover, removing, abandoned,
                       target, disk, unreadable, edits, faults>>
    BY <1>1 DEF BeginEdit, historyVars, uiVars, shownVars, fileVars
  <2>2. checkpoints' \in Seq(Checkpoint)
    BY <1>0, <2>1, SnapshotType, AddSnapshotEffect DEF PlacesKept
  <2>3. /\ editing' \in [Tool -> Path \cup {NoPath}] /\ stale' \in SUBSET Tool
        /\ misread' \in SUBSET Path
    BY <1>0, <2>1 DEF Misread
  <2> QED
    BY <2>1, <2>2, <2>3 DEF TypeOK, TargetInHistory, SubmittedCounted
<1>2. ASSUME NEW t \in Tool, NEW fails \in BOOLEAN, Write(t, fails) PROVE TInv'
  <2>1. /\ editing[t] # NoPath /\ editing' = [editing EXCEPT ![t] = NoPath]
        /\ stale' = stale \ {t}
        /\ UNCHANGED <<phase, messages, gap, submits, widgets, leftover, removing, abandoned,
                       target, unreadable, misread, faults>>
    BY <1>2 DEF Write, historyVars, uiVars, shownVars
  <2>2. editing[t] \in Path
    BY <1>0, <2>1
  <2>3. /\ checkpoints' \in Seq(Checkpoint) /\ edits' \in 0..MaxEdits
        /\ disk' \in [Path -> Content]
    <3>1. CASE fails
      BY <1>0, <1>2, <3>1 DEF Write
    <3>2. CASE ~fails
      <4>1. /\ edits < MaxEdits /\ edits' = edits + 1
            /\ disk' = [disk EXCEPT ![editing[t]] = edits' + 1]
            /\ UNCHANGED checkpoints \/ Foreign(editing[t], edits' + 1)
        BY <1>2, <3>2 DEF Write
      <4>2. edits' \in 0..MaxEdits /\ edits' + 1 \in Content
        BY <1>0, <4>1, Bounds
      <4> QED
        BY <1>0, <2>2, <4>1, <4>2, DiskWritten, ForeignEffect DEF PlacesKept
    <3> QED
      BY <3>1, <3>2
  <2>4. editing' \in [Tool -> Path \cup {NoPath}] /\ stale' \in SUBSET Tool
    BY <1>0, <2>1
  <2> QED
    BY <2>1, <2>3, <2>4 DEF TypeOK, TargetInHistory, SubmittedCounted
<1>3. ASSUME NEW p \in Path, NEW deletes \in BOOLEAN, UserEdit(p, deletes) PROVE TInv'
  <2> DEFINE v == IF deletes THEN Absent ELSE edits' + 1
  <2>1. /\ edits < MaxEdits /\ edits' = edits + 1 /\ disk' = [disk EXCEPT ![p] = v]
        /\ Foreign(p, disk'[p])
        /\ UNCHANGED <<phase, messages, gap, submits, widgets, leftover, removing, abandoned,
                       target, unreadable, misread, editing, stale, faults>>
    BY <1>3 DEF UserEdit, historyVars, uiVars, shownVars, toolVars
  <2>2. v \in Content /\ edits' \in 0..MaxEdits
    BY <1>0, <2>1, Bounds DEF Absent
  <2> HIDE DEF v
  <2>3. disk' \in [Path -> Content] /\ disk'[p] = v
    BY <1>0, <2>1, <2>2, DiskWritten
  <2>4. checkpoints' \in Seq(Checkpoint)
    BY <1>0, <2>1, <2>2, <2>3, ForeignEffect DEF PlacesKept
  <2> QED
    BY <2>1, <2>2, <2>3, <2>4 DEF TypeOK, TargetInHistory, SubmittedCounted
<1>4. ASSUME NEW p \in Path, ChangeAccess(p) PROVE TInv'
  <2>1. /\ faults < MaxFaults /\ faults' = faults + 1
        /\ unreadable' \in {unreadable \ {p}, unreadable \cup {p}}
        /\ UNCHANGED <<phase, messages, gap, submits, checkpoints, widgets, leftover, removing,
                       abandoned, target, disk, edits, misread, editing, stale>>
    BY <1>4 DEF ChangeAccess, historyVars, uiVars, shownVars, toolVars
  <2>2. faults' \in 0..MaxFaults /\ unreadable' \in SUBSET Path
    BY <1>0, <2>1, Bounds
  <2> QED
    BY <2>1, <2>2 DEF TypeOK, TargetInHistory, SubmittedCounted
<1> QED
  BY <1>1, <1>2, <1>3, <1>4 DEF Files

\* A checkpoint found by its index is one of the checkpoints.
LEMMA FoundCheckpoint ==
  ASSUME checkpoints \in Seq(Checkpoint), NEW i \in Int, CheckpointAt(i) > 0
  PROVE  CheckpointAt(i) \in DOMAIN checkpoints
<1> DEFINE I == {j \in 1..Len(checkpoints) : checkpoints[j].index = i}
<1>1. CheckpointAt(i) = IF I # {} THEN Min(I) ELSE 0
  BY DEF CheckpointAt, SelectInSeq
<1>2. I \subseteq Nat /\ DOMAIN checkpoints = 1..Len(checkpoints)
  OBVIOUS
<1>3. I # {}
  BY <1>1
<1>4. Min(I) \in I
  <2> HIDE DEF I
  <2> QED
    BY <1>2, <1>3, LeastNatural DEF Min
<1> QED
  BY <1>1, <1>2, <1>3, <1>4

\* What a rewind may restore: the files of one checkpoint.
LEMMA RestoredFiles ==
  ASSUME TypeOK, NEW w \in DOMAIN widgets, NEW restore \in BOOLEAN, NEW failed \in SUBSET Path,
         StartRewind(w, restore, failed)
  PROVE  /\ disk' \in [Path -> Content]
         /\ \/ disk' = disk
            \/ \E k \in DOMAIN checkpoints : \A p \in Path :
                  disk'[p] = IF p \in Tracked(checkpoints[k]) \ failed
                             THEN checkpoints[k].files[p] ELSE disk[p]
<1>1. /\ checkpoints \in Seq(Checkpoint) /\ disk \in [Path -> Content]
      /\ widgets[w].index \in Int
  <2>1. widgets[w] \in Widget
    BY WidgetType DEF TypeOK
  <2> QED
    BY <2>1, Bounds DEF TypeOK, Widget
<1>2. CASE restore
  <2> DEFINE k == CheckpointAt(widgets[w].index)
  <2>1. k > 0 /\ Restore(checkpoints[k], failed)
    BY <1>2 DEF StartRewind
  <2>2. k \in DOMAIN checkpoints
    BY <1>1, <2>1, FoundCheckpoint
  <2> HIDE DEF k
  <2>3. checkpoints[k] \in Checkpoint
    BY <1>1, <2>2
  <2>4. checkpoints[k].files \in [Tracked(checkpoints[k]) -> Content]
    BY <2>3, CheckpointParts
  <2>5. disk' = [p \in Path |-> IF p \in Tracked(checkpoints[k]) \ failed
                                THEN checkpoints[k].files[p] ELSE disk[p]]
    BY <2>1 DEF Restore
  <2> QED
    BY <1>1, <2>2, <2>4, <2>5
<1>3. CASE ~restore
  BY <1>1, <1>3 DEF StartRewind
<1> QED
  BY <1>2, <1>3

\* A rewind.
LEMMA RewindingTypes ==
  ASSUME TInv, Rewinding
  PROVE  TInv'
<1> USE DEF TInv
<1>0. /\ messages \in Seq(Message) /\ Len(messages) \in Nat /\ Len(messages) <= MaxMessages
      /\ gap \in 0..Len(messages) /\ checkpoints \in Seq(Checkpoint)
      /\ widgets \in Seq(Widget) /\ faults \in 0..MaxFaults
      /\ DOMAIN widgets = 1..Len(widgets) /\ Len(widgets) \in Nat
      /\ leftover \in 0..Len(widgets) /\ removing \in BOOLEAN
  BY WidgetType DEF TypeOK
<1>1. ASSUME NEW w \in DOMAIN widgets, NEW b \in BOOLEAN, NEW f \in SUBSET Path,
             StartRewind(w, b, f)
      PROVE  TInv'
  <2>1. /\ widgets[w].index <= Len(messages) /\ target' = w /\ phase' = "rewinding"
        /\ UNCHANGED <<messages, gap, submits, checkpoints, widgets, leftover, removing,
                       abandoned, unreadable, edits, misread, editing, stale, faults>>
    BY <1>1 DEF StartRewind, historyVars, shownVars, toolVars
  <2>2. disk' \in [Path -> Content]
    BY <1>1, RestoredFiles
  <2>3. w \in 1..Len(widgets) /\ w \in 0..Len(widgets)
    BY <1>0
  <2> QED
    BY <2>1, <2>2, <2>3 DEF TypeOK, TargetInHistory, SubmittedCounted
<1>2. CASE FinishRewind
  <2> DEFINE i == widgets[target].index
  <2>1. /\ checkpoints' = Before(checkpoints, i) /\ messages' = SubSeq(messages, 1, i - 1)
        /\ gap' = (IF gap < i THEN gap ELSE 0)
        /\ widgets' = SubSeq(widgets, 1, target - 1)
        /\ stale' = {t \in Tool : editing[t] # NoPath} /\ target' = 0 /\ phase' = "idle"
        /\ phase = "rewinding"
        /\ \/ target <= leftover /\ leftover' = target - 1 /\ removing' = FALSE
           \/ ~(target <= leftover) /\ UNCHANGED <<leftover, removing>>
        /\ UNCHANGED <<submits, abandoned, disk, unreadable, edits, misread, editing, faults>>
    BY <1>2 DEF FinishRewind, DropCheckpoints, DropWidgets, fileVars
  <2>2. target \in 1..Len(widgets) /\ i <= Len(messages)
    BY <2>1 DEF TargetInHistory
  <2>3. i \in 1..MaxMessages + 1
    <3>1. widgets[target] \in Widget
      BY <1>0, <2>2
    <3> QED
      BY <3>1 DEF Widget
  <2> HIDE DEF i
  <2>4. i - 1 \in 0..Len(messages) /\ target - 1 \in 0..Len(widgets) /\ i \in Int
    BY <1>0, <2>2, <2>3, Bounds
  <2>5. messages' \in Seq(Message) /\ Len(messages') = i - 1
    BY <1>0, <2>1, <2>4, PrefixOfSeq
  <2>6. widgets' \in Seq(Widget) /\ Len(widgets') = target - 1
    BY <1>0, <2>1, <2>4, PrefixOfSeq
  <2>7. checkpoints' \in Seq(Checkpoint)
    BY <1>0, <2>1, <2>4, BeforeKeeps
  <2>8. Len(messages') <= MaxMessages /\ gap' \in 0..Len(messages') /\ target' \in 0..Len(widgets')
    BY <1>0, <2>1, <2>4, <2>5, <2>6, Bounds
  <2>9. stale' \in SUBSET Tool /\ removing' \in BOOLEAN /\ leftover' \in 0..Len(widgets')
    <3>1. stale' \in SUBSET Tool
      BY <2>1
    <3>2. removing' \in BOOLEAN
      BY <1>0, <2>1
    <3>3. leftover \in Nat /\ target \in Nat /\ target > 0
      BY <1>0, <2>2
    <3>4. leftover' \in 0..target - 1
      BY <2>1, <3>3
    <3> QED
      BY <2>6, <3>1, <3>2, <3>4
  <2> QED
    BY <2>1, <2>5, <2>6, <2>7, <2>8, <2>9
    DEF TypeOK, TargetInHistory, SubmittedCounted, Widget
<1>3. CASE FailRewind
  <2>1. /\ faults < MaxFaults /\ faults' = faults + 1 /\ target' = 0 /\ phase' = "idle"
        /\ UNCHANGED <<messages, gap, submits, checkpoints, widgets, leftover, removing,
                       abandoned, disk, unreadable, edits, misread, editing, stale>>
    BY <1>3 DEF FailRewind, historyVars, shownVars, fileVars, toolVars
  <2>2. faults' \in 0..MaxFaults /\ target' \in 0..Len(widgets)
    BY <1>0, <2>1, Bounds
  <2> QED
    BY <2>1, <2>2 DEF TypeOK, TargetInHistory, SubmittedCounted
<1> QED
  BY <1>1, <1>2, <1>3 DEF Rewinding

\* Every step keeps the types.
LEMMA NextTypes == TInv /\ [Next]_vars => TInv'
<1>1. TInv /\ Next => TInv'
  BY ConversationTypes, FilesTypes, RewindingTypes DEF Next
<1>2. TInv /\ UNCHANGED vars => TInv'
  BY DEF vars, historyVars, uiVars, shownVars, fileVars, toolVars, TInv, TypeOK, TargetInHistory,
         SubmittedCounted
<1> QED
  BY <1>1, <1>2

\* The types with the strengthening of them hold throughout.
THEOREM TypeInvariance == Spec => []TInv
  BY InitTypes, NextTypes, PTL DEF Spec

\* The type invariant, for any files, tools and bounds.
THEOREM TypeCorrect == Spec => []TypeOK
<1>1. TInv => TypeOK
  BY DEF TInv
<1> QED
  BY <1>1, TypeInvariance, PTL

-----------------------------------------------------------------------------
(* Checkpoints and messages *)

\* What the steps below use of the types.
Shape ==
  /\ messages \in Seq(Message) /\ checkpoints \in Seq(Checkpoint) /\ widgets \in Seq(Widget)
  /\ gap \in 0..Len(messages) /\ leftover \in 0..Len(widgets)
  /\ \A k \in DOMAIN checkpoints : checkpoints[k].index \in 1..MaxMessages
  /\ \A w \in DOMAIN widgets : widgets[w].index \in 1..MaxMessages + 1

\* They follow from the type invariant.
LEMMA ShapeHolds == TypeOK => Shape
<1> SUFFICES ASSUME TypeOK PROVE Shape
  OBVIOUS
<1>1. /\ messages \in Seq(Message) /\ checkpoints \in Seq(Checkpoint)
      /\ widgets \in Seq(Widget) /\ gap \in 0..Len(messages) /\ leftover \in 0..Len(widgets)
  BY WidgetType DEF TypeOK
<1>2. /\ \A k \in DOMAIN checkpoints : checkpoints[k] \in Checkpoint
      /\ \A w \in DOMAIN widgets : widgets[w] \in Widget
  BY <1>1
<1>3. \A c \in Checkpoint : c.index \in 1..MaxMessages
  BY DEF Checkpoint
<1>4. \A c \in Widget : c.index \in 1..MaxMessages + 1
  BY DEF Widget
<1> QED
  BY <1>1, <1>2, <1>3, <1>4 DEF Shape

\* Checkpoints that stay where they are, in a history that stays.
LEMMA PlacesUnmoved ==
  ASSUME CInv, PlacesKept, UNCHANGED <<messages, gap>>
  PROVE  CInv'
  BY DEF CInv, PlacesKept, CheckpointsAtTheirMessages, GapBehindCheckpoints

\* A message appended moves none.
LEMMA AppendedAfterCheckpoints ==
  ASSUME Shape, CInv, NEW m \in Message, messages' = Append(messages, m),
         gap' \in {gap, 0}, checkpoints' = checkpoints
  PROVE  CInv'
<1>1. /\ Len(messages') = Len(messages) + 1 /\ Len(messages) \in Nat
      /\ \A i \in 1..Len(messages) : messages'[i] = messages[i]
  BY AppendedSeq DEF Shape
<1>2. ASSUME NEW k \in DOMAIN checkpoints
      PROVE  /\ checkpoints[k].index <= Len(messages')
             /\ messages'[checkpoints[k].index] = checkpoints[k].id
  <2>1. checkpoints[k].index \in 1..Len(messages)
    BY <1>1 DEF Shape, CInv, CheckpointsAtTheirMessages
  <2> QED
    BY <1>1, <2>1 DEF CInv, CheckpointsAtTheirMessages
<1>3. GapBehindCheckpoints'
  BY DEF CInv, GapBehindCheckpoints
<1> QED
  BY <1>2, <1>3 DEF CInv, CheckpointsAtTheirMessages

\* The history that act() repairs still has every checkpoint's message in its place.
LEMMA RepairedBehindCheckpoints ==
  ASSUME Shape, CInv,
         NEW r, r = Repaired
  PROVE  /\ r \in Seq(Message) /\ Len(r) \in {Len(messages), Len(messages) + 1}
         /\ \A k \in DOMAIN checkpoints :
               /\ checkpoints[k].index \in 1..Len(r)
               /\ r[checkpoints[k].index] = checkpoints[k].id
<1>1. Len(messages) \in Nat /\ gap \in 0..Len(messages)
  BY DEF Shape
<1>2. \A k \in DOMAIN checkpoints :
         /\ checkpoints[k].index \in 1..Len(messages)
         /\ messages[checkpoints[k].index] = checkpoints[k].id
  BY <1>1 DEF Shape, CInv, CheckpointsAtTheirMessages
<1>3. CASE gap = 0
  BY <1>2, <1>3 DEF Shape, Repaired
<1>4. CASE gap # 0
  <2>1. gap + 1 \in 1..Len(messages) + 1 /\ Other \in Message /\ gap + 1 - 1 = gap
    BY <1>1, <1>4, Bounds
  <2>2. /\ r \in Seq(Message) /\ Len(r) = Len(messages) + 1
        /\ \A i \in 1..gap : r[i] = messages[i]
    BY <1>4, <2>1, InsertedSeq DEF Shape, Repaired
  <2>3. \A k \in DOMAIN checkpoints : checkpoints[k].index \in 1..gap
    BY <1>1, <1>2, <1>4 DEF CInv, GapBehindCheckpoints
  <2>4. \A i \in 1..Len(messages) : i \in 1..Len(r)
    BY <1>1, <2>2
  <2> QED
    BY <1>2, <2>2, <2>3, <2>4
<1> QED
  BY <1>3, <1>4

\* What a failed compaction appends, after a repair, moves none either.
LEMMA FailedSummaryAfterCheckpoints ==
  ASSUME Shape, CInv, messages' = Append(Repaired, Injected) \/ messages' = Repaired, gap' = 0,
         checkpoints' = checkpoints
  PROVE  CInv'
<1>1. /\ Repaired \in Seq(Message)
      /\ \A k \in DOMAIN checkpoints :
            /\ checkpoints[k].index \in 1..Len(Repaired)
            /\ Repaired[checkpoints[k].index] = checkpoints[k].id
  BY RepairedBehindCheckpoints
<1>2. /\ Len(messages') \in {Len(Repaired), Len(Repaired) + 1} /\ Len(Repaired) \in Nat
      /\ \A i \in 1..Len(Repaired) : messages'[i] = Repaired[i]
  <2>1. Injected \in Message
    BY Bounds
  <2> QED
    BY <1>1, <2>1, AppendedSeq
<1>3. CheckpointsAtTheirMessages'
  BY <1>1, <1>2 DEF CheckpointsAtTheirMessages
<1>4. GapBehindCheckpoints'
  BY DEF GapBehindCheckpoints
<1> QED
  BY <1>3, <1>4 DEF CInv

\* act() puts the checkpoint where it puts the message.
LEMMA ActAtMessage ==
  ASSUME Shape, TInv, CInv, Act
  PROVE  CInv'
<1> DEFINE r == Repaired
           known == IF checkpoints = <<>> THEN {} ELSE Tracked(Last(checkpoints))
           cp == [id |-> submits, index |-> Len(r) + 1,
                  files |-> [p \in known |-> Snapshot(p)], was |-> disk]
<1>1. /\ messages' = Append(r, submits) /\ checkpoints' = Append(checkpoints, cp) /\ gap' = 0
      /\ submits \in 1..MaxSubmits + 1
  BY DEF Act, CreateCheckpoint, TInv, SubmittedCounted
<1>2. /\ r \in Seq(Message)
      /\ \A k \in DOMAIN checkpoints :
            checkpoints[k].index \in 1..Len(r) /\ r[checkpoints[k].index] = checkpoints[k].id
  BY Bounds, RepairedBehindCheckpoints
<1>3. cp.id = submits /\ cp.index = Len(r) + 1
  OBVIOUS
<1> HIDE DEF r, cp
<1>4. /\ Len(messages') = Len(r) + 1 /\ messages'[Len(r) + 1] = submits /\ Len(r) \in Nat
      /\ \A i \in 1..Len(r) : messages'[i] = r[i]
  <2>1. submits \in Message
    BY <1>1, Bounds
  <2> QED
    BY <1>1, <1>2, <2>1, AppendedSeq
<1>5. /\ DOMAIN checkpoints' = 1..Len(checkpoints) + 1 /\ DOMAIN checkpoints = 1..Len(checkpoints)
      /\ checkpoints'[Len(checkpoints) + 1] = cp /\ Len(checkpoints) \in Nat
      /\ \A k \in 1..Len(checkpoints) : checkpoints'[k] = checkpoints[k]
  BY <1>1 DEF Shape
<1>6. ASSUME NEW k \in DOMAIN checkpoints'
      PROVE  /\ checkpoints'[k].index <= Len(messages')
             /\ messages'[checkpoints'[k].index] = checkpoints'[k].id
  <2>1. CASE k = Len(checkpoints) + 1
    BY <1>3, <1>4, <1>5, <2>1
  <2>2. CASE k # Len(checkpoints) + 1
    <3>1. k \in DOMAIN checkpoints /\ checkpoints'[k] = checkpoints[k]
      BY <1>5, <2>2
    <3>2. checkpoints[k].index \in 1..Len(r) /\ r[checkpoints[k].index] = checkpoints[k].id
      BY <1>2, <3>1
    <3> QED
      BY <1>4, <3>1, <3>2
  <2> QED
    BY <2>1, <2>2
<1>7. GapBehindCheckpoints'
  BY <1>1 DEF GapBehindCheckpoints
<1> QED
  BY <1>6, <1>7 DEF CInv, CheckpointsAtTheirMessages

\* A rewind cuts the history behind every checkpoint it keeps.
LEMMA CutBehindCheckpoints ==
  ASSUME Shape, CInv, NEW i \in 1..Len(messages), checkpoints' = Before(checkpoints, i),
         messages' = SubSeq(messages, 1, i - 1), gap' = IF gap < i THEN gap ELSE 0
  PROVE  CInv'
<1>1. \A j \in DOMAIN checkpoints' : \E k \in DOMAIN checkpoints :
         checkpoints'[j] = checkpoints[k] /\ checkpoints[k].index < i
  <2>1. i \in Int /\ checkpoints \in Seq(Checkpoint)
    BY DEF Shape
  <2> QED
    BY <2>1, BeforeKeeps
<1>2. /\ Len(messages') = i - 1 /\ \A n \in 1..i - 1 : messages'[n] = messages[n]
  <2>1. i - 1 \in 0..Len(messages) /\ messages \in Seq(Message)
    BY DEF Shape
  <2> QED
    BY <2>1, PrefixOfSeq
<1>3. ASSUME NEW j \in DOMAIN checkpoints'
      PROVE  /\ checkpoints'[j].index <= Len(messages')
             /\ messages'[checkpoints'[j].index] = checkpoints'[j].id
             /\ gap' > 0 => checkpoints'[j].index <= gap'
  <2>1. PICK k \in DOMAIN checkpoints :
           checkpoints'[j] = checkpoints[k] /\ checkpoints[k].index < i
    BY <1>1
  <2>2. checkpoints[k].index \in 1..i - 1
    BY <2>1 DEF Shape
  <2>3. messages'[checkpoints[k].index] = checkpoints[k].id
    BY <1>2, <2>2 DEF CInv, CheckpointsAtTheirMessages
  <2>4. gap' > 0 => checkpoints[k].index <= gap'
    BY DEF CInv, GapBehindCheckpoints, Shape
  <2> QED
    BY <1>2, <2>1, <2>2, <2>3, <2>4
<1> QED
  BY <1>3 DEF CInv, CheckpointsAtTheirMessages, GapBehindCheckpoints

\* Every step keeps the checkpoints at their messages.
LEMMA NextAtMessages == TInv /\ CInv /\ [Next]_vars => CInv'
<1> SUFFICES ASSUME TInv, CInv, [Next]_vars PROVE CInv'
  OBVIOUS
<1>1. Shape /\ disk \in [Path -> Content] /\ edits \in 0..MaxEdits
      /\ editing \in [Tool -> Path \cup {NoPath}]
  BY ShapeHolds DEF TInv, TypeOK
<1>2. ASSUME UNCHANGED <<messages, gap, checkpoints>> PROVE CInv'
  BY <1>2 DEF CInv, CheckpointsAtTheirMessages, GapBehindCheckpoints
<1>3. CASE Submit \/ Abandon \/ FailRewind
  BY <1>2, <1>3 DEF Submit, Abandon, FailRewind, historyVars
<1>4. CASE Act
  BY <1>1, <1>4, ActAtMessage
<1>5. ASSUME NEW m \in {Other, Injected}, AppendMessage(m) PROVE CInv'
  <2>1. /\ messages' = Append(messages, m) /\ gap' \in {gap, 0} /\ checkpoints' = checkpoints
    BY <1>5 DEF AppendMessage
  <2>2. m \in Message
    BY Bounds
  <2> QED
    BY <1>1, <2>1, <2>2, AppendedAfterCheckpoints
<1>6. ASSUME NEW b \in BOOLEAN, EndAct(b) PROVE CInv'
  <2>1. gap' \in {gap, Len(messages)} /\ UNCHANGED <<messages, checkpoints>>
    BY <1>6 DEF EndAct
  <2> QED
    BY <2>1 DEF CInv, CheckpointsAtTheirMessages, GapBehindCheckpoints
<1>7. ASSUME (\E fails \in BOOLEAN : Clear(fails)) \/ \E kept \in 0..MaxMessages : Summarize(kept) PROVE CInv'
  <2>1. checkpoints' = <<>>
    BY <1>7 DEF Clear, Summarize, Reset
  <2> QED
    BY <2>1 DEF CInv, CheckpointsAtTheirMessages, GapBehindCheckpoints
<1>15. ASSUME NEW asked \in BOOLEAN, FailSummary(asked) PROVE CInv'
  BY <1>1, <1>15, FailedSummaryAfterCheckpoints DEF FailSummary
<1>16. ASSUME (\E fails \in BOOLEAN : EndCompact(fails)) \/ RemoveOld PROVE CInv'
  BY <1>2, <1>16 DEF EndCompact, RemoveOld, historyVars
<1>8. ASSUME NEW t \in Tool, NEW p \in Path, BeginEdit(t, p) PROVE CInv'
  <2>1. AddSnapshot(p) /\ UNCHANGED <<messages, gap>>
    BY <1>8 DEF BeginEdit, historyVars
  <2> QED
    BY <1>1, <2>1, SnapshotType, AddSnapshotEffect, PlacesUnmoved DEF Shape
<1>9. ASSUME NEW t \in Tool, NEW fails \in BOOLEAN, Write(t, fails) PROVE CInv'
  <2>1. /\ UNCHANGED <<messages, gap>> /\ editing[t] \in Path
        /\ UNCHANGED checkpoints \/ (edits < MaxEdits /\ Foreign(editing[t], edits + 2))
    BY <1>1, <1>9 DEF Write, historyVars
  <2>2. edits < MaxEdits => edits + 2 \in Content
    BY <1>1, Bounds
  <2> QED
    BY <1>1, <1>2, <2>1, <2>2, ForeignEffect, PlacesUnmoved DEF Shape
<1>10. ASSUME NEW p \in Path, NEW d \in BOOLEAN, UserEdit(p, d) PROVE CInv'
  <2>1. /\ UNCHANGED <<messages, gap>> /\ Foreign(p, disk'[p])
        /\ disk' = [disk EXCEPT ![p] = IF d THEN Absent ELSE edits' + 1]
        /\ edits < MaxEdits /\ edits' = edits + 1
    BY <1>10 DEF UserEdit, historyVars
  <2>2. disk'[p] \in Content
    BY <1>1, <2>1, Bounds DEF Absent
  <2> QED
    BY <1>1, <2>1, <2>2, ForeignEffect, PlacesUnmoved DEF Shape
<1>11. ASSUME NEW p \in Path, ChangeAccess(p) PROVE CInv'
  BY <1>2, <1>11 DEF ChangeAccess, historyVars
<1>12. ASSUME NEW w \in DOMAIN widgets, NEW b \in BOOLEAN, NEW f \in SUBSET Path,
              StartRewind(w, b, f)
       PROVE  CInv'
  BY <1>2, <1>12 DEF StartRewind, historyVars
<1>13. CASE FinishRewind
  <2>1. target \in 1..Len(widgets) /\ widgets[target].index <= Len(messages)
    BY <1>13 DEF FinishRewind, TInv, TargetInHistory
  <2>2. widgets[target].index \in 1..Len(messages)
    BY <1>1, <2>1, Bounds DEF Shape
  <2> QED
    BY <1>1, <1>13, <2>2, CutBehindCheckpoints DEF FinishRewind, DropCheckpoints
<1>14. CASE UNCHANGED vars
  BY <1>2, <1>14 DEF vars, historyVars
<1> QED
  BY <1>3, <1>4, <1>5, <1>6, <1>7, <1>8, <1>9, <1>10, <1>11, <1>12, <1>13, <1>14,
     <1>15, <1>16
  DEF Next, Conversation, Files, Rewinding

\* Every checkpoint stands at the user message it was created for, whatever was
\* repaired, rewound, compacted or left unanswered since: a restore offered for a
\* message restores the files of that message.
THEOREM CheckpointsStayAtTheirMessages == Spec => []CheckpointsAtTheirMessages
<1>1. Init => CInv
  BY DEF Init, CInv, CheckpointsAtTheirMessages, GapBehindCheckpoints
<1>2. CInv => CheckpointsAtTheirMessages
  BY DEF CInv
<1> QED
  BY <1>1, <1>2, TypeInvariance, NextAtMessages, PTL DEF Spec

-----------------------------------------------------------------------------
(* Checkpoints and files *)

\* A new checkpoint reads the files of the last one again, and knows of the same.
LEMMA ActReadsAgain ==
  ASSUME TInv, EInv, Act
  PROVE  EInv'
<1> DEFINE known == IF checkpoints = <<>> THEN {} ELSE Tracked(Last(checkpoints))
           n == Len(Repaired)
           cp == [id |-> submits, index |-> n + 1,
                  files |-> [p \in known |-> Snapshot(p)], was |-> disk]
<1>1. /\ checkpoints' = Append(checkpoints, cp) /\ Misread(known)
      /\ UNCHANGED <<disk, editing, stale>>
  BY DEF Act, CreateCheckpoint, fileVars, toolVars
<1>2. /\ cp.was = disk /\ DOMAIN cp.files = known
      /\ \A p \in known : cp.files[p] = Snapshot(p)
  OBVIOUS
<1> HIDE DEF cp, n
<1>3. Tracked(cp) = known
  BY <1>2 DEF Tracked
<1>4. /\ DOMAIN checkpoints' = 1..Len(checkpoints) + 1 /\ DOMAIN checkpoints = 1..Len(checkpoints)
      /\ checkpoints'[Len(checkpoints) + 1] = cp /\ Len(checkpoints) \in Nat
      /\ \A k \in 1..Len(checkpoints) : checkpoints'[k] = checkpoints[k]
      /\ checkpoints # <<>> => Len(checkpoints) \in 1..Len(checkpoints)
  <2>1. checkpoints \in Seq(Checkpoint)
    BY DEF TInv, TypeOK
  <2> QED
    BY <1>1, <2>1
<1>5. misread' = misread \cup {p \in known : Snapshot(p) # disk[p]}
  BY <1>1 DEF Misread
<1>6. ASSUME NEW k \in DOMAIN checkpoints' PROVE Tracked(checkpoints'[k]) = known
  <2>1. CASE k = Len(checkpoints) + 1
    BY <1>3, <1>4, <2>1
  <2>2. CASE k # Len(checkpoints) + 1
    <3>1. k \in DOMAIN checkpoints /\ checkpoints'[k] = checkpoints[k] /\ checkpoints # <<>>
      BY <1>4, <2>2
    <3>2. known = Tracked(checkpoints[Len(checkpoints)])
      BY <3>1 DEF Last
    <3> HIDE DEF known
    <3> QED
      BY <1>4, <3>1, <3>2 DEF EInv, SameFilesTracked
  <2> QED
    BY <2>1, <2>2
<1>7. ASSUME NEW k \in DOMAIN checkpoints', NEW p \in Path \ misread'
      PROVE  checkpoints'[k].was[p] = IF p \in Tracked(checkpoints'[k])
                                      THEN checkpoints'[k].files[p] ELSE disk[p]
  <2> HIDE DEF known
  <2>1. CASE k = Len(checkpoints) + 1
    BY <1>2, <1>3, <1>4, <1>5, <2>1
  <2>2. CASE k # Len(checkpoints) + 1
    <3>1. k \in DOMAIN checkpoints /\ checkpoints'[k] = checkpoints[k]
      BY <1>4, <2>2
    <3>2. p \in Path \ misread
      BY <1>5
    <3> QED
      BY <3>1, <3>2 DEF EInv, EditsUndoable
  <2> QED
    BY <2>1, <2>2
<1>8. EditsTracked'
  <2> SUFFICES ASSUME NEW t \in Tool, editing[t] # NoPath, t \notin stale
               PROVE  checkpoints' # <<>> /\ editing[t] \in known
    BY <1>1, <1>6 DEF EditsTracked
  <2>1. checkpoints # <<>> /\ \A k \in DOMAIN checkpoints : editing[t] \in Tracked(checkpoints[k])
    BY DEF EInv, EditsTracked
  <2>2. editing[t] \in known
    BY <1>4, <2>1 DEF Last
  <2>3. 1 \in DOMAIN checkpoints'
    BY <1>4
  <2> QED
    BY <2>2, <2>3
<1> HIDE DEF known
<1>9. SameFilesTracked'
  BY <1>6 DEF SameFilesTracked
<1>10. EditsUndoable'
  BY <1>1, <1>7 DEF EditsUndoable
<1> QED
  BY <1>8, <1>9, <1>10 DEF EInv

\* A tool's snapshot goes into every checkpoint before the tool writes.
LEMMA BeginEditTracked ==
  ASSUME TInv, EInv, NEW t \in Tool, NEW p \in Path, BeginEdit(t, p)
  PROVE  EInv'
<1>1. /\ editing' = [editing EXCEPT ![t] = p] /\ editing[t] = NoPath
      /\ AddSnapshot(p) /\ misread' = misread \cup {q \in {p} : Snapshot(q) # disk[q]}
      /\ stale' = (IF checkpoints = <<>> THEN stale \cup {t} ELSE stale) /\ disk' = disk
  BY DEF BeginEdit, Misread, fileVars
<1>2. /\ checkpoints \in Seq(Checkpoint) /\ disk \in [Path -> Content]
      /\ editing \in [Tool -> Path \cup {NoPath}]
  BY DEF TInv, TypeOK
<1>3. /\ DOMAIN checkpoints' = DOMAIN checkpoints
      /\ \A k \in DOMAIN checkpoints :
            /\ checkpoints'[k].was = checkpoints[k].was
            /\ Tracked(checkpoints'[k]) = Tracked(checkpoints[k]) \cup {p}
            /\ \A q \in Tracked(checkpoints[k]) :
                  checkpoints'[k].files[q] = checkpoints[k].files[q]
            /\ p \notin Tracked(checkpoints[k]) => checkpoints'[k].files[p] = Snapshot(p)
  BY <1>1, <1>2, SnapshotType, AddSnapshotEffect DEF PlacesKept
<1>4. EditsUndoable'
  <2> SUFFICES ASSUME NEW k \in DOMAIN checkpoints, NEW q \in Path \ misread'
               PROVE  checkpoints'[k].was[q] = IF q \in Tracked(checkpoints'[k])
                                               THEN checkpoints'[k].files[q] ELSE disk[q]
    BY <1>1, <1>3 DEF EditsUndoable
  <2>1. checkpoints[k].was[q] = IF q \in Tracked(checkpoints[k])
                                THEN checkpoints[k].files[q] ELSE disk[q]
    BY <1>1 DEF EInv, EditsUndoable
  <2>2. q = p => Snapshot(p) = disk[p]
    BY <1>1
  <2>3. CASE q \in Tracked(checkpoints[k])
    BY <1>3, <2>1, <2>3
  <2>4. CASE q \notin Tracked(checkpoints[k]) /\ q = p
    BY <1>3, <2>1, <2>2, <2>4
  <2>5. CASE q \notin Tracked(checkpoints[k]) /\ q # p
    BY <1>3, <2>1, <2>5
  <2> QED
    BY <2>3, <2>4, <2>5
<1>5. SameFilesTracked'
  <2> SUFFICES ASSUME NEW j \in DOMAIN checkpoints, NEW k \in DOMAIN checkpoints
               PROVE  Tracked(checkpoints'[j]) = Tracked(checkpoints'[k])
    BY <1>3 DEF SameFilesTracked
  <2>1. Tracked(checkpoints[j]) = Tracked(checkpoints[k])
    BY DEF EInv, SameFilesTracked
  <2> QED
    BY <1>3, <2>1
<1>6. EditsTracked'
  <2> SUFFICES ASSUME NEW u \in Tool, editing'[u] # NoPath, u \notin stale'
               PROVE  /\ checkpoints' # <<>>
                      /\ \A k \in DOMAIN checkpoints : editing'[u] \in Tracked(checkpoints'[k])
    BY <1>3 DEF EditsTracked
  <2>1. checkpoints # <<>> /\ u \notin stale
    <3>1. CASE u = t
      BY <1>1, <3>1
    <3>2. CASE u # t
      BY <1>1, <1>2, <3>2 DEF EInv, EditsTracked
    <3> QED
      BY <3>1, <3>2
  <2>2. checkpoints' # <<>>
    <3>1. 1 \in DOMAIN checkpoints
      BY <1>2, <2>1
    <3> QED
      BY <1>3, <3>1
  <2>3. CASE u = t
    BY <1>1, <1>2, <1>3, <2>2, <2>3
  <2>4. CASE u # t
    <3>1. editing'[u] = editing[u]
      BY <1>1, <1>2, <2>4
    <3> QED
      BY <1>3, <2>1, <2>2, <3>1 DEF EInv, EditsTracked
  <2> QED
    BY <2>3, <2>4
<1> QED
  BY <1>4, <1>5, <1>6 DEF EInv

\* Writing p keeps what the checkpoints give back, when they all know of p or note it.
LEMMA EditKeepsFiles ==
  ASSUME TInv, EInv, NEW p \in Path, NEW v \in Content, disk' = [disk EXCEPT ![p] = v],
         \/ /\ checkpoints' = checkpoints
            /\ \A k \in DOMAIN checkpoints : p \in Tracked(checkpoints[k])
         \/ Foreign(p, v),
         misread' = misread,
         \A t \in Tool : \/ editing'[t] = NoPath
                         \/ editing'[t] = editing[t] /\ (t \notin stale' => t \notin stale)
  PROVE  EInv'
<1>1. /\ checkpoints \in Seq(Checkpoint) /\ disk \in [Path -> Content]
  BY DEF TInv, TypeOK
<1>2. /\ disk'[p] = v /\ \A q \in Path : q # p => disk'[q] = disk[q]
  BY <1>1, DiskWritten
<1>3. /\ DOMAIN checkpoints' = DOMAIN checkpoints
      /\ \A k \in DOMAIN checkpoints :
            /\ checkpoints'[k].files = checkpoints[k].files
            /\ Tracked(checkpoints'[k]) = Tracked(checkpoints[k])
            /\ \A q \in Path : checkpoints'[k].was[q] =
                  IF q = p /\ p \notin Tracked(checkpoints[k]) THEN v
                  ELSE checkpoints[k].was[q]
  <2>1. CASE /\ checkpoints' = checkpoints
             /\ \A k \in DOMAIN checkpoints : p \in Tracked(checkpoints[k])
    BY <2>1
  <2>2. CASE Foreign(p, v)
    BY <1>1, <2>2, ForeignEffect DEF PlacesKept
  <2> QED
    BY <2>1, <2>2
<1>4. EditsUndoable'
  <2> SUFFICES ASSUME NEW k \in DOMAIN checkpoints, NEW q \in Path \ misread
               PROVE  checkpoints'[k].was[q] = IF q \in Tracked(checkpoints'[k])
                                               THEN checkpoints'[k].files[q] ELSE disk'[q]
    BY <1>3 DEF EditsUndoable
  <2>1. checkpoints[k].was[q] = IF q \in Tracked(checkpoints[k])
                                THEN checkpoints[k].files[q] ELSE disk[q]
    BY DEF EInv, EditsUndoable
  <2> QED
    BY <1>2, <1>3, <2>1
<1>5. SameFilesTracked'
  BY <1>3 DEF EInv, SameFilesTracked
<1>6. EditsTracked'
  <2> SUFFICES ASSUME NEW t \in Tool, editing'[t] # NoPath, t \notin stale'
               PROVE  /\ checkpoints' # <<>>
                      /\ \A k \in DOMAIN checkpoints : editing'[t] \in Tracked(checkpoints'[k])
    BY <1>3 DEF EditsTracked
  <2>1. editing'[t] = editing[t] /\ t \notin stale
    OBVIOUS
  <2>2. checkpoints # <<>> /\ \A k \in DOMAIN checkpoints : editing[t] \in Tracked(checkpoints[k])
    BY <2>1 DEF EInv, EditsTracked
  <2>3. 1 \in DOMAIN checkpoints
    BY <1>1, <2>2
  <2>4. checkpoints' # <<>>
    BY <1>3, <2>3
  <2> QED
    BY <1>3, <2>1, <2>2, <2>4
<1> QED
  BY <1>4, <1>5, <1>6 DEF EInv

\* A restore only writes files every checkpoint knows of.
LEMMA RestoreKeepsFiles ==
  ASSUME TInv, EInv, NEW w \in DOMAIN widgets, NEW b \in BOOLEAN, NEW f \in SUBSET Path,
         StartRewind(w, b, f)
  PROVE  EInv'
<1>1. UNCHANGED <<checkpoints, misread, editing, stale>>
  BY DEF StartRewind, toolVars
<1>2. ASSUME NEW k \in DOMAIN checkpoints, NEW p \in Path, p \notin Tracked(checkpoints[k])
      PROVE  disk'[p] = disk[p]
  <2>1. \/ disk' = disk
        \/ \E j \in DOMAIN checkpoints : \A q \in Path :
              disk'[q] = IF q \in Tracked(checkpoints[j]) \ f
                         THEN checkpoints[j].files[q] ELSE disk[q]
    BY RestoredFiles DEF TInv
  <2> QED
    BY <1>2, <2>1 DEF EInv, SameFilesTracked
<1>3. EditsUndoable'
  BY <1>1, <1>2 DEF EInv, EditsUndoable
<1> QED
  BY <1>1, <1>3 DEF EInv, SameFilesTracked, EditsTracked

\* A rewind keeps some of the checkpoints; a tool under way becomes one none knows of.
LEMMA DropKeepsFiles ==
  ASSUME TInv, EInv, FinishRewind
  PROVE  EInv'
<1>1. /\ checkpoints' = Before(checkpoints, widgets[target].index)
      /\ stale' = {t \in Tool : editing[t] # NoPath}
      /\ UNCHANGED <<disk, misread, editing>>
  BY DEF FinishRewind, DropCheckpoints, fileVars
<1>2. Shape /\ target \in DOMAIN widgets
  BY ShapeHolds DEF FinishRewind, TInv, TargetInHistory, TypeOK
<1>3. widgets[target].index \in Int /\ checkpoints \in Seq(Checkpoint)
  BY <1>2, Bounds DEF Shape
<1>4. \A j \in DOMAIN checkpoints' : \E k \in DOMAIN checkpoints : checkpoints'[j] = checkpoints[k]
  <2> DEFINE i == widgets[target].index
  <2>1. i \in Int
    BY <1>3
  <2> HIDE DEF i
  <2>2. \A j \in DOMAIN Before(checkpoints, i) : \E k \in DOMAIN checkpoints :
           Before(checkpoints, i)[j] = checkpoints[k]
    BY <1>3, <2>1, BeforeKeeps
  <2> QED
    BY <1>1, <2>2 DEF i
<1>5. EditsUndoable' /\ SameFilesTracked'
  BY <1>1, <1>4 DEF EInv, EditsUndoable, SameFilesTracked
<1>6. EditsTracked'
  BY <1>1 DEF EditsTracked
<1> QED
  BY <1>5, <1>6 DEF EInv

\* Every step keeps every edit undoable.
LEMMA NextUndoable == TInv /\ EInv /\ [Next]_vars => EInv'
<1> SUFFICES ASSUME TInv, EInv, [Next]_vars PROVE EInv'
  OBVIOUS
<1>1. /\ disk \in [Path -> Content] /\ edits \in 0..MaxEdits
      /\ editing \in [Tool -> Path \cup {NoPath}]
  BY DEF TInv, TypeOK
<1>2. ASSUME UNCHANGED <<checkpoints, disk, misread, editing, stale>> PROVE EInv'
  BY <1>2 DEF EInv, EditsUndoable, SameFilesTracked, EditsTracked
<1>3. CASE Submit \/ Abandon \/ FailRewind
  BY <1>2, <1>3 DEF Submit, Abandon, FailRewind, fileVars, toolVars
<1>4. CASE Act
  BY <1>4, ActReadsAgain
<1>5. ASSUME NEW m \in {Other, Injected}, AppendMessage(m) PROVE EInv'
  BY <1>2, <1>5 DEF AppendMessage, fileVars, toolVars
<1>6. ASSUME NEW b \in BOOLEAN, EndAct(b) PROVE EInv'
  BY <1>2, <1>6 DEF EndAct, fileVars, toolVars
<1>7. ASSUME (\E fails \in BOOLEAN : Clear(fails)) \/ \E kept \in 0..MaxMessages : Summarize(kept) PROVE EInv'
  <2>1. /\ checkpoints' = <<>> /\ stale' = {t \in Tool : editing[t] # NoPath}
        /\ editing' = editing
    BY <1>7 DEF Clear, Summarize, Reset
  <2> QED
    BY <2>1 DEF EInv, EditsUndoable, SameFilesTracked, EditsTracked
<1>15. ASSUME NEW asked \in BOOLEAN, FailSummary(asked) PROVE EInv'
  BY <1>2, <1>15 DEF FailSummary, fileVars, toolVars
<1>16. ASSUME (\E fails \in BOOLEAN : EndCompact(fails)) \/ RemoveOld PROVE EInv'
  BY <1>2, <1>16 DEF EndCompact, RemoveOld, fileVars, toolVars
<1>8. ASSUME NEW t \in Tool, NEW p \in Path, BeginEdit(t, p) PROVE EInv'
  BY <1>8, BeginEditTracked
<1>9. ASSUME NEW t \in Tool, NEW fails \in BOOLEAN, Write(t, fails) PROVE EInv'
  <2>1. /\ misread' = misread /\ editing[t] \in Path /\ editing' = [editing EXCEPT ![t] = NoPath]
        /\ stale' = stale \ {t}
    BY <1>1, <1>9 DEF Write
  <2>2. \A u \in Tool : \/ editing'[u] = NoPath
                        \/ editing'[u] = editing[u] /\ (u \notin stale' => u \notin stale)
    BY <1>1, <2>1
  <2>3. CASE fails
    <3>1. UNCHANGED <<checkpoints, disk>>
      BY <1>9, <2>3 DEF Write
    <3>2. EditsTracked'
      BY <2>2, <3>1 DEF EInv, EditsTracked
    <3> QED
      BY <2>1, <3>1, <3>2 DEF EInv, EditsUndoable, SameFilesTracked
  <2>4. CASE ~fails
    <3>1. /\ edits < MaxEdits /\ disk' = [disk EXCEPT ![editing[t]] = edits + 1 + 1]
          /\ IF t \in stale THEN Foreign(editing[t], edits + 1 + 1) ELSE UNCHANGED checkpoints
      BY <1>9, <2>4 DEF Write
    <3>2. edits + 1 + 1 \in Content
      BY <1>1, <3>1, Bounds
    <3>3. \/ checkpoints' = checkpoints
             /\ \A k \in DOMAIN checkpoints : editing[t] \in Tracked(checkpoints[k])
          \/ Foreign(editing[t], edits + 1 + 1)
      <4>1. editing[t] # NoPath
        BY <1>9 DEF Write
      <4> QED
        BY <3>1, <4>1 DEF EInv, EditsTracked
    <3> QED
      BY <2>1, <2>2, <3>1, <3>2, <3>3, EditKeepsFiles
  <2> QED
    BY <2>3, <2>4
<1>10. ASSUME NEW p \in Path, NEW d \in BOOLEAN, UserEdit(p, d) PROVE EInv'
  <2> DEFINE v == IF d THEN Absent ELSE edits + 1 + 1
  <2>1. /\ edits < MaxEdits /\ disk' = [disk EXCEPT ![p] = v] /\ Foreign(p, disk'[p])
        /\ UNCHANGED <<misread, editing, stale>>
    BY <1>10 DEF UserEdit, toolVars
  <2>2. v \in Content
    BY <1>1, <2>1, Bounds DEF Absent
  <2> HIDE DEF v
  <2>3. disk'[p] = v
    BY <1>1, <2>1, <2>2, DiskWritten
  <2>4. \A t \in Tool : \/ editing'[t] = NoPath
                        \/ editing'[t] = editing[t] /\ (t \notin stale' => t \notin stale)
    BY <2>1
  <2>5. Foreign(p, v)
    BY <2>1, <2>3
  <2> QED
    BY <2>1, <2>2, <2>4, <2>5, EditKeepsFiles
<1>11. ASSUME NEW p \in Path, ChangeAccess(p) PROVE EInv'
  BY <1>2, <1>11 DEF ChangeAccess, toolVars
<1>12. ASSUME NEW w \in DOMAIN widgets, NEW b \in BOOLEAN, NEW f \in SUBSET Path,
              StartRewind(w, b, f)
       PROVE  EInv'
  BY <1>12, RestoreKeepsFiles
<1>13. CASE FinishRewind
  BY <1>13, DropKeepsFiles
<1>14. CASE UNCHANGED vars
  BY <1>2, <1>14 DEF vars, fileVars, toolVars
<1> QED
  BY <1>3, <1>4, <1>5, <1>6, <1>7, <1>8, <1>9, <1>10, <1>11, <1>12, <1>13, <1>14,
     <1>15, <1>16
  DEF Next, Conversation, Files, Rewinding

\* Every edit a tool made can be undone back to every checkpoint there is: restoring
\* it gives each file the content it had then, or that the user gave it before the
\* first tool touched it, whatever tools run at once, outlive their act() or a rewind,
\* and whatever part of an earlier restore failed.
THEOREM EditsAreUndoable == Spec => []EditsUndoable
<1>1. Init => EInv
  BY DEF Init, EInv, EditsUndoable, SameFilesTracked, EditsTracked
<1>2. EInv => EditsUndoable
  BY DEF EInv
<1> QED
  BY <1>1, <1>2, TypeInvariance, NextUndoable, PTL DEF Spec

-----------------------------------------------------------------------------
(* Checkpoints and the messages shown *)

\* Nothing is shown or checkpointed anew, and the history does not shrink.
LEMMA WidgetsUnmoved ==
  ASSUME Shape, WInv, UNCHANGED <<widgets, leftover, abandoned, submits>>,
         Len(messages') \in Nat, Len(messages') >= Len(messages),
         phase = "submitted" => phase' = "submitted",
         \A k \in DOMAIN checkpoints' : \E j \in DOMAIN checkpoints :
            /\ checkpoints'[k].id = checkpoints[j].id
            /\ checkpoints'[k].index = checkpoints[j].index
  PROVE  WInv'
<1>0. Shown' = Shown /\ \A w \in Shown : w \in DOMAIN widgets
  BY DEF Shown, Shape
<1>1. WidgetRestoresItsOwn'
  <2> SUFFICES ASSUME NEW w \in Shown, NEW k \in DOMAIN checkpoints',
                      widgets[w].index = checkpoints'[k].index
               PROVE  widgets[w].id \in {checkpoints'[k].id} \cup abandoned
    BY <1>0 DEF WidgetRestoresItsOwn, Shown
  <2>1. PICK j \in DOMAIN checkpoints : /\ checkpoints'[k].id = checkpoints[j].id
                                        /\ checkpoints'[k].index = checkpoints[j].index
    OBVIOUS
  <2> QED
    BY <2>1 DEF WInv, WidgetRestoresItsOwn, Shown
<1>2. WidgetsInHistory'
  <2> SUFFICES ASSUME NEW w \in Shown, widgets[w].id \notin abandoned
               PROVE  \/ widgets[w].index <= Len(messages')
                      \/ /\ phase' = "submitted" /\ w = Len(widgets)
                         /\ widgets[w].id = submits
                         /\ widgets[w].index <= Len(messages') + 1
    BY <1>0 DEF WidgetsInHistory
  <2>1. widgets[w].index \in Int /\ Len(messages) \in Nat
    BY <1>0, Bounds DEF Shape
  <2>2. \/ widgets[w].index <= Len(messages)
        \/ /\ phase = "submitted" /\ w = Len(widgets)
           /\ widgets[w].id = submits
           /\ widgets[w].index <= Len(messages) + 1
    BY DEF WInv, WidgetsInHistory
  <2> QED
    BY <2>1, <2>2
<1>3. WidgetsInOrder'
  BY <1>0 DEF WInv, WidgetsInOrder
<1> QED
  BY <1>1, <1>2, <1>3 DEF WInv

\* A message submitted is shown behind all others, where no checkpoint is yet.
LEMMA SubmitShown ==
  ASSUME Shape, CInv, WInv, Submit
  PROVE  WInv'
<1> DEFINE new == [id |-> submits', index |-> Len(messages) + 1]
<1>1. /\ phase = "idle" /\ phase' = "submitted" /\ widgets' = Append(widgets, new)
      /\ UNCHANGED <<messages, checkpoints, leftover, abandoned>>
  BY DEF Submit, LandingIndex
<1>2. new.id = submits' /\ new.index = Len(messages) + 1 /\ Len(messages) \in Nat
  BY DEF Shape
<1> HIDE DEF new
<1>3. /\ DOMAIN widgets' = 1..Len(widgets) + 1 /\ DOMAIN widgets = 1..Len(widgets)
      /\ Len(widgets') = Len(widgets) + 1 /\ Len(widgets) \in Nat
      /\ widgets'[Len(widgets) + 1] = new
      /\ \A w \in 1..Len(widgets) : widgets'[w] = widgets[w]
  BY <1>1 DEF Shape
<1>4. \A w \in Shown : widgets[w].id \in abandoned \/ widgets[w].index <= Len(messages)
  BY <1>1 DEF WInv, WidgetsInHistory
<1>5. /\ Shown' = Shown \cup {Len(widgets) + 1}
      /\ \A w \in Shown' :
            \/ w = Len(widgets) + 1 /\ widgets'[w] = new
            \/ /\ w \in Shown /\ w \in DOMAIN widgets /\ w # Len(widgets) + 1
               /\ widgets'[w] = widgets[w]
  <2>1. leftover \in Nat /\ leftover <= Len(widgets) /\ leftover' = leftover
    BY <1>1, <1>3 DEF Shape
  <2>2. Shown' = leftover + 1..Len(widgets) + 1
    BY <1>3, <2>1 DEF Shown
  <2> QED
    BY <1>3, <2>1, <2>2 DEF Shown
<1>6. WidgetRestoresItsOwn'
  <2> SUFFICES ASSUME NEW w \in Shown', NEW k \in DOMAIN checkpoints,
                      widgets'[w].index = checkpoints[k].index
               PROVE  widgets'[w].id \in {checkpoints[k].id} \cup abandoned
    BY <1>1 DEF WidgetRestoresItsOwn, Shown
  <2>1. checkpoints[k].index <= Len(messages) /\ checkpoints[k].index \in Int
    BY Bounds DEF CInv, CheckpointsAtTheirMessages, Shape
  <2> QED
    BY <1>2, <1>5, <2>1 DEF WInv, WidgetRestoresItsOwn, Shown
<1>7. WidgetsInHistory'
  <2> SUFFICES ASSUME NEW w \in Shown', widgets'[w].id \notin abandoned
               PROVE  \/ widgets'[w].index <= Len(messages)
                      \/ /\ w = Len(widgets') /\ widgets'[w].id = submits'
                         /\ widgets'[w].index <= Len(messages) + 1
    BY <1>1 DEF WidgetsInHistory
  <2> QED
    BY <1>2, <1>3, <1>4, <1>5
<1>8. WidgetsInOrder'
  <2> SUFFICES ASSUME NEW v \in Shown', NEW w \in Shown', v < w,
                      widgets'[v].id \notin abandoned
               PROVE  widgets'[v].index < widgets'[w].index
    BY <1>1 DEF WidgetsInOrder
  <2>1. v \in Shown /\ v \in DOMAIN widgets /\ widgets'[v] = widgets[v]
    <3>1. v # Len(widgets) + 1
      BY <1>3 DEF Shown
    <3> QED
      BY <1>5, <3>1
  <2>2. widgets[v].index <= Len(messages) /\ widgets[v].index \in Int
    BY <1>4, <2>1, Bounds DEF Shape
  <2>3. CASE w = Len(widgets) + 1
    BY <1>2, <1>3, <2>1, <2>2, <2>3
  <2>4. CASE w # Len(widgets) + 1
    BY <1>5, <2>1, <2>4 DEF WInv, WidgetsInOrder
  <2> QED
    BY <2>3, <2>4
<1> QED
  BY <1>6, <1>7, <1>8 DEF WInv

\* A message whose act() does not begin is one of the abandoned.
LEMMA AbandonNoted ==
  ASSUME WInv, Abandon
  PROVE  WInv'
<1>1. /\ abandoned' = abandoned \cup {submits}
      /\ UNCHANGED <<messages, checkpoints, widgets, leftover>>
  BY DEF Abandon, historyVars, shownVars
<1>2. WidgetsInHistory'
  BY <1>1 DEF WInv, WidgetsInHistory, Shown
<1> QED
  BY <1>1, <1>2 DEF WInv, WidgetRestoresItsOwn, WidgetsInOrder, Shown

\* The new checkpoint stands behind every message shown but its own.
LEMMA ActRestoresItsOwn ==
  ASSUME TInv, Shape, CInv, WInv, Act
  PROVE  WInv'
<1> DEFINE r == Repaired
           known == IF checkpoints = <<>> THEN {} ELSE Tracked(Last(checkpoints))
           cp == [id |-> submits, index |-> Len(r) + 1,
                  files |-> [p \in known |-> Snapshot(p)], was |-> disk]
<1>1. /\ messages' = Append(r, submits) /\ checkpoints' = Append(checkpoints, cp)
      /\ submits \in 1..MaxSubmits + 1 /\ UNCHANGED <<widgets, leftover, abandoned>>
  BY DEF Act, CreateCheckpoint, uiVars, shownVars, TInv, SubmittedCounted
<1>2. r \in Seq(Message) /\ Len(r) \in {Len(messages), Len(messages) + 1}
  BY RepairedBehindCheckpoints
<1>3. cp.id = submits /\ cp.index = Len(r) + 1
  OBVIOUS
<1> HIDE DEF r, cp
<1>4. Len(messages') = Len(r) + 1 /\ Len(r) \in Nat /\ Len(messages) \in Nat
  <2>1. submits \in Message
    BY <1>1, Bounds
  <2> QED
    BY <1>1, <1>2, <2>1, AppendedSeq DEF Shape
<1>5. \A k \in DOMAIN checkpoints' :
         checkpoints'[k] = cp \/ (k \in DOMAIN checkpoints /\ checkpoints'[k] = checkpoints[k])
  BY <1>1 DEF Shape
<1>6. ASSUME NEW w \in Shown, widgets[w].id \notin abandoned
      PROVE  /\ widgets[w].index <= Len(r) + 1
             /\ widgets[w].index = Len(r) + 1 => widgets[w].id = submits
  <2>1. \/ widgets[w].index <= Len(messages)
        \/ widgets[w].id = submits /\ widgets[w].index <= Len(messages) + 1
    BY <1>6 DEF WInv, WidgetsInHistory
  <2>2. widgets[w].index \in Int
    BY Bounds DEF Shape, Shown
  <2> QED
    BY <1>2, <1>4, <2>1, <2>2
<1>7. WidgetRestoresItsOwn'
  <2> SUFFICES ASSUME NEW w \in Shown, NEW k \in DOMAIN checkpoints',
                      widgets[w].index = checkpoints'[k].index, widgets[w].id \notin abandoned
               PROVE  widgets[w].id = checkpoints'[k].id
    BY <1>1 DEF WidgetRestoresItsOwn, Shown
  <2>1. CASE checkpoints'[k] = cp
    BY <1>3, <1>6, <2>1
  <2>2. CASE k \in DOMAIN checkpoints /\ checkpoints'[k] = checkpoints[k]
    BY <2>2 DEF WInv, WidgetRestoresItsOwn, Shown
  <2> QED
    BY <1>5, <2>1, <2>2
<1>8. WidgetsInHistory'
  BY <1>1, <1>4, <1>6 DEF WidgetsInHistory, Shown
<1>9. WidgetsInOrder'
  BY <1>1 DEF WInv, WidgetsInOrder, Shown
<1> QED
  BY <1>7, <1>8, <1>9 DEF WInv

\* The messages that stay shown are those before the cut.
LEMMA CutShown ==
  ASSUME TInv, Shape, WInv, FinishRewind
  PROVE  WInv'
<1> DEFINE i == widgets[target].index
<1>1. /\ checkpoints' = Before(checkpoints, i) /\ messages' = SubSeq(messages, 1, i - 1)
      /\ widgets' = SubSeq(widgets, 1, target - 1) /\ abandoned' = abandoned
      /\ phase = "rewinding"
      /\ \/ target <= leftover /\ leftover' = target - 1
         \/ ~(target <= leftover) /\ leftover' = leftover
  BY DEF FinishRewind, DropCheckpoints, DropWidgets
<1>2. target \in 1..Len(widgets) /\ i \in 1..Len(messages) /\ DOMAIN widgets = 1..Len(widgets)
  <2>1. target \in 1..Len(widgets) /\ i <= Len(messages) /\ DOMAIN widgets = 1..Len(widgets)
    BY <1>1 DEF TInv, TargetInHistory, Shape
  <2>2. i \in 1..MaxMessages + 1 /\ Len(messages) \in Nat
    BY <2>1 DEF Shape
  <2> QED
    BY <2>1, <2>2, Bounds
<1>3. /\ Shown' \subseteq Shown /\ Shown' \subseteq 1..target - 1
      /\ \A w \in Shown' : widgets[w].id \notin abandoned => widgets[w].index < i
  <2>1. Len(widgets') = target - 1 /\ leftover \in 0..Len(widgets) /\ Len(widgets) \in Nat
    BY <1>1, <1>2 DEF Shape
  <2>2. Shown' = leftover' + 1..target - 1
    BY <2>1 DEF Shown
  <2>3. CASE target <= leftover
    <3>1. leftover' = target - 1 /\ target \in Int
      BY <1>1, <1>2, <2>3
    <3>2. Shown' = {}
      BY <2>2, <3>1
    <3> QED
      BY <3>2
  <2>4. CASE ~(target <= leftover)
    <3>1. target \in Shown /\ Shown' = leftover + 1..target - 1
      BY <1>1, <1>2, <2>1, <2>2, <2>4 DEF Shown
    <3>2. Shown' \subseteq Shown /\ Shown' \subseteq 1..target - 1 /\ \A w \in Shown' : w < target
      <4>1. leftover \in Nat /\ target \in Nat /\ Len(widgets) \in Nat /\ target <= Len(widgets)
        BY <1>2, <2>1
      <4>2. \A w \in leftover + 1..target - 1 :
               w \in leftover + 1..Len(widgets) /\ w \in 1..target - 1 /\ w < target
        BY <4>1
      <4> QED
        BY <3>1, <4>2 DEF Shown
    <3> QED
      BY <3>1, <3>2 DEF WInv, WidgetsInOrder
  <2> QED
    BY <2>3, <2>4
<1> HIDE DEF i
<1>4. /\ DOMAIN widgets' = 1..target - 1 /\ 1..target - 1 \subseteq DOMAIN widgets
      /\ \A w \in 1..target - 1 : widgets'[w] = widgets[w]
  BY <1>1, <1>2 DEF Shape
<1>5. Len(messages') = i - 1 /\ i \in Int
  BY <1>1, <1>2 DEF Shape
<1>6. \A j \in DOMAIN checkpoints' : \E k \in DOMAIN checkpoints : checkpoints'[j] = checkpoints[k]
  <2>1. checkpoints \in Seq(Checkpoint)
    BY DEF Shape
  <2> QED
    BY <1>1, <1>5, <2>1, BeforeKeeps
<1>7. WidgetRestoresItsOwn'
  <2> SUFFICES ASSUME NEW w \in Shown', NEW j \in DOMAIN checkpoints',
                      widgets'[w].index = checkpoints'[j].index
               PROVE  widgets'[w].id \in {checkpoints'[j].id} \cup abandoned
    BY <1>1 DEF WidgetRestoresItsOwn, Shown
  <2>1. PICK k \in DOMAIN checkpoints : checkpoints'[j] = checkpoints[k]
    BY <1>6
  <2>2. w \in Shown /\ widgets'[w] = widgets[w]
    BY <1>3, <1>4
  <2> QED
    BY <2>1, <2>2 DEF WInv, WidgetRestoresItsOwn, Shown
<1>8. WidgetsInHistory'
  <2> SUFFICES ASSUME NEW w \in Shown', widgets'[w].id \notin abandoned
               PROVE  widgets'[w].index <= Len(messages')
    BY <1>1 DEF WidgetsInHistory
  <2>1. widgets[w].index < i /\ widgets[w].index \in Int /\ widgets'[w] = widgets[w]
    BY <1>3, <1>4, Bounds DEF Shape
  <2> QED
    BY <1>5, <2>1
<1>9. WidgetsInOrder'
  BY <1>1, <1>3, <1>4 DEF WInv, WidgetsInOrder
<1> QED
  BY <1>7, <1>8, <1>9 DEF WInv

\* What a compaction left is removed: the widgets after it move up.
LEMMA RemovedShown ==
  ASSUME Shape, WInv, RemoveOld
  PROVE  WInv'
<1>1. /\ widgets' = SubSeq(widgets, leftover + 1, Len(widgets)) /\ leftover' = 0
      /\ UNCHANGED <<phase, messages, submits, checkpoints, abandoned>>
  BY DEF RemoveOld, historyVars
<1>2. leftover \in Nat /\ Len(widgets) \in Nat /\ leftover <= Len(widgets)
  BY DEF Shape
<1>3. Len(widgets') = Len(widgets) - leftover /\ Shown' = 1..Len(widgets) - leftover
  <2>1. Len(widgets') = Len(widgets) - leftover
    BY <1>1, <1>2 DEF Shape
  <2> QED
    BY <1>1, <1>2, <2>1 DEF Shown
<1>4. ASSUME NEW w \in Shown'
      PROVE  /\ w \in Nat /\ w + leftover \in Shown
             /\ widgets'[w] = widgets[w + leftover]
             /\ w = Len(widgets') <=> w + leftover = Len(widgets)
  <2>1. w \in 1..Len(widgets) - leftover /\ widgets \in Seq(Widget)
    BY <1>3 DEF Shape
  <2>2. widgets'[w] = widgets[w + leftover]
    BY <1>1, <1>2, <2>1
  <2>3. w \in Nat /\ w + leftover \in leftover + 1..Len(widgets)
    BY <1>2, <2>1
  <2>4. w = Len(widgets') <=> w + leftover = Len(widgets)
    BY <1>2, <1>3, <2>1
  <2> QED
    BY <2>2, <2>3, <2>4 DEF Shown
<1>5. WidgetRestoresItsOwn'
  <2> SUFFICES ASSUME NEW w \in Shown', NEW k \in DOMAIN checkpoints,
                      widgets'[w].index = checkpoints[k].index
               PROVE  widgets'[w].id \in {checkpoints[k].id} \cup abandoned
    BY <1>1 DEF WidgetRestoresItsOwn, Shown
  <2>1. w + leftover \in Shown /\ widgets'[w] = widgets[w + leftover]
    BY <1>4
  <2> QED
    BY <2>1 DEF WInv, WidgetRestoresItsOwn, Shown
<1>6. WidgetsInHistory'
  BY <1>1, <1>4 DEF WInv, WidgetsInHistory
<1>7. WidgetsInOrder'
  <2> SUFFICES ASSUME NEW v \in Shown', NEW w \in Shown', v < w,
                      widgets'[v].id \notin abandoned
               PROVE  widgets'[v].index < widgets'[w].index
    BY <1>1 DEF WidgetsInOrder
  <2>1. v + leftover < w + leftover
    BY <1>2, <1>4
  <2> QED
    BY <1>4, <2>1 DEF WInv, WidgetsInOrder
<1> QED
  BY <1>5, <1>6, <1>7 DEF WInv

\* Every step keeps what is shown with its own checkpoint.
LEMMA NextRestoresItsOwn == TInv /\ CInv /\ WInv /\ [Next]_vars => WInv'
<1> SUFFICES ASSUME TInv, CInv, WInv, [Next]_vars PROVE WInv'
  OBVIOUS
<1>1. Shape /\ disk \in [Path -> Content] /\ edits \in 0..MaxEdits
      /\ editing \in [Tool -> Path \cup {NoPath}] /\ Len(messages) \in Nat
  BY ShapeHolds DEF TInv, TypeOK
<1>2. ASSUME UNCHANGED <<messages, submits, checkpoints, widgets, leftover, abandoned>>,
             phase # "submitted" \/ phase' = phase
      PROVE  WInv'
  <2>1. Len(messages') \in Nat /\ Len(messages') >= Len(messages)
    BY <1>1, <1>2
  <2> QED
    BY <1>1, <1>2, <2>1, WidgetsUnmoved
<1>3. ASSUME UNCHANGED <<phase, messages, submits, widgets, leftover, abandoned>>, PlacesKept
      PROVE  WInv'
  BY <1>1, <1>3, WidgetsUnmoved DEF PlacesKept
<1>4. CASE Submit
  BY <1>1, <1>4, SubmitShown
<1>5. CASE Abandon
  BY <1>5, AbandonNoted
<1>6. CASE Act
  BY <1>1, <1>6, ActRestoresItsOwn
<1>7. ASSUME NEW m \in {Other, Injected}, AppendMessage(m) PROVE WInv'
  <2>1. /\ messages' = Append(messages, m)
        /\ UNCHANGED <<phase, submits, checkpoints, widgets, leftover, abandoned>>
    BY <1>7 DEF AppendMessage, uiVars, shownVars
  <2>2. Len(messages') = Len(messages) + 1
    BY <1>1, <2>1, Bounds DEF Shape
  <2>3. Len(messages') \in Nat /\ Len(messages') >= Len(messages)
    BY <1>1, <2>2
  <2> QED
    BY <1>1, <2>1, <2>3, WidgetsUnmoved
<1>8. ASSUME NEW b \in BOOLEAN, EndAct(b) PROVE WInv'
  BY <1>2, <1>8 DEF EndAct, uiVars, shownVars
<1>9. ASSUME (\E fails \in BOOLEAN : Clear(fails)) \/ \E kept \in 0..MaxMessages : Summarize(kept) PROVE WInv'
  <2>1. leftover' = Len(widgets') /\ Len(widgets') \in Nat
    <3>1. CASE \E fails \in BOOLEAN : Clear(fails)
      BY <1>1, <3>1 DEF Clear, Shape
    <3>2. CASE \E kept \in 0..MaxMessages : Summarize(kept)
      BY <1>1, <3>2 DEF Summarize, Shape
    <3> QED
      BY <1>9, <3>1, <3>2
  <2>2. leftover' + 1..Len(widgets') = {}
    BY <2>1
  <2> QED
    BY <2>2 DEF WInv, WidgetRestoresItsOwn, WidgetsInHistory, WidgetsInOrder, Shown
<1>18. ASSUME NEW asked \in BOOLEAN, FailSummary(asked) PROVE WInv'
  <2>1. /\ phase # "submitted"
        /\ messages' = Append(Repaired, Injected) \/ messages' = Repaired
        /\ UNCHANGED <<submits, checkpoints, widgets, leftover, abandoned>>
    BY <1>18 DEF FailSummary, uiVars, shownVars
  <2>2. /\ Repaired \in Seq(Message) /\ Injected \in Message
        /\ Len(Repaired) \in {Len(messages), Len(messages) + 1}
    BY <1>1, RepairedType, Bounds DEF Shape
  <2>3. Len(messages') \in {Len(Repaired), Len(Repaired) + 1}
    BY <2>1, <2>2, AppendedSeq
  <2>4. Len(messages') \in Nat /\ Len(messages') >= Len(messages)
    BY <1>1, <2>2, <2>3
  <2> QED
    BY <1>1, <2>1, <2>4, WidgetsUnmoved
<1>19. ASSUME NEW fails \in BOOLEAN, EndCompact(fails) PROVE WInv'
  BY <1>2, <1>19 DEF EndCompact, historyVars
<1>20. CASE RemoveOld
  BY <1>1, <1>20, RemovedShown
<1>10. ASSUME NEW t \in Tool, NEW p \in Path, BeginEdit(t, p) PROVE WInv'
  <2>1. /\ AddSnapshot(p)
        /\ UNCHANGED <<phase, messages, submits, widgets, leftover, abandoned>>
    BY <1>10 DEF BeginEdit, historyVars, uiVars, shownVars
  <2> QED
    BY <1>1, <1>3, <2>1, SnapshotType, AddSnapshotEffect DEF Shape
<1>11. ASSUME NEW t \in Tool, NEW fails \in BOOLEAN, Write(t, fails) PROVE WInv'
  <2>1. /\ UNCHANGED <<phase, messages, submits, widgets, leftover, abandoned>>
        /\ editing[t] \in Path
        /\ UNCHANGED checkpoints \/ (edits < MaxEdits /\ Foreign(editing[t], edits + 2))
    BY <1>1, <1>11 DEF Write, historyVars, uiVars, shownVars
  <2>2. edits < MaxEdits => edits + 2 \in Content
    BY <1>1, Bounds
  <2> QED
    BY <1>1, <1>2, <1>3, <2>1, <2>2, ForeignEffect DEF Shape
<1>12. ASSUME NEW p \in Path, NEW d \in BOOLEAN, UserEdit(p, d) PROVE WInv'
  <2>1. /\ UNCHANGED <<phase, messages, submits, widgets, leftover, abandoned>>
        /\ Foreign(p, disk'[p])
        /\ disk' = [disk EXCEPT ![p] = IF d THEN Absent ELSE edits' + 1]
        /\ edits < MaxEdits /\ edits' = edits + 1
    BY <1>12 DEF UserEdit, historyVars, uiVars, shownVars
  <2>2. disk'[p] \in Content
    BY <1>1, <2>1, Bounds DEF Absent
  <2> QED
    BY <1>1, <1>3, <2>1, <2>2, ForeignEffect DEF Shape
<1>13. ASSUME NEW p \in Path, ChangeAccess(p) PROVE WInv'
  BY <1>2, <1>13 DEF ChangeAccess, historyVars, uiVars, shownVars
<1>14. ASSUME NEW w \in DOMAIN widgets, NEW b \in BOOLEAN, NEW f \in SUBSET Path,
              StartRewind(w, b, f)
       PROVE  WInv'
  BY <1>2, <1>14 DEF StartRewind, historyVars, shownVars
<1>15. CASE FinishRewind
  BY <1>1, <1>15, CutShown
<1>16. CASE FailRewind
  BY <1>2, <1>16 DEF FailRewind, historyVars, shownVars
<1>17. CASE UNCHANGED vars
  BY <1>2, <1>17 DEF vars, historyVars, uiVars, shownVars
<1> QED
  BY <1>4, <1>5, <1>6, <1>7, <1>8, <1>9, <1>10, <1>11, <1>12, <1>13, <1>14, <1>15, <1>16,
     <1>17, <1>18, <1>19, <1>20
  DEF Next, Conversation, Files, Rewinding

\* An index that has become wrong never restores the files of another message: where a widget
\* finds a checkpoint it is its own, through repairs, rewinds and compactions that succeed, fail
\* or are cancelled, unless its act() never began, or a compaction or a clear has taken its
\* message from the history and has not removed the widget.
THEOREM WidgetsRestoreTheirOwn == Spec => []WidgetRestoresItsOwn
<1>1. Init => CInv
  BY DEF Init, CInv, CheckpointsAtTheirMessages, GapBehindCheckpoints
<1>2. Init => WInv
  <2> SUFFICES ASSUME Init PROVE WInv
    OBVIOUS
  <2>1. checkpoints = <<>>
    BY DEF Init
  <2>2. /\ \A w \in DOMAIN widgets : widgets[w].index <= Len(messages)
        /\ \A v, w \in DOMAIN widgets : ~(v < w)
    <3>1. PICK r \in 0..1 : /\ messages = [k \in 1..r |-> k]
                            /\ widgets = [k \in 1..r |-> [id |-> k, index |-> k]]
      BY DEF Init
    <3>2. messages \in [1..r -> Int] /\ r \in Nat
      BY <3>1
    <3>3. Len(messages) = r
      BY <3>2, FunctionIsSeq
    <3> QED
      BY <3>1, <3>3
  <2>3. leftover = 0 /\ DOMAIN widgets = 1..Len(widgets) /\ Len(widgets) \in Nat
    BY InitTypes DEF Init, TInv, TypeOK
  <2>4. Shown = DOMAIN widgets
    BY <2>3 DEF Shown
  <2> QED
    BY <2>1, <2>2, <2>4 DEF WInv, WidgetRestoresItsOwn, WidgetsInHistory, WidgetsInOrder
<1>3. WInv => WidgetRestoresItsOwn
  BY DEF WInv
<1> QED
  BY <1>1, <1>2, <1>3, TypeInvariance, NextAtMessages, NextRestoresItsOwn, PTL DEF Spec
===============================================================================
