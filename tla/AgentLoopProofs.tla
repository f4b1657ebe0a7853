--------------------------- MODULE AgentLoopProofs ---------------------------
(***************************************************************************)
(* Theorems about AgentLoop for any number of calls, any policy and any    *)
(* set of permissions: its type invariant, the discipline of the approval  *)
(* prompt under the permission lock, and the barrier between the tools of  *)
(* a turn and the next request; and, from what the repair of               *)
(* MessageHistory computes, that the model is asked with a well-formed     *)
(* history.                                                                *)
(***************************************************************************)
EXTENDS AgentLoop, Recursion

-----------------------------------------------------------------------------
(* The repair, for every history: one in which calls may lack answers, as   *)
(* interrupts, refusals and failures leave it, becomes one in which every   *)
(* call is answered, and that is the history the APIs accept.  The proof    *)
(* follows the repair from the end of the history to its start; histories   *)
(* are described by positions instead of by the sequences behind them.      *)

\* The tool messages from a to b answer each id of A once and nothing else.
Answers(h, a, b, A) ==
  /\ \A k \in a..b : h[k].role = "tool" /\ \E c \in A : h[k].calls = {c}
  /\ \A c \in A : \E k \in a..b : h[k].calls = {c}
  /\ \A j, k \in a..b : h[j].calls = h[k].calls => j = k

\* No tool message stands right behind position b.
Stops(h, b) == b < Len(h) => h[b + 1].role # "tool"

\* The run of tool messages behind position i answers A.
Answered(h, i, A) == \E b \in i..Len(h) : Stops(h, b) /\ Answers(h, i + 1, b, A)

\* Tool messages follow calls or other tool messages.
Placed(h) == \A i \in DOMAIN h : h[i].role = "tool" => i > 1 /\ h[i - 1].role # "user"

\* Every call has its answer, or some have none yet.
AllAnswered(h) == \A i \in DOMAIN h : h[i].role = "assistant" => Answered(h, i, h[i].calls)
Begun(h)    == \A i \in DOMAIN h : h[i].role = "assistant" =>
                  \E A \in SUBSET h[i].calls : Answered(h, i, A)

Whole(h, N)   == h \in Seq(Message(1..N)) /\ Placed(h) /\ AllAnswered(h)
Partial(h, N) == h \in Seq(Message(1..N)) /\ Placed(h) /\ Begun(h)

\* A whole history, then calls of cs of which A are answered so far.
InTurn(h, N, cs, A) ==
  /\ h \in Seq(Message(1..N)) /\ Placed(h)
  /\ \E i \in DOMAIN h :
       /\ h[i] = Assistant(cs) /\ Answers(h, i + 1, Len(h), A)
       /\ \A j \in 1..i - 1 : h[j].role = "assistant" => Answered(h, j, h[j].calls)

\* Roles and ids of the messages.
LEMMA MessageFacts ==
  ASSUME NEW N \in Nat
  PROVE  /\ User \in Message(1..N) /\ User.role = "user"
         /\ \A cs \in SUBSET (1..N) : /\ Assistant(cs) \in Message(1..N)
                                      /\ Assistant(cs).role = "assistant"
                                      /\ Assistant(cs).calls = cs
         /\ \A c \in 1..N : /\ ToolAnswer(c) \in Message(1..N)
                            /\ ToolAnswer(c).role = "tool" /\ ToolAnswer(c).calls = {c}
         /\ \A m \in Message(1..N) : /\ m.role \in {"user", "assistant", "tool"}
                                     /\ m.calls \in SUBSET (1..N)
<1>1. User.role = "user" /\ User.calls = {} /\ User \in Message(1..N)
  BY DEF User, Message
<1>2. ASSUME NEW cs \in SUBSET (1..N)
      PROVE  /\ Assistant(cs) \in Message(1..N)
             /\ Assistant(cs).role = "assistant" /\ Assistant(cs).calls = cs
  BY DEF Assistant, Message
<1>3. ASSUME NEW c \in 1..N
      PROVE  /\ ToolAnswer(c) \in Message(1..N)
             /\ ToolAnswer(c).role = "tool" /\ ToolAnswer(c).calls = {c}
  BY DEF ToolAnswer, Message
<1>4. ASSUME NEW m \in Message(1..N)
      PROVE  m.role \in {"user", "assistant", "tool"} /\ m.calls \in SUBSET (1..N)
  <2>1. \/ m = User
        \/ \E cs \in SUBSET (1..N) : m = Assistant(cs)
        \/ \E c \in 1..N : m = ToolAnswer(c)
    BY DEF Message
  <2>2. ASSUME NEW cs \in SUBSET (1..N), m = Assistant(cs)
        PROVE  m.role = "assistant" /\ m.calls \in SUBSET (1..N)
    BY <1>2, <2>2
  <2>3. ASSUME NEW c \in 1..N, m = ToolAnswer(c)
        PROVE  m.role = "tool" /\ m.calls \in SUBSET (1..N)
    BY <1>3, <2>3
  <2> QED
    BY <1>1, <2>1, <2>2, <2>3
<1> QED
  BY <1>1, <1>2, <1>3, <1>4

\* The greatest of finitely many ids.
LEMMA MaxOfIds ==
  ASSUME NEW N \in Nat, NEW cs \in SUBSET (1..N)
  PROVE  Max(cs \cup {0}) \in 0..N /\ \A c \in cs : c <= Max(cs \cup {0})
<1> DEFINE above == {n \in 0..N : \A c \in cs : c <= n}
<1>1. N \in above /\ above \subseteq Nat
  OBVIOUS
<1>2. PICK x \in above : \A y \in above : x <= y
  BY <1>1, LeastNatural
<1>3. x \in cs \cup {0}
  <2>1. SUFFICES ASSUME x # 0, x \notin cs PROVE FALSE
    OBVIOUS
  <2>2. x - 1 \in 0..N /\ \A c \in cs : c <= x - 1
    BY <2>1, <1>2
  <2> QED
    BY <1>2, <2>2
<1>4. \A y \in cs \cup {0} : x >= y
  BY <1>2
<1>5. Max(cs \cup {0}) \in cs \cup {0} /\ \A y \in cs \cup {0} : Max(cs \cup {0}) >= y
  BY <1>3, <1>4 DEF Max
<1>6. cs \cup {0} \subseteq 0..N
  OBVIOUS
<1> QED
  BY <1>5, <1>6

\* s answers each id of A once and is nothing else.
Lists(s, N, A) == s \in Seq(Message(1..N)) /\ Answers(s, 1, Len(s), A)

\* One more answer.
LEMMA ListsOneMore ==
  ASSUME NEW N \in Nat, NEW A \in SUBSET (1..N), NEW c \in 1..N, c \notin A,
         NEW s, Lists(s, N, A)
  PROVE  Lists(Append(s, ToolAnswer(c)), N, A \cup {c})
<1> DEFINE m == ToolAnswer(c)
           t == Append(s, m)
<1>1. m \in Message(1..N) /\ m.role = "tool" /\ m.calls = {c}
  BY MessageFacts
<1>2. s \in Seq(Message(1..N)) /\ Answers(s, 1, Len(s), A) /\ Len(s) \in Nat
  BY DEF Lists
<1> HIDE DEF m
<1>3. /\ t \in Seq(Message(1..N)) /\ Len(t) = Len(s) + 1 /\ t[Len(s) + 1] = m
      /\ \A k \in 1..Len(s) : t[k] = s[k]
  BY <1>1, <1>2
<1> HIDE DEF t
<1>4. \A k \in 1..Len(t) : k \in 1..Len(s) \/ k = Len(s) + 1
  BY <1>2, <1>3
<1>5. ASSUME NEW k \in 1..Len(t)
      PROVE  t[k].role = "tool" /\ \E d \in A \cup {c} : t[k].calls = {d}
  <2>1. CASE k \in 1..Len(s)
    <3>1. s[k].role = "tool" /\ \E d \in A : s[k].calls = {d}
      BY <2>1, <1>2 DEF Answers
    <3> QED
      BY <3>1, <2>1, <1>3
  <2>2. CASE k = Len(s) + 1
    BY <2>2, <1>1, <1>3
  <2> QED
    BY <1>4, <2>1, <2>2
<1>6. \A d \in A \cup {c} : \E k \in 1..Len(t) : t[k].calls = {d}
  <2>1. Len(s) + 1 \in 1..Len(t) /\ t[Len(s) + 1].calls = {c}
    BY <1>1, <1>2, <1>3
  <2>2. ASSUME NEW d \in A PROVE \E k \in 1..Len(t) : t[k].calls = {d}
    <3>1. PICK k \in 1..Len(s) : s[k].calls = {d}
      BY <1>2 DEF Answers
    <3>2. k \in 1..Len(t) /\ t[k].calls = {d}
      BY <1>2, <1>3, <3>1
    <3> QED
      BY <3>2
  <2> QED
    BY <2>1, <2>2
<1>7. ASSUME NEW j \in 1..Len(t), NEW k \in 1..Len(t), t[j].calls = t[k].calls PROVE j = k
  <2>1. ASSUME NEW i \in 1..Len(s) PROVE s[i].calls # {c}
    <3>1. PICK d \in A : s[i].calls = {d}
      BY <1>2 DEF Answers
    <3> QED
      BY <3>1
  <2>2. CASE j \in 1..Len(s) /\ k \in 1..Len(s)
    BY <2>2, <1>2, <1>3, <1>7 DEF Answers
  <2>3. CASE ~(j \in 1..Len(s) /\ k \in 1..Len(s))
    BY <2>1, <2>3, <1>1, <1>3, <1>4, <1>7
  <2> QED
    BY <2>2, <2>3
<1>8. Answers(t, 1, Len(t), A \cup {c})
  BY <1>5, <1>6, <1>7 DEF Answers
<1> QED
  BY <1>3, <1>8 DEF Lists, t, m

\* The ids up to n.
UpTo(cs, n) == {c \in cs : c <= n}

\* They grow by one id at a time.
LEMMA UpToFacts ==
  ASSUME NEW N \in Nat, NEW cs \in SUBSET (1..N)
  PROVE  /\ UpTo(cs, 0) = {}
         /\ \A n \in Nat : /\ UpTo(cs, n) \in SUBSET (1..N) /\ n + 1 \notin UpTo(cs, n)
                           /\ n + 1 \in cs => UpTo(cs, n + 1) = UpTo(cs, n) \cup {n + 1}
                           /\ n + 1 \notin cs => UpTo(cs, n + 1) = UpTo(cs, n)
         /\ \A n \in Nat : (\A c \in cs : c <= n) => UpTo(cs, n) = cs
<1>1. \A c \in cs : c \in 1..N /\ c \in Int /\ c >= 1
  OBVIOUS
<1>3. \A n, c : c \in UpTo(cs, n) <=> c \in cs /\ c <= n
  BY DEF UpTo
<1>4. UpTo(cs, 0) = {}
  <2>1. \A c \in cs : ~(c <= 0)
    BY <1>1
  <2> QED
    BY <2>1, <1>3
<1>5. ASSUME NEW n \in Nat
      PROVE  /\ UpTo(cs, n) \in SUBSET (1..N) /\ n + 1 \notin UpTo(cs, n)
             /\ n + 1 \in cs => UpTo(cs, n + 1) = UpTo(cs, n) \cup {n + 1}
             /\ n + 1 \notin cs => UpTo(cs, n + 1) = UpTo(cs, n)
             /\ (\A c \in cs : c <= n) => UpTo(cs, n) = cs
  <2> DEFINE A == UpTo(cs, n)
             B == UpTo(cs, n + 1)
  <2>1. /\ \A c : c \in A <=> c \in cs /\ c <= n
        /\ \A c : c \in B <=> c \in cs /\ c <= n + 1
    BY <1>3
  <2>2. \A c \in cs : c <= n + 1 <=> c <= n \/ c = n + 1
    BY <1>1
  <2>3. ~(n + 1 <= n)
    OBVIOUS
  <2> HIDE DEF A, B
  <2>4. A \in SUBSET (1..N) /\ n + 1 \notin A /\ ((\A c \in cs : c <= n) => A = cs)
    BY <2>1, <2>3
  <2>5. \A c : c \in B <=> c \in A \/ (c = n + 1 /\ c \in cs)
    <3>1. ASSUME NEW c, c \in B PROVE c \in A \/ (c = n + 1 /\ c \in cs)
      BY <3>1, <2>1, <2>2
    <3>2. ASSUME NEW c, c \in A PROVE c \in B
      BY <3>2, <2>1, <2>2
    <3>3. ASSUME NEW c, c = n + 1, c \in cs PROVE c \in B
      BY <3>3, <2>1, <2>2
    <3> QED
      BY <3>1, <3>2, <3>3
  <2>6. /\ n + 1 \in cs => B = A \cup {n + 1}
        /\ n + 1 \notin cs => B = A
    BY <2>5
  <2> QED
    BY <2>4, <2>6 DEF A, B
<1> QED
  BY <1>4, <1>5

\* The placeholders of cs answer each call of cs once.
LEMMA PlaceholdersAnswer ==
  ASSUME NEW N \in Nat, NEW cs \in SUBSET (1..N)
  PROVE  Lists(Placeholders(cs), N, cs)
<1> DEFINE M == Message(1..N)
           last == Max(cs \cup {0})
           step == [n \in Nat |-> [s \in Seq(M) |->
                      IF n \in cs THEN Append(s, ToolAnswer(n)) ELSE s]]
           Solves(f) == f = [n \in 0..last |->
              IF n = 0 THEN <<>>
              ELSE IF n \in cs THEN Append(f[n - 1], ToolAnswer(n)) ELSE f[n - 1]]
<1>1. last \in Nat /\ last <= N /\ \A c \in cs : c <= last /\ c \in 1..N
  BY MaxOfIds
<1>2. step \in [Nat -> [Seq(M) -> Seq(M)]]
  <2>1. ASSUME NEW n \in Nat, NEW s \in Seq(M)
        PROVE  (IF n \in cs THEN Append(s, ToolAnswer(n)) ELSE s) \in Seq(M)
    <3>1. CASE n \in cs
      <4>1. ToolAnswer(n) \in M
        BY <3>1, MessageFacts
      <4> HIDE DEF M
      <4> QED
        BY <3>1, <4>1
    <3>2. CASE n \notin cs
      BY <3>2
    <3> QED
      BY <3>1, <3>2
  <2> HIDE DEF M
  <2> QED
    BY <2>1
<1>3. <<>> \in Seq(M)
  OBVIOUS
<1>4. PICK g : Recursive(g, Seq(M), <<>>, step, last)
  <2> HIDE DEF step, M, last
  <2> QED
    BY <1>1, <1>2, <1>3, RecursionDefines
<1>5. g \in [0..last -> Seq(M)] /\ g[0] = <<>>
  <2> HIDE DEF step, M, last
  <2> QED
    BY <1>4 DEF Recursive
<1>6. ASSUME NEW n \in 1..last
      PROVE  g[n] = IF n \in cs THEN Append(g[n - 1], ToolAnswer(n)) ELSE g[n - 1]
  <2>1. n \in Nat /\ g[n - 1] \in Seq(M) /\ g[n] = step[n][g[n - 1]]
    <3> HIDE DEF step, M, last
    <3> QED
      BY <1>1, <1>4, <1>5 DEF Recursive
  <2> HIDE DEF M, last
  <2> QED
    BY <2>1
<1>7. Solves(g)
  <2>1. \A n \in 0..last : g[n] = IF n = 0 THEN <<>>
                      ELSE IF n \in cs THEN Append(g[n - 1], ToolAnswer(n)) ELSE g[n - 1]
    <3>1. \A n \in 0..last : n = 0 \/ n \in 1..last
      <4> HIDE DEF last
      <4> QED
        BY <1>1
    <3> HIDE DEF last, M
    <3> QED
      BY <1>5, <1>6, <3>1
  <2> HIDE DEF M, last
  <2> QED
    BY <1>5, <2>1
<1>8. PICK f : Solves(f) /\ Placeholders(cs) = f[last]
  <2>1. Placeholders(cs) = (CHOOSE f : Solves(f))[last]
    BY DEF Placeholders
  <2> HIDE DEF Solves, last
  <2> QED
    BY <1>7, <2>1
<1>9. /\ f[0] = <<>>
      /\ \A n \in 1..last : f[n] = IF n \in cs THEN Append(f[n - 1], ToolAnswer(n)) ELSE f[n - 1]
  <2> HIDE DEF last
  <2>1. 0 \in 0..last /\ \A n \in 1..last : n \in 0..last /\ n # 0
    BY <1>1
  <2> QED
    BY <1>8, <2>1
<1> HIDE DEF Solves, step, last, M
<1> DEFINE T == {n \in Nat : n <= last => Lists(f[n], N, UpTo(cs, n))}
<1>10. 0 \in T
  <2>1. Lists(<<>>, N, {})
    BY DEF Lists, Answers
  <2> QED
    BY <1>9, <2>1, UpToFacts
<1>11. ASSUME NEW n \in Nat, n \in T PROVE n + 1 \in T
  <2>1. SUFFICES ASSUME n + 1 <= last PROVE Lists(f[n + 1], N, UpTo(cs, n + 1))
    OBVIOUS
  <2>2. n + 1 \in 1..last /\ (n + 1) - 1 = n /\ Lists(f[n], N, UpTo(cs, n))
    BY <1>1, <1>11, <2>1
  <2>3. CASE n + 1 \in cs
    <3>1. /\ UpTo(cs, n + 1) = UpTo(cs, n) \cup {n + 1} /\ n + 1 \notin UpTo(cs, n)
          /\ UpTo(cs, n) \in SUBSET (1..N)
      BY <2>3, UpToFacts
    <3>3. n + 1 \in 1..N
      BY <2>3
    <3>2. f[n + 1] = Append(f[n], ToolAnswer(n + 1))
      BY <1>9, <2>2, <2>3
    <3> QED
      BY <2>2, <3>1, <3>2, <3>3, ListsOneMore
  <2>4. CASE n + 1 \notin cs
    BY <1>9, <2>2, <2>4, UpToFacts
  <2> QED
    BY <2>3, <2>4
<1>12. Nat \subseteq T
  <2> HIDE DEF T
  <2> QED
    BY <1>10, <1>11, SetInduction
<1> QED
  BY <1>1, <1>8, <1>12, UpToFacts

-----------------------------------------------------------------------------
(* Runs of tool messages *)

\* The run at the start of s ends where no tool message stands behind it.
LEMMA ToolRunIs ==
  ASSUME NEW M, NEW s \in Seq(M), NEW n \in 0..Len(s), Stops(s, n),
         \A k \in 1..n : s[k].role = "tool"
  PROVE  ToolRun(s) = n
<1> DEFINE Run(x) == /\ x \in 0..Len(s) /\ \A k \in 1..x : s[k].role = "tool"
                     /\ x < Len(s) => s[x + 1].role # "tool"
<1>1. Run(n) /\ Len(s) \in Nat
  BY DEF Stops
<1>2. ToolRun(s) = CHOOSE x \in 0..Len(s) : Run(x)
  BY DEF ToolRun
<1>3. ASSUME NEW x \in 0..Len(s), Run(x) PROVE x = n
  <2>1. ~(x < n)
    <3>1. SUFFICES ASSUME x < n PROVE FALSE
      OBVIOUS
    <3>2. x + 1 \in 1..n /\ x < Len(s)
      BY <1>1, <3>1
    <3> QED
      BY <1>1, <1>3, <3>2
  <2>2. ~(n < x)
    <3>1. SUFFICES ASSUME n < x PROVE FALSE
      OBVIOUS
    <3>2. n + 1 \in 1..x /\ n < Len(s)
      BY <1>1, <3>1
    <3> QED
      BY <1>1, <1>3, <3>2
  <2> QED
    BY <2>1, <2>2
<1> HIDE DEF Run
<1> QED
  BY <1>1, <1>2, <1>3

\* Every history starts with such a run, if only an empty one.
LEMMA RunExists ==
  ASSUME NEW M, NEW s \in Seq(M)
  PROVE  \E n \in 0..Len(s) : Stops(s, n) /\ \A k \in 1..n : s[k].role = "tool"
<1> DEFINE T == {n \in 0..Len(s) : Stops(s, n)}
<1>1. Len(s) \in T /\ T \subseteq Nat
  BY DEF Stops
<1>2. PICK n \in T : \A x \in T : n <= x
  BY <1>1, LeastNatural
<1>3. ASSUME NEW k \in 1..n PROVE s[k].role = "tool"
  <2>1. k - 1 \in 0..Len(s) /\ ~(n <= k - 1) /\ (k - 1) + 1 = k
    BY <1>1
  <2>2. k - 1 \notin T
    BY <1>2, <2>1
  <2> QED
    BY <2>1, <2>2 DEF Stops
<1> QED
  BY <1>1, <1>3

\* Behind a position there is one place where its run ends.
LEMMA OneStop ==
  ASSUME NEW M, NEW h \in Seq(M), NEW i \in Nat, NEW a \in i..Len(h), NEW b \in i..Len(h),
         Stops(h, a), \A k \in i + 1..a : h[k].role = "tool",
         Stops(h, b), \A k \in i + 1..b : h[k].role = "tool"
  PROVE  a = b
<1>1. Len(h) \in Nat /\ a \in Nat /\ b \in Nat
  OBVIOUS
<1>2. ~(a < b)
  <2>1. SUFFICES ASSUME a < b PROVE FALSE
    OBVIOUS
  <2>2. a + 1 \in i + 1..b /\ a < Len(h)
    BY <1>1, <2>1
  <2> QED
    BY <2>2 DEF Stops
<1>3. ~(b < a)
  <2>1. SUFFICES ASSUME b < a PROVE FALSE
    OBVIOUS
  <2>2. b + 1 \in i + 1..a /\ b < Len(h)
    BY <1>1, <2>1
  <2> QED
    BY <2>2 DEF Stops
<1> QED
  BY <1>1, <1>2, <1>3

\* What r has from a to b stands d positions further in t.
Moved(r, t, a, b, d) == \A k \in a..b : t[k + d] = r[k]

\* Answers that are moved by d positions.
LEMMA AnswersMoved ==
  ASSUME NEW r, NEW t, NEW a \in Int, NEW b \in Int, NEW d \in Int, NEW A,
         Answers(r, a, b, A), Moved(r, t, a, b, d), NEW e, e = a + d, NEW f, f = b + d
  PROVE  Answers(t, e, f, A)
<1> SUFFICES Answers(t, a + d, b + d, A)
  OBVIOUS
<1> USE DEF Moved
<1>1. \A k \in a + d..b + d : k - d \in a..b /\ (k - d) + d = k /\ k \in Int
  OBVIOUS
<1>2. \A k \in a..b : k + d \in a + d..b + d
  OBVIOUS
<1>3. \A k \in a + d..b + d : t[k] = r[k - d]
  BY <1>1
<1>4. ASSUME NEW k \in a + d..b + d
      PROVE  t[k].role = "tool" /\ \E c \in A : t[k].calls = {c}
  BY <1>1, <1>3 DEF Answers
<1>5. ASSUME NEW c \in A PROVE \E k \in a + d..b + d : t[k].calls = {c}
  <2>1. PICK k \in a..b : r[k].calls = {c}
    BY DEF Answers
  <2> QED
    BY <2>1, <1>2
<1>6. ASSUME NEW j \in a + d..b + d, NEW k \in a + d..b + d, t[j].calls = t[k].calls
      PROVE  j = k
  <2>1. j - d = k - d
    BY <1>1, <1>3, <1>6 DEF Answers
  <2> QED
    BY <1>1, <2>1
<1> QED
  BY <1>4, <1>5, <1>6 DEF Answers

\* The ids a run answers.
LEMMA IdsOfRun ==
  ASSUME NEW M, NEW h \in Seq(M), NEW a \in 1..Len(h) + 1, NEW b \in a - 1..Len(h), NEW A,
         Answers(h, a, b, A)
  PROVE  /\ IdsOf(SubSeq(h, a, b)) = A
         /\ Len(SubSeq(h, a, b)) = b - a + 1
<1> DEFINE s == SubSeq(h, a, b)
<1>1. /\ Len(h) \in Nat /\ Len(s) = b - a + 1 /\ DOMAIN s = 1..b - a + 1
      /\ \A k \in 1..b - a + 1 : s[k] = h[a + k - 1]
  OBVIOUS
<1> HIDE DEF s
<1>2. ASSUME NEW c \in IdsOf(s) PROVE c \in A
  <2>1. PICK k \in DOMAIN s : c \in s[k].calls
    BY <1>2 DEF IdsOf
  <2>2. a + k - 1 \in a..b /\ s[k] = h[a + k - 1]
    BY <1>1, <2>1
  <2> QED
    BY <2>1, <2>2 DEF Answers
<1>3. ASSUME NEW c \in A PROVE c \in IdsOf(s)
  <2>1. PICK k \in a..b : h[k].calls = {c}
    BY DEF Answers
  <2>2. k - a + 1 \in DOMAIN s /\ s[k - a + 1] = h[k]
    BY <1>1, <2>1
  <2> QED
    BY <2>1, <2>2 DEF IdsOf
<1> QED
  BY <1>1, <1>2, <1>3 DEF s

\* There are as many answers as ids.
LEMMA RunCounts ==
  ASSUME NEW h, NEW a \in Int, NEW n \in Nat, NEW A, Answers(h, a, a + n - 1, A)
  PROVE  Cardinality(A) = n
<1> DEFINE f == [k \in 1..n |-> CHOOSE c \in A : h[a + k - 1].calls = {c}]
<1>1. ASSUME NEW k \in 1..n PROVE f[k] \in A /\ h[a + k - 1].calls = {f[k]}
  <2>1. a + k - 1 \in a..a + n - 1
    OBVIOUS
  <2>2. \E c \in A : h[a + k - 1].calls = {c}
    BY <2>1 DEF Answers
  <2> QED
    BY <2>2
<1>2. DOMAIN f = 1..n
  OBVIOUS
<1> HIDE DEF f
<1>3. ASSUME NEW j \in 1..n, NEW k \in 1..n, f[j] = f[k] PROVE j = k
  <2>1. a + j - 1 \in a..a + n - 1 /\ a + k - 1 \in a..a + n - 1
    OBVIOUS
  <2>2. h[a + j - 1].calls = h[a + k - 1].calls
    BY <1>1, <1>3
  <2>3. a + j - 1 = a + k - 1
    BY <2>1, <2>2 DEF Answers
  <2> QED
    BY <2>3
<1>4. ASSUME NEW c \in A PROVE \E k \in 1..n : f[k] = c
  <2>1. PICK k \in a..a + n - 1 : h[k].calls = {c}
    BY DEF Answers
  <2>2. k - a + 1 \in 1..n /\ a + (k - a + 1) - 1 = k
    BY <2>1
  <2>3. {f[k - a + 1]} = {c}
    BY <1>1, <2>1, <2>2
  <2> QED
    BY <2>2, <2>3
<1>5. f \in [1..n -> A]
  <2>1. f = [k \in 1..n |-> f[k]]
    BY <1>2 DEF f
  <2> QED
    BY <1>1, <2>1
<1>6. ExistsBijection(1..n, A)
  BY <1>3, <1>4, <1>5 DEF ExistsBijection, Bijection, Injection, Surjection, IsInjective
<1> QED
  BY <1>6, FS_CountingElements

-----------------------------------------------------------------------------
(* The repair *)

\* t is r with d messages more, all before what is behind position n.
Shifted(r, t, n, d) ==
  /\ n \in 0..Len(r) /\ d \in Nat /\ Len(t) = Len(r) + d
  /\ \A k \in n + 1..Len(r) : t[k + d] = r[k]

\* What stands behind the insertion keeps its answers.
LEMMA ShiftedAnswered ==
  ASSUME NEW M, NEW r \in Seq(M), NEW t \in Seq(M), NEW n, NEW d, Shifted(r, t, n, d),
         NEW i \in n + 1..Len(r), NEW A, Answered(r, i, A)
  PROVE  Answered(t, i + d, A)
<1>1. PICK b \in i..Len(r) : Stops(r, b) /\ Answers(r, i + 1, b, A)
  BY DEF Answered
<1>2. /\ Len(r) \in Nat /\ n \in Nat /\ d \in Nat /\ Len(t) = Len(r) + d
      /\ i \in Nat /\ b \in Nat /\ i <= b /\ b <= Len(r) /\ n < i
  BY DEF Shifted
<1>3. Moved(r, t, i + 1, b, d)
  BY <1>2 DEF Shifted, Moved
<1>4. Answers(t, i + 1 + d, b + d, A)
  <2>1. i + 1 \in Int /\ b \in Int /\ d \in Int
    BY <1>2
  <2> QED
    BY <1>1, <1>3, <2>1, AnswersMoved
<1>5. Stops(t, b + d)
  <2>1. SUFFICES ASSUME b + d < Len(t) PROVE t[b + d + 1].role # "tool"
    BY DEF Stops
  <2>2. b + 1 \in n + 1..Len(r) /\ (b + 1) + d = b + d + 1 /\ b < Len(r)
    BY <1>2, <2>1
  <2>3. t[b + d + 1] = r[b + 1]
    BY <2>2 DEF Shifted
  <2> QED
    BY <1>1, <2>2, <2>3 DEF Stops
<1>6. b + d \in i + d..Len(t) /\ i + d + 1 = i + 1 + d
  BY <1>2
<1> QED
  BY <1>4, <1>5, <1>6 DEF Answered

\* A repaired message gives a history again.
LEMMA FillOneTyped ==
  ASSUME NEW N \in Nat, NEW m \in Message(1..N), NEW r \in Seq(Message(1..N))
  PROVE  FillOne(m, r) \in Seq(Message(1..N))
<1> DEFINE M == Message(1..N)
           n == ToolRun(r)
           q == Placeholders(m.calls \ IdsOf(SubSeq(r, 1, n)))
<1>1. PICK b \in 0..Len(r) : Stops(r, b) /\ \A k \in 1..b : r[k].role = "tool"
  BY RunExists
<1>2. n = b
  BY <1>1, ToolRunIs
<1>3. q \in Seq(M)
  <2>1. m.calls \ IdsOf(SubSeq(r, 1, n)) \in SUBSET (1..N)
    BY MessageFacts
  <2> QED
    BY <2>1, PlaceholdersAnswer DEF Lists
<1>4. <<m>> \in Seq(M) /\ SubSeq(r, 1, n) \in Seq(M) /\ SubSeq(r, n + 1, Len(r)) \in Seq(M)
  <2> HIDE DEF M, n
  <2> QED
    BY <1>1, <1>2 DEF M
<1> DEFINE first  == <<m>>
           run    == SubSeq(r, 1, n)
           behind == SubSeq(r, n + 1, Len(r))
<1>5. FillOne(m, r) = first \o run \o q \o behind \/ FillOne(m, r) = first \o r
  BY DEF FillOne
<1>6. first \in Seq(M) /\ run \in Seq(M) /\ q \in Seq(M) /\ behind \in Seq(M) /\ r \in Seq(M)
  BY <1>3, <1>4
<1> HIDE DEF q, n, M, first, run, behind
<1>7. first \o run \in Seq(M) /\ first \o r \in Seq(M)
  BY <1>6
<1>8. first \o run \o q \in Seq(M)
  BY <1>6, <1>7
<1>9. first \o run \o q \o behind \in Seq(M)
  BY <1>6, <1>8
<1>10. FillOne(m, r) \in Seq(M)
  BY <1>5, <1>7, <1>9
<1> QED
  BY <1>10 DEF M

\* The history repaired from position o + 1 on: everything is answered, and it still
\* starts with the run of tool messages that stands behind o in the history.
SameRun(r, h, o) ==
  \E b \in o..Len(h) :
     /\ Stops(h, b) /\ \A k \in o + 1..b : h[k].role = "tool"
     /\ b - o <= Len(r) /\ Stops(r, b - o)
     /\ \A k \in 1..b - o : r[k] = h[o + k]
Grounded(r) ==
  \A i \in 2..Len(r) : r[i].role = "tool" => r[i - 1].role # "user"
Repaired(r, h, o, N) ==
  r \in Seq(Message(1..N)) /\ AllAnswered(r) /\ Grounded(r) /\ SameRun(r, h, o)

\* t is m in front of r, with q tool messages behind the run of r, which ends at n.
Filled(m, r, n, q, t) ==
  /\ q \in Nat /\ Shifted(r, t, n, 1 + q) /\ t[1] = m
  /\ \A k \in 1..n : t[k + 1] = r[k] /\ r[k].role = "tool"
  /\ \A k \in n + 2..n + 1 + q : t[k].role = "tool"
  /\ Stops(r, n)
  /\ IF m.role = "assistant" THEN Answers(t, 2, n + 1 + q, m.calls) ELSE q = 0

\* Behind what was filled in no tool message stands.
LEMMA FilledStops ==
  ASSUME NEW M, NEW m, NEW r \in Seq(M), NEW n, NEW q, NEW t, Filled(m, r, n, q, t)
  PROVE  /\ Len(r) \in Nat /\ n \in 0..Len(r) /\ q \in Nat /\ Len(t) = Len(r) + 1 + q
         /\ n + 1 + q \in 1..Len(t) /\ Stops(t, n + 1 + q)
<1>1. Len(r) \in Nat /\ n \in 0..Len(r) /\ q \in Nat /\ Len(t) = Len(r) + 1 + q
  BY DEF Filled, Shifted
<1>2. Stops(t, n + 1 + q)
  <2>1. SUFFICES ASSUME n + 1 + q < Len(t) PROVE t[n + 1 + q + 1].role # "tool"
    BY DEF Stops
  <2>2. n + 1 \in n + 1..Len(r) /\ (n + 1) + (1 + q) = n + 1 + q + 1 /\ n < Len(r)
    BY <1>1, <2>1
  <2>3. t[n + 1 + q + 1] = r[n + 1]
    BY <2>2 DEF Filled, Shifted
  <2> QED
    BY <2>2, <2>3 DEF Filled, Stops
<1> QED
  BY <1>1, <1>2

\* What stands at position i of t.
Place(m, r, n, q, t, i) ==
  \/ i = 1 /\ t[i] = m
  \/ i \in 2..n + 1 /\ i - 1 \in 1..n /\ t[i] = r[i - 1] /\ t[i].role = "tool"
  \/ i \in n + 2..n + 1 + q /\ t[i].role = "tool"
  \/ i > n + 1 + q /\ i - (1 + q) \in n + 1..Len(r) /\ t[i] = r[i - (1 + q)]

\* The positions of t: m, the run, what was filled in, the rest.
LEMMA FilledPositions ==
  ASSUME NEW M, NEW m, NEW r \in Seq(M), NEW n, NEW q, NEW t, Filled(m, r, n, q, t),
         NEW i \in 1..Len(t)
  PROVE  Place(m, r, n, q, t, i)
<1> USE DEF Place
<1>1. /\ Len(r) \in Nat /\ n \in 0..Len(r) /\ q \in Nat /\ Len(t) = Len(r) + 1 + q
  BY FilledStops
<1>2. CASE i = 1
  BY <1>2 DEF Filled
<1>3. CASE i \in 2..n + 1
  <2>1. i - 1 \in 1..n /\ (i - 1) + 1 = i
    BY <1>1, <1>3
  <2> QED
    BY <1>3, <2>1 DEF Filled
<1>4. CASE i \in n + 2..n + 1 + q
  BY <1>4 DEF Filled
<1>5. CASE i > n + 1 + q
  <2>1. i - (1 + q) \in n + 1..Len(r) /\ (i - (1 + q)) + (1 + q) = i
    BY <1>1, <1>5
  <2> QED
    BY <1>5, <2>1 DEF Filled, Shifted
<1> QED
  BY <1>1, <1>2, <1>3, <1>4, <1>5

\* The repair of one more message.
LEMMA FilledRepaired ==
  ASSUME NEW N \in Nat, NEW h \in Seq(Message(1..N)), Placed(h), NEW o \in 1..Len(h),
         NEW r, Repaired(r, h, o, N), NEW n, NEW q, NEW t \in Seq(Message(1..N)),
         Filled(h[o], r, n, q, t)
  PROVE  Repaired(t, h, o - 1, N)
<1> DEFINE M == Message(1..N)
           m == h[o]
<1>1. r \in Seq(M) /\ h \in Seq(M) /\ t \in Seq(M) /\ Len(h) \in Nat /\ Len(t) \in Nat
  BY DEF Repaired
<1>2. Filled(m, r, n, q, t) /\ DOMAIN t = 1..Len(t) /\ DOMAIN r = 1..Len(r)
  BY <1>1
<1> HIDE DEF M, m
<1>3. /\ Len(r) \in Nat /\ n \in 0..Len(r) /\ q \in Nat /\ Len(t) = Len(r) + 1 + q
      /\ n + 1 + q \in 1..Len(t) /\ Stops(t, n + 1 + q)
  BY <1>1, <1>2, FilledStops
<1>4. \A i \in 1..Len(t) : Place(m, r, n, q, t, i)
  BY <1>1, <1>2, FilledPositions
<1>5. PICK b \in o..Len(h) :
             /\ Stops(h, b) /\ \A k \in o + 1..b : h[k].role = "tool"
             /\ b - o <= Len(r) /\ Stops(r, b - o)
             /\ \A k \in 1..b - o : r[k] = h[o + k]
  BY DEF Repaired, SameRun
<1>6. b - o = n
  <2>1. b - o \in 0..Len(r) /\ n \in 0..Len(r) /\ b \in Nat /\ o \in Nat
    BY <1>1, <1>3, <1>5
  <2>2. \A k \in 0 + 1..b - o : r[k].role = "tool"
    <3>1. ASSUME NEW k \in 1..b - o PROVE r[k].role = "tool"
      <4>1. o + k \in o + 1..b
        BY <2>1
      <4> QED
        BY <4>1, <1>5
    <3> QED
      BY <3>1
  <2>3. Stops(r, n) /\ \A k \in 0 + 1..n : r[k].role = "tool"
    BY <1>2 DEF Filled
  <2> QED
    BY <1>1, <1>5, <2>1, <2>2, <2>3, OneStop
<1>7. AllAnswered(t)
  <2> SUFFICES ASSUME NEW i \in 1..Len(t), t[i].role = "assistant"
               PROVE  Answered(t, i, t[i].calls)
    BY <1>2 DEF AllAnswered
  <2>1. CASE i = 1 /\ t[i] = m
    <3>1. Answers(t, 1 + 1, n + 1 + q, m.calls)
      BY <2>1, <1>2 DEF Filled
    <3> QED
      BY <2>1, <3>1, <1>3 DEF Answered
  <2>2. CASE i > n + 1 + q /\ i - (1 + q) \in n + 1..Len(r) /\ t[i] = r[i - (1 + q)]
    <3>1. Answered(r, i - (1 + q), t[i].calls)
      BY <2>2, <1>2, <1>3 DEF Repaired, AllAnswered
    <3>2. Shifted(r, t, n, 1 + q) /\ (i - (1 + q)) + (1 + q) = i
      BY <1>2, <1>3 DEF Filled
    <3> QED
      BY <2>2, <3>1, <3>2, <1>1, ShiftedAnswered
  <2> QED
    BY <1>4, <2>1, <2>2 DEF Place
<1>8. Grounded(t)
  <2> SUFFICES ASSUME NEW i \in 2..Len(t), t[i].role = "tool", t[i - 1].role = "user"
               PROVE  FALSE
    BY DEF Grounded
  <2>1. i \in 1..Len(t) /\ i - 1 \in 1..Len(t) /\ i \in Nat /\ i >= 2 /\ i <= Len(t)
    BY <1>1
  <2>2. CASE i - 1 = 1 /\ t[i - 1] = m
    <3>1. q = 0
      BY <1>2, <2>2 DEF Filled
    <3>2. r[1].role = "tool" /\ 1 \in 1..Len(r) /\ t[2] = r[1]
      BY <1>3, <1>4, <2>1, <2>2, <3>1 DEF Place
    <3>3. n >= 1
      BY <1>2, <1>3, <3>2 DEF Filled, Stops
    <3>4. r[1] = h[o + 1] /\ o + 1 \in 1..Len(h) /\ (o + 1) - 1 = o
      BY <1>1, <1>3, <1>5, <1>6, <3>3
    <3>5. h[o + 1].role = "tool" /\ o + 1 \in DOMAIN h
      BY <1>1, <3>2, <3>4
    <3>6. h[(o + 1) - 1].role # "user"
      BY <3>5 DEF Placed
    <3> QED
      BY <2>2, <3>4, <3>6 DEF m
  <2>3. CASE i - 1 > n + 1 + q
    <3>1. i - (1 + q) \in 2..Len(r) /\ t[i] = r[i - (1 + q)] /\ i - (1 + q) \in Int
      <4>1. t[i] = r[i - (1 + q)] /\ i - (1 + q) \in n + 1..Len(r)
        BY <1>3, <1>4, <2>1, <2>3 DEF Place
      <4>2. n \in Nat /\ q \in Nat /\ i \in Nat /\ Len(r) \in Nat
        BY <1>3, <2>1
      <4>3. i - (1 + q) >= 2
        BY <2>3, <4>2
      <4> QED
        BY <4>1, <4>2, <4>3
    <3>2. t[i - 1] = r[(i - (1 + q)) - 1]
      <4>1. t[i - 1] = r[(i - 1) - (1 + q)]
        BY <1>3, <1>4, <2>1, <2>3 DEF Place
      <4>2. (i - 1) - (1 + q) = (i - (1 + q)) - 1
        BY <1>3, <2>1
      <4> QED
        BY <4>1, <4>2
    <3> QED
      BY <3>1, <3>2 DEF Repaired, Grounded
  <2>4. CASE t[i - 1].role = "tool"
    BY <2>4
  <2> QED
    BY <1>3, <1>4, <2>1, <2>2, <2>3, <2>4 DEF Place
<1>9. SameRun(t, h, o - 1)
  <2>1. o - 1 \in Nat /\ (o - 1) + 1 = o /\ o \in Nat /\ o <= Len(h) /\ b \in Nat /\ b >= o
    BY <1>1, <1>5
  <2>2. CASE m.role = "tool"
    <3>1. q = 0 /\ b - (o - 1) = n + 1 /\ n \in Nat
      BY <1>2, <1>3, <1>6, <2>1, <2>2 DEF Filled
    <3>2. \A k \in (o - 1) + 1..b : h[k].role = "tool"
      <4>1. \A k \in (o - 1) + 1..b : k = o \/ k \in o + 1..b
        BY <2>1
      <4> QED
        BY <1>5, <2>2, <4>1 DEF m
    <3>3. ASSUME NEW k \in 1..n + 1 PROVE t[k] = h[(o - 1) + k]
      <4>1. CASE k = 1
        BY <4>1, <1>2, <2>1 DEF Filled, m
      <4>2. CASE k # 1
        <5>1. k - 1 \in 1..n /\ (k - 1) + 1 = k /\ o + (k - 1) = (o - 1) + k
          BY <2>1, <3>1, <4>2
        <5>2. t[k] = r[k - 1]
          BY <5>1, <1>2 DEF Filled
        <5> QED
          BY <1>5, <1>6, <5>1, <5>2
      <4> QED
        BY <4>1, <4>2
    <3>4. Stops(t, n + 1) /\ n + 1 <= Len(t) /\ b \in o - 1..Len(h)
      BY <1>1, <1>3, <2>1, <3>1
    <3> QED
      BY <1>5, <3>1, <3>2, <3>3, <3>4 DEF SameRun
  <2>3. CASE m.role # "tool"
    <3>1. Stops(h, o - 1)
      BY <2>1, <2>3 DEF Stops, m
    <3>2. Stops(t, 0)
      BY <1>2, <2>3 DEF Stops, Filled
    <3>3. /\ o - 1 \in o - 1..Len(h) /\ (o - 1) - (o - 1) = 0 /\ 0 <= Len(t)
          /\ \A k \in (o - 1) + 1..o - 1 : FALSE
      BY <1>1, <2>1
    <3> QED
      BY <3>1, <3>2, <3>3 DEF SameRun
  <2> QED
    BY <2>2, <2>3
<1> QED
  BY <1>1, <1>7, <1>8, <1>9 DEF Repaired, M

\* Two runs of answers to different ids, one behind the other.
LEMMA AnswersJoined ==
  ASSUME NEW t, NEW a \in Int, NEW b \in Int, NEW e \in Int, NEW A, NEW B,
         a <= b + 1, b <= e, A \cap B = {}, NEW f, f = b + 1,
         Answers(t, a, b, A), Answers(t, f, e, B)
  PROVE  Answers(t, a, e, A \cup B)
<1>0. Answers(t, b + 1, e, B)
  OBVIOUS
<1>1. \A k \in a..e : k \in a..b \/ k \in b + 1..e
  OBVIOUS
<1>2. (\A k \in a..b : k \in a..e) /\ (\A k \in b + 1..e : k \in a..e)
  OBVIOUS
<1>3. ASSUME NEW k \in a..e
      PROVE  t[k].role = "tool" /\ \E c \in A \cup B : t[k].calls = {c}
  <2>1. CASE k \in a..b
    BY <2>1 DEF Answers
  <2>2. CASE k \in b + 1..e
    BY <1>0, <2>2 DEF Answers
  <2> QED
    BY <1>1, <2>1, <2>2
<1>4. ASSUME NEW c \in A \cup B PROVE \E k \in a..e : t[k].calls = {c}
  BY <1>0, <1>2 DEF Answers
<1>5. ASSUME NEW j \in a..e, NEW k \in a..e, t[j].calls = t[k].calls PROVE j = k
  <2>1. CASE j \in a..b /\ k \in a..b
    BY <1>5, <2>1 DEF Answers
  <2>2. CASE j \in b + 1..e /\ k \in b + 1..e
    BY <1>0, <1>5, <2>2 DEF Answers
  <2>3. ASSUME NEW x \in a..b, NEW y \in b + 1..e PROVE t[x].calls # t[y].calls
    <3>1. PICK c \in A : t[x].calls = {c}
      BY DEF Answers
    <3>2. PICK d \in B : t[y].calls = {d}
      BY <1>0 DEF Answers
    <3> QED
      BY <3>1, <3>2
  <2> QED
    BY <1>1, <1>5, <2>1, <2>2, <2>3
<1> QED
  BY <1>3, <1>4, <1>5 DEF Answers

\* Two sequences one behind the other.
LEMMA Concatenation ==
  ASSUME NEW M, NEW s \in Seq(M), NEW t \in Seq(M)
  PROVE  /\ s \o t \in Seq(M) /\ Len(s \o t) = Len(s) + Len(t)
         /\ \A k \in 1..Len(s) : (s \o t)[k] = s[k]
         /\ \A k \in 1..Len(t) : (s \o t)[Len(s) + k] = t[k]
  OBVIOUS

\* FillOne in front of a repaired rest: m is put in front when every call is answered,
\* and otherwise the placeholders of the rest are put behind the run.
LEMMA FillOneFills ==
  ASSUME NEW N \in Nat, NEW m \in Message(1..N), NEW r \in Seq(Message(1..N)),
         NEW n \in 0..Len(r), Stops(r, n), \A k \in 1..n : r[k].role = "tool",
         NEW A \in SUBSET m.calls, m.role = "assistant" => Answers(r, 1, n, A)
  PROVE  \E q : Filled(m, r, n, q, FillOne(m, r))
<1> DEFINE M == Message(1..N)
           t == FillOne(m, r)
           first == <<m>>
<1>1. ToolRun(r) = n /\ Len(r) \in Nat /\ n \in Nat
  BY ToolRunIs
<1>2. m.calls \in SUBSET (1..N) /\ IsFiniteSet(m.calls)
  <2>1. m.calls \in SUBSET (1..N)
    BY MessageFacts
  <2>2. IsFiniteSet(1..N)
    BY FS_Interval
  <2> QED
    BY <2>1, <2>2, FS_Subset
<1>3. ASSUME m.role = "assistant" PROVE IdsOf(SubSeq(r, 1, n)) = A
  <2> HIDE DEF M, t, first
  <2>1. Answers(r, 1, n, A)
    BY <1>3
  <2> QED
    BY <2>1, IdsOfRun
<1>4. CASE m.role = "assistant" /\ Cardinality(A) < Cardinality(m.calls)
  <2> DEFINE p == Placeholders(m.calls \ A)
             q == Len(p)
             run == SubSeq(r, 1, n)
             behind == SubSeq(r, n + 1, Len(r))
  <2>1. t = first \o run \o p \o behind
    BY <1>1, <1>3, <1>4 DEF FillOne
  <2>2. Lists(p, N, m.calls \ A)
    <3>1. m.calls \ A \in SUBSET (1..N)
      BY <1>2
    <3> QED
      BY <3>1, PlaceholdersAnswer
  <2>3. p \in Seq(M) /\ Answers(p, 1, q, m.calls \ A) /\ q \in Nat
    BY <2>2 DEF Lists
  <2>4. /\ first \in Seq(M) /\ Len(first) = 1 /\ first[1] = m
        /\ run \in Seq(M) /\ Len(run) = n /\ \A k \in 1..n : run[k] = r[k]
        /\ behind \in Seq(M) /\ Len(behind) = Len(r) - n
        /\ \A k \in 1..Len(r) - n : behind[k] = r[n + k]
    BY <1>1
  <2> HIDE DEF M, t, first, run, behind, p
  <2> DEFINE a == first \o run
             b == a \o p
  <2>5. /\ a \in Seq(M) /\ Len(a) = 1 + n /\ a[1] = m
        /\ \A k \in 1..n : a[k + 1] = r[k]
    <3>0. first \in Seq(M) /\ run \in Seq(M)
      BY <2>4
    <3>1. /\ a \in Seq(M) /\ Len(a) = Len(first) + Len(run)
          /\ \A k \in 1..Len(first) : a[k] = first[k]
          /\ \A k \in 1..Len(run) : a[Len(first) + k] = run[k]
      BY <3>0, Concatenation
    <3> HIDE DEF a
    <3>2. a[1] = m
      BY <2>4, <3>1
    <3>3. ASSUME NEW k \in 1..n PROVE a[k + 1] = r[k]
      <4>1. a[1 + k] = run[k] /\ 1 + k = k + 1
        BY <2>4, <3>1
      <4> QED
        BY <2>4, <4>1
    <3> QED
      BY <2>4, <3>1, <3>2, <3>3
  <2> HIDE DEF a
  <2>6. /\ b \in Seq(M) /\ Len(b) = 1 + n + q /\ b[1] = m
        /\ \A k \in 1..n : b[k + 1] = r[k]
        /\ \A k \in 1..q : b[k + (n + 1)] = p[k]
    <3>a. a \in Seq(M) /\ p \in Seq(M)
      BY <2>3, <2>5
    <3>0. /\ b \in Seq(M) /\ Len(b) = Len(a) + Len(p)
          /\ \A k \in 1..Len(a) : b[k] = a[k]
          /\ \A k \in 1..Len(p) : b[Len(a) + k] = p[k]
      BY <3>a, Concatenation
    <3> HIDE DEF b
    <3>1. b \in Seq(M) /\ Len(b) = 1 + n + q /\ \A k \in 1..1 + n : b[k] = a[k]
      BY <2>5, <3>0
    <3>3. ASSUME NEW k \in 1..q PROVE b[k + (n + 1)] = p[k]
      <4>1. b[(1 + n) + k] = p[k] /\ (1 + n) + k = k + (n + 1)
        BY <1>1, <2>3, <2>5, <3>0
      <4> QED
        BY <4>1
    <3>4. 1 \in 1..1 + n /\ \A k \in 1..n : k + 1 \in 1..1 + n
      BY <1>1
    <3> QED
      BY <2>5, <3>1, <3>3, <3>4
  <2> HIDE DEF b
  <2>7. t = b \o behind
    BY <2>1 DEF a, b
  <2>8. /\ Len(t) = Len(r) + (1 + q)
        /\ \A k \in 1..1 + n + q : t[k] = b[k]
        /\ \A k \in n + 1..Len(r) : t[k + (1 + q)] = r[k]
    <3>a. b \in Seq(M) /\ behind \in Seq(M)
      BY <2>4, <2>6
    <3>0. /\ Len(t) = Len(b) + Len(behind)
          /\ \A k \in 1..Len(b) : t[k] = b[k]
          /\ \A k \in 1..Len(behind) : t[Len(b) + k] = behind[k]
      BY <3>a, <2>7, Concatenation
    <3>1. Len(t) = Len(r) + (1 + q)
      BY <1>1, <2>3, <2>4, <2>6, <3>0
    <3>2. \A k \in 1..1 + n + q : t[k] = b[k]
      BY <2>6, <3>0
    <3>3. ASSUME NEW k \in n + 1..Len(r) PROVE t[k + (1 + q)] = r[k]
      <4>1. k - n \in 1..Len(behind) /\ k + (1 + q) = Len(b) + (k - n) /\ n + (k - n) = k
        BY <1>1, <2>3, <2>4, <2>6
      <4>2. t[Len(b) + (k - n)] = behind[k - n]
        BY <3>0, <4>1
      <4> QED
        BY <2>4, <4>1, <4>2
    <3> QED
      BY <3>1, <3>2, <3>3
  <2> HIDE DEF q
  <2>9. Shifted(r, t, n, 1 + q)
    BY <2>3, <2>8 DEF Shifted
  <2>10. t[1] = m /\ \A k \in 1..n : t[k + 1] = r[k]
    <3>1. 1 \in 1..1 + n + q /\ \A k \in 1..n : k + 1 \in 1..1 + n + q
      BY <1>1, <2>3
    <3> QED
      BY <2>6, <2>8, <3>1
  <2>11. \A k \in 1..q : t[k + (n + 1)] = p[k]
    <3>1. \A k \in 1..q : k + (n + 1) \in 1..1 + n + q
      BY <1>1, <2>3
    <3> QED
      BY <2>6, <2>8, <3>1
  <2>12. Answers(t, 2, n + 1, A)
    <3>1. Moved(r, t, 1, n, 1)
      BY <2>10 DEF Moved
    <3>2. Answers(r, 1, n, A) /\ 2 = 1 + 1 /\ 1 \in Int /\ n \in Int
      BY <1>1, <1>4
    <3> QED
      BY <3>1, <3>2, AnswersMoved
  <2>13. Answers(t, n + 2, n + 1 + q, m.calls \ A)
    <3>1. Moved(p, t, 1, q, n + 1)
      BY <2>11 DEF Moved
    <3>2. /\ n + 2 = 1 + (n + 1) /\ n + 1 + q = q + (n + 1)
          /\ 1 \in Int /\ q \in Int /\ n + 1 \in Int
      BY <1>1, <2>3
    <3> QED
      BY <2>3, <3>1, <3>2, AnswersMoved
  <2>14. Answers(t, 2, n + 1 + q, m.calls)
    <3>1. A \cup (m.calls \ A) = m.calls
      OBVIOUS
    <3>4. /\ n + 1 \in Int /\ n + 1 + q \in Int /\ 2 <= (n + 1) + 1 /\ n + 1 <= n + 1 + q
          /\ n + 2 = (n + 1) + 1 /\ 2 \in Int /\ A \cap (m.calls \ A) = {}
      BY <1>1, <2>3
    <3>5. Answers(t, 2, n + 1 + q, A \cup (m.calls \ A))
      BY <2>12, <2>13, <3>4, AnswersJoined
    <3> QED
      BY <3>1, <3>5
  <2>15. \A k \in n + 2..n + 1 + q : t[k].role = "tool"
    <3>1. \A k \in n + 2..n + 1 + q : k \in 2..n + 1 + q
      BY <1>1, <2>3
    <3> QED
      BY <2>14, <3>1 DEF Answers
  <2>16. Filled(m, r, n, q, t)
    BY <1>4, <2>3, <2>9, <2>10, <2>14, <2>15 DEF Filled
  <2> QED
    BY <2>16 DEF t
<1>5. CASE ~(m.role = "assistant" /\ Cardinality(A) < Cardinality(m.calls))
  <2>1. t = first \o r
    BY <1>1, <1>3, <1>5 DEF FillOne
  <2>2. Len(first) = 1 /\ first[1] = m /\ first \in Seq(M) /\ r \in Seq(M)
    OBVIOUS
  <2> HIDE DEF t, first, M
  <2>0. /\ Len(t) = Len(first) + Len(r)
        /\ \A k \in 1..Len(first) : t[k] = first[k]
        /\ \A k \in 1..Len(r) : t[Len(first) + k] = r[k]
    <3> DEFINE c == first \o r
    <3>a. first \in Seq(M) /\ r \in Seq(M)
      BY <2>2
    <3>0. /\ c \in Seq(M) /\ Len(c) = Len(first) + Len(r)
          /\ \A k \in 1..Len(first) : c[k] = first[k]
          /\ \A k \in 1..Len(r) : c[Len(first) + k] = r[k]
      BY <3>a, Concatenation
    <3>1. t = c
      BY <2>1
    <3> HIDE DEF c
    <3> QED
      BY <3>0, <3>1
  <2>3. Len(t) = Len(r) + 1 /\ t[1] = m
    BY <1>1, <2>2, <2>0
  <2>4. ASSUME NEW k \in 1..Len(r) PROVE t[k + 1] = r[k]
    <3>1. t[1 + k] = r[k] /\ 1 + k = k + 1
      BY <1>1, <2>0, <2>2
    <3> QED
      BY <3>1
  <2>5. Shifted(r, t, n, 1 + 0)
    BY <1>1, <2>3, <2>4 DEF Shifted
  <2>6. ASSUME m.role = "assistant" PROVE Answers(t, 2, n + 1 + 0, m.calls)
    <3>1. A = m.calls
      <4>1. Cardinality(A) <= Cardinality(m.calls) /\ Cardinality(m.calls) \in Nat
            /\ Cardinality(A) \in Nat
        BY <1>2, FS_Subset, FS_CardinalityType
      <4> QED
        BY <1>2, <1>5, <2>6, <4>1, FS_Subset
    <3>2. Moved(r, t, 1, n, 1)
      BY <1>1, <2>4 DEF Moved
    <3>3. Answers(r, 1, n, A) /\ 2 = 1 + 1 /\ n + 1 + 0 = n + 1 /\ 1 \in Int /\ n \in Int
      BY <1>1, <2>6
    <3>4. Answers(t, 2, n + 1, A)
      BY <3>2, <3>3, AnswersMoved
    <3> QED
      BY <3>1, <3>3, <3>4
  <2>7. Filled(m, r, n, 0, t)
    BY <1>1, <2>3, <2>4, <2>5, <2>6 DEF Filled
  <2> QED
    BY <2>7 DEF t
<1> QED
  BY <1>4, <1>5

\* FillMissing is the last of the histories repaired from each position on.
LEMMA FillMissingIs ==
  ASSUME NEW N \in Nat, NEW h \in Seq(Message(1..N))
  PROVE  \E g \in [0..Len(h) -> Seq(Message(1..N))] :
           /\ g[0] = <<>> /\ FillMissing(h) = g[Len(h)]
           /\ \A n \in 1..Len(h) : g[n] = FillOne(h[Len(h) - n + 1], g[n - 1])
<1> DEFINE M == Message(1..N)
           L == Len(h)
           step == [n \in Nat |-> [s \in Seq(M) |->
                      IF n \in 1..L THEN FillOne(h[L - n + 1], s) ELSE s]]
           Solves(f) == f = [n \in 0..L |->
              IF n = 0 THEN <<>> ELSE FillOne(h[L - n + 1], f[n - 1])]
<1>1. L \in Nat /\ <<>> \in Seq(M)
  OBVIOUS
<1>2. ASSUME NEW n \in 1..L, NEW s \in Seq(M) PROVE FillOne(h[L - n + 1], s) \in Seq(M)
  <2>1. h[L - n + 1] \in M
    <3>1. L - n + 1 \in DOMAIN h
      BY <1>1
    <3> HIDE DEF L
    <3> QED
      BY <3>1
  <2> QED
    BY <2>1, FillOneTyped
<1>3. step \in [Nat -> [Seq(M) -> Seq(M)]]
  <2>1. ASSUME NEW n \in Nat, NEW s \in Seq(M)
        PROVE  (IF n \in 1..L THEN FillOne(h[L - n + 1], s) ELSE s) \in Seq(M)
    <3> HIDE DEF M, L
    <3> QED
      BY <1>2
  <2> HIDE DEF M, L
  <2> QED
    BY <2>1
<1>4. PICK g : Recursive(g, Seq(M), <<>>, step, L)
  <2> HIDE DEF step, M, L
  <2> QED
    BY <1>1, <1>3, RecursionDefines
<1>5. g \in [0..L -> Seq(M)] /\ g[0] = <<>>
  <2> HIDE DEF step, M, L
  <2> QED
    BY <1>4 DEF Recursive
<1>6. ASSUME NEW n \in 1..L PROVE g[n] = FillOne(h[L - n + 1], g[n - 1])
  <2>1. n \in Nat /\ g[n - 1] \in Seq(M) /\ g[n] = step[n][g[n - 1]]
    <3> HIDE DEF step, M, L
    <3> QED
      BY <1>1, <1>4, <1>5 DEF Recursive
  <2> HIDE DEF M, L
  <2> QED
    BY <2>1
<1>7. Solves(g)
  <2>1. \A n \in 0..L : n = 0 \/ n \in 1..L
    <3> HIDE DEF L
    <3> QED
      BY <1>1
  <2> HIDE DEF M, L
  <2> QED
    BY <1>5, <1>6, <2>1
<1>8. PICK f : Solves(f) /\ FillMissing(h) = f[L]
  <2>1. FillMissing(h) = (CHOOSE f : Solves(f))[L]
    BY DEF FillMissing
  <2> HIDE DEF Solves, L
  <2> QED
    BY <1>7, <2>1
<1>9. f[0] = <<>> /\ \A n \in 1..L : f[n] = FillOne(h[L - n + 1], f[n - 1])
  <2> HIDE DEF L
  <2>1. 0 \in 0..L /\ \A n \in 1..L : n \in 0..L /\ n # 0
    BY <1>1
  <2> QED
    BY <1>8, <2>1
<1> HIDE DEF Solves
<1>10. \A n \in 1..L : f[n - 1] \in Seq(M) => f[n] = step[n][f[n - 1]]
  <2> HIDE DEF M, L
  <2> QED
    BY <1>9
<1>11. \A n \in 0..L : f[n] = g[n]
  <2> DEFINE V == Seq(M)
  <2>1. L \in Nat /\ <<>> \in V /\ step \in [Nat -> [V -> V]]
    <3> HIDE DEF step, M, L
    <3> QED
      BY <1>1, <1>3
  <2>2. Recursive(g, V, <<>>, step, L)
    <3> HIDE DEF step, M, L
    <3> QED
      BY <1>4
  <2>3. f[0] = <<>> /\ \A n \in 1..L : f[n - 1] \in V => f[n] = step[n][f[n - 1]]
    <3> HIDE DEF step, M, L
    <3> QED
      BY <1>9, <1>10
  <2> HIDE DEF step, V, L
  <2> QED
    BY <2>1, <2>2, <2>3, RecursionUnique
<1>12. FillMissing(h) = g[L]
  <2> HIDE DEF L
  <2> QED
    BY <1>1, <1>8, <1>11
<1> HIDE DEF step
<1> QED
  BY <1>5, <1>6, <1>12

\* The repair makes a history whole of which calls may have no answer yet.
LEMMA RepairMakesWhole ==
  ASSUME NEW N \in Nat, NEW h, Partial(h, N)
  PROVE  Whole(FillMissing(h), N)
<1> DEFINE M == Message(1..N)
           L == Len(h)
<1>1. h \in Seq(M) /\ Placed(h) /\ Begun(h) /\ L \in Nat /\ DOMAIN h = 1..L
  BY DEF Partial
<1>2. PICK g \in [0..L -> Seq(M)] :
         /\ g[0] = <<>> /\ FillMissing(h) = g[L]
         /\ \A n \in 1..L : g[n] = FillOne(h[L - n + 1], g[n - 1])
  BY <1>1, FillMissingIs
<1> HIDE DEF M, L
<1> DEFINE T == {n \in Nat : n <= L => Repaired(g[n], h, L - n, N)}
<1>3. 0 \in T
  <2>1. AllAnswered(<<>>) /\ Grounded(<<>>) /\ <<>> \in Seq(M)
    BY DEF AllAnswered, Grounded
  <2>2. SameRun(<<>>, h, L)
    <3>1. /\ L \in L..Len(h) /\ L - L = 0 /\ Len(<<>>) = 0 /\ ~(L < Len(h))
          /\ \A k \in L + 1..L : FALSE
      BY <1>1 DEF L
    <3> QED
      BY <3>1 DEF SameRun, Stops
  <2> QED
    BY <1>1, <1>2, <2>1, <2>2 DEF Repaired, M
<1>4. ASSUME NEW n \in Nat, n \in T PROVE n + 1 \in T
  <2>1. SUFFICES ASSUME n + 1 <= L PROVE Repaired(g[n + 1], h, L - (n + 1), N)
    OBVIOUS
  <2> DEFINE o == L - n
             r == g[n]
             m == h[o]
  <2>2. /\ n \in 0..L /\ n + 1 \in 1..L /\ o \in 1..L /\ L - (n + 1) = o - 1
        /\ L - (n + 1) + 1 = o /\ (n + 1) - 1 = n
    BY <1>1, <2>1
  <2>3. Repaired(r, h, o, N)
    BY <1>1, <1>4, <2>1
  <2>4. g[n + 1] = FillOne(m, r) /\ r \in Seq(M) /\ m \in M
    <3>1. g[n + 1] = FillOne(h[L - (n + 1) + 1], g[(n + 1) - 1])
      BY <1>2, <2>2
    <3>2. r \in Seq(M)
      BY <2>2
    <3>3. m \in M
      <4> HIDE DEF o
      <4> QED
        BY <1>1, <2>2
    <3> QED
      BY <2>2, <3>1, <3>2, <3>3
  <2> HIDE DEF o, r, m
  <2>5. PICK b \in o..L :
             /\ Stops(h, b) /\ \A k \in o + 1..b : h[k].role = "tool"
             /\ b - o <= Len(r) /\ Stops(r, b - o)
             /\ \A k \in 1..b - o : r[k] = h[o + k]
    BY <2>3 DEF Repaired, SameRun, L
  <2>6. /\ b - o \in 0..Len(r) /\ b \in Nat /\ o \in Nat /\ Len(r) \in Nat
        /\ \A k \in 1..b - o : r[k].role = "tool"
    <3>1. b \in Nat /\ o \in Nat /\ b - o \in 0..Len(r) /\ Len(r) \in Nat
      BY <1>1, <2>2, <2>4, <2>5
    <3>2. \A k \in 1..b - o : o + k \in o + 1..b
      BY <3>1
    <3> QED
      BY <2>5, <3>1, <3>2
  <2>7. \E A \in SUBSET m.calls : m.role = "assistant" => Answers(r, 1, b - o, A)
    <3>1. CASE m.role # "assistant"
      BY <3>1
    <3>2. CASE m.role = "assistant"
      <4>1. PICK A \in SUBSET m.calls : Answered(h, o, A)
        BY <1>1, <2>2, <3>2 DEF Begun, m
      <4>2. PICK e \in o..Len(h) : Stops(h, e) /\ Answers(h, o + 1, e, A)
        BY <4>1 DEF Answered
      <4>3. \A k \in o + 1..e : h[k].role = "tool"
        BY <4>2 DEF Answers
      <4>4. e = b
        BY <1>1, <2>5, <2>6, <4>2, <4>3, OneStop DEF L
      <4>5. Moved(h, r, o + 1, b, -o)
        <5>1. ASSUME NEW k \in o + 1..b PROVE r[k + (-o)] = h[k]
          <6>1. k + (-o) \in 1..b - o /\ o + (k + (-o)) = k
            BY <2>6
          <6> QED
            BY <2>5, <6>1
        <5> QED
          BY <5>1 DEF Moved
      <4>6. /\ o + 1 \in Int /\ b \in Int /\ -o \in Int
            /\ 1 = o + 1 + (-o) /\ b - o = b + (-o)
        BY <2>6
      <4>7. Answers(r, 1, b - o, A)
        BY <4>2, <4>4, <4>5, <4>6, AnswersMoved
      <4> QED
        BY <4>7
    <3> QED
      BY <3>1, <3>2
  <2>8. PICK q : Filled(m, r, b - o, q, FillOne(m, r))
    BY <2>4, <2>5, <2>6, <2>7, FillOneFills DEF M
  <2>9. FillOne(m, r) \in Seq(M)
    BY <2>4, FillOneTyped DEF M
  <2>10. Repaired(FillOne(m, r), h, o - 1, N)
    BY <1>1, <2>2, <2>3, <2>8, <2>9, FilledRepaired DEF M, L, m
  <2> QED
    BY <2>2, <2>4, <2>10
<1>5. Nat \subseteq T
  <2> HIDE DEF T
  <2> QED
    BY <1>3, <1>4, SetInduction
<1> DEFINE t == FillMissing(h)
<1>6. Repaired(t, h, 0, N)
  <2>1. L \in T /\ L - L = 0 /\ L <= L
    BY <1>1, <1>5
  <2> QED
    BY <1>2, <2>1
<1> HIDE DEF t, T
<1>7. PICK b \in 0..Len(h) :
         Stops(t, b - 0) /\ \A k \in 0 + 1..b : h[k].role = "tool"
  BY <1>6 DEF Repaired, SameRun
<1>8. Stops(t, 0)
  <2>1. ASSUME b # 0 PROVE FALSE
    <3>1. 1 \in 0 + 1..b /\ 1 \in DOMAIN h
      BY <1>1, <2>1 DEF L
    <3>2. h[1].role = "tool"
      BY <1>7, <3>1
    <3>3. Placed(h) /\ ~(1 > 1)
      BY <1>1
    <3> QED
      BY <3>1, <3>2, <3>3 DEF Placed
  <2>2. b = 0 /\ b - 0 = 0
    BY <2>1
  <2> QED
    BY <1>7, <2>2
<1>9. Placed(t)
  <2>1. t \in Seq(M) /\ Grounded(t)
    BY <1>6 DEF Repaired, M
  <2>2. ASSUME NEW i \in DOMAIN t, t[i].role = "tool" PROVE i > 1 /\ t[i - 1].role # "user"
    <3>1. i \in 1..Len(t) /\ Len(t) \in Nat
      BY <2>1
    <3>2. i # 1
      BY <1>8, <2>2, <3>1 DEF Stops
    <3>3. i \in 2..Len(t)
      BY <3>1, <3>2
    <3> QED
      BY <2>1, <2>2, <3>3 DEF Grounded
  <2> QED
    BY <2>2 DEF Placed
<1> QED
  BY <1>6, <1>9 DEF Repaired, Whole, t

\* A whole history is well formed.
LEMMA WholeIsWellFormed ==
  ASSUME NEW N \in Nat, NEW h, Whole(h, N)
  PROVE  WellFormed(h)
<1>1. h \in Seq(Message(1..N)) /\ Placed(h) /\ AllAnswered(h) /\ Len(h) \in Nat
  BY DEF Whole
<1>2. ASSUME NEW i \in DOMAIN h, h[i].role = "assistant"
      PROVE  /\ ToolRun(Following(h, i)) = Cardinality(h[i].calls)
             /\ AnswersAfter(h, i) = h[i].calls
  <2> DEFINE A == h[i].calls
             f == Following(h, i)
  <2>1. PICK b \in i..Len(h) : Stops(h, b) /\ Answers(h, i + 1, b, A)
    BY <1>1, <1>2 DEF AllAnswered, Answered
  <2> DEFINE n == b - i
  <2>2. i \in 1..Len(h) /\ b \in Nat /\ i \in Nat /\ n \in Nat
    BY <1>1, <2>1
  <2>3. /\ f \in Seq(Message(1..N)) /\ Len(f) = Len(h) - i
        /\ \A k \in 1..Len(h) - i : f[k] = h[i + k]
    BY <1>1, <2>2 DEF Following
  <2> HIDE DEF f
  <2>4. n \in 0..Len(f) /\ Len(f) \in Nat
    BY <1>1, <2>1, <2>2, <2>3
  <2>5. Stops(f, n)
    <3>1. SUFFICES ASSUME n < Len(f) PROVE f[n + 1].role # "tool"
      BY DEF Stops
    <3>2. n + 1 \in 1..Len(h) - i /\ i + (n + 1) = b + 1 /\ b < Len(h)
      <4>1. b - i < Len(h) - i
        BY <2>3, <3>1
      <4> QED
        BY <1>1, <2>2, <4>1
    <3> QED
      BY <2>1, <2>3, <3>2 DEF Stops
  <2>6. Answers(f, 1, n, A)
    <3>1. Moved(h, f, i + 1, b, -i)
      <4>1. ASSUME NEW k \in i + 1..b PROVE f[k + (-i)] = h[k]
        <5>1. k + (-i) \in 1..Len(h) - i /\ i + (k + (-i)) = k
          BY <1>1, <2>1, <2>2
        <5> QED
          BY <2>3, <5>1
      <4> QED
        BY <4>1 DEF Moved
    <3>2. i + 1 \in Int /\ b \in Int /\ -i \in Int /\ 1 = i + 1 + (-i) /\ n = b + (-i)
      BY <2>2
    <3> QED
      BY <2>1, <3>1, <3>2, AnswersMoved
  <2>7. ToolRun(f) = n
    <3>1. \A k \in 1..n : f[k].role = "tool"
      BY <2>6 DEF Answers
    <3> QED
      BY <2>3, <2>4, <2>5, <3>1, ToolRunIs
  <2>8. Cardinality(A) = n
    <3>1. n = 1 + n - 1 /\ 1 \in Int
      BY <2>2
    <3>2. Answers(f, 1, 1 + n - 1, A)
      BY <2>6, <3>1
    <3> QED
      BY <2>2, <3>1, <3>2, RunCounts
  <2>9. IdsOf(SubSeq(f, 1, n)) = A
    <3>1. 1 \in 1..Len(f) + 1 /\ n \in 1 - 1..Len(f)
      BY <2>4
    <3> QED
      BY <2>3, <2>6, <3>1, IdsOfRun
  <2> QED
    BY <2>7, <2>8, <2>9 DEF AnswersAfter, f
<1> QED
  BY <1>1, <1>2 DEF WellFormed, Placed

-----------------------------------------------------------------------------
(* How a history grows *)

\* The empty history lacks nothing.
LEMMA EmptyIsPartial == ASSUME NEW N \in Nat PROVE Partial(<<>>, N)
<1>1. <<>> \in Seq(Message(1..N)) /\ DOMAIN <<>> = {}
  OBVIOUS
<1> QED
  BY <1>1 DEF Partial, Placed, Begun

\* What is whole lacks nothing that the repair would have to add.
LEMMA WholeIsPartial == ASSUME NEW N \in Nat, NEW h, Whole(h, N) PROVE Partial(h, N)
  BY DEF Whole, Partial, AllAnswered, Begun

\* A message behind h.
LEMMA Appended ==
  ASSUME NEW M, NEW h \in Seq(M), NEW m \in M
  PROVE  /\ Append(h, m) \in Seq(M) /\ Len(h) \in Nat /\ DOMAIN h = 1..Len(h)
         /\ Len(Append(h, m)) = Len(h) + 1 /\ DOMAIN Append(h, m) = 1..Len(h) + 1
         /\ Append(h, m)[Len(h) + 1] = m
         /\ \A k \in 1..Len(h) : Append(h, m)[k] = h[k]
         /\ \A k \in 1..Len(h) + 1 : k \in 1..Len(h) \/ k = Len(h) + 1
  OBVIOUS

\* A run stays answered when a message comes that is no part of it.
LEMMA StillAnswered ==
  ASSUME NEW M, NEW h \in Seq(M), NEW m \in M, NEW i \in DOMAIN h, NEW A, Answered(h, i, A),
         m.role # "tool" \/ \E k \in i + 1..Len(h) : h[k].role # "tool"
  PROVE  Answered(Append(h, m), i, A)
<1> DEFINE t == Append(h, m)
<1>1. /\ Len(h) \in Nat /\ i \in 1..Len(h) /\ Len(t) = Len(h) + 1 /\ t[Len(h) + 1] = m
      /\ \A k \in 1..Len(h) : t[k] = h[k]
  BY Appended
<1> HIDE DEF t
<1>2. PICK b \in i..Len(h) : Stops(h, b) /\ Answers(h, i + 1, b, A)
  BY DEF Answered
<1>3. Stops(t, b)
  <2>1. CASE b < Len(h)
    <3>1. b + 1 \in 1..Len(h)
      BY <1>1, <2>1
    <3> QED
      BY <1>1, <1>2, <2>1, <3>1 DEF Stops
  <2>2. CASE b = Len(h)
    <3>1. m.role # "tool"
      BY <1>2, <2>2 DEF Answers
    <3> QED
      BY <1>1, <2>2, <3>1 DEF Stops
  <2> QED
    BY <1>1, <2>1, <2>2
<1>4. Moved(h, t, i + 1, b, 0)
  <2>1. ASSUME NEW k \in i + 1..b PROVE t[k + 0] = h[k]
    <3>1. k \in 1..Len(h) /\ k + 0 = k
      BY <1>1
    <3> QED
      BY <1>1, <3>1
  <2> QED
    BY <2>1 DEF Moved
<1>5. i + 1 \in Int /\ b \in Int /\ i + 1 = i + 1 + 0 /\ b = b + 0 /\ 0 \in Int
  BY <1>1
<1>6. Answers(t, i + 1, b, A)
  BY <1>2, <1>4, <1>5, AnswersMoved
<1>7. b \in i..Len(t)
  BY <1>1
<1> QED
  BY <1>3, <1>6, <1>7 DEF Answered, t

\* Messages stay in their places.
LEMMA StillPlaced ==
  ASSUME NEW M, NEW h \in Seq(M), NEW m \in M, Placed(h),
         m.role = "tool" => Len(h) > 0 /\ h[Len(h)].role # "user"
  PROVE  Placed(Append(h, m))
<1> DEFINE t == Append(h, m)
<1>1. /\ Len(h) \in Nat /\ DOMAIN h = 1..Len(h)
      /\ DOMAIN t = 1..Len(h) + 1 /\ t[Len(h) + 1] = m
      /\ \A k \in 1..Len(h) : t[k] = h[k]
      /\ \A k \in 1..Len(h) + 1 : k \in 1..Len(h) \/ k = Len(h) + 1
  BY Appended
<1> HIDE DEF t
<1>2. ASSUME NEW i \in DOMAIN t, t[i].role = "tool" PROVE i > 1 /\ t[i - 1].role # "user"
  <2>1. CASE i \in 1..Len(h)
    <3>1. i > 1 /\ h[i - 1].role # "user"
      BY <1>1, <1>2, <2>1 DEF Placed
    <3>2. i - 1 \in 1..Len(h)
      BY <1>1, <2>1, <3>1
    <3> QED
      BY <1>1, <3>1, <3>2
  <2>2. CASE i = Len(h) + 1
    <3>1. Len(h) > 0 /\ h[Len(h)].role # "user"
      BY <1>1, <1>2, <2>2
    <3>2. Len(h) \in 1..Len(h) /\ i - 1 = Len(h) /\ i > 1
      BY <1>1, <2>2, <3>1
    <3> QED
      BY <1>1, <3>1, <3>2
  <2> QED
    BY <1>1, <2>1, <2>2
<1> QED
  BY <1>2 DEF Placed, t

\* A user message may stand behind every history.
LEMMA UserMessage ==
  ASSUME NEW N \in Nat, NEW h
  PROVE  /\ Whole(h, N) => Whole(Append(h, User), N)
         /\ Partial(h, N) => Partial(Append(h, User), N)
<1> DEFINE M == Message(1..N)
           t == Append(h, User)
<1> SUFFICES ASSUME h \in Seq(M), Placed(h)
             PROVE  /\ AllAnswered(h) => Whole(t, N)
                    /\ Begun(h) => Partial(t, N)
  BY DEF Whole, Partial
<1>1. User \in M /\ User.role = "user"
  BY MessageFacts
<1>2. /\ t \in Seq(M) /\ Len(h) \in Nat /\ DOMAIN h = 1..Len(h)
      /\ DOMAIN t = 1..Len(h) + 1 /\ t[Len(h) + 1] = User
      /\ \A k \in 1..Len(h) : t[k] = h[k]
      /\ \A k \in 1..Len(h) + 1 : k \in 1..Len(h) \/ k = Len(h) + 1
  BY <1>1, Appended
<1>3. Placed(t)
  BY <1>1, StillPlaced
<1>4. \A i \in DOMAIN t : t[i].role = "assistant" => i \in DOMAIN h /\ t[i] = h[i]
  <2> HIDE DEF t
  <2> QED
    BY <1>1, <1>2
<1>5. \A i \in DOMAIN h : \A A : Answered(h, i, A) => Answered(t, i, A)
  BY <1>1, StillAnswered
<1> HIDE DEF t, M
<1>6. ASSUME AllAnswered(h) PROVE AllAnswered(t)
  BY <1>4, <1>5, <1>6 DEF AllAnswered
<1>7. ASSUME Begun(h) PROVE Begun(t)
  BY <1>4, <1>5, <1>7 DEF Begun
<1> QED
  BY <1>2, <1>3, <1>6, <1>7 DEF Whole, Partial, M

\* A reply begins a turn in which nothing is answered yet.
LEMMA TurnBegins ==
  ASSUME NEW N \in Nat, NEW h, Whole(h, N), NEW cs \in SUBSET (1..N)
  PROVE  InTurn(Append(h, Assistant(cs)), N, cs, {})
<1> DEFINE M == Message(1..N)
           m == Assistant(cs)
           t == Append(h, m)
<1>1. m \in M /\ m.role = "assistant" /\ h \in Seq(M) /\ Placed(h) /\ AllAnswered(h)
  BY MessageFacts DEF Whole
<1> HIDE DEF m
<1>2. /\ t \in Seq(M) /\ Len(h) \in Nat /\ DOMAIN h = 1..Len(h) /\ Len(t) = Len(h) + 1
      /\ DOMAIN t = 1..Len(h) + 1 /\ t[Len(h) + 1] = m
      /\ \A k \in 1..Len(h) : t[k] = h[k]
  BY <1>1, Appended
<1>3. Placed(t)
  BY <1>1, StillPlaced
<1>4. \A i \in DOMAIN h : \A A : Answered(h, i, A) => Answered(t, i, A)
  BY <1>1, StillAnswered
<1> HIDE DEF t, M
<1>5. \A j \in 1..(Len(h) + 1) - 1 : t[j].role = "assistant" => Answered(t, j, t[j].calls)
  <2>1. \A j \in 1..(Len(h) + 1) - 1 : j \in DOMAIN h /\ t[j] = h[j]
    BY <1>2
  <2> QED
    BY <1>1, <1>4, <2>1 DEF AllAnswered
<1>6. Answers(t, (Len(h) + 1) + 1, Len(t), {})
  <2>1. \A k \in (Len(h) + 1) + 1..Len(t) : FALSE
    BY <1>2
  <2> QED
    BY <2>1 DEF Answers
<1>7. Len(h) + 1 \in DOMAIN t
  BY <1>2
<1> QED
  BY <1>2, <1>3, <1>5, <1>6, <1>7 DEF InTurn, M, t, m

\* One of its calls is answered.
LEMMA TurnAnswered ==
  ASSUME NEW N \in Nat, NEW h, NEW cs \in SUBSET (1..N), NEW A \in SUBSET cs,
         InTurn(h, N, cs, A), NEW c \in cs, c \notin A
  PROVE  InTurn(Append(h, ToolAnswer(c)), N, cs, A \cup {c})
<1> DEFINE M == Message(1..N)
           m == ToolAnswer(c)
           t == Append(h, m)
<1>1. m \in M /\ m.role = "tool" /\ m.calls = {c} /\ h \in Seq(M) /\ Placed(h)
  BY MessageFacts DEF InTurn
<1>2. PICK i \in DOMAIN h :
         /\ h[i] = Assistant(cs) /\ Answers(h, i + 1, Len(h), A)
         /\ \A j \in 1..i - 1 : h[j].role = "assistant" => Answered(h, j, h[j].calls)
  BY DEF InTurn
<1>3. h[i].role = "assistant"
  BY <1>2, MessageFacts
<1> HIDE DEF m
<1>4. /\ t \in Seq(M) /\ Len(h) \in Nat /\ DOMAIN h = 1..Len(h) /\ Len(t) = Len(h) + 1
      /\ DOMAIN t = 1..Len(h) + 1 /\ t[Len(h) + 1] = m
      /\ \A k \in 1..Len(h) : t[k] = h[k]
  BY <1>1, Appended
<1>5. i \in 1..Len(h) /\ i \in Nat
  BY <1>4
<1>6. Placed(t)
  <2>1. h[Len(h)].role # "user"
    <3>1. CASE i = Len(h)
      BY <1>3, <3>1
    <3>2. CASE i # Len(h)
      <4>1. Len(h) \in i + 1..Len(h)
        BY <1>4, <1>5, <3>2
      <4> QED
        BY <1>2, <4>1 DEF Answers
    <3> QED
      BY <3>1, <3>2
  <2>2. Len(h) > 0
    BY <1>4, <1>5
  <2> QED
    BY <1>1, <2>1, <2>2, StillPlaced
<1>7. ASSUME NEW j \in 1..i - 1, h[j].role = "assistant" PROVE Answered(t, j, h[j].calls)
  <2>1. i \in j + 1..Len(h) /\ j \in DOMAIN h
    BY <1>4, <1>5
  <2>2. \E k \in j + 1..Len(h) : h[k].role # "tool"
    BY <1>3, <2>1
  <2>3. Answered(h, j, h[j].calls)
    BY <1>2, <1>7
  <2> QED
    BY <1>1, <2>1, <2>2, <2>3, StillAnswered
<1> HIDE DEF t, M
<1>8. \A j \in 1..i - 1 : t[j].role = "assistant" => Answered(t, j, t[j].calls)
  <2>1. \A j \in 1..i - 1 : t[j] = h[j]
    BY <1>4, <1>5
  <2> QED
    BY <1>7, <2>1
<1>9. Answers(t, i + 1, Len(h), A)
  <2>1. Moved(h, t, i + 1, Len(h), 0)
    <3>1. ASSUME NEW k \in i + 1..Len(h) PROVE t[k + 0] = h[k]
      <4>1. k \in 1..Len(h) /\ k + 0 = k
        BY <1>4, <1>5
      <4> QED
        BY <1>4, <4>1
    <3> QED
      BY <3>1 DEF Moved
  <2>2. /\ i + 1 \in Int /\ Len(h) \in Int /\ i + 1 = i + 1 + 0 /\ Len(h) = Len(h) + 0
        /\ 0 \in Int
    BY <1>4, <1>5
  <2> QED
    BY <1>2, <2>1, <2>2, AnswersMoved
<1>10. Answers(t, Len(h) + 1, Len(t), {c})
  <2>1. \A k \in Len(h) + 1..Len(t) : k = Len(h) + 1
    BY <1>4
  <2>2. Len(h) + 1 \in Len(h) + 1..Len(t)
    BY <1>4
  <2> QED
    BY <1>1, <1>4, <2>1, <2>2 DEF Answers
<1>11. Answers(t, i + 1, Len(t), A \cup {c})
  <2>1. /\ i + 1 \in Int /\ Len(h) \in Int /\ Len(t) \in Int /\ i + 1 <= Len(h) + 1
        /\ Len(h) <= Len(t) /\ A \cap {c} = {}
    BY <1>4, <1>5
  <2> QED
    BY <1>9, <1>10, <2>1, AnswersJoined
<1>12. i \in DOMAIN t /\ t[i] = Assistant(cs)
  BY <1>2, <1>4, <1>5
<1> QED
  BY <1>4, <1>6, <1>8, <1>11, <1>12 DEF InTurn, M, t, m

\* A turn is whole when all its calls are answered, and can be repaired before.
LEMMA TurnEnds ==
  ASSUME NEW N \in Nat, NEW h, NEW cs \in SUBSET (1..N), NEW A \in SUBSET cs,
         InTurn(h, N, cs, A)
  PROVE  /\ Partial(h, N)
         /\ A = cs => Whole(h, N)
<1>1. h \in Seq(Message(1..N)) /\ Placed(h) /\ Len(h) \in Nat /\ DOMAIN h = 1..Len(h)
  BY DEF InTurn
<1>2. PICK i \in DOMAIN h :
         /\ h[i] = Assistant(cs) /\ Answers(h, i + 1, Len(h), A)
         /\ \A j \in 1..i - 1 : h[j].role = "assistant" => Answered(h, j, h[j].calls)
  BY DEF InTurn
<1>3. h[i].calls = cs
  BY <1>2, MessageFacts
<1>4. Answered(h, i, A)
  <2>1. Len(h) \in i..Len(h) /\ ~(Len(h) < Len(h))
    BY <1>1
  <2> QED
    BY <1>2, <2>1 DEF Answered, Stops
<1>5. ASSUME NEW j \in DOMAIN h, h[j].role = "assistant"
      PROVE  j = i \/ Answered(h, j, h[j].calls)
  <2>1. CASE j \in 1..i - 1
    BY <1>2, <1>5, <2>1
  <2>2. CASE j \in i + 1..Len(h)
    BY <1>2, <1>5, <2>2 DEF Answers
  <2>3. j = i \/ j \in 1..i - 1 \/ j \in i + 1..Len(h)
    BY <1>1
  <2> QED
    BY <2>1, <2>2, <2>3
<1>6. Begun(h)
  BY <1>3, <1>4, <1>5 DEF Begun
<1>7. ASSUME A = cs PROVE AllAnswered(h)
  BY <1>3, <1>4, <1>5, <1>7 DEF AllAnswered
<1> QED
  BY <1>1, <1>6, <1>7 DEF Partial, Whole

-----------------------------------------------------------------------------
(* Tasks and prompts *)

\* Every live task belongs to the turn being drained, or was left behind by an
\* interrupt; ids above "issued" are unused; a batch not started has no task.
LiveTasks ==
  \A c \in Call : Active(c) =>
     \/ c \in stray \cup cancelling
     \/ c \in batch /\ phase \in {"draining", "yielding", "joining"}

FreshIds ==
  /\ \A c \in Call : c > issued => task[c] = "none"
  /\ \A c \in batch : c <= issued
  /\ phase = "announce" => \A c \in batch : ~Active(c)

IInv == TypeOK /\ PromptHoldsLock /\ NoRedundantPrompt /\ LiveTasks /\ FreshIds

USE DEF Call, NoCall

\* The initial states satisfy the inductive invariant.
LEMMA InitInv == Init => IInv
<1> SUFFICES ASSUME Init PROVE IInv
  OBVIOUS
<1>1. \A c \in Call : task[c] = "none"
  BY DEF Init
<1>2. TypeOK
  <2>1. phase \in Phases /\ task \in [Call -> TaskStates]
    BY DEF Init, Phases, TaskStates
  <2>2. /\ userMsgs \in 0..MaxUserMsgs /\ issued \in 0..MaxCalls
        /\ lock \in Call \cup {NoCall}
    BY BoundsAssumption DEF Init
  <2>3. /\ batch \in SUBSET Call /\ queue \in SUBSET Event
        /\ cancelling \in SUBSET Call /\ stray \in SUBSET Call
        /\ granted \in SUBSET Permissions
    BY DEF Init
  <2>4. userCancelled \in BOOLEAN /\ disturbed \in BOOLEAN
        /\ bypass \in BOOLEAN /\ interactive \in BOOLEAN
    BY DEF Init
  <2> QED
    BY <2>1, <2>2, <2>3, <2>4 DEF TypeOK
<1>3. PromptHoldsLock /\ NoRedundantPrompt /\ LiveTasks
  BY <1>1, BoundsAssumption
  DEF Init, PromptHoldsLock, NoRedundantPrompt, LiveTasks, Active
<1>4. FreshIds
  BY <1>1 DEF Init, FreshIds
<1> QED
  BY <1>2, <1>3, <1>4 DEF IInv

\* The end of the task of one call keeps the shape of the queue and of the tasks.
LEMMA FinishEffect ==
  ASSUME IInv, NEW c \in Call, NEW b \in BOOLEAN, Finish(c, b)
  PROVE  /\ queue' \in SUBSET Event
         /\ task' = [task EXCEPT ![c] = "done"]
         /\ task' \in [Call -> TaskStates]
         /\ cancelling' = cancelling \ {c}
         /\ task'[c] = "done"
         /\ \A d \in Call : d # c => task'[d] = task[d]
<1>1. [call |-> c, cancelled |-> b] \in Event
  BY DEF Event
<1>2. "done" \in TaskStates
  BY DEF TaskStates
<1> QED
  BY <1>1, <1>2 DEF Finish, IInv, TypeOK

\* Steps that change no task, lock or grant.
LEMMA QuietStep ==
  ASSUME IInv, TypeOK', UNCHANGED <<task, lock, granted, issued, batch>>,
         stray \subseteq stray' \cup cancelling', cancelling \subseteq cancelling',
         \/ phase' = phase
         \/ /\ phase' # "announce"
            /\ phase \in {"draining", "yielding"}
            /\ phase' \in {"draining", "yielding", "joining"}
         \/ /\ phase' # "announce"
            /\ \A c \in batch : Active(c) => c \in stray' \cup cancelling'
  PROVE  IInv'
  BY DEF IInv, TypeOK, PromptHoldsLock, NoRedundantPrompt, LiveTasks, FreshIds,
         Active, Uncovered

\* Steps of the task of one call, as far as the loop is concerned.
LEMMA OneTaskStep ==
  ASSUME IInv, NEW c \in Call, NEW t \in TaskStates, Active(c), t # "none",
         task' = [task EXCEPT ![c] = t], UNCHANGED <<phase, issued, batch, stray>>,
         \/ cancelling' = cancelling
         \/ cancelling' = cancelling \ {c} /\ t = "done"
  PROVE  LiveTasks' /\ FreshIds'
<1> USE DEF IInv, TypeOK
<1>1. LiveTasks'
  BY DEF LiveTasks, Active
<1>2. FreshIds'
  BY DEF FreshIds, Active
<1> QED
  BY <1>1, <1>2

\* When the task of a call ends and gives up the lock it may hold, the prompts
\* and the lock still agree.
LEMMA PromptEnds ==
  ASSUME IInv, NEW c \in Call, NEW t \in {"running", "done"},
         task' = [task EXCEPT ![c] = t], Release(c),
         task[c] \in {"asking", "refused"} \/ granted' = granted
  PROVE  PromptHoldsLock' /\ NoRedundantPrompt'
  BY BoundsAssumption
  DEF IInv, TypeOK, PromptHoldsLock, NoRedundantPrompt, Release, Uncovered

\* The conversation loop's own steps.
LEMMA LoopStep == IInv /\ Loop => IInv'
<1> SUFFICES ASSUME IInv, Loop PROVE IInv'
  OBVIOUS
<1> USE DEF IInv, TypeOK
<1>1. CASE Act
  <2>1. TypeOK'
    <3>1. userMsgs' \in 0..MaxUserMsgs
      BY <1>1, BoundsAssumption DEF Act
    <3>2. phase' \in Phases /\ userCancelled' \in BOOLEAN
      BY <1>1 DEF Act, Phases
    <3>3. UNCHANGED <<issued, batch, queue, task, cancelling, stray, disturbed, storeVars>>
      BY <1>1 DEF Act
    <3> QED
      BY <3>1, <3>2, <3>3 DEF storeVars
  <2>2. UNCHANGED <<task, lock, granted, issued, batch, stray, cancelling>>
    BY <1>1 DEF Act, storeVars
  <2>3. phase' = "request" /\ \A c \in batch : Active(c) => c \in stray \cup cancelling
    BY <1>1 DEF Act, LiveTasks
  <2> QED
    BY <2>1, <2>2, <2>3, QuietStep
<1>2. ASSUME NEW n \in 0..MaxCalls, Reply(n) PROVE IInv'
  <2>1. TypeOK'
    BY <1>2, BoundsAssumption DEF Reply, storeVars, Phases
  <2>2. \A c \in Call : Active(c) => c \in stray \cup cancelling
    BY <1>2 DEF Reply, LiveTasks
  <2>3. \A c \in batch' : c > issued /\ c <= issued' /\ c \in Call
    BY <1>2, BoundsAssumption DEF Reply
  <2>4. LiveTasks' /\ FreshIds'
    BY <1>2, <2>2, <2>3, BoundsAssumption
    DEF Reply, LiveTasks, FreshIds, Active
  <2>5. PromptHoldsLock' /\ NoRedundantPrompt'
    BY <1>2 DEF Reply, storeVars, PromptHoldsLock, NoRedundantPrompt, Uncovered
  <2> QED
    BY <2>1, <2>4, <2>5
<1>3. ASSUME NEW c \in Call, AnswerMalformed(c) PROVE IInv'
  <2>1. "done" \in TaskStates
    BY DEF TaskStates
  <2>2. TypeOK'
    BY <1>3, <2>1 DEF AnswerMalformed, loopVars, storeVars
  <2>3. LiveTasks' /\ FreshIds'
    BY <1>3 DEF AnswerMalformed, loopVars, LiveTasks, FreshIds, Active
  <2>4. PromptHoldsLock' /\ NoRedundantPrompt'
    BY <1>3 DEF AnswerMalformed, storeVars, PromptHoldsLock, NoRedundantPrompt, Uncovered
  <2> QED
    BY <2>2, <2>3, <2>4
<1>4. CASE StartTools
  <2>1. \A c \in batch : ~Active(c)
    BY <1>4 DEF StartTools, FreshIds
  <2>2. "created" \in TaskStates
    BY DEF TaskStates
  <2>3. TypeOK'
    BY <1>4, <2>2 DEF StartTools, storeVars, Phases
  <2>4. LiveTasks' /\ FreshIds'
    BY <1>4, <2>1 DEF StartTools, LiveTasks, FreshIds, Active
  <2>5. PromptHoldsLock' /\ NoRedundantPrompt'
    BY <1>4, <2>1
    DEF StartTools, storeVars, PromptHoldsLock, NoRedundantPrompt, Uncovered, Active
  <2> QED
    BY <2>3, <2>4, <2>5
<1>5. CASE \E e \in queue : Take(e)
  <2> PICK e \in queue : Take(e)
    BY <1>5
  <2>1. e.cancelled \in BOOLEAN
    BY DEF Event
  <2>2. TypeOK'
    BY <2>1 DEF Take, storeVars, Phases
  <2> QED
    BY <2>2, QuietStep DEF Take, storeVars
<1>6. CASE Resume
  <2>1. TypeOK'
    BY <1>6 DEF Resume, storeVars, Phases
  <2> QED
    BY <1>6, <2>1, QuietStep DEF Resume, storeVars
<1>7. CASE TakeSentinel
  <2>1. TypeOK'
    BY <1>7 DEF TakeSentinel, storeVars, Phases
  <2> QED
    BY <1>7, <2>1, QuietStep DEF TakeSentinel, storeVars, Unfinished
<1>8. CASE AfterTurn
  <2>1. phase' \in {"idle", "request"}
    BY <1>8 DEF AfterTurn
  <2>2. TypeOK'
    BY <1>8, <2>1, BoundsAssumption DEF AfterTurn, storeVars, Phases
  <2> QED
    BY <1>8, <2>1, <2>2, QuietStep DEF AfterTurn, storeVars, LiveTasks
<1>9. CASE Joined
  <2>1. TypeOK'
    BY <1>9 DEF Joined, storeVars, Phases
  <2> QED
    BY <1>9, <2>1, QuietStep DEF Joined, storeVars, Unfinished
<1> QED
  BY <1>1, <1>2, <1>3, <1>4, <1>5, <1>6, <1>7, <1>8, <1>9 DEF Loop

\* Interrupts, profile switches and the closing of dropped generators.  An
\* interrupt may also answer the open prompt "no".
LEMMA RefuseEffect ==
  ASSUME IInv, RefusePending(task)
  PROVE  /\ task' \in [Call -> TaskStates]
         /\ \A c \in Call : Active(c)' <=> Active(c)
         /\ \A c \in Call : task[c] = "none" => task'[c] = "none"
         /\ \A c \in Call : task'[c] \in {"asking", "refused"}
                             <=> task[c] \in {"asking", "refused"}
         /\ \A c \in Call : task'[c] = "asking" => task[c] = "asking"
         /\ \A c \in Call : task'[c] = "done" <=> task[c] = "done"
<1> PICK refuse \in BOOLEAN :
      task' = [c \in Call |-> IF refuse /\ task[c] = "asking" THEN "refused" ELSE task[c]]
  BY DEF RefusePending
<1>1. \A c \in Call : task'[c] = IF refuse /\ task[c] = "asking" THEN "refused" ELSE task[c]
  OBVIOUS
<1>2. "refused" \in TaskStates
  BY DEF TaskStates
<1> QED
  BY <1>1, <1>2 DEF IInv, TypeOK, Active

\* An interrupt, at the queue or while a result is handled, keeps the invariant.
LEMMA InterruptStep == IInv /\ (InterruptDraining \/ InterruptYielding) => IInv'
<1> SUFFICES ASSUME IInv, InterruptDraining \/ InterruptYielding PROVE IInv'
  OBVIOUS
<1> USE DEF IInv, TypeOK
<1>1. RefusePending(task)
  BY DEF InterruptDraining, InterruptYielding
<1>2. UNCHANGED <<issued, batch, storeVars>> /\ phase' \in {"joining", "idle"}
  BY DEF InterruptDraining, InterruptYielding, storeVars
<1>3. TypeOK'
  BY <1>1, RefuseEffect
  DEF InterruptDraining, InterruptYielding, storeVars, Phases, Unfinished
<1>4. LiveTasks'
  <2>1. CASE InterruptDraining
    BY <2>1, <1>1, RefuseEffect DEF InterruptDraining, LiveTasks
  <2>2. CASE InterruptYielding
    BY <2>2, <1>1, RefuseEffect DEF InterruptYielding, LiveTasks, Unfinished
  <2> QED
    BY <2>1, <2>2
<1>5. FreshIds'
  BY <1>1, <1>2, RefuseEffect DEF FreshIds
<1>6. PromptHoldsLock' /\ NoRedundantPrompt'
  BY <1>1, <1>2, RefuseEffect DEF storeVars, PromptHoldsLock, NoRedundantPrompt, Uncovered
<1> QED
  BY <1>3, <1>4, <1>5, <1>6

\* Steps of the front that touch no task keep the invariant.
LEMMA QuietFrontStep ==
  IInv /\ (Leave \/ InjectContext \/ SwitchProfile \/ CloseStray) => IInv'
<1> SUFFICES ASSUME IInv, Leave \/ InjectContext \/ SwitchProfile \/ CloseStray
             PROVE  IInv'
  OBVIOUS
<1> USE DEF IInv, TypeOK
<1>1. CASE Leave
  <2>1. TypeOK'
    BY <1>1 DEF Leave, storeVars, Phases
  <2> QED
    BY <1>1, <2>1, QuietStep DEF Leave, storeVars, LiveTasks
<1>2. CASE SwitchProfile
  <2>1. TypeOK'
    BY <1>2 DEF SwitchProfile, loopVars
  <2> QED
    BY <1>2, <2>1, QuietStep DEF SwitchProfile, loopVars
<1>3. CASE CloseStray
  <2>1. TypeOK'
    BY <1>3 DEF CloseStray, loopVars, storeVars
  <2>2. LiveTasks'
    BY <1>3 DEF CloseStray, loopVars, LiveTasks, Active
  <2>3. FreshIds' /\ PromptHoldsLock' /\ NoRedundantPrompt'
    BY <1>3 DEF CloseStray, loopVars, storeVars, FreshIds, Active, PromptHoldsLock,
                NoRedundantPrompt, Uncovered
  <2> QED
    BY <2>1, <2>2, <2>3
<1>4. CASE InjectContext
  <2>1. TypeOK'
    BY <1>4, BoundsAssumption DEF InjectContext, storeVars
  <2> QED
    BY <1>4, <2>1, QuietStep DEF InjectContext, storeVars
<1> QED
  BY <1>1, <1>2, <1>3, <1>4

\* The user's answer to a prompt.
LEMMA AnswerStep ==
  ASSUME IInv, NEW c \in Call, NEW b \in BOOLEAN, Approve(c, b) \/ Reject(c, b)
  PROVE  IInv'
<1> USE DEF IInv, TypeOK
<1>1. Active(c)
  BY DEF Approve, Reject, Active
<1>2. CASE Approve(c, b)
  <2>1. "running" \in TaskStates
    BY DEF TaskStates
  <2>2. granted' \in SUBSET Permissions
    BY <1>2, PolicyAssumption DEF Approve, Uncovered
  <2>3. TypeOK'
    BY <1>2, <2>1, <2>2 DEF Approve, Release, loopVars
  <2>4. LiveTasks' /\ FreshIds'
    BY <1>1, <1>2, <2>1, OneTaskStep DEF Approve, loopVars
  <2>5. PromptHoldsLock' /\ NoRedundantPrompt'
    BY <1>2, PromptEnds DEF Approve
  <2> QED
    BY <2>3, <2>4, <2>5
<1>3. CASE Reject(c, b)
  <2>1. Finish(c, b)
    BY <1>3 DEF Reject
  <2>2. /\ queue' \in SUBSET Event /\ task' \in [Call -> TaskStates]
        /\ task' = [task EXCEPT ![c] = "done"] /\ cancelling' = cancelling \ {c}
    BY <2>1, FinishEffect
  <2>3. TypeOK'
    BY <1>3, <2>2 DEF Reject, Release, loopVars
  <2>4. "done" \in TaskStates
    BY DEF TaskStates
  <2>5. LiveTasks' /\ FreshIds'
    BY <1>1, <1>3, <2>2, <2>4, OneTaskStep DEF Reject, loopVars
  <2>6. PromptHoldsLock' /\ NoRedundantPrompt'
    BY <1>3, <2>2, PromptEnds DEF Reject
  <2> QED
    BY <2>3, <2>5, <2>6
<1> QED
  BY <1>2, <1>3

\* Every step that ends a started task: it finishes and releases the lock.
LEMMA EndStep ==
  ASSUME IInv, NEW c \in Call, NEW b \in BOOLEAN, Active(c), Finish(c, b), Release(c),
         UNCHANGED <<loopVars, stray, disturbed, granted, bypass, interactive>>
  PROVE  IInv'
<1> USE DEF IInv, TypeOK
<1>1. /\ queue' \in SUBSET Event /\ task' \in [Call -> TaskStates]
      /\ task' = [task EXCEPT ![c] = "done"] /\ cancelling' = cancelling \ {c}
  BY FinishEffect
<1>2. TypeOK'
  BY <1>1 DEF Release, loopVars
<1>3. "done" \in TaskStates
  BY DEF TaskStates
<1>4. LiveTasks' /\ FreshIds'
  BY <1>1, <1>3, OneTaskStep DEF loopVars
<1>5. PromptHoldsLock' /\ NoRedundantPrompt'
  BY <1>1, PromptEnds
<1> QED
  BY <1>2, <1>4, <1>5

\* Every step of the task of one call.
LEMMA TaskStep ==
  ASSUME IInv, NEW c \in Call, Task(c) \/ Tool(c)
  PROVE  IInv'
<1> USE DEF IInv, TypeOK
<1>1. CASE Begin(c)
  <2>1. Active(c) /\ lock # c /\ task[c] = "created"
    BY <1>1 DEF Begin, Active, PromptHoldsLock
  <2>2. CASE Finish(c, FALSE)
    <3>1. Release(c)
      BY <1>1, <2>1 DEF Begin, Release, storeVars
    <3> QED
      BY <1>1, <2>1, <2>2, <3>1, EndStep DEF Begin, storeVars
  <2>3. CASE /\ task' = [task EXCEPT ![c] = IF bypass THEN "running" ELSE "deciding"]
             /\ UNCHANGED <<messages, queue, cancelling>>
    <3>1. PICK t \in {"running", "deciding"} : task' = [task EXCEPT ![c] = t]
      BY <2>3
    <3>2. t \in TaskStates /\ t # "none" /\ t # "asking" /\ t # "refused"
      BY DEF TaskStates
    <3>3. TypeOK'
      BY <1>1, <2>3, <3>1, <3>2 DEF Begin, loopVars, storeVars
    <3>4. LiveTasks' /\ FreshIds'
      BY <1>1, <2>1, <2>3, <3>1, <3>2, OneTaskStep DEF Begin, loopVars
    <3>5. PromptHoldsLock' /\ NoRedundantPrompt'
      BY <1>1, <2>1, <3>1, <3>2
      DEF Begin, storeVars, PromptHoldsLock, NoRedundantPrompt, Uncovered
    <3> QED
      BY <3>3, <3>4, <3>5
  <2> QED
    BY <1>1, <2>2, <2>3 DEF Begin
<1>2. CASE DropUnstarted(c)
  <2>1. Active(c) /\ "done" \in TaskStates
    BY <1>2 DEF DropUnstarted, Active, TaskStates
  <2>2. TypeOK'
    BY <1>2, <2>1 DEF DropUnstarted, loopVars, storeVars
  <2>3. LiveTasks' /\ FreshIds'
    BY <1>2, <2>1, OneTaskStep DEF DropUnstarted, loopVars
  <2>4. PromptHoldsLock' /\ NoRedundantPrompt'
    BY <1>2 DEF DropUnstarted, storeVars, PromptHoldsLock, NoRedundantPrompt, Uncovered
  <2> QED
    BY <2>2, <2>3, <2>4
<1>3. CASE Decide(c)
  <2>1. Active(c) /\ lock = NoCall /\ task[c] = "deciding"
    BY <1>3 DEF Decide, Active
  <2>2. CASE MayRun(c)
    <3>1. task' = [task EXCEPT ![c] = "running"] /\ "running" \in TaskStates
      BY <1>3, <2>2 DEF Decide, TaskStates
    <3>2. TypeOK'
      BY <1>3, <2>2, <3>1 DEF Decide, loopVars
    <3>3. LiveTasks' /\ FreshIds'
      BY <1>3, <2>1, <2>2, <3>1, OneTaskStep DEF Decide, loopVars
    <3>4. PromptHoldsLock' /\ NoRedundantPrompt'
      BY <1>3, <2>1, <2>2, <3>1
      DEF Decide, PromptHoldsLock, NoRedundantPrompt, Uncovered
    <3> QED
      BY <3>2, <3>3, <3>4
  <2>3. CASE ~MayRun(c) /\ Policy[c] = "ask" /\ interactive
    <3>1. /\ task' = [task EXCEPT ![c] = "asking"] /\ "asking" \in TaskStates
          /\ lock' = c /\ Uncovered(c) # {}
      BY <1>3, <2>3 DEF Decide, TaskStates, MayRun
    <3>2. TypeOK'
      BY <1>3, <2>3, <3>1 DEF Decide, loopVars
    <3>3. LiveTasks' /\ FreshIds'
      BY <1>3, <2>1, <2>3, <3>1, OneTaskStep DEF Decide, loopVars
    <3>4. \A d \in Call : task[d] \notin {"asking", "refused"}
      BY <2>1, BoundsAssumption DEF PromptHoldsLock
    <3>5. PromptHoldsLock' /\ NoRedundantPrompt'
      BY <1>3, <3>1, <3>4
      DEF Decide, PromptHoldsLock, NoRedundantPrompt, Uncovered
    <3> QED
      BY <3>2, <3>3, <3>5
  <2>4. CASE ~MayRun(c) /\ ~(Policy[c] = "ask" /\ interactive)
    <3>1. Finish(c, FALSE) /\ Release(c)
      BY <1>3, <2>1, <2>4, BoundsAssumption DEF Decide, Release
    <3> QED
      BY <1>3, <2>1, <3>1, EndStep DEF Decide
  <2> QED
    BY <2>2, <2>3, <2>4
<1>4. CASE Refused(c)
  <2>1. Active(c)
    BY <1>4 DEF Refused, Active
  <2> QED
    BY <1>4, <2>1, EndStep DEF Refused
<1>5. CASE Interrupted(c)
  <2>1. Active(c)
    BY <1>5 DEF Interrupted, Active
  <2> QED
    BY <1>5, <2>1, EndStep DEF Interrupted
<1>6. CASE Tool(c)
  <2>1. PICK b \in BOOLEAN : Complete(c, b)
    BY <1>6 DEF Tool
  <2>2. Active(c) /\ lock # c
    BY <2>1 DEF Complete, Active, PromptHoldsLock
  <2>3. Release(c)
    BY <2>1, <2>2 DEF Complete, Release, storeVars
  <2> QED
    BY <2>1, <2>2, <2>3, EndStep DEF Complete, storeVars
<1> QED
  BY <1>1, <1>2, <1>3, <1>4, <1>5, <1>6 DEF Task

\* The invariant is inductive.
LEMMA StepInv == IInv /\ [Next]_vars => IInv'
<1> SUFFICES ASSUME IInv, [Next]_vars PROVE IInv'
  OBVIOUS
<1>1. CASE Loop
  BY <1>1, LoopStep
<1>2. CASE FrontEnd
  BY <1>2, QuietFrontStep, InterruptStep, AnswerStep DEF FrontEnd
<1>3. CASE CloseStray
  BY <1>3, QuietFrontStep
<1>4. CASE \E c \in Call : Task(c) \/ Tool(c)
  BY <1>4, TaskStep
<1>5. CASE UNCHANGED vars
  BY <1>5
  DEF vars, loopVars, storeVars, IInv, TypeOK, PromptHoldsLock, NoRedundantPrompt,
      LiveTasks, FreshIds, Active, Uncovered
<1> QED
  BY <1>1, <1>2, <1>3, <1>4, <1>5 DEF Next

\* The inductive invariant holds of every behaviour.
THEOREM Invariance == Spec => []IInv
<1> QED
  BY InitInv, StepInv, PTL DEF Spec

\* Type correctness of the loop, its tasks and the permission store.
THEOREM TypeCorrect == Spec => []TypeOK
<1>1. IInv => TypeOK
  BY DEF IInv
<1> QED
  BY <1>1, Invariance, PTL

\* Of any number of concurrent calls at most one has an approval prompt open,
\* and no interrupt leaves the permission lock behind.
THEOREM OnePromptUnderLock == Spec => []PromptHoldsLock
<1>1. IInv => PromptHoldsLock
  BY DEF IInv
<1> QED
  BY <1>1, Invariance, PTL

\* Whatever is granted while other calls wait, nobody is asked again for it.
THEOREM PromptsAreNeeded == Spec => []NoRedundantPrompt
<1>1. IInv => NoRedundantPrompt
  BY DEF IInv
<1> QED
  BY <1>1, Invariance, PTL

\* The model is not asked again while a tool of the turn still runs.
THEOREM ToolBarrier == Spec => []RequestAfterTools
<1>1. IInv => RequestAfterTools
  BY DEF IInv, LiveTasks, RequestAfterTools
<1> QED
  BY <1>1, Invariance, PTL

-----------------------------------------------------------------------------
(* Cancellation: user_cancelled is reset by act() and set while the results   *)
(* of a turn are drained, so it never holds while the model is being asked.   *)

AskingUncancelled == phase \in {"request", "announce"} => ~userCancelled

\* No step asks the model in an act that was cancelled.
LEMMA AskingStep == AskingUncancelled /\ [Next]_vars => AskingUncancelled'
<1> SUFFICES ASSUME AskingUncancelled, [Next]_vars PROVE AskingUncancelled'
  OBVIOUS
<1> USE DEF AskingUncancelled
<1>1. CASE Act
  BY <1>1 DEF Act
<1>2. CASE \E n \in 0..MaxCalls : Reply(n)
  BY <1>2 DEF Reply
<1>3. CASE \E c \in Call : AnswerMalformed(c)
  BY <1>3 DEF AnswerMalformed, loopVars
<1>4. CASE StartTools
  BY <1>4 DEF StartTools
<1>5. CASE \E e \in queue : Take(e)
  BY <1>5 DEF Take
<1>6. CASE Resume \/ TakeSentinel \/ Joined
  BY <1>6 DEF Resume, TakeSentinel, Joined
<1>7. CASE AfterTurn
  BY <1>7 DEF AfterTurn
<1>8. CASE Leave \/ InterruptDraining \/ InterruptYielding
  BY <1>8 DEF Leave, InterruptDraining, InterruptYielding
<1>9. CASE InjectContext \/ SwitchProfile \/ CloseStray \/ UNCHANGED vars
  BY <1>9 DEF InjectContext, SwitchProfile, CloseStray, vars, loopVars
<1>10. CASE \E c \in Call, b \in BOOLEAN : Approve(c, b) \/ Reject(c, b)
  BY <1>10 DEF Approve, Reject, loopVars
<1>11. CASE \E c \in Call : Task(c) \/ Tool(c)
  BY <1>11 DEF Task, Tool, Begin, DropUnstarted, Decide, Refused, Interrupted,
               Complete, loopVars
<1> QED
  BY <1>1, <1>2, <1>3, <1>4, <1>5, <1>6, <1>7, <1>8, <1>9, <1>10, <1>11
  DEF Next, Loop, FrontEnd

\* While the flag is set no step leads to a request but a new act()'s.
LEMMA CancelledStep ==
  AskingUncancelled /\ AskingUncancelled' /\ [Next]_vars
    => [(userCancelled /\ phase # "idle") => phase' # "request"]_vars
<1> SUFFICES ASSUME AskingUncancelled, AskingUncancelled', Next,
                    userCancelled, phase # "idle"
             PROVE  phase' # "request"
  OBVIOUS
<1>1. userCancelled' = TRUE \/ userCancelled' = userCancelled
  <2>1. CASE Loop
    <3>1. ~Act
      BY DEF Act
    <3>2. CASE \E e \in queue : Take(e)
      BY <3>2 DEF Take
    <3>3. CASE ~(\E e \in queue : Take(e))
      BY <2>1, <3>1, <3>3 DEF Loop, Reply, AnswerMalformed, StartTools, Resume,
                         TakeSentinel, AfterTurn, Joined, loopVars
    <3> QED
      BY <3>2, <3>3
  <2>2. CASE FrontEnd
    BY <2>2 DEF FrontEnd, Leave, InterruptDraining, InterruptYielding,
                InjectContext, SwitchProfile, Approve, Reject, loopVars
  <2>3. CASE CloseStray
    BY <2>3 DEF CloseStray, loopVars
  <2>4. CASE \E c \in Call : Task(c) \/ Tool(c)
    BY <2>4 DEF Task, Tool, Begin, DropUnstarted, Decide, Refused, Interrupted,
                Complete, loopVars
  <2> QED
    BY <2>1, <2>2, <2>3, <2>4 DEF Next
<1> QED
  BY <1>1 DEF AskingUncancelled

\* After a cancelled result no step of the act() asks the model again.
THEOREM CancellationIsFinal == Spec => CancelledActAsksNoMore
<1>1. Init => AskingUncancelled
  BY DEF Init, AskingUncancelled
<1> QED
  BY <1>1, AskingStep, CancelledStep, PTL DEF Spec, CancelledActAsksNoMore

-----------------------------------------------------------------------------
(* The history: while no interrupt left a tool behind its turn, each phase    *)
(* says how much of the last turn is answered.                                *)

\* Every live task is one of the running turn; before the turn's end none is being
\* cancelled, and when it begins only calls that do not resolve are done.
OwnTasks ==
  /\ stray = {} /\ cancelling \subseteq {c \in Call : Active(c)}
  /\ phase # "joining" => cancelling = {}
  /\ \A c \in Call : Active(c) =>
        c \in batch /\ phase \in {"draining", "yielding", "joining"}
  /\ phase \in {"draining", "yielding"} => \A c \in batch : task[c] # "none"
  /\ phase = "announce" => \A c \in batch \ Malformed : task[c] = "none"

\* The answers of the turn come from done tasks; without an interrupt from all of them.
TurnAnswers ==
  \E A \in SUBSET batch :
     /\ InTurn(messages, MaxCalls, batch, A)
     /\ \A c \in A : task[c] = "done"
     /\ phase # "joining" => \A c \in batch : task[c] = "done" => c \in A

HistoryByPhase ==
  /\ phase = "idle" => Partial(messages, MaxCalls)
  /\ phase \in {"request", "after"} => Whole(messages, MaxCalls)
  /\ phase \in {"announce", "draining", "yielding", "joining"} => TurnAnswers

HInv == ~disturbed => OwnTasks /\ HistoryByPhase

\* A turn that can be left as it is.
LEMMA TurnIsPartial ==
  ASSUME IInv, OwnTasks, HistoryByPhase
  PROVE  Partial(messages, MaxCalls)
<1> USE DEF IInv, TypeOK
<1>1. CASE phase = "idle"
  BY <1>1 DEF HistoryByPhase
<1>2. CASE phase \in {"request", "after"}
  BY <1>2, WholeIsPartial, BoundsAssumption DEF HistoryByPhase
<1>3. CASE phase \in {"announce", "draining", "yielding", "joining"}
  <2>1. PICK A \in SUBSET batch : InTurn(messages, MaxCalls, batch, A)
    BY <1>3 DEF HistoryByPhase, TurnAnswers
  <2> QED
    BY <2>1, TurnEnds, BoundsAssumption
<1> QED
  BY <1>1, <1>2, <1>3 DEF Phases

\* When all tasks of the turn are done, its history is whole.
LEMMA TurnIsWhole ==
  ASSUME IInv, OwnTasks, HistoryByPhase, phase \in {"announce", "draining"},
         \A c \in batch : task[c] = "done"
  PROVE  Whole(messages, MaxCalls)
<1> USE DEF IInv, TypeOK
<1>1. PICK A \in SUBSET batch :
         InTurn(messages, MaxCalls, batch, A) /\ \A c \in batch : c \in A
  BY DEF HistoryByPhase, TurnAnswers
<1>2. A = batch
  BY <1>1
<1> QED
  BY <1>1, <1>2, TurnEnds, BoundsAssumption

\* The steps of the conversation loop.
LEMMA LoopHistory ==
  ASSUME IInv, OwnTasks, HistoryByPhase, Loop
  PROVE  OwnTasks' /\ HistoryByPhase'
<1> USE DEF IInv, TypeOK
<1>0. MaxCalls \in Nat
  BY BoundsAssumption
<1>1. CASE Act
  <2>1. Partial(messages, MaxCalls)
    BY <1>1 DEF Act, HistoryByPhase
  <2>2. Whole(messages', MaxCalls)
    <3>1. Whole(FillMissing(messages), MaxCalls)
      BY <1>0, <2>1, RepairMakesWhole
    <3> QED
      BY <1>0, <1>1, <3>1, UserMessage DEF Act
  <2>3. OwnTasks'
    BY <1>1 DEF Act, OwnTasks, Active
  <2> QED
    BY <1>1, <2>2, <2>3 DEF Act, HistoryByPhase
<1>2. ASSUME NEW n \in 0..MaxCalls, Reply(n) PROVE OwnTasks' /\ HistoryByPhase'
  <2> DEFINE cs == issued + 1..issued + n
  <2>1. /\ messages' = Append(messages, Assistant(cs)) /\ batch' = cs
        /\ phase' = IF n = 0 THEN "after" ELSE "announce"
        /\ UNCHANGED <<task, cancelling, stray>> /\ phase = "request"
    BY <1>2 DEF Reply
  <2>2. cs \in SUBSET (1..MaxCalls) /\ \A c \in cs : task[c] = "none"
    BY <1>0, <1>2 DEF Reply, FreshIds
  <2>3. n = 0 => cs = {}
    BY <1>0
  <2> HIDE DEF cs
  <2>4. InTurn(messages', MaxCalls, cs, {})
    BY <1>0, <2>1, <2>2, TurnBegins DEF HistoryByPhase
  <2>5. OwnTasks'
    BY <2>1, <2>2 DEF OwnTasks, Active
  <2>6. n = 0 => Whole(messages', MaxCalls)
    BY <1>0, <2>2, <2>3, <2>4, TurnEnds
  <2>7. TurnAnswers'
    BY <2>1, <2>2, <2>4 DEF TurnAnswers
  <2> QED
    BY <2>1, <2>5, <2>6, <2>7 DEF HistoryByPhase
<1>3. ASSUME NEW c \in Call, AnswerMalformed(c) PROVE OwnTasks' /\ HistoryByPhase'
  <2>1. /\ phase = "announce" /\ c \in batch \cap Malformed /\ task[c] = "none"
        /\ messages' = Append(messages, ToolAnswer(c)) /\ task' = [task EXCEPT ![c] = "done"]
        /\ UNCHANGED <<phase, batch, cancelling, stray>>
    BY <1>3 DEF AnswerMalformed, loopVars
  <2>2. OwnTasks'
    BY <2>1 DEF OwnTasks, Active
  <2>3. PICK A \in SUBSET batch :
           /\ InTurn(messages, MaxCalls, batch, A) /\ \A d \in A : task[d] = "done"
           /\ \A d \in batch : task[d] = "done" => d \in A
    BY <2>1 DEF HistoryByPhase, TurnAnswers
  <2>4. InTurn(messages', MaxCalls, batch, A \cup {c})
    BY <1>0, <2>1, <2>3, TurnAnswered
  <2>5. /\ A \cup {c} \in SUBSET batch /\ \A d \in A \cup {c} : task'[d] = "done"
        /\ \A d \in batch : task'[d] = "done" => d \in A \cup {c}
    BY <2>1, <2>3
  <2>6. TurnAnswers'
    BY <2>1, <2>4, <2>5 DEF TurnAnswers
  <2> QED
    BY <2>1, <2>2, <2>6 DEF HistoryByPhase
<1>4. CASE StartTools
  <2>1. /\ phase = "announce" /\ \A c \in batch \cap Malformed : task[c] = "done"
        /\ \A c \in Call : task'[c] = IF c \in batch \ Malformed THEN "created" ELSE task[c]
        /\ phase' = IF batch \subseteq Malformed THEN "after" ELSE "draining"
        /\ UNCHANGED <<messages, batch, cancelling, stray>>
    BY <1>4 DEF StartTools
  <2>2. CASE batch \subseteq Malformed
    <3>1. Whole(messages, MaxCalls)
      BY <2>1, <2>2, TurnIsWhole
    <3>2. OwnTasks'
      BY <2>1, <2>2 DEF OwnTasks, Active
    <3> QED
      BY <2>1, <2>2, <3>1, <3>2 DEF HistoryByPhase
  <2>3. CASE ~(batch \subseteq Malformed)
    <3>1. OwnTasks'
      <4>1. \A c \in batch : task'[c] # "none"
        BY <2>1
      <4>2. \A c \in Call : Active(c)' => c \in batch
        BY <2>1 DEF OwnTasks, Active
      <4> QED
        BY <2>1, <2>3, <4>1, <4>2 DEF OwnTasks
    <3>2. PICK A \in SUBSET batch :
             /\ InTurn(messages, MaxCalls, batch, A) /\ \A d \in A : task[d] = "done"
             /\ \A d \in batch : task[d] = "done" => d \in A
      BY <2>1 DEF HistoryByPhase, TurnAnswers
    <3>3. /\ \A d \in A : task'[d] = "done"
          /\ \A d \in batch : task'[d] = "done" => d \in A
      BY <2>1, <3>2 DEF OwnTasks
    <3>4. TurnAnswers'
      BY <2>1, <3>2, <3>3 DEF TurnAnswers
    <3> QED
      BY <2>1, <2>3, <3>1, <3>4 DEF HistoryByPhase
  <2> QED
    BY <2>2, <2>3
<1>5. CASE (\E e \in queue : Take(e)) \/ Resume
  <2>1. /\ phase \in {"draining", "yielding"} /\ phase' \in {"draining", "yielding"}
        /\ UNCHANGED <<messages, batch, task, cancelling, stray>>
    BY <1>5 DEF Take, Resume
  <2> QED
    BY <2>1 DEF OwnTasks, HistoryByPhase, TurnAnswers, Active
<1>6. CASE TakeSentinel
  <2>1. /\ phase = "draining" /\ phase' = "after" /\ Unfinished = {}
        /\ UNCHANGED <<messages, batch, task, cancelling, stray>>
    BY <1>6 DEF TakeSentinel
  <2>2. \A c \in batch : task[c] = "done"
    BY <2>1 DEF Unfinished, Active, OwnTasks
  <2>3. OwnTasks'
    BY <2>1, <2>2 DEF OwnTasks, Active
  <2>4. Whole(messages, MaxCalls)
    BY <2>1, <2>2, TurnIsWhole
  <2> QED
    BY <2>1, <2>3, <2>4 DEF HistoryByPhase
<1>7. CASE AfterTurn
  <2>1. /\ phase = "after" /\ phase' \in {"idle", "request"}
        /\ messages' = messages \/ messages' = Append(messages, User)
        /\ UNCHANGED <<batch, task, cancelling, stray>>
    BY <1>7 DEF AfterTurn
  <2>2. Whole(messages', MaxCalls) /\ Partial(messages', MaxCalls)
    BY <1>0, <2>1, UserMessage, WholeIsPartial DEF HistoryByPhase
  <2>3. OwnTasks'
    BY <2>1 DEF OwnTasks, Active
  <2> QED
    BY <2>1, <2>2, <2>3 DEF HistoryByPhase
<1>8. CASE Joined
  <2>1. /\ phase = "joining" /\ phase' = "idle" /\ Unfinished = {}
        /\ UNCHANGED <<messages, batch, task, cancelling, stray>>
    BY <1>8 DEF Joined
  <2>2. OwnTasks'
    BY <2>1 DEF OwnTasks, Active, Unfinished
  <2> QED
    BY <2>1, <2>2, TurnIsPartial DEF HistoryByPhase
<1> QED
  BY <1>1, <1>2, <1>3, <1>4, <1>5, <1>6, <1>7, <1>8 DEF Loop

\* The steps of the front end but the user's answers, and the closing of generators.
LEMMA FrontHistory ==
  ASSUME IInv, OwnTasks, HistoryByPhase, ~disturbed',
         \/ Leave \/ InterruptDraining \/ InterruptYielding \/ InjectContext
         \/ SwitchProfile \/ CloseStray
  PROVE  OwnTasks' /\ HistoryByPhase'
<1> USE DEF IInv, TypeOK
<1>0. MaxCalls \in Nat
  BY BoundsAssumption
<1>1. CASE Leave
  <2>1. /\ phase \in {"request", "announce", "after"} /\ phase' = "idle"
        /\ UNCHANGED <<messages, batch, task, cancelling, stray>>
    BY <1>1 DEF Leave
  <2>2. OwnTasks'
    BY <2>1 DEF OwnTasks, Active
  <2> QED
    BY <2>1, <2>2, TurnIsPartial DEF HistoryByPhase
<1>2. CASE InterruptDraining
  <2>1. /\ phase = "draining" /\ phase' = "joining" /\ cancelling' = cancelling \cup Unfinished
        /\ UNCHANGED <<messages, batch, stray>> /\ RefusePending(task)
    BY <1>2 DEF InterruptDraining
  <2>2. /\ \A c \in Call : Active(c)' <=> Active(c)
        /\ \A c \in Call : task'[c] = "done" <=> task[c] = "done"
    BY <2>1, RefuseEffect
  <2>3. OwnTasks'
    BY <2>1, <2>2 DEF OwnTasks, Unfinished
  <2>4. TurnAnswers'
    BY <2>1, <2>2 DEF HistoryByPhase, TurnAnswers
  <2> QED
    BY <2>1, <2>3, <2>4 DEF HistoryByPhase
<1>3. CASE InterruptYielding
  <2>1. /\ phase = "yielding" /\ phase' = "idle" /\ Unfinished = {}
        /\ stray' = stray \cup Unfinished
        /\ UNCHANGED <<messages, batch, cancelling>> /\ RefusePending(task)
    BY <1>3 DEF InterruptYielding
  <2>2. \A c \in Call : Active(c)' <=> Active(c)
    BY <2>1, RefuseEffect
  <2>3. OwnTasks'
    BY <2>1, <2>2 DEF OwnTasks, Unfinished
  <2> QED
    BY <2>1, <2>3, TurnIsPartial DEF HistoryByPhase
<1>4. CASE InjectContext
  <2>1. /\ phase \in {"idle", "request"} /\ messages' = Append(messages, User)
        /\ UNCHANGED <<phase, batch, task, cancelling, stray>>
    BY <1>4 DEF InjectContext
  <2>2. OwnTasks'
    BY <2>1 DEF OwnTasks, Active
  <2> QED
    BY <1>0, <2>1, <2>2, UserMessage DEF HistoryByPhase
<1>5. CASE SwitchProfile
  <2>1. UNCHANGED <<messages, phase, batch, task, cancelling, stray>>
    BY <1>5 DEF SwitchProfile, loopVars
  <2> QED
    BY <2>1 DEF OwnTasks, HistoryByPhase, TurnAnswers, Active
<1>6. CASE CloseStray
  BY <1>6 DEF CloseStray, OwnTasks
<1> QED
  BY <1>1, <1>2, <1>3, <1>4, <1>5, <1>6

\* The task of a call answers and ends.
LEMMA FinishHistory ==
  ASSUME IInv, OwnTasks, HistoryByPhase, NEW c \in Call, NEW b \in BOOLEAN, Active(c),
         Finish(c, b), UNCHANGED <<loopVars, stray>>
  PROVE  OwnTasks' /\ HistoryByPhase'
<1> USE DEF IInv, TypeOK
<1>1. /\ messages' = Append(messages, ToolAnswer(c)) /\ task' = [task EXCEPT ![c] = "done"]
      /\ cancelling' = cancelling \ {c} /\ UNCHANGED <<phase, batch, stray>>
  BY DEF Finish, loopVars
<1>2. c \in batch /\ phase \in {"draining", "yielding", "joining"} /\ task[c] # "done"
  BY DEF OwnTasks, Active
<1>3. OwnTasks'
  BY <1>1, <1>2 DEF OwnTasks, Active
<1>4. PICK A \in SUBSET batch :
         /\ InTurn(messages, MaxCalls, batch, A) /\ \A d \in A : task[d] = "done"
         /\ phase # "joining" => \A d \in batch : task[d] = "done" => d \in A
  BY <1>2 DEF HistoryByPhase, TurnAnswers
<1>5. InTurn(messages', MaxCalls, batch, A \cup {c})
  BY <1>1, <1>2, <1>4, TurnAnswered, BoundsAssumption
<1>6. /\ A \cup {c} \in SUBSET batch /\ \A d \in A \cup {c} : task'[d] = "done"
      /\ phase # "joining" => \A d \in batch : task'[d] = "done" => d \in A \cup {c}
  BY <1>1, <1>2, <1>4
<1>7. TurnAnswers'
  BY <1>1, <1>5, <1>6 DEF TurnAnswers
<1> QED
  BY <1>1, <1>2, <1>3, <1>7 DEF HistoryByPhase

\* A task goes on without an answer yet, or is dropped before its first step.
LEMMA SilentHistory ==
  ASSUME IInv, OwnTasks, HistoryByPhase, NEW c \in Call, NEW t, t # "none", Active(c),
         task' = [task EXCEPT ![c] = t], UNCHANGED <<messages, loopVars, stray>>,
         \/ t # "done" /\ UNCHANGED cancelling
         \/ t = "done" /\ c \in cancelling /\ cancelling' = cancelling \ {c}
  PROVE  OwnTasks' /\ HistoryByPhase'
<1> USE DEF IInv, TypeOK
<1>1. UNCHANGED <<messages, phase, batch, stray>>
  BY DEF loopVars
<1>2. c \in batch /\ phase \in {"draining", "yielding", "joining"} /\ task[c] # "done"
  BY DEF OwnTasks, Active
<1>3. t = "done" => phase = "joining"
  BY DEF OwnTasks
<1>4. OwnTasks'
  BY <1>1, <1>2 DEF OwnTasks, Active
<1>5. PICK A \in SUBSET batch :
         /\ InTurn(messages, MaxCalls, batch, A) /\ \A d \in A : task[d] = "done"
         /\ phase # "joining" => \A d \in batch : task[d] = "done" => d \in A
  BY <1>2 DEF HistoryByPhase, TurnAnswers
<1>6. /\ \A d \in A : task'[d] = "done"
      /\ phase # "joining" => \A d \in batch : task'[d] = "done" => d \in A
  BY <1>2, <1>3, <1>5
<1>7. TurnAnswers'
  BY <1>1, <1>5, <1>6 DEF TurnAnswers
<1> QED
  BY <1>1, <1>2, <1>4, <1>7 DEF HistoryByPhase

\* The steps of the task of one call, the user's answers among them.
LEMMA TaskHistory ==
  ASSUME IInv, OwnTasks, HistoryByPhase, NEW c \in Call,
         Task(c) \/ Tool(c) \/ \E b \in BOOLEAN : Approve(c, b) \/ Reject(c, b)
  PROVE  OwnTasks' /\ HistoryByPhase'
<1>1. CASE Begin(c)
  <2>1. Active(c) /\ UNCHANGED <<loopVars, stray>>
    BY <1>1 DEF Begin, Active
  <2>2. CASE Finish(c, FALSE)
    BY <2>1, <2>2, FinishHistory
  <2>3. CASE /\ task' = [task EXCEPT ![c] = IF bypass THEN "running" ELSE "deciding"]
             /\ UNCHANGED <<messages, queue, cancelling>>
    <3>1. PICK t \in {"running", "deciding"} : task' = [task EXCEPT ![c] = t]
      BY <2>3
    <3> QED
      BY <2>1, <2>3, <3>1, SilentHistory
  <2> QED
    BY <1>1, <2>2, <2>3 DEF Begin
<1>2. CASE DropUnstarted(c)
  <2>1. Active(c) /\ UNCHANGED <<messages, loopVars, stray>>
    BY <1>2 DEF DropUnstarted, Active
  <2> QED
    BY <1>2, <2>1, SilentHistory DEF DropUnstarted
<1>3. CASE Decide(c)
  <2>1. Active(c) /\ UNCHANGED <<loopVars, stray>>
    BY <1>3 DEF Decide, Active
  <2>2. CASE Finish(c, FALSE)
    BY <2>1, <2>2, FinishHistory
  <2>3. CASE ~Finish(c, FALSE)
    <3>1. PICK t \in {"running", "asking"} :
             task' = [task EXCEPT ![c] = t] /\ UNCHANGED <<messages, queue, cancelling>>
      BY <1>3, <2>3 DEF Decide
    <3> QED
      BY <2>1, <3>1, SilentHistory
  <2> QED
    BY <2>2, <2>3
<1>4. CASE Refused(c)
  BY <1>4, FinishHistory DEF Refused, Active
<1>5. CASE Interrupted(c)
  BY <1>5, FinishHistory DEF Interrupted, Active
<1>6. CASE Tool(c)
  BY <1>6, FinishHistory DEF Tool, Complete, Active
<1>7. ASSUME NEW b \in BOOLEAN, Approve(c, b) PROVE OwnTasks' /\ HistoryByPhase'
  <2>1. Active(c) /\ UNCHANGED <<messages, loopVars, stray, cancelling>>
    BY <1>7 DEF Approve, Active
  <2> QED
    BY <1>7, <2>1, SilentHistory DEF Approve
<1>8. ASSUME NEW b \in BOOLEAN, Reject(c, b) PROVE OwnTasks' /\ HistoryByPhase'
  BY <1>8, FinishHistory DEF Reject, Active
<1> QED
  BY <1>1, <1>2, <1>3, <1>4, <1>5, <1>6, <1>7, <1>8 DEF Task

\* Nothing heals a disturbed history: what is undisturbed has always been.
LEMMA StaysDisturbed == [Next]_vars => (disturbed => disturbed')
<1> SUFFICES ASSUME [Next]_vars, disturbed PROVE disturbed'
  OBVIOUS
<1>1. CASE Loop
  BY <1>1 DEF Loop, Act, Reply, AnswerMalformed, StartTools, Take, Resume, TakeSentinel,
              AfterTurn, Joined
<1>2. CASE FrontEnd
  BY <1>2 DEF FrontEnd, Leave, InterruptDraining, InterruptYielding, InjectContext,
              SwitchProfile, Approve, Reject
<1>3. CASE CloseStray
  BY <1>3 DEF CloseStray
<1>4. CASE \E c \in Call : Task(c) \/ Tool(c)
  BY <1>4 DEF Task, Tool, Begin, DropUnstarted, Decide, Refused, Interrupted, Complete
<1>5. CASE UNCHANGED vars
  BY <1>5 DEF vars
<1> QED
  BY <1>1, <1>2, <1>3, <1>4, <1>5 DEF Next

\* The invariant about the history is inductive.
LEMMA StepHistory == IInv /\ HInv /\ [Next]_vars => HInv'
<1> SUFFICES ASSUME IInv, HInv, [Next]_vars, ~disturbed' PROVE OwnTasks' /\ HistoryByPhase'
  BY DEF HInv
<1>1. OwnTasks /\ HistoryByPhase
  BY StaysDisturbed DEF HInv
<1>2. CASE Loop
  BY <1>1, <1>2, LoopHistory
<1>3. CASE FrontEnd
  BY <1>1, <1>3, FrontHistory, TaskHistory DEF FrontEnd
<1>4. CASE CloseStray
  BY <1>1, <1>4, FrontHistory
<1>5. CASE \E c \in Call : Task(c) \/ Tool(c)
  BY <1>1, <1>5, TaskHistory
<1>6. CASE UNCHANGED vars
  BY <1>1, <1>6 DEF vars, loopVars, OwnTasks, HistoryByPhase, TurnAnswers, Active
<1> QED
  BY <1>2, <1>3, <1>4, <1>5, <1>6 DEF Next

\* A new session has no tasks and an empty history.
LEMMA InitHistory == Init => HInv
<1> SUFFICES ASSUME Init PROVE OwnTasks /\ HistoryByPhase
  BY DEF HInv
<1>1. \A c \in Call : task[c] = "none"
  BY DEF Init
<1>2. OwnTasks
  BY <1>1 DEF Init, OwnTasks, Active
<1>3. Partial(messages, MaxCalls)
  BY EmptyIsPartial, BoundsAssumption DEF Init
<1> QED
  BY <1>2, <1>3 DEF Init, HistoryByPhase

\* However act()s were interrupted, refused or failed, the history the model is asked
\* with is well formed, as long as no interrupt left a tool behind its turn.
THEOREM AskedWithWellFormed == Spec => []WellFormedUndisturbed
<1>1. HInv => WellFormedUndisturbed
  BY WholeIsWellFormed, BoundsAssumption DEF HInv, HistoryByPhase, WellFormedUndisturbed
<1>2. IInv /\ HInv /\ [Next]_vars => IInv' /\ HInv'
  BY StepInv, StepHistory
<1> QED
  BY <1>1, <1>2, InitInv, InitHistory, PTL DEF Spec
=============================================================================
