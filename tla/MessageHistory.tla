--------------------------- MODULE MessageHistory ---------------------------
(***************************************************************************)
(* The conversation history of vibe/core/agent_loop.py and                 *)
(* vibe/core/types.py (MessageList) without its system prompt: a sequence  *)
(* of messages of which only the role and the tool-call ids matter here.   *)
(* An assistant message carries the ids it calls; a tool message carries   *)
(* the one id it answers.  Ids are naturals handed out in increasing       *)
(* order, so the order of the calls of one message is the order of ids.    *)
(***************************************************************************)
EXTENDS Integers, Sequences, FiniteSets, SequencesExt

User          == [role |-> "user", calls |-> {}]
Assistant(cs) == [role |-> "assistant", calls |-> cs]
ToolAnswer(c) == [role |-> "tool", calls |-> {c}]

Message(Ids) == {User} \cup {Assistant(cs) : cs \in SUBSET Ids}
                       \cup {ToolAnswer(c) : c \in Ids}

\* How many tool messages s starts with.
ToolRun(s) ==
  CHOOSE n \in 0..Len(s) :
     /\ \A k \in 1..n : s[k].role = "tool"
     /\ n < Len(s) => s[n + 1].role # "tool"

Following(h, i)  == SubSeq(h, i + 1, Len(h))
IdsOf(s)         == UNION {s[k].calls : k \in DOMAIN s}
AnswersAfter(h, i) == LET rest == Following(h, i)
                      IN  IdsOf(SubSeq(rest, 1, ToolRun(rest)))

\* The placeholder answers inserted for the calls of cs, in call order.
Placeholders(cs) ==
  LET last == Max(cs \cup {0})
      upTo[n \in 0..last] ==
        IF n = 0 THEN <<>>
        ELSE IF n \in cs THEN Append(upTo[n - 1], ToolAnswer(n)) ELSE upTo[n - 1]
  IN  upTo[last]

\* Mutant: only a message with no answer at all is repaired.
FillOneIfSilent(m, rest) ==
  IF m.role = "assistant" /\ ToolRun(rest) = 0
  THEN <<m>> \o Placeholders(m.calls) \o rest
  ELSE <<m>> \o rest

\* One assistant message m in front of an already repaired rest: when the run
\* of tool messages that follows answers fewer distinct ids than m calls, a
\* placeholder for each unanswered id goes at the end of that run.
FillOne(m, rest) ==
  LET n        == ToolRun(rest)
      answered == IdsOf(SubSeq(rest, 1, n))
  IN  IF m.role = "assistant" /\ Cardinality(answered) < Cardinality(m.calls)
      THEN <<m>> \o SubSeq(rest, 1, n) \o Placeholders(m.calls \ answered)
                 \o SubSeq(rest, n + 1, Len(rest))
      ELSE <<m>> \o rest

\* repaired[n] is the end of the history from its n-th last message on, repaired.
FillMissing(h) ==
  LET repaired[n \in 0..Len(h)] ==
        IF n = 0 THEN <<>> ELSE FillOne(h[Len(h) - n + 1], repaired[n - 1])
  IN  repaired[Len(h)]

\* What the chat-completion APIs require of a request: the tool messages right
\* after an assistant message answer each of its calls once and nothing else,
\* and no tool message stands anywhere else.
WellFormed(h) ==
  \A i \in DOMAIN h :
     /\ h[i].role = "assistant" =>
          /\ ToolRun(Following(h, i)) = Cardinality(h[i].calls)
          /\ AnswersAfter(h, i) = h[i].calls
     /\ h[i].role = "tool" => i > 1 /\ h[i - 1].role # "user"
=============================================================================
