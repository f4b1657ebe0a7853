------------------------------- MODULE EventView --------------------------------
(***************************************************************************)
(* How the events of a turn become widgets (textual_ui/handlers/           *)
(* event_handler.py with widgets/messages.py, tools.py, compact.py and     *)
(* spinner.py).  Pieces of the reply go to the widget that is being        *)
(* streamed, through a stream that is opened on demand; pieces that come   *)
(* while the user has scrolled up wait in a buffer.  Thoughts are not      *)
(* written at all while they are folded.  A call has a row that spins      *)
(* until its result.  The handler awaits between its steps: the user       *)
(* unfolds a thought, folds the results or interrupts the turn there.      *)
(* A reply is numbered by its place among the replies; "text" and          *)
(* "thought" are the two kinds.                                            *)
(***************************************************************************)
EXTENDS Integers, Sequences, SequencesExt

CONSTANTS
  Call,
  MaxPieces, \* bound: pieces of text
  MaxInputs  \* bound: folds, unfolds and scrolls

VARIABLES
  turn,      \* "on", "ending" (the finally of the turn), "off"
  todo,      \* what the handler of the event has still to do, with an await before each
  replies,   \* kind, content, shown, buffer, stream (there is one), folded, spins
  current,   \* current_streaming_message and _reasoning: the reply of each kind, or 0
  unfolding, \* set_collapsed of a reply: of, at; NotUnfolding
  bottom,    \* chat.is_at_bottom
  row,       \* of each call: "none", "spins", "ok", "failed"
  tracked,   \* tool_calls
  result,    \* of each call: at, bodies, rendering
  folded,    \* _tools_collapsed
  compact,   \* the row of a compaction, as for a call
  torn,      \* history: replies of which a write was interrupted or overtaken
  doubled,   \* history: results rendered twice at a time
  stuck,     \* history: a compaction of a turn failed
  pieces,
  inputs

replyVars == <<replies, current>>
rowVars == <<row, tracked, result>>
historyVars == <<torn, doubled, stuck>>
viewVars == <<turn, todo, replyVars, unfolding, bottom, rowVars, folded, compact, historyVars,
              pieces, inputs>>

Kind == {"text", "thought"}
Other(kind) == IF kind = "text" THEN "thought" ELSE "text"
NotUnfolding == [of |-> 0, at |-> "off"]

Init ==
  /\ turn = "on" /\ todo = <<>> /\ replies = <<>> /\ current = [kind \in Kind |-> 0]
  /\ unfolding = NotUnfolding /\ bottom = TRUE
  /\ row = [c \in Call |-> "none"] /\ tracked = {}
  /\ result = [c \in Call |-> [at |-> "none", bodies |-> 0, rendering |-> {}]]
  /\ folded \in BOOLEAN /\ compact = "none"
  /\ torn = {} /\ doubled = {} /\ stuck = FALSE /\ pieces = 0 /\ inputs = 0

-----------------------------------------------------------------------------
(* Stopping what is being streamed: stop_stream, with its two awaits *)

Step(do, of) == [do |-> do, of |-> of]
StopSteps(kind) ==
  IF current[kind] = 0 THEN <<>>
  ELSE <<Step("flush", kind), Step("stop", kind), Step("drop", kind)>>

\* finalize_streaming.
Finalize == StopSteps("thought") \o StopSteps("text")

Writes(r) == ~(r.kind = "thought" /\ r.folded) \* _should_write_content

FlushNot(r) == r

Flush(r) == IF r.buffer # <<>> /\ Writes(r)
            THEN [r EXCEPT !.shown = @ \o r.buffer, !.stream = TRUE] ELSE r

\* append_content.
Appended(r, piece) ==
  IF ~Writes(r) THEN [r EXCEPT !.content = Append(@, piece)]
  ELSE IF bottom THEN [r EXCEPT !.content = Append(@, piece), !.stream = TRUE,
                                !.shown = @ \o Append(r.buffer, piece), !.buffer = <<>>]
  ELSE [r EXCEPT !.content = Append(@, piece), !.buffer = Append(@, piece)]

NewReply(kind, piece) ==
  [kind |-> kind, content |-> <<piece>>, shown |-> <<>>, buffer |-> <<>>, stream |-> FALSE,
   folded |-> kind = "thought" /\ folded, spins |-> kind = "thought"]

Does(do) == todo # <<>> /\ Head(todo).do = do
Arg == Head(todo).of
Streamed == current[Arg]
Goes(rest) ==
  /\ todo' = rest
  /\ UNCHANGED <<turn, unfolding, bottom, folded, doubled, stuck, pieces, inputs>>

\* Text written between the clearing and the rewriting of a thought is there twice.
Overtakes == torn' = IF /\ unfolding = [of |-> Streamed, at |-> "cleared"]
                        /\ replies'[Streamed].shown # replies[Streamed].shown
                     THEN torn \cup {Streamed} ELSE torn

Flushes ==
  /\ Does("flush") /\ Goes(Tail(todo))
  /\ replies' = [replies EXCEPT ![Streamed] = [Flush(@) EXCEPT !.spins = FALSE]]
  /\ Overtakes /\ UNCHANGED <<current, rowVars, compact>>

Stops ==
  /\ Does("stop") /\ Goes(Tail(todo)) /\ replies' = [replies EXCEPT ![Streamed].buffer = <<>>]
  /\ UNCHANGED <<current, rowVars, compact, torn>>

Drops ==
  /\ Does("drop") /\ Goes(Tail(todo)) /\ replies' = [replies EXCEPT ![Streamed].stream = FALSE]
  /\ current' = [current EXCEPT ![Arg] = 0]
  /\ UNCHANGED <<rowVars, compact, torn>>

\* A new widget is mounted, or the piece is appended to the one there is.
SaysFirst ==
  /\ Does("say") /\ Streamed = 0 /\ Goes(<<Step("initial", Arg)>>)
  /\ replies' = Append(replies, NewReply(Arg, pieces))
  /\ current' = [current EXCEPT ![Arg] = Len(replies')]
  /\ UNCHANGED <<rowVars, compact, torn>>

SaysMore ==
  /\ Does("say") /\ Streamed # 0 /\ Goes(<<>>)
  /\ replies' = [replies EXCEPT ![Streamed] = Appended(@, pieces)]
  /\ Overtakes /\ UNCHANGED <<current, rowVars, compact>>

\* write_initial_content.
WritesInitial ==
  /\ Does("initial") /\ Goes(<<>>)
  /\ replies' = [replies EXCEPT ![Streamed] =
       IF Writes(@) THEN [@ EXCEPT !.shown = @ \o replies[Streamed].content, !.stream = TRUE,
                                   !.buffer = <<>>] ELSE @]
  /\ UNCHANGED <<current, rowVars, compact, torn>>

MountsCall ==
  /\ Does("call") /\ Goes(<<>>)
  /\ row' = [row EXCEPT ![Arg] = "spins"] /\ tracked' = tracked \cup {Arg}
  /\ UNCHANGED <<replyVars, result, compact, torn>>

\* The result is mounted behind its call, which waits for its on_mount, and the call is
\* forgotten.
MountsResult ==
  /\ Does("result") /\ Goes(<<Step("forget", Arg)>>)
  /\ result' = [result EXCEPT ![Arg].at = "mounting"]
  /\ UNCHANGED <<replyVars, row, tracked, compact, torn>>

ForgetsCall ==
  /\ Does("forget") /\ result[Arg].at = "shown" /\ Goes(<<>>) /\ tracked' = tracked \ {Arg}
  /\ UNCHANGED <<replyVars, row, result, compact, torn>>

Compacts ==
  /\ \/ Does("compacts") /\ compact' = "spins"
     \/ Does("compacted") /\ compact' = "ok"
  /\ Goes(<<>>) /\ UNCHANGED <<replyVars, rowVars, torn>>

HandlerStep ==
  \/ Flushes \/ Stops \/ Drops \/ SaysFirst \/ SaysMore \/ WritesInitial
  \/ MountsCall \/ MountsResult \/ ForgetsCall \/ Compacts

-----------------------------------------------------------------------------
(* Events of the turn: handle_event *)

Handles(steps) ==
  /\ turn = "on" /\ todo = <<>> /\ todo' = steps
  /\ UNCHANGED <<turn, replyVars, unfolding, bottom, rowVars, folded, compact, historyVars,
                 inputs>>

\* AssistantEvent and ReasoningEvent: a piece of one kind ends the reply of the other.
SaySteps(kind) == StopSteps(Other(kind)) \o <<Step("say", kind)>>

PieceComes(kind) ==
  /\ pieces < MaxPieces /\ pieces' = pieces + 1 /\ Handles(SaySteps(kind))

\* A call; its events may come twice, while its arguments are streamed.
CallComes(c) ==
  /\ result[c].at = "none"
  /\ Handles(Finalize \o <<Step("call", c)>>) /\ UNCHANGED pieces

ResultComes(c) ==
  /\ row[c] # "none" /\ result[c].at = "none"
  /\ Handles(Finalize \o <<Step("result", c)>>) /\ UNCHANGED pieces

CompactionComes ==
  \/ compact = "none" /\ Handles(Finalize \o <<Step("compacts", "none")>>) /\ UNCHANGED pieces
  \/ compact = "spins" /\ Handles(Finalize \o <<Step("compacted", "none")>>) /\ UNCHANGED pieces

-----------------------------------------------------------------------------
(* Ends of the turn *)

Ends == turn = "on" /\ turn' = "ending" /\ todo' = Finalize

TurnEnds ==
  /\ Ends /\ todo = <<>> /\ tracked = {} /\ compact # "spins"
  /\ UNCHANGED <<replyVars, unfolding, bottom, rowVars, folded, compact, historyVars,
                 pieces, inputs>>

\* stop_current_tool_call(success=False).
RowsForgotten == tracked' = {} /\ UNCHANGED row

RowsStop ==
  /\ row' = [c \in Call |-> IF c \in tracked THEN "failed" ELSE row[c]] /\ tracked' = {}

\* The act() raises: _handle_turn_error.
TurnFails ==
  /\ Ends /\ todo = <<>> /\ RowsStop /\ stuck' = (stuck \/ compact = "spins")
  /\ UNCHANGED <<replyVars, unfolding, bottom, result, folded, compact, torn, doubled,
                 pieces, inputs>>

\* The steps that lose or repeat text when they are cut off.
TornBy(s) ==
  CASE s.do = "initial" -> {current[s.of]}
    [] s.do = "stop" /\ current[s.of] # 0 /\ replies[current[s.of]].buffer # <<>> ->
         {current[s.of]}
    [] OTHER -> {}

\* _interrupt_agent_loop cancels the turn at the await it is at.
Interrupt ==
  /\ Ends /\ RowsStop
  /\ torn' = torn \cup (IF todo = <<>> THEN {} ELSE TornBy(Head(todo)))
  /\ compact' = IF compact = "spins" THEN "failed" ELSE compact
  /\ UNCHANGED <<replyVars, unfolding, bottom, result, folded, doubled, stuck, pieces, inputs>>

TurnOver ==
  /\ turn = "ending" /\ todo = <<>> /\ turn' = "off"
  /\ UNCHANGED <<todo, replyVars, unfolding, bottom, rowVars, folded, compact, historyVars,
                 pieces, inputs>>

-----------------------------------------------------------------------------
(* Meanwhile: the user, and the results' own tasks *)

Inputs == inputs < MaxInputs /\ inputs' = inputs + 1
ScrollOrReturn ==
  /\ Inputs /\ bottom' = ~bottom
  /\ UNCHANGED <<turn, todo, replyVars, unfolding, rowVars, folded, compact, historyVars, pieces>>

\* A click on a thought: set_collapsed. To unfold it, its stream is stopped, what is shown
\* is cleared and its content is written, each with an await between.
Fold(r) ==
  /\ Inputs /\ unfolding = NotUnfolding /\ replies[r].kind = "thought"
  /\ todo # <<Step("initial", "thought")>> \* not laid out yet
  /\ IF replies[r].folded
     THEN /\ replies' = [replies EXCEPT ![r].folded = FALSE]
          /\ unfolding' = [of |-> r, at |-> "stopping"]
     ELSE replies' = [replies EXCEPT ![r].folded = TRUE] /\ UNCHANGED unfolding
  /\ UNCHANGED <<turn, todo, current, bottom, rowVars, folded, compact, historyVars, pieces>>

Unfolds ==
  /\ LET r == unfolding.of
     IN \/ /\ unfolding.at = "stopping" /\ unfolding' = [of |-> r, at |-> "cleared"]
           /\ replies' = [replies EXCEPT ![r].shown = <<>>, ![r].stream = FALSE]
        \/ /\ unfolding.at = "cleared" /\ unfolding' = NotUnfolding
           /\ replies' = [replies EXCEPT ![r].shown = @ \o replies[r].content,
                                         ![r].stream = TRUE, ![r].buffer = <<>>]
  /\ UNCHANGED <<turn, todo, current, bottom, rowVars, folded, compact, historyVars,
                 pieces, inputs>>

\* ToolResultMessage._render_result, by its on_mount or by a toggle: the body is removed and,
\* after an await, mounted.
Renders(c, who, rest) ==
  /\ result' = [result EXCEPT ![c] = [at |-> rest, bodies |-> 0,
                                      rendering |-> @.rendering \cup {who}]]
  /\ doubled' = IF result[c].rendering # {} THEN doubled \cup {c} ELSE doubled

ResultMounts(c) ==
  /\ result[c].at = "mounting" /\ Renders(c, "mount", "rendering")
  /\ row' = [row EXCEPT ![c] = "ok"]
  /\ UNCHANGED <<turn, todo, replyVars, unfolding, bottom, tracked, folded, compact, torn,
                 stuck, pieces, inputs>>

\* action_toggle_tool, one result after the other.
ToggleResults ==
  /\ Inputs /\ folded' = ~folded /\ \A c \in Call : "toggle" \notin result[c].rendering
  /\ result' = [c \in Call |->
       IF result[c].at \in {"rendering", "shown"}
       THEN [result[c] EXCEPT !.bodies = 0, !.rendering = @ \cup {"toggle"}] ELSE result[c]]
  /\ doubled' = doubled \cup {c \in Call : result[c].rendering # {}}
  /\ UNCHANGED <<turn, todo, replyVars, unfolding, bottom, row, tracked, compact, torn, stuck,
                 pieces>>

Rendered(c) ==
  /\ \E who \in result[c].rendering :
       result' = [result EXCEPT ![c] =
         [at |-> IF who = "mount" THEN "shown" ELSE @.at, bodies |-> @.bodies + 1,
          rendering |-> @.rendering \ {who}]]
  /\ UNCHANGED <<turn, todo, replyVars, unfolding, bottom, row, tracked, folded, compact,
                 historyVars, pieces, inputs>>

Next ==
  \/ HandlerStep \/ \E kind \in Kind : PieceComes(kind)
  \/ \E c \in Call : CallComes(c) \/ ResultComes(c) \/ ResultMounts(c) \/ Rendered(c)
  \/ CompactionComes \/ TurnEnds \/ TurnFails \/ Interrupt \/ TurnOver
  \/ ScrollOrReturn \/ \E r \in DOMAIN replies : Fold(r)
  \/ Unfolds \/ ToggleResults
Spec == Init /\ [][Next]_viewVars

-----------------------------------------------------------------------------
TypeOK ==
  /\ turn \in {"on", "ending", "off"} /\ tracked \subseteq Call
  /\ \A kind \in Kind : current[kind] \in 0..Len(replies)
  /\ torn \subseteq DOMAIN replies /\ doubled \subseteq Call

AtRest == todo = <<>> /\ unfolding = NotUnfolding

\* Whatever the user scrolls, folds and unfolds meanwhile, an unfolded reply shows each of
\* its pieces once and in order; when it is no longer streamed, all of them. A write that
\* an interrupt cuts off, or a piece that comes while its thought is being unfolded, is
\* lost or shown twice (`torn`).
TextShownOnce ==
  AtRest => \A r \in DOMAIN replies \ torn : Writes(replies[r]) =>
    /\ replies[r].shown \o replies[r].buffer = replies[r].content
    /\ r \notin {current[kind] : kind \in Kind} => replies[r].buffer = <<>>

\* When the turn is over, however it ended, nothing spins and nothing is being streamed, and
\* a result has one body. A compaction that fails in a turn goes on spinning (`stuck`), and
\* a result toggled while it is being mounted shows its body twice (`doubled`).
NothingSpins ==
  turn = "off" =>
    /\ \A kind \in Kind : current[kind] = 0
    /\ \A r \in DOMAIN replies : ~replies[r].spins
    /\ tracked = {} /\ \A c \in Call : row[c] # "spins"
    /\ ~stuck => compact # "spins"
    /\ \A c \in Call \ doubled : result[c].bodies <= 1
=============================================================================
