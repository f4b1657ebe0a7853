------------------------------- MODULE Completion -------------------------------
(***************************************************************************)
(* A completion over each of the API styles (core/llm/backend): how the    *)
(* history is put into a request, how the reply is parsed whole, and how   *)
(* it is put together from the chunks of a stream, with the retries of the *)
(* request and the failures of the stream.                                 *)
(*                                                                         *)
(* A reply is a sequence of items: thoughts, commentary, texts and calls,  *)
(* each with some pieces; the k-th piece of the i-th item is <<i, k>>, and *)
(* a text is the sequence of its pieces.                                   *)
(***************************************************************************)
EXTENDS MessageHistory

CONSTANTS
  MaxItems,    \* bound: items of a reply
  MaxPieces,   \* bound: pieces of an item
  MaxHistory,  \* bound: messages of a history
  MaxTries     \* tries of async_generator_retry

Style == {"openai", "blocks", "anthropic", "responses"}
Done  == {"arguments", "item"}  \* the events that end a call of the responses style

Item(style) == [kind : {"thought", "text", "call"}
                         \cup (IF style = "responses" THEN {"comment"} ELSE {}),
                pieces : 1..MaxPieces]

VARIABLES
  style, stream, \* the API style; streamed or not
  history, said, \* the messages that are sent; what each says beside its calls
  indexed,       \* the service numbers the calls of a streamed reply
  reply, dones,  \* the reply, and which ending events its calls get
  phase,         \* requesting, reading, done or failed
  tries,         \* requests so far
  events,        \* events of the stream that were not read yet
  parser,        \* _OpenAIResponsesStreamParser
  total,         \* the sum of the chunks read, then the message that is appended
  cut            \* the stream ended before the reply did, without an error

completionVars == <<style, stream, history, said, indexed, reply, dones, phase, tries, events,
                    parser, total, cut>>

When(condition, s) == IF condition THEN s ELSE <<>>

-----------------------------------------------------------------------------
(* Requests.  Ids stay distinct when characters are replaced in them. *)

Block(type, id) == [type |-> type, id |-> id]
Calls(m) == LET ids == SetToSortSeq(m.calls, <) IN [k \in DOMAIN ids |-> Block("tool_use", ids[k])]

\* Without blocks the content is the empty string.
Content(m) ==
  When("thought" \in m.said, <<Block("thinking", 0)>>)
    \o When("text" \in m.said, <<Block("text", 0)>>) \o Calls(m)

\* Mutant: the role of the message before is not looked at.
PrepareAnthropicAnyRole(converted, m) ==
  LET n == Len(converted)
      result == <<Block("tool_result", CHOOSE c \in m.calls : TRUE)>>
  IN  IF m.role # "tool"
      THEN Append(converted, [role |-> m.role, blocks |-> Content(m)])
      ELSE IF n > 0
      THEN [converted EXCEPT ![n].blocks = @ \o result]
      ELSE Append(converted, [role |-> "user", blocks |-> result])

\* prepare_messages of AnthropicMapper: a tool result goes into the message before it when
\* that is a user's, behind an empty text if that was empty, and into a new one otherwise.
PrepareAnthropic(converted, m) ==
  LET n == Len(converted)
      result == <<Block("tool_result", CHOOSE c \in m.calls : TRUE)>>
  IN  IF m.role # "tool"
      THEN Append(converted, [role |-> m.role, blocks |-> Content(m)])
      ELSE IF n > 0 /\ converted[n].role = "user"
      THEN [converted EXCEPT ![n].blocks = (IF @ = <<>> THEN <<Block("text", 0)>> ELSE @) \o result]
      ELSE Append(converted, [role |-> "user", blocks |-> result])

\* The API joins messages of the same role.
Join(joined, m) ==
  LET n == Len(joined)
  IN  IF n > 0 /\ joined[n].role = m.role
      THEN [joined EXCEPT ![n].blocks = @ \o m.blocks] ELSE Append(joined, m)

IdsIn(type, blocks) == {blocks[k].id : k \in {j \in DOMAIN blocks : blocks[j].type = type}}

\* It wants the results of an assistant's calls first in the next message, and no others.
AnthropicAccepts(request) ==
  LET joined == FoldLeft(Join, <<>>, request)
      Used(i) == IF i \in DOMAIN joined THEN IdsIn("tool_use", joined[i].blocks) ELSE {}
  IN  /\ \A i \in DOMAIN joined :
           LET blocks == joined[i].blocks
               results == {k \in DOMAIN blocks : blocks[k].type = "tool_result"}
           IN  joined[i].role = "user" =>
                 /\ IdsIn("tool_result", blocks) = Used(i - 1)
                 /\ results = 1..Cardinality(Used(i - 1))
      /\ Used(Len(joined)) = {}

\* _convert_messages of OpenAIResponsesAdapter: an item for each message and call.
PrepareResponses(items, m) ==
  items \o (IF m.role = "tool" THEN <<Block("tool_result", CHOOSE c \in m.calls : TRUE)>>
            ELSE <<Block(m.role, 0)>> \o Calls(m))

\* Each call has one output, behind it.
ResponsesAccept(items) ==
  LET At(type, id) == {k \in DOMAIN items : items[k] = Block(type, id)}
  IN  \A id \in IdsIn("tool_use", items) \cup IdsIn("tool_result", items) :
        /\ Cardinality(At("tool_use", id)) = 1 /\ Cardinality(At("tool_result", id)) = 1
        /\ \A u \in At("tool_use", id), r \in At("tool_result", id) : u < r

\* A message says something beside its calls, or makes one.
Spoken == [i \in DOMAIN history |->
             [role |-> history[i].role, calls |-> history[i].calls, said |-> said[i]]]
Silent(m) == m.calls = {} /\ m.said = {}

\* The other styles send the messages one to one.  No message but the last may be empty.
Accepted ==
  /\ style = "anthropic" =>
       LET request == FoldLeft(PrepareAnthropic, <<>>, Spoken)
       IN  /\ AnthropicAccepts(request)
           /\ (\A i \in 1..(Len(history) - 1) : ~Silent(Spoken[i])) =>
                \A i \in 1..(Len(request) - 1) : request[i].blocks # <<>>
  /\ style = "responses" => ResponsesAccept(FoldLeft(PrepareResponses, <<>>, history))
  /\ style \in {"openai", "blocks"} => WellFormed(history)

-----------------------------------------------------------------------------
(* Whole replies *)

Pieces(i) == [k \in 1..reply[i].pieces |-> <<i, k>>]
Call(i, args) == [index |-> i, args |-> args]

\* The pieces of the items of some kinds, in order; the calls; what proves a thought.
PiecesOf(kinds) == FlattenSeq([i \in DOMAIN reply |-> When(reply[i].kind \in kinds, Pieces(i))])
CallsOf == FlattenSeq([i \in DOMAIN reply |-> When(reply[i].kind = "call", <<Call(i, Pieces(i))>>)])
Proofs  == FlattenSeq([i \in DOMAIN reply |-> When(reply[i].kind = "thought", <<i>>)])

\* AnthropicMapper.parse_response, with the signatures of the thoughts.
AnthropicWhole ==
  [text |-> PiecesOf({"text"}), thought |-> PiecesOf({"thought"}), proof |-> Proofs,
   calls |-> CallsOf, usage |-> <<1, 1>>]

\* _parse_output_items, with the encrypted reasoning.
ResponsesWhole ==
  [text |-> PiecesOf({"text"}), thought |-> PiecesOf({"thought", "comment"}), proof |-> Proofs,
   calls |-> CallsOf, usage |-> <<1, 1>>]

\* The chat completions: fields of the message, or blocks in its content.
ChatWhole ==
  [text |-> PiecesOf({"text"}), thought |-> PiecesOf({"thought"}), proof |-> <<>>,
   calls |-> CallsOf, usage |-> <<1, 1>>]

Whole == IF style = "anthropic" THEN AnthropicWhole
         ELSE IF style = "responses" THEN ResponsesWhole ELSE ChatWhole

-----------------------------------------------------------------------------
(* Streams: the events a service sends for the reply (external) *)

Event(type, i, k) == [type |-> type, item |-> i, piece |-> k]
Deltas(i) == [k \in 1..reply[i].pieces |-> Event("delta", i, k)]
PerItem(Events(_)) == FlattenSeq([i \in DOMAIN reply |-> Events(i)])

AnthropicEvents ==
  LET Events(i) == <<Event("start", i, 0)>> \o Deltas(i)
                     \o When(reply[i].kind = "thought", <<Event("signature", i, 0)>>)
  IN  <<Event("message_start", 0, 0)>> \o PerItem(Events) \o <<Event("message_delta", 0, 0)>>

ResponsesEvents ==
  LET Events(i) == <<Event("added", i, 0)>> \o Deltas(i)
                     \o When(reply[i].kind = "call" /\ "arguments" \in dones,
                             <<Event("arguments", i, 0)>>)
                     \o When(reply[i].kind # "call" \/ "item" \in dones, <<Event("item", i, 0)>>)
  IN  <<Event("created", 0, 0)>> \o PerItem(Events) \o <<Event("completed", 0, 0)>>

ChatEvents ==
  LET Events(i) == When(reply[i].kind = "call", <<Event("start", i, 0)>>) \o Deltas(i)
  IN  PerItem(Events) \o <<Event("usage", 0, 0)>>

Sent == IF style = "anthropic" THEN AnthropicEvents
        ELSE IF style = "responses" THEN ResponsesEvents ELSE ChatEvents

-----------------------------------------------------------------------------
(* Chunks *)

Empty == [text |-> <<>>, thought |-> <<>>, proof |-> <<>>, calls |-> <<>>, usage |-> <<0, 0>>]
Kind(e) == IF e.item \in DOMAIN reply THEN reply[e.item].kind ELSE "none"
Piece(e, kinds) == When(e.type = "delta" /\ Kind(e) \in kinds, <<<<e.item, e.piece>>>>)

\* A call begins without arguments, which come piece by piece.
CallChunk(e) ==
  When(e.type \in {"start", "delta"} /\ Kind(e) = "call", <<Call(e.item, Piece(e, {"call"}))>>)

\* _parse_streaming_event of AnthropicAdapter.
AnthropicChunk(e) ==
  [text |-> Piece(e, {"text"}), thought |-> Piece(e, {"thought"}),
   proof |-> When(e.type = "signature", <<e.item>>), calls |-> CallChunk(e),
   usage |-> IF e.type = "message_start" THEN <<1, 0>>
             ELSE IF e.type = "message_delta" THEN <<0, 1>> ELSE <<0, 0>>]

\* parse_response of OpenAIAdapter and ReasoningAdapter for a delta.
ChatChunk(e) ==
  [text |-> Piece(e, {"text"}), thought |-> Piece(e, {"thought"}), proof |-> <<>>,
   calls |-> CallChunk(e), usage |-> IF e.type = "usage" THEN <<1, 1>> ELSE <<0, 0>>]

NewParser == [commentary |-> {}, emitted |-> {}]

\* Mutant: the arguments are emitted by each event that ends a call.
FinalizedAgain(e) == <<Call(e.item, Pieces(e.item))>>

\* _finalize_tool_call: the arguments are emitted once, by the first of the events
\* that end a call; deltas are only remembered.
Finalized(e) ==
  When(e.item \notin parser.emitted, <<Call(e.item, Pieces(e.item))>>)

Ends(e) == e.type \in Done /\ Kind(e) = "call"

\* _OpenAIResponsesStreamParser.parse: deltas of commentary are thoughts.
ResponsesChunk(e) ==
  [text    |-> When(e.item \notin parser.commentary, Piece(e, {"text", "comment"})),
   thought |-> Piece(e, {"thought"})
                 \o When(e.item \in parser.commentary, Piece(e, {"text", "comment"})),
   proof   |-> When(e.type = "completed", Proofs),
   calls   |-> When(e.type = "added" /\ Kind(e) = "call", <<Call(e.item, <<>>)>>)
                 \o When(Ends(e), Finalized(e)),
   usage   |-> IF e.type = "completed" THEN <<1, 1>> ELSE <<0, 0>>]

ParserAfter(e) ==
  IF style # "responses" THEN parser
  ELSE IF e.type \in {"created", "completed"} THEN NewParser
  ELSE [commentary |-> parser.commentary
          \cup (IF e.type \in {"added", "item"} /\ Kind(e) = "comment" THEN {e.item} ELSE {}),
        emitted |-> parser.emitted \cup (IF Ends(e) THEN {e.item} ELSE {})]

ChunkOf(e) == IF style = "anthropic" THEN AnthropicChunk(e)
              ELSE IF style = "responses" THEN ResponsesChunk(e) ELSE ChatChunk(e)

\* One call into the calls so far: by its index, in the order of appearance.
AddCall(calls, c) ==
  IF \E k \in DOMAIN calls : calls[k].index = c.index
  THEN [k \in DOMAIN calls |-> IF calls[k].index = c.index
                               THEN [calls[k] EXCEPT !.args = @ \o c.args] ELSE calls[k]]
  ELSE Append(calls, c)

\* LLMMessage.__add__ and LLMUsage.__add__.
Sum(a, b) ==
  [text |-> a.text \o b.text, thought |-> a.thought \o b.thought, proof |-> a.proof \o b.proof,
   calls |-> FoldLeft(AddCall, a.calls, b.calls),
   usage |-> <<a.usage[1] + b.usage[1], a.usage[2] + b.usage[2]>>]

-----------------------------------------------------------------------------
Histories == {h \in UNION {[1..n -> Message({1, 2})] : n \in 0..MaxHistory} :
                WellFormed(h) /\ \A i, j \in DOMAIN h : i # j /\ h[i].role = "assistant"
                                   /\ h[j].role = "assistant" => h[i].calls \cap h[j].calls = {}}

\* What messages say: a reply may be a thought, or nothing.
Sayings(m) == IF m.role = "assistant" THEN SUBSET {"thought", "text"} ELSE {{"text"}}

Init ==
  /\ style \in Style /\ stream \in BOOLEAN
  /\ \/ history \in Histories /\ reply = <<>> /\ ~stream
     \/ history = <<>> /\ reply \in UNION {[1..n -> Item(style)] : n \in 1..MaxItems}
  /\ said \in [DOMAIN history -> SUBSET {"thought", "text"}]
  /\ \A i \in DOMAIN history :
       IF style = "anthropic" THEN said[i] \in Sayings(history[i]) ELSE said[i] = {"text"}
  /\ indexed \in BOOLEAN /\ (indexed \/ (stream /\ style \in {"openai", "blocks"} /\ history = <<>>))
  /\ dones \in (IF style = "responses" THEN SUBSET Done \ {{}} ELSE {{}})
  /\ phase = "requesting" /\ tries = 0 /\ events = <<>>
  /\ parser = NewParser /\ total = Empty /\ cut = FALSE

Keep == UNCHANGED <<style, stream, history, said, indexed, reply, dones>>

\* The request is answered: with the whole reply, or with a stream of events.
Answered ==
  /\ phase = "requesting"
  /\ tries' = tries + 1
  /\ IF stream
     THEN phase' = "reading" /\ events' = Sent /\ UNCHANGED total
     ELSE phase' = "done" /\ total' = Whole /\ UNCHANGED events
  /\ Keep /\ UNCHANGED <<parser, cut>>

\* An HTTP status that may be retried, or another one.
Refused(retryable) ==
  /\ phase = "requesting"
  /\ tries' = tries + 1
  /\ phase' = IF retryable /\ tries' < MaxTries THEN "requesting" ELSE "failed"
  /\ Keep /\ UNCHANGED <<events, parser, total, cut>>

\* Adding up two chunks of which one holds a call without a number raises.
Unnumbered(chunk) == ~indexed /\ events # Sent /\ (total.calls # <<>> \/ chunk.calls # <<>>)

Read ==
  /\ phase = "reading" /\ events # <<>>
  /\ LET chunk == ChunkOf(Head(events))
     IN  \/ /\ ~Unnumbered(chunk) /\ total' = Sum(total, chunk) /\ UNCHANGED phase
         \/ /\ Unnumbered(chunk) /\ phase' = "failed" /\ UNCHANGED total
  /\ parser' = ParserAfter(Head(events))
  /\ events' = Tail(events)
  /\ Keep /\ UNCHANGED <<tries, cut>>

\* The end of the stream, with all events or not: the body just ends, or an event
\* that says "failed" is taken for one that is not known.  The message is appended;
\* without any chunk there is none.
StreamEnds ==
  /\ phase = "reading"
  /\ phase' = (IF events = Sent THEN "failed" ELSE "done") /\ cut' = (events # <<>>)
  /\ Keep /\ UNCHANGED <<tries, events, parser, total>>

\* Mutant: the request is made once more, and its chunks are added to the first ones.
StreamBreaksRetried ==
  /\ phase = "reading"
  /\ phase' = "requesting" /\ tries < MaxTries
  /\ Keep /\ UNCHANGED <<tries, events, parser, total, cut>>

\* The connection breaks, or an error event comes: nothing is appended or retried.
StreamBreaks ==
  /\ phase = "reading"
  /\ phase' = "failed"
  /\ Keep /\ UNCHANGED <<tries, events, parser, total, cut>>

Next ==
  \/ Answered \/ Read \/ StreamEnds \/ StreamBreaks
  \/ \E retryable \in BOOLEAN : Refused(retryable)

Spec == Init /\ [][Next]_completionVars

-----------------------------------------------------------------------------
(* Properties *)

\* What the model meant: its items, whatever the style.
Meant ==
  [text |-> PiecesOf({"text"}), thought |-> PiecesOf({"thought", "comment"}),
   proof |-> IF style \in {"anthropic", "responses"} THEN Proofs ELSE <<>>,
   calls |-> CallsOf, usage |-> <<1, 1>>]

\* Type invariant of the exchange.
TypeOK ==
  /\ style \in Style /\ {stream, indexed, cut} \subseteq BOOLEAN
  /\ phase \in {"requesting", "reading", "done", "failed"} /\ tries \in 0..MaxTries
  /\ {parser.commentary, parser.emitted} \subseteq SUBSET DOMAIN reply
  /\ DOMAIN total = DOMAIN Empty /\ DOMAIN said = DOMAIN history

\* What is there is the beginning of what the model meant, in each of its parts.
Begun ==
  /\ IsPrefix(total.text, Meant.text) /\ IsPrefix(total.thought, Meant.thought)
  /\ IsPrefix(total.proof, Meant.proof)
  /\ Len(total.calls) <= Len(Meant.calls)
  /\ \A k \in DOMAIN total.calls :
       /\ total.calls[k].index = Meant.calls[k].index
       /\ IsPrefix(total.calls[k].args, Meant.calls[k].args)

\* In every style, streamed or whole, after retries and whatever events end a call: the
\* message that is appended is the reply, each piece once and in its place.  While a stream
\* is read, and when it just ends, what is there is the beginning of the reply.
ReplyArrivesWhole ==
  /\ Begun
  /\ phase = "done" /\ ~cut => total = Meant

\* _convert_assistant_message: all thoughts of a message are one, under one signature.
ThoughtSentBack == When(total.thought # <<>>, <<[thinking |-> total.thought, signature |-> total.proof]>>)

\* A reply with one thought has it sent back to the service under the signature that proves
\* it, or none if the stream just ended: a signature never stands under a part of it.  (The
\* thoughts of a reply with several go back joined, under their joined signatures.)
ThoughtsProved ==
  style = "anthropic" /\ phase = "done" /\ Len(Proofs) = 1 =>
    /\ ~cut => Len(ThoughtSentBack) = 1
    /\ \A k \in DOMAIN ThoughtSentBack :
         \/ ThoughtSentBack[k] = [thinking |-> Pieces(Proofs[1]), signature |-> Proofs]
         \/ cut /\ ThoughtSentBack[k].signature = <<>>

\* A history that act() left well formed is a request the API of the style accepts.
RequestsAccepted == Accepted
===============================================================================
