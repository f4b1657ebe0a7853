------------------------------- MODULE ChatInput --------------------------------
(***************************************************************************)
(* The text box at the bottom: what the user types in one of its modes,    *)
(* the history that Up and Down walk through, and the file of the history, *)
(* which several instances of the program append to                        *)
(* (widgets/chat_input/text_area.py, body.py, cli/history_manager.py).     *)
(* The text area and the body around it are two widgets with a queue of    *)
(* messages each; a message the area does not handle goes on to the body.  *)
(* Lines have no line breaks.                                              *)
(***************************************************************************)
EXTENDS Sequences, SequencesExt, Integers

CONSTANTS
  Text,       \* texts without the character of the mode, "" among them
  MaxEntries, \* HistoryManager.max_entries
  MaxKeys,    \* bound: keys of the user
  HurryAllowed, \* bound: a key may come before the messages of the one before are handled
  MaxOthers   \* bound: lines submitted in another instance

Mode == {">", "!"}
Line == Mode \X Text
Blank == <<">", "">>

VARIABLES
  mode, text,   \* _input_mode and the text of the area
  start,        \* the cursor is at the start of the text
  last,         \* _last_text
  navigating,   \* _navigating_history
  original,     \* _original_text
  loaded,       \* _cursor_pos_after_load is set
  moved,        \* _cursor_moved_since_load
  area, body,   \* the queues of messages of the two widgets
  entries, index, temp, \* HistoryManager: its entries (index 0 is no entry), the line left
  file,         \* the history file
  adding,       \* add() is between reading the file and writing it
  log,          \* history: the lines submitted, as one instance would have kept them
  draft,        \* history: what the user typed last, and in which mode
  hurried,      \* history: a key came before the messages of an earlier one were handled
  unnoticed,    \* history: an edit the area took for a step of Up or Down, or of the mode only
  overlapped,   \* history: another instance wrote while add() was under way
  keys, others  \* bounds

lineVars == <<mode, text, start>>
loadVars == <<navigating, original, loaded, moved>>
areaVars == <<lineVars, last, loadVars>>
historyVars == <<entries, index, temp>>
noteVars == <<log, draft, hurried, unnoticed, overlapped, others>>
inputVars == <<areaVars, area, body, historyVars, file, adding, noteVars, keys>>

Init ==
  /\ mode = ">" /\ text = "" /\ start = TRUE /\ last = ""
  /\ navigating = FALSE /\ original = "" /\ loaded = FALSE /\ moved = FALSE
  /\ area = <<>> /\ body = <<>>
  /\ file \in {<<>>} \cup {<<line>> : line \in Line \ {Blank}}
  /\ entries = file /\ index = 0 /\ temp = ""
  /\ adding = FALSE /\ log = file /\ draft = Blank
  /\ hurried = FALSE /\ unnoticed = FALSE /\ overlapped = FALSE /\ keys = 0 /\ others = 0

-----------------------------------------------------------------------------
(* Keys, handled by the area *)

Quiet == area = <<>> /\ body = <<>>
Key ==
  /\ ~adding /\ keys < MaxKeys /\ keys' = keys + 1
  /\ Quiet \/ (HurryAllowed /\ ~hurried)
  /\ hurried' = (hurried \/ ~Quiet)
  /\ UNCHANGED <<body, historyVars, file, adding, log, overlapped, others>>

\* The text is edited; the cursor has moved.
Type ==
  /\ Key /\ text' \in Text \ {text} /\ start' = (text' = "")
  /\ moved' = (moved \/ loaded)
  /\ area' = Append(area, "changed")
  /\ draft' = <<mode, text'>> /\ unnoticed' = (unnoticed \/ (navigating /\ Quiet))
  /\ UNCHANGED <<mode, last, navigating, original, loaded>>

\* The character of a mode in the empty box, and a backspace there.
SwitchMode ==
  /\ Key /\ text = ""
  /\ mode' \in Mode \ {mode}
  /\ draft' = <<mode', text>> /\ unnoticed' = (unnoticed \/ index # 0)
  /\ UNCHANGED <<text, start, last, loadVars, area>>

MoveCursor ==
  /\ Key /\ text # "" /\ start' \in BOOLEAN
  /\ moved' = (moved \/ loaded)
  /\ UNCHANGED <<mode, text, last, navigating, original, loaded, area, draft, unnoticed>>

\* _handle_history_up, in a text of one line.
Up ==
  /\ Key
  /\ IF text # "" /\ ~start /\ ~(loaded /\ ~moved)
     THEN start' = TRUE /\ UNCHANGED <<navigating, area>>
     ELSE navigating' = TRUE /\ area' = Append(area, "previous") /\ UNCHANGED start
  /\ UNCHANGED <<mode, text, last, original, loaded, moved, draft, unnoticed>>

\* _handle_history_down.
Down ==
  /\ Key /\ loaded
  /\ navigating' = TRUE /\ area' = Append(area, "next")
  /\ UNCHANGED <<lineVars, last, original, loaded, moved, draft, unnoticed>>

Enter ==
  /\ Key /\ <<mode, text>> # Blank
  /\ area' = Append(area, <<mode, text>>)
  /\ UNCHANGED <<areaVars, draft, unnoticed>>

-----------------------------------------------------------------------------
(* Messages *)

\* on_text_area_changed.
TextChanged ==
  /\ ~adding /\ area # <<>> /\ Head(area) = "changed"
  /\ LET edited == ~navigating /\ text # last IN
     /\ area' = Tail(area) \o (IF edited THEN <<"reset">> ELSE <<>>)
     /\ original' = IF edited THEN "" ELSE original
     /\ loaded' = (loaded /\ ~edited) /\ moved' = (moved /\ ~edited)
  /\ last' = text /\ navigating' = FALSE
  /\ UNCHANGED <<lineVars, body, historyVars, file, adding, noteVars, keys>>

Bubble ==
  /\ ~adding /\ area # <<>> /\ Head(area) # "changed"
  /\ body' = Append(body, Head(area)) /\ area' = Tail(area)
  /\ UNCHANGED <<areaVars, historyVars, file, adding, noteVars, keys>>

Handles(message) == ~adding /\ body # <<>> /\ Head(body) = message /\ body' = Tail(body)

\* _load_history_entry.
Load(line) ==
  /\ navigating' = TRUE /\ mode' = line[1] /\ text' = line[2] /\ start' = (line[2] = "")
  /\ loaded' = TRUE /\ moved' = FALSE
  /\ area' = Append(area, "changed")

\* Mutant: the line that is left for the history is not kept.
HistoryPreviousDrops ==
  /\ Handles("previous")
  /\ original' = IF index = 0 THEN text ELSE original
  /\ LET at == IF index = 0 THEN Len(entries) + 1 ELSE index
         new == IF at > 1 THEN at - 1 ELSE at IN
     IF entries = <<>> THEN UNCHANGED <<historyVars, area, mode, text, start, last, navigating, loaded, moved>>
     ELSE /\ index' = new /\ UNCHANGED <<temp, entries, last>>
          /\ IF at > 1 THEN Load(entries[new])
             ELSE UNCHANGED <<area, mode, text, start, navigating, loaded, moved>>
  /\ UNCHANGED <<file, adding, noteVars, keys>>

\* on_chat_text_area_history_previous and get_previous: the text, without its mode, is kept
\* when the walk begins; at the oldest entry nothing happens.
HistoryPrevious ==
  /\ Handles("previous")
  /\ original' = IF index = 0 THEN text ELSE original
  /\ LET at == IF index = 0 THEN Len(entries) + 1 ELSE index
         new == IF at > 1 THEN at - 1 ELSE at IN
     IF entries = <<>> THEN UNCHANGED <<historyVars, area, mode, text, start, last, navigating, loaded, moved>>
     ELSE /\ index' = new /\ UNCHANGED <<entries, last>>
          /\ temp' = IF index = 0 THEN original' ELSE temp
          /\ IF at > 1 THEN Load(entries[new])
             ELSE UNCHANGED <<area, mode, text, start, navigating, loaded, moved>>
  /\ UNCHANGED <<file, adding, noteVars, keys>>

\* on_chat_text_area_history_next and get_next: after the newest entry the kept text comes
\* back, in the mode its own first character says.
HistoryNext ==
  /\ Handles("next")
  /\ CASE index = 0 -> UNCHANGED <<index, temp, area, mode, text, start, navigating, loaded, moved>>
       [] index \in 1..(Len(entries) - 1) ->
            index' = index + 1 /\ Load(entries[index + 1]) /\ UNCHANGED temp
       [] OTHER -> index' = 0 /\ temp' = "" /\ Load(<<">", temp>>)
  /\ UNCHANGED <<entries, last, original, file, adding, noteVars, keys>>

HistoryReset ==
  /\ Handles("reset")
  /\ index' = 0 /\ temp' = "" /\ original' = "" /\ loaded' = FALSE /\ moved' = FALSE
  /\ UNCHANGED <<lineVars, last, navigating, area, entries, file, adding, noteVars, keys>>

Capped(lines) == SubSeq(lines, IF Len(lines) > MaxEntries THEN Len(lines) - MaxEntries + 1 ELSE 1, Len(lines))
\* add(): a line like the last one is left out.
Added(lines, line) ==
  IF lines # <<>> /\ Last(lines) = line THEN lines ELSE Capped(Append(lines, line))

\* Mutant: the file is not read before the line is added.
SubmittedStale ==
  /\ ~adding /\ body # <<>> /\ Head(body) \in Line /\ body' = Tail(body)
  /\ entries' = Added(entries, Head(body)) /\ adding' = (entries' # entries)
  /\ log' = Added(log, Head(body))
  /\ index' = 0 /\ temp' = ""
  /\ mode' = ">" /\ text' = "" /\ start' = TRUE /\ last' = ""
  /\ original' = "" /\ loaded' = FALSE /\ moved' = FALSE
  /\ area' = Append(area, "changed")
  /\ draft' = Blank
  /\ UNCHANGED <<navigating, file, hurried, unnoticed, overlapped, others, keys>>

\* on_chat_text_area_submitted: the file is read again and written with the line, and the
\* box is cleared.
Submitted ==
  /\ ~adding /\ body # <<>> /\ Head(body) \in Line /\ body' = Tail(body)
  /\ entries' = Added(IF file = <<>> THEN entries ELSE file, Head(body))
  /\ adding' = (entries' # file)
  /\ log' = Added(log, Head(body))
  /\ index' = 0 /\ temp' = ""
  /\ mode' = ">" /\ text' = "" /\ start' = TRUE /\ last' = ""
  /\ original' = "" /\ loaded' = FALSE /\ moved' = FALSE
  /\ area' = Append(area, "changed")
  /\ draft' = Blank
  /\ UNCHANGED <<navigating, file, hurried, unnoticed, overlapped, others, keys>>

\* _save_history: a new file takes the place of the old one.
Saved ==
  /\ adding /\ adding' = FALSE /\ file' = entries
  /\ UNCHANGED <<areaVars, area, body, historyVars, noteVars, keys>>

OtherAdds(line) ==
  /\ others < MaxOthers /\ others' = others + 1
  /\ file' = Added(file, line) /\ log' = Added(log, line)
  /\ overlapped' = (overlapped \/ adding)
  /\ UNCHANGED <<areaVars, area, body, historyVars, adding, draft, hurried, unnoticed, keys>>

Next ==
  \/ Type \/ SwitchMode \/ MoveCursor \/ Up \/ Down \/ Enter
  \/ TextChanged \/ Bubble \/ HistoryPrevious \/ HistoryNext \/ HistoryReset
  \/ Submitted \/ Saved
  \/ \E line \in Line \ {Blank} : OtherAdds(line)

-----------------------------------------------------------------------------
(* Properties *)

TypeOK ==
  /\ <<mode, text>> \in Line /\ draft \in Line /\ {last, original, temp} \subseteq Text
  /\ \A b \in {start, navigating, loaded, moved, adding, hurried, unnoticed, overlapped} : b \in BOOLEAN
  /\ \A lines \in {entries, file, log} : Len(lines) <= MaxEntries /\ Range(lines) \subseteq Line
  /\ index \in 0..Len(entries) /\ (moved => loaded)

\* Whatever the user did with Up and Down, one key after the other, what was typed last is on
\* the screen or comes back with Down, in mode ">" with its mode; and a recalled entry is
\* shown as it was submitted.  Not so after an edit that went unnoticed.
DraftKept ==
  Quiet /\ ~hurried /\ ~unnoticed =>
    /\ index = 0 => text = draft[2] /\ (draft[1] = ">" => mode = ">")
    /\ index # 0 => temp = draft[2] /\ <<mode, text>> = entries[index]

\* No instance loses a line of another one, unless both write at once.
LinesKept == ~adding /\ ~overlapped => file = log

ChatInputSpec == Init /\ [][Next]_inputVars
=============================================================================
