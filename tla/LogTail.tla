------------------------------- MODULE LogTail -------------------------------
(***************************************************************************)
(* The debug console (core/log_reader.py, widgets/debug_console.py): pages *)
(* of the log are read backwards by the application while a thread reads   *)
(* the new lines and hands them over one by one.  The cursor of the pages  *)
(* counts entries from the end the file had when the console was opened,   *)
(* so the lines the thread has read since are skipped as well.             *)
(***************************************************************************)
EXTENDS Integers, Sequences, SequencesExt

CONSTANTS
  PageSize, Height, \* entries of a page; entries that fill the console
  Noise,            \* lines that are no entry
  MaxLines,         \* bound: lines
  MaxOpens          \* bound: times the console is opened

None == -1

VARIABLES
  first, written, \* the file has the lines first + 1 .. written
  position,       \* _last_position, in lines
  newLines,       \* _new_lines_count
  open,           \* the console is mounted, and the thread runs
  view,           \* the lines shown
  cursor, more,   \* _cursor and _has_more
  filling,        \* _check_and_fill is scheduled
  skip,           \* adjusted_skip of the page that is being read, or None
  pending,        \* entries the thread has still to hand over
  slipped,        \* history: see Slips
  emptied,        \* history: the file was emptied while the console was open
  opens           \* bound

vars == <<first, written, position, newLines, open, view, cursor, more, filling, skip, pending,
          slipped, emptied, opens>>
readerVars == <<position, newLines, pending>>
consoleVars == <<open, view, cursor, more, filling, opens>>

Init ==
  /\ first = 0 /\ written \in 0..MaxLines
  /\ position = 0 /\ newLines = 0 /\ pending = <<>>
  /\ open = FALSE /\ view = <<>> /\ cursor = None /\ more = TRUE /\ filling = FALSE
  /\ skip = None /\ slipped = FALSE /\ emptied = FALSE /\ opens = 0

Size == written - first

\* _parse_line: the entries among the lines a + 1 .. b.
Entries(a, b) == SelectSeq([i \in 1..(b - a) |-> a + i], LAMBDA i : i \notin Noise)

-----------------------------------------------------------------------------
(* The file *)

Write ==
  /\ written < MaxLines /\ written' = written + 1
  /\ UNCHANGED <<first, readerVars, consoleVars, skip, slipped, emptied>>

\* The user empties it.
Empty ==
  /\ Size > 0 /\ ~emptied
  /\ first' = written /\ emptied' = open
  /\ UNCHANGED <<written, readerVars, consoleVars, skip, slipped>>

-----------------------------------------------------------------------------
(* The view *)

WriteLine(i) == Append(view, i)
PrependLines(page) == page \o view

-----------------------------------------------------------------------------
(* The thread *)

\* It begins with the lines to come.
StartWatching == position' = Size

\* Mutant: the lines the thread has read are not counted.
ReadUncounted(n, lines) == n

\* Under the lock the lines that were read are counted.
ReadCounted(n, lines) == n + lines

\* _process_new_content; a file that became shorter is read from its start.
Poll ==
  /\ open /\ pending = <<>>
  /\ LET from == IF Size < position THEN 0 ELSE position
         count == IF Size < position THEN 0 ELSE newLines
     IN /\ position' = Size
        /\ newLines' = IF Size = from THEN count ELSE ReadCounted(count, Size - from)
        /\ pending' = Entries(first + from, written)
  /\ UNCHANGED <<first, written, consoleVars, skip, slipped, emptied>>

\* call_from_thread waits for the application.
Deliver ==
  /\ open /\ skip = None /\ pending # <<>>
  /\ view' = WriteLine(Head(pending)) /\ pending' = Tail(pending)
  /\ UNCHANGED <<first, written, position, newLines, open, cursor, more, filling, skip, slipped,
                 emptied, opens>>

-----------------------------------------------------------------------------
(* The console *)

\* on_mount: the fill comes after the refresh.
Open ==
  /\ ~open /\ opens < MaxOpens
  /\ open' = TRUE /\ opens' = opens + 1
  /\ view' = <<>> /\ cursor' = None /\ more' = TRUE /\ filling' = TRUE
  /\ StartWatching
  /\ slipped' = FALSE /\ emptied' = FALSE
  /\ UNCHANGED <<first, written, newLines, pending, skip>>

\* on_unmount, stop_watching: what the thread still has goes to a view that is gone.
Close ==
  /\ open /\ skip = None
  /\ open' = FALSE /\ filling' = FALSE
  /\ newLines' = 0 /\ pending' = <<>>
  /\ UNCHANGED <<first, written, position, view, cursor, more, skip, slipped, emptied, opens>>

Offset == IF cursor = None THEN 0 ELSE cursor

\* _load_page asks get_logs, which begins with what is to be skipped.
BeginPage == skip' = Offset + newLines

\* _check_and_fill loads pages until the view is full.
Fill ==
  /\ open /\ skip = None /\ filling
  /\ IF more /\ Len(view) <= Height
       THEN BeginPage /\ UNCHANGED filling
       ELSE filling' = FALSE /\ UNCHANGED skip
  /\ UNCHANGED <<first, written, readerVars, open, view, cursor, more, slipped, emptied, opens>>

\* _try_load_previous, when the user scrolls at the top.
ScrollUp ==
  /\ open /\ skip = None /\ ~filling /\ more /\ cursor # None
  /\ BeginPage
  /\ UNCHANGED <<first, written, readerVars, consoleVars, slipped, emptied>>

\* A page that the cursor does not fit: lines are in the file that the thread has not read,
\* or has read since the skip was taken, or lines were skipped that are no entry.
Slips ==
  \/ Size # position \/ skip # Offset + newLines
  \/ \E i \in Noise : i > written - skip /\ i <= written - newLines

\* _read_lines_backward from the end the file has now, a page of entries of it.
ReadPage ==
  /\ skip # None
  /\ LET rest == IF skip > Size THEN <<>> ELSE Entries(first, written - skip)
         full == Len(rest) >= PageSize
         page == IF full THEN SubSeq(rest, Len(rest) - PageSize + 1, Len(rest)) ELSE rest
     IN /\ view' = PrependLines(page)
        /\ more' = full /\ cursor' = IF full THEN Offset + PageSize ELSE None
  /\ skip' = None
  /\ slipped' = (slipped \/ Slips)
  /\ UNCHANGED <<first, written, readerVars, open, filling, emptied, opens>>

Next == Write \/ Empty \/ Poll \/ Deliver \/ Open \/ Close \/ Fill \/ ScrollUp \/ ReadPage

Spec == Init /\ [][Next]_vars

-----------------------------------------------------------------------------
TypeOK ==
  /\ 0 <= first /\ first <= written /\ written <= MaxLines
  /\ position \in 0..MaxLines /\ newLines \in 0..MaxLines
  /\ cursor \in 0..MaxLines + PageSize \cup {None} /\ skip \in Nat \cup {None}
  /\ {open, more, filling, slipped, emptied} \subseteq BOOLEAN

\* As long as no page slipped and the file was not emptied under it, the console shows a
\* stretch of the log: every entry from the first one shown to the last one the thread
\* has read, each once and in order; and when there are no more pages, all of them.
LogShownOnce ==
  LET shown == view \o pending
      last == first + position
  IN open /\ ~emptied =>
       /\ IsSuffix(Entries(last - newLines, last), shown)
       /\ ~slipped => /\ shown = <<>> \/ shown = Entries(Head(shown) - 1, last)
                      /\ ~more => shown = Entries(first, last)
=============================================================================
