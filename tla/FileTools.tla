------------------------------- MODULE FileTools --------------------------------
(***************************************************************************)
(* The file tools on one file: read_file page by page, write_file and      *)
(* search_replace (core/tools/builtins/), whose calls may run at the same  *)
(* time and be cancelled where they wait for the disk.  A text is a        *)
(* sequence of lines; a search block replaces one line by another.         *)
(***************************************************************************)
EXTENDS Integers, Sequences, SequencesExt

CONSTANTS
  Call,     \* calls of write_file and search_replace
  MaxBytes, \* max_read_bytes
  MaxLines  \* bound: lines of the file

\* Lines, with their sizes.  "split" holds a character that ends a line for splitlines but
\* not for readline; "wide" cannot be encoded in the file's own encoding.
Line == {"a", "b", "split", "wide", "huge"}
Size(l) == CASE l = "b" -> 2 [] l = "huge" -> MaxBytes + 1 [] OTHER -> 1
Parts(l) == IF l = "split" THEN 2 ELSE 1
Texts == {<<"a">>, <<"a", "a">>, <<"b", "a">>, <<"a", "split">>, <<"a", "huge">>}
Absent == <<"absent">>

\* What a call is asked to do: new text, or blocks to apply in order.
WriteJobs == {[tool |-> "write", over |-> o, text |-> t] : o \in BOOLEAN, t \in {<<"b">>, <<"a", "b">>}}
EditJobs == {[tool |-> "edit", blocks |-> b] :
               b \in {<<<<"a", "b">>>>, <<<<"a", "b">>, <<"b", "a">>>>, <<<<"a", "b">>, <<"a", "split">>>>,
                      <<<<"a", "wide">>>>, <<<<"b", "b">>>>}}
Idle == [tool |-> "none"]

VARIABLES
  disk,     \* the file
  job,      \* what each call does
  at,       \* "idle", "read", "open", "write", "done", "failed" or "cut"
  text,     \* what a call is going to write
  offset,   \* read_file: the offset of the next page
  got,      \* read_file: lines received so far
  state,    \* read_file: "no", "reading", "all" (a page was not truncated)
  expected, \* history: what the file holds if the calls ran one after the other
  overlapped, \* history: a call emptied the file between another's reading (or its check) and
            \* its writing, or one was cut or could not encode its text
  moved     \* history: the file was written to while it was read

fileToolVars == <<disk, job, at, text, offset, got, state, expected, overlapped, moved>>

Init ==
  /\ disk \in Texts \cup {Absent} /\ expected = disk
  /\ job = [c \in Call |-> Idle] /\ at = [c \in Call |-> "idle"] /\ text = [c \in Call |-> <<>>]
  /\ offset = 0 /\ got = <<>> /\ state = "no" /\ overlapped = FALSE /\ moved = FALSE

-----------------------------------------------------------------------------
(* search_replace *)

Failure == <<"failure">>
IndexOf(t, l) == CHOOSE i \in DOMAIN t : t[i] = l /\ \A j \in 1..(i - 1) : t[j] # l

\* Mutant: a block that does not match is passed over.
AppliedLoose(t, blocks) ==
  FoldLeft(LAMBDA acc, b : IF b[1] \in Range(acc) THEN ReplaceAt(acc, IndexOf(acc, b[1]), b[2]) ELSE acc, t, blocks)

\* _apply_blocks: each block in turn replaces the first occurrence of its text, in what the
\* blocks before it left; one that is not found makes the call fail.
Applied(t, blocks) ==
  FoldLeft(LAMBDA acc, b : IF acc # Failure /\ b[1] \in Range(acc)
                           THEN ReplaceAt(acc, IndexOf(acc, b[1]), b[2]) ELSE Failure, t, blocks)

\* run and _prepare_and_validate_args, to the first await.
StartEdit(c) ==
  /\ at[c] = "idle"
  /\ \E j \in EditJobs : job' = [job EXCEPT ![c] = j]
  /\ at' = [at EXCEPT ![c] = IF disk = Absent THEN "failed" ELSE "read"]
  /\ UNCHANGED <<disk, text, offset, got, state, expected, overlapped, moved>>

\* The file is read and the blocks are applied to it; nothing is written when they fail or
\* change nothing.
ReadForEdit(c) ==
  LET new == Applied(disk, job[c].blocks) IN
  /\ at[c] = "read"
  /\ text' = [text EXCEPT ![c] = new]
  /\ at' = [at EXCEPT ![c] = IF disk = Absent \/ new = Failure THEN "failed"
                             ELSE IF new = disk THEN "done" ELSE "open"]
  /\ UNCHANGED <<disk, job, offset, got, state, expected, overlapped, moved>>

-----------------------------------------------------------------------------
(* write_file *)

\* _prepare_and_validate_path
StartWrite(c) ==
  /\ at[c] = "idle"
  /\ \E j \in WriteJobs :
       /\ job' = [job EXCEPT ![c] = j]
       /\ text' = [text EXCEPT ![c] = j.text]
       /\ at' = [at EXCEPT ![c] = IF disk # Absent /\ ~j.over THEN "failed" ELSE "open"]
  /\ UNCHANGED <<disk, offset, got, state, expected, overlapped, moved>>

-----------------------------------------------------------------------------
(* Writing, for both: the file is opened, which empties it, and written when it is closed *)

Open(c) ==
  /\ at[c] = "open"
  /\ disk' = <<>> /\ moved' = TRUE
  /\ at' = [at EXCEPT ![c] = "write"]
  /\ overlapped' = (overlapped \/ \E d \in Call \ {c} : at[d] \in {"open", "write"})
  /\ UNCHANGED <<job, text, offset, got, state, expected>>

\* The text lies over what another call has written meanwhile.
Written(c) == text[c] \o SubSeq(disk, Len(text[c]) + 1, Len(disk))

\* A line that cannot be encoded is found when the file is already empty.
Encodable(c) == job[c].tool = "write" \/ "wide" \notin Range(text[c])

Write(c) ==
  /\ at[c] = "write"
  /\ IF Encodable(c)
     THEN /\ disk' = Written(c) /\ at' = [at EXCEPT ![c] = "done"]
          /\ expected' = IF job[c].tool = "edit" THEN Applied(expected, job[c].blocks) ELSE job[c].text
          /\ UNCHANGED overlapped
     ELSE /\ at' = [at EXCEPT ![c] = "failed"] /\ overlapped' = TRUE
          /\ UNCHANGED <<disk, expected>>
  /\ moved' = TRUE
  /\ UNCHANGED <<job, text, offset, got, state>>

\* An interrupt: what a worker thread has begun is done.
Cut(c) ==
  /\ at[c] \in {"read", "open", "write"}
  /\ disk' \in {disk} \cup CASE at[c] = "read" -> {} [] at[c] = "open" -> {<<>>} [] OTHER -> {Written(c)}
  /\ at' = [at EXCEPT ![c] = "cut"] /\ overlapped' = TRUE /\ moved' = TRUE
  /\ UNCHANGED <<job, text, offset, got, state, expected>>

-----------------------------------------------------------------------------
(* read_file *)

SizeOf(t) == FoldLeft(LAMBDA n, l : n + Size(l), 0, t)
PartsOf(t) == FoldLeft(LAMBDA n, l : n + Parts(l), 0, t)

\* _read_file: lines from the offset, up to the limit and while they fit.
Page(t, from, limit) ==
  LET rest == SubSeq(t, from + 1, Len(t))
      fits == {n \in 0..Len(rest) : n <= limit /\ SizeOf(SubSeq(rest, 1, n)) <= MaxBytes}
  IN SubSeq(rest, 1, CHOOSE n \in fits : \A m \in fits : m <= n)

\* Mutant: a page that was cut short is not marked.
CutShortNever(t, from, page) == FALSE

\* was_truncated: the loop was left before the end of the file, for either limit.
CutShort(t, from, page) == from + Len(page) < Len(t)

\* One page; the next one starts after the lines this one reports (lines_read), which are
\* those of splitlines.
ReadPage(limit) ==
  LET page == Page(disk, offset, limit) IN
  /\ disk # Absent /\ state # "all" /\ offset <= MaxLines
  /\ got' = got \o page
  /\ offset' = offset + PartsOf(page)
  /\ state' = IF CutShort(disk, offset, page) THEN "reading" ELSE "all"
  /\ moved' = IF state = "no" THEN FALSE ELSE moved
  /\ UNCHANGED <<disk, job, at, text, expected, overlapped>>

Next ==
  \/ \E c \in Call : StartEdit(c) \/ ReadForEdit(c) \/ StartWrite(c) \/ Open(c) \/ Write(c) \/ Cut(c)
  \/ \E limit \in {1, MaxLines} : ReadPage(limit)

-----------------------------------------------------------------------------
(* Properties *)

TypeOK ==
  /\ disk = Absent \/ disk \in Seq(Line)
  /\ \A c \in Call : at[c] \in {"idle", "read", "open", "write", "done", "failed", "cut"}
  /\ got \in Seq(Line) /\ offset \in Nat /\ state \in {"no", "reading", "all"}

\* Calls that ran one after the other, or at once as long as none emptied the file between the
\* reading and the writing of another, leave what the last one that succeeded was to write:
\* a call that failed has changed nothing, one that succeeded all it was asked for.
EditsExact ==
  ~overlapped /\ (\A c \in Call : at[c] \notin {"read", "open", "write"}) => disk = expected

\* A call that goes on to write, or that says its blocks are applied, has applied each: its
\* replacement is there unless a later block takes it.
BlocksExact ==
  \A c \in Call :
    job[c].tool = "edit" /\ at[c] \in {"open", "write", "done"} =>
      LET b == job[c].blocks IN
      \A k \in DOMAIN b : (\A m \in (k + 1)..Len(b) : b[m][1] # b[k][2]) => b[k][2] \in Range(text[c])

\* Reading page by page to the end gives the file, each line once, if no line of it counts
\* as two and it stayed as it was.
PagesComplete ==
  state = "all" /\ ~moved /\ "split" \notin Range(disk) => got = disk

FilesRight == EditsExact /\ BlocksExact /\ PagesComplete

FileToolsSpec == Init /\ [][Next]_fileToolVars
=============================================================================
