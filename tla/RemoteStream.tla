----------------------------- MODULE RemoteStream -----------------------------
(***************************************************************************)
(* RemoteEventsSource._stream_remote_events: one reader follows the events *)
(* of a remote workflow through connections that break, and asks each new  *)
(* connection for the events from its cursor on.  Broker sequences number  *)
(* the recorded events from 0; some events are sent without being recorded *)
(* and carry no number: all they do here is to show that a connection works.*)
(***************************************************************************)
EXTENDS Integers, Sequences

CONSTANTS
  MaxLog,        \* bound: recorded events
  MaxInFlight,   \* bound: events on their way to the reader
  MaxUnnumbered, \* bound: events sent without a number
  MaxRetries     \* max_retry_count

VARIABLES
  log,        \* number of recorded events
  over,       \* the last recorded event ends the workflow
  position,   \* what the service sends next on the connection
  flight,     \* events sent on it and not read
  unnumbered, \* events sent without a number so far
  cursor,     \* _next_start_seq
  retries,    \* retry_count
  reader,     \* what the generator is doing
  seen        \* history: the numbers of the events it consumed

streamVars == <<log, over, position, flight, unnumbered, cursor, retries, reader, seen>>

StreamInit ==
  /\ log = 0 /\ over = FALSE
  /\ position = 0 /\ flight = <<>> /\ unnumbered = 0
  /\ cursor = 0 /\ retries = 0 /\ reader = "connecting" /\ seen = <<>>

-----------------------------------------------------------------------------
(* The service *)

Record ==
  /\ log < MaxLog /\ ~over
  /\ log' = log + 1
  /\ over' \in BOOLEAN
  /\ UNCHANGED <<position, flight, unnumbered, cursor, retries, reader, seen>>

Send ==
  /\ reader = "reading" /\ position < log /\ Len(flight) < MaxInFlight
  /\ flight' = Append(flight, position)
  /\ position' = position + 1
  /\ UNCHANGED <<log, over, unnumbered, cursor, retries, reader, seen>>

-----------------------------------------------------------------------------
(* The reader *)

Connect ==
  /\ reader = "connecting"
  /\ position' = cursor
  /\ reader' = "reading"
  /\ UNCHANGED <<log, over, flight, unnumbered, cursor, retries, seen>>

\* Mutant: the cursor stays on the event that was read.
CursorBehind(e) == e

CursorAfter(e) == e + 1

\* One payload.  The cursor moves before the event is translated, so an event that
\* cannot be is left out and not asked for again.  The end of the workflow ends it.
Read ==
  /\ reader = "reading" /\ flight # <<>>
  /\ LET e == Head(flight)
     IN  /\ cursor' = CursorAfter(e)
         /\ seen' = Append(seen, e)
         /\ reader' = IF over /\ e = log - 1 THEN "done" ELSE "reading"
  /\ flight' = Tail(flight)
  /\ retries' = 0
  /\ UNCHANGED <<log, over, position, unnumbered>>

ReadUnnumbered ==
  /\ reader = "reading" /\ unnumbered < MaxUnnumbered
  /\ unnumbered' = unnumbered + 1
  /\ retries' = 0
  /\ UNCHANGED <<log, over, position, flight, cursor, reader, seen>>

\* Mutant: failures are counted and never acted upon.
KeepsRetrying == TRUE

MayRetry == retries < MaxRetries

\* "peer closed connection" or "incomplete chunked read", also while connecting:
\* what was on its way is lost; the reader sleeps and connects again, or gives up.
Disconnect ==
  /\ reader \in {"connecting", "reading"}
  /\ retries' = IF retries < MaxRetries THEN retries + 1 ELSE retries
  /\ reader' = IF MayRetry THEN "connecting" ELSE "done"
  /\ flight' = <<>>
  /\ UNCHANGED <<log, over, position, unnumbered, cursor, seen>>

\* The service closes the stream, another error is raised, or the task that reads
\* is cancelled.
Stop ==
  /\ reader \in {"connecting", "reading"}
  /\ reader' \in {"done", "failed"}
  /\ flight' = <<>>
  /\ UNCHANGED <<log, over, position, unnumbered, cursor, retries, seen>>

-----------------------------------------------------------------------------
StreamNext == Record \/ Send \/ Connect \/ Read \/ ReadUnnumbered \/ Disconnect \/ Stop

\* The service sends what it has, and the reader reads it and connects again.
StreamFairness == WF_streamVars(Send) /\ WF_streamVars(Read) /\ WF_streamVars(Connect)

StreamSpec == StreamInit /\ [][StreamNext]_streamVars /\ StreamFairness

-----------------------------------------------------------------------------
(* Properties *)

\* Type invariant of the service, the connection and the reader.
StreamTypeOK ==
  /\ log \in 0..MaxLog /\ over \in BOOLEAN
  /\ position \in 0..log /\ unnumbered \in 0..MaxUnnumbered
  /\ flight \in Seq(0..(MaxLog - 1))
  /\ cursor \in 0..log /\ retries \in 0..MaxRetries
  /\ reader \in {"connecting", "reading", "done", "failed"}
  /\ seen \in Seq(0..(MaxLog - 1))

Feed == INSTANCE EventFeed

\* Through every disconnect and retry the translator gets the recorded events in
\* order, none twice and none left out.
ReadsTheFeed == Feed!Spec

\* Something recorded is not read yet, and the stream not given up or closed: it is read.
Behind == Len(seen) < log /\ reader \notin {"done", "failed"}
===============================================================================
