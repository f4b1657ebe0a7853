------------------------------- MODULE EventFeed -------------------------------
(***************************************************************************)
(* What a reader of a workflow's events is promised: it gets the recorded  *)
(* events in their order, none twice and none left out, whatever happens   *)
(* to its connections.  The event with the number i is the i-th recorded.  *)
(***************************************************************************)
EXTENDS Naturals, Sequences

VARIABLES
  log,    \* number of recorded events
  seen    \* the numbers of the events the reader has got

feedVars == <<log, seen>>

Init == log = 0 /\ seen = <<>>

Record == log' = log + 1 /\ UNCHANGED seen

Take ==
  /\ Len(seen) < log
  /\ seen' = Append(seen, Len(seen))
  /\ UNCHANGED log

Next == Record \/ Take

Spec == Init /\ [][Next]_feedVars
===============================================================================
