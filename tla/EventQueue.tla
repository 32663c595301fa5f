----------------------------- MODULE EventQueue -----------------------------
(***************************************************************************)
(* What CInbox promises its owner: events are handled one at a time, in    *)
(* the order they were pushed, and a batch is everything that was pushed   *)
(* since the last one.                                                     *)
(***************************************************************************)
EXTENDS Sequences

CONSTANT Nodes

VARIABLES
  queue,   \* pushed and not taken
  batch,   \* taken and not handled
  done     \* handled

vars == <<queue, batch, done>>

Init == queue = <<>> /\ batch = <<>> /\ done = <<>>

Put(n) == queue' = Append(queue, n) /\ UNCHANGED <<batch, done>>

TakeAll ==
  /\ batch = <<>>
  /\ batch' = queue /\ queue' = <<>>
  /\ UNCHANGED done

HandleNext ==
  /\ batch # <<>>
  /\ done' = Append(done, Head(batch)) /\ batch' = Tail(batch)
  /\ UNCHANGED queue

Next == (\E n \in Nodes : Put(n)) \/ TakeAll \/ HandleNext

Spec == Init /\ [][Next]_vars
=============================================================================
