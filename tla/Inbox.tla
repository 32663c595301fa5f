-------------------------------- MODULE Inbox --------------------------------
(***************************************************************************)
(* The inbox of common/inbox.h as CBlockPipeline::post uses it: a lock-free *)
(* stack of events that one thread, the owner, takes whole, reverses and   *)
(* handles.  A step is one atomic operation on Head_ or Owner_ together    *)
(* with what the thread does on its own before the next one.  An event that *)
(* has been handled may be posted again at once: a worker returns the      *)
(* event it was given.                                                     *)
(***************************************************************************)
EXTENDS Integers, Sequences

CONSTANTS
  Threads, Nodes, Null,
  MaxPosts             \* bound: how many times an event is posted

ASSUME InboxAssumption == Null \notin Nodes /\ MaxPosts \in Nat

VARIABLES
  head,      \* Head_
  next,      \* the Next member of every event
  owner,     \* Owner_
  pc,        \* where a thread is in post()
  node,      \* the event it posts
  seen,      \* push: the value of Head_ it expects
  list,      \* take and post: the list it walks
  result,    \* take: the reversed list; post: the saved Next
  pushed,    \* history: the events in the order of their successful push
  taken,     \* history: how many of them have been taken
  handled    \* history: the events in the order they were handled

vars == <<head, next, owner, pc, node, seen, list, result, pushed, taken, handled>>

Locations == {"idle", "load", "cas", "acquire", "take", "reverse", "handle", "advance",
              "release", "recheck", "again"}

Init ==
  /\ head = Null /\ next = [n \in Nodes |-> Null] /\ owner = 0
  /\ pc = [t \in Threads |-> "idle"]
  /\ node = [t \in Threads |-> Null] /\ seen = [t \in Threads |-> Null]
  /\ list = [t \in Threads |-> Null] /\ result = [t \in Threads |-> Null]
  /\ pushed = <<>> /\ taken = 0 /\ handled = <<>>

\* An event belongs to the thread that posts it until it is pushed, then to the inbox
\* until it is handled.
Posting == {t \in Threads : pc[t] \in {"load", "cas"}}
InFlight == {pushed[i] : i \in Len(handled) + 1 .. Len(pushed)}
Unused == Nodes \ (InFlight \cup {node[t] : t \in Posting})

-----------------------------------------------------------------------------

\* post(event)
Post(t, n) ==
  /\ pc[t] = "idle" /\ n \in Unused
  /\ Len(pushed) < MaxPosts
  /\ pc' = [pc EXCEPT ![t] = "load"]
  /\ node' = [node EXCEPT ![t] = n]
  /\ UNCHANGED <<head, next, owner, seen, list, result, pushed, taken, handled>>

\* push(): the load of Head_, and node->Next = head
PushLoad(t) ==
  /\ pc[t] = "load"
  /\ seen' = [seen EXCEPT ![t] = head]
  /\ next' = [next EXCEPT ![node[t]] = head]
  /\ pc' = [pc EXCEPT ![t] = "cas"]
  /\ UNCHANGED <<head, owner, node, list, result, pushed, taken, handled>>

\* Mutant: a failed exchange does not link the event again.
PushStale(t) ==
  /\ pc[t] = "cas"
  /\ IF head = seen[t]
       THEN /\ head' = node[t] /\ pushed' = Append(pushed, node[t])
            /\ pc' = [pc EXCEPT ![t] = "acquire"]
            /\ UNCHANGED <<seen, next>>
       ELSE /\ seen' = [seen EXCEPT ![t] = head]
            /\ UNCHANGED <<head, pushed, pc, next>>
  /\ UNCHANGED <<owner, node, list, result, taken, handled>>

\* push(): the exchange; when Head_ has moved, its new value is the next to expect.
Push(t) ==
  /\ pc[t] = "cas"
  /\ IF head = seen[t]
       THEN /\ head' = node[t] /\ pushed' = Append(pushed, node[t])
            /\ pc' = [pc EXCEPT ![t] = "acquire"]
            /\ UNCHANGED <<seen, next>>
       ELSE /\ seen' = [seen EXCEPT ![t] = head]
            /\ next' = [next EXCEPT ![node[t]] = head]
            /\ UNCHANGED <<head, pushed, pc>>
  /\ UNCHANGED <<owner, node, list, result, taken, handled>>

\* tryAcquire(), after a push and at the end of release()
TryAcquire(t) ==
  /\ pc[t] \in {"acquire", "again"}
  /\ IF owner = 0
       THEN owner' = 1 /\ pc' = [pc EXCEPT ![t] = "take"]
       ELSE pc' = [pc EXCEPT ![t] = "idle"] /\ UNCHANGED owner
  /\ UNCHANGED <<head, next, node, seen, list, result, pushed, taken, handled>>

\* take(): the exchange that empties the list
Take(t) ==
  /\ pc[t] = "take"
  /\ list' = [list EXCEPT ![t] = head] /\ result' = [result EXCEPT ![t] = Null]
  /\ head' = Null /\ taken' = Len(pushed)
  /\ pc' = [pc EXCEPT ![t] = "reverse"]
  /\ UNCHANGED <<next, owner, node, seen, pushed, handled>>

\* take(): one turn of the loop that puts the list back in push order, or its end
Reverse(t) ==
  /\ pc[t] = "reverse"
  /\ IF list[t] # Null
       THEN /\ next' = [next EXCEPT ![list[t]] = result[t]]
            /\ result' = [result EXCEPT ![t] = list[t]]
            /\ list' = [list EXCEPT ![t] = next[list[t]]]
            /\ UNCHANGED pc
       ELSE /\ list' = [list EXCEPT ![t] = result[t]]
            /\ pc' = [pc EXCEPT ![t] = "handle"]
            /\ UNCHANGED <<next, result>>
  /\ UNCHANGED <<head, owner, node, seen, pushed, taken, handled>>

\* post(): Next is saved, then the event is handled and may be posted again.  At the
\* end of the list schedule() runs.
Handle(t) ==
  /\ pc[t] = "handle"
  /\ IF list[t] # Null
       THEN /\ result' = [result EXCEPT ![t] = next[list[t]]]
            /\ handled' = Append(handled, list[t])
            /\ pc' = [pc EXCEPT ![t] = "advance"]
       ELSE /\ pc' = [pc EXCEPT ![t] = "release"]
            /\ UNCHANGED <<result, handled>>
  /\ UNCHANGED <<head, next, owner, node, seen, list, pushed, taken>>

Advance(t) ==
  /\ pc[t] = "advance"
  /\ list' = [list EXCEPT ![t] = result[t]]
  /\ pc' = [pc EXCEPT ![t] = "handle"]
  /\ UNCHANGED <<head, next, owner, node, seen, result, pushed, taken, handled>>

\* release(): the store, then the load of Head_
Release(t) ==
  /\ pc[t] = "release"
  /\ owner' = 0
  /\ pc' = [pc EXCEPT ![t] = "recheck"]
  /\ UNCHANGED <<head, next, node, seen, list, result, pushed, taken, handled>>

\* Mutant: Head_ is not looked at after the release.
RecheckNot(t) ==
  /\ pc[t] = "recheck"
  /\ pc' = [pc EXCEPT ![t] = "idle"]
  /\ UNCHANGED <<head, next, owner, node, seen, list, result, pushed, taken, handled>>

Recheck(t) ==
  /\ pc[t] = "recheck"
  /\ pc' = [pc EXCEPT ![t] = IF head = Null THEN "idle" ELSE "again"]
  /\ UNCHANGED <<head, next, owner, node, seen, list, result, pushed, taken, handled>>

Step(t) ==
  \/ PushLoad(t) \/ Push(t) \/ TryAcquire(t) \/ Take(t) \/ Reverse(t)
  \/ Handle(t) \/ Advance(t) \/ Release(t) \/ Recheck(t)

Next == \E t \in Threads : Step(t) \/ \E n \in Nodes : Post(t, n)

Spec == Init /\ [][Next]_vars

\* A thread that has entered post() runs until it leaves it.
FairSpec == Spec /\ \A t \in Threads : WF_vars(Step(t))

-----------------------------------------------------------------------------
(***************************************************************************)
(* Properties                                                              *)
(***************************************************************************)

TypeOK ==
  /\ head \in Nodes \cup {Null} /\ next \in [Nodes -> Nodes \cup {Null}]
  /\ owner \in {0, 1}
  /\ pc \in [Threads -> Locations]
  /\ node \in [Threads -> Nodes \cup {Null}] /\ seen \in [Threads -> Nodes \cup {Null}]
  /\ list \in [Threads -> Nodes \cup {Null}] /\ result \in [Threads -> Nodes \cup {Null}]
  /\ pushed \in Seq(Nodes) /\ handled \in Seq(Nodes) /\ taken \in Nat

Owners == {t \in Threads : pc[t] \in {"take", "reverse", "handle", "advance", "release"}}

\* Exclusive ownership: one thread at a time runs the combiner's state machine, across
\* every handover of the role.
OneOwner == \A t, u \in Owners : t = u

\* "FIFO publication": the events are handled in the order their pushes took effect,
\* each exactly as often as it was pushed, although the list is a stack, is taken while
\* others push, and its events are posted again while the owner still walks it.
Fifo ==
  /\ Len(handled) <= Len(pushed)
  /\ \A i \in 1..Len(handled) : handled[i] = pushed[i]

\* "No work is lost": while the list holds an event, some thread has the role or is
\* still going to look for it.
NoWorkLost ==
  head # Null =>
    \E t \in Threads : pc[t] \in {"acquire", "take", "reverse", "handle", "advance",
                                  "release", "recheck", "again"}

Queue == INSTANCE EventQueue WITH
  queue <- SubSeq(pushed, taken + 1, Len(pushed)),
  batch <- SubSeq(pushed, Len(handled) + 1, taken),
  done <- handled

\* The inbox implements the queue of events that the pipeline relies on.
ImplementsQueue == Queue!Spec

=============================================================================
