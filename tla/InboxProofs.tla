---------------------------- MODULE InboxProofs ----------------------------
(***************************************************************************)
(* The inductive invariant of Inbox and the proof of its safety.  Three    *)
(* counters cut the history of pushes into what has been handled, what the *)
(* owner walks and what is on the stack; the invariant says how the        *)
(* pointers spell out the last two parts.                                  *)
(***************************************************************************)
EXTENDS Inbox, SequenceTheorems, TLAPS

h == Len(handled)

\* The event below, above position i in the part of the history from lo + 1 to hi
Below(i, lo) == IF i = lo + 1 THEN Null ELSE pushed[i - 1]
Above(i, hi) == IF i = hi THEN Null ELSE pushed[i + 1]

\* The event at position i, if the part is not empty
Top(lo, i) == IF i = lo THEN Null ELSE pushed[i]

Counters ==
  /\ h <= taken /\ taken <= Len(pushed)
  /\ \A i \in 1..h : handled[i] = pushed[i]

Role ==
  /\ OneOwner
  /\ owner = 1 => Owners # {}
  /\ owner = 0 => Owners = {}

\* An event in flight is there once; one that is being posted is in no other place.
Distinct ==
  /\ \A i, j \in h + 1 .. Len(pushed) : pushed[i] = pushed[j] => i = j
  /\ \A t \in Posting : node[t] \in Nodes /\ \A i \in h + 1 .. Len(pushed) : pushed[i] # node[t]
  /\ \A t, u \in Posting : node[t] = node[u] => t = u

\* The stack, from the top down
Stack ==
  /\ head = Top(taken, Len(pushed))
  /\ \A i \in taken + 1 .. Len(pushed) : next[pushed[i]] = Below(i, taken)

Linked == \A t \in Posting : pc[t] = "cas" => next[node[t]] = seen[t]

\* What the owner walks, bottom up, once it has been reversed
Walked == \A i \in h + 1 .. taken : next[pushed[i]] = Above(i, taken)

\* While it is being reversed: turned above position k, not yet below
Turned(t, k) ==
  /\ list[t] = Top(h, k) /\ result[t] = Above(k, taken)
  /\ \A i \in h + 1 .. k : next[pushed[i]] = Below(i, h)
  /\ \A i \in k + 1 .. taken : next[pushed[i]] = Above(i, taken)

Walk ==
  /\ owner = 0 => taken = h
  /\ \A t \in Owners :
       /\ pc[t] \in {"take", "release"} => taken = h
       /\ pc[t] = "reverse" => \E k \in h .. taken : Turned(t, k)
       /\ pc[t] = "handle" => list[t] = Above(h, taken) /\ Walked
       /\ pc[t] = "advance" => result[t] = Above(h, taken) /\ Walked

IInv ==
  TypeOK /\ Counters /\ Role /\ Distinct /\ Stack /\ Linked /\ Walk /\ NoWorkLost

\* An empty inbox satisfies the invariant.
LEMMA InitInv == Init => IInv
  BY InboxAssumption DEF Init, IInv, TypeOK, Counters, Role, OneOwner, Owners, Distinct, Posting, Stack,
       Linked, Walk, NoWorkLost, h, Top, Locations

\* The counters and the positions they cut the history at are numbers.
LEMMA Numbers ==
  TypeOK => h \in Nat /\ Len(pushed) \in Nat /\ taken \in Nat
  BY DEF TypeOK, h

\* A step that leaves what the owner walks alone, and hands the role only to a thread
\* that has nothing to walk, preserves Walk.
LEMMA WalkFrame ==
  ASSUME TypeOK, Counters, Walk,
         UNCHANGED <<taken, handled, list, result>>,
         \A i \in 1..taken : pushed'[i] = pushed[i],
         \A i \in h + 1 .. taken : next'[pushed[i]] = next[pushed[i]],
         owner' = 0 => taken = h,
         \A u \in Owners' : \/ u \in Owners /\ pc'[u] = pc[u]
                            \/ pc'[u] \in {"take", "release"} /\ taken = h
  PROVE  Walk'
<1>1. h' = h /\ h \in Nat /\ taken \in Nat /\ h <= taken
  BY DEF h, TypeOK, Counters
<1>2. \A i \in h .. taken : Above(i, taken)' = Above(i, taken)
  BY <1>1 DEF Above
<1>3. \A i \in h + 1 .. taken : Below(i, h)' = Below(i, h)
  BY <1>1 DEF Below
<1>4. \A i \in h .. taken : Top(h, i)' = Top(h, i)
  BY <1>1 DEF Top
<1>5. Walked => Walked'
  BY <1>1, <1>2 DEF Walked
<1>6. ASSUME NEW u, NEW k \in h .. taken, Turned(u, k)
      PROVE  Turned(u, k)'
  <2>1. \A i \in h + 1 .. k : i \in h + 1 .. taken
    BY <1>1
  <2>2. \A i \in k + 1 .. taken : i \in h + 1 .. taken /\ i \in h .. taken
    BY <1>1
  <2> QED
    BY <1>1, <1>2, <1>3, <1>4, <1>6, <2>1, <2>2 DEF Turned
<1>7. ASSUME NEW u \in Owners'
      PROVE  /\ pc'[u] \in {"take", "release"} => taken = h
             /\ pc'[u] = "reverse" => \E k \in h .. taken : Turned(u, k)'
             /\ pc'[u] = "handle" => list'[u] = Above(h, taken)' /\ Walked'
             /\ pc'[u] = "advance" => result'[u] = Above(h, taken)' /\ Walked'
  BY <1>1, <1>2, <1>5, <1>6, <1>7 DEF Walk
<1> QED
  BY <1>1, <1>7 DEF Walk

\* Entering post() with an event nobody else holds keeps the invariant.
LEMMA PostInv ==
  ASSUME IInv, NEW t \in Threads, NEW n \in Nodes, Post(t, n)
  PROVE  IInv'
<1> USE DEF IInv
<1>1. TypeOK'
  BY DEF Post, TypeOK, Locations
<1>2. UNCHANGED h
  BY DEF Post, h
<1>3. Owners' = Owners
  BY DEF Post, Owners, TypeOK
<1>4. Counters'
  BY <1>2 DEF Post, Counters
<1>5. Role'
  BY <1>3 DEF Post, Role, OneOwner
<1>6. Distinct'
  BY <1>2 DEF Post, Distinct, Posting, Unused, InFlight, TypeOK, h
<1>7. Stack'
  BY DEF Post, Stack, Top, Below
<1>8. Linked'
  BY DEF Post, Linked, Posting, TypeOK
<1>9. Walk'
  <2>1. owner' = 0 => taken = h
    BY DEF Post, Walk
  <2> QED
    BY <1>3, <2>1, WalkFrame DEF Post, Owners, TypeOK
<1>10. NoWorkLost'
  BY DEF Post, NoWorkLost, TypeOK
<1> QED
  BY <1>1, <1>4, <1>5, <1>6, <1>7, <1>8, <1>9, <1>10

\* The load of Head_ in push() keeps the invariant.
LEMMA PushLoadInv ==
  ASSUME IInv, NEW t \in Threads, PushLoad(t)
  PROVE  IInv'
<1> USE DEF IInv
<1>1. t \in Posting /\ node[t] \in Nodes /\ \A i \in h + 1 .. Len(pushed) : pushed[i] # node[t]
  BY DEF PushLoad, Posting, Distinct
<1>2. TypeOK'
  BY <1>1 DEF PushLoad, TypeOK, Locations
<1>3. h' = h /\ h \in Nat /\ h <= taken /\ taken <= Len(pushed)
  BY DEF PushLoad, h, TypeOK, Counters
<1>4. Owners' = Owners /\ Posting' = Posting
  BY DEF PushLoad, Owners, Posting, TypeOK
<1>5. Counters'
  BY <1>3 DEF PushLoad, Counters
<1>6. Role'
  BY <1>4 DEF PushLoad, Role, OneOwner
<1>7. Distinct'
  BY <1>3, <1>4 DEF PushLoad, Distinct
<1>8. \A i \in h + 1 .. Len(pushed) : next'[pushed[i]] = next[pushed[i]]
  BY <1>1, <1>3 DEF PushLoad, TypeOK
<1>9. Stack'
  BY <1>3, <1>8 DEF PushLoad, Stack, Top, Below, TypeOK
<1>10. Linked'
  BY <1>1, <1>4 DEF PushLoad, Linked, Posting, Distinct, TypeOK
<1>11. Walk'
  <2>1. owner' = 0 => taken = h
    BY DEF PushLoad, Walk
  <2>2. \A i \in h + 1 .. taken : next'[pushed[i]] = next[pushed[i]]
    BY <1>3, <1>8 DEF TypeOK
  <2> QED
    BY <1>4, <2>1, <2>2, WalkFrame DEF PushLoad, Owners, TypeOK
<1>12. NoWorkLost'
  BY DEF PushLoad, NoWorkLost, TypeOK
<1> QED
  BY <1>2, <1>5, <1>6, <1>7, <1>9, <1>10, <1>11, <1>12

\* The exchange of push() keeps the invariant, whether it succeeds or links again.
LEMMA PushInv ==
  ASSUME IInv, NEW t \in Threads, Push(t)
  PROVE  IInv'
<1> USE DEF IInv
<1>1. t \in Posting /\ node[t] \in Nodes /\ \A i \in h + 1 .. Len(pushed) : pushed[i] # node[t]
  BY DEF Push, Posting, Distinct
<1>2. h' = h /\ h \in Nat /\ h <= taken /\ taken <= Len(pushed) /\ Len(pushed) \in Nat /\ taken \in Nat
  BY DEF Push, h, TypeOK, Counters
<1>3. Owners' = Owners
  BY DEF Push, Owners, TypeOK
<1>4. CASE head = seen[t]
  <2>1. /\ head' = node[t] /\ pushed' = Append(pushed, node[t]) /\ pc' = [pc EXCEPT ![t] = "acquire"]
        /\ UNCHANGED <<next, owner, node, seen, list, result, taken, handled>>
    BY <1>4 DEF Push
  <2>2. /\ Len(pushed') = Len(pushed) + 1
        /\ \A i \in 1..Len(pushed) : pushed'[i] = pushed[i]
        /\ pushed'[Len(pushed) + 1] = node[t]
        /\ pushed' \in Seq(Nodes)
    BY <1>1, <2>1 DEF TypeOK
  <2>3. TypeOK'
    BY <1>1, <2>1, <2>2 DEF TypeOK, Locations
  <2>4. Counters'
    BY <1>2, <2>1, <2>2 DEF Counters
  <2>5. Role'
    BY <1>3, <2>1 DEF Role, OneOwner
  <2>6. Posting' = Posting \ {t}
    BY <2>1 DEF Posting, TypeOK
  <2>7. Distinct'
    <3>1. \A i \in h + 1 .. Len(pushed) + 1 :
            \/ i \in h + 1 .. Len(pushed) /\ pushed'[i] = pushed[i]
            \/ i = Len(pushed) + 1 /\ pushed'[i] = node[t]
      BY <1>2, <2>2
    <3> QED
      BY <1>1, <1>2, <2>1, <2>2, <2>6, <3>1 DEF Distinct
  <2>8. Stack'
    <3>1. next[node[t]] = head
      BY <1>1, <1>4 DEF Linked, Push
    <3>2. head' = Top(taken, Len(pushed))'
      BY <1>2, <2>1, <2>2 DEF Top
    <3>3. ASSUME NEW i \in taken + 1 .. Len(pushed) + 1
          PROVE  next'[pushed'[i]] = Below(i, taken)'
      <4>1. CASE i = Len(pushed) + 1
        BY <1>2, <2>1, <2>2, <3>1, <4>1 DEF Stack, Below, Top
      <4>2. CASE i \in taken + 1 .. Len(pushed)
        BY <1>2, <2>1, <2>2, <4>2 DEF Stack, Below
      <4> QED
        BY <1>2, <3>3, <4>1, <4>2
    <3> QED
      BY <2>1, <2>2, <3>2, <3>3, ZenonT(30) DEF Stack
  <2>9. Linked'
    BY <2>1, <2>6 DEF Linked, Posting, TypeOK
  <2>10. Walk'
    <3>1. owner' = 0 => taken = h
      BY <2>1 DEF Walk
    <3>2. \A i \in 1..taken : pushed'[i] = pushed[i]
      BY <1>2, <2>2
    <3> QED
      BY <1>3, <2>1, <3>1, <3>2, WalkFrame, ZenonT(30) DEF Owners, TypeOK
  <2>11. NoWorkLost'
    BY <2>1 DEF NoWorkLost, TypeOK
  <2> QED
    BY <2>3, <2>4, <2>5, <2>7, <2>8, <2>9, <2>10, <2>11
<1>5. CASE head # seen[t]
  <2>1. /\ seen' = [seen EXCEPT ![t] = head] /\ next' = [next EXCEPT ![node[t]] = head]
        /\ UNCHANGED <<head, owner, pc, node, list, result, pushed, taken, handled>>
    BY <1>5 DEF Push
  <2>2. TypeOK'
    BY <1>1, <2>1 DEF TypeOK
  <2>3. Counters' /\ Role' /\ Distinct' /\ NoWorkLost'
    BY <1>2, <1>3, <2>1 DEF Counters, Role, OneOwner, Distinct, Posting, NoWorkLost
  <2>4. \A i \in h + 1 .. Len(pushed) : next'[pushed[i]] = next[pushed[i]]
    BY <1>1, <1>2, <2>1 DEF TypeOK
  <2>5. Stack'
    BY <1>2, <2>1, <2>4 DEF Stack, Top, Below
  <2>6. Linked'
    BY <1>1, <2>1 DEF Linked, Posting, Distinct, TypeOK
  <2>7. Walk'
    <3>1. owner' = 0 => taken = h
      BY <2>1 DEF Walk
    <3>2. \A i \in h + 1 .. taken : next'[pushed[i]] = next[pushed[i]]
      BY <1>2, <2>4
    <3> QED
      BY <1>3, <2>1, <3>1, <3>2, WalkFrame DEF Owners, TypeOK
  <2> QED
    BY <2>2, <2>3, <2>5, <2>6, <2>7
<1> QED
  BY <1>4, <1>5

\* tryAcquire() keeps the invariant: it gives the role to one thread at most.
LEMMA TryAcquireInv ==
  ASSUME IInv, NEW t \in Threads, TryAcquire(t)
  PROVE  IInv'
<1> USE DEF IInv
<1>1. TypeOK'
  BY DEF TryAcquire, TypeOK, Locations
<1>2. h' = h /\ Posting' = Posting
  BY DEF TryAcquire, h, Posting, TypeOK
<1>3. Owners' = IF owner = 0 THEN {t} ELSE Owners
  BY DEF TryAcquire, Owners, Role, TypeOK
<1>4. Counters' /\ Distinct'
  BY <1>2 DEF TryAcquire, Counters, Distinct
<1>5. Role'
  BY <1>3 DEF TryAcquire, Role, OneOwner, TypeOK
<1>6. Stack'
  BY DEF TryAcquire, Stack, Top, Below
<1>7. Linked'
  BY <1>2 DEF TryAcquire, Linked, Posting, TypeOK
<1>8. Walk'
  <2>1. owner' = 0 => taken = h
    BY DEF TryAcquire, Walk
  <2>2. ASSUME NEW u \in Owners'
        PROVE  \/ u \in Owners /\ pc'[u] = pc[u]
               \/ pc'[u] \in {"take", "release"} /\ taken = h
    BY <1>3 DEF TryAcquire, Walk, Owners, TypeOK
  <2> QED
    BY <2>1, <2>2, WalkFrame DEF TryAcquire
<1>9. NoWorkLost'
  BY <1>3 DEF TryAcquire, NoWorkLost, Role, Owners, TypeOK
<1> QED
  BY <1>1, <1>4, <1>5, <1>6, <1>7, <1>8, <1>9

\* The store of release() keeps the invariant: the owner has walked its whole list.
LEMMA ReleaseInv ==
  ASSUME IInv, NEW t \in Threads, Release(t)
  PROVE  IInv'
<1> USE DEF IInv
<1>1. TypeOK'
  BY DEF Release, TypeOK, Locations
<1>2. h' = h /\ Posting' = Posting
  BY DEF Release, h, Posting, TypeOK
<1>3. t \in Owners /\ Owners' = {}
  BY DEF Release, Owners, Role, OneOwner, TypeOK
<1>4. Counters' /\ Distinct'
  BY <1>2 DEF Release, Counters, Distinct
<1>5. Role'
  BY <1>3 DEF Release, Role, OneOwner
<1>6. Stack'
  BY DEF Release, Stack, Top, Below
<1>7. Linked'
  BY <1>2 DEF Release, Linked, Posting, TypeOK
<1>8. Walk'
  BY <1>2, <1>3 DEF Release, Walk
<1>9. NoWorkLost'
  BY DEF Release, NoWorkLost, TypeOK
<1> QED
  BY <1>1, <1>4, <1>5, <1>6, <1>7, <1>8, <1>9

\* The load of Head_ after the store keeps the invariant: what it finds is looked for.
LEMMA RecheckInv ==
  ASSUME IInv, NEW t \in Threads, Recheck(t)
  PROVE  IInv'
<1> USE DEF IInv
<1>1. TypeOK'
  BY DEF Recheck, TypeOK, Locations
<1>2. h' = h /\ Posting' = Posting /\ Owners' = Owners
  BY DEF Recheck, h, Posting, Owners, TypeOK
<1>3. Counters' /\ Distinct' /\ Role'
  BY <1>2 DEF Recheck, Counters, Distinct, Role, OneOwner
<1>4. Stack'
  BY DEF Recheck, Stack, Top, Below
<1>5. Linked'
  BY <1>2 DEF Recheck, Linked, Posting, TypeOK
<1>6. Walk'
  <2>1. owner' = 0 => taken = h
    BY DEF Recheck, Walk
  <2> QED
    BY <1>2, <2>1, WalkFrame DEF Recheck, Owners, TypeOK
<1>7. NoWorkLost'
  BY DEF Recheck, NoWorkLost, TypeOK
<1> QED
  BY <1>1, <1>3, <1>4, <1>5, <1>6, <1>7

\* The exchange turns the stack into what the owner is about to reverse.
LEMMA TakeInv ==
  ASSUME IInv, NEW t \in Threads, Take(t)
  PROVE  IInv'
<1> USE DEF IInv
<1>1. TypeOK'
  BY DEF Take, TypeOK, Locations
<1>2. /\ h' = h /\ h \in Nat /\ taken = h /\ Len(pushed) \in Nat
      /\ Posting' = Posting /\ Owners' = Owners /\ Owners = {t} /\ owner = 1
  BY DEF Take, h, Posting, Owners, Walk, Role, OneOwner, TypeOK
<1>3. Counters' /\ Distinct' /\ Role'
  BY <1>2 DEF Take, Counters, Distinct, Role, OneOwner
<1>4. Stack'
  BY <1>2 DEF Take, Stack, Top, Below
<1>5. Linked'
  BY <1>2 DEF Take, Linked, Posting, TypeOK
<1>6. Walk'
  <2>1. h <= Len(pushed)
    BY <1>2 DEF Counters
  <2>2. Turned(t, Len(pushed))'
    BY <1>2, <2>1 DEF Take, Turned, Stack, Top, Above, Below, TypeOK
  <2> QED
    BY <1>2, <2>1, <2>2 DEF Take, Walk, TypeOK
<1>7. NoWorkLost'
  BY DEF Take, NoWorkLost
<1> QED
  BY <1>1, <1>3, <1>4, <1>5, <1>6, <1>7

\* One turn of the reversal moves the boundary k down by one.
LEMMA ReverseInv ==
  ASSUME IInv, NEW t \in Threads, Reverse(t)
  PROVE  IInv'
<1> USE DEF IInv
<1>1. /\ h' = h /\ h \in Nat /\ taken \in Nat /\ Len(pushed) \in Nat
      /\ h <= taken /\ taken <= Len(pushed)
      /\ Posting' = Posting /\ Owners' = Owners /\ Owners = {t}
  BY DEF Reverse, h, Posting, Owners, Counters, Role, OneOwner, TypeOK
<1>2. PICK k \in h .. taken : Turned(t, k)
  BY <1>1 DEF Reverse, Walk
<1>3. \A i \in 1..Len(pushed) : pushed[i] \in Nodes
  BY DEF TypeOK
<1>4. k \in Int /\ h <= k /\ k <= taken
  BY <1>1, <1>2
<1>5. CASE list[t] # Null
  <2>1. /\ next' = [next EXCEPT ![list[t]] = result[t]]
        /\ result' = [result EXCEPT ![t] = list[t]]
        /\ list' = [list EXCEPT ![t] = next[list[t]]]
        /\ UNCHANGED <<head, owner, pc, node, seen, pushed, taken, handled>>
    BY <1>5 DEF Reverse
  <2>2. k > h /\ list[t] = pushed[k] /\ k \in h + 1 .. taken /\ k \in h + 1 .. Len(pushed) /\ pushed[k] \in Nodes
    BY <1>1, <1>2, <1>3, <1>4, <1>5 DEF Turned, Top
  <2>3. TypeOK'
    BY <2>1, <2>2 DEF TypeOK
  <2>4. Counters' /\ Distinct' /\ Role' /\ NoWorkLost'
    BY <1>1, <2>1 DEF Counters, Distinct, Role, OneOwner, NoWorkLost
  <2>5. \A i \in h + 1 .. Len(pushed) : i # k => next'[pushed[i]] = next[pushed[i]]
    BY <1>1, <2>1, <2>2 DEF Distinct, TypeOK
  <2>6. Stack'
    BY <1>1, <1>4, <2>1, <2>5, SMTT(30) DEF Stack, Top, Below
  <2>7. Linked'
    BY <1>1, <2>1, <2>2 DEF Linked, Distinct, TypeOK
  <2>8. Turned(t, k - 1)'
    <3>1. list'[t] = Top(h, k - 1)'
      BY <1>1, <1>2, <1>4, <2>1, <2>2 DEF Turned, Top, Below, TypeOK
    <3>2. result'[t] = Above(k - 1, taken)'
      BY <1>1, <1>4, <2>1, <2>2 DEF Above, TypeOK
    <3>3. \A i \in h + 1 .. k - 1 : next'[pushed'[i]] = Below(i, h)'
      BY <1>1, <1>2, <1>4, <2>1, <2>5 DEF Turned, Below
    <3>4. next'[pushed'[k]] = Above(k, taken)'
      BY <1>1, <1>2, <1>4, <2>1, <2>2 DEF Turned, Above, TypeOK
    <3>5. \A i \in k + 1 .. taken : next'[pushed'[i]] = Above(i, taken)'
      BY <1>1, <1>2, <1>4, <2>1, <2>5 DEF Turned, Above
    <3>6. \A i \in (k - 1) + 1 .. taken' : i = k \/ i \in k + 1 .. taken
      BY <1>1, <1>4, <2>1
    <3> QED
      BY <1>1, <2>1, <3>1, <3>2, <3>3, <3>4, <3>5, <3>6 DEF Turned
  <2>9. Walk'
    BY <1>1, <1>4, <2>1, <2>2, <2>8 DEF Walk, Reverse
  <2> QED
    BY <2>3, <2>4, <2>6, <2>7, <2>9
<1>6. CASE list[t] = Null
  <2>1. /\ list' = [list EXCEPT ![t] = result[t]] /\ pc' = [pc EXCEPT ![t] = "handle"]
        /\ UNCHANGED <<head, next, owner, node, seen, result, pushed, taken, handled>>
    BY <1>6 DEF Reverse
  <2>2. k = h
    BY <1>1, <1>2, <1>3, <1>4, <1>6, InboxAssumption DEF Turned, Top
  <2>3. TypeOK'
    BY <2>1 DEF TypeOK, Locations
  <2>4. Counters' /\ Distinct' /\ Role'
    <3>1. Counters'
      BY <1>1, <2>1 DEF Counters
    <3>2. Distinct'
      BY <1>1, <2>1 DEF Distinct
    <3>3. Role'
      BY <1>1, <2>1 DEF Role, OneOwner
    <3> QED
      BY <3>1, <3>2, <3>3
  <2>10. NoWorkLost'
    BY <2>1 DEF NoWorkLost, TypeOK
  <2>5. Stack'
    BY <2>1 DEF Stack, Top, Below
  <2>6. Linked'
    BY <1>1, <2>1 DEF Linked, Posting, TypeOK
  <2>7. Walked'
    BY <1>1, <1>2, <2>1, <2>2 DEF Turned, Walked, Above
  <2>8. list'[t] = Above(h, taken)'
    BY <1>1, <1>2, <2>1, <2>2 DEF Turned, Above, TypeOK
  <2>9. Walk'
    BY <1>1, <2>1, <2>7, <2>8 DEF Walk, Role, TypeOK, Owners
  <2> QED
    BY <2>3, <2>4, <2>5, <2>6, <2>9, <2>10
<1> QED
  BY <1>5, <1>6

\* Handling an event moves the lower end of the walk up by one.
LEMMA HandleInv ==
  ASSUME IInv, NEW t \in Threads, Handle(t)
  PROVE  IInv'
<1> USE DEF IInv
<1>1. /\ h \in Nat /\ taken \in Nat /\ Len(pushed) \in Nat
      /\ h <= taken /\ taken <= Len(pushed)
      /\ Posting' = Posting /\ Owners' = Owners /\ Owners = {t} /\ owner = 1
  BY DEF Handle, h, Posting, Owners, Counters, Role, OneOwner, TypeOK
<1>2. list[t] = Above(h, taken) /\ Walked
  BY <1>1 DEF Handle, Walk
<1>3. \A i \in 1..Len(pushed) : pushed[i] \in Nodes
  BY DEF TypeOK
<1>4. CASE list[t] # Null
  <2>1. /\ result' = [result EXCEPT ![t] = next[list[t]]]
        /\ handled' = Append(handled, list[t]) /\ pc' = [pc EXCEPT ![t] = "advance"]
        /\ UNCHANGED <<head, next, owner, node, seen, list, pushed, taken>>
    BY <1>4 DEF Handle
  <2>2. h < taken /\ list[t] = pushed[h + 1] /\ pushed[h + 1] \in Nodes
    BY <1>1, <1>2, <1>3, <1>4 DEF Above
  <2>3. /\ handled' \in Seq(Nodes) /\ h' = h + 1
        /\ \A i \in 1..h : handled'[i] = handled[i]
        /\ handled'[h + 1] = pushed[h + 1]
    BY <2>1, <2>2 DEF TypeOK, h
  <2>4. TypeOK'
    BY <2>1, <2>2, <2>3 DEF TypeOK, Locations
  <2>5. Counters'
    <3>1. \A i \in 1..h + 1 : i \in 1..h \/ i = h + 1
      BY <1>1
    <3>2. \A i \in 1..h + 1 : handled'[i] = pushed'[i]
      BY <2>1, <2>3, <3>1, ZenonT(30) DEF Counters
    <3>3. h' <= taken' /\ taken' <= Len(pushed')
      BY <1>1, <2>1, <2>2, <2>3
    <3> QED
      BY <2>3, <3>2, <3>3 DEF Counters
  <2>6. Role'
    BY <1>1, <2>1 DEF Role, OneOwner
  <2>7. Distinct'
    BY <1>1, <2>1, <2>3 DEF Distinct
  <2>8. Stack'
    BY <2>1 DEF Stack, Top, Below
  <2>9. Linked'
    BY <1>1, <2>1 DEF Linked, Posting, TypeOK
  <2>10. Walked'
    BY <1>1, <1>2, <2>1, <2>3 DEF Walked, Above
  <2>11. result'[t] = Above(h, taken)'
    BY <1>1, <1>2, <2>1, <2>2, <2>3 DEF Walked, Above, TypeOK
  <2>12. Walk'
    BY <1>1, <2>1, <2>10, <2>11 DEF Walk, TypeOK
  <2>13. NoWorkLost'
    BY <2>1 DEF NoWorkLost, TypeOK
  <2> QED
    BY <2>4, <2>5, <2>6, <2>7, <2>8, <2>9, <2>12, <2>13
<1>5. CASE list[t] = Null
  <2>1. /\ pc' = [pc EXCEPT ![t] = "release"]
        /\ UNCHANGED <<head, next, owner, node, seen, list, result, pushed, taken, handled>>
    BY <1>5 DEF Handle
  <2>2. taken = h /\ h' = h
    BY <1>1, <1>2, <1>3, <1>5, <2>1, InboxAssumption DEF Above, h
  <2>3. TypeOK'
    BY <2>1 DEF TypeOK, Locations
  <2>4. Counters' /\ Distinct' /\ Role'
    BY <1>1, <2>1, <2>2, SMTT(30) DEF Counters, Distinct, Role, OneOwner
  <2>8. NoWorkLost'
    BY <2>1 DEF NoWorkLost, TypeOK
  <2>5. Stack'
    BY <2>1 DEF Stack, Top, Below
  <2>6. Linked'
    BY <1>1, <2>1 DEF Linked, Posting, TypeOK
  <2>7. Walk'
    BY <1>1, <2>1, <2>2 DEF Walk, TypeOK
  <2> QED
    BY <2>3, <2>4, <2>5, <2>6, <2>7, <2>8
<1> QED
  BY <1>4, <1>5

\* Going on to the saved Next keeps the invariant.
LEMMA AdvanceInv ==
  ASSUME IInv, NEW t \in Threads, Advance(t)
  PROVE  IInv'
<1> USE DEF IInv
<1>1. /\ h' = h /\ Posting' = Posting /\ Owners' = Owners /\ Owners = {t} /\ owner = 1
  BY DEF Advance, h, Posting, Owners, Role, OneOwner, TypeOK
<1>2. TypeOK'
  BY DEF Advance, TypeOK, Locations
<1>3. Counters' /\ Distinct' /\ Role' /\ NoWorkLost'
  BY <1>1 DEF Advance, Counters, Distinct, Role, OneOwner, NoWorkLost, TypeOK
<1>4. Stack'
  BY DEF Advance, Stack, Top, Below
<1>5. Linked'
  BY <1>1 DEF Advance, Linked, Posting, TypeOK
<1>6. Walked /\ result[t] = Above(h, taken)
  BY <1>1 DEF Advance, Walk
<1>7. Walked' /\ list'[t] = Above(h, taken)'
  BY <1>1, <1>6 DEF Advance, Walked, Above, TypeOK
<1>8. Walk'
  BY <1>1, <1>7 DEF Advance, Walk, TypeOK
<1> QED
  BY <1>2, <1>3, <1>4, <1>5, <1>8

\* Every step of every thread keeps the invariant.
LEMMA NextInv == IInv /\ [Next]_vars => IInv'
<1> SUFFICES ASSUME IInv, [Next]_vars
             PROVE  IInv'
  OBVIOUS
<1>1. CASE UNCHANGED vars
  <2> USE <1>1 DEF vars, h
  <2>1. TypeOK' /\ Counters'
    BY DEF IInv, TypeOK, Counters
  <2>2. Role' /\ NoWorkLost'
    BY DEF IInv, Role, OneOwner, Owners, NoWorkLost
  <2>3. Distinct' /\ Stack' /\ Linked'
    BY DEF IInv, Distinct, Posting, Stack, Linked, Top, Below
  <2>4. Walk'
    BY DEF IInv, Walk, Owners, Walked, Turned, Top, Below, Above
  <2> QED
    BY <2>1, <2>2, <2>3, <2>4 DEF IInv
<1>2. ASSUME NEW t \in Threads, Step(t)
      PROVE  IInv'
  BY <1>2, PushLoadInv, PushInv, TryAcquireInv, TakeInv, ReverseInv, HandleInv, AdvanceInv,
     ReleaseInv, RecheckInv DEF Step
<1>3. ASSUME NEW t \in Threads, NEW n \in Nodes, Post(t, n)
      PROVE  IInv'
  BY <1>3, PostInv
<1> QED
  BY <1>1, <1>2, <1>3 DEF Next

\* The invariant holds in every reachable state of the inbox.
THEOREM Invariance == Spec => []IInv
<1>1. Init => IInv
  BY InitInv
<1>2. IInv /\ [Next]_vars => IInv'
  BY NextInv
<1> QED
  BY <1>1, <1>2, PTL DEF Spec

\* One thread at a time runs the combiner's state machine.
THEOREM OneOwnerHolds == Spec => []OneOwner
<1>1. IInv => OneOwner
  BY DEF IInv, Role
<1> QED
  BY <1>1, Invariance, PTL

\* The owner handles the events in the order they were pushed, each as often as it was.
THEOREM FifoHolds == Spec => []Fifo
<1>1. IInv => Fifo
  BY Numbers DEF IInv, Counters, Fifo, h
<1> QED
  BY <1>1, Invariance, PTL

\* No event stays on the list with nobody on the way to it.
THEOREM NoWorkLostHolds == Spec => []NoWorkLost
<1>1. IInv => NoWorkLost
  BY DEF IInv
<1> QED
  BY <1>1, Invariance, PTL

-----------------------------------------------------------------------------
(***************************************************************************)
(* The queue that the pipeline relies on                                   *)
(***************************************************************************)

\* What a part of a list is: the elements from the place after m to the place n
LEMMA Part ==
  ASSUME NEW S, NEW s \in Seq(S), NEW m \in 0 .. Len(s), NEW n \in m .. Len(s)
  PROVE  /\ SubSeq(s, m + 1, n) \in Seq(S) /\ Len(SubSeq(s, m + 1, n)) = n - m
         /\ \A i \in 1 .. n - m : SubSeq(s, m + 1, n)[i] = s[m + i]
<1>1. Len(s) \in Nat /\ m \in Nat /\ n \in Nat /\ m <= n /\ m + 1 \in Int /\ n \in Int
  OBVIOUS
<1>2. \A i \in m + 1 .. n : s[i] \in S
  BY <1>1
<1>3. /\ SubSeq(s, m + 1, n) \in Seq(S)
      /\ Len(SubSeq(s, m + 1, n)) = IF m + 1 <= n THEN n - (m + 1) + 1 ELSE 0
      /\ \A i \in 1 .. n - (m + 1) + 1 : SubSeq(s, m + 1, n)[i] = s[m + 1 + i - 1]
  BY <1>1, <1>2, SubSeqProperties, SMTT(30)
<1>4. (IF m + 1 <= n THEN n - (m + 1) + 1 ELSE 0) = n - m /\ n - (m + 1) + 1 = n - m
  BY <1>1
<1>5. \A i \in 1 .. n - m : m + 1 + i - 1 = m + i
  BY <1>1
<1> QED
  BY <1>3, <1>4, <1>5, Zenon

\* Taking the first element of a part.
LEMMA PartHead ==
  ASSUME NEW S, NEW s \in Seq(S), NEW i \in Nat, NEW n \in Nat, Len(s) \in Nat, i < n, n <= Len(s)
  PROVE  /\ Head(SubSeq(s, i + 1, n)) = s[i + 1]
         /\ Tail(SubSeq(s, i + 1, n)) = SubSeq(s, (i + 1) + 1, n)
         /\ SubSeq(s, i + 1, n) # <<>>
<1>1. i + 1 \in 1..Len(s) /\ n \in (i + 1)..Len(s)
  OBVIOUS
<1>2. /\ Head(SubSeq(s, i + 1, n)) = s[i + 1]
      /\ Tail(SubSeq(s, i + 1, n)) = SubSeq(s, (i + 1) + 1, n)
  BY <1>1, HeadTailOfSubSeq, ZenonT(30)
<1>3. Len(SubSeq(s, i + 1, n)) = n - i
  OBVIOUS
<1>4. SubSeq(s, i + 1, n) # <<>>
  <2>1. Len(<<>>) = 0
    OBVIOUS
  <2>2. n - i # 0
    OBVIOUS
  <2> QED
    BY <1>3, <2>1, <2>2, Zenon
<1> QED
  BY <1>2, <1>4


\* What SubSeq does at the ends of the parts
LEMMA PartAppend ==
  ASSUME NEW S, NEW s \in Seq(S), NEW e \in S, NEW lo \in 0 .. Len(s)
  PROVE  /\ SubSeq(Append(s, e), lo + 1, Len(s) + 1) = Append(SubSeq(s, lo + 1, Len(s)), e)
         /\ \A lo2 \in 0 .. lo : SubSeq(Append(s, e), lo2 + 1, lo) = SubSeq(s, lo2 + 1, lo)
<1> DEFINE a == Append(s, e)
<1>1. a \in Seq(S) /\ Len(a) = Len(s) + 1 /\ a[Len(s) + 1] = e /\ \A i \in 1..Len(s) : a[i] = s[i]
  OBVIOUS
<1>2. Len(s) \in Nat /\ lo \in Nat /\ lo <= Len(s)
  OBVIOUS
<1> HIDE DEF a
<1>3. SubSeq(a, lo + 1, Len(s) + 1) = Append(SubSeq(s, lo + 1, Len(s)), e)
  <2>0. lo \in 0 .. Len(a) /\ Len(s) + 1 \in lo .. Len(a) /\ Len(s) \in lo .. Len(s)
    BY <1>1, <1>2
  <2>1. /\ SubSeq(a, lo + 1, Len(s) + 1) \in Seq(S)
        /\ Len(SubSeq(a, lo + 1, Len(s) + 1)) = Len(s) + 1 - lo
        /\ \A i \in 1 .. Len(s) + 1 - lo : SubSeq(a, lo + 1, Len(s) + 1)[i] = a[lo + i]
    BY <1>1, <2>0, Part, SMTT(30)
  <2>2. /\ SubSeq(s, lo + 1, Len(s)) \in Seq(S)
        /\ Len(SubSeq(s, lo + 1, Len(s))) = Len(s) - lo
        /\ \A i \in 1 .. Len(s) - lo : SubSeq(s, lo + 1, Len(s))[i] = s[lo + i]
    BY <2>0, Part, SMTT(30)
  <2> DEFINE b == Append(SubSeq(s, lo + 1, Len(s)), e)
  <2>3. /\ b \in Seq(S) /\ Len(b) = Len(s) + 1 - lo /\ b[Len(s) + 1 - lo] = e
        /\ \A i \in 1 .. Len(s) - lo : b[i] = s[lo + i]
    BY <1>2, <2>2
  <2>4. \A i \in 1 .. Len(s) + 1 - lo : i \in 1 .. Len(s) - lo \/ i = Len(s) + 1 - lo
    BY <1>2
  <2>5. \A i \in 1 .. Len(s) + 1 - lo : SubSeq(a, lo + 1, Len(s) + 1)[i] = b[i]
    BY <1>1, <1>2, <2>1, <2>3, <2>4
  <2> QED
    BY <2>1, <2>3, <2>5, SeqEqual, ZenonT(30)
<1>4. ASSUME NEW lo2 \in 0 .. lo
      PROVE  SubSeq(a, lo2 + 1, lo) = SubSeq(s, lo2 + 1, lo)
  <2>0. lo2 \in 0 .. Len(a) /\ lo \in lo2 .. Len(a) /\ lo2 \in 0 .. Len(s) /\ lo \in lo2 .. Len(s)
    BY <1>1, <1>2, <1>4
  <2>1. /\ SubSeq(a, lo2 + 1, lo) \in Seq(S) /\ Len(SubSeq(a, lo2 + 1, lo)) = lo - lo2
        /\ \A i \in 1 .. lo - lo2 : SubSeq(a, lo2 + 1, lo)[i] = a[lo2 + i]
    BY <1>1, <2>0, Part, Zenon
  <2>2. /\ SubSeq(s, lo2 + 1, lo) \in Seq(S) /\ Len(SubSeq(s, lo2 + 1, lo)) = lo - lo2
        /\ \A i \in 1 .. lo - lo2 : SubSeq(s, lo2 + 1, lo)[i] = s[lo2 + i]
    BY <2>0, Part, Zenon
  <2>3. \A i \in 1 .. lo - lo2 : a[lo2 + i] = s[lo2 + i]
    BY <1>1, <1>2, <1>4
  <2> QED
    BY <2>1, <2>2, <2>3, SeqEqual, ZenonT(30)
<1> QED
  BY <1>3, <1>4, ZenonT(30) DEF a

\* CInbox implements EventQueue: a successful push puts an event at the end of the
\* queue, the exchange of take() moves the whole queue into an empty batch, and every
\* event handled is the front of the batch.
THEOREM QueueRefinement == Spec => ImplementsQueue
<1>1. Init => Queue!Init
  BY SubSeqEmpty DEF Init, Queue!Init
<1>2. IInv /\ [Next]_vars => [Queue!Next]_Queue!vars
  <2> SUFFICES ASSUME IInv, [Next]_vars
               PROVE  [Queue!Next]_Queue!vars
    OBVIOUS
  <2>1. /\ h \in Nat /\ taken \in Nat /\ Len(pushed) \in Nat /\ h <= taken /\ taken <= Len(pushed)
        /\ pushed \in Seq(Nodes)
    BY Numbers DEF IInv, Counters, TypeOK
  <2>2. CASE UNCHANGED <<pushed, taken, handled>>
    BY <2>2 DEF Queue!vars
  <2>3. ASSUME NEW t \in Threads, Push(t), head = seen[t]
        PROVE  \E n \in Nodes : Queue!Put(n)
    <3>1. node[t] \in Nodes
      BY <2>3 DEF IInv, Push, Posting, Distinct
    <3>2. pushed' = Append(pushed, node[t]) /\ taken' = taken /\ handled' = handled
      BY <2>3 DEF Push
    <3>3. Len(pushed') = Len(pushed) + 1
      BY <2>1, <3>1, <3>2
    <3>4. SubSeq(pushed', taken + 1, Len(pushed) + 1) = Append(SubSeq(pushed, taken + 1, Len(pushed)), node[t])
      <4>1. taken \in 0 .. Len(pushed)
        BY <2>1
      <4> QED
        BY <2>1, <3>1, <3>2, <4>1, PartAppend, ZenonT(30)
    <3>5. SubSeq(pushed', Len(handled) + 1, taken) = SubSeq(pushed, Len(handled) + 1, taken)
      <4>1. taken \in 0 .. Len(pushed) /\ Len(handled) \in 0 .. taken
        BY <2>1 DEF h
      <4> QED
        BY <2>1, <3>1, <3>2, <4>1, PartAppend
    <3> QED
      BY <3>1, <3>2, <3>3, <3>4, <3>5, ZenonT(30) DEF Queue!Put
  <2>4. ASSUME NEW t \in Threads, Take(t)
        PROVE  Queue!TakeAll
    <3>1. taken = h /\ pushed' = pushed /\ handled' = handled /\ taken' = Len(pushed)
      BY <2>4 DEF IInv, Take, Walk, Owners
    <3>2. SubSeq(pushed, Len(handled) + 1, taken) = <<>>
      BY <2>1, <3>1, SubSeqEmpty DEF h
    <3>3. SubSeq(pushed, Len(pushed) + 1, Len(pushed)) = <<>>
      BY <2>1, SubSeqEmpty
    <3> QED
      BY <3>1, <3>2, <3>3 DEF Queue!TakeAll, h
  <2>5. ASSUME NEW t \in Threads, Handle(t), list[t] # Null
        PROVE  Queue!HandleNext
    <3>1. /\ handled' = Append(handled, list[t]) /\ pushed' = pushed /\ taken' = taken
          /\ list[t] = Above(h, taken)
      BY <2>5 DEF IInv, Handle, Walk, Owners
    <3>2. h < taken /\ list[t] = pushed[h + 1] /\ list[t] \in Nodes
      BY <2>1, <2>5, <3>1 DEF Above
    <3>3. Len(handled') = h + 1
      BY <3>1, <3>2 DEF h, IInv, TypeOK
    <3>4. /\ Head(SubSeq(pushed, h + 1, taken)) = pushed[h + 1]
          /\ Tail(SubSeq(pushed, h + 1, taken)) = SubSeq(pushed, (h + 1) + 1, taken)
          /\ SubSeq(pushed, h + 1, taken) # <<>>
      <4> HIDE DEF h
      <4> QED
        BY <2>1, <3>2, PartHead, ZenonT(30)
    <3> QED
      BY <3>1, <3>2, <3>3, <3>4, ZenonT(30) DEF Queue!HandleNext, h
  <2>6. ASSUME NEW t \in Threads, Step(t)
        PROVE  [Queue!Next]_Queue!vars
    <3>1. CASE Push(t)
      BY <2>2, <2>3, <3>1, ZenonT(30) DEF Push, Queue!Next
    <3>2. CASE Handle(t)
      BY <2>2, <2>5, <3>2, ZenonT(30) DEF Handle, Queue!Next
    <3>3. CASE Take(t)
      BY <2>4, <3>3 DEF Queue!Next
    <3> QED
      BY <2>2, <2>6, <3>1, <3>2, <3>3
         DEF Step, PushLoad, TryAcquire, Reverse, Advance, Release, Recheck
  <2> QED
    BY <2>2, <2>6 DEF Next, Post, vars
<1> QED
  BY <1>1, <1>2, Invariance, PTL DEF Spec, ImplementsQueue, Queue!Spec
=============================================================================
