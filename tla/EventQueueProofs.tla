----------------------------- MODULE EventQueueProofs -----------------------------
(***************************************************************************)
(* Proofs about EventQueue, for any number of events and any delays.       *)
(***************************************************************************)
EXTENDS EventQueue, TLAPS

(* The facts that together are kept by every step: the list is sorted, its
   events are distinct, the pointer to the last insertion is live, the event
   being fired is the head, and outside a tick nothing is due. *)
FiresInTicks == firing # NULL => scanning
NothingDueOutside == ~scanning => \A i \in 1..Len(queue) : queue[i].left > 0

IInv ==
    /\ QueueTypeOK
    /\ Sorted
    /\ NoDuplicates
    /\ PointerIsLive
    /\ RemovesWhatItRan
    /\ FiresInTicks
    /\ NothingDueOutside

(* The element at each position of a sequence after an insertion. *)
LEMMA InsertAtFacts ==
    ASSUME NEW S, NEW q \in Seq(S), NEW i \in 1..(Len(q) + 1), NEW x \in S
    PROVE  /\ InsertAt(q, i, x) \in Seq(S)
           /\ Len(InsertAt(q, i, x)) = Len(q) + 1
           /\ \A j \in 1..(Len(q) + 1) :
                InsertAt(q, i, x)[j] = IF j < i THEN q[j]
                                       ELSE IF j = i THEN x ELSE q[j - 1]
<1> DEFINE a == SubSeq(q, 1, i - 1)
           b == SubSeq(q, i, Len(q))
<1>1. a \in Seq(S) /\ Len(a) = i - 1 /\ \A j \in 1..(i - 1) : a[j] = q[j]
  OBVIOUS
<1>2. /\ b \in Seq(S) /\ Len(b) = Len(q) - i + 1
      /\ \A j \in 1..(Len(q) - i + 1) : b[j] = q[i + j - 1]
  OBVIOUS
<1>3. InsertAt(q, i, x) = a \o <<x>> \o b
  BY DEF InsertAt
<1> DEFINE c == a \o <<x>>
<1> HIDE DEF a, b
<1>4. /\ c \in Seq(S) /\ Len(c) = i
      /\ \A j \in 1..(i - 1) : c[j] = q[j]
      /\ c[i] = x
  BY <1>1
<1> HIDE DEF c
<1>5. /\ c \o b \in Seq(S) /\ Len(c \o b) = Len(q) + 1
      /\ \A j \in 1..i : (c \o b)[j] = c[j]
      /\ \A j \in (i + 1)..(Len(q) + 1) : (c \o b)[j] = b[j - i]
  BY <1>2, <1>4
<1>6. \A j \in (i + 1)..(Len(q) + 1) : b[j - i] = q[j - 1]
  BY <1>2
<1>7. InsertAt(q, i, x) = c \o b
  BY <1>3 DEF c
<1> QED
  BY <1>4, <1>5, <1>6, <1>7

(* What an element of the list is. *)
LEMMA EntryFacts ==
    ASSUME NEW q \in Seq(Entry)
    PROVE  /\ Len(q) \in Nat
           /\ q # <<>> => Len(q) > 0
           /\ \A j \in 1..Len(q) : /\ q[j] \in Entry
                                   /\ q[j].left \in Nat /\ q[j].event \in Events
<1>1. Len(q) \in Nat /\ (q # <<>> => Len(q) > 0) /\ \A j \in 1..Len(q) : q[j] \in Entry
  OBVIOUS
<1>2. \A x \in Entry : x.left \in Nat /\ x.event \in Events
  BY DEF Entry
<1> QED
  BY <1>1, <1>2

(* The start of the search is a position of the list whose deadline is not
   later than the new one, when the new event is not the new head. *)
LEMMA SearchStartFacts ==
    ASSUME QueueTypeOK, PointerIsLive, NEW d \in Nat, queue # <<>>, d > queue[1].left
    PROVE  /\ SearchStart(d) \in 1..Len(queue)
           /\ queue[SearchStart(d)].left <= d
<1>1. Len(queue) \in Nat \ {0} /\ \A i \in 1..Len(queue) : queue[i].left \in Nat
  BY EntryFacts DEF QueueTypeOK
<1>2. PositionOf(lastIns) \in 1..Len(queue)
  BY DEF PointerIsLive, Queued, PositionOf
<1> QED
  BY <1>1, <1>2 DEF SearchStart

(* Every event before the place of a new one is due no later than it, every
   event after the place no earlier: whatever the search started from. *)
LEMMA PlaceFacts ==
    ASSUME QueueTypeOK, Sorted, PointerIsLive, NEW d \in Nat,
           NEW i \in 1..(Len(queue) + 1), Place(i, d)
    PROVE  \A j \in 1..Len(queue) : /\ j < i => queue[j].left <= d
                                    /\ j >= i => queue[j].left >= d
<1>1. Len(queue) \in Nat /\ \A j \in 1..Len(queue) : queue[j].left \in Nat
  BY EntryFacts DEF QueueTypeOK
<1>2. CASE queue = <<>> \/ d <= queue[1].left
  BY <1>1, <1>2 DEF Place, Sorted
<1>3. CASE ~(queue = <<>> \/ d <= queue[1].left)
  <2> DEFINE p == SearchStart(d)
  <2>1. p \in 1..Len(queue) /\ queue[p].left <= d
    BY <1>1, <1>3, SearchStartFacts
  <2>2. /\ i >= p
        /\ \A j \in p..(i - 1) : queue[j].left <= d
        /\ i <= Len(queue) => queue[i].left > d
    BY <1>3 DEF Place
  <2> HIDE DEF p
  <2>3. ASSUME NEW j \in 1..Len(queue), j < i PROVE queue[j].left <= d
    <3>1. CASE j < p
      BY <1>1, <2>1, <2>3, <3>1 DEF Sorted
    <3>2. CASE j >= p
      BY <1>1, <2>1, <2>2, <2>3, <3>2
    <3> QED
      BY <2>1, <3>1, <3>2
  <2>4. ASSUME NEW j \in 1..Len(queue), j >= i PROVE queue[j].left >= d
    BY <1>1, <2>2, <2>4 DEF Sorted
  <2> QED
    BY <2>3, <2>4
<1> QED
  BY <1>2, <1>3

(* An insertion keeps the list sorted and its events distinct, and leaves
   the pointer at the new event. *)
LEMMA InsertQFacts ==
    ASSUME QueueTypeOK, Sorted, NoDuplicates, PointerIsLive,
           NEW e \in Events, NEW d \in Delays, ~Queued(e), InsertQ(e, d)
    PROVE  /\ queue' \in Seq(Entry)
           /\ Sorted' /\ NoDuplicates' /\ PointerIsLive'
           /\ lastIns' = e
           /\ queue' # <<>>
           /\ \A j \in 1..Len(queue') :
                 queue'[j].left = d \/ \E k \in 1..Len(queue) : queue'[j] = queue[k]
           /\ (queue # <<>> /\ queue[1].left < d) => queue'[1] = queue[1]
<1>1. d \in Nat \ {0} /\ Deadline(d) = d
  BY DelaysAssumption DEF DelaysAssumption, Deadline
<1>2. PICK i \in 1..(Len(queue) + 1) :
         /\ Place(i, d)
         /\ queue' = InsertAt(queue, i, [event |-> e, left |-> d])
         /\ lastIns' = e
  BY <1>1 DEF InsertQ, Linked
<1> DEFINE x == [event |-> e, left |-> d]
<1>3. x \in Entry /\ x.event = e /\ x.left = d
  BY <1>1 DEF Entry
<1> HIDE DEF x
<1>4. queue \in Seq(Entry) /\ Len(queue) \in Nat
  BY DEF QueueTypeOK
<1>5. /\ queue' \in Seq(Entry)
      /\ Len(queue') = Len(queue) + 1
      /\ \A j \in 1..(Len(queue) + 1) :
           queue'[j] = IF j < i THEN queue[j] ELSE IF j = i THEN x ELSE queue[j - 1]
  BY <1>2, <1>3, <1>4, InsertAtFacts DEF x
<1>6. \A j \in 1..Len(queue) : /\ j < i => queue[j].left <= d
                               /\ j >= i => queue[j].left >= d
  BY <1>1, <1>2, PlaceFacts
<1>7. \A j \in 1..Len(queue) : queue[j].left \in Nat /\ queue[j].event # e
  BY <1>4, EntryFacts DEF Queued
<1>8. Sorted'
  <2> SUFFICES ASSUME NEW j \in 1..(Len(queue) + 1), NEW k \in 1..(Len(queue) + 1), j <= k
               PROVE  queue'[j].left <= queue'[k].left
    BY <1>5 DEF Sorted
  <2>1. CASE j < i /\ k < i
    BY <2>1, <1>4, <1>5 DEF Sorted
  <2>2. CASE j < i /\ k = i
    <3>1. queue'[j] = queue[j] /\ queue'[k] = x /\ j \in 1..Len(queue)
      BY <2>2, <1>4, <1>5
    <3> QED
      BY <2>2, <3>1, <1>3, <1>6
  <2>3. CASE j < i /\ k > i
    <3>1. /\ queue'[j] = queue[j] /\ queue'[k] = queue[k - 1]
          /\ j \in 1..Len(queue) /\ k - 1 \in 1..Len(queue) /\ j <= k - 1
      BY <2>3, <1>4, <1>5
    <3> QED
      BY <3>1 DEF Sorted
  <2>4. CASE j = i /\ k = i
    BY <2>4, <1>1, <1>3, <1>5
  <2>5. CASE j = i /\ k > i
    <3>1. queue'[j] = x /\ queue'[k] = queue[k - 1] /\ k - 1 \in 1..Len(queue) /\ k - 1 >= i
      BY <2>5, <1>4, <1>5
    <3> QED
      BY <3>1, <1>3, <1>6
  <2>6. CASE j > i /\ k > i
    <3>1. /\ queue'[j] = queue[j - 1] /\ queue'[k] = queue[k - 1]
          /\ j - 1 \in 1..Len(queue) /\ k - 1 \in 1..Len(queue) /\ j - 1 <= k - 1
      BY <2>6, <1>4, <1>5
    <3> QED
      BY <3>1 DEF Sorted
  <2> QED
    BY <2>1, <2>2, <2>3, <2>4, <2>5, <2>6, <1>4
<1>9. NoDuplicates'
  <2> SUFFICES ASSUME NEW j \in 1..(Len(queue) + 1), NEW k \in 1..(Len(queue) + 1),
                      queue'[j].event = queue'[k].event
               PROVE  j = k
    BY <1>5 DEF NoDuplicates
  <2> DEFINE old(m) == IF m < i THEN m ELSE m - 1
  <2>1. \A m \in 1..(Len(queue) + 1) :
           IF m = i THEN queue'[m] = x
           ELSE old(m) \in 1..Len(queue) /\ queue'[m] = queue[old(m)]
    BY <1>4, <1>5
  <2>2. CASE j = i \/ k = i
    BY <2>1, <2>2, <1>3, <1>7
  <2>3. CASE j # i /\ k # i
    <3>1. old(j) = old(k)
      <4> HIDE DEF old
      <4> QED
        BY <2>1, <2>3 DEF NoDuplicates
    <3> QED
      BY <2>3, <3>1, <1>4
  <2> QED
    BY <2>2, <2>3
<1>10. PointerIsLive' /\ queue' # <<>>
  <2>1. queue'[i] = x /\ i \in 1..Len(queue')
    BY <1>4, <1>5
  <2>2. queue' # <<>>
    BY <1>4, <1>5
  <2> QED
    BY <2>1, <2>2, <1>2, <1>3 DEF PointerIsLive, Queued
<1>11. \A j \in 1..Len(queue') :
          queue'[j].left = d \/ \E k \in 1..Len(queue) : queue'[j] = queue[k]
  BY <1>3, <1>4, <1>5
<1>12. ASSUME queue # <<>>, queue[1].left < d PROVE queue'[1] = queue[1]
  <2>1. Len(queue) > 0 /\ 1 \in 1..Len(queue)
    BY <1>12, <1>4
  <2>2. i > 1
    BY <2>1, <1>1, <1>6, <1>7, <1>12
  <2> QED
    BY <2>1, <2>2, <1>4, <1>5
<1> QED
  BY <1>2, <1>5, <1>8, <1>9, <1>10, <1>11, <1>12

-----------------------------------------------------------------------------
(* Every step of the queue and of the clock keeps the invariant. *)

LEMMA InitIInv == QueueInit => IInv
<1> SUFFICES ASSUME QueueInit PROVE IInv
  OBVIOUS
<1>1. queue = <<>> /\ Len(queue) = 0 /\ queue \in Seq(Entry)
  BY DEF QueueInit
<1>2. lastIns = NULL /\ firing = NULL /\ scanning = FALSE
  BY DEF QueueInit
<1>3. QueueTypeOK
  BY <1>1, <1>2 DEF QueueTypeOK
<1>4. Sorted /\ NoDuplicates /\ NothingDueOutside
  BY <1>1 DEF Sorted, NoDuplicates, NothingDueOutside
<1> QED
  BY <1>1, <1>2, <1>3, <1>4 DEF IInv, PointerIsLive, RemovesWhatItRan, FiresInTicks

LEMMA ScheduleIInv ==
    ASSUME IInv, NEW e \in Events, NEW d \in Delays, Schedule(e, d)
    PROVE  IInv'
<1>1. /\ QueueTypeOK /\ Sorted /\ NoDuplicates /\ PointerIsLive
      /\ ~Queued(e) /\ InsertQ(e, d) /\ ~scanning
      /\ firing' = firing /\ scanning' = scanning /\ firing = NULL
  BY DEF IInv, Schedule, FiresInTicks
<1>2. /\ queue' \in Seq(Entry) /\ Sorted' /\ NoDuplicates' /\ PointerIsLive'
      /\ lastIns' = e
      /\ \A j \in 1..Len(queue') :
            queue'[j].left = d \/ \E k \in 1..Len(queue) : queue'[j] = queue[k]
  BY <1>1, InsertQFacts
<1>3. NothingDueOutside'
  <2>1. d > 0 /\ \A k \in 1..Len(queue) : queue[k].left > 0
    BY <1>1, DelaysAssumption DEF IInv, NothingDueOutside, DelaysAssumption
  <2> QED
    BY <1>2, <2>1 DEF NothingDueOutside
<1>4. QueueTypeOK'
  BY <1>1, <1>2 DEF QueueTypeOK
<1> QED
  BY <1>1, <1>2, <1>3, <1>4 DEF IInv, RemovesWhatItRan, FiresInTicks

LEMMA AdvanceIInv ==
    ASSUME IInv, Advance
    PROVE  IInv'
<1>1. /\ QueueTypeOK /\ Sorted /\ NoDuplicates /\ PointerIsLive
      /\ ~scanning /\ scanning' = TRUE /\ lastIns' = lastIns /\ firing' = firing
      /\ queue' = [i \in 1..Len(queue) |-> [queue[i] EXCEPT !.left = @ - 1]]
      /\ firing = NULL
      /\ \A i \in 1..Len(queue) : queue[i].left > 0
  BY DEF IInv, Advance, FiresInTicks, NothingDueOutside
<1>2. /\ Len(queue) \in Nat /\ (queue # <<>> => Len(queue) > 0)
      /\ \A i \in 1..Len(queue) : /\ queue[i] \in Entry
                                  /\ queue[i].left \in Nat /\ queue[i].event \in Events
  BY <1>1, EntryFacts DEF QueueTypeOK
<1>3. \A i \in 1..Len(queue) : LET r == [queue[i] EXCEPT !.left = @ - 1] IN
         r \in Entry /\ r.event = queue[i].event /\ r.left = queue[i].left - 1
  BY <1>1, <1>2 DEF Entry
<1>4. /\ queue' \in Seq(Entry) /\ Len(queue') = Len(queue)
      /\ \A i \in 1..Len(queue) : /\ queue'[i].event = queue[i].event
                                  /\ queue'[i].left = queue[i].left - 1
  <2> DEFINE aged(i) == [queue[i] EXCEPT !.left = @ - 1]
  <2>1. \A i \in 1..Len(queue) :
           aged(i) \in Entry /\ aged(i).event = queue[i].event
                             /\ aged(i).left = queue[i].left - 1
    BY <1>3
  <2>2. queue' = [i \in 1..Len(queue) |-> aged(i)]
    BY <1>1
  <2> HIDE DEF aged
  <2>3. queue' \in Seq(Entry) /\ Len(queue') = Len(queue)
    BY <1>2, <2>1, <2>2
  <2> QED
    BY <2>1, <2>2, <2>3
<1>5. Sorted'
  <2> SUFFICES ASSUME NEW i \in 1..Len(queue), NEW j \in 1..Len(queue), i <= j
               PROVE  queue'[i].left <= queue'[j].left
    BY <1>4 DEF Sorted
  <2>1. queue[i].left <= queue[j].left
    BY <1>1 DEF Sorted
  <2> QED
    BY <1>2, <1>4, <2>1
<1>6. NoDuplicates'
  BY <1>1, <1>4 DEF NoDuplicates
<1>7. PointerIsLive'
  <2>1. queue' = <<>> <=> queue = <<>>
    BY <1>1, <1>2, <1>4
  <2>2. Queued(lastIns) => Queued(lastIns)'
    BY <1>1, <1>4 DEF Queued
  <2> QED
    BY <1>1, <2>1, <2>2 DEF PointerIsLive
<1> QED
  BY <1>1, <1>4, <1>5, <1>6, <1>7
     DEF IInv, QueueTypeOK, RemovesWhatItRan, FiresInTicks, NothingDueOutside

LEMMA RunCallbackIInv ==
    ASSUME IInv, RunCallback
    PROVE  IInv'
<1>1. /\ QueueTypeOK /\ Sorted /\ NoDuplicates /\ PointerIsLive
      /\ scanning = TRUE /\ firing = NULL /\ scanning' = scanning
      /\ queue # <<>> /\ queue[1].left <= 0
      /\ firing' = queue[1].event
  BY DEF IInv, QueueTypeOK, RunCallback, Due
<1>2. /\ Len(queue) > 0 /\ 1 \in 1..Len(queue)
      /\ queue[1].event \in Events
  BY <1>1, EntryFacts DEF QueueTypeOK
<1>3. CASE UNCHANGED <<queue, lastIns>>
  <2>1. QueueTypeOK'
    BY <1>1, <1>2, <1>3 DEF QueueTypeOK
  <2>2. Sorted' /\ NoDuplicates' /\ PointerIsLive'
    BY <1>1, <1>3 DEF Sorted, NoDuplicates, PointerIsLive, Queued
  <2> QED
    BY <1>1, <1>2, <1>3, <2>1, <2>2
       DEF IInv, RemovesWhatItRan, FiresInTicks, NothingDueOutside
<1>4. ASSUME NEW e \in Events, NEW d \in Delays, ~Queued(e), InsertQ(e, d)
      PROVE  IInv'
  <2>1. d \in Nat /\ d > 0
    BY DelaysAssumption DEF DelaysAssumption
  <2>2. queue[1].left < d
    BY <1>1, <1>2, <2>1, EntryFacts DEF QueueTypeOK
  <2>3. /\ queue' \in Seq(Entry) /\ Sorted' /\ NoDuplicates' /\ PointerIsLive'
        /\ lastIns' = e /\ queue' # <<>> /\ queue'[1] = queue[1]
    BY <1>1, <1>4, <2>2, InsertQFacts
  <2>4. QueueTypeOK'
    BY <1>1, <1>2, <2>3 DEF QueueTypeOK
  <2> QED
    BY <1>1, <2>3, <2>4
       DEF IInv, RemovesWhatItRan, FiresInTicks, NothingDueOutside
<1> QED
  BY <1>3, <1>4 DEF RunCallback

LEMMA RemoveHeadIInv ==
    ASSUME IInv, RemoveHead
    PROVE  IInv'
<1>1. /\ QueueTypeOK /\ Sorted /\ NoDuplicates /\ PointerIsLive
      /\ queue # <<>> /\ firing # NULL /\ firing' = NULL
      /\ queue' = Tail(queue)
      /\ lastIns' = PointerAfterRemoval(Tail(queue))
      /\ scanning = TRUE /\ scanning' = scanning
  BY DEF IInv, QueueTypeOK, RemoveHead, RemovesWhatItRan, FiresInTicks
<1>2. /\ Len(queue) \in Nat /\ Len(queue) > 0
      /\ queue \in Seq(Entry)
  BY <1>1, EntryFacts DEF QueueTypeOK
<1>3. /\ queue' \in Seq(Entry) /\ Len(queue') = Len(queue) - 1
      /\ \A i \in 1..Len(queue') : queue'[i] = queue[i + 1]
      /\ (queue' = <<>> <=> Len(queue) = 1)
  <2>1. /\ Tail(queue) \in Seq(Entry) /\ Len(Tail(queue)) = Len(queue) - 1
        /\ \A i \in 1..(Len(queue) - 1) : Tail(queue)[i] = queue[i + 1]
    BY <1>1, <1>2
  <2>2. queue' = <<>> <=> Len(queue') = 0
    <3>1. queue' \in Seq(Entry)
      BY <1>1, <2>1
    <3>2. queue' # <<>> => Len(queue') > 0
      BY <3>1, EntryFacts
    <3>3. queue' = <<>> => Len(queue') = 0
      OBVIOUS
    <3> QED
      BY <3>1, <3>2, <3>3, EntryFacts
  <2> QED
    BY <1>1, <1>2, <2>1, <2>2
<1>4. Sorted'
  BY <1>1, <1>2, <1>3 DEF Sorted
<1>5. NoDuplicates'
  <2> SUFFICES ASSUME NEW i \in 1..Len(queue'), NEW j \in 1..Len(queue'),
                      queue'[i].event = queue'[j].event
               PROVE  i = j
    BY DEF NoDuplicates
  <2>1. i + 1 \in 1..Len(queue) /\ j + 1 \in 1..Len(queue)
    BY <1>2, <1>3
  <2>2. i + 1 = j + 1
    BY <1>1, <1>3, <2>1 DEF NoDuplicates
  <2> QED
    BY <2>2, <1>3
<1>6. PointerIsLive' /\ lastIns' \in Events \cup {NULL}
  <2>1. CASE queue[1].event # lastIns
    <3>1. lastIns' = lastIns
      BY <1>1, <2>1 DEF PointerAfterRemoval
    <3>2. PICK k \in 1..Len(queue) : queue[k].event = lastIns
      BY <1>1 DEF PointerIsLive, Queued
    <3>3. k - 1 \in 1..Len(queue') /\ queue'[k - 1] = queue[k]
      BY <2>1, <3>2, <1>2, <1>3
    <3>4. queue' # <<>> /\ Queued(lastIns)'
      BY <3>1, <3>2, <3>3, <1>2, <1>3 DEF Queued
    <3> QED
      BY <3>1, <3>4, <1>1 DEF PointerIsLive, QueueTypeOK
  <2>2. CASE queue[1].event = lastIns /\ queue' = <<>>
    BY <1>1, <2>2 DEF PointerAfterRemoval, PointerIsLive
  <2>3. CASE queue[1].event = lastIns /\ queue' # <<>>
    <3>1. lastIns' = queue'[1].event /\ 1 \in 1..Len(queue')
      BY <1>1, <1>2, <1>3, <2>3 DEF PointerAfterRemoval
    <3>2. Queued(lastIns)' /\ lastIns' \in Events
      BY <1>3, <3>1, EntryFacts DEF Queued
    <3> QED
      BY <2>3, <3>2 DEF PointerIsLive
  <2> QED
    BY <2>1, <2>2, <2>3
<1>7. QueueTypeOK'
  BY <1>1, <1>3, <1>6 DEF QueueTypeOK
<1> QED
  BY <1>1, <1>4, <1>5, <1>6, <1>7
     DEF IInv, RemovesWhatItRan, FiresInTicks, NothingDueOutside

LEMMA EndTickIInv ==
    ASSUME IInv, EndTick
    PROVE  IInv'
<1>1. /\ QueueTypeOK /\ Sorted /\ NoDuplicates /\ PointerIsLive
      /\ firing = NULL /\ ~Due /\ scanning' = FALSE
      /\ UNCHANGED <<queue, lastIns, firing>>
  BY DEF IInv, EndTick
<1>2. \A i \in 1..Len(queue) : queue[i].left > 0
  <2> SUFFICES ASSUME NEW i \in 1..Len(queue) PROVE queue[i].left > 0
    OBVIOUS
  <2>1. /\ queue # <<>> /\ 1 \in 1..Len(queue) /\ 1 <= i
        /\ queue[1].left \in Nat /\ queue[i].left \in Nat
    BY <1>1, EntryFacts DEF QueueTypeOK
  <2>2. queue[1].left > 0 /\ queue[1].left <= queue[i].left
    BY <1>1, <2>1 DEF Due, Sorted
  <2> QED
    BY <2>1, <2>2
<1>3. QueueTypeOK' /\ Sorted' /\ NoDuplicates' /\ PointerIsLive'
  BY <1>1 DEF QueueTypeOK, Sorted, NoDuplicates, PointerIsLive, Queued
<1> QED
  BY <1>1, <1>2, <1>3 DEF IInv, RemovesWhatItRan, FiresInTicks, NothingDueOutside

LEMMA StepIInv == IInv /\ [QueueNext]_queueVars => IInv'
<1> SUFFICES ASSUME IInv, [QueueNext]_queueVars PROVE IInv'
  OBVIOUS
<1>1. CASE UNCHANGED queueVars
  BY <1>1 DEF queueVars, IInv, QueueTypeOK, Sorted, NoDuplicates, PointerIsLive, Queued,
              RemovesWhatItRan, FiresInTicks, NothingDueOutside
<1> QED
  BY <1>1, ScheduleIInv, AdvanceIInv, RunCallbackIInv, RemoveHeadIInv, EndTickIInv
     DEF QueueNext, Tick

(* The invariant holds in every state. *)
THEOREM QueueInvariant == QueueSpec => []IInv
  BY InitIInv, StepIInv, PTL DEF QueueSpec

(* Every variable keeps its type; in particular no event in the queue is ever
   overdue: ClockTick runs each one in the tick of its deadline. *)
THEOREM NothingOverdue == QueueSpec => []QueueTypeOK
  BY QueueInvariant, PTL DEF IInv

(* The list stays sorted for any number of events and any delays, although
   the search for a place may start in the middle of the list. *)
THEOREM AlwaysSorted == QueueSpec => []Sorted
  BY QueueInvariant, PTL DEF IInv

(* InsertQ never follows the pointer to a deleted event. *)
THEOREM PointerAlwaysLive == QueueSpec => []PointerIsLive
  BY QueueInvariant, PTL DEF IInv

(* ClockTick removes the event whose handler it has run, and no other. *)
THEOREM AlwaysRemovesWhatItRan == QueueSpec => []RemovesWhatItRan
  BY QueueInvariant, PTL DEF IInv

(* All of it together, for any events and any delays. *)
THEOREM AlwaysQueueInv == QueueSpec => []QueueInv
  BY QueueInvariant, PTL DEF IInv, QueueInv

-----------------------------------------------------------------------------
(* The queue implements the alarms.  What is pending is the set of the entries
   of the list, except for the one whose handler has run. *)

Entries(q) == {q[i] : i \in 1..Len(q)}

PendingOf(q, f) == {r \in Entries(q) : r.event # f}

LEMMA PendingFacts ==
    PendingAlarms = PendingOf(queue, firing) /\ PendingAlarms' = PendingOf(queue', firing')
BY DEF PendingAlarms, PendingOf, Entries

(* Between two handlers it is all of the list. *)
LEMMA AllPending ==
    ASSUME NEW q \in Seq(Entry)
    PROVE  PendingOf(q, NULL) = Entries(q)
<1>1. \A r \in Entries(q) : r.event \in Events
  BY EntryFacts DEF Entries
<1> QED
  BY <1>1, NullAssumption DEF NullAssumption, PendingOf

(* An insertion adds the new entry and loses none. *)
LEMMA InsertQEntries ==
    ASSUME QueueTypeOK, NEW e \in Events, NEW d \in Delays, InsertQ(e, d)
    PROVE  Entries(queue') = Entries(queue) \cup {[event |-> e, left |-> d]}
<1> DEFINE x == [event |-> e, left |-> d]
<1>1. d \in Nat /\ Deadline(d) = d
  BY DelaysAssumption DEF DelaysAssumption, Deadline
<1>2. PICK i \in 1..(Len(queue) + 1) : queue' = InsertAt(queue, i, x)
  BY <1>1 DEF InsertQ, Linked
<1>3. x \in Entry /\ queue \in Seq(Entry) /\ Len(queue) \in Nat
  BY <1>1 DEF QueueTypeOK, Entry
<1> HIDE DEF x
<1>4. /\ Len(queue') = Len(queue) + 1
      /\ \A j \in 1..(Len(queue) + 1) :
           queue'[j] = IF j < i THEN queue[j] ELSE IF j = i THEN x ELSE queue[j - 1]
  BY <1>2, <1>3, InsertAtFacts, SMTT(40)
<1>5. ASSUME NEW r \in Entries(queue') PROVE r \in Entries(queue) \cup {x}
  <2>1. PICK j \in 1..(Len(queue) + 1) : queue'[j] = r
    BY <1>4, <1>5 DEF Entries
  <2>2. j # i => \E k \in 1..Len(queue) : r = queue[k]
    BY <1>3, <1>4, <2>1
  <2> QED
    BY <1>4, <2>1, <2>2 DEF Entries
<1>6. ASSUME NEW k \in 1..Len(queue) PROVE queue[k] \in Entries(queue')
  <2>1. CASE k < i
    BY <1>3, <1>4, <2>1 DEF Entries
  <2>2. CASE k >= i
    <3>1. k + 1 \in 1..Len(queue') /\ queue'[k + 1] = queue[k]
      BY <1>3, <1>4, <2>2
    <3> QED
      BY <3>1 DEF Entries
  <2> QED
    BY <1>3, <2>1, <2>2
<1>7. x \in Entries(queue')
  BY <1>3, <1>4 DEF Entries
<1> QED
  BY <1>5, <1>6, <1>7 DEF Entries, x

(* The head is the only entry of its event. *)
LEMMA HeadFacts ==
    ASSUME QueueTypeOK, Sorted, NoDuplicates, queue # <<>>
    PROVE  /\ queue[1] \in Entries(queue)
           /\ \A r \in Entries(queue) : r.event = queue[1].event => r = queue[1]
           /\ \A r \in Entries(queue) : queue[1].left <= r.left
<1>1. Len(queue) \in Nat /\ 1 \in 1..Len(queue)
  BY EntryFacts DEF QueueTypeOK
<1> QED
  BY <1>1 DEF Entries, Sorted, NoDuplicates

LEMMA FreshFacts ==
    ASSUME QueueTypeOK, NEW e, ~Queued(e)
    PROVE  A!Fresh(e) /\ \A r \in Entries(queue) : r.event # e
BY PendingFacts DEF A!Fresh, Queued, Entries, PendingOf

LEMMA ScheduleSets ==
    ASSUME IInv, NEW e \in Events, NEW d \in Delays, Schedule(e, d)
    PROVE  A!Schedule(e, d)
<1>1. /\ QueueTypeOK /\ firing = NULL /\ ~scanning /\ InsertQ(e, d) /\ ~Queued(e)
      /\ scanning' = scanning
  BY DEF IInv, Schedule, FiresInTicks
<1>2. QueueTypeOK' /\ firing' = NULL
  BY <1>1, ScheduleIInv DEF IInv, Schedule
<1>3. PendingAlarms = Entries(queue) /\ PendingAlarms' = Entries(queue')
  BY <1>1, <1>2, PendingFacts, AllPending DEF QueueTypeOK
<1> QED
  BY <1>1, <1>3, InsertQEntries, FreshFacts DEF A!Schedule

LEMMA AdvanceElapses ==
    ASSUME IInv, Advance
    PROVE  A!Elapse
<1>1. /\ QueueTypeOK /\ firing = NULL /\ ~scanning /\ scanning' = TRUE
      /\ queue' = [i \in 1..Len(queue) |-> [queue[i] EXCEPT !.left = @ - 1]]
  BY DEF IInv, Advance, FiresInTicks
<1>2. QueueTypeOK' /\ firing' = NULL
  BY <1>1, AdvanceIInv DEF IInv, Advance
<1>3. PendingAlarms = Entries(queue) /\ PendingAlarms' = Entries(queue')
  BY <1>1, <1>2, PendingFacts, AllPending DEF QueueTypeOK
<1>4. Len(queue) \in Nat /\ Len(queue') = Len(queue)
  BY <1>1 DEF QueueTypeOK
<1>5. Entries(queue') = {[a EXCEPT !.left = @ - 1] : a \in Entries(queue)}
  BY <1>1, <1>4 DEF Entries
<1> QED
  BY <1>1, <1>3, <1>5 DEF A!Elapse

LEMMA RunCallbackRings ==
    ASSUME IInv, RunCallback
    PROVE  \E a \in PendingAlarms : \E more \in A!Rescheduled(a) : A!Ring(a, more)
<1> DEFINE a == queue[1]
<1>1. /\ QueueTypeOK /\ Sorted /\ NoDuplicates /\ queue # <<>> /\ a.left <= 0
      /\ firing = NULL /\ firing' = a.event /\ scanning /\ scanning' = scanning
  BY DEF IInv, RunCallback, Due
<1>2. /\ a \in Entries(queue)
      /\ \A r \in Entries(queue) : r.event = a.event => r = a
      /\ \A r \in Entries(queue) : a.left <= r.left
  BY <1>1, HeadFacts
<1>3. PendingAlarms = Entries(queue)
  BY <1>1, PendingFacts, AllPending DEF QueueTypeOK
<1>4. PendingAlarms' = {r \in Entries(queue') : r.event # a.event}
  BY <1>1, PendingFacts DEF PendingOf
<1> HIDE DEF a
<1>5. CASE UNCHANGED <<queue, lastIns>>
  <2>1. PendingAlarms' = (PendingAlarms \ {a}) \cup {}
    BY <1>2, <1>3, <1>4, <1>5
  <2>2. A!Ring(a, {}) /\ {} \in A!Rescheduled(a)
    BY <1>1, <1>2, <1>3, <2>1 DEF A!Ring, A!Rescheduled
  <2> QED
    BY <1>2, <1>3, <2>2
<1>6. ASSUME NEW e \in Events, NEW d \in Delays, ~Queued(e), InsertQ(e, d)
      PROVE  \E more \in A!Rescheduled(a) : A!Ring(a, more)
  <2> DEFINE x == [event |-> e, left |-> d]
  <2>1. Entries(queue') = Entries(queue) \cup {x}
    BY <1>1, <1>6, InsertQEntries
  <2>2. x.event = e /\ A!Fresh(e) /\ a.event # e
    BY <1>1, <1>2, <1>6, FreshFacts
  <2>3. {x} \in A!Rescheduled(a)
    BY <2>2 DEF A!Rescheduled
  <2> HIDE DEF x
  <2>4. PendingAlarms' = (PendingAlarms \ {a}) \cup {x}
    BY <1>2, <1>3, <1>4, <2>1, <2>2
  <2>5. A!Ring(a, {x})
    BY <1>1, <1>2, <1>3, <2>4 DEF A!Ring
  <2> QED
    BY <2>3, <2>5
<1> QED
  BY <1>2, <1>3, <1>5, <1>6 DEF RunCallback

(* The alarm has rung before. *)
LEMMA RemoveHeadStutters ==
    ASSUME IInv, RemoveHead
    PROVE  UNCHANGED A!vars
<1>1. /\ QueueTypeOK /\ Sorted /\ NoDuplicates /\ queue # <<>>
      /\ queue[1].event = firing
      /\ queue' = Tail(queue) /\ firing' = NULL /\ scanning' = scanning
  BY DEF IInv, RemoveHead, RemovesWhatItRan
<1>2. QueueTypeOK'
  BY RemoveHeadIInv DEF IInv
<1>3. PendingAlarms' = Entries(queue')
  BY <1>1, <1>2, PendingFacts, AllPending DEF QueueTypeOK
<1>4. /\ Len(queue) \in Nat \ {0} /\ Len(queue') = Len(queue) - 1
      /\ \A i \in 1..(Len(queue) - 1) : queue'[i] = queue[i + 1]
  BY <1>1, EntryFacts DEF QueueTypeOK
<1>5. \A i \in 1..Len(queue) : queue[i].event # firing <=> i # 1
  BY <1>1, <1>4 DEF NoDuplicates
<1>6. ASSUME NEW r PROVE r \in PendingAlarms <=> r \in Entries(queue')
  <2>1. r \in PendingAlarms <=> \E i \in 1..Len(queue) : i # 1 /\ r = queue[i]
    BY <1>5 DEF PendingAlarms
  <2>2. r \in Entries(queue') <=> \E i \in 1..(Len(queue) - 1) : r = queue[i + 1]
    BY <1>4 DEF Entries
  <2>3. (\E i \in 1..Len(queue) : i # 1 /\ r = queue[i])
           => \E i \in 1..(Len(queue) - 1) : r = queue[i + 1]
    <3> SUFFICES ASSUME NEW i \in 1..Len(queue), i # 1, r = queue[i]
                 PROVE  \E k \in 1..(Len(queue) - 1) : r = queue[k + 1]
      OBVIOUS
    <3>1. i - 1 \in 1..(Len(queue) - 1) /\ r = queue[(i - 1) + 1]
      BY <1>4
    <3> QED
      BY <3>1
  <2>4. \A i \in 1..(Len(queue) - 1) : i + 1 \in 1..Len(queue) /\ i + 1 # 1
    BY <1>4
  <2> QED
    BY <2>1, <2>2, <2>3, <2>4
<1>7. PendingAlarms = Entries(queue')
  BY <1>6
<1> QED
  BY <1>1, <1>3, <1>7 DEF A!vars

LEMMA EndTickProceeds ==
    ASSUME IInv, EndTick
    PROVE  A!Proceed
<1>1. /\ QueueTypeOK /\ Sorted /\ NoDuplicates /\ firing = NULL /\ ~Due
      /\ scanning /\ scanning' = FALSE /\ UNCHANGED <<queue, firing>>
  BY DEF IInv, EndTick
<1>2. PendingAlarms' = PendingAlarms /\ PendingAlarms = Entries(queue)
  BY <1>1, PendingFacts, AllPending DEF QueueTypeOK
<1>3. \A r \in Entries(queue) : r.left > 0
  <2>1. (NothingDueOutside)'
    BY EndTickIInv DEF IInv
  <2> QED
    BY <1>1, <2>1 DEF NothingDueOutside, Entries
<1> QED
  BY <1>1, <1>2, <1>3 DEF A!Proceed

(* For any events and any delays, every step of the list and of the clock tick
   is one of the alarms or none: an alarm rings once, at its time, and none
   is lost, however insertions by handlers and removals interleave. *)
THEOREM QueueImplementsAlarms == QueueSpec => ImplementsAlarms
<1>1. QueueInit => A!Init
  <2> SUFFICES ASSUME QueueInit PROVE A!Init
    OBVIOUS
  <2>1. Len(queue) = 0 /\ scanning = FALSE
    BY DEF QueueInit
  <2> QED
    BY <2>1 DEF A!Init, PendingAlarms
<1>2. IInv /\ [QueueNext]_queueVars => [A!Next]_(A!vars)
  <2> SUFFICES ASSUME IInv, [QueueNext]_queueVars PROVE [A!Next]_(A!vars)
    OBVIOUS
  <2>1. CASE UNCHANGED queueVars
    BY <2>1 DEF queueVars, A!vars, PendingAlarms
  <2> QED
    BY <2>1, ScheduleSets, AdvanceElapses, RunCallbackRings, RemoveHeadStutters,
       EndTickProceeds DEF QueueNext, Tick, A!Next
<1> QED
  BY <1>1, <1>2, QueueInvariant, PTL DEF QueueSpec, ImplementsAlarms, A!Spec
=================================================================================
