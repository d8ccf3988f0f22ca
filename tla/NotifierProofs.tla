--------------------------- MODULE NotifierProofs ---------------------------
(***************************************************************************)
(* Proofs about Notifier, for any queue, number of attempts and number of  *)
(* alerts.  The invariant says where each alert is: settled, held by the   *)
(* worker or in the queue, which is sorted and newer than what was posted. *)
(***************************************************************************)
EXTENDS Notifier, TLAPS

Queued(a) == \E i \in DOMAIN queue : queue[i] = a

(* join()'s counter is right, and the worker's state fits what it holds.   *)
Counted ==
    Working =>
        /\ sending = NoAlert => unfinished = Len(queue) /\ worker \in {"none", "waiting"}
        /\ sending # NoAlert => unfinished = Len(queue) + 1 /\ worker \in {"posting", "pausing"}
        /\ worker = "none" => emitted = 0

(* No alert is nowhere.                                                    *)
Placed ==
    Working => \A a \in 1 .. emitted : a \in Settled \/ a = sending \/ Queued(a)

(* The queue is sorted; what it holds is newer than what is being sent and *)
(* than what was accepted, and nothing accepted is newer than what is sent. *)
Sorted ==
    Working =>
        /\ \A i \in DOMAIN queue : queue[i] <= emitted
        /\ \A i, j \in DOMAIN queue : i < j => queue[i] < queue[j]
        /\ \A i \in DOMAIN queue : sending < queue[i]
        /\ sending <= emitted
        /\ \A i \in DOMAIN accepted :
              /\ accepted[i] <= emitted
              /\ sending # NoAlert => accepted[i] <= sending
              /\ \A j \in DOMAIN queue : accepted[i] < queue[j]

IInv == TypeOK /\ Counted /\ Placed /\ Sorted /\ InOrder /\ DrainedIsSettled

(* The invariant holds at the start.                                       *)
LEMMA InitInv == Init => IInv
<1> SUFFICES ASSUME Init PROVE IInv
  OBVIOUS
<1> USE NotifierConfig DEF Init, Alerts, NoAlert
<1>1. TypeOK
  BY DEF TypeOK
<1>2. Counted
  BY DEF Counted
<1>3. Placed /\ Sorted
  BY DEF Placed, Sorted
<1>4. InOrder /\ DrainedIsSettled
  BY DEF InOrder, DrainedIsSettled
<1> QED BY <1>1, <1>2, <1>3, <1>4 DEF IInv

(* An alert has a number.                                                  *)
LEMMA NumbersOnly ==
    ASSUME NEW q \in Seq(Alerts), NEW i \in DOMAIN q PROVE q[i] \in Nat
<1>1. q[i] \in Alerts
  OBVIOUS
<1> QED BY <1>1, NotifierConfig DEF Alerts

(* What Append does.                                                       *)
LEMMA AppendFacts ==
    ASSUME NEW S, NEW q \in Seq(S), NEW e \in S
    PROVE  /\ Append(q, e) \in Seq(S)
           /\ Len(q) \in Nat /\ Len(Append(q, e)) = Len(q) + 1
           /\ DOMAIN q = 1 .. Len(q) /\ DOMAIN Append(q, e) = 1 .. Len(q) + 1
           /\ \A i \in DOMAIN Append(q, e) :
                 \/ i = Len(q) + 1 /\ Append(q, e)[i] = e
                 \/ i \in DOMAIN q /\ i < Len(q) + 1 /\ Append(q, e)[i] = q[i]
OBVIOUS

(* An alert goes to the end of the queue, where it is the newest, or is    *)
(* dropped.                                                                *)
LEMMA SendInv == IInv /\ Send => IInv'
<1> SUFFICES ASSUME IInv, Send PROVE IInv'
  OBVIOUS
<1> USE NotifierConfig DEF Alerts, NoAlert
<1> DEFINE new == emitted + 1
<1>0. TypeOK /\ Counted /\ Placed /\ Sorted /\ InOrder /\ Working /\ phase' = "running"
  BY DEF IInv, Send, Working
<1>1. new \in Alerts /\ emitted' = new /\ UNCHANGED <<sending, attempt, accepted, gaveUp>>
  BY <1>0 DEF TypeOK, Send
<1>2. worker' = IF worker = "none" THEN "waiting" ELSE worker
  BY DEF Send
<1>3. \/ Len(queue) < MaxQueue /\ queue' = Append(queue, new) /\ unfinished' = unfinished + 1 /\ dropped' = dropped
      \/ queue' = queue /\ unfinished' = unfinished /\ dropped' = dropped \cup {new}
  BY DEF Send
<1> HIDE DEF new
<1>4. CASE Len(queue) < MaxQueue /\ queue' = Append(queue, new) /\ unfinished' = unfinished + 1 /\ dropped' = dropped
  <2> DEFINE n == Len(queue) + 1
  <2>1. queue' \in Seq(Alerts) /\ Len(queue') = n /\ n \in Nat /\ n \in DOMAIN queue' /\ n \notin DOMAIN queue
    BY <1>0, <1>1, <1>4, AppendFacts DEF TypeOK
  <2>2. \A i \in DOMAIN queue : i \in DOMAIN queue' /\ queue'[i] = queue[i]
    BY <1>0, <1>1, <1>4, AppendFacts DEF TypeOK
  <2>3. queue'[n] = new
    BY <1>0, <1>1, <1>4, AppendFacts DEF TypeOK
  <2>4. \A i \in DOMAIN queue' : i \in Nat /\ (i = n \/ (i \in DOMAIN queue /\ i < n))
    BY <1>0, <1>1, <1>4, AppendFacts DEF TypeOK
  <2>5. TypeOK'
    BY <1>0, <1>1, <1>2, <1>4, <2>1 DEF TypeOK
  <2>6. Counted'
    BY <1>0, <1>1, <1>2, <1>4, <2>1 DEF TypeOK, Counted, Working
  <2>7. Placed'
    <3> SUFFICES ASSUME NEW a \in 1 .. emitted' PROVE (a \in Settled \/ a = sending \/ Queued(a))'
      BY DEF Placed
    <3>1. CASE a = new
      BY <2>1, <2>3, <3>1 DEF Queued
    <3>2. CASE a # new
      <4>1. a \in 1 .. emitted
        BY <1>0, <1>1, <3>2 DEF TypeOK, new
      <4> QED BY <1>0, <1>1, <1>4, <2>2, <4>1 DEF Placed, Queued, Settled, WasAccepted
    <3> QED BY <3>1, <3>2
  <2>8. Sorted'
    <3>1. \A i \in DOMAIN queue : queue[i] < new /\ queue[i] \in Nat
      BY <1>0, <1>1 DEF TypeOK, Sorted, new
    <3>2. \A i \in DOMAIN accepted : accepted[i] < new /\ accepted[i] \in Nat
      BY <1>0, <1>1 DEF TypeOK, Sorted, new
    <3>3. sending < new
      BY <1>0 DEF TypeOK, Sorted, new
    <3>4. ASSUME NEW i \in DOMAIN queue', NEW j \in DOMAIN queue', i < j PROVE queue'[i] < queue'[j]
      <4>1. i \in DOMAIN queue
        BY <2>1, <2>4, <3>4
      <4>2. CASE j = n
        BY <2>2, <2>3, <3>1, <4>1, <4>2
      <4>3. CASE j \in DOMAIN queue
        BY <1>0, <2>2, <3>4, <4>1, <4>3 DEF Sorted
      <4> QED BY <2>4, <4>2, <4>3
    <3>5. \A i \in DOMAIN queue' : queue'[i] <= new /\ sending < queue'[i]
      BY <1>0, <2>2, <2>3, <2>4, <3>1, <3>3, <1>1 DEF Sorted
    <3>6. \A i \in DOMAIN accepted : \A j \in DOMAIN queue' : accepted[i] < queue'[j]
      BY <1>0, <2>2, <2>3, <2>4, <3>2 DEF Sorted
    <3> QED BY <1>0, <1>1, <3>2, <3>3, <3>4, <3>5, <3>6 DEF Sorted, TypeOK
  <2>9. InOrder' /\ DrainedIsSettled'
    BY <1>0, <1>1 DEF InOrder, DrainedIsSettled
  <2> QED BY <2>5, <2>6, <2>7, <2>8, <2>9 DEF IInv
<1>5. CASE queue' = queue /\ unfinished' = unfinished /\ dropped' = dropped \cup {new}
  <2>1. TypeOK'
    BY <1>0, <1>1, <1>2, <1>5 DEF TypeOK
  <2>2. Counted'
    BY <1>0, <1>1, <1>2, <1>5 DEF TypeOK, Counted
  <2>3. Placed'
    <3> SUFFICES ASSUME NEW a \in 1 .. emitted' PROVE (a \in Settled \/ a = sending \/ Queued(a))'
      BY DEF Placed
    <3>1. a = new \/ a \in 1 .. emitted
      BY <1>0, <1>1 DEF TypeOK, new
    <3> QED BY <1>0, <1>1, <1>5, <3>1 DEF Placed, Queued, Settled, WasAccepted
  <2>4. Sorted'
    BY <1>0, <1>1, <1>5 DEF TypeOK, Sorted, new
  <2>5. InOrder' /\ DrainedIsSettled'
    BY <1>0, <1>1 DEF InOrder, DrainedIsSettled
  <2> QED BY <2>1, <2>2, <2>3, <2>4, <2>5 DEF IInv
<1> QED BY <1>3, <1>4, <1>5

(* When the process ends, only what "drained" claims has to be shown.      *)
LEMMA CancelInv ==
    ASSUME IInv, NEW end \in {"drained", "cut"}, Cancel(end),
           end = "drained" => 1 .. emitted \subseteq Settled
    PROVE  IInv'
<1>1. TypeOK'
  BY DEF IInv, TypeOK, Cancel
<1>2. ~Working'
  BY DEF Working, Cancel
<1>3. InOrder'
  BY DEF IInv, InOrder, Cancel
<1>4. DrainedIsSettled'
  BY DEF DrainedIsSettled, Cancel, Settled, WasAccepted
<1> QED BY <1>1, <1>2, <1>3, <1>4 DEF IInv, Counted, Placed, Sorted

(* close() and the end of the process.                                     *)
LEMMA EndInv == IInv /\ (Close \/ Joined \/ DrainTimeout \/ Kill) => IInv'
<1> SUFFICES ASSUME IInv, Close \/ Joined \/ DrainTimeout \/ Kill PROVE IInv'
  OBVIOUS
<1>0. TypeOK /\ Counted /\ Placed /\ Sorted /\ InOrder
  BY DEF IInv
<1>1. CASE Close
  <2>1. phase = "running" /\ UNCHANGED <<emitted, queue, unfinished, worker, sending, attempt, ghosts>>
    BY <1>1 DEF Close, ghosts
  <2>2. TypeOK'
    BY <1>0, <1>1, <2>1 DEF Close, TypeOK, ghosts
  <2>3. Counted' /\ Sorted' /\ InOrder'
    BY <1>0, <2>1 DEF Counted, Sorted, InOrder, Working, ghosts
  <2>4. Placed'
    BY <1>0, <2>1 DEF Placed, Working, Queued, Settled, WasAccepted, ghosts
  <2>5. DrainedIsSettled'
    <3>1. phase' = "drained" => emitted = 0
      BY <1>0, <1>1 DEF Close, Counted, Working
    <3> QED BY <2>1, <3>1 DEF DrainedIsSettled
  <2> QED BY <2>2, <2>3, <2>4, <2>5 DEF IInv
<1>2. CASE Joined
  <2>1. queue = <<>> /\ sending = NoAlert
    BY <1>0, <1>2 DEF Joined, TypeOK, Counted, Working
  <2>2. 1 .. emitted \subseteq Settled
    BY <1>0, <1>2, <2>1 DEF Joined, TypeOK, Placed, Queued, Working, NoAlert
  <2> QED BY <1>2, <2>2, CancelInv DEF Joined
<1>3. CASE DrainTimeout \/ Kill
  BY <1>3, CancelInv DEF DrainTimeout, Kill
<1> QED BY <1>1, <1>2, <1>3

(* Taking the head of the queue: it is now the alert the worker holds.     *)
LEMMA TakeInv == IInv /\ Take => IInv'
<1> SUFFICES ASSUME IInv, Take PROVE IInv'
  OBVIOUS
<1> USE DEF NoAlert
<1>0. TypeOK /\ Counted /\ Placed /\ Sorted /\ InOrder /\ DrainedIsSettled /\ Working
  BY DEF IInv, Take
<1>1. /\ sending' = Head(queue) /\ queue' = Tail(queue) /\ attempt' = 1 /\ worker' = "posting"
      /\ UNCHANGED <<emitted, unfinished, phase, accepted, gaveUp, dropped>>
      /\ queue # <<>> /\ worker = "waiting"
  BY DEF Take, ghosts
<1>2. /\ queue' \in Seq(Alerts) /\ Len(queue') = Len(queue) - 1 /\ Len(queue) \in Nat \ {0}
      /\ sending' = queue[1] /\ sending' \in Alerts /\ 1 \in DOMAIN queue
  BY <1>0, <1>1 DEF TypeOK
<1>3. \A i \in DOMAIN queue' : i \in Nat /\ i + 1 \in DOMAIN queue /\ queue'[i] = queue[i + 1] /\ 1 < i + 1
  BY <1>0, <1>1 DEF TypeOK
<1>4. \A i \in DOMAIN queue : i = 1 \/ (i - 1 \in DOMAIN queue' /\ queue'[i - 1] = queue[i])
  BY <1>0, <1>1 DEF TypeOK
<1>5. TypeOK'
  BY <1>0, <1>1, <1>2, NotifierConfig DEF TypeOK
<1>6. Counted'
  <2>1. unfinished = Len(queue)
    BY <1>0, <1>1 DEF Counted
  <2>2. sending' # NoAlert /\ unfinished' = Len(queue') + 1
    BY <1>1, <1>2, <2>1 DEF Alerts
  <2> QED BY <1>1, <2>2 DEF Counted
<1>7. Placed'
  <2> SUFFICES ASSUME NEW a \in 1 .. emitted PROVE (a \in Settled \/ a = sending \/ Queued(a))'
    BY <1>1 DEF Placed
  <2>1. a \in Settled \/ Queued(a)
    BY <1>0, <1>1 DEF Placed, Counted
  <2>2. Queued(a) => a = sending' \/ Queued(a)'
    BY <1>2, <1>4 DEF Queued
  <2> QED BY <1>1, <2>1, <2>2 DEF Settled, WasAccepted
<1>8. Sorted'
  <2>1. \A i \in DOMAIN queue' : queue'[i] <= emitted /\ sending' < queue'[i]
    BY <1>0, <1>2, <1>3 DEF Sorted
  <2>2. ASSUME NEW i \in DOMAIN queue', NEW j \in DOMAIN queue', i < j PROVE queue'[i] < queue'[j]
    <3>1. i + 1 < j + 1 /\ i + 1 \in DOMAIN queue /\ j + 1 \in DOMAIN queue
      BY <1>3, <2>2
    <3> QED BY <1>0, <1>3, <3>1 DEF Sorted
  <2>3. sending' <= emitted
    BY <1>0, <1>2 DEF Sorted
  <2>4. ASSUME NEW i \in DOMAIN accepted
        PROVE  /\ accepted[i] <= emitted /\ accepted[i] <= sending'
               /\ \A j \in DOMAIN queue' : accepted[i] < queue'[j]
    <3>1. accepted[i] \in Nat /\ sending' \in Nat
      BY <1>0, <1>2, NumbersOnly, NotifierConfig DEF TypeOK, Alerts
    <3>2. accepted[i] < sending'
      BY <1>0, <1>2 DEF Sorted
    <3>3. accepted[i] <= emitted
      BY <1>0 DEF Sorted
    <3>4. \A j \in DOMAIN queue' : accepted[i] < queue'[j]
      BY <1>0, <1>3 DEF Sorted
    <3> QED BY <3>1, <3>2, <3>3, <3>4
  <2> QED BY <1>1, <2>1, <2>2, <2>3, <2>4 DEF Sorted
<1>9. InOrder' /\ DrainedIsSettled'
  BY <1>0, <1>1 DEF InOrder, DrainedIsSettled, Working
<1> QED BY <1>5, <1>6, <1>7, <1>8, <1>9 DEF IInv

(* Which of the rest moves, where no alert changes its place.              *)
LEMMA WakeInv == IInv /\ (Wake \/ Stopped) => IInv'
<1> SUFFICES ASSUME IInv, Wake \/ Stopped PROVE IInv'
  OBVIOUS
<1>0. TypeOK /\ Counted /\ Placed /\ Sorted /\ InOrder /\ DrainedIsSettled
  BY DEF IInv
<1>1. UNCHANGED <<emitted, queue, unfinished, sending, attempt, phase, accepted, gaveUp, dropped>>
  BY DEF Wake, Stopped, vars, ghosts
<1>2. TypeOK' /\ Counted'
  BY <1>0, <1>1 DEF TypeOK, Counted, Working, Wake, Stopped, vars
<1>3. Placed' /\ Sorted' /\ InOrder' /\ DrainedIsSettled'
  BY <1>0, <1>1 DEF Placed, Sorted, InOrder, DrainedIsSettled, Working, Queued, Settled, WasAccepted
<1> QED BY <1>2, <1>3 DEF IInv

(* What a post leaves: Telegram has the message or not (r), and the worker *)
(* keeps the message for another try, or is done with it because it was    *)
(* accepted or given up.                                                   *)
LEMMA PostInv ==
    ASSUME IInv, worker = "posting", Working,
           UNCHANGED <<emitted, queue, phase, dropped>>,
           accepted' \in {accepted, Append(accepted, sending)},
           \/ UNCHANGED <<unfinished, sending, gaveUp>> /\ worker' = "pausing" /\ attempt' \in 0 .. Attempts
           \/ /\ Done
              /\ \/ gaveUp' = gaveUp /\ accepted' = Append(accepted, sending)
                 \/ gaveUp' = gaveUp \cup {sending}
    PROVE  IInv'
<1> USE DEF NoAlert
<1>0. TypeOK /\ Counted /\ Placed /\ Sorted /\ InOrder /\ DrainedIsSettled
  BY DEF IInv
<1>1. sending \in Alerts /\ unfinished = Len(queue) + 1 /\ Len(queue) \in Nat /\ gaveUp \subseteq gaveUp'
  BY <1>0 DEF TypeOK, Counted, Done
<1>2. /\ accepted' \in Seq(Alerts)
      /\ \A i \in DOMAIN accepted : i \in DOMAIN accepted' /\ accepted'[i] = accepted[i]
      /\ \A i \in DOMAIN accepted' :
            \/ i \in DOMAIN accepted /\ accepted'[i] = accepted[i]
            \/ i \notin DOMAIN accepted /\ accepted'[i] = sending /\ \A j \in DOMAIN accepted' : ~ (i < j)
  <2>0. accepted \in Seq(Alerts) /\ sending \in Alerts
    BY <1>0, <1>1 DEF TypeOK
  <2>1. CASE accepted' = accepted
    BY <2>0, <2>1
  <2>2. CASE accepted' = Append(accepted, sending)
    <3>1. /\ Len(accepted) \in Nat /\ DOMAIN accepted = 1 .. Len(accepted)
          /\ DOMAIN accepted' = 1 .. Len(accepted) + 1
          /\ accepted' \in Seq(Alerts)
      BY <2>0, <2>2, AppendFacts
    <3>2. \A i \in DOMAIN accepted' :
             \/ i = Len(accepted) + 1 /\ accepted'[i] = sending
             \/ i \in DOMAIN accepted /\ i < Len(accepted) + 1 /\ accepted'[i] = accepted[i]
      BY <2>0, <2>2, AppendFacts
    <3> QED BY <3>1, <3>2
  <2> QED BY <2>1, <2>2
<1>3. TypeOK'
  BY <1>0, <1>1, <1>2, NotifierConfig DEF TypeOK, Done
<1>4. Counted'
  BY <1>0, <1>1 DEF Counted, Done, Alerts
<1>5. Settled \subseteq Settled' /\ (sending \in Settled' \/ sending' = sending)
  <2>1. WasAccepted \subseteq WasAccepted'
    BY <1>2 DEF WasAccepted
  <2>2. accepted' = Append(accepted, sending) => sending \in WasAccepted'
    BY <1>0, <1>1, AppendFacts DEF WasAccepted, TypeOK
  <2> QED BY <1>1, <2>1, <2>2 DEF Settled, Done
<1>6. Placed'
  BY <1>0, <1>5 DEF Placed, Queued
<1>7. Sorted'
  <2>1. /\ \A i \in DOMAIN queue : queue[i] <= emitted /\ sending < queue[i] /\ queue[i] \in Nat
        /\ \A i, j \in DOMAIN queue : i < j => queue[i] < queue[j]
        /\ sending <= emitted /\ sending \in Nat /\ emitted \in Nat
    <3>1. \A i \in DOMAIN queue : queue[i] \in Nat
      BY <1>0, NumbersOnly DEF TypeOK
    <3>2. sending \in Nat /\ emitted \in Nat
      BY <1>0, <1>1 DEF TypeOK, Alerts
    <3> QED BY <1>0, <3>1, <3>2 DEF Sorted
  <2>2. ASSUME NEW i \in DOMAIN accepted'
        PROVE  accepted'[i] <= sending /\ accepted'[i] \in Nat
    <3>1. CASE i \in DOMAIN accepted
      <4>1. accepted[i] \in Nat /\ sending # NoAlert
        BY <1>0, <1>1, <3>1, NumbersOnly DEF TypeOK, Alerts
      <4>2. accepted[i] <= sending
        BY <1>0, <4>1, <3>1 DEF Sorted
      <4> QED BY <1>2, <3>1, <4>1, <4>2
    <3> QED BY <1>2, <2>1, <3>1
  <2>3. sending' = sending \/ sending' = NoAlert
    BY DEF Done
  <2>4. \A i \in DOMAIN queue' : sending' < queue'[i]
    BY <2>1, <2>3, <1>0 DEF TypeOK, Alerts
  <2>5. \A i \in DOMAIN accepted' :
          /\ accepted'[i] <= emitted'
          /\ sending' # NoAlert => accepted'[i] <= sending'
          /\ \A j \in DOMAIN queue' : accepted'[i] < queue'[j]
    BY <2>1, <2>2, <2>3
  <2> QED BY <2>1, <2>3, <2>4, <2>5 DEF Sorted
<1>8. InOrder'
  BY <1>0, <1>1, <1>2 DEF InOrder, Sorted, TypeOK, Alerts
<1>9. DrainedIsSettled'
  BY DEF DrainedIsSettled, Working
<1> QED BY <1>3, <1>4, <1>6, <1>7, <1>8, <1>9 DEF IInv

(* The worker keeps it.                                                    *)
LEMMA WorkInv == IInv /\ Work => IInv'
<1> SUFFICES ASSUME IInv, Work PROVE IInv'
  OBVIOUS
<1>0. TypeOK /\ Counted
  BY DEF IInv
<1>1. CASE Take
  BY <1>1, TakeInv
<1>2. CASE Accept
  BY <1>2, PostInv DEF Accept, Done
<1>3. CASE Reject
  BY <1>3, PostInv DEF Reject, Done
<1>4. CASE Fail
  <2>1. Pause => attempt' \in 0 .. Attempts
    BY <1>0, NotifierConfig DEF Pause, TypeOK
  <2> QED BY <1>4, <2>1, PostInv DEF Fail, Pause, GiveUp, Done
<1>5. CASE Wake
  BY <1>5, WakeInv
<1> QED BY <1>1, <1>2, <1>3, <1>4, <1>5 DEF Work

(* IInv is an inductive invariant of the notifier.                         *)
THEOREM Inductive == Spec => []IInv
<1>1. Init => IInv
  BY InitInv
<1>2. IInv /\ [Next]_vars => IInv'
  <2>1. IInv /\ UNCHANGED vars => IInv'
    <3> SUFFICES ASSUME IInv, UNCHANGED vars PROVE IInv'
      OBVIOUS
    <3> QED BY DEF IInv, TypeOK, Counted, Placed, Sorted, InOrder, DrainedIsSettled, Working, Queued,
               Settled, WasAccepted, vars, ghosts
  <2> QED BY <2>1, SendInv, EndInv, WorkInv, WakeInv DEF Next
<1> QED BY <1>1, <1>2, PTL DEF Spec

(* Every variable keeps its type, so join()'s counter never goes below     *)
(* zero and the queue never holds more than it may.                        *)
THEOREM TypeCorrect == Spec => []TypeOK
BY Inductive, PTL DEF IInv

(* A close() that ends without a time-out has left no alert behind.        *)
THEOREM DrainLosesNothing == Spec => []DrainedIsSettled
BY Inductive, PTL DEF IInv

(* No alert overtakes an older one on its way to Telegram.                 *)
THEOREM AlertsInOrder == Spec => []InOrder
BY Inductive, PTL DEF IInv

-----------------------------------------------------------------------------
(* How long an alert waits.  The liveness EveryAlertSettled rests on the   *)
(* worker getting on; what it does then needs no fairness to be stated: so *)
(* many of its steps at most come before the alert's fate is settled, and  *)
(* nothing that happens meanwhile adds to them.                            *)

(* Posting a message and pausing after it, for each attempt.               *)
Steps == 2 * Attempts

(* What may still have to be done for the alert the worker holds.          *)
OnHand ==
    CASE worker = "posting" -> 2 * (Attempts - attempt) + 1
      [] worker = "pausing" -> 2 * (Attempts - attempt) + 2
      [] OTHER -> 0

At(q, a) == CHOOSE i \in DOMAIN q : q[i] = a

Place(a) == IF a = sending THEN 0 ELSE At(queue, a)

WorkBefore(a) == OnHand + Place(a) * Steps

Waiting(a) == Working /\ a \in 1 .. emitted /\ a \notin Settled

(* An alert that waits is at most so many steps of the worker from its end. *)
SoonSettled == \A a \in Alerts : Waiting(a) => WorkBefore(a) \in 1 .. (MaxQueue + 1) * Steps

(* Every step of the worker brings it nearer; no other step, and no later  *)
(* alert, puts it off.                                                     *)
TurnComes ==
    [][\A a \in Alerts : Waiting(a) /\ Waiting(a)' =>
          /\ WorkBefore(a)' <= WorkBefore(a)
          /\ Work => WorkBefore(a)' < WorkBefore(a)]_vars

(* The attempt being made is one of those allowed.                         *)
Tried == Working /\ worker \in {"posting", "pausing"} => attempt \in 1 .. Attempts

LEMMA TriedHolds == Spec => []Tried
<1>1. Init => Tried
  BY DEF Init, Tried
<1>2. Tried /\ [Next]_vars => Tried'
  <2> SUFFICES ASSUME Tried, [Next]_vars PROVE Tried'
    OBVIOUS
  <2> USE NotifierConfig DEF Tried, Working
  <2>1. CASE Send
    BY <2>1 DEF Send
  <2>2. CASE Close \/ Joined \/ DrainTimeout \/ Kill
    BY <2>2 DEF Close, Joined, DrainTimeout, Kill, Cancel
  <2>3. CASE Take \/ Accept \/ Reject \/ Wake
    BY <2>3 DEF Take, Accept, Reject, Wake, Done
  <2>4. CASE Fail
    BY <2>4 DEF Fail, Pause, GiveUp, Done
  <2>5. CASE Stopped \/ UNCHANGED vars
    BY <2>5 DEF Stopped, vars
  <2> QED BY <2>1, <2>2, <2>3, <2>4, <2>5 DEF Next, Work
<1> QED BY <1>1, <1>2, PTL DEF Spec

(* In a sorted queue an alert has one place.                               *)
LEMMA AtIs ==
    ASSUME NEW q \in Seq(Alerts), \A i, j \in DOMAIN q : i < j => q[i] < q[j],
           NEW a, NEW i \in DOMAIN q, q[i] = a
    PROVE  At(q, a) = i
<1>1. At(q, a) \in DOMAIN q /\ q[At(q, a)] = a
  BY DEF At
<1>2. \A j \in DOMAIN q : j \in Nat /\ q[j] \in Nat
  BY NumbersOnly
<1> QED BY <1>1, <1>2

(* An alert that waits is held by the worker, or has its place in the queue. *)
LEMMA PlaceIs ==
    ASSUME IInv, NEW a \in Alerts, Waiting(a)
    PROVE  \/ a = sending /\ Place(a) = 0
           \/ /\ a # sending
              /\ Place(a) \in DOMAIN queue /\ Place(a) \in 1 .. MaxQueue
              /\ queue[Place(a)] = a
<1>1. a = sending \/ Queued(a)
  BY DEF IInv, Placed, Waiting
<1>2. CASE a = sending
  BY <1>2 DEF Place
<1>3. CASE a # sending
  <2>1. PICK i \in DOMAIN queue : queue[i] = a
    BY <1>1, <1>3 DEF Queued
  <2>2. At(queue, a) \in DOMAIN queue /\ queue[At(queue, a)] = a
    BY <2>1 DEF At
  <2>3. DOMAIN queue \subseteq 1 .. MaxQueue
    BY NotifierConfig DEF IInv, TypeOK
  <2> QED BY <1>3, <2>2, <2>3 DEF Place
<1> QED BY <1>2, <1>3

(* The place of an alert in the queue after the step.                      *)
LEMMA PlaceNext ==
    ASSUME IInv', Working', NEW a, a # sending',
           NEW i \in DOMAIN queue', queue'[i] = a
    PROVE  Place(a)' = i
<1>1. queue' \in Seq(Alerts) /\ \A j, k \in DOMAIN queue' : j < k => queue'[j] < queue'[k]
  BY DEF IInv, TypeOK, Sorted
<1>2. At(queue', a) = i
  BY <1>1, AtIs
<1> QED BY <1>2 DEF Place

(* What the alert on hand may cost; nothing, when there is none.           *)
LEMMA OnHandIs ==
    ASSUME IInv, Tried, Working
    PROVE  /\ OnHand \in 0 .. Steps /\ Steps \in Nat
           /\ sending # NoAlert => OnHand >= 1
<1> USE NotifierConfig DEF IInv, OnHand, Steps
<1>1. CASE worker \in {"posting", "pausing"}
  BY <1>1 DEF Tried
<1>2. CASE worker \notin {"posting", "pausing"}
  BY <1>2 DEF Counted
<1> QED BY <1>1, <1>2

(* A place further costs all the steps of an alert more.                   *)
LEMMA Places ==
    ASSUME NEW p \in Nat, NEW n \in Nat, NEW s \in Nat, p <= n
    PROVE  /\ p * s \in Nat /\ p * s <= n * s
           /\ p >= 1 => p * s = (p - 1) * s + s /\ (p - 1) * s \in Nat
           /\ (n + 1) * s = n * s + s
<1>1. p * s \in Nat /\ (n + 1) * s = n * s + s
  OBVIOUS
<1>2. n * s = p * s + (n - p) * s /\ (n - p) * s \in Nat
  OBVIOUS
<1>3. p >= 1 => p * s = (p - 1) * s + s /\ (p - 1) * s \in Nat
  OBVIOUS
<1>4. n * s \in Nat
  OBVIOUS
<1> QED BY <1>1, <1>2, <1>3, <1>4

(* The bound.                                                              *)
LEMMA SoonIs == IInv /\ Tried => SoonSettled
<1> SUFFICES ASSUME IInv, Tried, NEW a \in Alerts, Waiting(a)
             PROVE  WorkBefore(a) \in 1 .. (MaxQueue + 1) * Steps
  BY DEF SoonSettled
<1>1. OnHand \in 0 .. Steps /\ Steps \in Nat \ {0} /\ (sending # NoAlert => OnHand >= 1)
  BY OnHandIs, NotifierConfig DEF Waiting, Steps
<1>2. Place(a) \in 0 .. MaxQueue /\ (Place(a) = 0 => sending # NoAlert)
  BY PlaceIs, NotifierConfig DEF Alerts, NoAlert
<1>3. /\ Place(a) * Steps \in Nat /\ Place(a) * Steps <= MaxQueue * Steps
      /\ Place(a) >= 1 => Place(a) * Steps = (Place(a) - 1) * Steps + Steps /\ (Place(a) - 1) * Steps \in Nat
      /\ (MaxQueue + 1) * Steps = MaxQueue * Steps + Steps
  BY <1>1, <1>2, Places, NotifierConfig
<1>4. MaxQueue * Steps \in Nat
  BY <1>1, NotifierConfig
<1> HIDE DEF Steps
<1> DEFINE before == Place(a) * Steps  most == MaxQueue * Steps
<1>5. before \in Nat /\ before <= most /\ most \in Nat /\ (MaxQueue + 1) * Steps = most + Steps
  BY <1>3, <1>4
<1>6. Place(a) >= 1 => before >= Steps
  <2> DEFINE rest == (Place(a) - 1) * Steps
  <2>1. Place(a) >= 1 => before = rest + Steps /\ rest \in Nat
    BY <1>3
  <2> HIDE DEF before, rest
  <2> QED BY <1>1, <2>1
<1>7. WorkBefore(a) = OnHand + before
  BY DEF WorkBefore
<1> HIDE DEF before, most
<1>8. WorkBefore(a) >= 1
  BY <1>1, <1>2, <1>5, <1>6, <1>7
<1>9. WorkBefore(a) \in Int /\ WorkBefore(a) <= most + Steps
  BY <1>1, <1>5, <1>7
<1> QED BY <1>1, <1>5, <1>8, <1>9

(* One step of the worker: with the alert on hand it gets on, and taking   *)
(* the next one moves the whole queue up.                                  *)
LEMMA WorkGetsOn ==
    ASSUME IInv, IInv', Tried, Work, NEW a \in Alerts, Waiting(a), Waiting(a)'
    PROVE  WorkBefore(a)' < WorkBefore(a)
<1> USE NotifierConfig
<1>0. Working /\ Working' /\ OnHand \in 0 .. Steps /\ Steps \in Nat /\ Steps = 2 * Attempts
  BY OnHandIs DEF Waiting, Steps
<1>1. Place(a) \in 0 .. MaxQueue
  BY PlaceIs
<1>2. Place(a) * Steps \in Nat
  BY <1>0, <1>1, Places
<1>3. CASE Take
  <2>1. /\ sending = NoAlert /\ OnHand = 0 /\ queue \in Seq(Alerts) /\ queue # <<>>
        /\ sending' = Head(queue) /\ queue' = Tail(queue) /\ worker' = "posting" /\ attempt' = 1
    BY <1>0, <1>3 DEF Take, IInv, TypeOK, Counted, OnHand
  <2>2. OnHand' = Steps - 1
    BY <1>0, <2>1 DEF OnHand
  <2>3. a # sending
    BY <2>1 DEF Alerts, NoAlert
  <2>4. Place(a) \in DOMAIN queue /\ queue[Place(a)] = a /\ Place(a) >= 1
    BY <2>3, PlaceIs
  <2>5. Place(a)' = Place(a) - 1
    <3>1. CASE Place(a) = 1
      BY <2>1, <2>4, <3>1 DEF Place
    <3>2. CASE Place(a) # 1
      <4> DEFINE i == Place(a) - 1
      <4>1. i \in DOMAIN queue' /\ queue'[i] = a
        BY <1>1, <2>1, <2>4, <3>2
      <4>2. queue'[i] > sending'
        BY <1>0, <4>1 DEF IInv, Sorted
      <4>3. a # sending'
        BY <4>1, <4>2 DEF Alerts
      <4> HIDE DEF i
      <4>4. Place(a)' = i
        BY <1>0, <4>1, <4>3, PlaceNext
      <4> QED BY <4>4 DEF i
    <3> QED BY <3>1, <3>2
  <2>6. Place(a) * Steps = (Place(a) - 1) * Steps + Steps /\ (Place(a) - 1) * Steps \in Nat
    BY <1>0, <1>1, <2>4, Places
  <2>7. WorkBefore(a) = Place(a) * Steps
    BY <1>2, <2>1 DEF WorkBefore
  <2>8. WorkBefore(a)' = (Steps - 1) + (Place(a) - 1) * Steps
    BY <2>2, <2>5 DEF WorkBefore, Steps
  <2> DEFINE less == (Place(a) - 1) * Steps
  <2>9. WorkBefore(a) = less + Steps /\ WorkBefore(a)' = (Steps - 1) + less /\ less \in Nat
    BY <2>6, <2>7, <2>8
  <2> HIDE DEF less
  <2> QED BY <1>0, <2>9
<1>4. CASE Wake \/ (Fail /\ Pause)
  <2>1. UNCHANGED <<queue, sending>>
    BY <1>4 DEF Wake, Pause
  <2>2. OnHand' = OnHand - 1 /\ OnHand \in Int
    BY <1>0, <1>4 DEF Wake, Fail, Pause, Tried, OnHand
  <2>3. WorkBefore(a)' = (OnHand - 1) + Place(a) * Steps
    BY <2>1, <2>2 DEF WorkBefore, Place, Steps
  <2> DEFINE before == Place(a) * Steps
  <2>4. WorkBefore(a) = OnHand + before /\ WorkBefore(a)' = (OnHand - 1) + before /\ before \in Nat
    BY <1>2, <2>3 DEF WorkBefore
  <2> HIDE DEF before
  <2> QED BY <2>2, <2>4
<1>5. CASE worker = "posting" /\ Done /\ (sending \in Settled' \/ a # sending)
  <2>1. OnHand >= 1 /\ OnHand' = 0 /\ sending' = NoAlert /\ queue' = queue
    BY <1>0, <1>5 DEF OnHand, Tried, Done
  <2>2. a # sending
    BY <1>5 DEF Waiting
  <2>3. Place(a)' = Place(a)
    <3>1. a # sending'
      BY <2>1 DEF Alerts, NoAlert
    <3>2. Place(a) \in DOMAIN queue /\ queue[Place(a)] = a
      BY <2>2, PlaceIs
    <3> QED BY <1>0, <2>1, <3>1, <3>2, PlaceNext
  <2>4. WorkBefore(a)' = 0 + Place(a) * Steps
    BY <2>1, <2>3 DEF WorkBefore, Steps
  <2> DEFINE before == Place(a) * Steps
  <2>5. WorkBefore(a) = OnHand + before /\ WorkBefore(a)' = 0 + before /\ before \in Nat
    BY <1>2, <2>4 DEF WorkBefore
  <2> HIDE DEF before
  <2> QED BY <1>0, <2>1, <2>5
<1>6. CASE Accept \/ Reject \/ (Fail /\ GiveUp)
  <2>1. worker = "posting" /\ Done
    BY <1>6 DEF Accept, Reject, Fail, GiveUp
  <2>2. sending \in Alerts /\ accepted \in Seq(Alerts)
    BY <1>0, <2>1 DEF IInv, TypeOK, Counted
  <2>3. CASE Accept
    <3>1. accepted' = Append(accepted, sending)
      BY <2>3 DEF Accept
    <3>2. sending \in WasAccepted'
      BY <2>2, <3>1, AppendFacts DEF WasAccepted
    <3> QED BY <1>5, <2>1, <3>2 DEF Settled
  <2>4. CASE Reject \/ (Fail /\ GiveUp)
    <3>1. sending \in gaveUp'
      BY <2>4 DEF Reject, GiveUp
    <3> QED BY <1>5, <2>1, <3>1 DEF Settled
  <2> QED BY <1>6, <2>3, <2>4
<1>7. Fail => Pause \/ GiveUp
  BY DEF Fail
<1> QED BY <1>3, <1>4, <1>6, <1>7 DEF Work

(* What others do leaves the worker and the places in the queue alone: a   *)
(* new alert goes behind them.                                             *)
LEMMA OthersDoNotDelay ==
    ASSUME IInv, IInv', [Next]_vars, ~Work, NEW a \in Alerts, Waiting(a), Waiting(a)'
    PROVE  WorkBefore(a)' = WorkBefore(a)
<1>0. Working /\ Working'
  BY DEF Waiting
<1>1. CASE Send
  <2>1. sending' = sending /\ attempt' = attempt
    BY <1>1 DEF Send
  <2>2. OnHand' = OnHand
    BY <1>1, <2>1 DEF Send, OnHand
  <2>3. Place(a)' = Place(a)
    <3>1. CASE a = sending
      BY <2>1, <3>1 DEF Place
    <3>2. CASE a # sending
      <4>1. Place(a) \in DOMAIN queue /\ queue[Place(a)] = a
        BY <3>2, PlaceIs
      <4>2. queue \in Seq(Alerts) /\ (queue' = queue \/ (emitted' \in Alerts /\ queue' = Append(queue, emitted')))
        BY <1>1, NotifierConfig DEF Send, IInv, TypeOK, Alerts
      <4>3. Place(a) \in DOMAIN queue' /\ queue'[Place(a)] = a
        BY <4>1, <4>2
      <4> HIDE DEF Place
      <4>4. PICK i \in DOMAIN queue' : i = Place(a) /\ queue'[i] = a
        BY <4>3
      <4>5. Place(a)' = i
        BY <1>0, <2>1, <3>2, <4>4, PlaceNext
      <4> QED BY <4>4, <4>5
    <3> QED BY <3>1, <3>2
  <2> QED BY <2>2, <2>3 DEF WorkBefore, Steps
<1>2. CASE Close \/ Stopped \/ UNCHANGED vars
  <2>1. UNCHANGED <<queue, worker, sending, attempt>>
    BY <1>2 DEF Close, Stopped, vars
  <2> QED BY <2>1 DEF WorkBefore, OnHand, Place, Steps
<1>3. ~(Joined \/ DrainTimeout \/ Kill)
  BY <1>0 DEF Joined, DrainTimeout, Kill, Cancel, Working
<1> QED BY <1>1, <1>2, <1>3 DEF Next

(* A queued alert is settled within so many steps of the worker as its     *)
(* place in the queue and the attempts allow, whatever Telegram answers    *)
(* and however many alerts are emitted after it: of EveryAlertSettled, all *)
(* that does not need fairness.                                            *)
THEOREM AlertsAreNotPutOff == Spec => []SoonSettled /\ TurnComes
<1>1. IInv /\ IInv' /\ Tried /\ SoonSettled' /\ [Next]_vars =>
        [\A a \in Alerts : Waiting(a) /\ Waiting(a)' =>
            /\ WorkBefore(a)' <= WorkBefore(a)
            /\ Work => WorkBefore(a)' < WorkBefore(a)]_vars
  <2> SUFFICES ASSUME IInv, IInv', Tried, SoonSettled', [Next]_vars, NEW a \in Alerts, Waiting(a), Waiting(a)'
               PROVE  /\ WorkBefore(a)' <= WorkBefore(a)
                      /\ Work => WorkBefore(a)' < WorkBefore(a)
    OBVIOUS
  <2>1. WorkBefore(a) \in Int
    <3>1. WorkBefore(a) \in 1 .. (MaxQueue + 1) * Steps
      BY SoonIs DEF SoonSettled
    <3> QED BY <3>1
  <2>2. CASE Work
    <3>1. WorkBefore(a)' < WorkBefore(a)
      BY <2>2, WorkGetsOn
    <3>2. WorkBefore(a)' \in 1 .. ((MaxQueue + 1) * Steps)'
      BY DEF SoonSettled
    <3> QED BY <2>1, <3>1, <3>2
  <2>3. CASE ~Work
    <3>1. WorkBefore(a)' = WorkBefore(a)
      BY <2>3, OthersDoNotDelay
    <3> QED BY <2>1, <2>3, <3>1
  <2> QED BY <2>2, <2>3
<1>2. IInv /\ Tried => SoonSettled
  BY SoonIs
<1> QED BY <1>1, <1>2, Inductive, TriedHolds, PTL DEF Spec, TurnComes

=============================================================================
