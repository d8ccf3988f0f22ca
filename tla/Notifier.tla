------------------------------ MODULE Notifier ------------------------------
(***************************************************************************)
(* notify/notifiers.py: the queue between the engine and Telegram.         *)
(*                                                                         *)
(* Three actors: the main coroutine, which emits alerts and in the end     *)
(* closes the notifier (main.py's live); the worker task, which takes them *)
(* from the queue and posts them, with retries; Telegram, which may accept *)
(* a message and yet let the client see a time-out.  Alerts are numbered   *)
(* in the order they are emitted.                                          *)
(***************************************************************************)
EXTENDS Integers, Sequences

CONSTANTS
    MaxQueue,    \* capacity of the queue
    Attempts,    \* posts of a message before it is given up
    MaxAlerts    \* bound: alerts emitted

ASSUME NotifierConfig ==
    MaxQueue \in Nat \ {0} /\ Attempts \in Nat \ {0} /\ MaxAlerts \in Nat

VARIABLES
    emitted,      \* number of alerts emitted so far
    queue,        \* BackgroundNotifier.queue
    unfinished,   \* its counter of tasks not done, for join()
    worker,       \* where the worker task is
    sending,      \* the alert it holds, 0 for none
    attempt,      \* send_text's loop variable
    phase,        \* where live() is; at the end, whether close() saw all sent
    accepted,     \* ghost: what Telegram accepted, in order
    gaveUp,       \* ghost: alerts given up, with a line in the log
    dropped       \* ghost: alerts refused by a full queue, with a line in the log

ghosts == <<accepted, gaveUp, dropped>>
vars == <<emitted, queue, unfinished, worker, sending, attempt, phase, ghosts>>

Alerts == 1 .. MaxAlerts
NoAlert == 0

TypeOK ==
    /\ emitted \in 0 .. MaxAlerts
    /\ queue \in Seq(Alerts) /\ Len(queue) <= MaxQueue
    /\ unfinished \in Nat
    /\ worker \in {"none", "waiting", "posting", "pausing", "cancelled"}
    /\ sending \in Alerts \cup {NoAlert}
    /\ attempt \in 0 .. Attempts
    /\ phase \in {"running", "draining", "drained", "cut"}
    /\ accepted \in Seq(Alerts)
    /\ gaveUp \subseteq Alerts
    /\ dropped \subseteq Alerts

Init ==
    /\ emitted = 0 /\ queue = <<>> /\ unfinished = 0
    /\ worker = "none" /\ sending = NoAlert /\ attempt = 0
    /\ phase = "running"
    /\ accepted = <<>> /\ gaveUp = {} /\ dropped = {}

-----------------------------------------------------------------------------
Working == phase \in {"running", "draining"}

(* The main coroutine.                                                     *)

(* send(): never waits.  The worker task is created by the first alert.    *)
Send ==
    /\ phase = "running" /\ emitted < MaxAlerts
    /\ emitted' = emitted + 1
    /\ worker' = IF worker = "none" THEN "waiting" ELSE worker
    /\ \/ /\ Len(queue) < MaxQueue
          /\ queue' = Append(queue, emitted + 1)
          /\ unfinished' = unfinished + 1
          /\ UNCHANGED dropped
       \/ /\ Len(queue) >= MaxQueue
          /\ dropped' = dropped \cup {emitted + 1}
          /\ UNCHANGED <<queue, unfinished>>
    /\ UNCHANGED <<sending, attempt, phase, accepted, gaveUp>>

(* close(), called when live() is cancelled.                               *)
Close ==
    /\ phase = "running"
    /\ \/ worker = "none" /\ phase' = "drained"
       \/ worker # "none" /\ phase' = "draining"
    /\ UNCHANGED <<emitted, queue, unfinished, worker, sending, attempt, accepted, gaveUp, dropped>>

Cancel(end) ==
    /\ phase' = end
    /\ worker' = "cancelled"
    /\ UNCHANGED <<emitted, queue, unfinished, sending, attempt, accepted, gaveUp, dropped>>

Joined == phase = "draining" /\ unfinished = 0 /\ Cancel("drained")

(* Mutant: the limit is only looked at between two messages.               *)
DrainTimeoutBetween ==
    phase = "draining" /\ unfinished > 0 /\ sending = NoAlert /\ Cancel("cut")

DrainTimeout == phase = "draining" /\ unfinished > 0 /\ Cancel("cut")

(* SIGKILL, or a second signal that cancels close() itself.                *)
Kill == Working /\ Cancel("cut")

-----------------------------------------------------------------------------
(* The worker and Telegram.                                                *)

(* Mutant: the task is marked done as soon as it is taken.                 *)
TakeDone ==
    /\ Working /\ worker = "waiting" /\ queue # <<>>
    /\ sending' = Head(queue) /\ queue' = Tail(queue)
    /\ attempt' = 1
    /\ worker' = "posting"
    /\ unfinished' = unfinished - 1
    /\ UNCHANGED <<emitted, phase, ghosts>>

Take ==
    /\ Working /\ worker = "waiting" /\ queue # <<>>
    /\ sending' = Head(queue) /\ queue' = Tail(queue)
    /\ attempt' = 1
    /\ worker' = "posting"
    /\ UNCHANGED <<emitted, unfinished, phase, ghosts>>

(* task_done(), whatever became of the message.                            *)
Done ==
    /\ sending' = NoAlert /\ attempt' = 0
    /\ worker' = "waiting"
    /\ unfinished' = unfinished - 1
    /\ UNCHANGED queue

(* HTTP 200 and ok.                                                        *)
Accept ==
    /\ Working /\ worker = "posting"
    /\ accepted' = Append(accepted, sending)
    /\ Done
    /\ UNCHANGED <<emitted, phase, gaveUp, dropped>>

(* HTTP 4xx but 429: trying again would not help.                          *)
Reject ==
    /\ Working /\ worker = "posting"
    /\ gaveUp' = gaveUp \cup {sending}
    /\ Done
    /\ UNCHANGED <<emitted, phase, accepted, dropped>>

(* Mutant: the tries are not counted.                                      *)
PauseUncounted ==
    /\ attempt <= Attempts
    /\ worker' = "pausing"
    /\ UNCHANGED <<attempt, queue, unfinished, sending, gaveUp>>

(* Mutant: a message that failed goes back to the end of the queue.        *)
PauseRequeued ==
    LET all == Append(queue, sending)
    IN  /\ attempt < Attempts
        /\ sending' = Head(all) /\ queue' = Tail(all)
        /\ worker' = "pausing"
        /\ attempt' = attempt + 1
        /\ UNCHANGED <<unfinished, gaveUp>>

Pause ==
    /\ attempt < Attempts
    /\ worker' = "pausing"
    /\ attempt' = attempt + 1
    /\ UNCHANGED <<queue, unfinished, sending, gaveUp>>

GiveUp == attempt >= Attempts /\ gaveUp' = gaveUp \cup {sending} /\ Done

(* 429, 5xx or an exception; when the answer is lost on the way back,      *)
(* Telegram has the message all the same.                                  *)
Fail ==
    /\ Working /\ worker = "posting"
    /\ accepted' \in {accepted, Append(accepted, sending)}
    /\ Pause \/ GiveUp
    /\ UNCHANGED <<emitted, phase, dropped>>

Wake ==
    /\ Working /\ worker = "pausing"
    /\ worker' = "posting"
    /\ UNCHANGED <<emitted, queue, unfinished, sending, attempt, phase, ghosts>>

Work == Take \/ Accept \/ Reject \/ Fail \/ Wake

(* The process has ended.                                                  *)
Stopped == ~Working /\ UNCHANGED vars

Next == Send \/ Close \/ Joined \/ DrainTimeout \/ Kill \/ Work \/ Stopped

Spec == Init /\ [][Next]_vars

(* wait_for returns.  The worker is fair only where a property says so:    *)
(* every post ends within its time-out, but nothing bounds the pause that  *)
(* Telegram may ask for.                                                   *)
LiveSpec == Spec /\ WF_vars(Joined \/ DrainTimeout)

-----------------------------------------------------------------------------
WasAccepted == {accepted[i] : i \in DOMAIN accepted}
Settled == WasAccepted \cup gaveUp \cup dropped

(* When close() saw the queue joined, nothing was left behind: every alert *)
(* was accepted, or its loss is in the log (notifiers.py:105-130).         *)
DrainedIsSettled == phase = "drained" => 1 .. emitted \subseteq Settled

(* A message never overtakes an earlier one, retries and lost answers      *)
(* included: the chat shows the dumps in the order they happened           *)
(* (notifiers.py:51-78, 105-121).                                          *)
InOrder ==
    \A i, j \in DOMAIN accepted : i < j => accepted[i] <= accepted[j]

(* An alert is lost only when the queue is full of older ones or all       *)
(* attempts failed; unless the process ends, each one is settled, if the   *)
(* worker gets on with its work                                            *)
(* (notifiers.py:105-121).                                                 *)
EveryAlertSettled ==
    WF_vars(Work) => \A a \in Alerts : (emitted >= a) ~> (a \in Settled \/ ~Working)

(* However long Telegram makes the worker wait, close() returns            *)
(* (notifiers.py:123-130).                                                 *)
CloseReturns == (phase = "draining") ~> ~Working
=============================================================================
