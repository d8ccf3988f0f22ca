---------------------------- MODULE BlockSources ----------------------------
(***************************************************************************)
(* chain/block_source.py: the two sources of new heads, a coroutine each,  *)
(* and the chain they watch, second by second.  The consumer's work on a   *)
(* head (LiveRunner.run's loop body) happens while heads() is suspended at *)
(* its yield.  Numbers of blocks are relative to the newest one.           *)
(***************************************************************************)
EXTENDS Integers, Sequences, FiniteSetsExt

CONSTANTS
    Interval, Quiet,      \* rpc.poll_interval_sec, poll_quiet_after_block_sec
    IdleTimeout,          \* rpc.ws_idle_timeout_sec
    RetryBase, RetryMax,  \* rpc.retry_base_delay_sec, retry_max_delay_sec
    FloatBase,            \* RetryBase is a float: left out, or written as one
    MaxExponent,          \* greatest n such that a float can hold 2^n (1023)
    BlockTime,            \* seconds of a slot of the chain
    MaxMissed,            \* bound: slots in a row without a block
    MaxWork,              \* bound: seconds of work on a head
    MaxBehind,            \* bound: heads are told apart up to this distance
    MaxInbox,             \* bound: notifications the consumer leaves waiting
    Faults                \* bound: faults of the provider and of the consumer

ASSUME BlockSourcesConfig ==
    /\ {Interval, BlockTime, RetryBase, MaxInbox, MaxBehind} \subseteq Nat \ {0}
    /\ {Quiet, IdleTimeout, RetryMax, MaxExponent, MaxMissed, MaxWork, Faults} \subseteq Nat
    /\ FloatBase \in BOOLEAN

VARIABLES
    kind,         \* rpc.block_source
    slot, empty,  \* seconds into the slot, slots missed since the newest block
    behind,       \* blocks newer than the last head given
    at,           \* where heads() is
    wait,         \* seconds of asyncio.sleep left
    since,        \* seconds since seen_at, or since wait_for began
    fresh,        \* this source has given no head yet
    connection,   \* of the WebSocket
    inbox,        \* notifications not yet read: how old their heads are
    attempt,      \* failures of the WebSocket since it last subscribed
    age,          \* ghost: how old the head polled for is at least, or may be
    spare,        \* ghost: requests allowed until the next head
    disturbed,    \* ghost: so far this head's way was not the usual one
    faults        \* faults still allowed

chain == <<slot, empty, behind>>
socket == <<connection, inbox, attempt>>
ghosts == <<age, spare, disturbed>>
vars == <<kind, chain, at, wait, since, fresh, socket, ghosts, faults>>

Capped(n) == Min({n, MaxBehind})
PerSlot == (BlockTime + Interval - 1) \div Interval
PerHead == 1 + Max({0, BlockTime - Quiet + Interval - 1}) \div Interval
LongestSleep == Max({Quiet, Interval, RetryBase, RetryMax})

TypeOK ==
    /\ kind \in {"polling", "websocket"}
    /\ slot \in 0 .. BlockTime - 1 /\ empty \in 0 .. MaxMissed /\ behind \in 0 .. MaxBehind
    /\ at \in IF kind = "polling" THEN {"asking", "working", "sleeping"}
              ELSE {"connecting", "waiting", "working", "sleeping"}
    /\ wait \in 0 .. LongestSleep
    /\ since \in 0 .. Max({MaxWork, IdleTimeout})
    /\ fresh \in BOOLEAN
    /\ connection \in {"none", "open", "silent", "broken"}
    /\ connection # "none" <=> (kind = "websocket" /\ at \in {"waiting", "working"})
    /\ inbox \in Seq(0 .. MaxBehind)
    /\ attempt \in Nat
    /\ age \in Nat /\ spare \in Int /\ disturbed \in BOOLEAN
    /\ faults \in 0 .. Faults

Begun == IF kind = "polling" THEN "asking" ELSE "connecting"

Init ==
    /\ kind \in {"polling", "websocket"}
    /\ slot \in 0 .. BlockTime - 1 /\ empty = 0 /\ behind = 1
    /\ at = Begun /\ wait = 0 /\ since = 0 /\ fresh = TRUE
    /\ connection = "none" /\ inbox = <<>> /\ attempt = 0
    /\ age = 0 /\ spare = 0 /\ disturbed = TRUE
    /\ faults = Faults

Fault == faults > 0 /\ faults' = faults - 1

-----------------------------------------------------------------------------
(* Nothing is due: the consumer works, or the coroutine sleeps or waits.   *)
Idle ==
    \/ at = "working" /\ since < MaxWork /\ Len(inbox) < MaxInbox
    \/ at = "sleeping" /\ wait > 0
    \/ at = "waiting" /\ inbox = <<>> /\ connection # "broken" /\ since < IdleTimeout

Notifications(new) == [i \in DOMAIN inbox |-> Capped(inbox[i] + 1)] \o new

NewBlock ==
    /\ empty' = 0 /\ behind' = Capped(behind + 1)
    /\ \/ connection = "open" /\ inbox' = Notifications(<<0>>) /\ UNCHANGED <<disturbed, faults>>
       \/ connection = "open" /\ inbox' = Notifications(<<>>) /\ disturbed' = TRUE /\ Fault
       \/ connection # "open" /\ inbox' = Notifications(<<>>) /\ UNCHANGED <<disturbed, faults>>
    /\ UNCHANGED spare

MissedSlot ==
    /\ empty < MaxMissed
    /\ empty' = empty + 1
    /\ spare' = IF kind = "polling" THEN spare + PerSlot ELSE spare
    /\ UNCHANGED <<behind, inbox, disturbed, faults>>

(* One second passes on the chain and in the coroutine.                    *)
Tick ==
    /\ Idle
    /\ slot' = (slot + 1) % BlockTime
    /\ \/ slot' = 0 /\ (NewBlock \/ MissedSlot)
       \/ slot' # 0 /\ UNCHANGED <<empty, behind, inbox, spare, disturbed, faults>>
    /\ wait' = IF at = "sleeping" THEN wait - 1 ELSE wait
    /\ since' = IF at \in {"working", "waiting"} THEN since + 1 ELSE since
    /\ UNCHANGED <<kind, at, fresh, connection, attempt, age>>

Sleep(seconds) == at' = "sleeping" /\ wait' = seconds

Wake ==
    /\ at = "sleeping" /\ wait = 0
    /\ at' = Begun
    /\ UNCHANGED <<kind, chain, wait, since, fresh, socket, ghosts, faults>>

(* yield of a head with n newer blocks behind it.                          *)
Give(n) ==
    /\ behind' = n
    /\ at' = "working" /\ since' = 0 /\ fresh' = FALSE
    /\ UNCHANGED <<kind, slot, empty, wait>>

-----------------------------------------------------------------------------
(* PollingBlockSource.  An answer that says n of the newest blocks are not *)
(* there yet: head > last, or not.                                         *)
Answered(n) ==
    /\ kind = "polling" /\ at = "asking"
    /\ IF n < behind \/ fresh
       THEN Give(n) /\ age' = slot + BlockTime * (empty + n) /\ spare' = PerHead
       ELSE /\ Sleep(Interval)
            /\ spare' = spare - 1
            /\ UNCHANGED <<kind, chain, since, fresh, age>>
    /\ UNCHANGED socket

Ask == Answered(0) /\ UNCHANGED <<disturbed, faults>>

(* A node that lags behind the one asked before.                           *)
AskOldNode ==
    /\ \E n \in 1 .. behind : Answered(n)
    /\ disturbed' = TRUE /\ Fault

(* block_number is retried without end; the time that passes meanwhile is  *)
(* kept within the slot, since an answer from before it is an old node's.  *)
AskAgain ==
    /\ kind = "polling" /\ at = "asking" /\ slot # BlockTime - 1
    /\ Fault /\ disturbed' = TRUE
    /\ slot' = slot + 1
    /\ UNCHANGED <<kind, empty, behind, at, wait, since, fresh, socket, age, spare>>

(* Mutant: the pause is counted from the end of the work.                  *)
PauseAfterWork == Quiet

(* Mutant: after a head it is asked as often as before.                    *)
PauseAsAlways == Interval

Pause == Quiet - since

(* Mutant: the pause may be over before it begins.                         *)
PolledUnguarded == Sleep(Pause)

Polled == IF Pause > 0 THEN Sleep(Pause) ELSE at' = "asking" /\ UNCHANGED wait

(* The consumer is done with the head; the polling source looks at the     *)
(* clock, the WebSocket one waits for the next notification.               *)
Resume ==
    /\ at = "working"
    /\ IF kind = "polling"
       THEN /\ Polled
            /\ age' = Max({Interval, age + Max({Quiet, since}) - BlockTime})
            /\ disturbed' = FALSE
       ELSE at' = "waiting" /\ UNCHANGED <<wait, age, disturbed>>
    /\ since' = 0
    /\ UNCHANGED <<kind, chain, fresh, socket, spare, faults>>

-----------------------------------------------------------------------------
(* WebSocketBlockSource.                                                   *)
Subscribe ==
    /\ at = "connecting"
    /\ at' = "waiting" /\ since' = 0
    /\ connection' = "open" /\ inbox' = <<>> /\ attempt' = 0
    /\ disturbed' = FALSE
    /\ UNCHANGED <<kind, chain, wait, fresh, age, spare, faults>>

Receive ==
    /\ at = "waiting" /\ inbox # <<>>
    /\ Give(Min({behind, Head(inbox)}))
    /\ inbox' = Tail(inbox)
    /\ disturbed' = FALSE
    /\ UNCHANGED <<connection, attempt, age, spare, faults>>

(* A message without a result: wait_for begins anew.                       *)
Heartbeat ==
    /\ at = "waiting" /\ since > 0 /\ Fault
    /\ since' = 0
    /\ UNCHANGED <<kind, chain, at, wait, fresh, socket, ghosts>>

Delay(n) == Min({RetryBase * 2 ^ (n - 1), RetryMax})

(* The supervisor makes a new source after its pause.                      *)
Restart ==
    /\ \E d \in {RetryBase, RetryMax} : Sleep(d)
    /\ attempt' = 0 /\ fresh' = TRUE /\ disturbed' = TRUE

(* A float cannot be multiplied by the power of two before it is cut.      *)
Overflows == FloatBase /\ attempt > MaxExponent

(* Any exception: a pause, unless the length of the pause cannot be held.  *)
Reconnect ==
    /\ connection' = "none" /\ inbox' = <<>>
    /\ IF Overflows
       THEN Restart
       ELSE Sleep(Delay(attempt + 1)) /\ attempt' = attempt + 1 /\ UNCHANGED <<fresh, disturbed>>
    /\ UNCHANGED <<kind, chain, since, age, spare>>

CannotConnect == at = "connecting" /\ Fault /\ Reconnect

ConnectionLost == at = "waiting" /\ connection = "broken" /\ Reconnect /\ UNCHANGED faults

(* Mutant: it goes on waiting on the same connection.                      *)
TimeoutWaits ==
    /\ at = "waiting" /\ inbox = <<>> /\ since = IdleTimeout
    /\ since' = 0
    /\ UNCHANGED <<kind, chain, at, wait, fresh, socket, ghosts, faults>>

(* Mutant: a block is expected in every slot.                              *)
TimeoutEachSlot ==
    /\ at = "waiting" /\ inbox = <<>> /\ since > BlockTime
    /\ Reconnect /\ UNCHANGED faults

Timeout ==
    /\ at = "waiting" /\ inbox = <<>> /\ since = IdleTimeout
    /\ Reconnect /\ UNCHANGED faults

(* The peer closes the connection, or it goes dead without a word.         *)
GoesBad ==
    /\ connection = "open" /\ Fault
    /\ connection' \in {"silent", "broken"}
    /\ UNCHANGED <<kind, chain, at, wait, since, fresh, inbox, attempt, ghosts>>

(* The loop body raises: this source is dropped.                           *)
Crash ==
    /\ at = "working" /\ Fault
    /\ Restart
    /\ connection' = "none" /\ inbox' = <<>>
    /\ UNCHANGED <<kind, chain, since, age, spare>>

Run == Tick \/ Wake \/ Ask \/ Resume \/ Subscribe \/ Receive \/ ConnectionLost \/ Timeout

Next == Run \/ AskOldNode \/ AskAgain \/ Heartbeat \/ CannotConnect \/ GoesBad \/ Crash

(* The event loop runs what is due and the chain goes on.                  *)
Spec == Init /\ [][Next]_vars /\ WF_vars(Run)

-----------------------------------------------------------------------------
(* The quiet pause costs nothing that lasts: a head that is polled for is  *)
(* given within Interval of its block, and if the head before was late or  *)
(* took long, by BlockTime less the pause (or the work) sooner than that   *)
(* one (block_source.py:28-34, 48-53).                                     *)
CatchesUp == [][at = "asking" /\ at' = "working" /\ ~disturbed' => age' <= age]_vars

(* Two requests a block with the defaults, and one more for every Interval *)
(* that the block is late itself (block_source.py:28-34).                  *)
FewRequests == kind = "polling" /\ ~disturbed => spare >= IF at = "asking" THEN 1 ELSE 0

(* A WebSocket that delivers is never dropped, however long the work on a  *)
(* head takes and though slots are missed (block_source.py:79-84).         *)
HealthyKept == [][connection = "open" /\ ~disturbed /\ connection' # "open" => faults' < faults]_vars

(* After any silence, broken connection or crash newer heads come again    *)
(* (block_source.py:4-5, 45, 72-92; main.py:113-128).                      *)
HeadsKeepComing == []<><<behind' < behind>>_vars
=============================================================================
