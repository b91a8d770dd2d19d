----------------------------- MODULE TimerWheel -----------------------------
(***************************************************************************)
(* The hierarchical timing wheel, skynet-src/skynet_timer.c.               *)
(*                                                                         *)
(* Times are unsigned words; the code has TIME_NEAR = 2^8, TIME_LEVEL =    *)
(* 2^6 and a word of 2^32 = TIME_NEAR * TIME_LEVEL^4, and the model keeps  *)
(* that relation for any sizes.  One action is one critical section of     *)
(* the spin lock; the timer thread holds it in timer_update except while   *)
(* it dispatches a list, and only then, and between two updates, may       *)
(* workers add timers.  A timer_event's handle and session are one Id.     *)
(***************************************************************************)
EXTENDS Integers, Sequences, FiniteSets

CONSTANTS
    Near,      \* TIME_NEAR
    Level,     \* TIME_LEVEL
    MaxDelay,  \* the largest positive int: less than half of the word
    Id,        \* timers, numbered in the order of skynet_timeout
    MaxDiff    \* bound: ticks one skynet_updatetime catches up with

Word == Near * Level * Level * Level * Level

ASSUME TimerAssumption ==
    /\ Near \in Nat /\ Near > 1
    /\ Level \in Nat /\ Level > 1
    /\ MaxDelay \in Nat /\ 2 * MaxDelay < Word
    /\ MaxDiff \in Nat
    /\ Id \subseteq Nat

VARIABLES
    time,     \* T->time
    wheel,    \* T->near (level -1) and T->t (levels 0 to 3): lists of timers
    expire,   \* node->expire of each timer
    started,  \* timers skynet_timeout was called for
    gone,     \* timers whose message has been pushed
    pc,       \* the timer thread: "sleep", "execute" or "dispatch"
    shifted,  \* whether timer_shift was done in this timer_update
    current,  \* the list detached by timer_execute
    diff      \* ticks left to do in skynet_updatetime

thread == <<pc, shifted, current, diff>>
vars == <<time, wheel, expire, started, gone, thread>>

Bucket == ({-1} \X (0 .. Near - 1)) \cup ((0 .. 3) \X (0 .. Level - 1))

Init ==
    /\ time = 0
    /\ wheel = [b \in Bucket |-> << >>]
    /\ expire = [x \in Id |-> 0]
    /\ started = {}
    /\ gone = {}
    /\ pc = "sleep"
    /\ shifted = FALSE
    /\ current = << >>
    /\ diff = 0

\* The ticks that one bucket of a level spans.
Unit(l) ==
    CASE l = 0 -> Near
      [] l = 1 -> Near * Level
      [] l = 2 -> Near * Level * Level
      [] l = 3 -> Near * Level * Level * Level
      [] l = 4 -> Word

\* Mutant: add_node compares the wrong digits (mask one level too low).
PlaceLow(e, now) ==
    IF e \div Near = now \div Near THEN <<-1, e % Near>>
    ELSE LET l == CHOOSE k \in 0 .. 3 :
                    /\ k = 3 \/ e \div Unit(k) = now \div Unit(k)
                    /\ \A j \in 0 .. k - 1 : e \div Unit(j) # now \div Unit(j)
         IN  <<l, (e \div Unit(l)) % Level>>

\* add_node: the bucket of a timer that expires at e.
Place(e, now) ==
    IF e \div Near = now \div Near THEN <<-1, e % Near>>
    ELSE LET l == CHOOSE k \in 0 .. 3 :
                    /\ k = 3 \/ e \div Unit(k + 1) = now \div Unit(k + 1)
                    /\ \A j \in 0 .. k - 1 : e \div Unit(j + 1) # now \div Unit(j + 1)
         IN  <<l, (e \div Unit(l)) % Level>>

\* skynet_timeout with a positive delay: timer_add.
Timeout(x, d) ==
    /\ pc \in {"sleep", "dispatch"}
    /\ x \notin started
    /\ \A y \in Id : y < x => y \in started
    /\ LET e == (time + d) % Word
           b == Place(e, time)
       IN  /\ expire' = [expire EXCEPT ![x] = e]
           /\ wheel' = [wheel EXCEPT ![b] = Append(@, x)]
    /\ started' = started \cup {x}
    /\ UNCHANGED <<time, gone, thread>>

\* skynet_timeout with a delay of 0 or less: the message is pushed at once.
TimeoutNow(x) ==
    /\ x \notin started
    /\ \A y \in Id : y < x => y \in started
    /\ started' = started \cup {x}
    /\ gone' = gone \cup {x}
    /\ UNCHANGED <<time, wheel, expire, thread>>

\* skynet_updatetime finds that the clock moved on by k centiseconds.
UpdateTime(k) ==
    /\ pc = "sleep" /\ diff = 0
    /\ diff' = k
    /\ UNCHANGED <<time, wheel, expire, started, gone, pc, shifted, current>>

\* timer_update takes the lock.
Update ==
    /\ pc = "sleep" /\ diff > 0
    /\ pc' = "execute"
    /\ shifted' = FALSE
    /\ UNCHANGED <<time, wheel, expire, started, gone, current, diff>>

Now == <<-1, time % Near>>

\* timer_execute detaches the list of the current tick and unlocks.
Execute ==
    /\ pc = "execute"
    /\ wheel[Now] # << >>
    /\ current' = wheel[Now]
    /\ wheel' = [wheel EXCEPT ![Now] = << >>]
    /\ pc' = "dispatch"
    /\ UNCHANGED <<time, expire, started, gone, shifted, diff>>

\* dispatch_list pushes one message, frees the node and goes on.
Dispatch ==
    /\ pc = "dispatch"
    /\ expire' = [expire EXCEPT ![Head(current)] = 0]
    /\ gone' = gone \cup {Head(current)}
    /\ current' = Tail(current)
    /\ pc' = IF Len(current) = 1 THEN "execute" ELSE "dispatch"
    /\ UNCHANGED <<time, wheel, started, shifted, diff>>

\* Mutant: the wrap of the word moves nothing.
SourceNoWrap(ct) ==
    IF ct % Near # 0 \/ ct = 0 THEN {}
    ELSE LET l == CHOOSE k \in 0 .. 3 :
                    /\ (ct \div Unit(k)) % Level # 0
                    /\ \A j \in 0 .. k - 1 : (ct \div Unit(j)) % Level = 0
         IN  { <<l, (ct \div Unit(l)) % Level>> }

\* timer_shift: the bucket whose timers come nearer at time ct, if any.
Source(ct) ==
    IF ct = 0 THEN { <<3, 0>> }
    ELSE IF ct % Near # 0 THEN {}
    ELSE LET l == CHOOSE k \in 0 .. 3 :
                    /\ (ct \div Unit(k)) % Level # 0
                    /\ \A j \in 0 .. k - 1 : (ct \div Unit(j)) % Level = 0
         IN  { <<l, (ct \div Unit(l)) % Level>> }

\* move_list: the list of bucket src is cleared and every timer in it is
\* placed anew, in order.
Moved(src, ct) ==
    [b \in Bucket |->
       (IF b = src THEN << >> ELSE wheel[b])
         \o SelectSeq(wheel[src], LAMBDA x : Place(expire[x], ct) = b)]

\* Nothing (more) to execute before the shift: timer_shift.
Shift ==
    /\ pc = "execute"
    /\ wheel[Now] = << >>
    /\ ~ shifted
    /\ time' = (time + 1) % Word
    /\ \/ Source(time') = {} /\ UNCHANGED wheel
       \/ \E src \in Source(time') : wheel' = Moved(src, time')
    /\ shifted' = TRUE
    /\ UNCHANGED <<expire, started, gone, pc, current, diff>>

\* Nothing (more) to execute after the shift: timer_update unlocks.
UpdateDone ==
    /\ pc = "execute"
    /\ wheel[Now] = << >>
    /\ shifted
    /\ pc' = "sleep"
    /\ diff' = diff - 1
    /\ UNCHANGED <<time, wheel, expire, started, gone, shifted, current>>

TimerThread ==
    \/ \E k \in 1 .. MaxDiff : UpdateTime(k)
    \/ Update \/ Execute \/ Dispatch \/ Shift \/ UpdateDone

Next ==
    \/ TimerThread
    \/ \E x \in Id : TimeoutNow(x) \/ \E d \in 1 .. MaxDelay : Timeout(x, d)

Spec == Init /\ [][Next]_vars

\* thread_timer calls skynet_updatetime for ever, and the clock moves on.
FairSpec == Spec /\ WF_vars(TimerThread)

-----------------------------------------------------------------------------
(* Properties                                                               *)

TypeOK ==
    /\ time \in 0 .. Word - 1
    /\ wheel \in [Bucket -> Seq(Id)]
    /\ expire \in [Id -> 0 .. Word - 1]
    /\ started \subseteq Id
    /\ gone \subseteq started
    /\ pc \in {"sleep", "execute", "dispatch"}
    /\ shifted \in BOOLEAN
    /\ current \in Seq(Id)
    /\ diff \in 0 .. MaxDiff

Elems(s) == {s[k] : k \in DOMAIN s}
Waiting == UNION {Elems(wheel[b]) : b \in Bucket}

\* Every waiting timer is where add_node would put it now: the shift moves a
\* bucket at the one tick where the right place of its timers changes.
WellPlaced ==
    /\ TypeOK
    /\ \A b \in Bucket : \A x \in Elems(wheel[b]) : Place(expire[x], time) = b

Left ==
    [x \in Id |->
       IF x \in Elems(current) THEN 0
       ELSE IF x \in Waiting THEN (expire[x] - time) % Word ELSE -1]

Promise == INSTANCE Countdown WITH left <- Left

\* The wheel implements Countdown: every timer goes off in its tick, in the
\* order of skynet_timeout, across levels and across the wrap of the word.
OnTime == Promise!Spec

\* Every timer goes off.
EventuallyGone == \A x \in Id : x \in started ~> x \in gone
=============================================================================
