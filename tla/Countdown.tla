------------------------------ MODULE Countdown ------------------------------
(***************************************************************************)
(* What skynet_timeout promises: a timer started with delay d goes off in  *)
(* the d-th tick after, not earlier and not later, and timers that go off  *)
(* in the same tick do so in the order they were started.                  *)
(*                                                                         *)
(* TimerWheel implements this module.                                      *)
(***************************************************************************)
EXTENDS Integers

CONSTANTS
    Id,       \* timers, numbered in the order they are started
    MaxDelay  \* the longest delay

VARIABLES
    left,     \* ticks left of each timer; -1: not started, or gone off
    gone      \* the timers that went off

vars == <<left, gone>>

Running == {x \in Id : left[x] >= 0}

Init ==
    /\ left = [x \in Id |-> -1]
    /\ gone = {}

Start(x, d) ==
    /\ left[x] = -1 /\ x \notin gone
    /\ left' = [left EXCEPT ![x] = d]
    /\ UNCHANGED gone

\* A delay of 0 or less goes off at once, whatever else is due.
StartNow(x) ==
    /\ left[x] = -1 /\ x \notin gone
    /\ gone' = gone \cup {x}
    /\ UNCHANGED left

\* Time moves only when nobody is overdue.
Tick ==
    /\ \A x \in Running : left[x] > 0
    /\ left' = [x \in Id |-> IF x \in Running THEN left[x] - 1 ELSE left[x]]
    /\ UNCHANGED gone

GoOff(x) ==
    /\ left[x] = 0
    /\ \A y \in Id : left[y] = 0 => x <= y
    /\ left' = [left EXCEPT ![x] = -1]
    /\ gone' = gone \cup {x}

Next ==
    \/ Tick
    \/ \E x \in Id : GoOff(x) \/ StartNow(x) \/ \E d \in 1 .. MaxDelay : Start(x, d)

Spec == Init /\ [][Next]_vars
=============================================================================
