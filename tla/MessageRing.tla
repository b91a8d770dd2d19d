----------------------------- MODULE MessageRing -----------------------------
(***************************************************************************)
(* The ring buffer of a message_queue, skynet-src/skynet_mq.c: push with   *)
(* expand_queue, pop, length and the overload alarm.  Every operation runs *)
(* under the spin lock of the queue (skynet_mq_overload without it, in the *)
(* one worker that owns the queue), so one action is one call.             *)
(***************************************************************************)
EXTENDS Integers, Sequences

CONSTANTS
    Mail,              \* the messages
    DefaultQueueSize,  \* DEFAULT_QUEUE_SIZE
    MqOverload,        \* MQ_OVERLOAD
    MaxLength          \* bound: messages in the queue

ASSUME RingAssumption ==
    /\ Mail # {}
    /\ DefaultQueueSize \in Nat /\ DefaultQueueSize > 1
    /\ MqOverload \in Nat /\ MqOverload > 0
    /\ MaxLength \in Nat

VARIABLES
    cap, head, tail,     \* q->cap, q->head, q->tail
    queue,               \* q->queue: the messages in slots 0 to cap - 1
    overload,            \* q->overload
    overload_threshold,  \* q->overload_threshold
    message,             \* the message the last successful pop returned
    peak,                \* history: the longest queue that a pop of this backlog left
    alarms               \* history: alarms raised in this backlog; one ends with a pop
                         \*   that finds the queue empty

alarm == <<overload, overload_threshold>>
backlog == <<peak, alarms>>
vars == <<cap, head, tail, queue, alarm, message, backlog>>

Init ==
    /\ cap = DefaultQueueSize
    /\ head = 0 /\ tail = 0
    /\ queue \in [0 .. DefaultQueueSize - 1 -> Mail]
    /\ overload = 0
    /\ overload_threshold = MqOverload
    /\ message \in Mail
    /\ peak = 0 /\ alarms = 0

\* skynet_mq_length.
Length == IF head <= tail THEN tail - head ELSE tail + cap - head

\* ++ q->tail and q->head++, with their wrap at cap.
Next1(k) == IF k + 1 >= cap THEN 0 ELSE k + 1

\* Mutant: expand_queue copies the slots where they are.
ExpandInPlace(q, m) ==
    [k \in 0 .. 2 * cap - 1 |-> IF k < cap THEN q[k] ELSE m]

\* expand_queue: the messages move to the front of an array twice as long,
\* the rest of which is not initialized (any message, here m).
Expand(q, m) ==
    [k \in 0 .. 2 * cap - 1 |-> IF k < cap THEN q[(head + k) % cap] ELSE m]

\* skynet_mq_push.
Push(m) ==
    /\ LET q == [queue EXCEPT ![tail] = m]
       IN  IF Next1(tail) = head
           THEN /\ queue' = Expand(q, m)
                /\ head' = 0 /\ tail' = cap /\ cap' = 2 * cap
           ELSE /\ queue' = q
                /\ tail' = Next1(tail)
                /\ UNCHANGED <<cap, head>>
    /\ UNCHANGED <<alarm, message, backlog>>

\* The loop of skynet_mq_pop that doubles the threshold until the length fits.
Raised(t, len) == CHOOSE r \in {t * 2 ^ k : k \in 0 .. len} :
                    r >= len /\ \A s \in {t * 2 ^ k : k \in 0 .. len} : s >= len => r <= s

\* skynet_mq_pop with a message.
Pop ==
    LET h == Next1(head)
        len == IF tail - h < 0 THEN tail - h + cap ELSE tail - h
    IN  /\ head # tail
        /\ message' = queue[head]
        /\ head' = h
        /\ IF len > overload_threshold
           THEN /\ overload' = len /\ overload_threshold' = Raised(overload_threshold, len)
                /\ alarms' = alarms + 1
           ELSE UNCHANGED <<alarm, alarms>>
        /\ peak' = IF len > peak THEN len ELSE peak
        /\ UNCHANGED <<cap, tail, queue>>

\* Mutant: the threshold stays where the last backlog has raised it.
PopEmptyKeep ==
    /\ head = tail
    /\ peak' = 0 /\ alarms' = 0
    /\ UNCHANGED <<cap, head, tail, queue, alarm, message>>

\* skynet_mq_pop without one.
PopEmpty ==
    /\ head = tail
    /\ overload_threshold' = MqOverload
    /\ peak' = 0 /\ alarms' = 0
    /\ UNCHANGED <<cap, head, tail, queue, overload, message>>

\* skynet_mq_overload: report once.
Overload ==
    /\ overload # 0
    /\ overload' = 0
    /\ UNCHANGED <<cap, head, tail, queue, overload_threshold, message, backlog>>

Next ==
    \/ \E m \in Mail : Length < MaxLength /\ Push(m)
    \/ Pop \/ PopEmpty \/ Overload

Spec == Init /\ [][Next]_vars

-----------------------------------------------------------------------------
(* Properties                                                               *)

RingOK ==
    /\ cap \in Nat /\ cap > 1
    /\ head \in 0 .. cap - 1
    /\ tail \in 0 .. cap - 1
    /\ queue \in [0 .. cap - 1 -> Mail]
    /\ message \in Mail

TypeOK == RingOK /\ overload \in Nat /\ overload_threshold \in Nat

Contents == [k \in 1 .. Length |-> queue[(head + k - 1) % cap]]

Queue == INSTANCE Fifo WITH items <- Contents, last <- message

\* The ring is a FIFO queue, across wraps of head and tail and expansions.
IsFifo == Queue!Spec

\* The alarms of a backlog tell how long it got: the first comes as soon as a
\* pop leaves more than MqOverload messages, later ones only when the queue has
\* at least doubled, so a backlog of n * MqOverload messages raises no more than
\* about log2(n) of them; but a backlog that doubles is never passed over, and
\* what an earlier backlog has raised the threshold to does not silence it.
AlarmsFollowBacklog ==
    IF alarms = 0 THEN peak <= MqOverload
    ELSE /\ MqOverload * 2 ^ (alarms - 1) < peak
         /\ peak <= overload_threshold /\ overload_threshold < 2 * peak
=============================================================================
