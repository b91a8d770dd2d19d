----------------------------- MODULE WorkerPool -----------------------------
(***************************************************************************)
(* The threads of a node, how workers sleep and are woken, how stuck       *)
(* callbacks are noticed and how the node shuts down.                      *)
(*   skynet-src/skynet_start.c    worker, timer, socket, monitor threads   *)
(*   skynet-src/skynet_monitor.c  trigger and check                        *)
(*                                                                         *)
(* Of the message queues only their number in the global queue is left     *)
(* (MessageDispatch has the rest): whoever pushes into an idle queue adds  *)
(* one.  G_NODE.total is only asked whether it is 0; MessageDispatch shows *)
(* that no worker is in a callback then.  version and check_version of a   *)
(* skynet_monitor are only compared, so one flag stands for both.          *)
(***************************************************************************)
EXTENDS Integers, FiniteSets

CONSTANTS
    Worker,   \* the worker threads; m->count is their number
    MaxPush,  \* bound: queues that become ready
    MaxMore   \* bound: dispatches that leave messages in their queue

ASSUME PoolAssumption ==
    /\ IsFiniteSet(Worker)
    /\ MaxPush \in Nat /\ MaxMore \in Nat

VARIABLES
    ready,    \* queues in the global queue
    pushed,   \* queues pushed so far
    more,     \* dispatches that left messages so far
    total,    \* whether G_NODE.total is positive
    hold,     \* workers that keep a queue from one dispatch to the next
    pc,       \* where each worker is
    sleep,    \* m->sleep
    quit,     \* m->quit
    timer, socket, monitor,  \* where the other threads are
    exiting,  \* skynet_socket_exit was called
    dest,     \* workers whose sm->destination is not 0
    moved,    \* workers whose sm->version differs from sm->check_version
    endless,  \* workers in whose callback a service was marked endless
    checked   \* workers already checked in this round of thread_monitor

queues == <<ready, pushed, more, total, hold>>
watch  == <<dest, moved, endless, checked, monitor>>
vars   == <<queues, watch, pc, sleep, quit, timer, socket, exiting>>

Init ==
    /\ ready = 1 /\ pushed = 0 /\ more = 0
    /\ total = TRUE
    /\ hold = {}
    /\ pc = [w \in Worker |-> "loop"]
    /\ sleep = 0
    /\ quit = FALSE
    /\ timer = "update" /\ socket = "poll" /\ monitor = "check"
    /\ exiting = FALSE
    /\ dest = {} /\ moved = {} /\ endless = {} /\ checked = {}

Goto(w, label) == pc' = [pc EXCEPT ![w] = label]

Count == Cardinality(Worker)

-----------------------------------------------------------------------------
(* thread_worker                                                            *)

\* while (!m->quit)
Loop(w) ==
    /\ pc[w] = "loop"
    /\ Goto(w, IF quit THEN "exit" ELSE "dispatch")
    /\ UNCHANGED <<queues, watch, sleep, quit, timer, socket, exiting>>

\* skynet_context_message_dispatch up to the first message; without a service
\* alive a queue is only dropped.
Dispatch(w) ==
    /\ pc[w] = "dispatch"
    /\ \/ /\ w \in hold /\ total
          /\ Goto(w, "begin")
          /\ UNCHANGED <<ready, hold>>
       \/ /\ w \notin hold /\ ready > 0
          /\ ready' = ready - 1
          /\ hold' = hold \cup {w}
          /\ Goto(w, IF total THEN "begin" ELSE "dispatch")
       \/ /\ w \notin hold /\ ready = 0
          /\ Goto(w, "lock")
          /\ UNCHANGED <<ready, hold>>
       \/ /\ w \in hold /\ ~ total
          /\ hold' = IF ready > 0 THEN hold ELSE hold \ {w}
          /\ ready' = IF ready > 0 THEN ready - 1 ELSE 0
          /\ Goto(w, IF ready > 0 THEN "loop" ELSE "lock")
    /\ UNCHANGED <<pushed, more, total, watch, sleep, quit, timer, socket, exiting>>

\* skynet_monitor_trigger(sm, source, handle): destination, then version.
Begin(w) ==
    /\ pc[w] = "begin"
    /\ dest' = dest \cup {w}
    /\ Goto(w, "version")
    /\ UNCHANGED <<queues, moved, endless, checked, monitor, sleep, quit, timer, socket,
                   exiting>>

Version(w) ==
    /\ pc[w] = "version"
    /\ moved' = moved \cup {w}
    /\ Goto(w, "cb")
    /\ UNCHANGED <<queues, dest, endless, checked, monitor, sleep, quit, timer, socket,
                   exiting>>

\* The callback sends to an idle service: nobody is woken for it.
Send(w) ==
    /\ pc[w] = "cb"
    /\ pushed < MaxPush
    /\ pushed' = pushed + 1
    /\ ready' = ready + 1
    /\ UNCHANGED <<more, total, hold, watch, pc, sleep, quit, timer, socket, exiting>>

\* The callback loops for ever.
Stick(w) ==
    /\ pc[w] = "cb"
    /\ Goto(w, "stuck")
    /\ UNCHANGED <<queues, watch, sleep, quit, timer, socket, exiting>>

\* The callback returns; skynet_monitor_trigger(sm, 0, 0).
Return(w) ==
    /\ pc[w] = "cb"
    /\ dest' = dest \ {w}
    /\ moved' = moved \cup {w}
    /\ Goto(w, "tail")
    /\ UNCHANGED <<queues, endless, checked, monitor, sleep, quit, timer, socket, exiting>>

InService == {w \in Worker : pc[w] \in {"begin", "version", "cb", "stuck", "tail"}}

\* The end of the dispatch (or of the next one, which finds the queue it kept
\* empty): the queue is drained and the next one is popped,
\* or it has more messages and takes turns with the next one.  The service
\* may have been the last one alive.
Tail(w) ==
    /\ pc[w] = "tail"
    /\ \/ /\ hold' = IF ready > 0 THEN hold ELSE hold \ {w}
          /\ ready' = IF ready > 0 THEN ready - 1 ELSE 0
          /\ \/ UNCHANGED total
             \/ InService = {w} /\ total' = FALSE
          /\ Goto(w, IF ready > 0 THEN "loop" ELSE "lock")
          /\ UNCHANGED more
       \/ /\ more < MaxMore
          /\ more' = more + 1
          /\ Goto(w, "loop")
          /\ UNCHANGED <<ready, hold, total>>
    /\ UNCHANGED <<pushed, watch, sleep, quit, timer, socket, exiting>>

\* Mutant: the worker does not look at quit again before it waits.
LockNoQuit(w) ==
    /\ pc[w] = "lock"
    /\ sleep' = sleep + 1
    /\ Goto(w, "wait")
    /\ UNCHANGED <<queues, watch, quit, timer, socket, exiting>>

\* pthread_mutex_lock, ++ m->sleep, and pthread_cond_wait unless m->quit.
Lock(w) ==
    /\ pc[w] = "lock"
    /\ sleep' = IF quit THEN sleep ELSE sleep + 1
    /\ Goto(w, IF quit THEN "loop" ELSE "wait")
    /\ UNCHANGED <<queues, watch, quit, timer, socket, exiting>>

\* pthread_cond_wait may return without a signal.
Spurious(w) ==
    /\ pc[w] = "wait"
    /\ Goto(w, "woken")
    /\ UNCHANGED <<queues, watch, sleep, quit, timer, socket, exiting>>

\* The mutex is free again: -- m->sleep.
Woken(w) ==
    /\ pc[w] = "woken"
    /\ sleep' = sleep - 1
    /\ Goto(w, "loop")
    /\ UNCHANGED <<queues, watch, quit, timer, socket, exiting>>

-----------------------------------------------------------------------------
(* wakeup, thread_timer, thread_socket                                      *)

Waiting == {w \in Worker : pc[w] = "wait"}

\* pthread_cond_signal wakes one of the waiting threads, if there is one.
Signal ==
    \/ Waiting = {} /\ UNCHANGED pc
    \/ \E w \in Waiting : Goto(w, "woken")

\* wakeup(m, busy): only when no more than busy workers are awake.
wakeup(busy) ==
    IF sleep >= Count - busy THEN Signal ELSE UNCHANGED pc

\* skynet_updatetime and the HUP signal push messages.
TimerPush ==
    /\ timer = "update"
    /\ total /\ pushed < MaxPush
    /\ pushed' = pushed + 1
    /\ ready' = ready + 1
    /\ UNCHANGED <<more, total, hold, watch, pc, sleep, quit, timer, socket, exiting>>

\* Mutant: the timer thread leaves waking workers to the socket thread.
TimerLoopNoWakeup ==
    /\ timer = "update"
    /\ IF total THEN UNCHANGED <<timer, pc>>
                ELSE timer' = "socket_exit" /\ UNCHANGED pc
    /\ UNCHANGED <<queues, watch, sleep, quit, socket, exiting>>

\* CHECK_ABORT, then wakeup(m, m->count - 1), then usleep.
TimerLoop ==
    /\ timer = "update"
    /\ IF total THEN wakeup(Count - 1) /\ UNCHANGED timer
                ELSE timer' = "socket_exit" /\ UNCHANGED pc
    /\ UNCHANGED <<queues, watch, sleep, quit, socket, exiting>>

\* skynet_socket_exit.
TimerSocketExit ==
    /\ timer = "socket_exit"
    /\ exiting' = TRUE
    /\ timer' = "quit"
    /\ UNCHANGED <<queues, watch, pc, sleep, quit, socket>>

\* Under the mutex: m->quit = 1 and pthread_cond_broadcast.
TimerQuit ==
    /\ timer = "quit"
    /\ quit' = TRUE
    /\ pc' = [w \in Worker |-> IF pc[w] = "wait" THEN "woken" ELSE pc[w]]
    /\ timer' = "exit"
    /\ UNCHANGED <<queues, watch, sleep, socket, exiting>>

\* skynet_socket_poll has pushed an event to a service; it returns -1 while the
\* poll has more events to hand out, else 1.
SocketEvent ==
    /\ socket = "poll"
    /\ total /\ pushed < MaxPush
    /\ pushed' = pushed + 1
    /\ ready' = ready + 1
    /\ socket' \in {"wakeup", "more"}
    /\ UNCHANGED <<more, total, hold, watch, pc, sleep, quit, timer, exiting>>

SocketWakeup ==
    /\ socket = "wakeup"
    /\ wakeup(0)
    /\ socket' = "poll"
    /\ UNCHANGED <<queues, watch, sleep, quit, timer, exiting>>

\* After -1 nobody is woken: CHECK_ABORT, then the next event.
SocketMore ==
    /\ socket = "more"
    /\ socket' = IF total THEN "poll" ELSE "exit"
    /\ UNCHANGED <<queues, watch, pc, sleep, quit, timer, exiting>>

\* skynet_socket_poll returns 0 for SOCKET_EXIT.
SocketExit ==
    /\ socket = "poll"
    /\ exiting
    /\ socket' = "exit"
    /\ UNCHANGED <<queues, watch, pc, sleep, quit, timer, exiting>>

-----------------------------------------------------------------------------
(* thread_monitor                                                           *)

\* Mutant: a check that finds the version moved does not remember it.
CheckForget(w) ==
    /\ monitor = "check" /\ w \notin checked
    /\ checked' = checked \cup {w}
    /\ endless' = IF w \notin moved /\ w \in dest THEN endless \cup {w} ELSE endless
    /\ UNCHANGED <<queues, dest, moved, monitor, pc, sleep, quit, timer, socket, exiting>>

\* skynet_monitor_check.
Check(w) ==
    /\ monitor = "check" /\ w \notin checked
    /\ checked' = checked \cup {w}
    /\ endless' = IF w \notin moved /\ w \in dest THEN endless \cup {w} ELSE endless
    /\ moved' = moved \ {w}
    /\ UNCHANGED <<queues, dest, monitor, pc, sleep, quit, timer, socket, exiting>>

\* The pause of five seconds, with CHECK_ABORT.
MonitorRound ==
    /\ monitor = "check" /\ checked = Worker
    /\ checked' = {}
    /\ monitor' = IF total THEN "check" ELSE "exit"
    /\ UNCHANGED <<queues, dest, moved, endless, pc, sleep, quit, timer, socket, exiting>>

-----------------------------------------------------------------------------
WorkerStep(w) ==
    \/ Loop(w) \/ Dispatch(w) \/ Begin(w) \/ Version(w) \/ Return(w) \/ Tail(w)
    \/ Lock(w) \/ Woken(w)

Timer == TimerLoop \/ TimerSocketExit \/ TimerQuit
Socket == SocketWakeup \/ SocketMore \/ SocketExit
Monitor == MonitorRound \/ \E w \in Worker : Check(w)

Next ==
    \/ \E w \in Worker : WorkerStep(w) \/ Send(w) \/ Stick(w) \/ Spurious(w)
    \/ Timer \/ TimerPush \/ Socket \/ SocketEvent \/ Monitor

Spec == Init /\ [][Next]_vars

\* Every thread runs on: a worker also when its callback would rather send;
\* nothing makes events arrive or waits return by themselves.
FairSpec ==
    /\ Spec
    /\ \A w \in Worker : WF_vars(WorkerStep(w))
    /\ WF_vars(Timer) /\ WF_vars(Socket) /\ WF_vars(Monitor)

-----------------------------------------------------------------------------
(* Properties                                                               *)

TypeOK ==
    /\ ready \in 0 .. MaxPush + 1
    /\ pushed \in 0 .. MaxPush /\ more \in 0 .. MaxMore
    /\ total \in BOOLEAN /\ quit \in BOOLEAN /\ exiting \in BOOLEAN
    /\ hold \subseteq Worker
    /\ pc \in [Worker -> {"loop", "dispatch", "begin", "version", "cb", "stuck", "tail",
                          "lock", "wait", "woken", "exit"}]
    /\ sleep \in 0 .. Count
    /\ timer \in {"update", "socket_exit", "quit", "exit"}
    /\ socket \in {"poll", "wakeup", "more", "exit"}
    /\ monitor \in {"check", "exit"}
    /\ dest \subseteq Worker /\ moved \subseteq Worker
    /\ endless \subseteq Worker /\ checked \subseteq Worker

\* m->sleep counts the workers in pthread_cond_wait and those on their way
\* out of it, and once quit is set nobody waits: the one broadcast of the
\* timer thread reaches every worker there is to reach.
NoSleeperAfterQuit ==
    /\ TypeOK
    /\ sleep = Cardinality({w \in Worker : pc[w] \in {"wait", "woken"}})
    /\ quit => Waiting = {}

\* A queue in the global queue is taken although all workers may have gone to
\* sleep while it was pushed and no wakeup is sent for a push by a callback:
\* the timer thread wakes a sleeper in every round.  One worker that is not
\* stuck is enough.
ReadyIsTaken ==
    ready > 0 ~> ready = 0 \/ ~ total \/ \A w \in Worker : pc[w] = "stuck"

\* When the last service is gone every thread ends, so start() returns.
Shutdown ==
    ~ total ~> /\ \A w \in Worker : pc[w] = "exit"
               /\ timer = "exit" /\ socket = "exit" /\ monitor = "exit"

\* A callback that does not return is marked endless: again and again all the
\* workers stuck so far have been noticed.
StuckIsNoticed == []<>(\A w \in Worker : pc[w] = "stuck" => w \in endless)
=============================================================================
