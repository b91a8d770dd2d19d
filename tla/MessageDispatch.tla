--------------------------- MODULE MessageDispatch ---------------------------
(***************************************************************************)
(* The message core of skynet: per-service message queues, the global      *)
(* queue of queues, the worker loop that dispatches them, and the life of  *)
(* a context from skynet_context_new to delete_context.                    *)
(*   skynet-src/skynet_mq.c       message_queue, global_queue              *)
(*   skynet-src/skynet_server.c   context, dispatch, send, KILL, LAUNCH    *)
(*   skynet-src/skynet_handle.c   grab and retire (slots: HandleStorage)   *)
(*                                                                         *)
(* Every critical section of a spin lock or of the handle rwlock, and      *)
(* every atomic operation on ctx->ref, is one action; a thread may be      *)
(* preempted between any two of them.  A service stands for its context,   *)
(* its queue and its handle: handles are not reused within a behaviour.    *)
(* Message bodies, sessions and log output are left out.                   *)
(***************************************************************************)
EXTENDS Integers, Sequences, FiniteSets

CONSTANTS
    Service,   \* contexts that may ever be created
    Boot,      \* the ones launched before the threads start (skynet_start)
    NoCb,      \* services whose init function sets no callback
    Monitor,   \* G_NODE.monitor_exit: the service told of every KILL, or None
    Worker,    \* the thread_worker threads
    External,  \* the timer and socket threads: they only push messages
    Divisor,   \* 2^weight of each worker, 0 for weight -1 (start, weight[])
    MaxSend,   \* bound: messages sent by callbacks and external threads, late KILLs
    None       \* the null pointer, and source 0 (system)

Thread == Worker \cup External

ASSUME ConstantsAssumption ==
    /\ Boot \subseteq Service
    /\ NoCb \subseteq Service
    /\ Monitor \in Service \cup {None}
    /\ None \notin Service
    /\ Worker \cap External = {}
    /\ Divisor \in [Worker -> Nat]
    /\ MaxSend \in Nat
    /\ IsFiniteSet(Service)
    /\ IsFiniteSet(Thread)

VARIABLES
    registered,  \* services whose handle skynet_handle_grab finds
    ctx,         \* skynet_context memory: "absent", "alive" or "freed"
    ref,         \* ctx->ref
    init,        \* services with ctx->init = true
    mq,          \* message_queue memory: "absent", "alive" or "freed"
    queue,       \* the messages of each message_queue, oldest first
    inGlobal,    \* services with q->in_global = MQ_IN_GLOBAL
    release,     \* services with q->release = 1
    globalmq,    \* the global queue Q
    total,       \* G_NODE.total
    pc,          \* where each thread is
    held,        \* the queue q a worker has in hand
    nq,          \* the next queue popped at the end of a dispatch
    cur,         \* the context a worker grabbed for held
    msg,         \* the message in dispatch
    i, n,        \* the counters of the dispatch loop
    tgt,         \* a context this thread references: push target, or to release
    out,         \* the message about to be pushed to tgt
    dead,        \* a context whose last reference this thread dropped
    back,        \* where to go on after releasing tgt
    victim,      \* the handle about to be retired
    new, own,    \* skynet_context_new: the service launched, the creator's ref
    sent         \* sends (and late KILLs) so far, bounded by MaxSend

store  == <<registered, ctx, ref, init, total>>
queues == <<mq, queue, inGlobal, release, globalmq>>
loop   == <<held, nq, cur, msg, i, n>>
call   == <<tgt, out, dead, back, victim, new, own>>
vars   == <<store, queues, loop, call, pc, sent>>

NoMsg == [src |-> None, id |-> 0]
Message == [src : Service \cup {None}, id : 0 .. MaxSend]

Labels == {"idle", "pop", "grab", "mqrelease", "drop", "free", "mqpop",
           "length", "cb", "tail", "requeue", "push", "release", "delete",
           "retire", "init", "launched", "handover"}

\* skynet_start: logger and bootstrap are launched before any thread runs;
\* their init functions have posted a first message to themselves.
Init ==
    /\ registered = Boot
    /\ ctx = [s \in Service |-> IF s \in Boot THEN "alive" ELSE "absent"]
    /\ ref = [s \in Service |-> IF s \in Boot THEN 1 ELSE 0]
    /\ init = Boot
    /\ total = Cardinality(Boot)
    /\ mq = ctx
    /\ queue = [s \in Service |->
                  IF s \in Boot THEN << [src |-> s, id |-> 0] >> ELSE << >>]
    /\ inGlobal = Boot
    /\ release = {}
    /\ globalmq \in {g \in [1 .. Cardinality(Boot) -> Boot] :
                       \A s \in Boot : \E k \in DOMAIN g : g[k] = s}
    /\ pc = [t \in Thread |-> IF t \in Worker THEN "pop" ELSE "idle"]
    /\ held = [t \in Thread |-> None]
    /\ nq = [t \in Thread |-> None]
    /\ cur = [t \in Thread |-> None]
    /\ msg = [t \in Thread |-> NoMsg]
    /\ i = [t \in Thread |-> 0]
    /\ n = [t \in Thread |-> 1]
    /\ tgt = [t \in Thread |-> None]
    /\ out = [t \in Thread |-> NoMsg]
    /\ dead = [t \in Thread |-> None]
    /\ back = [t \in Thread |-> "idle"]
    /\ victim = [t \in Thread |-> None]
    /\ new = [t \in Thread |-> None]
    /\ own = [t \in Thread |-> None]
    /\ sent = 0

Goto(t, label) == pc' = [pc EXCEPT ![t] = label]

\* The service the thread works for: the one whose init function it runs (or
\* whose launch it finishes), else the one it dispatches; None for the timer
\* and socket threads.  It is the source skynet_send fills in, and its queue
\* is the one mqrelease, drop and free are about.
Mine(t) == IF new[t] # None THEN new[t] ELSE held[t]

\* Where a KILL or a failed launch returns to after skynet_handle_retire.
Home(t) ==
    IF new[t] = None THEN "cb" ELSE IF own[t] # None THEN "init" ELSE "mqrelease"

-----------------------------------------------------------------------------
(* skynet_context_push, skynet_context_release and delete_context           *)

\* Mutant: skynet_handle_grab forgets skynet_context_grab.
GrabToNoRef(t, d, m, next) ==
    /\ ref' = ref
    /\ tgt' = [tgt EXCEPT ![t] = d]
    /\ out' = [out EXCEPT ![t] = m]
    /\ back' = [back EXCEPT ![t] = next]
    /\ Goto(t, "push")

\* skynet_handle_grab(d) succeeded for skynet_context_push(d, m).
GrabTo(t, d, m, next) ==
    /\ ref' = [ref EXCEPT ![d] = @ + 1]
    /\ tgt' = [tgt EXCEPT ![t] = d]
    /\ out' = [out EXCEPT ![t] = m]
    /\ back' = [back EXCEPT ![t] = next]
    /\ Goto(t, "push")

\* Hand the reference to context s over to skynet_context_release.
ReleaseThen(t, s, next) ==
    /\ tgt' = [tgt EXCEPT ![t] = s]
    /\ back' = [back EXCEPT ![t] = next]
    /\ Goto(t, "release")

\* skynet_send from a callback, an init function, the timer or the socket
\* thread.  A send to a handle that is not registered changes nothing.
Send(t, d) ==
    /\ \/ pc[t] = "cb" /\ held[t] \notin NoCb
       \/ pc[t] \in {"init", "idle"}
    /\ sent < MaxSend
    /\ d \in registered
    /\ sent' = sent + 1
    /\ GrabTo(t, d, [src |-> Mine(t), id |-> sent + 1], pc[t])
    /\ UNCHANGED <<registered, ctx, init, total, queues, loop, dead, victim, new, own>>

\* Mutant: skynet_mq_push writes at the head of the ring.
PushFront(t) ==
    /\ pc[t] = "push"
    /\ queue' = [queue EXCEPT ![tgt[t]] = << out[t] >> \o @]
    /\ inGlobal' = inGlobal \cup {tgt[t]}
    /\ globalmq' = IF tgt[t] \in inGlobal THEN globalmq ELSE Append(globalmq, tgt[t])
    /\ out' = [out EXCEPT ![t] = NoMsg]
    /\ Goto(t, "release")
    /\ UNCHANGED <<store, mq, release, loop, tgt, dead, back, victim, new, own, sent>>

\* Mutant: skynet_mq_push does not look at in_global.
PushAlways(t) ==
    /\ pc[t] = "push"
    /\ queue' = [queue EXCEPT ![tgt[t]] = Append(@, out[t])]
    /\ inGlobal' = inGlobal \cup {tgt[t]}
    /\ globalmq' = Append(globalmq, tgt[t])
    /\ out' = [out EXCEPT ![t] = NoMsg]
    /\ Goto(t, "release")
    /\ UNCHANGED <<store, mq, release, loop, tgt, dead, back, victim, new, own, sent>>

\* skynet_mq_push, then on to skynet_context_release.
Push(t) ==
    /\ pc[t] = "push"
    /\ queue' = [queue EXCEPT ![tgt[t]] = Append(@, out[t])]
    /\ inGlobal' = inGlobal \cup {tgt[t]}
    /\ globalmq' = IF tgt[t] \in inGlobal THEN globalmq ELSE Append(globalmq, tgt[t])
    /\ out' = [out EXCEPT ![t] = NoMsg]
    /\ Goto(t, "release")
    /\ UNCHANGED <<store, mq, release, loop, tgt, dead, back, victim, new, own, sent>>

\* skynet_context_release: ATOM_FDEC(&ctx->ref) == 1 leads to delete_context.
Release(t) ==
    /\ pc[t] = "release"
    /\ ref' = [ref EXCEPT ![tgt[t]] = @ - 1]
    /\ tgt' = [tgt EXCEPT ![t] = None]
    /\ IF ref[tgt[t]] = 1
       THEN dead' = [dead EXCEPT ![t] = tgt[t]] /\ Goto(t, "delete")
       ELSE UNCHANGED dead /\ Goto(t, back[t])
    /\ UNCHANGED <<registered, ctx, init, total, queues, loop, out, back, victim,
                   new, own, sent>>

\* Mutant: skynet_mq_mark_release leaves an idle queue out of the global queue.
DeleteNoPush(t) ==
    /\ pc[t] = "delete"
    /\ release' = release \cup {dead[t]}
    /\ ctx' = [ctx EXCEPT ![dead[t]] = "freed"]
    /\ total' = total - 1
    /\ dead' = [dead EXCEPT ![t] = None]
    /\ Goto(t, IF back[t] = "launched" THEN "handover" ELSE back[t])
    /\ UNCHANGED <<registered, ref, init, mq, queue, inGlobal, globalmq, loop, tgt, out,
                   back, victim, new, own, sent>>

\* delete_context: skynet_mq_mark_release, skynet_free, context_dec.  When
\* skynet_context_new released the last reference (ret is NULL) it does not
\* set ctx->init.
Delete(t) ==
    /\ pc[t] = "delete"
    /\ release' = release \cup {dead[t]}
    /\ globalmq' = IF dead[t] \in inGlobal THEN globalmq ELSE Append(globalmq, dead[t])
    /\ ctx' = [ctx EXCEPT ![dead[t]] = "freed"]
    /\ total' = total - 1
    /\ dead' = [dead EXCEPT ![t] = None]
    /\ Goto(t, IF back[t] = "launched" THEN "handover" ELSE back[t])
    /\ UNCHANGED <<registered, ref, init, mq, queue, inGlobal, loop, tgt, out, back,
                   victim, new, own, sent>>

-----------------------------------------------------------------------------
(* skynet_context_message_dispatch                                          *)

\* skynet_globalmq_pop finds a queue.  (On an empty Q the worker sleeps; the
\* WorkerPool module is about that.)
Pop(t) ==
    /\ pc[t] = "pop"
    /\ globalmq # << >>
    /\ held' = [held EXCEPT ![t] = Head(globalmq)]
    /\ globalmq' = Tail(globalmq)
    /\ Goto(t, "grab")
    /\ UNCHANGED <<store, mq, queue, inGlobal, release, nq, cur, msg, i, n, call, sent>>

\* skynet_handle_grab(handle).
Grab(t) ==
    /\ pc[t] = "grab"
    /\ IF held[t] \in registered
       THEN /\ ref' = [ref EXCEPT ![held[t]] = @ + 1]
            /\ cur' = [cur EXCEPT ![t] = held[t]]
            /\ i' = [i EXCEPT ![t] = 0]
            /\ n' = [n EXCEPT ![t] = 1]
            /\ Goto(t, "mqpop")
       ELSE Goto(t, "mqrelease") /\ UNCHANGED <<ref, cur, i, n>>
    /\ UNCHANGED <<registered, ctx, init, total, queues, held, nq, msg, call, sent>>

\* Mutant: skynet_mq_pop does not reset in_global on an empty queue.
MqPopKeepFlag(t) ==
    /\ pc[t] = "mqpop"
    /\ IF queue[held[t]] = << >>
       THEN /\ cur' = [cur EXCEPT ![t] = None]
            /\ held' = [held EXCEPT ![t] = None]
            /\ ReleaseThen(t, cur[t], "pop")
            /\ UNCHANGED <<queue, msg>>
       ELSE /\ msg' = [msg EXCEPT ![t] = Head(queue[held[t]])]
            /\ queue' = [queue EXCEPT ![held[t]] = Tail(@)]
            /\ Goto(t, IF i[t] = 0 /\ Divisor[t] > 0 THEN "length" ELSE "cb")
            /\ UNCHANGED <<cur, held, tgt, back>>
    /\ UNCHANGED <<store, mq, inGlobal, release, globalmq, nq, i, n, out, dead, victim, new,
                   own, sent>>

\* skynet_mq_pop in the dispatch loop; an empty queue leaves the global queue
\* for good (in_global = 0) and the context is released.
MqPop(t) ==
    /\ pc[t] = "mqpop"
    /\ IF queue[held[t]] = << >>
       THEN /\ inGlobal' = inGlobal \ {held[t]}
            /\ cur' = [cur EXCEPT ![t] = None]
            /\ held' = [held EXCEPT ![t] = None]
            /\ ReleaseThen(t, cur[t], "pop")
            /\ UNCHANGED <<queue, msg>>
       ELSE /\ msg' = [msg EXCEPT ![t] = Head(queue[held[t]])]
            /\ queue' = [queue EXCEPT ![held[t]] = Tail(@)]
            /\ Goto(t, IF i[t] = 0 /\ Divisor[t] > 0 THEN "length" ELSE "cb")
            /\ UNCHANGED <<inGlobal, cur, held, tgt, back>>
    /\ UNCHANGED <<store, mq, release, globalmq, nq, i, n, out, dead, victim, new, own, sent>>

\* n = skynet_mq_length(q); n >>= weight.
Length(t) ==
    /\ pc[t] = "length"
    /\ n' = [n EXCEPT ![t] = Len(queue[held[t]]) \div Divisor[t]]
    /\ Goto(t, "cb")
    /\ UNCHANGED <<store, queues, held, nq, cur, msg, i, call, sent>>

\* The callback returns (or there is none: ctx->cb == NULL).
CbReturn(t) ==
    /\ pc[t] = "cb"
    /\ msg' = [msg EXCEPT ![t] = NoMsg]
    /\ i' = [i EXCEPT ![t] = @ + 1]
    /\ Goto(t, IF i[t] + 1 < n[t] THEN "mqpop" ELSE "tail")
    /\ UNCHANGED <<store, queues, held, nq, cur, n, call, sent>>

\* Mutant: the worker pushes q back and yet keeps it for the next dispatch.
TailPopKeep(t) ==
    /\ pc[t] = "tail"
    /\ cur' = [cur EXCEPT ![t] = None]
    /\ globalmq' = Append(globalmq, held[t])
    /\ ReleaseThen(t, cur[t], "grab")
    /\ UNCHANGED <<store, mq, queue, inGlobal, release, held, nq, msg, i, n, out, dead,
                   victim, new, own, sent>>

\* nq = skynet_globalmq_pop(): with nothing else to do the worker keeps q.
TailPop(t) ==
    /\ pc[t] = "tail"
    /\ IF globalmq = << >>
       THEN /\ cur' = [cur EXCEPT ![t] = None]
            /\ ReleaseThen(t, cur[t], "grab")
            /\ UNCHANGED <<globalmq, nq>>
       ELSE /\ nq' = [nq EXCEPT ![t] = Head(globalmq)]
            /\ globalmq' = Tail(globalmq)
            /\ Goto(t, "requeue")
            /\ UNCHANGED <<cur, tgt, back>>
    /\ UNCHANGED <<store, mq, queue, inGlobal, release, held, msg, i, n, out, dead,
                   victim, new, own, sent>>

\* skynet_globalmq_push(q); q = nq; skynet_context_release(ctx).
Requeue(t) ==
    /\ pc[t] = "requeue"
    /\ globalmq' = Append(globalmq, held[t])
    /\ held' = [held EXCEPT ![t] = nq[t]]
    /\ nq' = [nq EXCEPT ![t] = None]
    /\ cur' = [cur EXCEPT ![t] = None]
    /\ ReleaseThen(t, cur[t], "grab")
    /\ UNCHANGED <<store, mq, queue, inGlobal, release, msg, i, n, out, dead, victim,
                   new, own, sent>>

-----------------------------------------------------------------------------
(* skynet_mq_release and _drop_queue: the end of a queue                    *)

\* The thread lets go of the queue it owns.
LetGo(t) ==
    /\ IF new[t] # None
       THEN new' = [new EXCEPT ![t] = None] /\ UNCHANGED held /\ Goto(t, "cb")
       ELSE held' = [held EXCEPT ![t] = None] /\ UNCHANGED new /\ Goto(t, "pop")
    /\ UNCHANGED <<nq, cur, msg, i, n, tgt, out, dead, back, victim, own>>

\* Mutant: skynet_mq_release does not look at q->release.
MqReleaseEager(t) ==
    /\ pc[t] = "mqrelease"
    /\ Goto(t, "drop")
    /\ UNCHANGED <<store, queues, loop, call, sent>>

\* skynet_mq_release: while delete_context has not marked the queue yet, it
\* goes back to the global queue for somebody to try again.
MqRelease(t) ==
    /\ pc[t] = "mqrelease"
    /\ IF Mine(t) \in release
       THEN Goto(t, "drop") /\ UNCHANGED <<globalmq, loop, call>>
       ELSE globalmq' = Append(globalmq, Mine(t)) /\ LetGo(t)
    /\ UNCHANGED <<store, mq, queue, inGlobal, release, sent>>

\* One turn of _drop_queue: the source of each message gets a PTYPE_ERROR.
Drop(t) ==
    LET q == Mine(t)
        m == Head(queue[q])
    IN  /\ pc[t] = "drop"
        /\ queue[q] # << >>
        /\ queue' = [queue EXCEPT ![q] = Tail(@)]
        /\ IF m.src \in registered
           THEN GrabTo(t, m.src, [src |-> q, id |-> 0], "drop")
           ELSE UNCHANGED <<ref, tgt, out, back, pc>>
        /\ UNCHANGED <<registered, ctx, init, total, mq, inGlobal, release, globalmq, loop,
                       dead, victim, new, own, sent>>

\* skynet_mq_pop fails, the loop of _drop_queue ends.
DropEnd(t) ==
    /\ pc[t] = "drop"
    /\ queue[Mine(t)] = << >>
    /\ inGlobal' = inGlobal \ {Mine(t)}
    /\ Goto(t, "free")
    /\ UNCHANGED <<store, mq, queue, release, globalmq, loop, call, sent>>

\* _release: the queue's memory is freed.
Free(t) ==
    /\ pc[t] = "free"
    /\ mq' = [mq EXCEPT ![Mine(t)] = "freed"]
    /\ LetGo(t)
    /\ UNCHANGED <<store, queue, inGlobal, release, globalmq, sent>>

-----------------------------------------------------------------------------
(* KILL (handle_exit) and LAUNCH (skynet_context_new)                       *)

\* handle_exit up to skynet_handle_retire: tell monitor_exit, if any.  It does
\* not look whether d is still registered; a KILL of a handle that was retired
\* before counts against MaxSend.
Kill(t, d) ==
    /\ \/ pc[t] = "cb" /\ held[t] \notin NoCb
       \/ pc[t] = "init"
    /\ d \in registered \/ (ctx[d] # "absent" /\ sent < MaxSend)
    /\ sent' = IF d \in registered THEN sent ELSE sent + 1
    /\ victim' = [victim EXCEPT ![t] = d]
    /\ IF Monitor \in registered
       THEN GrabTo(t, Monitor, [src |-> d, id |-> 0], "retire")
       ELSE Goto(t, "retire") /\ UNCHANGED <<ref, tgt, out, back>>
    /\ UNCHANGED <<registered, ctx, init, total, queues, loop, dead, new, own>>

\* skynet_handle_retire: one of several killers finds the slot occupied, and
\* releases the reference the table held.
Retire(t) ==
    /\ pc[t] = "retire"
    /\ IF victim[t] \in registered
       THEN /\ registered' = registered \ {victim[t]}
            /\ ReleaseThen(t, victim[t], Home(t))
       ELSE Goto(t, Home(t)) /\ UNCHANGED <<registered, tgt, back>>
    /\ victim' = [victim EXCEPT ![t] = None]
    /\ UNCHANGED <<ctx, ref, init, total, queues, loop, out, dead, new, own, sent>>

\* Mutant: skynet_mq_create leaves in_global 0.
LaunchNotInGlobal(t, s) ==
    /\ pc[t] = "cb" /\ held[t] \notin NoCb
    /\ new[t] = None
    /\ ctx[s] = "absent"
    /\ ctx' = [ctx EXCEPT ![s] = "alive"]
    /\ ref' = [ref EXCEPT ![s] = 2]
    /\ registered' = registered \cup {s}
    /\ mq' = [mq EXCEPT ![s] = "alive"]
    /\ total' = total + 1
    /\ new' = [new EXCEPT ![t] = s]
    /\ own' = [own EXCEPT ![t] = s]
    /\ Goto(t, "init")
    /\ UNCHANGED <<init, queue, inGlobal, release, globalmq, loop, tgt, out, dead, back,
                   victim, sent>>

\* skynet_context_new up to the init function: ref is 2, one for the handle
\* table and one for the creator; in_global is set though Q has no such queue.
Launch(t, s) ==
    /\ pc[t] = "cb" /\ held[t] \notin NoCb
    /\ new[t] = None
    /\ ctx[s] = "absent"
    /\ ctx' = [ctx EXCEPT ![s] = "alive"]
    /\ ref' = [ref EXCEPT ![s] = 2]
    /\ registered' = registered \cup {s}
    /\ mq' = [mq EXCEPT ![s] = "alive"]
    /\ inGlobal' = inGlobal \cup {s}
    /\ total' = total + 1
    /\ new' = [new EXCEPT ![t] = s]
    /\ own' = [own EXCEPT ![t] = s]
    /\ Goto(t, "init")
    /\ UNCHANGED <<init, queue, release, globalmq, loop, tgt, out, dead, back, victim, sent>>

\* The init function returned 0.
InitOk(t) ==
    /\ pc[t] = "init"
    /\ own' = [own EXCEPT ![t] = None]
    /\ ReleaseThen(t, new[t], "launched")
    /\ UNCHANGED <<store, queues, loop, out, dead, victim, new, sent>>

\* The init function failed: release, retire, then skynet_mq_release.
InitFail(t) ==
    /\ pc[t] = "init"
    /\ own' = [own EXCEPT ![t] = None]
    /\ victim' = [victim EXCEPT ![t] = new[t]]
    /\ ReleaseThen(t, new[t], "retire")
    /\ UNCHANGED <<store, queues, loop, out, dead, new, sent>>

\* ctx->init = true.
Launched(t) ==
    /\ pc[t] = "launched"
    /\ init' = init \cup {new[t]}
    /\ Goto(t, "handover")
    /\ UNCHANGED <<registered, ctx, ref, total, queues, loop, call, sent>>

\* skynet_globalmq_push(queue): from here on any worker may dispatch it.
Handover(t) ==
    /\ pc[t] = "handover"
    /\ globalmq' = Append(globalmq, new[t])
    /\ new' = [new EXCEPT ![t] = None]
    /\ Goto(t, "cb")
    /\ UNCHANGED <<store, mq, queue, inGlobal, release, loop, tgt, out, dead, back,
                   victim, own, sent>>

-----------------------------------------------------------------------------
\* What the runtime does by itself once a callback or init function returns.
Step(t) ==
    \/ Push(t) \/ Release(t) \/ Delete(t)
    \/ Pop(t) \/ Grab(t) \/ MqPop(t) \/ Length(t) \/ CbReturn(t)
    \/ TailPop(t) \/ Requeue(t)
    \/ MqRelease(t) \/ Drop(t) \/ DropEnd(t) \/ Free(t)
    \/ Retire(t) \/ InitOk(t) \/ InitFail(t) \/ Launched(t) \/ Handover(t)

\* What a service or the timer and socket threads choose to do.
Choose(t) == \E s \in Service : Send(t, s) \/ Kill(t, s) \/ Launch(t, s)

Next == \E t \in Thread : Step(t) \/ Choose(t)

Spec == Init /\ [][Next]_vars

\* Threads are preempted but not starved, and callbacks return; nothing makes
\* a service send, kill or launch.
FairSpec == Spec /\ \A t \in Thread : WF_vars(Step(t))

-----------------------------------------------------------------------------
(* Properties                                                               *)

Ref == Service \cup {None}

StoreOK ==
    /\ registered \subseteq Service
    /\ ctx \in [Service -> {"absent", "alive", "freed"}]
    /\ ref \in [Service -> Int]
    /\ init \subseteq Service
    /\ total \in Int

QueuesOK ==
    /\ mq \in [Service -> {"absent", "alive", "freed"}]
    /\ queue \in [Service -> Seq(Message)]
    /\ inGlobal \subseteq Service
    /\ release \subseteq Service
    /\ globalmq \in Seq(Service)

LoopOK ==
    /\ held \in [Thread -> Ref]
    /\ nq \in [Thread -> Ref]
    /\ cur \in [Thread -> Ref]
    /\ msg \in [Thread -> Message]
    /\ i \in [Thread -> Nat]
    /\ n \in [Thread -> Nat]

CallOK ==
    /\ pc \in [Thread -> Labels]
    /\ tgt \in [Thread -> Ref]
    /\ out \in [Thread -> Message]
    /\ dead \in [Thread -> Ref]
    /\ back \in [Thread -> Labels]
    /\ victim \in [Thread -> Ref]
    /\ new \in [Thread -> Ref]
    /\ own \in [Thread -> Ref]
    /\ sent \in 0 .. MaxSend

Shape == StoreOK /\ QueuesOK /\ LoopOK /\ CallOK

TypeOK == Shape /\ \A s \in Service : ref[s] >= 0

\* The point of the caller a thread returns to from skynet_context_push and
\* skynet_context_release, else where it is.
At(t) == IF pc[t] \in {"push", "release", "delete"} THEN back[t] ELSE pc[t]

\* What a thread has in hand at each point, across the calls that suspend a
\* dispatch (KILL, LAUNCH and the releases in them): a queue in every dispatch,
\* the context of that queue whenever the callback may run or has to be
\* resumed, the service in launch until its queue is handed over.
ControlOf(t) ==
    /\ At(t) \in Labels \ {"push", "release", "delete"}
    /\ At(t) = "idle" <=> t \in External
    /\ tgt[t] # None <=> pc[t] \in {"push", "release"}
    /\ dead[t] # None <=> pc[t] = "delete"
    /\ victim[t] # None <=> At(t) = "retire"
    /\ held[t] # None <=> At(t) \notin {"idle", "pop"}
    /\ nq[t] # None <=> At(t) = "requeue"
    /\ cur[t] = IF new[t] # None \/ At(t) \in {"mqpop", "length", "cb", "tail", "requeue",
                                               "retire"}
                THEN held[t] ELSE None
    /\ new[t] # None => At(t) \in {"init", "retire", "launched", "handover", "mqrelease",
                                   "drop", "free"}
    /\ At(t) \in {"init", "launched", "handover"} => new[t] # None
    /\ own[t] # None => own[t] = new[t] /\ At(t) \in {"init", "retire"}
    /\ At(t) = "init" => own[t] = new[t]
    /\ At(t) = "length" => Divisor[t] > 0

ControlOK == \A t \in Thread : ControlOf(t)

Queued == {globalmq[k] : k \in DOMAIN globalmq}
Holding(t) == {held[t], nq[t], new[t]} \ {None}

\* Every message_queue has at most one owner: it is linked once in the global
\* queue, or one thread has it in hand.  skynet_globalmq_push asserts it
\* (queue->next == NULL), the lock-free use of q in the dispatch loop and the
\* serial execution of every service rest on it.
SingleOwner ==
    /\ \A j, k \in DOMAIN globalmq : globalmq[j] = globalmq[k] => j = k
    /\ \A t \in Thread : Holding(t) \cap Queued = {}
    /\ \A t, u \in Thread : t # u => Holding(t) \cap Holding(u) = {}
    /\ \A t \in Thread : held[t] # None => held[t] \notin {nq[t], new[t]}

Owned(s) == s \in Queued \/ \E t \in Thread : s \in Holding(t)

\* No queue is forgotten: one that has messages, or whose context is gone, is
\* in the global queue or in a thread's hands; in_global says exactly when,
\* until delete_context pushes the queue of a service that went idle without
\* setting it again.
NoIdleBacklog ==
    \A s \in Service : mq[s] = "alive" =>
        /\ queue[s] # << >> \/ s \in release => Owned(s)
        /\ s \notin release => (s \in inGlobal <=> Owned(s))

\* How many threads have s in the variable f: cur, tgt or own.
Count(f, s) == Cardinality({t \in Thread : f[t] = s})

\* ctx->ref counts the references that really exist, the slot of the handle
\* table and what threads have grabbed; G_NODE.total, on which the process
\* decides to quit, counts the contexts not yet freed.
RefCount ==
    /\ \A s \in Service :
         ref[s] = (IF s \in registered THEN 1 ELSE 0)
                    + Count(cur, s) + Count(tgt, s) + Count(own, s)
    /\ total = Cardinality({s \in Service : ctx[s] = "alive"})

\* No context or queue is used after it was freed, or freed twice.  The one
\* exception is what skynet_context_new does with ctx after its own release
\* (pc "launched"): see the README.
MemorySafe ==
    /\ \A s \in registered : ctx[s] = "alive" /\ mq[s] = "alive"
    /\ \A s \in Queued : mq[s] = "alive"
    /\ \A t \in Thread :
         /\ \A s \in {cur[t], tgt[t], own[t], dead[t]} \ {None} :
              ctx[s] = "alive" /\ mq[s] = "alive"
         /\ \A s \in Holding(t) : mq[s] = "alive"
         /\ dead[t] # None => dead[t] \notin release

\* A queue is marked for release exactly when its context is freed, and it
\* outlives the context.
QueueOutlives ==
    \A s \in Service :
        /\ s \in release <=> ctx[s] = "freed"
        /\ ctx[s] = "absent" <=> mq[s] = "absent"
        /\ ctx[s] = "alive" => mq[s] = "alive"

\* One thread runs delete_context, once nobody can find the context any more.
OneDeleter ==
    \A t \in Thread : dead[t] # None =>
        /\ dead[t] \notin registered
        /\ \A u \in Thread :
             /\ dead[t] \notin {cur[u], tgt[u], own[u]}
             /\ dead[u] = dead[t] => u = t

\* Only a marked queue is dropped.
OnlyMarkedDropped ==
    \A t \in Thread : At(t) \in {"drop", "free"} => Mine(t) \in release

\* How the lives of a context and of its queue fit together: what makes the
\* lock-free hand-over between skynet_context_release, delete_context and
\* skynet_mq_release safe.
LifeOK == QueueOutlives /\ OneDeleter /\ OnlyMarkedDropped

\* dispatch_message asserts ctx->init: no worker calls back a service whose
\* launch has not finished, although senders find its handle from the moment
\* it is registered.
InitBeforeDispatch ==
    \A t \in Thread : pc[t] = "cb" /\ held[t] \notin NoCb => held[t] \in init

InHand(s) == {msg[t] : t \in {u \in Thread : held[u] = s /\ msg[u] # NoMsg}}

\* Messages from one service to another are handled in the order they were
\* sent: what is waiting is in sending order, and younger than what is being
\* handled.  It takes the serial execution of the sender and of the receiver.
PerSenderOrder ==
    \A s \in Service :
        LET Ordered(a, b) == a.src = b.src /\ a.src # None /\ a.id * b.id > 0 => a.id < b.id
        IN  /\ \A j, k \in DOMAIN queue[s] : j < k => Ordered(queue[s][j], queue[s][k])
            /\ \A m \in InHand(s), k \in DOMAIN queue[s] : Ordered(m, queue[s][k])

-----------------------------------------------------------------------------
(* The promise of a mailbox, and what implements it                         *)

Phase ==
    [s \in Service |->
       CASE mq[s] = "absent" -> "absent"
         [] mq[s] = "freed" -> "gone"
         [] mq[s] = "alive" /\ s \in release -> "closed"
         [] mq[s] = "alive" /\ s \notin release /\ s \notin registered -> "closing"
         [] OTHER -> "open"]

Box == INSTANCE Mailbox WITH
         Mail <- Message, Idle <- NoMsg, Client <- Service, box <- queue, phase <- Phase,
         busy <- [s \in Service |->
                    IF InHand(s) = {} THEN NoMsg ELSE CHOOSE m \in InHand(s) : TRUE]

\* The dispatch machinery implements Mailbox: serial handling, first in first
\* out, nothing discarded before the service is closed, nothing accepted
\* after, nothing lost when the queue is freed.
MailboxSpec == Box!Spec

\* A message that was pushed is eventually taken out again, by a dispatch or
\* by _drop_queue, whatever the other services do.
EventuallyServed ==
    \A s \in Service : queue[s] # << >> ~> queue[s] = << >>

\* The queue of a retired service is eventually freed, its context too.
EventuallyReclaimed ==
    \A s \in Service :
        (mq[s] = "alive" /\ s \notin registered) ~> (mq[s] = "freed" /\ ctx[s] = "freed")
=============================================================================
