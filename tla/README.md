# skynet-locust in TLA+

skynet-locust is a load tester in the manner of locust, written as Lua services on top of the
skynet actor runtime (C). This directory models the parts of it where the order of steps of
several threads, or of several coroutines, decides whether the program is right. Paths below are
relative to the repository's root, which is `src/` in `PROJECT.json`.

Every module is a translation of code; `PROJECT.json` ("map") names the lines behind every
definition.

    tlc -workers 2 -config MCRing.cfg MessageRing      # one run
    tlapm MessageDispatch_proofs.tla                   # one module's proofs (about two minutes)

## 1. The system

### Inventory

| part | state | operations | talks to | hard part |
|---|---|---|---|---|
| message queues, `skynet-src/skynet_mq.c` | ring, `in_global`, `release` per service; the global queue of queues | push, pop, expand, mark_release, release | everybody who sends; workers | a queue must be in one place at a time, and may not be forgotten or freed early |
| contexts and dispatch, `skynet_server.c` | `ref`, `init`, `cb` per context, `G_NODE.total` | context_new, dispatch, send, KILL, LAUNCH, ABORT, release | queues, handles, modules | lock-free reference counts; kill races send, dispatch and launch |
| handle storage, `skynet_handle.c` | hash table of contexts, sorted name array | register (grows), retire, retireall, grab, findname, namehandle | contexts | the handle is stored in the context after the lock is dropped; wrap of the counter |
| timer, `skynet_timer.c` | wheel of 5 levels, 32-bit time | timeout, updatetime | pushes to queues | wrap, moves between levels, adds while a list is dispatched |
| threads, `skynet_start.c`, `skynet_monitor.c` | `sleep`, `quit`, versions | worker, timer, socket, monitor loops, wakeup | all of the above | lost wake-ups, shutdown |
| socket server, `socket_server.c`, `skynet_socket.c` | socket slots, control pipe, write buffers | open, send, close, poll | pushes to queues | slot reuse, close with pending writes |
| Lua sessions, `lualib/skynet.lua`, `skynet/queue.lua` | session tables, coroutine pool | call, send, ret, fork, wait, wakeup, timeout | contexts | late answers, errors, kills while waiting |
| launcher, service_mgr, snax | instances, pending requests | LAUNCH, ERROR, LAUNCHOK, uniqueservice | sessions | requests that wait for a service that fails |
| harbor, cluster, datacenter, multicast, sharedata, gate | remote names, connections, reference counts | register, query, send, subscribe | sockets, sessions | disconnects, waiting queries |
| swarm controller, `game/service/web/route.lua`, `webCenter.lua`, `dataset.lua` | `state`, `operation_ver`, `agents`, `agent_count` | /swarm, /stop, run_agent, stop_agent, reset | launcher, agents, statistics | requests handled while a coroutine waits |
| statistics, `stats.lua`, `counter.lua`, `monitor.lua` | samples, `hold` | report, snapshot, reset | agents, web pages | services killed by reset and still cached |
| game services: playerDataCenter, redis, db, proto, alert, mylogger, serverStart | caches, connections | load, save, query | databases | delayed saves |
| game libraries: timers, scheduler, heap, sorted set, consistent hash, snowflake | data structures | | | pure algorithms |

`PROJECT.json` lists them all as components, with what is left out and why, and under "hazards"
each place that is hard to test, with the property that covers it.

### What makes the parts correct

- A service handles its messages one at a time, in the order one sender sent them; a message is
  handled or dropped, never lost; a retired service is freed once, when nobody refers to it.
- A handle that was given out leads to its context and to no other until it is retired.
- A timer goes off once, in its tick, in the order of the requests.
- A queue with work is taken although workers sleep; the node ends when the last service is gone.
- A swarm that reports "running" is the one asked for last, and a stopped one does not run.
- What is sent to a socket arrives whole and in order; the owner of a socket hears of its end
  once, and always.
- A call gets the one answer meant for it, or an error, whoever exits or fails meanwhile.
- What an agent measures is counted once, and the table on the page shows it.

## 2. Modules

| module | models | EXTENDS / refines |
|---|---|---|
| `MessageDispatch` | queues, global queue, contexts, dispatch, launch and kill | refines `Mailbox` |
| `Mailbox` | abstract: a FIFO mailbox per service with phases open, closing, closed, gone | |
| `MCDispatch` | instances for TLC (weights of workers) | extends `MessageDispatch` |
| `MessageDispatch_proofs` | proofs about `MessageDispatch` | extends it |
| `MessageRing` | the ring buffer of one queue and its overload alarm | refines `Fifo` |
| `Fifo` | abstract: a sequence | |
| `MessageRing_proofs` | proofs about `MessageRing` | extends it |
| `HandleStorage`, `MCHandle` | handle table and names | |
| `HandleStorage_proofs`, `WorkerPool_proofs`, `Swarm_proofs`, `Sessions_proofs` | proofs about these modules | extend them |
| `SocketServer_proofs` | the inductive invariant of `SocketServer` | extends it |
| `SocketStream_proofs` | what the owner and the peer of a socket see; its counters | extends `SocketServer_proofs` |
| `TimerWheel` | the timing wheel | refines `Countdown` |
| `Countdown` | abstract: every timer has its ticks left | |
| `WorkerPool` | the threads of a node | |
| `Swarm` | the swarm controller | |
| `SocketServer`, `MCSocket` | TCP sockets: worker threads, command pipe, socket thread | |
| `Sessions`, `MCSessions` | coroutines, sessions and critical sections of Lua services | |
| `Statistics` | statistics services, their registry, the agents' monitor | |

`MessageDispatch` uses a sequence for each queue; `MessageRing` shows that the ring is one.
`Sessions` and `Statistics` rest on what `MessageDispatch` shows: a queue per service, messages
of one sender in order, one callback at a time. `Statistics` and `Swarm` split the web service:
`Swarm` has the requests that start and stop agents and only the waits of `dataset.reset`,
`Statistics` has all of reset and only that /swarm has killed the agents before it.
`WorkerPool` reduces the queues of `MessageDispatch` to their number, `MessageDispatch` leaves
out the sleeping of workers; `HandleStorage` has the slots behind the set `registered` of
`MessageDispatch`.

### MessageDispatch

A thread is a worker or an outside thread (timer, socket). One action is one critical section of
a spin lock or of the handle rwlock, or one atomic operation on `ctx->ref`; `pc` says where a
thread is between them, and the variables `held`, `nq`, `cur`, `msg`, `i`, `n`, `tgt`, `out`,
`dead`, `victim`, `new`, `own` are the locals of the C functions. `skynet_context_push` and
`skynet_context_release` are called from many places; `back` is the place they return to.

- `Pop, Grab, MqPop, Length, CbReturn, TailPop, Requeue`: `skynet_context_message_dispatch`.
  The number of messages of one dispatch depends on the worker's weight (`Divisor`).
- `Send, Push, Release, Delete`: `skynet_send` down to `delete_context`. `Delete` takes
  mark_release, the free and the decrement of `total` as one step: only mark_release touches what
  others can still see. The decrement is visible to `CHECK_ABORT`, which is in `WorkerPool`.
- `MqRelease, Drop, DropEnd, Free`: the end of a queue, error answers included.
- `Kill, Retire`: KILL and EXIT with monitor_exit. A KILL of a handle that is gone already is
  possible (bounded by MaxSend).
- `Launch, InitOk, InitFail, Launched, Handover`: `skynet_context_new`. The init function may
  send and kill, itself included; it launches no further service.

Left out: message bodies and sessions, log messages (each `skynet_error` is a send to the
logger), commands that only read, harbor, profiling. Handles are not reused within a behaviour.
`NoCb` allows services without callback; the runs have none.

One thing is deliberately outside of `MemorySafe`: after its own release `skynet_context_new`
still writes `ctx->init`, passes `ctx` to `skynet_error`, and `cmd_launch` reads the handle of
what it returns. If another service kills the new one in that window, `ctx` is freed first. The
model has the window (`Launched` with `ctx` "freed" is reachable); it is listed as a hazard.

### MessageRing

`cap`, `head`, `tail`, the array and the alarm's two integers; one action per function.
`expand_queue` leaves the second half of the new array uninitialized: any message. `peak` and
`alarms` are history variables of a backlog, from one pop that finds the queue empty to the next:
how long it got, and how many alarms it raised.

### HandleStorage

One action per critical section of the rwlock. `Register`/`RegisterGrow` and `StoreHandle` are
separate because `ctx->handle` is assigned after the lock is dropped. A failed assertion or a
null dereference of the growing loop is recorded in `fault` and ends the behaviour; the loop may
double a second time if the wrap left it no free slot, and then always meets one of the two. ABORT reads
and retires slot by slot. `bound` and `due` are history variables that only the properties read.
Harbor bits and `name_cap` are left out.

### TimerWheel

`Near`, `Level` stand for 256 and 64, and the word is `Near * Level^4` as in the code, where it
is 2^32. The wheel is a function from buckets to lists. The lock is held from `Update` to
`UpdateDone` except in "dispatch", where timers can be added. A delay is at most half the word,
as a positive `int` is.

### WorkerPool

Workers, the timer, socket and monitor threads. `ready` is the number of queues in the global
queue; `total` whether a service is alive; the last one can go only when no other worker is in a
callback, as the references in `MessageDispatch` imply. A callback may send, return, or loop for
ever (`Stick`). Waits may return spuriously; a signal with nobody waiting is lost.

### Swarm

The web service is one Lua state, so a step runs from one wait to the next: the waits are
`skynet.newservice` in run_agent, `snax.kill` in `dataset.reset`, and the timeout between two
batches. A fork runs in the dispatch that made it. In `self.agents[id] = skynet.newservice(...)`
Lua has evaluated `self.agents` before the wait; `table` and `job[op].table` tell the tables
apart. `overlapped` is a history variable: a request was handled while a coroutine waited for an
answer.

Both calls may fail: `LaunchFailed` ends run_agent, and `ResetFailed` ends the request between
`stop_agent` and the new state. For the latter no other /swarm need overlap: the page's
`/stats/reset` kills the same services, and what it does to statistics is in `Statistics`. A job
that ended so is "failed"; `LastFailed` says that it was the last /swarm's.

### SocketServer

A worker's call is split where another thread can see the difference: `Connect` (reserve_id up to
its CAS) and `Request` (the id is stored, 'O' goes into the pipe); `Send`, `Lock`, `DirectWrite`
and `Push` of 'W' for a direct write; `Send`, `inc_sending_ref` and `Push` of 'D' or 'P' for one
through the pipe; `Command` for close, shutdown, start and pause. The socket thread executes one
command (`Ctrl`) or one event (`Handle`) per step, in the order of `socket_server_poll`:
commands until the pipe is empty, then events, and commands again only after the next `Wait`.
`force_close` frees the lists, waits for the lock (`CloseFd`), and a command that returned a
message then removes the events of the socket (`clear_closed_event`).

`wb_size` is what the two lists hold, so the model does without it, but for one thing: `force_close`
frees the lists and does not reset it, and only `new_fd` does. `freed` says that it still counts
such buffers.

A message has `MsgSize` units. A buffer in a list is `[m, at]`: message `m`, of which `at` units
are gone (`write_buffer.ptr` against `buffer`), so a buffer sent in part can be told from a whole
one. `wire[id]` is the sequence of writes its peer has received, each `[m, from, to]`: a write
takes any part of what it is offered. `net` is the connection behind an id (connecting, up, the
peer has finished, reset, hung up); what epoll reports of it is `Event`. `said` collects what the
owner of an id was told.

Commands and sends start once the owner knows the socket (`OPEN`, `ACCEPT`), as `socket.lua`
does. Left out: UDP, bind of a foreign fd, the listening socket itself (it sits in a slot of its
own; a connection may come at any time, `report_accept`), send warnings and statistics, read
buffer sizes, failing `epoll_ctl`.

Two windows in the code let an id meet events or commands of the slot's previous socket: a
command that returns -1 does not clear the events already fetched, and reserve_id stores the id
after its CAS. The model has both; the ids that met are in `stale`, which `StreamOK`,
`EventOrder` and `NoSilentDeath` leave out (and must: they fail for them). `CountersHold` leaves
out nobody for these events; it says what they do to the assertions of `send_buffer_`.

The second window has a worse end, which the attempt to prove the properties for any number of ids
brought up: a close of the slot's previous id that is executed between the CAS and the store finds
the type `RESERVE` and the id still its own, and with requests of that id on the way it makes the
slot a half-closed one. A later request then makes the slot invalid, and it is reserved a second
time although the first reservation is still to be opened. `torn` is the set of slots to which a
command or an event has done this. The properties are about the other slots; two such reservations
in one slot need more ids and messages than the instance of the run has.

### Sessions

The tables of `skynet.lua` in each service are one record (`New`). One action per function of the
API, taken by the running coroutine: `Call, Sleep, Wait, Wakeup, Fork, Ret, Response, Respond,
Enter, Leave, Return, Raise, Exit`. Between them the service follows the code of `suspend` and
`dispatch_message`: `Chain` is dispatch_wakeup, then dispatch_error_queue; `ForkLoop` the loop over
the fork queue; `Take` the next message.

A coroutine calls what its service uses (`Uses`) in any order, with these exceptions, which are
guards of the actions: a sleeper is woken once, by a token that is its coroutine, and not out of
`skynet.call` or a critical section; a function that runs in a critical section leaves it before its
coroutine ends or raises an error (`xpcall` in `queue.lua` sees to that) and nests it once; a request
is answered once (`skynet.ret` and the closures raise errors otherwise). A session number or a
coroutine more than the bounds is not taken.

A service is called by its handle or by its name. For a name `watching_session` holds the name, while
an error of session 0 comes from a handle, and `_error_dispatch` compares the two: `byname` has these
calls. `lost` is a history variable, the requests that nobody will answer: taken after the exit of
the callee, by name and dropped, or left by a handler that returned without an answer (`Return`;
the code logs it). A package that `c.send` refuses as too large is left out: the limit is 2^56 bytes,
and the size is an `int`.

After `Exit` the service still takes what the worker has in its batch, then `Release` frees it and
`Drop` answers the rest of its queue with errors of session 0.

### Statistics

The agents' `monitor.lua`, the services of `stats.lua` and `counter.lua`, and `dataset.lua` with
the critical sections of `webCenter.lua`. A coroutine of the web service runs from one wait to the
next; the waits are the critical section, `snax.newservice` (`Serve`, `Launched`) and `snax.kill`
(`Kill`, `Killed`). `addr` keeps every generation of the tables, because a reset goes on iterating
over the old ones. A key that is added to a table while `pairs` iterates makes the rest of the
iteration arbitrary (`Yields`, `Ends`). What is reported is the number of updates; times, averages
and the aggregation in `dataset.report` are left out, and so is `response.reset` of the services,
which nobody calls. The scripts use one method, so `stats_addr` is a table of names.

A request that has just entered its critical section is served before the others move: this
step reads and writes only tables of the web service, which no other service can see.

`lost`, `dropped` and `stale` are history variables: agents with a call that was not counted,
services a reset has left alive in no table, agents a reset has met.

## 3. Runs

| run | instance | shows |
|---|---|---|
| `dispatch_kill` | 2 interchangeable services (symmetry), 2 workers (weights -1 and 0: one message or the whole backlog per dispatch), 1 outside thread, 2 sends | `SingleOwner`, `NoIdleBacklog`, `RefCount`, `MemorySafe`, `PerSenderOrder`, refinement of `Mailbox` while services send to and kill each other |
| `dispatch_launch` | 1 service at boot, which is also monitor_exit, 1 launched, 2 workers, 1 send, fair | launches that succeed, fail or are killed: `InitBeforeDispatch`; every message is taken out, every retired service freed (the other invariants are proved, section 4) |
| `handle` | table from 1 slot, 3 contexts, 1 launcher, 1 ABORT, 2 names, `HandleMask` 3, 4 registrations, fair | lookups survive growth, reuse of slots and the wrap (`Reachable`); names are a map; no two contexts meet in a slot; ABORT is complete and returns |
| `handle_race` | 2 launchers, 5 contexts, table from 4 slots as in the code | **violation**, see below |
| `timer_wheel` | word 32 in 5 levels of 2, 2 timers with delays up to 15, up to 2 ticks per update, fair | every pending timer in one list and well placed; refinement of `Countdown`; every timer goes off |
| `swarm` | 3 /swarm, 1 /stop, 1 or 3 users, rate 2, 2 failures of agents or resets, fair | while requests do not overlap a wait: only the current operation runs (`OrderlyRuns`), the count is true (`CountIsTrue`), "running" means complete, or the last reset failed and nobody runs (`RunningIsComplete`); hatching ends unless the last /swarm failed (`HatchingEnds`) |
| `swarm_overlap` | 2 /swarm, 1 /stop | **violation**, see below |
| `pool` | 2 workers, 2 pushes, 1 dispatch that leaves messages, fair | nobody sleeps after quit, ready queues are taken, stuck callbacks are noticed, everything ends |
| `ring` | initial size 2, up to 6 messages, alarm above 1 | FIFO across wraps and two expansions (`IsFifo`); alarms as often as a backlog doubles, no more and no less, and afresh in the next (`AlarmsFollowBacklog`) |
| `socket` | 2 interchangeable workers (symmetry), 1 slot with 2 ids, 2 messages of 2 units, limit 1 of the request counter, 1 command, 1 act of a peer | `StreamOK`: whole messages, in each worker's order; `EventOrder`: CLOSE once and nothing after it; `NoSilentDeath`: no end without a message; `CountersHold`: the request counter and `wb_size` agree with what they count, and where an assertion about them can fail; `WriteArmed`: no lost write wake-up |
| `sessions` | a client (call, fork, critical section, exit) and a server (call by name, sleep, wait, wakeup, response, exit) of 2 coroutines each, 3 and 2 sessions | `NoOrphanCall`: a call that waits has an answer on its way, but for the lost ones; `TrueOutcome`: it is the one meant for it; `NothingLeft`, `Resumable`: queues of the callback; `Handover`: the critical section |
| `statistics` | 1 counter, 2 timed names, 2 agents with 1 request each, 3 services, 2 resets | `RowsAreTrue`: rows are of live services and nothing counted stays unreported; `UniqueReporter`: one service a name; `NothingLost`: no post to a dead service, no endtime before its time |

Each module's `TypeOK` is checked with the first invariant it belongs to (`WellPlaced`,
`CountIsTrue`, `NoSleeperAfterQuit`, `Reachable`, `CountersHold`, `Resumable`, `RowsAreTrue`); for
`MessageDispatch` and `MessageRing` it is proved.

Why the bounds are enough: two workers and one outside thread are the least for every pair of
roles that meet at a lock (two pushers, pusher and popper, two killers, killer and launcher); two
sends give each thread a message in flight; the table grows twice and handles wrap with live
contexts; the word of the timer wraps and timers pass through all levels; the ring expands twice.
One slot with two ids is the least in which a socket meets its successor, two messages of two
units the least for a torn stream (one direct, one queued), and the counter of limit 1 makes a
worker wait for it. Two coroutines a service give a call that waits beside one that exits,
raises an error, or wants the critical section. Three services and two resets let a name be
served before, during and after a reset, and two resets meet.
The proofs of section 4 remove the bounds for seven of the nine detailed modules.

CHECK_DEADLOCK is off where the system really stops: with the bounded sends, registrations,
sessions or requests used up, or after shutdown. The timer and the ring go on for ever.

Fairness. `MessageDispatch!FairSpec`: each thread continues with what the runtime does by itself
(`Step`); the operating system preempts threads and does not starve them, and callbacks return
(a service that loops for ever holds its queue, as the monitor then reports). Nothing makes a
service send, kill or launch. `HandleStorage`: ABORT goes on once called. `TimerWheel`: the
timer thread loops and the clock moves. `WorkerPool`: every thread continues, a stuck callback
does not; no event has to arrive. `Swarm`: other services answer and timeouts fire.
`SocketServer`, `Sessions` and `Statistics` state safety only: peers, user code and testers owe
nobody a step.

### Disagreements found

- `handle_race`, `NoSlotTaken`: with two threads launching at once, the assertion
  `new_slot[hash] == NULL` in `skynet_handle_register` can fail. Between register and the
  assignment to `ctx->handle` the table holds contexts whose handle reads 0; a third register
  that has to grow the table sends all of them to slot 0. With one launcher (`handle`) it holds.
- `swarm_overlap`, `OnlyCurrentRuns`: run_agent checks "stopped" and "expire operation" at its
  entry only and then waits for each new service; a request in that window lets a stopped or
  replaced operation go on, with agents nobody will kill.

### Other behaviour worth knowing

These follow from the code and, but for the last one, are in the models. Where a property would fail
because of one, its definition says which states it leaves out.

The first two stop the program at an assertion of `socket_server.c`, the lines that say it cannot
happen:

- line 489, `assert(type != SOCKET_TYPE_RESERVE)` in `force_close`: a command for a slot's previous id
  is executed between the CAS of `reserve_id` and the store of the id. It fails the assertion, or
  undoes the reservation (`torn`, section 2).
- line 892, `wb_size == 0` in `send_buffer_`: events of a socket whose close returned no message, or
  whose slot is reserved again before they are cleared, meet the slot's next socket. E.g. a shutdown
  of a socket that the peer has closed and that has data to write: `force_close` frees the data, leaves
  `wb_size`, and returns -1; `reserve_id` takes the slot; the write event already fetched finds the
  lists empty and `wb_size` not 0. Once `new_fd` has run, such an event does no more than turn up
  at the wrong socket (`stale`).

The others contradict no statement of the repository:

- `close_socket` while another thread is between `inc_sending_ref` and its request: the socket
  stays as closing, the request is dropped because of it, and the fd stays open until a reset.
- Three kinds of request are never answered, and their callers wait for ever: those a service takes
  after its `skynet.exit`, in the rest of its batch; those sent by name that are dropped with the
  service (the caller is told, but `_error_dispatch` compares the name with a handle); those whose
  handler returns without an answer.
- Two overlapping `/stats/reset` or `/swarm` kill the same services. The second fails, and the first
  clears the tables; if a name is added meanwhile the order of `pairs` may make both fail, and as the
  tables are then never cleared, every later reset fails too.
- A `/swarm` whose reset fails has stopped the agents and counted up `operation_ver`, but goes on
  showing the state before it: "running" or "hatching" without agents, until the next /stop or /swarm.
- After `/stats/reset` the agents that run keep the handles of killed services, so what they
  measure is lost; a statistics service that is launched during a reset may be left alive for ever.
- A name that a service registers after it was killed stays bound to a handle that is gone.
- `simGate.lua` sends its request before `monitor.time`: its endtime can overtake its time.

## 4. Proofs

`tlapm` proves these for all constants that satisfy the modules' assumptions: finite sets of
services and threads, natural bounds.

`MessageRing_proofs`: `RingTypeOK` (indices and contents) and `RingIsFifo` (the ring implements
`Fifo`). The argument is a case split on whether the contents wrap around the end of the array;
`%` is dealt with in a few lemmas about one turn.

`MessageDispatch_proofs`: `DispatchInv` is the
inductive invariant; from it `DispatchTypeOK`, `DispatchControl`, `QueueHasOneOwner`,
`NoQueueForgotten`, `ReferencesCounted`, `NoUseAfterFree`, `LivesFitTogether`.

    Inv == Shape /\ ControlOK /\ RefSum /\ TotalOK /\ RefsAlive /\ LifeOK
           /\ Inj(globalmq) /\ OwnerOK /\ Distinct /\ FlagOK

None of the properties is inductive by itself:
- a release may only be the last one if `ref` is exact (`RefSum`), so that a context with a
  reference is not freed (`RefsAlive`), and that `ref` never gets negative;
- `ref` stays exact only if each thread has in hand what its place in the code says
  (`ControlOK`), since actions drop what they hold by clearing those variables;
- a queue may be freed only by its owner after the mark (`LifeOK`), and only one owner exists
  (`Inj`, `OwnerOK`, `Distinct`);
- `Push` and `Delete` may link the queue only if nobody owns it, which the flag has to say
  exactly (`FlagOK`); the flag is inexact once `delete_context` has pushed an idle queue, and
  then no push can come any more because no reference is left.
`RefStep` shows by cardinalities that an action which moves a reference from one variable to
another keeps the sum.

Its second part adds what an order of messages needs. `LaunchOK`: a handle that can be found
belongs to an initialised context, or a thread still has it in `new` with its queue in hand, so that
nobody else can take that queue; hence `CallbackAfterInit`. `OrderOK`: each queue is in order, and
a message that a thread is about to push is younger than all its sender has pushed, because the
thread still has the sender's queue in hand (`Fresh`); hence `SendOrderKept`. `DispatchIsMailbox`
shows the refinement of `Mailbox` step by step: `MqPop`, `Drop`, `Push`, the registrations and the
marks are steps of `Mailbox`, everything else stutters.

`WorkerPool_proofs`: `PoolInv` has the type invariant, that `m->sleep` is the number of workers
asleep, that `quit` is set by the timer thread as it ends, and that no thread ends while a service
is alive; from it `BroadcastReachesAll` and `NodeStaysUp`. The number of sleepers is followed by a
lemma on cardinalities (`SleeperCount`).

`Swarm_proofs`: `SwarmInv` has types always and `Orderly` while requests have not overlapped a wait:
the table holds exactly the agents alive, all of them of the current operation and numbered from 1
without a gap, and a job that goes on is the current one with `agent_count` agents launched; while
the state is "running", the job of the last /swarm is done, or failed with nobody alive. From
it `OnlyCurrentOperation`, `CountsAgents` and `RunningMeansAll`.

`HandleStorage_proofs`: `HandleInv` says that every context is in one slot, that of its handle
modulo the size of the table, or is in the hands of the one launcher that has yet to store its
handle; and that a sweep of ABORT has all that is due at or after its index. Doubling moves a
context not at all or by the old size, so it never moves behind the index. The run `handle_race`
shows that this fails when launches overlap, so `TableSound`, `HandlesReach`, `GrowthKeepsApart` and
`AbortMissesNobody` have the hypothesis `[][Serial]_vars`: no register while another launch has not
stored its handle. `OneLauncher` has none: if one thread at a time launches, every behaviour is
serial. This is so when services are launched through the launcher service (`skynet.newservice`),
whose callbacks never overlap by `QueueHasOneOwner`.

Its second part proves `NamesFound` without that hypothesis: names are kept by handle, not by slot.
`NamesInv`: `s->name` is sorted, and has an entry for a name exactly if the name is bound, with its
handle. The search by halves and the loop that squeezes out the names of a retired handle are
recursive functions (over pairs of bounds, and over positions, the shape in which the prover can
unfold them). For each it is shown that such a function exists, and then that what it
returns is right, from the least range or position where it would not be:
`Searched` has a found position hold the name, and a place for insertion with all smaller names
before it and all greater ones after it, hence `Insert` there keeps the array sorted; `SqueezedIs`
has the entries of other handles kept, in order.

`Sessions_proofs`: `SessionsInv` has the types of all tables and messages, and for a service that is
up `Parked` (each open session leads to one suspended coroutine, and back from `sleep_session` and
`watching_session`), `Queues` (what is in the queues of wakeups, errors and forks waits for it, and
once), `Section` (the critical section) and `Flow` (while the loop over the fork queue runs, wakeups
or errors are left only if a Nop comes). `Flow` is what makes `NothingLeft` inductive: `suspend` of a
failed coroutine returns to the loop with wakeups left, and it is the empty fork that it adds which
brings the callback back to them. `ParkSound`, `ResumeSound`, `BeginSound` and `EndSound` show the four
things that happen to a coroutine; each action is an instance of one. After `skynet.exit` only types
are claimed, since coroutines are closed while the tables still name them. From it `NothingIsLeft`,
`AlwaysResumable` and `SectionHandedOver`.

In its second part `AnswersInv` follows a request from the queue of the callee to whoever owes
the answer. `TrueOutcome` is not inductive: that a request is not answered twice needs that it is in
one place at most (`Single`: once in the queue; `Owing`: owed by one coroutine or one closure, and then
neither in the queue nor answered), and that a response is the callee's needs that the sessions of
timers are not those of calls (`Calling`) and that what is in a queue was said (`Mailed`). Unlike
`SessionsInv` it is claimed after `skynet.exit` too: the coroutines that are closed there keep their
entries in `session_coroutine_id` although the error has been sent for them, so a closed coroutine that
is resumed in vain may send the error again, but never a result; `Placed` says that it is resumed at
most once. `AnswersStep` shows what a step of one service leaves alone in the others, so each action is
shown to keep only the parts of its own service. From it `TrueOutcomes`.

The converse is `NoCallForgotten`: a request is in one place at least, until its caller is
answered or it is one of the three kinds in `lost`. `NoOrphanCall` is inductive on top of `AnswersInv`. `WayStep` has what a step of one service
must do: leave the messages in the other queues, keep each request that it owes or that it takes,
answer it, or lose it (`Kept`), and give an error it takes to the coroutine that watches (`Handled`). The hard
step is `skynet.exit`, which sends the errors of a service as a sequence built from a set: `ReportAll`
shows that each request owed has its place in it, counting the sessions below it (`Rank`).

`SocketServer_proofs`: `Inv` is the inductive invariant of the socket server, for any number of
workers, slots, ids and messages and any message size.

    Inv == Types /\ IdInv /\ AskInv /\ CallInv /\ PipeInv /\ LockInv
           /\ (\A s \in Slot : SlotInv(s)) /\ AbortInv
    SlotInv(s) == ListAt(s) /\ Addressed(s) /\ Pending(s) /\ Coherent(s) /\ Covered(s)

- `Covered` is the heart of `CountersHold`: the counter of a socket is at least the number of
  messages whose requests will decrement it, in the hands of a worker or in the pipe. The counter
  can only be compared with these if its tag is that of the id in the slot, and it stays so because
  the tag changes only with the id;
- a new socket may start with the counter at 0 because nobody can ask anything of an id its owner
  was not told of (`AskInv`), and no id is told before it was reserved (`IdInv`);
- a slot that is reserved stays reserved until 'O' is executed, and one worker or one command in
  the pipe has the reservation (`Pending`);
- that a decrement meets the right message needs each message in one place: with one call
  (`CallInv`), once in the pipe (`PipeInv`), or in a list and no longer on its way (`ListAt`).
  `Addressed` has the buffers of a socket sent to that socket, so that none is left to the next;
- `Coherent` ties the type of a slot to its connection and to the shut-down that waits for the lock;
  `LockInv` gives the lock to the worker inside its direct write, whose socket stays what it was.

From it `Invariance`. The proof goes action by action and, within an action, part by
part; most actions change one slot, so each part has a lemma for the slots a step leaves alone.

`SocketStream_proofs` has four invariants on top of it. `FreeInv`: `wb_size` counts freed buffers only
in a slot without a socket, while one waits for the lock to be freed, or while the slot is reserved
(or was torn); `new_fd`, the only way out of a reservation, resets it. With `Covered` it gives
`Counters`. `ArmAt`: a socket with buffers has its
write event on, or the 'W' of its own id is under way; hence `Wakeup`. `EventAt` and `TellAt`: an
event that was fetched still fits its socket, a live socket is half closed exactly if its owner was
told CLOSE, and an id that was told of and is not in its slot any more was told of its end; hence
`Order` and `Notice`. `FlowAt` gives `StreamIntact`: `StreamOK` speaks of what was written, but
what the next write adds is decided by the lists, so the invariant is about the stream that the
writes so far and the buffers that wait make together (`Line`: the rest of a direct write, the high
list, at whose head a low buffer sent in part was moved, and the low list). This stream consists of
whole messages, each once, and has those of a worker in order; it lacks no message of high priority
that left its call and the pipe, until the socket is being closed. A write by the socket thread takes a beginning of
it and leaves the stream as it was; a direct write goes between the two halves only when no
buffer waits, and what it does not take becomes the first buffer.

Every inductive invariant was checked by TLC on the instance of its run before it was proved.

Only model-checked: liveness and everything under fairness, which the prover does not do; the
refinement of `Countdown` and `WellPlaced` of `TimerWheel`; `AlarmsFollowBacklog` of the ring; `RowsAreTrue`,
`UniqueReporter` and `NothingLost` of `Statistics`.

## 5. Not modelled

By size the repository is mostly code of others: jemalloc, Lua, lpeg, JSON, curl and md5 make up
most of its 113 000 lines of implementation, and the load tester with the runtime it needs is a
few thousand. The map covers the parts of these where several threads or coroutines meet.

- UDP, listen and bind in `socket_server.c`; `kqueue`.
- `socket.lua` and `socketchannel.lua`: buffers and blocked readers over the messages of
  `SocketServer`.
- `launcher.lua` and `service_mgr.lua`: their waiting requests are calls and closures as in
  `Sessions`; `Swarm` has the error of a launch that fails.
- harbor, cluster, datacenter, multicast, gate: not used by the load tester beyond opening a port.
- The player data centre: its launch is commented out in `main.lua`.
- Figures on the page, templates, serialisation, logging, chat alerts, database clients: data
  conversions and I/O about which there is nothing to interleave.
- Algorithms of the game's C and Lua libraries: sequential and, in this program, hardly used.

## 6. Plan

Done: the modules above and the proofs of section 4. Theorems to prove next: `UniqueReporter` and
`NothingLost` of `Statistics`, `WellPlaced` of `TimerWheel`. A further module would be `socketchannel.lua` over
`SocketServer` and `Sessions`.
