------------------------------- MODULE Sessions -------------------------------
(***************************************************************************)
(* Coroutines, sessions and critical sections of a Lua service             *)
(* (lualib/skynet.lua, lualib/skynet/queue.lua) and the messages by which  *)
(* services call each other.                                               *)
(*                                                                         *)
(* A service runs one coroutine at a time.  Its coroutines make API calls  *)
(* in any order that the guards allow (a sleeper is woken once, a critical *)
(* section is left before its coroutine ends): one action per call, by the *)
(* running coroutine, which keeps running or yields; the service then      *)
(* follows suspend (mode "chain": wakeups, then errors), then the loop     *)
(* over the fork queue (mode "fork"), and the callback ends (mode "idle"). *)
(* An error is caught by user code or not: a coroutine that meets one goes *)
(* on, and Raise is always possible.                                       *)
(* A service is called by its handle or by its name.  For a name           *)
(* watching_session holds the name, which is never equal to the handle     *)
(* that an error of session 0 comes from.                                  *)
(* Left out: one-way sends, tracing, skynet.request, killthread and term   *)
(* (debug console), sessions after 2^31 calls, messages that are too large *)
(* (of 2^56 bytes, and a size passed to c.send is an int).                 *)
(***************************************************************************)
EXTENDS Integers, Sequences, FiniteSets

CONSTANTS
    Service,
    Co,          \* coroutines of a service; bound: those that exist at a time
    Uses,        \* what the code of each service calls
    MaxSession,  \* bound: sessions each service allocates
    None

\* "call" is skynet.call with a handle, "callname" with a name.
Function == {"call", "callname", "sleep", "wait", "wakeup", "fork", "response", "queue",
             "exit"}

ASSUME SessionsAssumption ==
    /\ IsFiniteSet(Service) /\ None \notin Service
    /\ IsFiniteSet(Co) /\ Co = 1 .. Cardinality(Co) /\ Co # {}
    /\ Uses \in [Service -> SUBSET Function]
    /\ MaxSession \in [Service -> Nat \ {0}]

Session == UNION {1 .. MaxSession[s] : s \in Service}
Nop == 0       \* in fork_queue: skynet.fork(function() end)
Break == 0 - 1 \* in session_id_coroutine: "BREAK"
Nil == 0       \* nil in a table of coroutines or sessions

VARIABLES
    mail,     \* the message queue of each service
    lua,      \* the tables of skynet.lua in each service, see New
    life,     \* "up", "exited" (its handle is retired) or "freed"
    timers,   \* the sessions the timer thread will answer
    callee,   \* history: whom each session was sent to
    answers,  \* history: the answers sent, [to, k, kind, from]
    outcome,  \* history: how each call returned
    byname,   \* the requests whose address in watching_session is a name
    lost      \* history: requests that nobody is going to answer: taken by a service
              \*   after skynet.exit, or by a handler that has returned without an
              \*   answer, or sent by name and dropped

history == <<callee, answers, outcome, byname, lost>>
vars == <<mail, lua, life, timers, history>>

\* skynet.start: the main function waits for timeout(0), session 1.
New ==
    [session |-> 1,                                           \* ctx->session_id
     id_co |-> [k \in Session |-> IF k = 1 THEN 1 ELSE Nil],  \* session_id_coroutine
     co_id |-> [c \in Co |-> Nil],                            \* session_coroutine_id
     address |-> [c \in Co |-> None],                         \* session_coroutine_address
     unresponse |-> {},
     sleep |-> [c \in Co |-> Nil],                            \* sleep_session, token = coroutine
     wakeup |-> << >>, error |-> << >>, fork |-> << >>,
     watching |-> [k \in Session |-> None],
     at |-> [c \in Co |-> IF c = 1 THEN "start" ELSE "free"], \* where a coroutine is
     run |-> Nil, mode |-> "idle",
     current |-> Nil, ref |-> 0, threads |-> << >>]           \* skynet.queue

Init ==
    /\ mail = [s \in Service |-> << >>]
    /\ lua = [s \in Service |-> New]
    /\ life = [s \in Service |-> "up"]
    /\ timers = [s \in Service |-> {1}]
    /\ callee = [s \in Service |-> [k \in Session |-> None]]
    /\ answers = {}
    /\ outcome = [s \in Service |-> [k \in Session |-> "-"]]
    /\ byname = {}
    /\ lost = {}

-----------------------------------------------------------------------------
(* Helpers; x is the Lua state of a service                                 *)

Message(t, k, from) == [t |-> t, k |-> k, from |-> from]

\* c.send of several messages: a retired handle takes none.
Deliver(out) ==
    mail' = [s \in Service |-> IF life[s] = "up" THEN mail[s] \o out[s] ELSE mail[s]]

To(d, m) == [s \in Service |-> IF s = d THEN <<m>> ELSE << >>]

\* Answer session k of service d from s.
Answer(s, d, k, kind) ==
    /\ Deliver(To(d, Message(kind, k, s)))
    /\ answers' = answers \cup {[to |-> d, k |-> k, kind |-> kind, from |-> s]}

\* With nothing to wake, fail or fork the callback returns.
Settle(x) ==
    LET y == IF x.mode = "chain" /\ x.wakeup = << >> /\ x.error = << >>
             THEN [x EXCEPT !.mode = "fork"] ELSE x
    IN  IF y.mode = "fork" /\ y.fork = << >> THEN [y EXCEPT !.mode = "idle"] ELSE y

Become(s, x) == lua' = [lua EXCEPT ![s] = Settle(x)]

Running(s) == lua[s].mode = "run"

\* The running coroutine of s calls a function of skynet.
Calls(s, function) == Running(s) /\ function \in Uses[s]

Free(x) == {c \in Co : x.at[c] = "free"}

\* co_create: any coroutine that is not in use.
NewCo(x) == CHOOSE c \in Free(x) : \A d \in Free(x) : c <= d

Run(x, c) == [x EXCEPT !.run = c, !.mode = "run", !.at[c] = "run"]

Yield(x, state) == [x EXCEPT !.at[x.run] = state, !.run = Nil, !.mode = "chain"]

Inside(x) == x.current = x.run /\ x.ref > 0

-----------------------------------------------------------------------------
(* What the running coroutine may call                                      *)

\* skynet.call: c.send and yield_call; an invalid address is an error.  (When
\* the name is gone already, not even a session is taken and nothing changes.)
Call(s, d, name) ==
    LET x == lua[s]
        k == x.session + 1
    IN  /\ Calls(s, IF name THEN "callname" ELSE "call")
        /\ k <= MaxSession[s]
        /\ IF life[d] = "up"
           THEN /\ Become(s, [Yield(x, "call") EXCEPT !.session = k, !.id_co[k] = x.run,
                                                      !.watching[k] = d])
                /\ Deliver(To(d, Message("REQUEST", k, s)))
                /\ callee' = [callee EXCEPT ![s][k] = d]
                /\ byname' = IF name THEN byname \cup {[to |-> s, k |-> k]} ELSE byname
           ELSE /\ Become(s, [x EXCEPT !.session = k])
                /\ UNCHANGED <<mail, callee, byname>>
        /\ UNCHANGED <<life, timers, answers, outcome, lost>>

\* suspend_sleep.
Suspended(x, state) ==
    [Yield(x, state) EXCEPT !.session = @ + 1, !.id_co[x.session + 1] = x.run,
                            !.sleep[x.run] = x.session + 1]

\* skynet.sleep.
Sleep(s) ==
    LET x == lua[s] IN
    /\ Calls(s, "sleep")
    /\ x.session < MaxSession[s]
    /\ Become(s, Suspended(x, "sleep"))
    /\ timers' = [timers EXCEPT ![s] = @ \cup {x.session + 1}]
    /\ UNCHANGED <<mail, life, history>>

\* skynet.wait.
Wait(s) ==
    LET x == lua[s] IN
    /\ Calls(s, "wait")
    /\ x.session < MaxSession[s]
    /\ Become(s, Suspended(x, "wait"))
    /\ UNCHANGED <<mail, life, timers, history>>

Woken(x, c) == IF x.sleep[c] # Nil THEN [x EXCEPT !.wakeup = Append(@, c)] ELSE x

\* skynet.wakeup of a coroutine that called sleep or wait; callers wake a
\* sleeper once.
Wakeup(s, c) ==
    LET x == lua[s] IN
    /\ Calls(s, "wakeup")
    /\ x.at[c] \in {"sleep", "wait"}
    /\ \A i \in DOMAIN x.wakeup : x.wakeup[i] # c
    /\ Become(s, Woken(x, c))
    /\ UNCHANGED <<mail, life, timers, history>>

\* skynet.fork.
Fork(s) ==
    LET x == lua[s] IN
    /\ Calls(s, "fork")
    /\ Free(x) # {}
    /\ Become(s, [x EXCEPT !.fork = Append(@, NewCo(x)), !.at[NewCo(x)] = "fork"])
    /\ UNCHANGED <<mail, life, timers, history>>

\* Mutant: the session of the request is kept after the answer.
AnsweredKeep(x) == x

\* session_coroutine_id[running_thread] = nil.
Answered(x) == [x EXCEPT !.co_id[x.run] = Nil]

\* skynet.ret.
Ret(s) ==
    LET x == lua[s] IN
    /\ Running(s)
    /\ x.co_id[x.run] # Nil
    /\ Become(s, Answered(x))
    /\ Answer(s, x.address[x.run], x.co_id[x.run], "RESPONSE")
    /\ UNCHANGED <<life, timers, callee, outcome, byname, lost>>

\* skynet.response: the answer is left to a closure.
Response(s) ==
    LET x == lua[s] IN
    /\ Calls(s, "response")
    /\ x.co_id[x.run] # Nil
    /\ Become(s, [Answered(x) EXCEPT
                           !.unresponse = @ \cup {[to |-> x.address[x.run],
                                                   k |-> x.co_id[x.run]]}])
    /\ UNCHANGED <<mail, life, timers, history>>

\* A closure of skynet.response is called, with ok or not.
Respond(s, r, kind) ==
    LET x == lua[s] IN
    /\ Running(s)
    /\ r \in x.unresponse
    /\ Become(s, [x EXCEPT !.unresponse = @ \ {r}])
    /\ Answer(s, r.to, r.k, kind)
    /\ UNCHANGED <<life, timers, callee, outcome, byname, lost>>

\* The call of a critical section: enter, or queue and wait.
Enter(s) ==
    LET x == lua[s] IN
    /\ Calls(s, "queue")
    /\ IF x.current \in {Nil, x.run}
       THEN x.ref < 2 /\ Become(s, [x EXCEPT !.current = x.run, !.ref = @ + 1])
       ELSE /\ x.session < MaxSession[s]
            /\ Become(s, [Suspended(x, "enter") EXCEPT !.threads = Append(@, x.run)])
    /\ UNCHANGED <<mail, life, timers, history>>

\* Mutant: the next thread gets the section and is not woken.
LeaveQuietly(x) ==
    IF x.ref > 1 THEN [x EXCEPT !.ref = @ - 1]
    ELSE IF x.threads = << >> THEN [x EXCEPT !.ref = 0, !.current = Nil]
    ELSE [x EXCEPT !.ref = 0, !.current = Head(x.threads), !.threads = Tail(@)]

\* xpcall_ret.
LeaveTo(x) ==
    IF x.ref > 1 THEN [x EXCEPT !.ref = @ - 1]
    ELSE IF x.threads = << >> THEN [x EXCEPT !.ref = 0, !.current = Nil]
    ELSE Woken([x EXCEPT !.ref = 0, !.current = Head(x.threads), !.threads = Tail(@)],
               Head(x.threads))

\* The function of a critical section returns or fails.
Leave(s) ==
    /\ Running(s)
    /\ Inside(lua[s])
    /\ Become(s, LeaveTo(lua[s]))
    /\ UNCHANGED <<mail, life, timers, history>>

\* The end of the loop of co_create: the tables forget the request.
Recycled(x) == [Yield(x, "free") EXCEPT !.co_id[x.run] = Nil, !.address[x.run] = None]

\* The coroutine ends.  When it has not answered its request nor left that to a
\* closure ("Maybe forgot response session", or skynet.ignoreret), nobody will.
Return(s) ==
    LET x == lua[s] IN
    /\ Running(s)
    /\ ~ Inside(x)
    /\ Become(s, Recycled(x))
    /\ lost' = IF x.co_id[x.run] = Nil THEN lost
               ELSE lost \cup {[to |-> x.address[x.run], k |-> x.co_id[x.run]]}
    /\ UNCHANGED <<mail, life, timers, callee, answers, outcome, byname>>

\* Mutant: nothing triggers the rest of the queues.
FailedOnly(x, c) ==
    [x EXCEPT !.co_id[c] = Nil, !.address[c] = None, !.at[c] = "free", !.run = Nil,
              !.mode = "fork"]

\* suspend of a coroutine that raised an error.
Failed(x, c) ==
    [x EXCEPT !.co_id[c] = Nil, !.address[c] = None, !.at[c] = "free", !.run = Nil,
              !.mode = "fork", !.fork = Append(@, Nop)]

\* suspend sends the error to the caller of a request.
Raise(s) ==
    LET x == lua[s]
        c == x.run
    IN  /\ x.mode = "dead" \/ (Running(s) /\ ~ Inside(x))
        /\ Become(s, Failed(x, c))
        /\ IF x.co_id[c] # Nil THEN Answer(s, x.address[c], x.co_id[c], "ERROR")
           ELSE UNCHANGED <<mail, answers>>
        /\ UNCHANGED <<life, timers, callee, outcome, byname, lost>>

-----------------------------------------------------------------------------
(* skynet.exit                                                              *)

\* Mutant: the closures of skynet.response are forgotten.
OwedByCoroutines(x) ==
    {[to |-> x.address[c], k |-> x.co_id[c]] : c \in {c \in Co : x.co_id[c] # Nil}}

\* The requests that nobody has answered.
Owed(x) ==
    {[to |-> x.address[c], k |-> x.co_id[c]] : c \in {c \in Co : x.co_id[c] # Nil}}
        \cup x.unresponse

\* The sessions in watching_session with the handle of a service.
Watched(s, x, d) == {k \in Session : x.watching[k] = d /\ [to |-> s, k |-> k] \notin byname}

\* The same with its name.
WatchedName(s, x, d) == {k \in Session : x.watching[k] = d} \ Watched(s, x, d)

Down(s, ks) == IF ks # {} THEN <<Message("ERROR", 0, s)>> ELSE << >>

\* ERROR 0 for each address of d, handle and name, that is waited for.
Downs(s, x, d) == Down(s, Watched(s, x, d)) \o Down(s, WatchedName(s, x, d))

\* ERROR for the requests of d that are owed, and for the calls to d.
Report(s, x, d) ==
    LET ks == {r.k : r \in {r \in Owed(x) : r.to = d}}
    IN  [i \in 1 .. Cardinality(ks) |->
           Message("ERROR", CHOOSE k \in ks : Cardinality({j \in ks : j < k}) = i - 1, s)]
        \o Downs(s, x, d)

\* The coroutines are closed; the forked ones and the running one go too.
Shut(x) ==
    [x EXCEPT !.fork = << >>, !.unresponse = {}, !.run = Nil, !.mode = "fork",
              !.at = [c \in Co |-> IF x.at[c] \in {"free", "fork"} THEN "free" ELSE "closed"]]

Exit(s) ==
    LET x == lua[s] IN
    /\ Calls(s, "exit")
    /\ life[s] = "up"
    /\ Deliver([d \in Service |-> Report(s, x, d)])
    /\ answers' = answers \cup {[to |-> r.to, k |-> r.k, kind |-> "ERROR", from |-> s]
                                  : r \in Owed(x)}
    /\ Become(s, Shut(x))
    /\ life' = [life EXCEPT ![s] = "exited"]
    /\ UNCHANGED <<timers, callee, outcome, byname, lost>>

\* The worker has finished its batch: the context and the Lua state are freed.
Release(s) ==
    /\ life[s] = "exited"
    /\ lua[s].mode = "idle"
    /\ life' = [life EXCEPT ![s] = "freed"]
    /\ Become(s, [New EXCEPT !.at = [c \in Co |-> "free"], !.id_co = [k \in Session |-> Nil]])
    /\ timers' = [timers EXCEPT ![s] = {}]
    /\ UNCHANGED <<mail, history>>

\* drop_message: the source of a message that was not taken gets ERROR 0, which
\* fails the calls by handle only.
Drop(s) ==
    LET m == Head(mail[s]) IN
    /\ life[s] = "freed"
    /\ mail[s] # << >>
    /\ mail' = [d \in Service |->
                  IF d = s THEN Tail(mail[s])
                  ELSE IF d = m.from /\ life[d] = "up" THEN Append(mail[d], Message("ERROR", 0, s))
                  ELSE mail[d]]
    /\ lost' = IF m.t = "REQUEST" THEN lost \cup ({[to |-> m.from, k |-> m.k]} \cap byname)
               ELSE lost
    /\ UNCHANGED <<lua, life, timers, callee, answers, outcome, byname>>

-----------------------------------------------------------------------------
(* The callback                                                             *)

\* coroutine_resume of a closed coroutine fails.
Dead(x, c) == [x EXCEPT !.run = c, !.mode = "dead"]

\* Mutant: the token stays in sleep_session after a timeout.
AwakeKeep(x, c) == Run(x, c)

\* A sleeping coroutine goes on: sleep_session[token] = nil.
Awake(x, c) == [Run(x, c) EXCEPT !.sleep[c] = Nil]

\* yield_call returns for session k.
Returned(s, x, c, k, how) ==
    /\ Become(s, [Run(x, c) EXCEPT !.watching[k] = None])
    /\ outcome' = [outcome EXCEPT ![s][k] = how]

\* raw_dispatch_message of a response; without a coroutine it is reported.
TakeResponse(s, k) ==
    LET c == lua[s].id_co[k]
        x == [lua[s] EXCEPT !.id_co[k] = Nil]
    IN  \/ c \in {Break, Nil} /\ Become(s, x) /\ UNCHANGED outcome
        \/ c \in Co /\ x.at[c] = "closed" /\ Become(s, Dead(x, c)) /\ UNCHANGED outcome
        \/ c \in Co /\ x.at[c] = "start" /\ Become(s, Run(x, c)) /\ UNCHANGED outcome
        \/ c \in Co /\ x.at[c] = "sleep" /\ Become(s, Awake(x, c)) /\ UNCHANGED outcome
        \/ c \in Co /\ x.at[c] = "call" /\ Returned(s, x, c, k, "ok")

\* raw_dispatch_message of a request.
TakeRequest(s, m) ==
    LET x == lua[s]
        c == NewCo(x)
    IN  /\ Free(x) # {}
        /\ Become(s, [Run(x, c) EXCEPT !.co_id[c] = m.k, !.address[c] = m.from])
        /\ lost' = IF life[s] = "up" THEN lost ELSE lost \cup {[to |-> m.from, k |-> m.k]}

\* _error_dispatch; it returns at once, so its coroutine is not shown.  The
\* order of pairs is any order.
TakeError(s, m) ==
    LET x == lua[s] IN
    IF m.k # 0
    THEN Become(s, [x EXCEPT !.mode = "chain",
                             !.error = IF x.watching[m.k] # None THEN Append(@, m.k) ELSE @])
    ELSE \E q \in [1 .. Cardinality(Watched(s, x, m.from)) -> Watched(s, x, m.from)] :
           /\ {q[i] : i \in DOMAIN q} = Watched(s, x, m.from)
           /\ Become(s, [x EXCEPT !.mode = "chain", !.error = @ \o q,
                                  !.unresponse = {r \in @ : r.to # m.from}])

\* skynet.dispatch_message.
Take(s) ==
    LET m == Head(mail[s]) IN
    /\ life[s] # "freed"
    /\ lua[s].mode = "idle"
    /\ mail[s] # << >>
    /\ mail' = [mail EXCEPT ![s] = Tail(@)]
    /\ \/ m.t = "RESPONSE" /\ TakeResponse(s, m.k) /\ UNCHANGED lost
       \/ m.t = "REQUEST" /\ TakeRequest(s, m) /\ UNCHANGED outcome
       \/ m.t = "ERROR" /\ TakeError(s, m) /\ UNCHANGED <<outcome, lost>>
    /\ UNCHANGED <<life, timers, callee, answers, byname>>

\* A coroutine that waited in session k is woken: sleep returns "BREAK", wait
\* returns; a critical section is entered after its assertion.  Resuming what
\* is no coroutine raises an error in the callback itself.
Woke(x, c, k) ==
    IF c \notin Co THEN [x EXCEPT !.mode = "fork"]
    ELSE CASE x.at[c] = "sleep" -> Awake(x, c)
           [] x.at[c] = "wait" -> [Awake(x, c) EXCEPT !.id_co[k] = Nil]
           [] x.at[c] = "enter" /\ x.ref = 0 ->
                [Awake(x, c) EXCEPT !.id_co[k] = Nil, !.current = c, !.ref = 1]
           [] OTHER -> Dead(x, c)

\* dispatch_wakeup, then dispatch_error_queue.
Chain(s) ==
    LET x == lua[s] IN
    /\ x.mode = "chain"
    /\ IF x.wakeup # << >>
       THEN LET c == Head(x.wakeup)
                k == x.sleep[c]
                y == [x EXCEPT !.wakeup = Tail(@)]
            IN  /\ Become(s, IF k = Nil THEN y
                             ELSE Woke([y EXCEPT !.id_co[k] = Break], x.id_co[k], k))
                /\ UNCHANGED outcome
       ELSE LET k == Head(x.error)
                y == [x EXCEPT !.error = Tail(@), !.id_co[k] = Nil]
            IN  IF x.id_co[k] \in Co /\ x.at[x.id_co[k]] = "call"
                THEN Returned(s, y, x.id_co[k], k, "error")
                ELSE Become(s, Woke(y, x.id_co[k], k)) /\ UNCHANGED outcome
    /\ UNCHANGED <<mail, life, timers, callee, answers, byname, lost>>

\* The loop over fork_queue.
ForkLoop(s) ==
    LET x == lua[s]
        c == Head(x.fork)
        y == [x EXCEPT !.fork = Tail(@)]
    IN  /\ x.mode = "fork"
        /\ Become(s, IF c = Nop THEN [y EXCEPT !.mode = "chain"] ELSE Run(y, c))
        /\ UNCHANGED <<mail, life, timers, history>>

\* The timer thread (external): a response from nobody.
Timer(s, k) ==
    /\ k \in timers[s]
    /\ timers' = [timers EXCEPT ![s] = @ \ {k}]
    /\ Deliver(To(s, Message("RESPONSE", k, None)))
    /\ UNCHANGED <<lua, life, history>>

-----------------------------------------------------------------------------

Api(s) ==
    \/ \E d \in Service \ {s}, name \in BOOLEAN : Call(s, d, name)
    \/ Sleep(s) \/ Wait(s) \/ (\E c \in Co : Wakeup(s, c)) \/ Fork(s)
    \/ Ret(s) \/ Response(s)
    \/ \E r \in lua[s].unresponse, kind \in {"RESPONSE", "ERROR"} : Respond(s, r, kind)
    \/ Enter(s) \/ Leave(s) \/ Return(s) \/ Exit(s)

Next ==
    \E s \in Service :
      \/ Api(s) \/ Raise(s)
      \/ Take(s) \/ Chain(s) \/ ForkLoop(s) \/ Release(s) \/ Drop(s)
      \/ \E k \in Session : Timer(s, k)

Spec == Init /\ [][Next]_vars

-----------------------------------------------------------------------------
(* Properties                                                               *)

\* An answer to session k of s is in its queue; one of session 0 counts only
\* for a call by handle.
InMail(s, k, from) ==
    \E i \in DOMAIN mail[s] :
      /\ mail[s][i].t # "REQUEST" /\ mail[s][i].from = from
      /\ mail[s][i].k = k \/ (mail[s][i].k = 0 /\ [to |-> s, k |-> k] \notin byname)

Pending(x, s, k) ==
    \/ [to |-> s, k |-> k] \in x.unresponse
    \/ \E c \in Co : x.address[c] = s /\ x.co_id[c] = k

\* The answer to session k of s is on its way: the request is queued, a
\* coroutine or a closure of d owes it, or it is in the queue of s.
OnItsWay(s, k, d) ==
    \/ \E i \in DOMAIN mail[d] : mail[d][i] = Message("REQUEST", k, s)
    \/ life[d] = "up" /\ Pending(lua[d], s, k)
    \/ InMail(s, k, d)
    \/ \E i \in DOMAIN lua[s].error : lua[s].error[i] = k

\* No call is forgotten, whoever exits, fails or answers late: a coroutine
\* that waits in skynet.call has an answer on its way ("report the sources
\* that call me", skynet.exit).  Not so for the three kinds of request that
\* nobody answers (lost): their callers wait for ever.
NoOrphanCall ==
    \A s \in Service, k \in Session :
      /\ life[s] = "up" /\ lua[s].watching[k] # None
      /\ [to |-> s, k |-> k] \notin lost
      => OnItsWay(s, k, lua[s].watching[k])

\* A call returns what its callee answered to this very request, it fails
\* only when the callee said so or is gone, and no request is answered twice.
TrueOutcome ==
    \A s \in Service, k \in Session :
      LET d == callee[s][k]
          said(kind) == [to |-> s, k |-> k, kind |-> kind, from |-> d] \in answers
      IN  /\ outcome[s][k] = "ok" => said("RESPONSE")
          /\ outcome[s][k] = "error" => said("ERROR") \/ life[d] # "up"
          /\ ~ (said("RESPONSE") /\ said("ERROR"))

\* No wakeup, error or fork is left behind when the callback returns, however
\* many coroutines raised errors in it.
NothingLeft ==
    \A s \in Service : life[s] = "up" /\ lua[s].mode = "idle"
                       => lua[s].wakeup = << >> /\ lua[s].error = << >> /\ lua[s].fork = << >>

\* Types; at most one coroutine of a service runs.
TypeOK ==
    \A s \in Service :
      LET x == lua[s] IN
      /\ life[s] \in {"up", "exited", "freed"}
      /\ timers[s] \subseteq Session
      /\ x.session \in 1 .. MaxSession[s]
      /\ x.id_co \in [Session -> Co \cup {Nil, Break}]
      /\ x.co_id \in [Co -> Session \cup {Nil}]
      /\ x.address \in [Co -> Service \cup {None}]
      /\ x.sleep \in [Co -> Session \cup {Nil}]
      /\ x.watching \in [Session -> Service \cup {None}]
      /\ x.mode \in {"idle", "run", "chain", "fork", "dead"}
      /\ x.run # Nil <=> x.mode \in {"run", "dead"}
      /\ \A c \in Co : x.at[c] = "run" => c = x.run
      /\ x.current \in Co \cup {Nil} /\ x.ref \in Nat

\* dispatch_wakeup and dispatch_error_queue always find the coroutine that
\* waits: a token in sleep_session leads to its sleeper, an error to a call.
Resumable ==
    /\ TypeOK
    /\ \A s \in Service :
         LET x == lua[s] IN
         life[s] = "up" =>
           /\ x.mode # "dead"
           /\ \A c \in Co : x.sleep[c] # Nil => /\ x.id_co[x.sleep[c]] = c
                                               /\ x.at[c] \in {"sleep", "wait", "enter"}
           /\ \A i \in DOMAIN x.error : x.id_co[x.error[i]] \in Co

\* A critical section is handed from thread to thread: the one that has it
\* runs in it, waits in it, or is being woken, and everyone else who wants it
\* is in the queue once.
Handover ==
    \A s \in Service :
      LET x == lua[s]
          queued(c) == \E i \in DOMAIN x.threads : x.threads[i] = c
          woken(c) == \E i \in DOMAIN x.wakeup : x.wakeup[i] = c
      IN  life[s] = "up" =>
            /\ x.current # Nil /\ x.ref = 0 => x.at[x.current] = "enter" /\ woken(x.current)
            /\ x.current # Nil => x.at[x.current] # "free"
            /\ \A c \in Co : x.at[c] = "enter" => queued(c) \/ x.current = c
            /\ x.threads # << >> => x.current # Nil
=============================================================================
