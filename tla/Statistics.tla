------------------------------ MODULE Statistics ------------------------------
(***************************************************************************)
(* The statistics of the load tester.                                      *)
(*   game/service/web/monitor.lua    what an agent calls; it asks the web   *)
(*                                   service for the service of a name and  *)
(*                                   keeps the handle                      *)
(*   game/service/web/stats.lua,     one service for each name, which       *)
(*   game/service/web/counter.lua    reports to the web service             *)
(*   game/service/web/dataset.lua    the tables of services and of reports, *)
(*                                   and reset, which kills the services    *)
(*   game/service/web/webCenter.lua  the critical sections sq_stats and     *)
(*                                   sq_counter                            *)
(*                                                                         *)
(* The coroutines of the web service interleave only where one waits for   *)
(* another service.  Messages between two services stay in order.  What is *)
(* reported is the number of updates a service has counted; the scripts    *)
(* use one method, so stats_addr is a table of names.  Times, averages,    *)
(* the aggregation in dataset.report and response.reset of the services,   *)
(* which nobody calls, are left out.                                       *)
(***************************************************************************)
EXTENDS Integers, Sequences, FiniteSets

CONSTANTS
    Counter, Stat,  \* the names of counters and of timed requests
    Agent,
    MaxCall,        \* bound: calls of monitor.time and monitor.incr by an agent
    MaxService,     \* bound: statistics services that are ever launched
    MaxReset,       \* bound: calls of dataset.reset
    None

ASSUME StatisticsAssumption ==
    /\ Counter \cap Stat = {}
    /\ MaxCall \in Nat /\ MaxService \in Nat /\ MaxReset \in Nat

Name == Counter \cup Stat
Call == 1 .. MaxCall
Service == 1 .. MaxService
Reset == 1 .. MaxReset
Queue == {"counter", "stats"}
Nil == 0  \* no service

VARIABLES
    life,      \* of each agent: "none", "up" or "dead"
    calls,     \* of each agent: calls so far; the number of a call is its session
    sessions,  \* monitor.lua: sessions, the name of each open session
    handle,    \* monitor.lua: stats_service and counter_service
    inbox,     \* the answers on their way to each agent
    svc,       \* the statistics services, see NewService
    post,      \* the message queue of each statistics service
    made,      \* the number of services launched
    mail,      \* the message queue of the web service
    sq,        \* the requests in each critical section; the first one is inside
    making,    \* the service it waits for and the tables it began with, or Nil
    addr,      \* dataset.lua: counter_addr and stats_addr; reset makes new ones
    gen,       \* which of these tables are in use
    row,       \* dataset.lua: stats and report.counter, the last report of each name
    reset,     \* the coroutine of each dataset.reset
    stale,     \* history: agents that a reset has met, or that started in one
    lost,      \* history: agents with a call that was not counted
    dropped    \* history: services that were left alive and in no table

agentVars == <<life, calls, sessions, handle, inbox>>
webVars == <<sq, making, addr, gen, row, reset>>
history == <<stale, lost, dropped>>
vars == <<agentVars, svc, post, made, mail, webVars, history>>

NewService(n) ==
    [name |-> n, life |-> "new", reqs |-> {}, count |-> 0, hold |-> FALSE, timer |-> FALSE]

NoReset == [at |-> "none", q |-> "counter", tab |-> 0, seen |-> {}, dirty |-> FALSE]
NotMaking == [s |-> Nil, gen |-> 0]
NoRow == [s |-> Nil, v |-> 0]

Init ==
    /\ life = [a \in Agent |-> "none"]
    /\ calls = [a \in Agent |-> 0]
    /\ sessions = [a \in Agent |-> [k \in Call |-> None]]
    /\ handle = [a \in Agent |-> [n \in Name |-> Nil]]
    /\ inbox = [a \in Agent |-> << >>]
    /\ svc = [s \in Service |-> [NewService(None) EXCEPT !.life = "none"]]
    /\ post = [s \in Service |-> << >>]
    /\ made = 0
    /\ mail = << >>
    /\ sq = [q \in Queue |-> << >>]
    /\ making = [q \in Queue |-> NotMaking]
    /\ addr = [g \in 0 .. MaxReset |-> [n \in Name |-> Nil]]
    /\ gen = 0
    /\ row = [n \in Name |-> NoRow]
    /\ reset = [r \in Reset |-> NoReset]
    /\ stale = {} /\ lost = {} /\ dropped = {}

-----------------------------------------------------------------------------
(* Agents: monitor.lua                                                      *)

Up(s) == svc[s].life = "up"

QueueOf(n) == IF n \in Counter THEN "counter" ELSE "stats"

\* s.post: a message to a service that is gone is lost.
Post(h, a, m) ==
    IF Up(h) THEN post' = [post EXCEPT ![h] = Append(@, m)] /\ UNCHANGED lost
    ELSE lost' = lost \cup {a} /\ UNCHANGED post

\* queryservice and the post that follows it; without a handle the call waits.
Monitor(a, n, m) ==
    IF handle[a][n] # Nil
    THEN Post(handle[a][n], a, m) /\ UNCHANGED mail
    ELSE /\ mail' = Append(mail, [t |-> "query", n |-> n, m |-> m])
         /\ UNCHANGED <<post, lost>>

Message(t, a, k) == [t |-> t, a |-> a, k |-> k]

\* skynet.newservice("agent", ...).
Launch(a) ==
    /\ life[a] = "none"
    /\ life' = [life EXCEPT ![a] = "up"]
    /\ stale' = IF \E r \in Reset : reset[r].at = "kill" THEN stale \cup {a} ELSE stale
    /\ UNCHANGED <<calls, sessions, handle, inbox, svc, post, made, mail, webVars, lost, dropped>>

\* monitor.time.
Time(a, n) ==
    LET k == calls[a] + 1 IN
    /\ life[a] = "up" /\ n \in Stat /\ k <= MaxCall
    /\ calls' = [calls EXCEPT ![a] = k]
    /\ sessions' = [sessions EXCEPT ![a][k] = n]
    /\ Monitor(a, n, Message("time", a, k))
    /\ UNCHANGED <<life, handle, inbox, svc, made, webVars, stale, dropped>>

\* The call of monitor.time in session k of a waits for a handle.
Timing(a, k) ==
    LET m == Message("time", a, k)
        in(q) == \E i \in DOMAIN q : q[i].m = m
    IN  in(inbox[a]) \/ in(sq["stats"])
          \/ in(SelectSeq(mail, LAMBDA x : x.t = "query"))

\* monitor.endtime, when the tested server answers the request; the test
\* scripts send it when monitor.time has returned.
EndTime(a, k) ==
    /\ life[a] = "up" /\ sessions[a][k] # None
    /\ ~ Timing(a, k)
    /\ sessions' = [sessions EXCEPT ![a][k] = None]
    /\ Monitor(a, sessions[a][k], Message("endtime", a, k))
    /\ UNCHANGED <<life, calls, handle, inbox, svc, made, webVars, stale, dropped>>

\* monitor.incr, monitor.decr and monitor.set.
Incr(a, n) ==
    LET k == calls[a] + 1 IN
    /\ life[a] = "up" /\ n \in Counter /\ k <= MaxCall
    /\ calls' = [calls EXCEPT ![a] = k]
    /\ Monitor(a, n, Message("incr", a, k))
    /\ UNCHANGED <<life, sessions, handle, inbox, svc, made, webVars, stale, dropped>>

\* The web service answers queryservice; snax.bind(nil) raises an error.
Answered(a) ==
    LET x == Head(inbox[a]) IN
    /\ life[a] = "up" /\ inbox[a] # << >>
    /\ inbox' = [inbox EXCEPT ![a] = Tail(@)]
    /\ IF x.h = Nil
       THEN lost' = lost \cup {a} /\ UNCHANGED <<handle, post>>
       ELSE handle' = [handle EXCEPT ![a][x.n] = x.h] /\ Post(x.h, a, x.m)
    /\ UNCHANGED <<life, calls, sessions, svc, made, mail, webVars, stale, dropped>>

-----------------------------------------------------------------------------
(* Statistics services: stats.lua, counter.lua, and exit in snaxd.lua       *)

\* An update is counted; report() starts a timeout unless one is pending.
Counted(x) ==
    [x EXCEPT !.count = @ + 1, !.hold = TRUE, !.timer = @ \/ ~ x.hold]

\* accept.time, accept.endtime, and accept.incr, decr and set.
Accept(s, m) ==
    CASE m.t = "time" ->
           /\ svc' = [svc EXCEPT ![s].reqs = @ \cup {<<m.a, m.k>>}]
           /\ UNCHANGED lost
      [] m.t = "incr" \/ <<m.a, m.k>> \in svc[s].reqs ->
           /\ svc' = [svc EXCEPT ![s] = Counted(@)]
           /\ UNCHANGED lost
      [] OTHER -> lost' = lost \cup {m.a} /\ UNCHANGED svc

Exited(r, ok) == [t |-> "exited", r |-> r, ok |-> ok]

\* The dispatcher of snaxd; exit answers, then skynet.exit ends the timeouts.
\* What the service has not read by then is lost: the call of another reset
\* gets an error, a post is not counted.
Dispatch(s) ==
    LET m == Head(post[s])
        rest == Tail(post[s])
        exits == SelectSeq(rest, LAMBDA x : x.t = "exit")
    IN  /\ Up(s) /\ post[s] # << >>
        /\ IF m.t = "exit"
           THEN /\ svc' = [svc EXCEPT ![s].life = "dead", ![s].timer = FALSE]
                /\ post' = [post EXCEPT ![s] = << >>]
                /\ mail' = mail \o <<Exited(m.r, TRUE)>>
                                \o [i \in DOMAIN exits |-> Exited(exits[i].r, FALSE)]
                /\ lost' = lost \cup {x.a : x \in {rest[i] : i \in DOMAIN rest}
                                                  \ {exits[i] : i \in DOMAIN exits}}
           ELSE /\ post' = [post EXCEPT ![s] = rest]
                /\ Accept(s, m)
                /\ UNCHANGED mail
        /\ UNCHANGED <<agentVars, made, webVars, stale, dropped>>

\* Mutant: hold is not reset when the report is sent.
ReportedHold(x) == [x EXCEPT !.timer = FALSE]

Reported(x) == [x EXCEPT !.timer = FALSE, !.hold = FALSE]

\* The timeout of report().
Report(s) ==
    /\ svc[s].timer
    /\ svc' = [svc EXCEPT ![s] = Reported(@)]
    /\ mail' = Append(mail, [t |-> "report", s |-> s, v |-> svc[s].count])
    /\ UNCHANGED <<agentVars, post, made, webVars, history>>

\* skynet.newservice("snaxd") and its init have succeeded.
Ready(s) ==
    /\ svc[s].life = "new"
    /\ svc' = [svc EXCEPT ![s].life = "up"]
    /\ mail' = Append(mail, [t |-> "ready", s |-> s])
    /\ UNCHANGED <<agentVars, post, made, webVars, history>>

-----------------------------------------------------------------------------
(* The web service: stats_service and counter_service                       *)

\* The first request of a critical section has just entered.
Entered(q) == sq[q] # << >> /\ making[q].s = Nil

\* The web service takes a message when its coroutines wait.
Quiet == \A q \in Queue : ~ Entered(q)

Takes(t) == Quiet /\ mail # << >> /\ Head(mail).t = t /\ mail' = Tail(mail)

Query ==
    LET x == Head(mail) IN
    /\ Takes("query")
    /\ sq' = [sq EXCEPT ![QueueOf(x.n)] = Append(@, [n |-> x.n, m |-> x.m])]
    /\ UNCHANGED <<agentVars, svc, post, made, making, addr, gen, row, reset, history>>

\* The first request of q is answered with h and leaves; a dead agent hears nothing.
Reply(q, h) ==
    LET x == Head(sq[q]) IN
    /\ sq' = [sq EXCEPT ![q] = Tail(@)]
    /\ inbox' = IF life[x.m.a] = "up"
                THEN [inbox EXCEPT ![x.m.a] = Append(@, [n |-> x.n, m |-> x.m, h |-> h])]
                ELSE inbox

\* dataset.stats_service and dataset.counter_service up to snax.newservice.
Serve(q) ==
    LET n == Head(sq[q]).n
        s == made + 1
    IN  /\ Entered(q)
        /\ IF addr[gen][n] # Nil
           THEN Reply(q, addr[gen][n]) /\ UNCHANGED <<svc, made, making>>
           ELSE /\ s <= MaxService
                /\ made' = s
                /\ svc' = [svc EXCEPT ![s] = NewService(n)]
                /\ making' = [making EXCEPT ![q] = [s |-> s, gen |-> gen]]
                /\ UNCHANGED <<sq, inbox>>
        /\ UNCHANGED <<life, calls, sessions, handle, post, mail, addr, gen, row, reset, history>>

\* Mutant: the new service is not stored.
StoredNot(n, s) == addr

Stored(n, s) == [addr EXCEPT ![gen][n] = s]

\* A key is added to the table that a reset iterates over.
Disturbed(q) ==
    [r \in Reset |-> IF reset[r].at = "kill" /\ reset[r].q = q /\ reset[r].tab = gen
                     THEN [reset[r] EXCEPT !.dirty = TRUE] ELSE reset[r]]

\* The rest of them: stats_addr[method] is nil if a reset has replaced
\* stats_addr in the meantime, and the request fails.
Launched ==
    LET s == Head(mail).s
        n == svc[s].name
        q == QueueOf(n)
    IN  /\ Takes("ready")
        /\ making' = [making EXCEPT ![q] = NotMaking]
        /\ IF q = "stats" /\ making[q].gen # gen
           THEN Reply(q, Nil) /\ dropped' = dropped \cup {s} /\ UNCHANGED <<addr, reset>>
           ELSE /\ Reply(q, s)
                /\ addr' = Stored(n, s)
                /\ reset' = Disturbed(q)
                /\ UNCHANGED dropped
        /\ UNCHANGED <<life, calls, sessions, handle, svc, post, made, gen, row, stale, lost>>

\* dataset.report_stats and dataset.report_counter.
TakeReport ==
    LET x == Head(mail) IN
    /\ Takes("report")
    /\ row' = [row EXCEPT ![svc[x.s].name] = [s |-> x.s, v |-> x.v]]
    /\ UNCHANGED <<agentVars, svc, post, made, sq, making, addr, gen, reset, history>>

-----------------------------------------------------------------------------
(* The web service: dataset.reset                                           *)

NamesOf(q) == IF q = "counter" THEN Counter ELSE Stat

InTable(j) == {n \in NamesOf(j.q) : addr[j.tab][n] # Nil}

\* What pairs yields next.  A key that is added while it iterates may be
\* left out or not, and others may come twice or not at all.
Yields(j) == IF j.dirty THEN InTable(j) ELSE InTable(j) \ j.seen
Ends(j) == j.dirty \/ Yields(j) = {}

\* snax.kill of the service of n; the call of one that is gone is an error.
Kill(r, j, n) ==
    LET s == addr[j.tab][n] IN
    /\ IF Up(s)
       THEN /\ post' = [post EXCEPT ![s] = Append(@, [t |-> "exit", r |-> r])]
            /\ reset' = [reset EXCEPT ![r] = [j EXCEPT !.seen = @ \cup {n}]]
       ELSE reset' = [reset EXCEPT ![r].at = "failed"] /\ UNCHANGED post
    /\ UNCHANGED <<addr, gen, row, dropped>>

\* Mutant: counter_addr and stats_addr are not replaced.
NewTablesKept(g) == addr' = [addr EXCEPT ![g] = addr[gen]]

\* counter_addr = {} and stats_addr = {}.
NewTables(g) == UNCHANGED addr

\* The end of dataset.reset.
Clear(r, j) ==
    /\ gen' = gen + 1
    /\ row' = [n \in Name |-> NoRow]
    /\ NewTables(gen + 1)
    /\ dropped' = dropped \cup {s \in Service : Up(s) /\ \E n \in Name : addr[gen][n] = s}
    /\ reset' = [reset EXCEPT ![r] = [j EXCEPT !.at = "done"]]
    /\ UNCHANGED post

\* The next iteration of the loop over the statistics services.
LoopStats(r, j) == (\E n \in Yields(j) : Kill(r, j, n)) \/ (Ends(j) /\ Clear(r, j))

\* The next iteration of the loop over the counters, and what follows it.
LoopCounter(r, j) ==
    \/ \E n \in Yields(j) : Kill(r, j, n)
    \/ Ends(j) /\ LoopStats(r, [NoReset EXCEPT !.at = "kill", !.q = "stats", !.tab = gen])

Loop(r, j) == IF j.q = "counter" THEN LoopCounter(r, j) ELSE LoopStats(r, j)

\* route['/stats/reset'], or route['/swarm'] that has killed the agents.
StartReset(r, swarm) ==
    /\ Quiet
    /\ reset[r].at = "none" /\ \A i \in 1 .. r - 1 : reset[i].at # "none"
    /\ life' = IF swarm THEN [a \in Agent |-> IF life[a] = "up" THEN "dead" ELSE life[a]]
               ELSE life
    /\ inbox' = IF swarm THEN [a \in Agent |-> << >>] ELSE inbox
    /\ stale' = stale \cup {a \in Agent : life[a] = "up"}
    /\ LoopCounter(r, [NoReset EXCEPT !.at = "kill", !.tab = gen])
    /\ UNCHANGED <<calls, sessions, handle, svc, made, mail, sq, making, lost>>

\* snax.kill returns or raises an error.
Killed ==
    LET x == Head(mail) IN
    /\ Takes("exited")
    /\ IF x.ok THEN Loop(x.r, reset[x.r])
       ELSE /\ reset' = [reset EXCEPT ![x.r].at = "failed"]
            /\ UNCHANGED <<post, addr, gen, row, dropped>>
    /\ UNCHANGED <<agentVars, svc, made, sq, making, stale, lost>>

-----------------------------------------------------------------------------

Web ==
    \/ Query \/ Launched \/ TakeReport \/ Killed
    \/ \E r \in Reset, swarm \in BOOLEAN : StartReset(r, swarm)

Others ==
    \/ \E a \in Agent : Launch(a) \/ Answered(a)
    \/ \E a \in Agent, n \in Name : Time(a, n) \/ Incr(a, n)
    \/ \E a \in Agent, k \in Call : EndTime(a, k)
    \/ \E s \in Service : Dispatch(s) \/ Report(s) \/ Ready(s)

\* Nothing the others do matters to a request that has just entered, so they
\* move when it has been served.
Next == (\E q \in Queue : Serve(q)) \/ Web \/ (Quiet /\ Others)

Spec == Init /\ [][Next]_vars

-----------------------------------------------------------------------------
(* Properties                                                               *)

Failed == \E r \in Reset : reset[r].at = "failed"
Resetting == \E r \in Reset : reset[r].at = "kill"

\* Types, and the life of a service: it is known only after its init, and a
\* reset waits only for a service of the table it iterates over.
TypeOK ==
    /\ life \in [Agent -> {"none", "up", "dead"}]
    /\ calls \in [Agent -> 0 .. MaxCall]
    /\ handle \in [Agent -> [Name -> Service \cup {Nil}]]
    /\ made \in 0 .. MaxService /\ gen \in 0 .. MaxReset
    /\ \A s \in Service : svc[s].life = "none" <=> s > made
    /\ \A q \in Queue : making[q].s # Nil => sq[q] # << >>
    /\ \A g \in 0 .. MaxReset, n \in Name :
         addr[g][n] # Nil => svc[addr[g][n]].name = n /\ svc[addr[g][n]].life # "new"
    /\ \A r \in Reset : reset[r].at \in {"none", "kill", "done", "failed"}

\* The service in the table for n has nothing to report that is not on its way.
UpToDate(n) ==
    LET s == addr[gen][n] IN
    \/ row[n].v = svc[s].count
    \/ svc[s].timer
    \/ \E i \in DOMAIN mail : mail[i].t = "report" /\ mail[i].s = s /\ mail[i].v = svc[s].count

\* When no reset is under way the table on the page is true: no row comes
\* from a service that a reset has killed (its last report is in the queue of
\* the web service before the answer that reset waits for), and every update
\* counted is in a row or will be reported.  Not so after a reset has failed,
\* or for a name of which a reset has left a service alive.
RowsAreTrue ==
    /\ TypeOK
    /\ ~ Resetting /\ ~ Failed =>
         \A n \in Name :
           /\ row[n].s # Nil => Up(row[n].s)
           /\ addr[gen][n] # Nil /\ (\A s \in dropped : svc[s].name # n) => UpToDate(n)

\* A name has one service, although several agents ask for it while it is
\* being launched and resets come in between: sq_stats and sq_counter.  The
\* exception is a service that a reset has left alive.
UniqueReporter ==
    \A s, t \in Service :
      s # t /\ svc[s].name = svc[t].name /\ {svc[s].life, svc[t].life} \subseteq {"new", "up"}
      => s \in dropped \/ t \in dropped

\* Everything an agent measures is counted: no post goes to a service that is
\* gone, and no endtime comes to a service that has not had its time ("no
\* request data"), although several agents ask while the service is being
\* launched.  Not so for agents that a reset has met, and after a reset has
\* failed.
NothingLost == lost \subseteq stale \/ Failed
=============================================================================
