-------------------------------- MODULE Swarm --------------------------------
(***************************************************************************)
(* The swarm controller of the load tester: the /swarm and /stop requests  *)
(* and the hatching of agents.                                             *)
(*   game/service/web/route.lua      state, operation_ver, config          *)
(*   game/service/web/webCenter.lua  agents, agent_count, run_agent,       *)
(*                                   stop_agent                            *)
(*   game/service/web/dataset.lua    reset, which waits for each statistics *)
(*                                   service it kills                      *)
(*                                                                         *)
(* The web service is one Lua state: its coroutines interleave only where  *)
(* one waits for another service (skynet.newservice, snax.kill) or for a   *)
(* timeout, and an action runs from one such point to the next.  A forked  *)
(* function starts before the next message is dispatched, so the fork of   *)
(* /stop, which sets STOPPED, runs in one action with the request.         *)
(* Both waits can fail.  skynet.newservice raises when the agent does not   *)
(* start; snax.kill is a call that raises when the statistics service has   *)
(* died, so dataset.reset fails when another /swarm, or the page's reset   *)
(* (/stats/reset, which touches nothing else here), has killed it first.    *)
(* Nothing catches the error: the coroutine ends where it is.               *)
(* The agent of an id in an operation is the pair <<op, id>>; ids start at *)
(* first_id = 1.                                                           *)
(***************************************************************************)
EXTENDS Integers, FiniteSets

CONSTANTS
    Users,     \* the user_count values a request may carry
    Rates,     \* the hatch_rate values
    HasStats,  \* whether statistics services exist that dataset.reset kills
    MaxSwarm,  \* bound: /swarm requests
    MaxStop,   \* bound: /stop requests
    MaxFail    \* bound: agents that fail to start, and resets that fail

ASSUME SwarmAssumption ==
    /\ Users \subseteq Nat
    /\ Rates \subseteq Nat \ {0}
    /\ HasStats \in BOOLEAN
    /\ MaxSwarm \in Nat /\ MaxStop \in Nat /\ MaxFail \in Nat

Op == 1 .. MaxSwarm
AgentId == UNION {1 .. u : u \in Users}

VARIABLES
    state,          \* route: state
    operation_ver,  \* route: operation_ver, counts the /swarm requests
    cfg,            \* route: _config
    agents,         \* webCenter: self.agents, a function from ids to agents
    table,          \* which table self.agents is: stop_agent makes a new one
    agent_count,    \* webCenter: self.agent_count
    alive,          \* the agent services that run
    job,            \* the coroutine of each /swarm request, then its run_agent
    stops, fails,   \* counters for the bounds
    overlapped      \* history: a request came while a coroutine awaited an answer

vars == <<state, operation_ver, cfg, agents, table, agent_count, alive, job, stops, fails,
          overlapped>>

NoJob == [at |-> "none", ver |-> 0, id |-> 1, count |-> 0, rate |-> 0, left |-> 0, table |-> 0]

Init ==
    /\ state = "ready"
    /\ operation_ver = 0
    /\ cfg = [users |-> 1, rate |-> 1]
    /\ agents = << >>
    /\ table = 0
    /\ agent_count = 0
    /\ alive = {}
    /\ job = [op \in Op |-> NoJob]
    /\ stops = 0
    /\ fails = 0
    /\ overlapped = FALSE

Tracked == {agents[k] : k \in DOMAIN agents}

Suspended == \E op \in Op : job[op].at \in {"reset", "newservice"}

\* Mutant: stop_agent forgets agent_count.
StopAgentKeepCount ==
    /\ alive' = alive \ Tracked
    /\ agents' = << >>
    /\ table' = table + 1
    /\ agent_count' = agent_count

\* webCenter:stop_agent.
StopAgent ==
    /\ alive' = alive \ Tracked
    /\ agents' = << >>
    /\ table' = table + 1
    /\ agent_count' = 0

\* What run_agent does at the end of a batch, with n agents counted.
AfterBatch(j, n) ==
    IF n >= j.count THEN [j EXCEPT !.at = "done"] ELSE [j EXCEPT !.at = "timeout"]

\* Mutant: run_agent never takes the last agent for the last.
StateAfterMore(j, n, st) == IF n > j.count THEN "running" ELSE st

StateAfter(j, n, st) == IF n >= j.count THEN "running" ELSE st

\* Mutant: a batch is not cut at the number of users.
SwarmNumFull(j, n) == j.rate

\* The size of the next batch of run_agent, with n agents counted.
SwarmNum(j, n) == IF n + j.rate > j.count THEN j.count - n ELSE j.rate

\* run_agent up to its first skynet.newservice; j.table is the table that the
\* assignment self.agents[id] = ... has evaluated before it waits.
Batch(op, j, n, tb, st) ==
    IF SwarmNum(j, n) > 0
    THEN /\ job' = [job EXCEPT ![op] = [j EXCEPT !.at = "newservice",
                                                 !.left = SwarmNum(j, n), !.table = tb]]
         /\ state' = st
    ELSE job' = [job EXCEPT ![op] = AfterBatch(j, n)] /\ state' = StateAfter(j, n, st)

\* The forked function evaluates operation_ver and cfg when it starts.
Hatch(op, ver, c, n, tb) ==
    Batch(op, [NoJob EXCEPT !.ver = ver, !.count = c.users, !.rate = c.rate], n, tb,
          "hatching")

\* route['/swarm'] up to the first wait.
Swarm(op, u, r) ==
    /\ op = operation_ver + 1
    /\ operation_ver' = op
    /\ cfg' = [users |-> u, rate |-> r]
    /\ StopAgent
    /\ IF HasStats
       THEN job' = [job EXCEPT ![op].at = "reset"] /\ UNCHANGED state
       ELSE Hatch(op, op, cfg', 0, table')
    /\ overlapped' = (overlapped \/ Suspended)
    /\ UNCHANGED <<stops, fails>>

\* dataset.reset has killed the last statistics service.
ResetDone(op) ==
    /\ job[op].at = "reset"
    /\ Hatch(op, operation_ver, cfg, agent_count, table)
    /\ UNCHANGED <<operation_ver, cfg, agents, table, agent_count, alive, stops, fails,
                   overlapped>>

\* snax.kill raises an error in dataset.reset: the request ends before it sets
\* the state and forks run_agent, but after stop_agent and the new version.
ResetFailed(op) ==
    /\ job[op].at = "reset"
    /\ fails < MaxFail
    /\ fails' = fails + 1
    /\ job' = [job EXCEPT ![op].at = "failed"]
    /\ UNCHANGED <<state, operation_ver, cfg, agents, table, agent_count, alive, stops,
                   overlapped>>

\* The Lua assignment f[id] = a.
Assign(f, id, a) == [k \in DOMAIN f \cup {id} |-> IF k = id THEN a ELSE f[k]]

\* skynet.newservice returns the new agent; the loop of run_agent goes on.
Launched(op) ==
    LET j == job[op]
        n == agent_count + 1
        next == [j EXCEPT !.id = @ + 1, !.left = @ - 1, !.table = table]
    IN  /\ j.at = "newservice"
        /\ alive' = alive \cup {<<op, j.id>>}
        /\ agents' = IF j.table = table
                     THEN Assign(agents, j.id, <<op, j.id>>) ELSE agents
        /\ agent_count' = n
        /\ IF j.left > 1
           THEN job' = [job EXCEPT ![op] = next] /\ UNCHANGED state
           ELSE /\ job' = [job EXCEPT ![op] = AfterBatch(next, n)]
                /\ state' = StateAfter(j, n, state)
        /\ UNCHANGED <<operation_ver, cfg, table, stops, fails, overlapped>>

\* The agent's script fails to load: skynet.newservice raises an error, and
\* with it the coroutine of run_agent ends.
LaunchFailed(op) ==
    /\ job[op].at = "newservice"
    /\ fails < MaxFail
    /\ fails' = fails + 1
    /\ job' = [job EXCEPT ![op].at = "failed"]
    /\ UNCHANGED <<state, operation_ver, cfg, agents, table, agent_count, alive, stops,
                   overlapped>>

\* Mutant: run_agent does not look at the state.
TimeoutNoState(op) ==
    /\ job[op].at = "timeout"
    /\ IF operation_ver # job[op].ver
       THEN job' = [job EXCEPT ![op].at = "done"] /\ UNCHANGED state
       ELSE Batch(op, job[op], agent_count, table, state)
    /\ UNCHANGED <<operation_ver, cfg, agents, table, agent_count, alive, stops, fails,
                   overlapped>>

\* The timeout of 100 between two batches: run_agent checks whether the swarm
\* was stopped or replaced in the meantime.
Timeout(op) ==
    /\ job[op].at = "timeout"
    /\ IF state # "hatching" \/ operation_ver # job[op].ver
       THEN job' = [job EXCEPT ![op].at = "done"] /\ UNCHANGED state
       ELSE Batch(op, job[op], agent_count, table, state)
    /\ UNCHANGED <<operation_ver, cfg, agents, table, agent_count, alive, stops, fails,
                   overlapped>>

\* route['/stop'] and the function it forks.
Stop ==
    /\ stops < MaxStop
    /\ stops' = stops + 1
    /\ StopAgent
    /\ state' = "stopped"
    /\ overlapped' = (overlapped \/ Suspended)
    /\ UNCHANGED <<operation_ver, cfg, job, fails>>

Answer(op) == ResetDone(op) \/ Launched(op) \/ Timeout(op)

Next ==
    \/ \E op \in Op : Answer(op) \/ ResetFailed(op) \/ LaunchFailed(op)
    \/ \E op \in Op, u \in Users, r \in Rates : Swarm(op, u, r)
    \/ Stop

Spec == Init /\ [][Next]_vars

\* Other services answer (or have died), timeouts fire; nobody has to send requests.
FairSpec == Spec /\ \A op \in Op : WF_vars(Answer(op))

-----------------------------------------------------------------------------
(* Properties                                                               *)

Agent == Op \X Nat

\* Types; the ids in use are those that the users asked for need, as long as
\* no request overlapped (an operation that goes on after a stop counts on).
TypeOK ==
    /\ state \in {"ready", "hatching", "running", "stopped"}
    /\ operation_ver \in 0 .. MaxSwarm
    /\ cfg \in [users : Users \cup {1}, rate : Rates \cup {1}]
    /\ DOMAIN agents \subseteq (IF overlapped THEN Nat ELSE AgentId)
    /\ Tracked \subseteq Agent
    /\ table \in 0 .. MaxSwarm + MaxStop
    /\ agent_count \in Nat
    /\ alive \subseteq Agent
    /\ overlapped \in BOOLEAN
    /\ \A op \in Op :
         /\ job[op].at \in {"none", "reset", "newservice", "timeout", "done", "failed"}
         /\ job[op].ver \in 0 .. MaxSwarm
         /\ job[op].left \in Nat

StopStops == state = "stopped" => alive = {}

OldOperationExpires == \A a \in alive : a[1] = operation_ver

\* "-- stopped" and "-- expire operation" in run_agent: once the swarm is
\* stopped no agent runs, and the agents of an operation that a later /swarm
\* has replaced do not run.
OnlyCurrentRuns == StopStops /\ OldOperationExpires

\* The same, as long as no request was handled while run_agent or
\* dataset.reset waited for another service: the checks at the start of each
\* batch are enough for requests that come between batches.
OrderlyRuns == ~ overlapped => OnlyCurrentRuns

\* user_count on the page, and the table that /stop works from, are right
\* about the agents that really run, as long as requests did not overlap.
CountIsTrue ==
    /\ TypeOK
    /\ ~ overlapped => agent_count = Cardinality(alive) /\ Tracked = alive

\* The last /swarm, or a run_agent that hatches for it (also that of an older
\* request, when they overlapped), has ended in an error.
LastFailed == \E op \in Op : job[op].at = "failed" /\ operation_ver \in {op, job[op].ver}

\* A swarm that reports "running" is the one asked for last, complete: one
\* agent for every id (until the next /swarm has killed it), as long as
\* requests did not overlap, and although agents may fail to start.  The one
\* exception: when the reset of the last /swarm has failed, the page still
\* shows the state of the swarm before it, and no agent runs at all.
RunningIsComplete ==
    state = "running" /\ ~ Suspended /\ ~ overlapped =>
        alive = IF LastFailed THEN {} ELSE {<<operation_ver, k>> : k \in 1 .. cfg.users}

\* Hatching ends: the swarm gets complete, unless it is stopped or the last
\* /swarm has failed, in its reset or because an agent did not start; then
\* nobody hatches any more although the state says so.
HatchingEnds == state = "hatching" ~> state \in {"running", "stopped"} \/ LastFailed
=============================================================================
