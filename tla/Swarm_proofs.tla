----------------------------- MODULE Swarm_proofs -----------------------------
(***************************************************************************)
(* The swarm controller is right about its agents as long as no request is *)
(* handled while run_agent or dataset.reset waits for another service, for *)
(* every number of requests, users and failures.  The invariant says how   *)
(* far the hatching of the current operation is: agent_count, self.agents, *)
(* the agents that run and the next id of run_agent move in step, and the  *)
(* coroutine of any earlier operation can only end.                        *)
(***************************************************************************)
EXTENDS Swarm, FiniteSetTheorems, TLAPS

Job == [at : {"none", "reset", "newservice", "timeout", "done", "failed"}, ver : 0 .. MaxSwarm,
        id : Nat \ {0}, count : Nat, rate : Nat, left : Nat, table : Nat]

\* What holds of the variables however requests overlap.
Types ==
    /\ state \in {"ready", "hatching", "running", "stopped"}
    /\ operation_ver \in 0 .. MaxSwarm
    /\ cfg \in [users : Users \cup {1}, rate : Rates \cup {1}]
    /\ operation_ver > 0 => cfg.users \in Users
    /\ DOMAIN agents \subseteq Nat /\ Tracked \subseteq Agent
    /\ stops \in 0 .. MaxStop /\ table = operation_ver + stops
    /\ agent_count \in Nat
    /\ alive \subseteq Agent
    /\ overlapped \in BOOLEAN
    /\ job \in [Op -> Job]
    /\ \A op \in Op : /\ job[op].at = "newservice" => job[op].left > 0
                      /\ op > operation_ver => job[op] = NoJob

\* The bookkeeping of webCenter agrees with what runs.
Bookkeeping ==
    /\ DOMAIN agents = 1 .. agent_count
    /\ Tracked = alive
    /\ alive = {<<operation_ver, k>> : k \in 1 .. agent_count}
    /\ IsFiniteSet(alive) /\ Cardinality(alive) = agent_count
    /\ agent_count > 0 => operation_ver > 0 /\ agent_count <= cfg.users
    /\ state \in {"ready", "stopped"} => agent_count = 0

\* How far the coroutine of operation op is.
Progress(op) ==
    LET j == job[op]
    IN  /\ j.at \in {"reset", "newservice"} => op = operation_ver
        /\ j.at \in {"newservice", "timeout"} => j.ver = op
        /\ j.at = "reset" => agent_count = 0 /\ j = [NoJob EXCEPT !.at = "reset"]
        /\ j.at = "newservice" =>
             /\ state = "hatching" /\ j.count = cfg.users /\ j.table = table
             /\ j.id = agent_count + 1 /\ agent_count + j.left <= j.count
        /\ j.at = "timeout" /\ op = operation_ver /\ state = "hatching" =>
             /\ j.count = cfg.users
             /\ j.id = agent_count + 1 /\ agent_count < j.count
        /\ state = "running" /\ op = operation_ver =>
             \/ j.at = "reset" \/ (j.at = "done" /\ agent_count = cfg.users)
             \/ j.at = "failed" /\ agent_count = 0
        /\ j.at = "failed" => j.ver \in {0, op}

Orderly ==
    /\ Bookkeeping
    /\ \A op \in Op : Progress(op)
    /\ state = "running" => operation_ver > 0

SwarmInv == Types /\ (~overlapped => Orderly)

-----------------------------------------------------------------------------
(* What run_agent and stop_agent do                                         *)

\* A batch launches at most the users still missing, and goes on after a
\* timeout while some are.
LEMMA BatchIs ==
  ASSUME Types, NEW op \in Op, NEW j \in Job, NEW n \in Nat, NEW tb \in Nat, NEW st,
         Batch(op, j, n, tb, st)
  PROVE  \E k \in Job :
           /\ job' = [job EXCEPT ![op] = k]
           /\ k.at \in {"newservice", "timeout", "done"}
           /\ k.ver = j.ver /\ k.count = j.count /\ k.id = j.id
           /\ k.at = "newservice" => /\ k.left > 0 /\ n + k.left <= j.count
                                     /\ k.table = tb /\ state' = st
           /\ k.at = "timeout" => n < j.count /\ state' = st
           /\ k.at = "done" => n >= j.count /\ state' = "running"
<1>1. j.count \in Nat /\ j.rate \in Nat
  BY DEF Job
<1>2. CASE SwarmNum(j, n) > 0
  <2> DEFINE k == [j EXCEPT !.at = "newservice", !.left = SwarmNum(j, n), !.table = tb]
  <2>1. SwarmNum(j, n) \in Nat /\ n + SwarmNum(j, n) <= j.count
    BY <1>1, <1>2 DEF SwarmNum
  <2>2. k \in Job
    BY <2>1 DEF Job
  <2>3. /\ k.at = "newservice" /\ k.ver = j.ver /\ k.count = j.count /\ k.id = j.id
        /\ k.left = SwarmNum(j, n) /\ k.table = tb
    BY DEF Job
  <2>4. job' = [job EXCEPT ![op] = k] /\ state' = st
    BY <1>2 DEF Batch
  <2> HIDE DEF k
  <2> QED
    BY <1>2, <2>1, <2>2, <2>3, <2>4
<1>3. CASE ~(SwarmNum(j, n) > 0)
  <2> DEFINE k == AfterBatch(j, n)
  <2>1. job' = [job EXCEPT ![op] = k] /\ state' = StateAfter(j, n, st)
    BY <1>3 DEF Batch
  <2>2. CASE n >= j.count
    <3>1. k = [j EXCEPT !.at = "done"] /\ state' = "running"
      BY <2>1, <2>2 DEF AfterBatch, StateAfter
    <3>2. k \in Job /\ k.at = "done" /\ k.ver = j.ver /\ k.count = j.count /\ k.id = j.id
      BY <3>1 DEF Job
    <3> HIDE DEF k
    <3> QED
      BY <2>1, <2>2, <3>1, <3>2
  <2>3. CASE ~(n >= j.count)
    <3>1. k = [j EXCEPT !.at = "timeout"] /\ state' = st
      BY <2>1, <2>3 DEF AfterBatch, StateAfter
    <3>2. k \in Job /\ k.at = "timeout" /\ k.ver = j.ver /\ k.count = j.count /\ k.id = j.id
      BY <3>1 DEF Job
    <3>3. n < j.count
      BY <1>1, <2>3
    <3> HIDE DEF k
    <3> QED
      BY <2>1, <3>1, <3>2, <3>3
  <2> QED
    BY <2>2, <2>3
<1> QED
  BY <1>2, <1>3

\* A request that has not come, and one that waits for dataset.reset.
LEMMA IdleJob ==
  /\ NoJob \in Job /\ NoJob.at = "none" /\ NoJob.id = 1
  /\ [NoJob EXCEPT !.at = "reset"] \in Job /\ [NoJob EXCEPT !.at = "reset"].at = "reset"
<1>1. NoJob \in Job /\ NoJob.at = "none" /\ NoJob.id = 1
  BY SwarmAssumption DEF NoJob, Job
<1>2. ASSUME NEW j \in Job
      PROVE  [j EXCEPT !.at = "reset"] \in Job /\ [j EXCEPT !.at = "reset"].at = "reset"
  BY DEF Job
<1> QED
  BY <1>1, <1>2, Zenon

\* The job run_agent starts with.
LEMMA FreshJob ==
  ASSUME NEW v \in 0 .. MaxSwarm, NEW c \in [users : Users \cup {1}, rate : Rates \cup {1}]
  PROVE  /\ [NoJob EXCEPT !.ver = v, !.count = c.users, !.rate = c.rate] \in Job
         /\ [NoJob EXCEPT !.ver = v, !.count = c.users, !.rate = c.rate].ver = v
         /\ [NoJob EXCEPT !.ver = v, !.count = c.users, !.rate = c.rate].count = c.users
         /\ [NoJob EXCEPT !.ver = v, !.count = c.users, !.rate = c.rate].id = 1
<1>1. c.users \in Nat /\ c.rate \in Nat
  <2>1. (\A u \in Users \cup {1} : u \in Nat) /\ (\A r \in Rates \cup {1} : r \in Nat)
    BY SwarmAssumption
  <2>2. c.users \in Users \cup {1} /\ c.rate \in Rates \cup {1}
    OBVIOUS
  <2> QED
    BY <2>1, <2>2, Zenon
<1>2. NoJob \in Job /\ NoJob.id = 1
  BY IdleJob
<1>3. ASSUME NEW j \in Job, NEW u \in Nat
      PROVE  /\ [j EXCEPT !.ver = v] \in Job /\ [j EXCEPT !.ver = v].ver = v
             /\ [j EXCEPT !.ver = v].id = j.id
             /\ [j EXCEPT !.count = u] \in Job /\ [j EXCEPT !.count = u].count = u
             /\ [j EXCEPT !.count = u].ver = j.ver /\ [j EXCEPT !.count = u].id = j.id
             /\ [j EXCEPT !.rate = u] \in Job /\ [j EXCEPT !.rate = u].count = j.count
             /\ [j EXCEPT !.rate = u].ver = j.ver /\ [j EXCEPT !.rate = u].id = j.id
  BY DEF Job
<1>4. /\ [NoJob EXCEPT !.ver = v] \in Job /\ [NoJob EXCEPT !.ver = v].ver = v
      /\ [NoJob EXCEPT !.ver = v].id = 1
  BY <1>1, <1>2, <1>3, Zenon
<1> DEFINE k == [NoJob EXCEPT !.ver = v]
           l == [k EXCEPT !.count = c.users]
           m == [l EXCEPT !.rate = c.rate]
<1>5. [NoJob EXCEPT !.ver = v, !.count = c.users, !.rate = c.rate] = m
  OBVIOUS
<1> HIDE DEF k, l, m
<1>6. k \in Job /\ k.ver = v /\ k.id = 1
  BY <1>4 DEF k
<1>7. l \in Job /\ l.ver = v /\ l.id = 1 /\ l.count = c.users
  BY <1>1, <1>3, <1>6, Zenon DEF l
<1>8. m \in Job /\ m.ver = v /\ m.id = 1 /\ m.count = c.users
  <2>1. m \in Job /\ m.count = l.count /\ m.ver = l.ver /\ m.id = l.id
    BY <1>1, <1>3, <1>7, Zenon DEF m
  <2> QED
    BY <2>1, <1>7
<1> QED
  BY <1>2, <1>4, <1>5, <1>8, Zenon

\* An orderly stop_agent leaves no agent behind.
LEMMA StopAgentIs ==
  ASSUME Types, StopAgent
  PROVE  /\ DOMAIN agents' = {} /\ Tracked' = {} /\ agent_count' = 0
         /\ alive' \subseteq Agent /\ table' = table + 1
         /\ Orderly => alive' = {}
  BY DEF StopAgent, Types, Orderly, Bookkeeping, Tracked

\* The agents in a table.
Values(f) == {f[k] : k \in DOMAIN f}

\* self.agents[id] = agent, when no other agent has the id.
LEMMA AddAgent ==
  ASSUME NEW f, NEW id, NEW a
  PROVE  /\ DOMAIN Assign(f, id, a) = DOMAIN f \cup {id}
         /\ Values(Assign(f, id, a)) \subseteq Values(f) \cup {a}
         /\ id \notin DOMAIN f => Values(Assign(f, id, a)) = Values(f) \cup {a}
<1> DEFINE g == Assign(f, id, a)
<1>1. DOMAIN g = DOMAIN f \cup {id}
  BY DEF Assign
<1>2. g[id] = a /\ \A k \in DOMAIN f : k # id => g[k] = f[k]
  BY DEF Assign
<1> HIDE DEF g
<1>3. /\ Values(g) \subseteq Values(f) \cup {a}
      /\ id \notin DOMAIN f => Values(g) = Values(f) \cup {a}
  BY <1>1, <1>2 DEF Values
<1> QED
  BY <1>1, <1>3 DEF g

\* run_agent goes on to the next agent of the batch.
LEMMA NextJob ==
  ASSUME NEW j \in Job, j.left > 0, NEW tb \in Nat
  PROVE  LET next == [j EXCEPT !.id = @ + 1, !.left = @ - 1, !.table = tb]
         IN  /\ next \in Job /\ next.at = j.at /\ next.id = j.id + 1
             /\ next.left = j.left - 1 /\ next.table = tb
             /\ next.ver = j.ver /\ next.count = j.count
<1> DEFINE a == j.id + 1
           b == j.left - 1
           k == [j EXCEPT !.id = a]
           l == [k EXCEPT !.left = b]
           m == [l EXCEPT !.table = tb]
<1>1. a \in Nat \ {0} /\ b \in Nat
  BY DEF Job
<1> HIDE DEF a, b
<1>2. k \in Job /\ k.id = a /\ k.at = j.at /\ k.ver = j.ver /\ k.count = j.count
  BY <1>1 DEF Job
<1>3. k.left = j.left
  BY DEF Job
<1> HIDE DEF k
<1>4. l \in Job /\ l.left = b /\ l.id = k.id /\ l.at = k.at /\ l.ver = k.ver /\ l.count = k.count
  BY <1>1, <1>2 DEF Job
<1> HIDE DEF l
<1>5. /\ m \in Job /\ m.left = l.left /\ m.id = l.id /\ m.at = l.at /\ m.ver = l.ver
      /\ m.count = l.count /\ m.table = tb
  BY <1>4 DEF Job
<1>6. [j EXCEPT !.id = @ + 1, !.left = @ - 1, !.table = tb] = m
  BY DEF m, l, k, a, b
<1> HIDE DEF m
<1> QED
  BY <1>2, <1>4, <1>5, <1>6 DEF a, b

\* A job ends, or waits for its timeout.
LEMMA JobAt ==
  ASSUME NEW j \in Job, NEW at \in {"done", "timeout", "reset", "failed"}
  PROVE  LET k == [j EXCEPT !.at = at]
         IN  /\ k \in Job /\ k.at = at /\ k.ver = j.ver /\ k.count = j.count /\ k.id = j.id
             /\ k.left = j.left
  BY DEF Job

-----------------------------------------------------------------------------
(* One step of the controller                                               *)

\* Every action that waits or goes on changes the job of one operation, to one
\* with the fields of a job.
Moved(op, k) ==
    /\ k \in Job
    /\ job' = [job EXCEPT ![op] = k]
    /\ k.at = "newservice" => k.left > 0
    /\ k.at # "none"

\* The jobs keep their types; those of the future stay untouched.
LEMMA JobTypes ==
  ASSUME Types, NEW op \in Op, NEW k, Moved(op, k), operation_ver' \in {operation_ver, op},
         op = operation_ver' \/ op <= operation_ver, operation_ver <= operation_ver'
  PROVE  /\ job' \in [Op -> Job] /\ job'[op] = k
         /\ \A o \in Op : o # op => job'[o] = job[o]
         /\ \A o \in Op : /\ job'[o].at = "newservice" => job'[o].left > 0
                          /\ o > operation_ver' => job'[o] = NoJob
<1>1. job \in [Op -> Job] /\ op \in Int /\ operation_ver \in Int
  BY DEF Types, Op
<1>2. job' \in [Op -> Job] /\ job'[op] = k /\ \A o \in Op : o # op => job'[o] = job[o]
  BY <1>1 DEF Moved
<1>3. \A o \in Op : o \in Int
  BY DEF Op
<1>4. ASSUME NEW o \in Op
      PROVE  /\ job'[o].at = "newservice" => job'[o].left > 0
             /\ o > operation_ver' => job'[o] = NoJob
  <2>1. CASE o = op
    BY <2>1, <1>1, <1>2 DEF Moved
  <2>2. CASE o # op
    BY <2>2, <1>1, <1>2, <1>3 DEF Types
  <2> QED
    BY <2>1, <2>2
<1> QED
  BY <1>2, <1>4

\* Hatching starts: by /swarm itself, or when dataset.reset is done.
LEMMA HatchIs ==
  ASSUME Types, NEW op \in Op, NEW v \in 0 .. MaxSwarm,
         NEW c \in [users : Users \cup {1}, rate : Rates \cup {1}], NEW n \in Nat,
         NEW tb \in Nat, Hatch(op, v, c, n, tb)
  PROVE  \E k \in Job :
           /\ Moved(op, k)
           /\ k.at \in {"newservice", "timeout", "done"}
           /\ k.ver = v /\ k.count = c.users /\ k.id = 1
           /\ k.at = "newservice" => n + k.left <= c.users /\ k.table = tb
           /\ k.at \in {"newservice", "timeout"} => state' = "hatching"
           /\ k.at = "timeout" => n < c.users
           /\ k.at = "done" => n >= c.users /\ state' = "running"
<1> DEFINE j == [NoJob EXCEPT !.ver = v, !.count = c.users, !.rate = c.rate]
<1>1. j \in Job /\ j.ver = v /\ j.count = c.users /\ j.id = 1
  BY FreshJob, Zenon
<1>2. Batch(op, j, n, tb, "hatching")
  BY DEF Hatch
<1> HIDE DEF j
<1>3. PICK k \in Job :
           /\ job' = [job EXCEPT ![op] = k]
           /\ k.at \in {"newservice", "timeout", "done"}
           /\ k.ver = j.ver /\ k.count = j.count /\ k.id = j.id
           /\ k.at = "newservice" => /\ k.left > 0 /\ n + k.left <= j.count
                                     /\ k.table = tb /\ state' = "hatching"
           /\ k.at = "timeout" => n < j.count /\ state' = "hatching"
           /\ k.at = "done" => n >= j.count /\ state' = "running"
  BY <1>1, <1>2, BatchIs
<1> QED
  BY <1>1, <1>3 DEF Moved

\* The bookkeeping of an empty swarm.
LEMMA EmptyBooks ==
  ASSUME DOMAIN agents' = {}, Tracked' = {}, agent_count' = 0, alive' = {}
  PROVE  Bookkeeping'
<1>1. IsFiniteSet(alive') /\ Cardinality(alive') = 0
  BY FS_EmptySet
<1>2. 1 .. 0 = {}
  OBVIOUS
<1>3. {<<operation_ver', k>> : k \in 1 .. 0} = {}
  BY <1>2
<1> QED
  BY <1>1, <1>2, <1>3 DEF Bookkeeping

\* route['/swarm'] keeps the invariant.
LEMMA SwarmStep ==
  ASSUME SwarmInv, NEW op \in Op, NEW u \in Users, NEW r \in Rates, Swarm(op, u, r)
  PROVE  SwarmInv'
<1>1. /\ Types /\ op \in Nat /\ op > 0 /\ op <= MaxSwarm /\ MaxSwarm \in Nat /\ MaxStop \in Nat
      /\ operation_ver \in Nat /\ op = operation_ver + 1 /\ job[op] = NoJob
      /\ operation_ver' = op /\ StopAgent /\ stops' = stops
      /\ overlapped' = (overlapped \/ Suspended)
  BY SwarmAssumption DEF SwarmInv, Types, Op, Swarm
<1>2. cfg' = [users |-> u, rate |-> r] /\ cfg' \in [users : Users \cup {1}, rate : Rates \cup {1}]
      /\ cfg'.users = u
  BY DEF Swarm
<1>3. /\ DOMAIN agents' = {} /\ Tracked' = {} /\ agent_count' = 0
      /\ alive' \subseteq Agent /\ table' = table + 1 /\ (Orderly => alive' = {})
  BY <1>1, StopAgentIs
<1>4. table' \in Nat /\ table' = operation_ver' + stops'
  BY <1>1, <1>3 DEF Types
<1>5. \E k \in Job :
        /\ Moved(op, k) /\ k.at \in {"reset", "newservice", "timeout", "done"}
        /\ k.at = "reset" => k = [NoJob EXCEPT !.at = "reset"] /\ state' = state
        /\ k.at \in {"newservice", "timeout", "done"} => k.ver = op /\ k.count = u /\ k.id = 1
        /\ k.at = "newservice" => 0 + k.left <= u /\ k.table = table'
        /\ k.at \in {"newservice", "timeout"} => state' = "hatching"
        /\ k.at = "timeout" => 0 < u
        /\ k.at = "done" => 0 >= u /\ state' = "running"
  <2>1. CASE HasStats
    <3>1. /\ job' = [job EXCEPT ![op].at = "reset"] /\ state' = state
      BY <2>1 DEF Swarm
    <3> DEFINE k == [NoJob EXCEPT !.at = "reset"]
    <3>2. job' = [job EXCEPT ![op] = k]
      BY <3>1, <1>1
    <3>3. k \in Job /\ k.at = "reset"
      BY IdleJob
    <3> HIDE DEF k
    <3>4. Moved(op, k)
      BY <3>2, <3>3 DEF Moved
    <3> QED
      BY <3>1, <3>3, <3>4 DEF k
  <2>2. CASE ~HasStats
    <3>1. Hatch(op, op, cfg', 0, table')
      BY <2>2 DEF Swarm
    <3>2. op \in 0 .. MaxSwarm /\ 0 \in Nat
      BY <1>1
    <3>3. \E k \in Job :
           /\ Moved(op, k)
           /\ k.at \in {"newservice", "timeout", "done"}
           /\ k.ver = op /\ k.count = cfg'.users /\ k.id = 1
           /\ k.at = "newservice" => 0 + k.left <= cfg'.users /\ k.table = table'
           /\ k.at \in {"newservice", "timeout"} => state' = "hatching"
           /\ k.at = "timeout" => 0 < cfg'.users
           /\ k.at = "done" => 0 >= cfg'.users /\ state' = "running"
      BY <1>1, <1>2, <1>4, <3>1, <3>2, HatchIs
    <3> QED
      BY <3>3, <1>2
  <2> QED
    BY <2>1, <2>2
<1>6. PICK k \in Job :
        /\ Moved(op, k) /\ k.at \in {"reset", "newservice", "timeout", "done"}
        /\ k.at = "reset" => k = [NoJob EXCEPT !.at = "reset"] /\ state' = state
        /\ k.at \in {"newservice", "timeout", "done"} => k.ver = op /\ k.count = u /\ k.id = 1
        /\ k.at = "newservice" => 0 + k.left <= u /\ k.table = table'
        /\ k.at \in {"newservice", "timeout"} => state' = "hatching"
        /\ k.at = "timeout" => 0 < u
        /\ k.at = "done" => 0 >= u /\ state' = "running"
  BY <1>5
<1>7. /\ job' \in [Op -> Job] /\ job'[op] = k
      /\ \A o \in Op : o # op => job'[o] = job[o]
      /\ \A o \in Op : /\ job'[o].at = "newservice" => job'[o].left > 0
                       /\ o > operation_ver' => job'[o] = NoJob
  BY <1>1, <1>6, JobTypes
<1>8. Types'
  <2>1. overlapped' \in BOOLEAN
    BY <1>1
  <2>2. state' \in {"ready", "hatching", "running", "stopped"}
    BY <1>1, <1>6 DEF Types
  <2> QED
    BY <1>1, <1>2, <1>3, <1>4, <1>7, <2>1, <2>2 DEF Types
<1>9. ASSUME ~overlapped'
      PROVE  Orderly'
  <2>1. Orderly /\ ~Suspended
    BY <1>1, <1>9 DEF SwarmInv
  <2>2. Bookkeeping'
    BY <1>3, <2>1, EmptyBooks
  <2>3. ASSUME NEW o \in Op
        PROVE  Progress(o)'
    <3>1. CASE o = op
      <4>1. u \in Nat /\ k.left \in Nat
        BY SwarmAssumption DEF Job
      <4> QED
        BY <3>1, <4>1, <1>1, <1>2, <1>3, <1>6, <1>7 DEF Progress
    <3>2. CASE o # op
      BY <3>2, <2>1, <1>1, <1>7 DEF Progress, Suspended, Orderly
    <3> QED
      BY <3>1, <3>2
  <2> QED
    BY <2>2, <2>3, <1>1 DEF Orderly
<1> QED
  BY <1>8, <1>9 DEF SwarmInv

\* dataset.reset is done.
LEMMA ResetStep ==
  ASSUME SwarmInv, NEW op \in Op, ResetDone(op)
  PROVE  SwarmInv'
<1>1. /\ Types /\ job[op].at = "reset"
      /\ UNCHANGED <<operation_ver, cfg, agents, table, agent_count, alive, stops, overlapped>>
      /\ Hatch(op, operation_ver, cfg, agent_count, table)
  BY DEF SwarmInv, ResetDone
<1>2. /\ operation_ver \in 0 .. MaxSwarm /\ agent_count \in Nat /\ table \in Nat
      /\ cfg \in [users : Users \cup {1}, rate : Rates \cup {1}]
      /\ operation_ver \in Nat /\ op \in Nat /\ op > 0
  BY <1>1, SwarmAssumption DEF Types, Op
<1>3. PICK k \in Job :
           /\ Moved(op, k)
           /\ k.at \in {"newservice", "timeout", "done"}
           /\ k.ver = operation_ver /\ k.count = cfg.users /\ k.id = 1
           /\ k.at = "newservice" => agent_count + k.left <= cfg.users /\ k.table = table
           /\ k.at \in {"newservice", "timeout"} => state' = "hatching"
           /\ k.at = "timeout" => agent_count < cfg.users
           /\ k.at = "done" => agent_count >= cfg.users /\ state' = "running"
  BY <1>1, <1>2, HatchIs
<1>4. op <= operation_ver
  <2>1. op > operation_ver => job[op] = NoJob
    BY <1>1 DEF Types
  <2> QED
    BY <2>1, <1>1, <1>2, IdleJob
<1>5. /\ job' \in [Op -> Job] /\ job'[op] = k
      /\ \A o \in Op : o # op => job'[o] = job[o]
      /\ \A o \in Op : /\ job'[o].at = "newservice" => job'[o].left > 0
                       /\ o > operation_ver' => job'[o] = NoJob
  <2>1. /\ operation_ver' \in {operation_ver, op} /\ operation_ver <= operation_ver'
        /\ Moved(op, k)
    BY <1>1, <1>2, <1>3
  <2> QED
    BY <1>1, <1>4, <2>1, JobTypes
<1>6. state' \in {"hatching", "running"}
  BY <1>3
<1>7. Types'
  BY <1>1, <1>5, <1>6 DEF Types, Tracked
<1>8. ASSUME ~overlapped'
      PROVE  Orderly'
  <2>1. Orderly /\ Progress(op) /\ op = operation_ver /\ agent_count = 0
    BY <1>1, <1>8 DEF SwarmInv, Orderly, Progress
  <2>2. Bookkeeping'
    BY <1>1, <1>6, <2>1 DEF Orderly, Bookkeeping, Tracked
  <2>3. ASSUME NEW o \in Op
        PROVE  Progress(o)'
    <3>1. CASE o = op
      <4>1. cfg.users \in Nat /\ k.left \in Nat
        BY <1>2, <1>3 DEF Job
      <4> QED
        BY <3>1, <4>1, <1>1, <1>3, <1>5, <2>1 DEF Progress
    <3>2. CASE o # op
      <4>1. Progress(o)
        BY <2>1 DEF Orderly
      <4> QED
        BY <3>2, <4>1, <2>1, <1>1, <1>5 DEF Progress
    <3> QED
      BY <3>1, <3>2
  <2> QED
    BY <2>1, <2>2, <2>3, <1>1, <1>2 DEF Orderly
<1> QED
  BY <1>7, <1>8 DEF SwarmInv

\* The same for the coroutines that are under way already.
LEMMA JobMoves ==
  ASSUME Types, NEW op \in Op, NEW k, Moved(op, k), job[op].at # "none",
         operation_ver' = operation_ver
  PROVE  /\ job' \in [Op -> Job] /\ job'[op] = k
         /\ \A o \in Op : o # op => job'[o] = job[o]
         /\ \A o \in Op : /\ job'[o].at = "newservice" => job'[o].left > 0
                          /\ o > operation_ver' => job'[o] = NoJob
<1>1. op \in Int /\ operation_ver \in Int /\ (op > operation_ver => job[op] = NoJob)
  BY SwarmAssumption DEF Types, Op
<1>2. op <= operation_ver
  BY <1>1, IdleJob
<1>3. operation_ver' \in {operation_ver, op} /\ operation_ver <= operation_ver'
  BY <1>1
<1> QED
  BY <1>2, <1>3, JobTypes

\* newservice or dataset.reset fails: the coroutine ends, the swarm stays as it is.
LEMMA FailedStep ==
  ASSUME SwarmInv, NEW op \in Op, LaunchFailed(op) \/ ResetFailed(op)
  PROVE  SwarmInv'
<1> DEFINE k == [job[op] EXCEPT !.at = "failed"]
<1>1. /\ Types /\ job[op].at \in {"newservice", "reset"}
      /\ job' = [job EXCEPT ![op].at = "failed"]
      /\ UNCHANGED <<state, operation_ver, cfg, agents, table, agent_count, alive, stops,
                     overlapped>>
  BY DEF SwarmInv, LaunchFailed, ResetFailed
<1>2. job[op] \in Job /\ job' = [job EXCEPT ![op] = k]
  BY <1>1 DEF Types
<1>3. k \in Job /\ k.at = "failed" /\ k.ver = job[op].ver
  BY <1>2, JobAt, Zenon
<1> HIDE DEF k
<1>4. Moved(op, k)
  BY <1>2, <1>3 DEF Moved
<1>5. /\ job' \in [Op -> Job] /\ job'[op] = k
      /\ \A o \in Op : o # op => job'[o] = job[o]
      /\ \A o \in Op : /\ job'[o].at = "newservice" => job'[o].left > 0
                       /\ o > operation_ver' => job'[o] = NoJob
  BY <1>1, <1>4, JobMoves
<1>6. Types'
  BY <1>1, <1>5 DEF Types, Tracked
<1>7. ASSUME ~overlapped'
      PROVE  Orderly'
  <2>1. /\ Orderly /\ Progress(op) /\ op = operation_ver
        /\ state = "hatching" \/ agent_count = 0
        /\ k.ver \in {0, op}
    <3>1. Orderly /\ Progress(op)
      BY <1>1, <1>7 DEF SwarmInv, Orderly
    <3>2. CASE job[op].at = "reset"
      <4>1. job[op].ver = 0 /\ agent_count = 0
        BY <3>1, <3>2 DEF Progress, NoJob
      <4> QED
        BY <3>1, <3>2, <4>1, <1>3 DEF Progress
    <3>3. CASE job[op].at = "newservice"
      BY <3>1, <3>3, <1>3 DEF Progress
    <3> QED
      BY <1>1, <3>2, <3>3
  <2>2. Bookkeeping'
    BY <1>1, <2>1 DEF Orderly, Bookkeeping, Tracked
  <2>3. ASSUME NEW o \in Op
        PROVE  Progress(o)'
    <3>1. CASE o = op
      BY <3>1, <1>1, <1>3, <1>5, <2>1 DEF Progress
    <3>2. CASE o # op
      <4>1. Progress(o)
        BY <2>1 DEF Orderly
      <4> QED
        BY <3>2, <4>1, <1>1, <1>5 DEF Progress
    <3> QED
      BY <3>1, <3>2
  <2> QED
    BY <2>1, <2>2, <2>3, <1>1 DEF Orderly
<1> QED
  BY <1>6, <1>7 DEF SwarmInv

\* /stop keeps the invariant.
LEMMA StopStep ==
  ASSUME SwarmInv, Stop
  PROVE  SwarmInv'
<1>1. /\ Types /\ StopAgent /\ stops < MaxStop /\ stops' = stops + 1 /\ state' = "stopped"
      /\ overlapped' = (overlapped \/ Suspended) /\ UNCHANGED <<operation_ver, cfg, job, fails>>
  BY DEF SwarmInv, Stop
<1>2. /\ DOMAIN agents' = {} /\ Tracked' = {} /\ agent_count' = 0
      /\ alive' \subseteq Agent /\ table' = table + 1 /\ (Orderly => alive' = {})
  BY <1>1, StopAgentIs
<1>3. Types'
  <2>1. stops' \in 0 .. MaxStop /\ table' = operation_ver' + stops'
    BY <1>1, <1>2, SwarmAssumption DEF Types
  <2>2. overlapped' \in BOOLEAN
    BY <1>1
  <2> QED
    BY <1>1, <1>2, <2>1, <2>2 DEF Types
<1>4. ASSUME ~overlapped'
      PROVE  Orderly'
  <2>1. Orderly /\ ~Suspended
    BY <1>1, <1>4 DEF SwarmInv
  <2>2. Bookkeeping'
    BY <1>2, <2>1, EmptyBooks
  <2>3. ASSUME NEW o \in Op
        PROVE  Progress(o)'
    BY <2>1, <1>1 DEF Progress, Suspended, Orderly
  <2> QED
    BY <2>2, <2>3, <1>1 DEF Orderly
<1> QED
  BY <1>3, <1>4 DEF SwarmInv

\* The timeout between two batches.
LEMMA TimeoutStep ==
  ASSUME SwarmInv, NEW op \in Op, Timeout(op)
  PROVE  SwarmInv'
<1> DEFINE over == state # "hatching" \/ operation_ver # job[op].ver
<1>1. /\ Types /\ job[op].at = "timeout" /\ job[op] \in Job
      /\ UNCHANGED <<operation_ver, cfg, agents, table, agent_count, alive, stops, overlapped>>
      /\ operation_ver \in Nat /\ agent_count \in Nat /\ table \in Nat
      /\ state \in {"ready", "hatching", "running", "stopped"}
  BY SwarmAssumption DEF SwarmInv, Timeout, Types
<1>2. \E k \in Job :
        /\ Moved(op, k) /\ k.at \in {"newservice", "timeout", "done"}
        /\ k.ver = job[op].ver /\ k.count = job[op].count /\ k.id = job[op].id
        /\ over => k.at = "done" /\ state' = state
        /\ ~over =>
             /\ k.at = "newservice" => /\ agent_count + k.left <= k.count /\ k.table = table
                                       /\ state' = "hatching"
             /\ k.at = "timeout" => agent_count < k.count /\ state' = "hatching"
             /\ k.at = "done" => agent_count >= k.count /\ state' = "running"
  <2>1. CASE over
    <3> DEFINE k == [job[op] EXCEPT !.at = "done"]
    <3>1. job' = [job EXCEPT ![op].at = "done"] /\ state' = state
      BY <2>1 DEF Timeout
    <3>2. job' = [job EXCEPT ![op] = k]
      BY <3>1, <1>1 DEF Types
    <3>3. /\ k \in Job /\ k.at = "done" /\ k.ver = job[op].ver /\ k.count = job[op].count
          /\ k.id = job[op].id
      BY <1>1, JobAt, Zenon
    <3> HIDE DEF k
    <3> QED
      BY <2>1, <3>1, <3>2, <3>3 DEF Moved
  <2>2. CASE ~over
    <3>1. Batch(op, job[op], agent_count, table, state) /\ state = "hatching"
      BY <2>2 DEF Timeout
    <3>2. \E k \in Job :
           /\ job' = [job EXCEPT ![op] = k]
           /\ k.at \in {"newservice", "timeout", "done"}
           /\ k.ver = job[op].ver /\ k.count = job[op].count /\ k.id = job[op].id
           /\ k.at = "newservice" => /\ k.left > 0 /\ agent_count + k.left <= job[op].count
                                     /\ k.table = table /\ state' = state
           /\ k.at = "timeout" => agent_count < job[op].count /\ state' = state
           /\ k.at = "done" => agent_count >= job[op].count /\ state' = "running"
      BY <1>1, <3>1, BatchIs
    <3> QED
      BY <2>2, <3>1, <3>2 DEF Moved
  <2> QED
    BY <2>1, <2>2
<1>3. PICK k \in Job :
        /\ Moved(op, k) /\ k.at \in {"newservice", "timeout", "done"}
        /\ k.ver = job[op].ver /\ k.count = job[op].count /\ k.id = job[op].id
        /\ over => k.at = "done" /\ state' = state
        /\ ~over =>
             /\ k.at = "newservice" => /\ agent_count + k.left <= k.count /\ k.table = table
                                       /\ state' = "hatching"
             /\ k.at = "timeout" => agent_count < k.count /\ state' = "hatching"
             /\ k.at = "done" => agent_count >= k.count /\ state' = "running"
  BY <1>2
<1>4. /\ job' \in [Op -> Job] /\ job'[op] = k
      /\ \A o \in Op : o # op => job'[o] = job[o]
      /\ \A o \in Op : /\ job'[o].at = "newservice" => job'[o].left > 0
                       /\ o > operation_ver' => job'[o] = NoJob
  BY <1>1, <1>3, JobMoves
<1>5. state' \in {"ready", "hatching", "running", "stopped"}
  BY <1>1, <1>3
<1>6. Types'
  BY <1>1, <1>4, <1>5 DEF Types, Tracked
<1>7. ASSUME ~overlapped'
      PROVE  Orderly'
  <2>1. Orderly /\ Progress(op) /\ job[op].ver = op
    BY <1>1, <1>7 DEF SwarmInv, Orderly, Progress
  <2>2. CASE over
    <3>1. k.at = "done" /\ state' = state
      BY <2>2, <1>3
    <3>2. Bookkeeping'
      BY <1>1, <2>1, <3>1 DEF Orderly, Bookkeeping, Tracked
    <3>3. ASSUME NEW o \in Op
          PROVE  Progress(o)'
      <4>1. Progress(o)
        BY <2>1 DEF Orderly
      <4>2. CASE o = op
        BY <4>1, <4>2, <3>1, <1>1, <1>4 DEF Progress
      <4>3. CASE o # op
        BY <4>1, <4>3, <3>1, <1>1, <1>4 DEF Progress
      <4> QED
        BY <4>2, <4>3
    <3> QED
      BY <2>1, <3>1, <3>2, <3>3, <1>1 DEF Orderly
  <2>3. CASE ~over
    <3>1. /\ op = operation_ver /\ state = "hatching" /\ op > 0
          /\ job[op].count = cfg.users /\ job[op].id = agent_count + 1
          /\ agent_count < cfg.users
      BY <2>1, <2>3, <1>1 DEF Progress, Op
    <3>2. state' \in {"hatching", "running"}
      BY <2>3, <1>3
    <3>3. Bookkeeping'
      BY <1>1, <2>1, <3>1, <3>2 DEF Orderly, Bookkeeping, Tracked
    <3>4. ASSUME NEW o \in Op
          PROVE  Progress(o)'
      <4>1. Progress(o)
        BY <2>1 DEF Orderly
      <4>2. CASE o = op
        <5>1. k.count \in Nat /\ k.left \in Nat
          BY <1>3 DEF Job
        <5> QED
          BY <4>2, <5>1, <2>3, <3>1, <1>1, <1>3, <1>4 DEF Progress
      <4>3. CASE o # op
        BY <4>1, <4>3, <3>1, <1>1, <1>4 DEF Progress
      <4> QED
        BY <4>2, <4>3
    <3> QED
      BY <2>1, <3>1, <3>3, <3>4, <1>1 DEF Orderly
  <2> QED
    BY <2>2, <2>3
<1> QED
  BY <1>6, <1>7 DEF SwarmInv

\* newservice returns: the agent is counted, and run_agent goes on.
LEMMA LaunchedJob ==
  ASSUME Types, NEW op \in Op, Launched(op)
  PROVE  \E k \in Job :
           /\ Moved(op, k) /\ k.at \in {"newservice", "timeout", "done"}
           /\ k.ver = job[op].ver /\ k.count = job[op].count /\ k.id = job[op].id + 1
           /\ k.at = "newservice" => /\ k.left = job[op].left - 1 /\ k.table = table
                                     /\ state' = state
           /\ k.at = "timeout" => agent_count + 1 < k.count /\ state' = state
           /\ k.at = "done" => agent_count + 1 >= k.count /\ state' = "running"
<1> DEFINE n == agent_count + 1
           next == [job[op] EXCEPT !.id = @ + 1, !.left = @ - 1, !.table = table]
<1>1. /\ job[op] \in Job /\ job[op].at = "newservice" /\ job[op].left > 0
      /\ table \in Nat /\ n \in Nat /\ job[op].left \in Nat
  BY SwarmAssumption DEF Types, Launched, Job
<1>2. /\ next \in Job /\ next.at = "newservice" /\ next.id = job[op].id + 1
      /\ next.left = job[op].left - 1 /\ next.table = table
      /\ next.ver = job[op].ver /\ next.count = job[op].count
  BY <1>1, NextJob
<1>3. IF job[op].left > 1
      THEN job' = [job EXCEPT ![op] = next] /\ state' = state
      ELSE /\ job' = [job EXCEPT ![op] = AfterBatch(next, n)]
           /\ state' = StateAfter(job[op], n, state)
  BY DEF Launched
<1>4. next.count \in Nat
  BY <1>2 DEF Job
<1> HIDE DEF next, n
<1>5. CASE job[op].left > 1
  <2>1. job' = [job EXCEPT ![op] = next] /\ state' = state
    BY <1>3, <1>5
  <2>2. next.left > 0
    BY <1>1, <1>2, <1>5
  <2> QED
    BY <1>2, <2>1, <2>2 DEF Moved
<1>6. CASE ~(job[op].left > 1) /\ n >= job[op].count
  <2> DEFINE k == [next EXCEPT !.at = "done"]
  <2>1. /\ k \in Job /\ k.at = "done" /\ k.ver = next.ver /\ k.count = next.count
        /\ k.id = next.id
    BY <1>2, JobAt, Zenon
  <2>2. job' = [job EXCEPT ![op] = k] /\ state' = "running"
    BY <1>2, <1>3, <1>6 DEF AfterBatch, StateAfter
  <2> HIDE DEF k
  <2> QED
    BY <1>2, <1>6, <2>1, <2>2 DEF Moved, n
<1>7. CASE ~(job[op].left > 1) /\ ~(n >= job[op].count)
  <2> DEFINE k == [next EXCEPT !.at = "timeout"]
  <2>1. /\ k \in Job /\ k.at = "timeout" /\ k.ver = next.ver /\ k.count = next.count
        /\ k.id = next.id
    BY <1>2, JobAt, Zenon
  <2>2. job' = [job EXCEPT ![op] = k] /\ state' = state
    BY <1>2, <1>3, <1>7 DEF AfterBatch, StateAfter
  <2>3. n < next.count
    BY <1>1, <1>2, <1>4, <1>7
  <2> HIDE DEF k
  <2> QED
    BY <1>2, <2>1, <2>2, <2>3 DEF Moved, n
<1> QED
  BY <1>5, <1>6, <1>7

\* The bookkeeping after one more agent of the current operation.
LEMMA MoreBooks ==
  ASSUME Types, Bookkeeping, NEW n, n = agent_count + 1, agent_count < cfg.users,
         operation_ver > 0,
         agent_count' = n, operation_ver' = operation_ver, cfg' = cfg,
         alive' = alive \cup {<<operation_ver, n>>}, state' \in {"hatching", "running"},
         agents' = Assign(agents, n, <<operation_ver, n>>)
  PROVE  Bookkeeping'
<1> DEFINE a == <<operation_ver, n>>
<1>1. agent_count \in Nat /\ n \in Nat /\ 1 .. n = 1 .. agent_count \cup {n} /\ n \notin 1 .. agent_count
  BY DEF Types
<1>2. DOMAIN agents = 1 .. agent_count /\ n \notin DOMAIN agents
  BY <1>1 DEF Bookkeeping
<1>3. DOMAIN agents' = 1 .. n /\ Tracked' = Tracked \cup {a}
  <2>1. /\ DOMAIN agents' = DOMAIN agents \cup {n}
        /\ Values(agents') = Values(agents) \cup {a}
    <3> HIDE DEF a
    <3>1. agents' = Assign(agents, n, a)
      BY DEF a
    <3>2. DOMAIN Assign(agents, n, a) = DOMAIN agents \cup {n}
      BY DEF Assign
    <3>3. Values(Assign(agents, n, a)) = Values(agents) \cup {a}
      BY <1>2, AddAgent, Zenon
    <3> QED
      BY <3>1, <3>2, <3>3
  <2> QED
    BY <1>1, <1>2, <2>1 DEF Tracked, Values
<1>4. alive' = {<<operation_ver, k>> : k \in 1 .. n}
  <2>1. alive = {<<operation_ver, k>> : k \in 1 .. agent_count}
    BY DEF Bookkeeping
  <2>2. {<<operation_ver, k>> : k \in 1 .. n} = {<<operation_ver, k>> : k \in 1 .. agent_count} \cup {a}
    BY <1>1
  <2> QED
    BY <2>1, <2>2
<1>5. a \notin alive
  <2>1. \A k \in 1 .. agent_count : <<operation_ver, k>> # a
    BY <1>1
  <2> QED
    BY <2>1 DEF Bookkeeping
<1>6. IsFiniteSet(alive') /\ Cardinality(alive') = Cardinality(alive) + 1
  <2>1. IsFiniteSet(alive)
    BY DEF Bookkeeping
  <2> HIDE DEF a
  <2>2. IsFiniteSet(alive \cup {a}) /\ Cardinality(alive \cup {a}) = Cardinality(alive) + 1
    BY <1>5, <2>1, FS_AddElement
  <2> QED
    BY <2>2 DEF a
<1>7. Tracked = alive /\ Cardinality(alive) = agent_count
  BY DEF Bookkeeping
<1>8. n <= cfg.users
  <2>1. cfg.users \in Users \cup {1} /\ \A u \in Users \cup {1} : u \in Nat
    BY SwarmAssumption DEF Types
  <2>2. cfg.users \in Nat
    BY <2>1, Zenon
  <2> QED
    BY <1>1, <2>2
<1> QED
  BY <1>3, <1>4, <1>6, <1>7, <1>8 DEF Bookkeeping

\* A new agent keeps the invariant.
LEMMA LaunchedStep ==
  ASSUME SwarmInv, NEW op \in Op, Launched(op)
  PROVE  SwarmInv'
<1> DEFINE a == <<op, job[op].id>>
<1>1. /\ Types /\ job[op].at = "newservice" /\ job[op] \in Job /\ job[op].id \in Nat
      /\ alive' = alive \cup {a}
      /\ agents' = IF job[op].table = table THEN Assign(agents, job[op].id, a) ELSE agents
      /\ agent_count' = agent_count + 1 /\ agent_count \in Nat /\ job[op].left \in Nat
      /\ job[op].left > 0
      /\ UNCHANGED <<operation_ver, cfg, table, stops, overlapped>>
      /\ operation_ver \in Nat /\ state \in {"ready", "hatching", "running", "stopped"}
  BY SwarmAssumption DEF SwarmInv, Launched, Types, Job
<1>2. PICK k \in Job :
           /\ Moved(op, k) /\ k.at \in {"newservice", "timeout", "done"}
           /\ k.ver = job[op].ver /\ k.count = job[op].count /\ k.id = job[op].id + 1
           /\ k.at = "newservice" => /\ k.left = job[op].left - 1 /\ k.table = table
                                     /\ state' = state
           /\ k.at = "timeout" => agent_count + 1 < k.count /\ state' = state
           /\ k.at = "done" => agent_count + 1 >= k.count /\ state' = "running"
  BY <1>1, LaunchedJob
<1>3. /\ job' \in [Op -> Job] /\ job'[op] = k
      /\ \A o \in Op : o # op => job'[o] = job[o]
      /\ \A o \in Op : /\ job'[o].at = "newservice" => job'[o].left > 0
                       /\ o > operation_ver' => job'[o] = NoJob
  BY <1>1, <1>2, JobMoves
<1>4. a \in Agent
  BY <1>1 DEF Agent
<1>5. DOMAIN agents' \subseteq Nat /\ Tracked' \subseteq Agent
  <2>1. CASE job[op].table = table
    <3>1. agents' = Assign(agents, job[op].id, a)
      BY <1>1, <2>1
    <3>2. /\ DOMAIN agents' = DOMAIN agents \cup {job[op].id}
          /\ Values(agents') \subseteq Values(agents) \cup {a}
      <4> HIDE DEF a
      <4>1. /\ DOMAIN Assign(agents, job[op].id, a) = DOMAIN agents \cup {job[op].id}
            /\ Values(Assign(agents, job[op].id, a)) \subseteq Values(agents) \cup {a}
        BY AddAgent, Zenon
      <4> QED
        BY <3>1, <4>1
    <3>3. Values(agents) \subseteq Agent /\ Tracked' = Values(agents')
      BY <1>1 DEF Types, Tracked, Values
    <3> QED
      BY <1>1, <1>4, <3>2, <3>3 DEF Types
  <2>2. CASE job[op].table # table
    BY <1>1, <2>2 DEF Types, Tracked
  <2> QED
    BY <2>1, <2>2
<1>6. state' \in {"ready", "hatching", "running", "stopped"}
  BY <1>1, <1>2
<1>7. Types'
  <2>1. agent_count' \in Nat /\ alive' \subseteq Agent
    BY <1>1, <1>4 DEF Types
  <2> QED
    BY <1>1, <1>3, <1>5, <1>6, <2>1 DEF Types
<1>8. ASSUME ~overlapped'
      PROVE  Orderly'
  <2>1. Orderly /\ Progress(op)
    BY <1>1, <1>8 DEF SwarmInv, Orderly
  <2>2. /\ op = operation_ver /\ job[op].ver = op /\ state = "hatching"
        /\ job[op].count = cfg.users /\ job[op].table = table
        /\ job[op].id = agent_count + 1 /\ agent_count + job[op].left <= cfg.users
    BY <1>1, <2>1 DEF Progress
  <2>3. cfg.users \in Nat /\ op > 0
    BY <1>1, <2>2 DEF Job, Op
  <2>4. state' \in {"hatching", "running"} /\ agent_count < cfg.users
    BY <1>1, <1>2, <2>2, <2>3
  <2>5. Bookkeeping'
    BY <1>1, <2>1, <2>2, <2>3, <2>4, MoreBooks DEF Orderly
  <2>6. ASSUME NEW o \in Op
        PROVE  Progress(o)'
    <3>1. Progress(o)
      BY <2>1 DEF Orderly
    <3>2. CASE o = op
      <4>1. k.left \in Nat /\ k.id \in Nat
        BY <1>2 DEF Job
      <4> QED
        BY <3>2, <4>1, <2>2, <2>3, <2>4, <1>1, <1>2, <1>3 DEF Progress
    <3>3. CASE o # op
      BY <3>1, <3>3, <2>2, <1>1, <1>3 DEF Progress
    <3> QED
      BY <3>2, <3>3
  <2> QED
    BY <2>2, <2>3, <2>5, <2>6, <1>1 DEF Orderly
<1> QED
  BY <1>7, <1>8 DEF SwarmInv

-----------------------------------------------------------------------------
(* The theorems                                                             *)

\* The invariant holds at the start.
LEMMA SwarmInit == Init => SwarmInv
<1> SUFFICES ASSUME Init PROVE SwarmInv
  OBVIOUS
<1>1. DOMAIN agents = {} /\ Tracked = {}
  BY DEF Init, Tracked
<1>2. job \in [Op -> Job] /\ \A op \in Op : job[op] = NoJob /\ job[op].at = "none"
  BY IdleJob DEF Init
<1>3. Types
  <2>1. cfg \in [users : Users \cup {1}, rate : Rates \cup {1}]
    BY DEF Init
  <2>2. /\ operation_ver \in 0 .. MaxSwarm /\ ~(operation_ver > 0) /\ stops \in 0 .. MaxStop
        /\ table = operation_ver + stops /\ agent_count \in Nat
    BY SwarmAssumption DEF Init
  <2>3. \A op \in Op : job[op].at = "newservice" => job[op].left > 0
    BY <1>2
  <2> QED
    BY <1>1, <1>2, <2>1, <2>2, <2>3, Zenon DEF Init, Types
<1>4. Bookkeeping
  <2>1. IsFiniteSet(alive) /\ Cardinality(alive) = 0
    BY FS_EmptySet DEF Init
  <2>2. 1 .. 0 = {}
    OBVIOUS
  <2>3. {<<operation_ver, k>> : k \in 1 .. 0} = {}
    BY <2>2
  <2> QED
    BY <1>1, <2>1, <2>2, <2>3 DEF Init, Bookkeeping
<1>5. ASSUME NEW op \in Op
      PROVE  Progress(op)
  BY <1>2 DEF Init, Progress
<1> QED
  BY <1>3, <1>4, <1>5 DEF Init, Orderly, SwarmInv

\* Every step of the controller, and of the services it waits for, keeps it.
LEMMA SwarmNext == SwarmInv /\ [Next]_vars => SwarmInv'
<1> SUFFICES ASSUME SwarmInv, [Next]_vars PROVE SwarmInv'
  OBVIOUS
<1>1. ASSUME NEW op \in Op, Answer(op) \/ ResetFailed(op) \/ LaunchFailed(op)
      PROVE  SwarmInv'
  BY <1>1, ResetStep, LaunchedStep, TimeoutStep, FailedStep DEF Answer
<1>2. ASSUME NEW op \in Op, NEW u \in Users, NEW r \in Rates, Swarm(op, u, r)
      PROVE  SwarmInv'
  BY <1>2, SwarmStep
<1>3. CASE Stop
  BY <1>3, StopStep
<1>4. CASE UNCHANGED vars
  BY <1>4 DEF vars, SwarmInv, Types, Orderly, Bookkeeping, Progress, Tracked
<1> QED
  BY <1>1, <1>2, <1>3, <1>4 DEF Next

\* The bookkeeping of route and webCenter and the progress of every run_agent
\* agree with the agents that run, unless a request came while a coroutine
\* awaited another service.
THEOREM SwarmSafe == Spec => []SwarmInv
  BY SwarmInit, SwarmNext, PTL DEF Spec

\* As long as requests come between the batches, the two checks of run_agent
\* are enough: no agent runs once the swarm is stopped, and none of an
\* operation that was replaced.
THEOREM OnlyCurrentOperation == Spec => []OrderlyRuns
<1>1. SwarmInv => OrderlyRuns
  <2> SUFFICES ASSUME SwarmInv, ~overlapped PROVE OnlyCurrentRuns
    BY DEF OrderlyRuns
  <2>1. Bookkeeping
    BY DEF SwarmInv, Orderly
  <2>2. \A a \in alive : a[1] = operation_ver
    BY <2>1 DEF Bookkeeping
  <2>3. state = "stopped" => alive = {}
    <3>1. 1 .. 0 = {}
      OBVIOUS
    <3> QED
      BY <2>1, <3>1 DEF Bookkeeping
  <2> QED
    BY <2>2, <2>3 DEF OnlyCurrentRuns, StopStops, OldOperationExpires
<1> QED
  BY <1>1, SwarmSafe, PTL

\* agent_count and self.agents are right about the agents that run.
THEOREM CountsAgents == Spec => []CountIsTrue
<1>1. SwarmInv => CountIsTrue
  <2> SUFFICES ASSUME SwarmInv PROVE CountIsTrue
    OBVIOUS
  <2>1. Types
    BY DEF SwarmInv
  <2>2. \A op \in Op : /\ job[op].at \in {"none", "reset", "newservice", "timeout", "done",
                                         "failed"}
                       /\ job[op].ver \in 0 .. MaxSwarm /\ job[op].left \in Nat
    BY <2>1 DEF Types, Job
  <2>3. table \in 0 .. MaxSwarm + MaxStop
    BY <2>1, SwarmAssumption DEF Types
  <2>4. ~overlapped => DOMAIN agents \subseteq AgentId
    <3> SUFFICES ASSUME ~overlapped, NEW i \in DOMAIN agents PROVE i \in AgentId
      OBVIOUS
    <3>1. i \in 1 .. agent_count /\ agent_count \in Nat
      BY <2>1 DEF SwarmInv, Orderly, Bookkeeping, Types
    <3>2. operation_ver > 0 /\ agent_count <= cfg.users
      BY <3>1 DEF SwarmInv, Orderly, Bookkeeping
    <3>3. cfg.users \in Users /\ \A u \in Users : u \in Nat
      BY <2>1, <3>2, SwarmAssumption DEF Types
    <3>4. cfg.users \in Nat
      BY <3>3, Zenon
    <3>5. i \in 1 .. cfg.users
      BY <3>1, <3>2, <3>4
    <3> QED
      BY <3>3, <3>5 DEF AgentId
  <2>5. TypeOK
    BY <2>1, <2>2, <2>3, <2>4 DEF Types, TypeOK
  <2> QED
    BY <2>5 DEF CountIsTrue, SwarmInv, Orderly, Bookkeeping
<1> QED
  BY <1>1, SwarmSafe, PTL

\* A swarm reported as running has one agent for each user asked for; when the
\* reset of the last /swarm has failed, it has none.
THEOREM RunningMeansAll == Spec => []RunningIsComplete
<1>1. SwarmInv => RunningIsComplete
  <2> SUFFICES ASSUME SwarmInv, state = "running", ~Suspended, ~overlapped
               PROVE  alive = IF LastFailed THEN {}
                              ELSE {<<operation_ver, k>> : k \in 1 .. cfg.users}
    BY DEF RunningIsComplete
  <2>1. Types /\ Orderly /\ operation_ver > 0
    BY DEF SwarmInv, Orderly
  <2>2. operation_ver \in Op /\ \A op \in Op : op > 0 /\ op \in Int
    BY <2>1, SwarmAssumption DEF Types, Op
  <2>3. \A op \in Op : Progress(op)
    BY <2>1 DEF Orderly
  <2>4. LastFailed <=> job[operation_ver].at = "failed"
    <3>1. ASSUME NEW op \in Op, job[op].at = "failed", operation_ver \in {op, job[op].ver}
          PROVE  op = operation_ver
      BY <2>1, <2>2, <2>3, <3>1 DEF Progress
    <3> QED
      BY <2>2, <3>1 DEF LastFailed
  <2>5. IF LastFailed THEN agent_count = 0 ELSE agent_count = cfg.users
    BY <2>2, <2>3, <2>4 DEF Progress, Suspended
  <2>6. alive = {<<operation_ver, k>> : k \in 1 .. agent_count}
    BY <2>1 DEF Orderly, Bookkeeping
  <2>7. {<<operation_ver, k>> : k \in 1 .. 0} = {}
    OBVIOUS
  <2> QED
    BY <2>5, <2>6, <2>7
<1> QED
  BY <1>1, SwarmSafe, PTL
===============================================================================
