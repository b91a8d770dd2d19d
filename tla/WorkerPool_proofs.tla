-------------------------- MODULE WorkerPool_proofs --------------------------
(***************************************************************************)
(* Sleeping and quitting of the threads of a node, for every number of     *)
(* workers.  m->sleep is read by wakeup without the mutex, but written     *)
(* only under it: it counts the workers in or on their way out of          *)
(* pthread_cond_wait.  The invariant adds to the checked property how the  *)
(* shutdown proceeds: the timer thread starts it when the last service is  *)
(* gone, and from then on no worker can be in a callback.                  *)
(***************************************************************************)
EXTENDS WorkerPool, FiniteSetTheorems, TLAPS

\* In pthread_cond_wait, or on the way out of it.
Asleep == {w \in Worker : pc[w] \in {"wait", "woken"}}

\* No thread ends, and no callback is cut off, before the last service is
\* gone: start() returns only then.
StaysUp ==
    /\ total => /\ ~quit /\ timer = "update" /\ socket # "exit" /\ monitor # "exit"
                /\ \A w \in Worker : pc[w] # "exit"
    /\ ~total => InService = {}

PoolInv ==
    /\ NoSleeperAfterQuit
    /\ StaysUp
    /\ ready <= pushed + 1
    /\ exiting => ~total
    /\ quit => timer = "exit"

-----------------------------------------------------------------------------
\* A worker falls asleep or gets up: the number of sleepers follows.
LEMMA SleeperCount ==
  ASSUME TypeOK, NEW w \in Worker, NEW l, pc' = [pc EXCEPT ![w] = l]
  PROVE  /\ IsFiniteSet(Asleep) /\ Cardinality(Asleep) \in 0 .. Count
         /\ Asleep' = IF l \in {"wait", "woken"} THEN Asleep \cup {w} ELSE Asleep \ {w}
         /\ Cardinality(Asleep')
              = Cardinality(Asleep) + (IF l \in {"wait", "woken"} THEN 1 ELSE 0)
                                    - (IF w \in Asleep THEN 1 ELSE 0)
         /\ Cardinality(Asleep') \in 0 .. Count
<1>1. IsFiniteSet(Worker) /\ Count \in Nat
  BY PoolAssumption, FS_CardinalityType DEF Count
<1>2. Asleep \subseteq Worker /\ Asleep' \subseteq Worker
  BY DEF Asleep
<1>3. IsFiniteSet(Asleep) /\ IsFiniteSet(Asleep')
  BY <1>1, <1>2, FS_Subset
<1>4. /\ Cardinality(Asleep) \in 0 .. Count /\ Cardinality(Asleep') \in 0 .. Count
  <2>1. /\ Cardinality(Asleep) \in Nat /\ Cardinality(Asleep') \in Nat
    BY <1>3, FS_CardinalityType
  <2>2. /\ Cardinality(Asleep) <= Cardinality(Worker)
        /\ Cardinality(Asleep') <= Cardinality(Worker)
    BY <1>1, <1>2, FS_Subset
  <2> QED
    BY <1>1, <2>1, <2>2 DEF Count
<1>5. Asleep' = IF l \in {"wait", "woken"} THEN Asleep \cup {w} ELSE Asleep \ {w}
  BY DEF Asleep, TypeOK
<1>6. /\ Cardinality(Asleep \cup {w}) = Cardinality(Asleep) + (IF w \in Asleep THEN 0 ELSE 1)
      /\ Cardinality(Asleep \ {w}) = Cardinality(Asleep) - (IF w \in Asleep THEN 1 ELSE 0)
  <2>1. Cardinality(Asleep) \in Nat
    BY <1>3, FS_CardinalityType
  <2>2. /\ Cardinality(Asleep \cup {w})
             = IF w \in Asleep THEN Cardinality(Asleep) ELSE Cardinality(Asleep) + 1
        /\ Cardinality(Asleep \ {w})
             = IF w \in Asleep THEN Cardinality(Asleep) - 1 ELSE Cardinality(Asleep)
    BY <1>3, FS_AddElement, FS_RemoveElement, Zenon
  <2> QED
    BY <2>1, <2>2
<1> QED
  BY <1>3, <1>4, <1>5, <1>6

\* The invariant holds when start() has created the threads.
LEMMA PoolInit ==
  ASSUME Init
  PROVE  PoolInv
<1>1. Asleep = {} /\ Waiting = {} /\ InService = {}
  BY DEF Init, Asleep, Waiting, InService
<1>2. Cardinality(Asleep) = 0
  BY <1>1, FS_EmptySet
<1>3. Count \in Nat
  BY PoolAssumption, FS_CardinalityType DEF Count
<1>4. TypeOK
  <2>1. total \in BOOLEAN /\ quit \in BOOLEAN /\ exiting \in BOOLEAN
    BY Zenon DEF Init
  <2>2. ready \in 0 .. MaxPush + 1 /\ pushed \in 0 .. MaxPush /\ more \in 0 .. MaxMore
        /\ sleep \in 0 .. Count
    BY <1>3, PoolAssumption DEF Init
  <2> QED
    BY <2>1, <2>2 DEF Init, TypeOK
<1> QED
  BY <1>1, <1>2, <1>4 DEF PoolInv, NoSleeperAfterQuit, StaysUp, Init, Asleep

\* A step of one worker, told by where it goes on: it may sleep only while quit
\* is not set, and enter a callback only while a service is alive.
LEMMA WorkerKeeps ==
  ASSUME PoolInv, TypeOK', NEW w \in Worker, NEW l, pc' = [pc EXCEPT ![w] = l],
         UNCHANGED <<quit, timer, socket, monitor, exiting>>,
         ready' <= pushed' + 1,
         total' => total,
         sleep' = sleep + (IF l \in {"wait", "woken"} THEN 1 ELSE 0)
                        - (IF pc[w] \in {"wait", "woken"} THEN 1 ELSE 0),
         quit => l # "wait",
         l = "exit" => quit,
         l \in {"begin", "version", "cb", "stuck", "tail"} => total',
         total # total' => InService = {w}
  PROVE  PoolInv'
<1>1. /\ sleep = Cardinality(Asleep) /\ TypeOK /\ StaysUp
  BY DEF PoolInv, NoSleeperAfterQuit, Asleep
<1>2. sleep' = Cardinality(Asleep')
  <2>1. w \in Asleep <=> pc[w] \in {"wait", "woken"}
    BY DEF Asleep
  <2>2. /\ Cardinality(Asleep')
              = Cardinality(Asleep) + (IF l \in {"wait", "woken"} THEN 1 ELSE 0)
                                    - (IF w \in Asleep THEN 1 ELSE 0)
    BY <1>1, SleeperCount
  <2> QED
    BY <1>1, <2>1, <2>2
<1>3. quit' => Waiting' = {}
  BY <1>1 DEF PoolInv, NoSleeperAfterQuit, Waiting, TypeOK
<1>4. StaysUp'
  <2>1. ~total' => InService' = {}
    BY <1>1 DEF StaysUp, InService, TypeOK
  <2> QED
    BY <1>1, <2>1 DEF StaysUp, TypeOK
<1> QED
  BY <1>2, <1>3, <1>4 DEF PoolInv, NoSleeperAfterQuit, Asleep

\* Every step of the threads keeps the invariant.
LEMMA PoolNext ==
  ASSUME PoolInv, [Next]_vars
  PROVE  PoolInv'
<1>0. /\ TypeOK /\ StaysUp /\ sleep = Cardinality(Asleep) /\ (quit => Waiting = {})
      /\ ready <= pushed + 1 /\ ready \in Nat /\ pushed \in Nat /\ sleep \in Nat
      /\ MaxPush \in Nat /\ MaxMore \in Nat /\ Count \in Nat
  <2>1. Count \in Nat
    BY PoolAssumption, FS_CardinalityType DEF Count
  <2> QED
    BY <2>1, PoolAssumption, FS_Subset DEF PoolInv, NoSleeperAfterQuit, Asleep, TypeOK
<1>1. ASSUME NEW w \in Worker, NEW l, pc' = [pc EXCEPT ![w] = l],
             l \in {"loop", "dispatch", "begin", "version", "cb", "stuck", "tail", "lock",
                    "wait", "woken", "exit"}
      PROVE  /\ pc' \in [Worker -> {"loop", "dispatch", "begin", "version", "cb", "stuck",
                                    "tail", "lock", "wait", "woken", "exit"}]
             /\ sleep + (IF l \in {"wait", "woken"} THEN 1 ELSE 0)
                      - (IF pc[w] \in {"wait", "woken"} THEN 1 ELSE 0) \in 0 .. Count
  <2>1. w \in Asleep <=> pc[w] \in {"wait", "woken"}
    BY DEF Asleep
  <2>2. Cardinality(Asleep) + (IF l \in {"wait", "woken"} THEN 1 ELSE 0)
                            - (IF w \in Asleep THEN 1 ELSE 0) \in 0 .. Count
    BY <1>0, <1>1, SleeperCount
  <2> QED
    BY <2>1, <2>2, <1>0, <1>1 DEF TypeOK
<1>a. ASSUME NEW w \in Worker, NEW l \in {"loop", "dispatch", "begin", "version", "cb", "stuck",
                                          "tail", "lock", "exit"},
             pc[w] \notin {"wait", "woken"}, sleep' = sleep
      PROVE  /\ sleep' = sleep + (IF l \in {"wait", "woken"} THEN 1 ELSE 0)
                              - (IF pc[w] \in {"wait", "woken"} THEN 1 ELSE 0)
             /\ l # "wait"
  BY <1>0, <1>a
<1>2. ASSUME NEW w \in Worker, Loop(w)
      PROVE  PoolInv'
  <2>1. PICK l \in {"exit", "dispatch"} : Goto(w, l) /\ (l = "exit" => quit)
    BY <1>2 DEF Loop
  <2>2. TypeOK'
    BY <1>0, <1>1, <1>2, <2>1 DEF Loop, Goto, queues, watch, TypeOK
  <2> QED
    BY <1>0, <1>a, <1>2, <2>1, <2>2, WorkerKeeps DEF Loop, Goto, queues, watch
<1>3. ASSUME NEW w \in Worker, Dispatch(w)
      PROVE  PoolInv'
  <2>1. PICK l \in {"begin", "dispatch", "lock", "loop"} : Goto(w, l) /\ (l = "begin" => total)
    BY <1>3 DEF Dispatch
  <2>2. ready' <= pushed' + 1 /\ ready' \in 0 .. MaxPush + 1
    BY <1>0, <1>3 DEF Dispatch, TypeOK
  <2>3. TypeOK'
    BY <1>0, <1>1, <1>3, <2>1, <2>2 DEF Dispatch, Goto, watch, TypeOK
  <2>4. pc[w] = "dispatch" /\ UNCHANGED <<sleep, quit, timer, socket, monitor, exiting, total>>
    BY <1>3 DEF Dispatch, watch
  <2> QED
    BY <1>0, <1>a, <2>1, <2>2, <2>3, <2>4, WorkerKeeps DEF Goto
<1>4. ASSUME NEW w \in Worker, Begin(w) \/ Version(w) \/ Return(w) \/ Stick(w)
      PROVE  PoolInv'
  <2>1. total
    BY <1>0, <1>4 DEF Begin, Version, Return, Stick, StaysUp, InService
  <2>2. PICK l \in {"version", "cb", "tail", "stuck"} : Goto(w, l)
    BY <1>4 DEF Begin, Version, Return, Stick
  <2>3. pc[w] \notin {"wait", "woken"}
    BY <1>4 DEF Begin, Version, Return, Stick
  <2>4. /\ UNCHANGED <<queues, sleep, quit, timer, socket, monitor, exiting, endless, checked>>
        /\ dest' \subseteq Worker /\ moved' \subseteq Worker
    BY <1>0, <1>4 DEF Begin, Version, Return, Stick, watch, TypeOK
  <2>5. TypeOK'
    BY <1>0, <1>1, <2>2, <2>4 DEF Goto, queues, TypeOK
  <2> QED
    BY <1>0, <1>a, <2>1, <2>2, <2>3, <2>4, <2>5, WorkerKeeps DEF Goto, queues
<1>5. ASSUME NEW w \in Worker, Tail(w)
      PROVE  PoolInv'
  <2>1. PICK l \in {"loop", "lock"} : Goto(w, l)
    BY <1>5 DEF Tail
  <2>2. total
    BY <1>0, <1>5 DEF Tail, StaysUp, InService
  <2>3. /\ ready' <= pushed' + 1 /\ ready' \in 0 .. MaxPush + 1
        /\ more' \in 0 .. MaxMore /\ total' \in BOOLEAN /\ hold' \subseteq Worker
        /\ total # total' => InService = {w}
    <3>1. CASE total' = total
      BY <1>0, <1>5, <3>1 DEF Tail, TypeOK
    <3>2. CASE InService = {w} /\ total' = FALSE /\ more' = more
      <4>1. total' \in BOOLEAN
        BY <3>2, Zenon
      <4> QED
        BY <1>0, <1>5, <3>2, <4>1 DEF Tail, TypeOK
    <3> QED
      BY <1>5, <3>1, <3>2 DEF Tail
  <2>4. /\ pc[w] = "tail"
        /\ UNCHANGED <<pushed, watch, sleep, quit, timer, socket, monitor, exiting>>
    BY <1>5 DEF Tail, watch
  <2>5. TypeOK'
    BY <1>0, <1>1, <2>1, <2>3, <2>4 DEF Goto, watch, TypeOK
  <2> QED
    BY <1>0, <1>a, <2>1, <2>2, <2>3, <2>4, <2>5, WorkerKeeps DEF Goto
<1>6. ASSUME NEW w \in Worker, Lock(w)
      PROVE  PoolInv'
  <2>1. PICK l \in {"loop", "wait"} : Goto(w, l) /\ (quit <=> l = "loop")
    BY <1>0, <1>6 DEF Lock, TypeOK
  <2>2. /\ UNCHANGED <<queues, watch, quit, timer, socket, monitor, exiting>>
        /\ sleep' = sleep + (IF l \in {"wait", "woken"} THEN 1 ELSE 0)
                         - (IF pc[w] \in {"wait", "woken"} THEN 1 ELSE 0)
    BY <1>0, <1>6, <2>1 DEF Lock, watch
  <2>3. TypeOK'
    BY <1>0, <1>1, <2>1, <2>2 DEF Goto, queues, watch, TypeOK
  <2>4. quit => l # "wait"
    BY <1>0, <1>6, <2>1 DEF Lock, Waiting
  <2> QED
    BY <1>0, <2>1, <2>2, <2>3, <2>4, WorkerKeeps DEF Goto, queues
<1>7. ASSUME NEW w \in Worker, Woken(w)
      PROVE  PoolInv'
  <2>1. PICK l \in {"loop"} : Goto(w, l)
    BY <1>0, <1>7 DEF Woken, TypeOK
  <2>2. /\ UNCHANGED <<queues, watch, quit, timer, socket, monitor, exiting>>
        /\ sleep' = sleep + (IF l \in {"wait", "woken"} THEN 1 ELSE 0)
                         - (IF pc[w] \in {"wait", "woken"} THEN 1 ELSE 0)
    BY <1>0, <1>7, <2>1 DEF Woken, watch
  <2>3. TypeOK'
    BY <1>0, <1>1, <2>1, <2>2 DEF Goto, queues, watch, TypeOK
  <2>4. quit => l # "wait"
    BY <1>0, <1>7, <2>1 DEF Woken, Waiting
  <2> QED
    BY <1>0, <2>1, <2>2, <2>3, <2>4, WorkerKeeps DEF Goto, queues
<1>8. ASSUME NEW w \in Worker, Spurious(w)
      PROVE  PoolInv'
  <2>1. PICK l \in {"woken"} : Goto(w, l)
    BY <1>0, <1>8 DEF Spurious, TypeOK
  <2>2. /\ UNCHANGED <<queues, watch, quit, timer, socket, monitor, exiting>>
        /\ sleep' = sleep + (IF l \in {"wait", "woken"} THEN 1 ELSE 0)
                         - (IF pc[w] \in {"wait", "woken"} THEN 1 ELSE 0)
    BY <1>0, <1>8, <2>1 DEF Spurious, watch
  <2>3. TypeOK'
    BY <1>0, <1>1, <2>1, <2>2 DEF Goto, queues, watch, TypeOK
  <2>4. quit => l # "wait"
    BY <1>0, <1>8, <2>1 DEF Spurious, Waiting
  <2> QED
    BY <1>0, <2>1, <2>2, <2>3, <2>4, WorkerKeeps DEF Goto, queues
<1>9. ASSUME UNCHANGED pc, TypeOK', StaysUp', UNCHANGED <<sleep, quit>>,
             ready' <= pushed' + 1, exiting' => ~total', quit' => timer' = "exit"
      PROVE  PoolInv'
  BY <1>0, <1>9 DEF PoolInv, NoSleeperAfterQuit, Waiting, Asleep
<1>10. ASSUME NEW w \in Worker, Send(w)
       PROVE  PoolInv'
  BY <1>0, <1>9, <1>10 DEF Send, watch, TypeOK, StaysUp, InService, PoolInv
<1>11. ASSUME TimerPush \/ SocketEvent
       PROVE  PoolInv'
  BY <1>0, <1>9, <1>11 DEF TimerPush, SocketEvent, watch, TypeOK, StaysUp, InService, PoolInv
<1>12. ASSUME Signal, UNCHANGED <<queues, watch, sleep, quit, timer, exiting>>,
              socket' \in {socket, "poll"}, total \/ socket # "exit"
       PROVE  PoolInv'
  <2>1. CASE UNCHANGED pc
    BY <1>0, <1>9, <1>12, <2>1 DEF queues, watch, TypeOK, StaysUp, InService, PoolInv
  <2>2. ASSUME NEW w \in Waiting, Goto(w, "woken")
        PROVE  PoolInv'
    <3>1. w \in Worker /\ pc[w] = "wait"
      BY <2>2 DEF Waiting
    <3>2. TypeOK'
      BY <1>0, <1>1, <1>12, <2>2, <3>1 DEF TypeOK, queues, watch, Goto
    <3>3. sleep' = Cardinality(Asleep')
      <4>1. w \in Asleep
        BY <3>1 DEF Asleep
      <4>2. Cardinality(Asleep') = Cardinality(Asleep) + 1 - 1
        BY <1>0, <2>2, <3>1, <4>1, SleeperCount DEF Goto
      <4> QED
        BY <4>2, <1>0, <1>12
    <3>4. StaysUp' /\ (quit' => Waiting' = {})
      BY <1>0, <1>12, <2>2, <3>1 DEF StaysUp, InService, Waiting, TypeOK, queues, watch, Goto
    <3> QED
      BY <1>0, <1>12, <3>2, <3>3, <3>4 DEF PoolInv, NoSleeperAfterQuit, Asleep, queues
  <2> QED
    BY <1>12, <2>1, <2>2 DEF Signal
<1>13. ASSUME TimerLoop
       PROVE  PoolInv'
  <2>1. CASE total /\ sleep >= Count - (Count - 1)
    BY <1>0, <1>12, <1>13, <2>1 DEF TimerLoop, wakeup
  <2>2. CASE total /\ ~(sleep >= Count - (Count - 1))
    BY <1>0, <1>9, <1>13, <2>2 DEF TimerLoop, wakeup, queues, watch, TypeOK, StaysUp,
       InService, PoolInv
  <2>3. CASE ~total
    BY <1>0, <1>9, <1>13, <2>3 DEF TimerLoop, queues, watch, TypeOK, StaysUp, InService, PoolInv
  <2> QED
    BY <1>0, <2>1, <2>2, <2>3 DEF TypeOK
<1>14. ASSUME SocketWakeup
       PROVE  PoolInv'
  <2>1. CASE sleep >= Count - 0
    BY <1>0, <1>12, <1>14, <2>1 DEF SocketWakeup, wakeup
  <2>2. CASE ~(sleep >= Count - 0)
    BY <1>0, <1>9, <1>14, <2>2 DEF SocketWakeup, wakeup, queues, watch, TypeOK, StaysUp,
       InService, PoolInv
  <2> QED
    BY <2>1, <2>2
<1>15. ASSUME TimerSocketExit \/ SocketMore \/ SocketExit \/ MonitorRound
       PROVE  PoolInv'
  BY <1>0, <1>9, <1>15 DEF TimerSocketExit, SocketMore, SocketExit, MonitorRound, queues,
     watch, TypeOK, StaysUp, InService, PoolInv
<1>16. ASSUME NEW w \in Worker, Check(w)
       PROVE  PoolInv'
  BY <1>0, <1>9, <1>16 DEF Check, queues, watch, TypeOK, StaysUp, InService, PoolInv
<1>17. ASSUME TimerQuit
       PROVE  PoolInv'
  <2>1. pc' = [w \in Worker |-> IF pc[w] = "wait" THEN "woken" ELSE pc[w]]
    BY <1>17 DEF TimerQuit
  <2>2. Asleep' = Asleep /\ Waiting' = {} /\ InService' = InService
    BY <2>1, <1>0 DEF Asleep, Waiting, InService, TypeOK
  <2>3. ~total
    BY <1>0, <1>17 DEF TimerQuit, StaysUp
  <2>4. TypeOK'
    BY <1>0, <1>17, <2>1 DEF TimerQuit, TypeOK, queues, watch
  <2> QED
    BY <1>0, <1>17, <2>2, <2>3, <2>4 DEF TimerQuit, PoolInv, NoSleeperAfterQuit, StaysUp,
       Asleep, queues, watch
<1>18. CASE UNCHANGED vars
  BY <1>0, <1>9, <1>18 DEF vars, queues, watch, TypeOK, StaysUp, InService, PoolInv
<1> QED
  BY <1>2, <1>3, <1>4, <1>5, <1>6, <1>7, <1>8, <1>10, <1>11, <1>13, <1>14, <1>15, <1>16,
     <1>17, <1>18 DEF Next, WorkerStep, Timer, Socket, Monitor

\* The pool invariant holds in every reachable state.
THEOREM PoolSafe == Spec => []PoolInv
  BY PoolInit, PoolNext, PTL DEF Spec

\* m->sleep is exact, and once quit is set no worker is left in pthread_cond_wait:
\* the single broadcast of the timer thread misses nobody.
THEOREM BroadcastReachesAll == Spec => []NoSleeperAfterQuit
<1>1. PoolInv => NoSleeperAfterQuit
  BY DEF PoolInv
<1> QED
  BY <1>1, PoolSafe, PTL

\* While a service is alive no thread ends; once none is, no worker is in a callback.
THEOREM NodeStaysUp == Spec => []StaysUp
<1>1. PoolInv => StaysUp
  BY DEF PoolInv
<1> QED
  BY <1>1, PoolSafe, PTL
==============================================================================
