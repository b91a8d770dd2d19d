------------------------ MODULE MessageDispatch_proofs ------------------------
(***************************************************************************)
(* The safety of MessageDispatch, for every set of services and threads    *)
(* and every dispatch weight.  The inductive invariant Inv joins           *)
(*   Shape, ControlOK   types, and what a thread has in hand where         *)
(*   RefSum             ctx->ref counts the references that exist          *)
(*   RefsAlive, LifeOK  a referenced context is alive, one thread deletes, *)
(*                      the queue outlives its context                     *)
(*   OwnerOK, FlagOK    a queue has one owner, and in_global says whether  *)
(* The parts lean on each other: the count of references shows that the    *)
(* thread that deletes a context is alone, that shows a queue is marked    *)
(* once, and only then is the push of mark_release sound.                  *)
(***************************************************************************)
EXTENDS MessageDispatch, FiniteSetTheorems, TLAPS

-----------------------------------------------------------------------------
(* Types and control: every step keeps the types of the variables (Shape)   *)
(* and the link between the program counter of a thread and what the thread *)
(* has in hand (ControlOK).  Neither is inductive alone: a push to tgt[t]   *)
(* has the right type because a thread at "push" has a target.  A step is   *)
(* taken by one thread and leaves the locals of the others alone.           *)

\* The control state of a thread.
Locals(u) == <<pc[u], back[u], held[u], nq[u], cur[u], tgt[u], dead[u], victim[u],
               new[u], own[u]>>

\* No message in hand is a message, for the type of msg and out.
LEMMA NoMsgType == NoMsg \in Message
  BY ConstantsAssumption DEF NoMsg, Message

\* The operations on the global queue and on the rings keep sequences.
LEMMA SeqFacts ==
  ASSUME NEW S, NEW s \in Seq(S)
  PROVE  /\ s # << >> => Head(s) \in S /\ Tail(s) \in Seq(S)
         /\ \A x \in S : Append(s, x) \in Seq(S)
         /\ Len(s) \in Nat
  OBVIOUS

\* ControlOK read at the points where the dispatch loop uses what it holds.
LEMMA Hands ==
  ASSUME Shape, ControlOK, NEW t \in Thread
  PROVE  /\ pc[t] \in {"push", "release"} => tgt[t] \in Service
         /\ pc[t] \notin {"push", "release"} => tgt[t] = None
         /\ pc[t] = "delete" => dead[t] \in Service
         /\ pc[t] \in {"grab", "mqpop", "length", "cb", "tail", "requeue"} =>
              held[t] \in Service /\ new[t] = None /\ own[t] = None
         /\ pc[t] = "grab" => cur[t] = None
         /\ pc[t] \in {"mqpop", "length", "cb", "tail", "requeue"} => cur[t] = held[t]
         /\ pc[t] = "pop" => held[t] = None /\ new[t] = None
         /\ pc[t] = "requeue" => nq[t] \in Service
         /\ pc[t] \notin {"push", "release", "delete", "requeue"} => nq[t] = None
         /\ pc[t] \in {"mqrelease", "drop", "free"} => Mine(t) \in Service
         /\ pc[t] \in {"init", "launched", "handover"} => new[t] \in Service
         /\ pc[t] = "init" => own[t] = new[t]
         /\ pc[t] \in {"init", "launched", "handover", "retire"} =>
              held[t] \in Service /\ cur[t] = held[t]
         /\ pc[t] = "retire" => victim[t] \in Service
         /\ pc[t] = "length" => Divisor[t] \in Nat \ {0}
  BY ConstantsAssumption DEF Shape, LoopOK, CallOK, ControlOK, ControlOf, At, Ref, Mine,
       Labels, Thread

\* No action touches the locals of another thread.
LEMMA OthersUnchanged ==
  ASSUME Shape, NEW t \in Thread, NEW d \in Service,
         Step(t) \/ Send(t, d) \/ Kill(t, d) \/ Launch(t, d),
         NEW u \in Thread, u # t
  PROVE  Locals(u)' = Locals(u)
<1>1. ASSUME Push(t)
      PROVE  Locals(u)' = Locals(u)
  BY <1>1 DEF Push, Locals, Goto, Shape, LoopOK, CallOK, loop
<1>2. ASSUME Release(t)
      PROVE  Locals(u)' = Locals(u)
  BY <1>2 DEF Release, Locals, Goto, Shape, LoopOK, CallOK, loop
<1>3. ASSUME Delete(t)
      PROVE  Locals(u)' = Locals(u)
  BY <1>3 DEF Delete, Locals, Goto, Shape, LoopOK, CallOK, loop
<1>4. ASSUME Pop(t)
      PROVE  Locals(u)' = Locals(u)
  BY <1>4 DEF Pop, Locals, Goto, Shape, LoopOK, CallOK, call
<1>5. ASSUME Grab(t)
      PROVE  Locals(u)' = Locals(u)
  BY <1>5 DEF Grab, Locals, Goto, Shape, LoopOK, CallOK, call
<1>6. ASSUME MqPop(t)
      PROVE  Locals(u)' = Locals(u)
  BY <1>6 DEF MqPop, Locals, Goto, ReleaseThen, Shape, LoopOK, CallOK
<1>7. ASSUME Length(t)
      PROVE  Locals(u)' = Locals(u)
  BY <1>7 DEF Length, Locals, Goto, Shape, LoopOK, CallOK, call
<1>8. ASSUME CbReturn(t)
      PROVE  Locals(u)' = Locals(u)
  BY <1>8 DEF CbReturn, Locals, Goto, Shape, LoopOK, CallOK, call
<1>9. ASSUME TailPop(t)
      PROVE  Locals(u)' = Locals(u)
  BY <1>9 DEF TailPop, Locals, Goto, ReleaseThen, Shape, LoopOK, CallOK
<1>10. ASSUME Requeue(t)
      PROVE  Locals(u)' = Locals(u)
  BY <1>10 DEF Requeue, Locals, Goto, ReleaseThen, Shape, LoopOK, CallOK
<1>11. ASSUME MqRelease(t)
      PROVE  Locals(u)' = Locals(u)
  BY <1>11 DEF MqRelease, Locals, Goto, LetGo, Shape, LoopOK, CallOK, loop, call
<1>12. ASSUME Drop(t)
      PROVE  Locals(u)' = Locals(u)
  BY <1>12 DEF Drop, Locals, Goto, GrabTo, Shape, LoopOK, CallOK, loop
<1>13. ASSUME DropEnd(t)
      PROVE  Locals(u)' = Locals(u)
  BY <1>13 DEF DropEnd, Locals, Goto, Shape, LoopOK, CallOK, loop, call
<1>14. ASSUME Free(t)
      PROVE  Locals(u)' = Locals(u)
  BY <1>14 DEF Free, Locals, Goto, LetGo, Shape, LoopOK, CallOK
<1>15. ASSUME Retire(t)
      PROVE  Locals(u)' = Locals(u)
  BY <1>15 DEF Retire, Locals, Goto, ReleaseThen, Shape, LoopOK, CallOK, loop
<1>16. ASSUME InitOk(t)
      PROVE  Locals(u)' = Locals(u)
  BY <1>16 DEF InitOk, Locals, Goto, ReleaseThen, Shape, LoopOK, CallOK, loop
<1>17. ASSUME InitFail(t)
      PROVE  Locals(u)' = Locals(u)
  BY <1>17 DEF InitFail, Locals, Goto, ReleaseThen, Shape, LoopOK, CallOK, loop
<1>18. ASSUME Launched(t)
      PROVE  Locals(u)' = Locals(u)
  BY <1>18 DEF Launched, Locals, Goto, Shape, LoopOK, CallOK, loop, call
<1>19. ASSUME Handover(t)
      PROVE  Locals(u)' = Locals(u)
  BY <1>19 DEF Handover, Locals, Goto, Shape, LoopOK, CallOK, loop
<1>20. ASSUME Send(t, d)
      PROVE  Locals(u)' = Locals(u)
  BY <1>20 DEF Send, Locals, Goto, GrabTo, Shape, LoopOK, CallOK, loop
<1>21. ASSUME Kill(t, d)
      PROVE  Locals(u)' = Locals(u)
  BY <1>21 DEF Kill, Locals, Goto, GrabTo, Shape, LoopOK, CallOK, loop
<1>22. ASSUME Launch(t, d)
      PROVE  Locals(u)' = Locals(u)
  BY <1>22 DEF Launch, Locals, Goto, Shape, LoopOK, CallOK, loop
<1> QED
  BY <1>1, <1>2, <1>3, <1>4, <1>5, <1>6, <1>7, <1>8, <1>9, <1>10, <1>11, <1>12,
     <1>13, <1>14, <1>15, <1>16, <1>17, <1>18, <1>19, <1>20, <1>21, <1>22 DEF Step

\* Every action keeps the types and the control invariant.
LEMMA TypeStep ==
  ASSUME Shape, ControlOK, NEW t \in Thread, NEW d \in Service,
         Step(t) \/ Send(t, d) \/ Kill(t, d) \/ Launch(t, d)
  PROVE  Shape' /\ ControlOK'
<1>1. ASSUME StoreOK', QueuesOK', LoopOK', CallOK', ControlOf(t)'
      PROVE  Shape' /\ ControlOK'
  <2>1. ASSUME NEW u \in Thread, u # t
        PROVE  ControlOf(u)'
    <3>1. Locals(u)' = Locals(u)
      BY <2>1, OthersUnchanged
    <3> QED
      BY <3>1 DEF Locals, ControlOK, ControlOf, At
  <2> QED
    BY <1>1, <2>1 DEF Shape, ControlOK
<1>2. ASSUME Push(t)
      PROVE  Shape' /\ ControlOK'
  <2>1. tgt[t] \in Service
    BY <1>2, Hands DEF Push
  <2>2. /\ Append(globalmq, tgt[t]) \in Seq(Service)
        /\ Append(queue[tgt[t]], out[t]) \in Seq(Message)
    BY <2>1, SeqFacts DEF Shape, QueuesOK, CallOK
  <2>3. StoreOK'
    BY <1>2 DEF Push, Shape, StoreOK, store
  <2>4. QueuesOK'
    BY <1>2, <2>1, <2>2 DEF Push, Shape, QueuesOK
  <2>5. LoopOK'
    BY <1>2, ConstantsAssumption, NoMsgType DEF Push, Shape, LoopOK, loop, Ref
  <2>6. CallOK'
    BY <1>2, ConstantsAssumption, NoMsgType DEF Push, Shape, CallOK, LoopOK, StoreOK,
       Goto, Ref, Labels
  <2>7. ControlOf(t)'
    BY <1>2, ConstantsAssumption DEF Push, Shape, CallOK, LoopOK, ControlOK,
       ControlOf, At, Goto, loop, Ref, Labels
  <2> QED
    BY <1>1, <2>3, <2>4, <2>5, <2>6, <2>7
<1>3. ASSUME Release(t)
      PROVE  Shape' /\ ControlOK'
  <2>1. tgt[t] \in Service
    BY <1>3, Hands DEF Release
  <2>2. StoreOK'
    BY <1>3, <2>1 DEF Release, Shape, StoreOK
  <2>3. QueuesOK'
    BY <1>3 DEF Release, Shape, QueuesOK, queues
  <2>4. LoopOK'
    BY <1>3, ConstantsAssumption, NoMsgType DEF Release, Shape, LoopOK, loop, Ref
  <2>5. CallOK'
    BY <1>3, ConstantsAssumption, NoMsgType DEF Release, Shape, CallOK, LoopOK,
       StoreOK, Goto, Ref, Labels
  <2>6. ControlOf(t)'
    BY <1>3, ConstantsAssumption DEF Release, Shape, CallOK, LoopOK, ControlOK,
       ControlOf, At, Goto, loop, Ref, Labels
  <2> QED
    BY <1>1, <2>2, <2>3, <2>4, <2>5, <2>6
<1>4. ASSUME Delete(t)
      PROVE  Shape' /\ ControlOK'
  <2>1. dead[t] \in Service
    BY <1>4, Hands DEF Delete
  <2>2. Append(globalmq, dead[t]) \in Seq(Service)
    BY <2>1, SeqFacts DEF Shape, QueuesOK
  <2>3. StoreOK'
    BY <1>4, <2>1 DEF Delete, Shape, StoreOK
  <2>4. QueuesOK'
    BY <1>4, <2>1, <2>2 DEF Delete, Shape, QueuesOK
  <2>5. LoopOK'
    BY <1>4, ConstantsAssumption, NoMsgType DEF Delete, Shape, LoopOK, loop, Ref
  <2>6. CallOK'
    BY <1>4, ConstantsAssumption, NoMsgType DEF Delete, Shape, CallOK, LoopOK,
       StoreOK, Goto, Ref, Labels
  <2>7. ControlOf(t)'
    BY <1>4, ConstantsAssumption DEF Delete, Shape, CallOK, LoopOK, ControlOK,
       ControlOf, At, Goto, loop, Ref, Labels
  <2> QED
    BY <1>1, <2>3, <2>4, <2>5, <2>6, <2>7
<1>5. ASSUME Pop(t)
      PROVE  Shape' /\ ControlOK'
  <2>1. Head(globalmq) \in Service /\ Tail(globalmq) \in Seq(Service)
    BY <1>5, SeqFacts DEF Pop, Shape, QueuesOK
  <2>2. StoreOK'
    BY <1>5 DEF Pop, Shape, StoreOK, store
  <2>3. QueuesOK'
    BY <1>5, <2>1 DEF Pop, Shape, QueuesOK
  <2>4. LoopOK'
    BY <1>5, <2>1, ConstantsAssumption, NoMsgType DEF Pop, Shape, LoopOK, Ref
  <2>5. CallOK'
    BY <1>5, ConstantsAssumption, NoMsgType DEF Pop, Shape, CallOK, LoopOK, StoreOK,
       Goto, call, Ref, Labels
  <2>6. ControlOf(t)'
    BY <1>5, <2>1, ConstantsAssumption DEF Pop, Shape, CallOK, LoopOK, ControlOK,
       ControlOf, At, Goto, call, Ref, Labels
  <2> QED
    BY <1>1, <2>2, <2>3, <2>4, <2>5, <2>6
<1>6. ASSUME Grab(t)
      PROVE  Shape' /\ ControlOK'
  <2>1. StoreOK'
    BY <1>6 DEF Grab, Shape, StoreOK
  <2>2. QueuesOK'
    BY <1>6 DEF Grab, Shape, QueuesOK, queues
  <2>3. LoopOK'
    BY <1>6, ConstantsAssumption, NoMsgType DEF Grab, Shape, LoopOK, Ref
  <2>4. CallOK'
    BY <1>6, ConstantsAssumption, NoMsgType DEF Grab, Shape, CallOK, LoopOK, StoreOK,
       Goto, call, Ref, Labels
  <2>5. ControlOf(t)'
    BY <1>6, ConstantsAssumption DEF Grab, Shape, CallOK, LoopOK, ControlOK,
       ControlOf, At, Goto, call, Ref, Labels
  <2> QED
    BY <1>1, <2>1, <2>2, <2>3, <2>4, <2>5
<1>7. ASSUME MqPop(t)
      PROVE  Shape' /\ ControlOK'
  <2>1. /\ held[t] \in Service /\ cur[t] = held[t] /\ new[t] = None /\ own[t] = None
        /\ queue[held[t]] \in Seq(Message)
    BY <1>7, Hands DEF MqPop, Shape, QueuesOK
  <2>2. queue[held[t]] # << >> =>
          Head(queue[held[t]]) \in Message /\ Tail(queue[held[t]]) \in Seq(Message)
    BY <2>1, SeqFacts
  <2>3. StoreOK'
    BY <1>7 DEF MqPop, Shape, StoreOK, store
  <2>4. QueuesOK'
    BY <1>7, <2>1, <2>2 DEF MqPop, Shape, QueuesOK
  <2>5. LoopOK'
    BY <1>7, <2>1, <2>2, ConstantsAssumption, NoMsgType DEF MqPop, Shape, LoopOK, Ref
  <2>6. CallOK'
    BY <1>7, <2>1, ConstantsAssumption, NoMsgType DEF MqPop, Shape, CallOK, LoopOK,
       StoreOK, Goto, ReleaseThen, Ref, Labels
  <2>7. ControlOf(t)'
    <3>1. CASE queue[held[t]] = << >>
      BY <1>7, <2>1, <3>1, ConstantsAssumption DEF MqPop, Shape, CallOK, LoopOK,
         ControlOK, ControlOf, At, Goto, ReleaseThen, Ref, Labels
    <3>2. CASE queue[held[t]] # << >>
      BY <1>7, <2>1, <3>2, ConstantsAssumption DEF MqPop, Shape, CallOK, LoopOK,
         ControlOK, ControlOf, At, Goto, Labels
    <3> QED
      BY <3>1, <3>2
  <2> QED
    BY <1>1, <2>3, <2>4, <2>5, <2>6, <2>7
<1>8. ASSUME Length(t)
      PROVE  Shape' /\ ControlOK'
  <2>1. Len(queue[held[t]]) \div Divisor[t] \in Nat
    <3>1. held[t] \in Service /\ Divisor[t] \in Nat \ {0}
      BY <1>8, Hands DEF Length
    <3>2. Len(queue[held[t]]) \in Nat
      BY <3>1, SeqFacts DEF Shape, QueuesOK
    <3> QED
      BY <3>1, <3>2
  <2>2. StoreOK'
    BY <1>8 DEF Length, Shape, StoreOK, store
  <2>3. QueuesOK'
    BY <1>8 DEF Length, Shape, QueuesOK, queues
  <2>4. LoopOK'
    BY <1>8, <2>1, ConstantsAssumption, NoMsgType DEF Length, Shape, LoopOK, Ref
  <2>5. CallOK'
    BY <1>8, ConstantsAssumption, NoMsgType DEF Length, Shape, CallOK, LoopOK,
       StoreOK, Goto, call, Ref, Labels
  <2>6. ControlOf(t)'
    BY <1>8, ConstantsAssumption DEF Length, Shape, CallOK, LoopOK, ControlOK,
       ControlOf, At, Goto, call, Ref, Labels
  <2> QED
    BY <1>1, <2>2, <2>3, <2>4, <2>5, <2>6
<1>9. ASSUME CbReturn(t)
      PROVE  Shape' /\ ControlOK'
  <2>1. StoreOK'
    BY <1>9 DEF CbReturn, Shape, StoreOK, store
  <2>2. QueuesOK'
    BY <1>9 DEF CbReturn, Shape, QueuesOK, queues
  <2>3. LoopOK'
    BY <1>9, ConstantsAssumption, NoMsgType DEF CbReturn, Shape, LoopOK, Ref
  <2>4. CallOK'
    BY <1>9, ConstantsAssumption, NoMsgType DEF CbReturn, Shape, CallOK, LoopOK,
       StoreOK, Goto, call, Ref, Labels
  <2>5. ControlOf(t)'
    BY <1>9, ConstantsAssumption DEF CbReturn, Shape, CallOK, LoopOK, ControlOK,
       ControlOf, At, Goto, call, Ref, Labels
  <2> QED
    BY <1>1, <2>1, <2>2, <2>3, <2>4, <2>5
<1>10. ASSUME TailPop(t)
      PROVE  Shape' /\ ControlOK'
  <2>1. held[t] \in Service /\ cur[t] = held[t] /\ new[t] = None /\ own[t] = None
    BY <1>10, Hands DEF TailPop
  <2>2. globalmq # << >> => Head(globalmq) \in Service /\ Tail(globalmq) \in Seq(Service)
    BY SeqFacts DEF Shape, QueuesOK
  <2>3. StoreOK'
    BY <1>10 DEF TailPop, Shape, StoreOK, store
  <2>4. QueuesOK'
    BY <1>10, <2>2 DEF TailPop, Shape, QueuesOK
  <2>5. LoopOK'
    BY <1>10, <2>2, ConstantsAssumption, NoMsgType DEF TailPop, Shape, LoopOK, Ref
  <2>6. CallOK'
    BY <1>10, <2>1, ConstantsAssumption, NoMsgType DEF TailPop, Shape, CallOK,
       LoopOK, StoreOK, Goto, ReleaseThen, Ref, Labels
  <2>7. ControlOf(t)'
    BY <1>10, <2>1, <2>2, ConstantsAssumption DEF TailPop, Shape, CallOK, LoopOK,
       ControlOK, ControlOf, At, Goto, ReleaseThen, Ref, Labels
  <2> QED
    BY <1>1, <2>3, <2>4, <2>5, <2>6, <2>7
<1>11. ASSUME Requeue(t)
      PROVE  Shape' /\ ControlOK'
  <2>1. held[t] \in Service /\ cur[t] = held[t] /\ nq[t] \in Service
    BY <1>11, Hands DEF Requeue
  <2>2. Append(globalmq, held[t]) \in Seq(Service)
    BY <2>1, SeqFacts DEF Shape, QueuesOK
  <2>3. StoreOK'
    BY <1>11 DEF Requeue, Shape, StoreOK, store
  <2>4. QueuesOK'
    BY <1>11, <2>2 DEF Requeue, Shape, QueuesOK
  <2>5. LoopOK'
    BY <1>11, <2>1, ConstantsAssumption, NoMsgType DEF Requeue, Shape, LoopOK, Ref
  <2>6. CallOK'
    BY <1>11, <2>1, ConstantsAssumption, NoMsgType DEF Requeue, Shape, CallOK,
       LoopOK, StoreOK, Goto, ReleaseThen, Ref, Labels
  <2>7. ControlOf(t)'
    BY <1>11, <2>1, ConstantsAssumption DEF Requeue, Shape, CallOK, LoopOK,
       ControlOK, ControlOf, At, Goto, ReleaseThen, Ref, Labels
  <2> QED
    BY <1>1, <2>3, <2>4, <2>5, <2>6, <2>7
<1>12. ASSUME MqRelease(t)
      PROVE  Shape' /\ ControlOK'
  <2>1. /\ UNCHANGED sent
        /\ \/ Goto(t, "drop") /\ UNCHANGED call
           \/ LetGo(t)
    BY <1>12 DEF MqRelease
  <2>2. Append(globalmq, Mine(t)) \in Seq(Service)
    BY <1>12, Hands, SeqFacts DEF MqRelease, Shape, QueuesOK
  <2>3. StoreOK'
    BY <1>12 DEF MqRelease, Shape, StoreOK, store
  <2>4. QueuesOK'
    BY <1>12, <2>2 DEF MqRelease, Shape, QueuesOK
  <2>5. LoopOK'
    BY <1>12, ConstantsAssumption, NoMsgType DEF MqRelease, Shape, LoopOK, LetGo,
       loop, Ref
  <2>6. CallOK'
    BY <2>1, ConstantsAssumption, NoMsgType DEF Shape, CallOK, LoopOK, StoreOK, Goto,
       LetGo, call, Ref, Labels
  <2>7. ControlOf(t)'
    <3>1. CASE Mine(t) \in release
      BY <1>12, <3>1, ConstantsAssumption DEF MqRelease, Shape, CallOK, LoopOK,
         ControlOK, ControlOf, At, Goto, call, loop, Labels
    <3>2. CASE Mine(t) \notin release
      BY <1>12, <3>2, ConstantsAssumption DEF MqRelease, Shape, CallOK, LoopOK,
         ControlOK, ControlOf, At, Goto, LetGo, Labels
    <3> QED
      BY <3>1, <3>2
  <2> QED
    BY <1>1, <2>3, <2>4, <2>5, <2>6, <2>7
<1>13. ASSUME Drop(t)
      PROVE  Shape' /\ ControlOK'
  <2>1. Mine(t) \in Service /\ queue[Mine(t)] \in Seq(Message)
    BY <1>13, Hands DEF Drop, Shape, QueuesOK
  <2>2. /\ Tail(queue[Mine(t)]) \in Seq(Message)
        /\ [src |-> Mine(t), id |-> 0] \in Message
    <3>1. Tail(queue[Mine(t)]) \in Seq(Message)
      BY <1>13, <2>1, SeqFacts DEF Drop
    <3> QED
      BY <3>1, <2>1, ConstantsAssumption DEF Message
  <2>3. /\ pc[t] = "drop"
        /\ UNCHANGED <<loop, dead, victim, new, own, sent>>
        /\ \/ UNCHANGED <<tgt, out, back, pc>>
           \/ \E s \in Service : GrabTo(t, s, [src |-> Mine(t), id |-> 0], "drop")
    BY <1>13 DEF Drop, Shape, StoreOK
  <2>4. StoreOK'
    BY <1>13 DEF Drop, Shape, StoreOK, GrabTo
  <2>5. QueuesOK'
    BY <1>13, <2>1, <2>2 DEF Drop, Shape, QueuesOK
  <2>6. LoopOK'
    BY <1>13, ConstantsAssumption, NoMsgType DEF Drop, Shape, LoopOK, loop, Ref
  <2>7. CallOK'
    <3>1. CASE UNCHANGED <<tgt, out, back, pc>>
      BY <2>3, <3>1 DEF Shape, CallOK, loop
    <3>2. ASSUME NEW s \in Service, GrabTo(t, s, [src |-> Mine(t), id |-> 0], "drop")
          PROVE  CallOK'
      BY <2>3, <2>2, <3>2 DEF GrabTo, Goto, Shape, CallOK, loop, Ref, Labels
    <3> QED
      BY <2>3, <3>1, <3>2
  <2>8. ControlOf(t)'
    BY <2>3, <2>2, ConstantsAssumption DEF Shape, CallOK, LoopOK, ControlOK,
       ControlOf, At, Goto, GrabTo, Mine, loop, Ref, Labels
  <2> QED
    BY <1>1, <2>4, <2>5, <2>6, <2>7, <2>8
<1>14. ASSUME DropEnd(t)
      PROVE  Shape' /\ ControlOK'
  <2>1. StoreOK'
    BY <1>14 DEF DropEnd, Shape, StoreOK, store
  <2>2. QueuesOK'
    BY <1>14 DEF DropEnd, Shape, QueuesOK
  <2>3. LoopOK'
    BY <1>14, ConstantsAssumption, NoMsgType DEF DropEnd, Shape, LoopOK, loop, Ref
  <2>4. CallOK'
    BY <1>14, ConstantsAssumption, NoMsgType DEF DropEnd, Shape, CallOK, LoopOK,
       StoreOK, Goto, call, Ref, Labels
  <2>5. ControlOf(t)'
    BY <1>14, ConstantsAssumption DEF DropEnd, Shape, CallOK, LoopOK, ControlOK,
       ControlOf, At, Goto, Mine, call, loop, Ref, Labels
  <2> QED
    BY <1>1, <2>1, <2>2, <2>3, <2>4, <2>5
<1>15. ASSUME Free(t)
      PROVE  Shape' /\ ControlOK'
  <2>1. StoreOK'
    BY <1>15, ConstantsAssumption DEF Free, Shape, StoreOK, store
  <2>2. QueuesOK'
    BY <1>15, Hands, ConstantsAssumption DEF Free, Shape, QueuesOK
  <2>3. LoopOK'
    BY <1>15, ConstantsAssumption, NoMsgType DEF Free, Shape, LoopOK, LetGo, Ref
  <2>4. CallOK'
    BY <1>15, ConstantsAssumption, NoMsgType DEF Free, Shape, CallOK, LoopOK,
       StoreOK, Goto, LetGo, Ref, Labels
  <2>5. ControlOf(t)'
    BY <1>15, ConstantsAssumption DEF Free, Shape, CallOK, LoopOK, ControlOK,
       ControlOf, At, Goto, LetGo, Mine, Ref, Labels
  <2> QED
    BY <1>1, <2>1, <2>2, <2>3, <2>4, <2>5
<1>16. ASSUME Retire(t)
      PROVE  Shape' /\ ControlOK'
  <2>1. StoreOK'
    BY <1>16 DEF Retire, Shape, StoreOK
  <2>2. QueuesOK'
    BY <1>16 DEF Retire, Shape, QueuesOK, queues
  <2>3. LoopOK'
    BY <1>16, ConstantsAssumption, NoMsgType DEF Retire, Shape, LoopOK, loop, Ref
  <2>4. CallOK'
    BY <1>16, ConstantsAssumption, NoMsgType DEF Retire, Shape, CallOK, LoopOK,
       StoreOK, Goto, ReleaseThen, Home, Ref, Labels
  <2>5. ControlOf(t)'
    BY <1>16, ConstantsAssumption DEF Retire, Shape, CallOK, LoopOK, ControlOK,
       ControlOf, At, Goto, ReleaseThen, Home, loop, Ref, Labels
  <2> QED
    BY <1>1, <2>1, <2>2, <2>3, <2>4, <2>5
<1>17. ASSUME InitOk(t)
      PROVE  Shape' /\ ControlOK'
  <2>1. StoreOK'
    BY <1>17 DEF InitOk, Shape, StoreOK, store
  <2>2. QueuesOK'
    BY <1>17 DEF InitOk, Shape, QueuesOK, queues
  <2>3. LoopOK'
    BY <1>17, ConstantsAssumption, NoMsgType DEF InitOk, Shape, LoopOK, loop, Ref
  <2>4. CallOK'
    BY <1>17, ConstantsAssumption, NoMsgType DEF InitOk, Shape, CallOK, LoopOK,
       StoreOK, Goto, ReleaseThen, Ref, Labels
  <2>5. ControlOf(t)'
    BY <1>17, ConstantsAssumption DEF InitOk, Shape, CallOK, LoopOK, ControlOK,
       ControlOf, At, Goto, ReleaseThen, loop, Ref, Labels
  <2> QED
    BY <1>1, <2>1, <2>2, <2>3, <2>4, <2>5
<1>18. ASSUME InitFail(t)
      PROVE  Shape' /\ ControlOK'
  <2>1. StoreOK'
    BY <1>18 DEF InitFail, Shape, StoreOK, store
  <2>2. QueuesOK'
    BY <1>18 DEF InitFail, Shape, QueuesOK, queues
  <2>3. LoopOK'
    BY <1>18, ConstantsAssumption, NoMsgType DEF InitFail, Shape, LoopOK, loop, Ref
  <2>4. CallOK'
    BY <1>18, ConstantsAssumption, NoMsgType DEF InitFail, Shape, CallOK, LoopOK,
       StoreOK, Goto, ReleaseThen, Ref, Labels
  <2>5. ControlOf(t)'
    BY <1>18, ConstantsAssumption DEF InitFail, Shape, CallOK, LoopOK, ControlOK,
       ControlOf, At, Goto, ReleaseThen, loop, Ref, Labels
  <2> QED
    BY <1>1, <2>1, <2>2, <2>3, <2>4, <2>5
<1>19. ASSUME Launched(t)
      PROVE  Shape' /\ ControlOK'
  <2>1. new[t] \in Service
    BY <1>19, Hands DEF Launched
  <2>2. StoreOK'
    BY <1>19, <2>1 DEF Launched, Shape, StoreOK
  <2>3. QueuesOK'
    BY <1>19 DEF Launched, Shape, QueuesOK, queues
  <2>4. LoopOK'
    BY <1>19, ConstantsAssumption, NoMsgType DEF Launched, Shape, LoopOK, loop, Ref
  <2>5. CallOK'
    BY <1>19, ConstantsAssumption, NoMsgType DEF Launched, Shape, CallOK, LoopOK,
       StoreOK, Goto, call, Ref, Labels
  <2>6. ControlOf(t)'
    BY <1>19, ConstantsAssumption DEF Launched, Shape, CallOK, LoopOK, ControlOK,
       ControlOf, At, Goto, call, loop, Ref, Labels
  <2> QED
    BY <1>1, <2>2, <2>3, <2>4, <2>5, <2>6
<1>20. ASSUME Handover(t)
      PROVE  Shape' /\ ControlOK'
  <2>1. Append(globalmq, new[t]) \in Seq(Service)
    BY <1>20, Hands, SeqFacts DEF Handover, Shape, QueuesOK
  <2>2. StoreOK'
    BY <1>20 DEF Handover, Shape, StoreOK, store
  <2>3. QueuesOK'
    BY <1>20, <2>1 DEF Handover, Shape, QueuesOK
  <2>4. LoopOK'
    BY <1>20, ConstantsAssumption, NoMsgType DEF Handover, Shape, LoopOK, loop, Ref
  <2>5. CallOK'
    BY <1>20, ConstantsAssumption, NoMsgType DEF Handover, Shape, CallOK, LoopOK,
       StoreOK, Goto, Ref, Labels
  <2>6. ControlOf(t)'
    BY <1>20, ConstantsAssumption DEF Handover, Shape, CallOK, LoopOK, ControlOK,
       ControlOf, At, Goto, loop, Ref, Labels
  <2> QED
    BY <1>1, <2>2, <2>3, <2>4, <2>5, <2>6
<1>21. ASSUME Send(t, d)
      PROVE  Shape' /\ ControlOK'
  <2>1. [src |-> Mine(t), id |-> sent + 1] \in Message /\ sent + 1 \in 0 .. MaxSend
    BY <1>21, ConstantsAssumption DEF Send, Message, Mine, Shape, LoopOK, CallOK, Ref
  <2>2. StoreOK'
    BY <1>21 DEF Send, Shape, StoreOK, GrabTo
  <2>3. QueuesOK'
    BY <1>21 DEF Send, Shape, QueuesOK, queues
  <2>4. LoopOK'
    BY <1>21, ConstantsAssumption, NoMsgType DEF Send, Shape, LoopOK, loop, Ref
  <2>5. CallOK'
    BY <1>21, <2>1, ConstantsAssumption, NoMsgType DEF Send, Shape, CallOK, LoopOK,
       StoreOK, Goto, GrabTo, Ref, Labels
  <2>6. ControlOf(t)'
    BY <1>21, ConstantsAssumption DEF Send, Shape, CallOK, LoopOK, ControlOK,
       ControlOf, At, Goto, GrabTo, Mine, loop, Ref, Labels
  <2> QED
    BY <1>1, <2>2, <2>3, <2>4, <2>5, <2>6
<1>22. ASSUME Kill(t, d)
      PROVE  Shape' /\ ControlOK'
  <2>1. [src |-> d, id |-> 0] \in Message
    BY ConstantsAssumption DEF Message
  <2>2. StoreOK'
    BY <1>22 DEF Kill, Shape, StoreOK, GrabTo
  <2>3. QueuesOK'
    BY <1>22 DEF Kill, Shape, QueuesOK, queues
  <2>4. LoopOK'
    BY <1>22, ConstantsAssumption, NoMsgType DEF Kill, Shape, LoopOK, loop, Ref
  <2>5. CallOK'
    BY <1>22, <2>1, ConstantsAssumption, NoMsgType DEF Kill, Shape, CallOK, LoopOK,
       StoreOK, Goto, GrabTo, Ref, Labels
  <2>6. ControlOf(t)'
    BY <1>22, ConstantsAssumption DEF Kill, Shape, StoreOK, CallOK, LoopOK,
       ControlOK, ControlOf, At, Goto, GrabTo, loop, Ref, Labels
  <2> QED
    BY <1>1, <2>2, <2>3, <2>4, <2>5, <2>6
<1>23. ASSUME Launch(t, d)
      PROVE  Shape' /\ ControlOK'
  <2>1. StoreOK'
    BY <1>23 DEF Launch, Shape, StoreOK
  <2>2. QueuesOK'
    BY <1>23 DEF Launch, Shape, QueuesOK
  <2>3. LoopOK'
    BY <1>23, ConstantsAssumption, NoMsgType DEF Launch, Shape, LoopOK, loop, Ref
  <2>4. CallOK'
    BY <1>23, ConstantsAssumption, NoMsgType DEF Launch, Shape, CallOK, LoopOK,
       StoreOK, Goto, Ref, Labels
  <2>5. ControlOf(t)'
    BY <1>23, ConstantsAssumption DEF Launch, Shape, CallOK, LoopOK, ControlOK,
       ControlOf, At, Goto, loop, Ref, Labels
  <2> QED
    BY <1>1, <2>1, <2>2, <2>3, <2>4, <2>5
<1> QED
  BY <1>2, <1>3, <1>4, <1>5, <1>6, <1>7, <1>8, <1>9, <1>10, <1>11, <1>12, <1>13,
     <1>14, <1>15, <1>16, <1>17, <1>18, <1>19, <1>20, <1>21, <1>22, <1>23 DEF Step

-----------------------------------------------------------------------------
(* Counts of references, lives and owners                                   *)

\* Function update, named so that the counting lemmas can be stated over it.
Upd(f, t, v) == [f EXCEPT ![t] = v]

One(b) == IF b THEN 1 ELSE 0

Elems(g) == {g[k] : k \in DOMAIN g}

Inj(g) == \A j, k \in DOMAIN g : g[j] = g[k] => j = k

\* ctx->ref is the number of references that exist.
RefSum ==
    \A s \in Service :
        ref[s] = One(s \in registered) + Count(cur, s) + Count(tgt, s) + Count(own, s)

\* G_NODE.total is the number of contexts.
TotalOK == total = Cardinality({s \in Service : ctx[s] = "alive"})

\* Whoever has a reference, or is about to delete, has a live context.
RefsAlive ==
    /\ \A s \in registered : ctx[s] = "alive"
    /\ \A u \in Thread :
         /\ cur[u] # None => ctx[cur[u]] = "alive"
         /\ tgt[u] # None => ctx[tgt[u]] = "alive"
         /\ own[u] # None => ctx[own[u]] = "alive"
         /\ dead[u] # None => ctx[dead[u]] = "alive"

Owns(u, s) == s = held[u] \/ s = nq[u] \/ s = new[u]

HasOwner(s) == s \in Elems(globalmq) \/ \E u \in Thread : Owns(u, s)

\* A queue with an owner is alive, and the owner is the only one.
OwnerOK ==
    /\ \A s \in Elems(globalmq) : mq[s] = "alive"
    /\ \A u \in Thread, s \in Service : Owns(u, s) =>
         /\ mq[s] = "alive"
         /\ s \notin Elems(globalmq)
         /\ \A v \in Thread : Owns(v, s) => v = u

Distinct == \A u \in Thread : held[u] # None => held[u] \notin {nq[u], new[u]}

\* in_global says whether a queue has an owner, until the queue is marked.
FlagOK ==
    \A s \in Service : mq[s] = "alive" =>
        /\ s \notin release => (s \in inGlobal <=> HasOwner(s))
        /\ s \in release => HasOwner(s)
        /\ s \notin release /\ queue[s] # << >> => s \in inGlobal

Inv == /\ Shape /\ ControlOK
       /\ RefSum /\ TotalOK /\ RefsAlive /\ LifeOK
       /\ Inj(globalmq) /\ OwnerOK /\ Distinct /\ FlagOK

-----------------------------------------------------------------------------
(* Sequences without repetition, and counting threads                       *)

\* skynet_globalmq_push adds one queue, and keeps the list free of repetitions
\* when the queue was not linked.
LEMMA AppendLemma ==
  ASSUME NEW g \in Seq(Service), NEW x \in Service
  PROVE  /\ Append(g, x) \in Seq(Service)
         /\ Elems(Append(g, x)) = Elems(g) \cup {x}
         /\ Inj(g) /\ x \notin Elems(g) => Inj(Append(g, x))
<1> DEFINE h == Append(g, x)
           l == Len(g)
<1>1. /\ h \in Seq(Service) /\ l \in Nat
      /\ DOMAIN g = 1 .. l /\ DOMAIN h = 1 .. l + 1
      /\ \A k \in 1 .. l : h[k] = g[k]
      /\ h[l + 1] = x
  OBVIOUS
<1> HIDE DEF h, l
<1>2. Elems(h) = Elems(g) \cup {x}
  <2>1. ASSUME NEW k \in 1 .. l + 1
        PROVE  h[k] \in Elems(g) \cup {x}
    <3>1. CASE k \in 1 .. l
      BY <3>1, <1>1 DEF Elems
    <3>2. CASE k = l + 1
      BY <3>2, <1>1
    <3> QED
      BY <3>1, <3>2, <1>1
  <2>2. ASSUME NEW k \in 1 .. l
        PROVE  g[k] \in Elems(h)
    BY <1>1 DEF Elems
  <2>3. x \in Elems(h)
    BY <1>1 DEF Elems
  <2> QED
    BY <2>1, <2>2, <2>3, <1>1 DEF Elems
<1>3. ASSUME Inj(g), x \notin Elems(g), NEW j \in 1 .. l + 1, NEW k \in 1 .. l + 1,
             h[j] = h[k]
      PROVE  j = k
  <2>1. \A m \in 1 .. l : g[m] # x
    BY <1>3, <1>1 DEF Elems
  <2> QED
    BY <2>1, <1>3, <1>1 DEF Inj
<1> QED
  BY <1>1, <1>2, <1>3 DEF h, Inj

\* skynet_globalmq_pop takes one queue out, and what remains does not hold it.
LEMMA TailLemma ==
  ASSUME NEW g \in Seq(Service), g # << >>
  PROVE  /\ Head(g) \in Service
         /\ Tail(g) \in Seq(Service)
         /\ Elems(g) = Elems(Tail(g)) \cup {Head(g)}
         /\ Inj(g) => Inj(Tail(g)) /\ Head(g) \notin Elems(Tail(g))
<1> DEFINE h == Tail(g)
           l == Len(g)
<1>1. /\ h \in Seq(Service) /\ l \in Nat /\ l > 0
      /\ DOMAIN g = 1 .. l /\ DOMAIN h = 1 .. l - 1
      /\ \A k \in 1 .. l - 1 : h[k] = g[k + 1]
      /\ Head(g) = g[1] /\ Head(g) \in Service
  OBVIOUS
<1> HIDE DEF h, l
<1>2. Elems(g) = Elems(h) \cup {Head(g)}
  <2>1. ASSUME NEW k \in 1 .. l
        PROVE  g[k] \in Elems(h) \cup {Head(g)}
    <3>1. CASE k = 1
      BY <3>1, <1>1
    <3>2. CASE k # 1
      <4>1. k - 1 \in 1 .. l - 1 /\ k - 1 + 1 = k
        BY <3>2, <1>1
      <4> QED
        BY <4>1, <1>1 DEF Elems
    <3> QED
      BY <3>1, <3>2
  <2>2. ASSUME NEW k \in 1 .. l - 1
        PROVE  h[k] \in Elems(g)
    <3>1. k + 1 \in 1 .. l
      BY <1>1
    <3> QED
      BY <3>1, <1>1 DEF Elems
  <2>3. Head(g) \in Elems(g)
    <3>1. 1 \in 1 .. l
      BY <1>1
    <3> QED
      BY <3>1, <1>1 DEF Elems
  <2> QED
    BY <2>1, <2>2, <2>3, <1>1 DEF Elems
<1>3. ASSUME Inj(g)
      PROVE  Inj(h) /\ Head(g) \notin Elems(h)
  <2>1. ASSUME NEW j \in 1 .. l - 1, NEW k \in 1 .. l - 1, h[j] = h[k]
        PROVE  j = k
    <3>1. j + 1 \in 1 .. l /\ k + 1 \in 1 .. l /\ g[j + 1] = g[k + 1]
      BY <2>1, <1>1
    <3>2. j + 1 = k + 1
      BY <3>1, <1>1, <1>3 DEF Inj
    <3> QED
      BY <3>2
  <2>2. ASSUME NEW k \in 1 .. l - 1
        PROVE  h[k] # Head(g)
    <3>1. k + 1 \in 1 .. l /\ 1 \in 1 .. l /\ k + 1 # 1
      BY <1>1
    <3> QED
      BY <3>1, <1>1, <1>3 DEF Inj
  <2> QED
    BY <2>1, <2>2, <1>1 DEF Inj, Elems
<1> QED
  BY <1>1, <1>2, <1>3 DEF h

\* The number of threads that hold a reference is a number, zero when none does.
LEMMA CountFinite ==
  ASSUME NEW f, NEW s
  PROVE  /\ IsFiniteSet({u \in Thread : f[u] = s})
         /\ Count(f, s) \in Nat
         /\ Count(f, s) = 0 <=> \A u \in Thread : f[u] # s
<1> DEFINE F == {u \in Thread : f[u] = s}
<1>1. F \subseteq Thread /\ IsFiniteSet(Thread)
  BY ConstantsAssumption
<1>2. IsFiniteSet(F)
  BY <1>1, FS_Subset
<1>3. Cardinality(F) \in Nat /\ (Cardinality(F) = 0 <=> F = {})
  BY <1>2, FS_CardinalityType, FS_EmptySet
<1> QED
  BY <1>2, <1>3 DEF Count

\* One thread changes its reference: the count follows.
LEMMA CountUpdate ==
  ASSUME NEW f \in [Thread -> Ref], NEW t \in Thread, NEW v \in Ref, NEW s \in Service
  PROVE  Count(Upd(f, t, v), s) = Count(f, s) - One(f[t] = s) + One(v = s)
<1> DEFINE F == {u \in Thread : f[u] = s}
           G == {u \in Thread : Upd(f, t, v)[u] = s}
           E == F \ {t}
<1>1. F \subseteq Thread /\ IsFiniteSet(Thread)
  BY ConstantsAssumption
<1>2. IsFiniteSet(F)
  BY <1>1, FS_Subset
<1>3. t \in F <=> f[t] = s
  OBVIOUS
<1>4. G = IF v = s THEN E \cup {t} ELSE E
  BY DEF Upd
<1> HIDE DEF F, G
<1>5. /\ IsFiniteSet(E)
      /\ Cardinality(E) = IF t \in F THEN Cardinality(F) - 1 ELSE Cardinality(F)
  BY <1>2, FS_RemoveElement
<1>6. Cardinality(E \cup {t}) = Cardinality(E) + 1
  <2>1. t \notin E
    OBVIOUS
  <2> HIDE DEF E
  <2> QED
    BY <2>1, <1>5, FS_AddElement
<1> HIDE DEF E
<1>7. Cardinality(F) \in Nat /\ Cardinality(E) \in Nat
  BY <1>2, <1>5, FS_CardinalityType
<1>8. Cardinality(G) = Cardinality(F) - One(f[t] = s) + One(v = s)
  BY <1>3, <1>4, <1>5, <1>6, <1>7 DEF One
<1> QED
  BY <1>8 DEF Count, F, G

\* A context with count zero is out of the table and in no thread's hands.
LEMMA NoneLeft ==
  ASSUME NEW R, NEW f, NEW g, NEW h, NEW x,
         0 = One(x \in R) + Count(f, x) + Count(g, x) + Count(h, x)
  PROVE  x \notin R /\ \A u \in Thread : f[u] # x /\ g[u] # x /\ h[u] # x
<1>1. /\ Count(f, x) \in Nat /\ (Count(f, x) = 0 <=> \A u \in Thread : f[u] # x)
      /\ Count(g, x) \in Nat /\ (Count(g, x) = 0 <=> \A u \in Thread : g[u] # x)
      /\ Count(h, x) \in Nat /\ (Count(h, x) = 0 <=> \A u \in Thread : h[u] # x)
  BY CountFinite
<1>2. CASE x \in R
  BY <1>1, <1>2 DEF One
<1>3. CASE x \notin R
  <2>1. 0 = Count(f, x) + Count(g, x) + Count(h, x)
    BY <1>1, <1>3 DEF One
  <2>2. Count(f, x) = 0 /\ Count(g, x) = 0 /\ Count(h, x) = 0
    BY <1>1, <2>1
  <2> QED
    BY <1>1, <1>3, <2>2
<1> QED
  BY <1>2, <1>3

-----------------------------------------------------------------------------
(* References                                                               *)

\* Thread t now has c, g and o in cur, tgt and own, and ref and the table have
\* changed by as much.
RefMove(t, c, g, o) ==
    /\ c \in Ref /\ g \in Ref /\ o \in Ref
    /\ cur' = Upd(cur, t, c) /\ tgt' = Upd(tgt, t, g) /\ own' = Upd(own, t, o)
    /\ \A s \in Service :
         ref'[s] - One(s \in registered')
             + One(cur[t] = s) + One(tgt[t] = s) + One(own[t] = s)
           = ref[s] - One(s \in registered) + One(c = s) + One(g = s) + One(o = s)

\* A balanced move keeps the count.
LEMMA RefBalance ==
  ASSUME Shape, Shape', RefSum, NEW t \in Thread, NEW c, NEW g, NEW o, RefMove(t, c, g, o)
  PROVE  RefSum'
<1> SUFFICES ASSUME NEW s \in Service
             PROVE  ref'[s] = One(s \in registered') + Count(cur', s) + Count(tgt', s)
                                + Count(own', s)
  BY DEF RefSum, Count
<1>1. /\ Count(cur', s) = Count(cur, s) - One(cur[t] = s) + One(c = s)
      /\ Count(tgt', s) = Count(tgt, s) - One(tgt[t] = s) + One(g = s)
      /\ Count(own', s) = Count(own, s) - One(own[t] = s) + One(o = s)
  <2>1. cur \in [Thread -> Ref] /\ tgt \in [Thread -> Ref] /\ own \in [Thread -> Ref]
    BY DEF Shape, LoopOK, CallOK
  <2>2. Count(Upd(cur, t, c), s) = Count(cur, s) - One(cur[t] = s) + One(c = s)
    BY <2>1, CountUpdate DEF RefMove
  <2>3. Count(Upd(tgt, t, g), s) = Count(tgt, s) - One(tgt[t] = s) + One(g = s)
    BY <2>1, CountUpdate DEF RefMove
  <2>4. Count(Upd(own, t, o), s) = Count(own, s) - One(own[t] = s) + One(o = s)
    BY <2>1, CountUpdate DEF RefMove
  <2> QED
    BY <2>2, <2>3, <2>4 DEF RefMove
<1>2. Count(cur, s) \in Nat /\ Count(tgt, s) \in Nat /\ Count(own, s) \in Nat
  BY CountFinite
<1>3. /\ ref[s] = One(s \in registered) + Count(cur, s) + Count(tgt, s) + Count(own, s)
      /\ ref[s] \in Int /\ ref'[s] \in Int
  BY DEF RefSum, Shape, StoreOK
<1>4. ref'[s] - One(s \in registered')
          + One(cur[t] = s) + One(tgt[t] = s) + One(own[t] = s)
        = ref[s] - One(s \in registered) + One(c = s) + One(g = s) + One(o = s)
  BY DEF RefMove
<1>5. /\ One(s \in registered) \in Int /\ One(s \in registered') \in Int
      /\ One(cur[t] = s) \in Int /\ One(tgt[t] = s) \in Int /\ One(own[t] = s) \in Int
      /\ One(c = s) \in Int /\ One(g = s) \in Int /\ One(o = s) \in Int
  BY DEF One
<1> QED
  BY <1>1, <1>2, <1>3, <1>4, <1>5

\* Every action moves references in a balanced way: what skynet_context_grab
\* adds somebody has in hand, what skynet_context_release takes somebody had.
LEMMA RefStep ==
  ASSUME Shape, ControlOK, Shape', RefSum, RefsAlive, NEW t \in Thread, NEW d \in Service,
         Step(t) \/ Send(t, d) \/ Kill(t, d) \/ Launch(t, d)
  PROVE  RefSum'
<1>1. /\ ref \in [Service -> Int] /\ ref' \in [Service -> Int]
      /\ cur \in [Thread -> Ref] /\ tgt \in [Thread -> Ref] /\ own \in [Thread -> Ref]
      /\ cur[t] \in Ref /\ tgt[t] \in Ref /\ own[t] \in Ref
      /\ registered \subseteq Service /\ None \in Ref /\ Service \subseteq Ref
      /\ None \notin Service
  BY ConstantsAssumption DEF Shape, StoreOK, LoopOK, CallOK, Ref
<1>2. ASSUME UNCHANGED <<registered, ref, cur, tgt, own>>
      PROVE  RefSum'
  BY <1>2 DEF RefSum, Count
<1>3. ASSUME Release(t)
      PROVE  RefSum'
  <2>1. /\ tgt[t] \in Service /\ ref' = [ref EXCEPT ![tgt[t]] = @ - 1]
        /\ registered' = registered
    BY <1>3, <1>1, Hands DEF Release, loop
  <2>2. cur[t] \in Ref /\ None \in Ref /\ own[t] \in Ref
    BY <1>3, <1>1, Hands DEF Release
  <2>3. /\ cur' = Upd(cur, t, cur[t]) /\ tgt' = Upd(tgt, t, None)
        /\ own' = Upd(own, t, own[t])
    BY <1>3, <1>1 DEF Release, loop, Upd
  <2>4. RefMove(t, cur[t], None, own[t])
    BY <1>1, <1>3, <2>1, <2>2, <2>3 DEF RefMove, One
  <2> QED
    BY <2>4, RefBalance
<1>4. ASSUME Grab(t), held[t] \in registered
      PROVE  RefSum'
  <2>1. tgt[t] = None /\ cur[t] = None /\ held[t] \in Service
        /\ ref' = [ref EXCEPT ![held[t]] = @ + 1] /\ registered' = registered
    BY <1>4, <1>1, Hands DEF Grab, call
  <2>2. held[t] \in Ref /\ tgt[t] \in Ref /\ own[t] \in Ref
    BY <1>4, <1>1, Hands DEF Grab
  <2>3. /\ cur' = Upd(cur, t, held[t]) /\ tgt' = Upd(tgt, t, tgt[t])
        /\ own' = Upd(own, t, own[t])
    BY <1>4, <1>1 DEF Grab, call, Upd
  <2>4. RefMove(t, held[t], tgt[t], own[t])
    BY <1>1, <1>4, <2>1, <2>2, <2>3 DEF RefMove, One
  <2> QED
    BY <2>4, RefBalance
<1>5. ASSUME MqPop(t), queue[held[t]] = << >>
      PROVE  RefSum'
  <2>1. tgt[t] = None /\ cur[t] \in Service /\ ref' = ref /\ registered' = registered
    BY <1>5, <1>1, Hands DEF MqPop, ReleaseThen, store
  <2>2. None \in Ref /\ cur[t] \in Ref /\ own[t] \in Ref
    BY <1>5, <1>1, Hands DEF MqPop
  <2>3. /\ cur' = Upd(cur, t, None) /\ tgt' = Upd(tgt, t, cur[t])
        /\ own' = Upd(own, t, own[t])
    BY <1>5, <1>1 DEF MqPop, ReleaseThen, store, Upd
  <2>4. RefMove(t, None, cur[t], own[t])
    BY <1>1, <1>5, <2>1, <2>2, <2>3 DEF RefMove, One
  <2> QED
    BY <2>4, RefBalance
<1>6. ASSUME TailPop(t), globalmq = << >>
      PROVE  RefSum'
  <2>1. tgt[t] = None /\ cur[t] \in Service /\ ref' = ref /\ registered' = registered
    BY <1>6, <1>1, Hands DEF TailPop, ReleaseThen, store
  <2>2. None \in Ref /\ cur[t] \in Ref /\ own[t] \in Ref
    BY <1>6, <1>1, Hands DEF TailPop
  <2>3. /\ cur' = Upd(cur, t, None) /\ tgt' = Upd(tgt, t, cur[t])
        /\ own' = Upd(own, t, own[t])
    BY <1>6, <1>1 DEF TailPop, ReleaseThen, store, Upd
  <2>4. RefMove(t, None, cur[t], own[t])
    BY <1>1, <1>6, <2>1, <2>2, <2>3 DEF RefMove, One
  <2> QED
    BY <2>4, RefBalance
<1>7. ASSUME Requeue(t)
      PROVE  RefSum'
  <2>1. tgt[t] = None /\ cur[t] \in Service /\ ref' = ref /\ registered' = registered
    BY <1>7, <1>1, Hands DEF Requeue, ReleaseThen, store
  <2>2. None \in Ref /\ cur[t] \in Ref /\ own[t] \in Ref
    BY <1>7, <1>1, Hands DEF Requeue
  <2>3. /\ cur' = Upd(cur, t, None) /\ tgt' = Upd(tgt, t, cur[t])
        /\ own' = Upd(own, t, own[t])
    BY <1>7, <1>1 DEF Requeue, ReleaseThen, store, Upd
  <2>4. RefMove(t, None, cur[t], own[t])
    BY <1>1, <1>7, <2>1, <2>2, <2>3 DEF RefMove, One
  <2> QED
    BY <2>4, RefBalance
<1>8. ASSUME Drop(t), Head(queue[Mine(t)]).src \in registered
      PROVE  RefSum'
  <2>1. tgt[t] = None /\ ref' = [ref EXCEPT ![Head(queue[Mine(t)]).src] = @ + 1]
        /\ registered' = registered
    BY <1>8, <1>1, Hands DEF Drop, GrabTo, loop
  <2>2. cur[t] \in Ref /\ Head(queue[Mine(t)]).src \in Ref /\ own[t] \in Ref
    BY <1>8, <1>1, Hands DEF Drop
  <2>3. /\ cur' = Upd(cur, t, cur[t]) /\ tgt' = Upd(tgt, t, Head(queue[Mine(t)]).src)
        /\ own' = Upd(own, t, own[t])
    BY <1>8, <1>1 DEF Drop, GrabTo, loop, Upd
  <2>4. RefMove(t, cur[t], Head(queue[Mine(t)]).src, own[t])
    BY <1>1, <1>8, <2>1, <2>2, <2>3 DEF RefMove, One
  <2> QED
    BY <2>4, RefBalance
<1>9. ASSUME Retire(t), victim[t] \in registered
      PROVE  RefSum'
  <2>1. tgt[t] = None /\ victim[t] \in Service /\ ref' = ref
        /\ registered' = registered \ {victim[t]}
    BY <1>9, <1>1, Hands DEF Retire, ReleaseThen, loop
  <2>2. cur[t] \in Ref /\ victim[t] \in Ref /\ own[t] \in Ref
    BY <1>9, <1>1, Hands DEF Retire
  <2>3. /\ cur' = Upd(cur, t, cur[t]) /\ tgt' = Upd(tgt, t, victim[t])
        /\ own' = Upd(own, t, own[t])
    BY <1>9, <1>1 DEF Retire, ReleaseThen, loop, Upd
  <2>4. RefMove(t, cur[t], victim[t], own[t])
    BY <1>1, <1>9, <2>1, <2>2, <2>3 DEF RefMove, One
  <2> QED
    BY <2>4, RefBalance
<1>10. ASSUME InitOk(t)
       PROVE  RefSum'
  <2>1. tgt[t] = None /\ own[t] = new[t] /\ ref' = ref /\ registered' = registered
    BY <1>10, <1>1, Hands DEF InitOk, ReleaseThen, loop, store
  <2>2. cur[t] \in Ref /\ new[t] \in Ref /\ None \in Ref
    BY <1>10, <1>1, Hands DEF InitOk
  <2>3. /\ cur' = Upd(cur, t, cur[t]) /\ tgt' = Upd(tgt, t, new[t])
        /\ own' = Upd(own, t, None)
    BY <1>10, <1>1 DEF InitOk, ReleaseThen, loop, store, Upd
  <2>4. RefMove(t, cur[t], new[t], None)
    BY <1>1, <1>10, <2>1, <2>2, <2>3 DEF RefMove, One
  <2> QED
    BY <2>4, RefBalance
<1>11. ASSUME InitFail(t)
      PROVE  RefSum'
  <2>1. tgt[t] = None /\ own[t] = new[t] /\ ref' = ref /\ registered' = registered
    BY <1>11, <1>1, Hands DEF InitFail, ReleaseThen, loop, store
  <2>2. cur[t] \in Ref /\ new[t] \in Ref /\ None \in Ref
    BY <1>11, <1>1, Hands DEF InitFail
  <2>3. /\ cur' = Upd(cur, t, cur[t]) /\ tgt' = Upd(tgt, t, new[t])
        /\ own' = Upd(own, t, None)
    BY <1>11, <1>1 DEF InitFail, ReleaseThen, loop, store, Upd
  <2>4. RefMove(t, cur[t], new[t], None)
    BY <1>1, <1>11, <2>1, <2>2, <2>3 DEF RefMove, One
  <2> QED
    BY <2>4, RefBalance
<1>12. ASSUME Send(t, d)
      PROVE  RefSum'
  <2>1. tgt[t] = None /\ ref' = [ref EXCEPT ![d] = @ + 1] /\ registered' = registered
    BY <1>12, <1>1, Hands DEF Send, GrabTo, loop
  <2>2. cur[t] \in Ref /\ d \in Ref /\ own[t] \in Ref
    BY <1>12, <1>1, Hands DEF Send
  <2>3. cur' = Upd(cur, t, cur[t]) /\ tgt' = Upd(tgt, t, d) /\ own' = Upd(own, t, own[t])
    BY <1>12, <1>1 DEF Send, GrabTo, loop, Upd
  <2>4. RefMove(t, cur[t], d, own[t])
    BY <1>1, <1>12, <2>1, <2>2, <2>3 DEF RefMove, One
  <2> QED
    BY <2>4, RefBalance
<1>13. ASSUME Kill(t, d), Monitor \in registered
      PROVE  RefSum'
  <2>1. /\ tgt[t] = None /\ ref' = [ref EXCEPT ![Monitor] = @ + 1]
        /\ registered' = registered
    BY <1>13, <1>1, Hands DEF Kill, GrabTo, loop
  <2>2. cur[t] \in Ref /\ Monitor \in Ref /\ own[t] \in Ref
    BY <1>13, <1>1, Hands DEF Kill
  <2>3. /\ cur' = Upd(cur, t, cur[t]) /\ tgt' = Upd(tgt, t, Monitor)
        /\ own' = Upd(own, t, own[t])
    BY <1>13, <1>1 DEF Kill, GrabTo, loop, Upd
  <2>4. RefMove(t, cur[t], Monitor, own[t])
    BY <1>1, <1>13, <2>1, <2>2, <2>3 DEF RefMove, One
  <2> QED
    BY <2>4, RefBalance
<1>14. ASSUME Launch(t, d)
      PROVE  RefSum'
  <2>1. ref[d] = 0 /\ d \notin registered /\ cur[t] # d
    <3>1. ctx[d] = "absent"
      BY <1>14 DEF Launch
    <3>2. \A u \in Thread : cur[u] # d /\ tgt[u] # d /\ own[u] # d
      BY <3>1, <1>1 DEF RefsAlive
    <3>3. d \notin registered
      BY <3>1 DEF RefsAlive
    <3>4. Count(cur, d) = 0 /\ Count(tgt, d) = 0 /\ Count(own, d) = 0
      BY <3>2, CountFinite
    <3> QED
      BY <3>2, <3>3, <3>4 DEF RefSum, One
  <2>2. own[t] = None /\ ref' = [ref EXCEPT ![d] = 2] /\ registered' = registered \cup {d}
    BY <1>14, <1>1, Hands DEF Launch, loop
  <2>3. cur[t] \in Ref /\ tgt[t] \in Ref /\ d \in Ref
    BY <1>14, <1>1, Hands DEF Launch
  <2>4. cur' = Upd(cur, t, cur[t]) /\ tgt' = Upd(tgt, t, tgt[t]) /\ own' = Upd(own, t, d)
    BY <1>14, <1>1 DEF Launch, loop, Upd
  <2>5. RefMove(t, cur[t], tgt[t], d)
    BY <1>1, <1>14, <2>2, <2>3, <2>4, <2>1 DEF RefMove, One
  <2> QED
    BY <2>5, RefBalance
<1>15. CASE \/ Push(t) \/ Delete(t) \/ Pop(t) \/ Length(t) \/ CbReturn(t)
            \/ MqRelease(t) \/ DropEnd(t) \/ Free(t) \/ Launched(t) \/ Handover(t)
            \/ Grab(t) /\ held[t] \notin registered
            \/ MqPop(t) /\ queue[held[t]] # << >>
            \/ TailPop(t) /\ globalmq # << >>
            \/ Drop(t) /\ Head(queue[Mine(t)]).src \notin registered
            \/ Retire(t) /\ victim[t] \notin registered
            \/ Kill(t, d) /\ Monitor \notin registered
  BY <1>15, <1>2 DEF Push, Delete, Pop, Length, CbReturn, MqRelease, DropEnd, Free,
     Launched, Handover, Grab, MqPop, TailPop, Drop, Retire, Kill, LetGo, store,
     loop, call
<1> QED
  BY <1>3, <1>4, <1>5, <1>6, <1>7, <1>8, <1>9, <1>10, <1>11, <1>12, <1>13, <1>14,
     <1>15 DEF Step

-----------------------------------------------------------------------------
(* The life of contexts and queues                                          *)

\* Every action keeps references to live contexts only, one deleter per context,
\* and a queue as long as its context.
LEMMA LifeStep ==
  ASSUME Shape, ControlOK, Shape', ControlOK', RefSum, RefSum', RefsAlive, LifeOK,
         NEW t \in Thread, NEW d \in Service,
         Step(t) \/ Send(t, d) \/ Kill(t, d) \/ Launch(t, d),
         \A u \in Thread : u # t => Locals(u)' = Locals(u)
  PROVE  RefsAlive' /\ LifeOK'
<1>1. ASSUME UNCHANGED <<ctx, mq, release>>
      PROVE  QueueOutlives'
  BY <1>1 DEF LifeOK, QueueOutlives
<1>2. ASSUME Push(t)
      PROVE  RefsAlive' /\ LifeOK'
  <2>1. RefsAlive'
    BY <1>2, Hands, ConstantsAssumption DEF Push, RefsAlive, LifeOK, OneDeleter,
       Locals, Shape, StoreOK, LoopOK, CallOK, Ref, store, loop
  <2>2. QueueOutlives'
    BY <1>2, <1>1 DEF Push, store
  <2>3. OneDeleter'
    BY <1>2, Hands, ConstantsAssumption DEF Push, RefsAlive, LifeOK, OneDeleter,
       Locals, Shape, StoreOK, LoopOK, CallOK, Ref, store, loop
  <2>4. OnlyMarkedDropped'
    BY <1>2, Hands, ConstantsAssumption DEF Push, LifeOK, OnlyMarkedDropped,
       ControlOK, ControlOf, At, Mine, Locals, Shape, LoopOK, CallOK, Goto, store,
       loop
  <2> QED
    BY <2>1, <2>2, <2>3, <2>4 DEF LifeOK
<1>3. ASSUME Release(t)
      PROVE  RefsAlive' /\ LifeOK'
  <2>1. RefsAlive'
    BY <1>3, Hands, ConstantsAssumption DEF Release, RefsAlive, LifeOK, OneDeleter,
       Locals, Shape, StoreOK, LoopOK, CallOK, Ref, loop
  <2>2. QueueOutlives'
    BY <1>3, <1>1 DEF Release, queues
  <2>3. OneDeleter'
    <3>1. /\ tgt[t] \in Service /\ registered' = registered
          /\ tgt' = [tgt EXCEPT ![t] = None] /\ cur' = cur /\ own' = own
          /\ ref' = [ref EXCEPT ![tgt[t]] = @ - 1] /\ dead[t] = None
      BY <1>3, Hands DEF Release, loop, ControlOK, ControlOf
    <3>2. CASE ref[tgt[t]] # 1
      <4>1. dead' = dead
        BY <1>3, <3>2 DEF Release
      <4> QED
        BY <3>1, <4>1, ConstantsAssumption DEF LifeOK, OneDeleter, Shape, CallOK, Ref
    <3>3. CASE ref[tgt[t]] = 1
      <4> DEFINE x == tgt[t]
      <4>1. dead' = [dead EXCEPT ![t] = x] /\ x \in Service
        BY <1>3, <3>1, <3>3 DEF Release
      <4>2. ref'[x] = 0
        BY <3>1, <3>3 DEF Shape, StoreOK
      <4> HIDE DEF x
      <4>3. ref'[x] = One(x \in registered') + Count(cur', x) + Count(tgt', x)
                        + Count(own', x)
        BY <4>1 DEF RefSum, Count
      <4>4. /\ x \notin registered'
            /\ \A u \in Thread : cur'[u] # x /\ tgt'[u] # x /\ own'[u] # x
        BY <4>2, <4>3, NoneLeft
      <4>5. \A u \in Thread : dead[u] # x
        BY <4>1, ConstantsAssumption DEF LifeOK, OneDeleter, x
      <4> QED
        BY <3>1, <4>1, <4>4, <4>5, ConstantsAssumption DEF LifeOK, OneDeleter, Shape,
           CallOK, Ref
    <3> QED
      BY <3>2, <3>3
  <2>4. OnlyMarkedDropped'
    BY <1>3, Hands, ConstantsAssumption DEF Release, LifeOK, OnlyMarkedDropped,
       ControlOK, ControlOf, At, Mine, Locals, Shape, LoopOK, CallOK, Goto, loop,
       queues
  <2> QED
    BY <2>1, <2>2, <2>3, <2>4 DEF LifeOK
<1>4. ASSUME Delete(t)
      PROVE  RefsAlive' /\ LifeOK'
  <2>1. RefsAlive'
    BY <1>4, Hands, ConstantsAssumption DEF Delete, RefsAlive, LifeOK, OneDeleter,
       Locals, Shape, StoreOK, LoopOK, CallOK, Ref, loop
  <2>2. QueueOutlives'
    BY <1>4, Hands, ConstantsAssumption DEF Delete, QueueOutlives, OnlyMarkedDropped,
       At, LifeOK, RefsAlive, Shape, StoreOK, QueuesOK
  <2>3. OneDeleter'
    BY <1>4, Hands, ConstantsAssumption DEF Delete, RefsAlive, LifeOK, OneDeleter,
       Locals, Shape, StoreOK, LoopOK, CallOK, Ref, loop
  <2>4. OnlyMarkedDropped'
    BY <1>4, Hands, ConstantsAssumption DEF Delete, LifeOK, OnlyMarkedDropped,
       ControlOK, ControlOf, At, Mine, Locals, Shape, LoopOK, CallOK, Goto, loop
  <2> QED
    BY <2>1, <2>2, <2>3, <2>4 DEF LifeOK
<1>5. ASSUME Pop(t)
      PROVE  RefsAlive' /\ LifeOK'
  <2>1. RefsAlive'
    BY <1>5, Hands, ConstantsAssumption DEF Pop, RefsAlive, LifeOK, OneDeleter,
       Locals, Shape, StoreOK, LoopOK, CallOK, Ref, store, call
  <2>2. QueueOutlives'
    BY <1>5, <1>1 DEF Pop, store
  <2>3. OneDeleter'
    BY <1>5, Hands, ConstantsAssumption DEF Pop, RefsAlive, LifeOK, OneDeleter,
       Locals, Shape, StoreOK, LoopOK, CallOK, Ref, store, call
  <2>4. OnlyMarkedDropped'
    BY <1>5, Hands, ConstantsAssumption DEF Pop, LifeOK, OnlyMarkedDropped,
       ControlOK, ControlOf, At, Mine, Locals, Shape, LoopOK, CallOK, Goto, store,
       call
  <2> QED
    BY <2>1, <2>2, <2>3, <2>4 DEF LifeOK
<1>6. ASSUME Grab(t)
      PROVE  RefsAlive' /\ LifeOK'
  <2>1. RefsAlive'
    BY <1>6, Hands, ConstantsAssumption DEF Grab, RefsAlive, LifeOK, OneDeleter,
       Locals, Shape, StoreOK, LoopOK, CallOK, Ref, call
  <2>2. QueueOutlives'
    BY <1>6, <1>1 DEF Grab, queues
  <2>3. OneDeleter'
    BY <1>6, Hands, ConstantsAssumption DEF Grab, RefsAlive, LifeOK, OneDeleter,
       Locals, Shape, StoreOK, LoopOK, CallOK, Ref, call
  <2>4. OnlyMarkedDropped'
    BY <1>6, Hands, ConstantsAssumption DEF Grab, LifeOK, OnlyMarkedDropped,
       ControlOK, ControlOf, At, Mine, Locals, Shape, LoopOK, CallOK, Goto, call,
       queues
  <2> QED
    BY <2>1, <2>2, <2>3, <2>4 DEF LifeOK
<1>7. ASSUME MqPop(t)
      PROVE  RefsAlive' /\ LifeOK'
  <2>1. RefsAlive'
    <3>1. UNCHANGED <<registered, ctx, dead, own>>
      BY <1>7 DEF MqPop, store
    <3>2. \A u \in Thread : /\ cur'[u] = cur[u] \/ cur'[u] = None
                          /\ \/ tgt'[u] = tgt[u] \/ tgt'[u] = cur[u]
                             \/ tgt'[u] \in registered
      BY <1>7 DEF MqPop, ReleaseThen, Shape, LoopOK, CallOK
    <3> QED
      BY <3>1, <3>2 DEF RefsAlive
  <2>2. QueueOutlives'
    BY <1>7, <1>1 DEF MqPop, store
  <2>3. OneDeleter'
    BY <1>7, Hands, ConstantsAssumption DEF MqPop, RefsAlive, LifeOK, OneDeleter,
       Locals, Shape, StoreOK, LoopOK, CallOK, Ref, ReleaseThen, store
  <2>4. OnlyMarkedDropped'
    BY <1>7, Hands, ConstantsAssumption DEF MqPop, LifeOK, OnlyMarkedDropped,
       ControlOK, ControlOf, At, Mine, Locals, Shape, LoopOK, CallOK, Goto,
       ReleaseThen, store
  <2> QED
    BY <2>1, <2>2, <2>3, <2>4 DEF LifeOK
<1>8. ASSUME Length(t)
      PROVE  RefsAlive' /\ LifeOK'
  <2>1. RefsAlive'
    BY <1>8, Hands, ConstantsAssumption DEF Length, RefsAlive, LifeOK, OneDeleter,
       Locals, Shape, StoreOK, LoopOK, CallOK, Ref, store, call
  <2>2. QueueOutlives'
    BY <1>8, <1>1 DEF Length, store, queues
  <2>3. OneDeleter'
    BY <1>8, Hands, ConstantsAssumption DEF Length, RefsAlive, LifeOK, OneDeleter,
       Locals, Shape, StoreOK, LoopOK, CallOK, Ref, store, call
  <2>4. OnlyMarkedDropped'
    BY <1>8, Hands, ConstantsAssumption DEF Length, LifeOK, OnlyMarkedDropped,
       ControlOK, ControlOf, At, Mine, Locals, Shape, LoopOK, CallOK, Goto, store,
       call, queues
  <2> QED
    BY <2>1, <2>2, <2>3, <2>4 DEF LifeOK
<1>9. ASSUME CbReturn(t)
      PROVE  RefsAlive' /\ LifeOK'
  <2>1. RefsAlive'
    BY <1>9, Hands, ConstantsAssumption DEF CbReturn, RefsAlive, LifeOK, OneDeleter,
       Locals, Shape, StoreOK, LoopOK, CallOK, Ref, store, call
  <2>2. QueueOutlives'
    BY <1>9, <1>1 DEF CbReturn, store, queues
  <2>3. OneDeleter'
    BY <1>9, Hands, ConstantsAssumption DEF CbReturn, RefsAlive, LifeOK, OneDeleter,
       Locals, Shape, StoreOK, LoopOK, CallOK, Ref, store, call
  <2>4. OnlyMarkedDropped'
    BY <1>9, Hands, ConstantsAssumption DEF CbReturn, LifeOK, OnlyMarkedDropped,
       ControlOK, ControlOf, At, Mine, Locals, Shape, LoopOK, CallOK, Goto, store,
       call, queues
  <2> QED
    BY <2>1, <2>2, <2>3, <2>4 DEF LifeOK
<1>10. ASSUME TailPop(t)
       PROVE  RefsAlive' /\ LifeOK'
  <2>1. RefsAlive'
    <3>1. UNCHANGED <<registered, ctx, dead, own>>
      BY <1>10 DEF TailPop, store
    <3>2. \A u \in Thread : /\ cur'[u] = cur[u] \/ cur'[u] = None
                          /\ \/ tgt'[u] = tgt[u] \/ tgt'[u] = cur[u]
                             \/ tgt'[u] \in registered
      BY <1>10 DEF TailPop, ReleaseThen, Shape, LoopOK, CallOK
    <3> QED
      BY <3>1, <3>2 DEF RefsAlive
  <2>2. QueueOutlives'
    BY <1>10, <1>1 DEF TailPop, store
  <2>3. OneDeleter'
    BY <1>10, Hands, ConstantsAssumption DEF TailPop, RefsAlive, LifeOK, OneDeleter,
       Locals, Shape, StoreOK, LoopOK, CallOK, Ref, ReleaseThen, store
  <2>4. OnlyMarkedDropped'
    BY <1>10, Hands, ConstantsAssumption DEF TailPop, LifeOK, OnlyMarkedDropped,
       ControlOK, ControlOf, At, Mine, Locals, Shape, LoopOK, CallOK, Goto,
       ReleaseThen, store
  <2> QED
    BY <2>1, <2>2, <2>3, <2>4 DEF LifeOK
<1>11. ASSUME Requeue(t)
      PROVE  RefsAlive' /\ LifeOK'
  <2>1. RefsAlive'
    BY <1>11, Hands, ConstantsAssumption DEF Requeue, RefsAlive, LifeOK, OneDeleter,
       Locals, Shape, StoreOK, LoopOK, CallOK, Ref, ReleaseThen, store
  <2>2. QueueOutlives'
    BY <1>11, <1>1 DEF Requeue, store
  <2>3. OneDeleter'
    BY <1>11, Hands, ConstantsAssumption DEF Requeue, RefsAlive, LifeOK, OneDeleter,
       Locals, Shape, StoreOK, LoopOK, CallOK, Ref, ReleaseThen, store
  <2>4. OnlyMarkedDropped'
    BY <1>11, Hands, ConstantsAssumption DEF Requeue, LifeOK, OnlyMarkedDropped,
       ControlOK, ControlOf, At, Mine, Locals, Shape, LoopOK, CallOK, Goto,
       ReleaseThen, store
  <2> QED
    BY <2>1, <2>2, <2>3, <2>4 DEF LifeOK
<1>12. ASSUME MqRelease(t)
      PROVE  RefsAlive' /\ LifeOK'
  <2>1. RefsAlive'
    BY <1>12, Hands, ConstantsAssumption DEF MqRelease, RefsAlive, LifeOK,
       OneDeleter, Locals, Shape, StoreOK, LoopOK, CallOK, Ref, LetGo, store, loop,
       call
  <2>2. QueueOutlives'
    BY <1>12, <1>1 DEF MqRelease, store
  <2>3. OneDeleter'
    BY <1>12, Hands, ConstantsAssumption DEF MqRelease, RefsAlive, LifeOK,
       OneDeleter, Locals, Shape, StoreOK, LoopOK, CallOK, Ref, LetGo, store, loop,
       call
  <2>4. OnlyMarkedDropped'
    <3>1. release' = release
      BY <1>12 DEF MqRelease
    <3>2. CASE Mine(t) \in release
      BY <1>12, <3>1, <3>2 DEF MqRelease, LifeOK, OnlyMarkedDropped, At, Mine,
         Locals, Shape, CallOK, Goto, loop, call
    <3>3. CASE Mine(t) \notin release
      <4>1. At(t)' \notin {"drop", "free"}
        BY <1>12, <3>3 DEF MqRelease, LetGo, Goto, At, Shape, CallOK
      <4> QED
        BY <3>1, <4>1 DEF LifeOK, OnlyMarkedDropped, At, Mine, Locals
    <3> QED
      BY <3>2, <3>3
  <2> QED
    BY <2>1, <2>2, <2>3, <2>4 DEF LifeOK
<1>13. ASSUME Drop(t)
      PROVE  RefsAlive' /\ LifeOK'
  <2>1. RefsAlive'
    <3>1. UNCHANGED <<registered, ctx, dead, own>>
      BY <1>13 DEF Drop, loop
    <3>2. \A u \in Thread : /\ cur'[u] = cur[u] \/ cur'[u] = None
                          /\ \/ tgt'[u] = tgt[u] \/ tgt'[u] = cur[u]
                             \/ tgt'[u] \in registered
      BY <1>13 DEF Drop, GrabTo, Shape, LoopOK, CallOK, loop
    <3> QED
      BY <3>1, <3>2 DEF RefsAlive
  <2>2. QueueOutlives'
    BY <1>13, <1>1 DEF Drop
  <2>3. OneDeleter'
    BY <1>13, Hands, ConstantsAssumption DEF Drop, RefsAlive, LifeOK, OneDeleter,
       Locals, Shape, StoreOK, LoopOK, CallOK, Ref, GrabTo, loop
  <2>4. OnlyMarkedDropped'
    BY <1>13, Hands, ConstantsAssumption DEF Drop, LifeOK, OnlyMarkedDropped,
       ControlOK, ControlOf, At, Mine, Locals, Shape, LoopOK, CallOK, Goto, GrabTo,
       loop
  <2> QED
    BY <2>1, <2>2, <2>3, <2>4 DEF LifeOK
<1>14. ASSUME DropEnd(t)
      PROVE  RefsAlive' /\ LifeOK'
  <2>1. RefsAlive'
    BY <1>14, Hands, ConstantsAssumption DEF DropEnd, RefsAlive, LifeOK, OneDeleter,
       Locals, Shape, StoreOK, LoopOK, CallOK, Ref, store, loop, call
  <2>2. QueueOutlives'
    BY <1>14, <1>1 DEF DropEnd, store
  <2>3. OneDeleter'
    BY <1>14, Hands, ConstantsAssumption DEF DropEnd, RefsAlive, LifeOK, OneDeleter,
       Locals, Shape, StoreOK, LoopOK, CallOK, Ref, store, loop, call
  <2>4. OnlyMarkedDropped'
    BY <1>14, Hands, ConstantsAssumption DEF DropEnd, LifeOK, OnlyMarkedDropped,
       ControlOK, ControlOf, At, Mine, Locals, Shape, LoopOK, CallOK, Goto, store,
       loop, call
  <2> QED
    BY <2>1, <2>2, <2>3, <2>4 DEF LifeOK
<1>15. ASSUME Free(t)
      PROVE  RefsAlive' /\ LifeOK'
  <2>1. RefsAlive'
    BY <1>15, Hands, ConstantsAssumption DEF Free, RefsAlive, LifeOK, OneDeleter,
       Locals, Shape, StoreOK, LoopOK, CallOK, Ref, LetGo, store
  <2>2. QueueOutlives'
    <3>1. Mine(t) \in release /\ Mine(t) \in Service
      BY <1>15, Hands DEF Free, At, LifeOK, OnlyMarkedDropped
    <3>2. mq' = [mq EXCEPT ![Mine(t)] = "freed"] /\ ctx' = ctx /\ release' = release
      BY <1>15 DEF Free, store
    <3> QED
      BY <3>1, <3>2 DEF LifeOK, QueueOutlives, Shape, QueuesOK
  <2>3. OneDeleter'
    BY <1>15, Hands, ConstantsAssumption DEF Free, RefsAlive, LifeOK, OneDeleter,
       Locals, Shape, StoreOK, LoopOK, CallOK, Ref, LetGo, store
  <2>4. OnlyMarkedDropped'
    BY <1>15, Hands, ConstantsAssumption DEF Free, LifeOK, OnlyMarkedDropped,
       ControlOK, ControlOf, At, Mine, Locals, Shape, LoopOK, CallOK, Goto, LetGo,
       store
  <2> QED
    BY <2>1, <2>2, <2>3, <2>4 DEF LifeOK
<1>16. ASSUME Retire(t)
      PROVE  RefsAlive' /\ LifeOK'
  <2>1. RefsAlive'
    BY <1>16, Hands, ConstantsAssumption DEF Retire, RefsAlive, LifeOK, OneDeleter,
       Locals, Shape, StoreOK, LoopOK, CallOK, Ref, ReleaseThen, loop
  <2>2. QueueOutlives'
    BY <1>16, <1>1 DEF Retire, queues
  <2>3. OneDeleter'
    BY <1>16, Hands, ConstantsAssumption DEF Retire, RefsAlive, LifeOK, OneDeleter,
       Locals, Shape, StoreOK, LoopOK, CallOK, Ref, ReleaseThen, loop
  <2>4. OnlyMarkedDropped'
    BY <1>16, Hands, ConstantsAssumption DEF Retire, LifeOK, OnlyMarkedDropped,
       ControlOK, ControlOf, At, Mine, Home, Locals, Shape, LoopOK, CallOK, Goto,
       ReleaseThen, loop, queues
  <2> QED
    BY <2>1, <2>2, <2>3, <2>4 DEF LifeOK
<1>17. ASSUME InitOk(t)
      PROVE  RefsAlive' /\ LifeOK'
  <2>1. RefsAlive'
    BY <1>17, Hands, ConstantsAssumption DEF InitOk, RefsAlive, LifeOK, OneDeleter,
       Locals, Shape, StoreOK, LoopOK, CallOK, Ref, ReleaseThen, store, loop
  <2>2. QueueOutlives'
    BY <1>17, <1>1 DEF InitOk, store, queues
  <2>3. OneDeleter'
    BY <1>17, Hands, ConstantsAssumption DEF InitOk, RefsAlive, LifeOK, OneDeleter,
       Locals, Shape, StoreOK, LoopOK, CallOK, Ref, ReleaseThen, store, loop
  <2>4. OnlyMarkedDropped'
    BY <1>17, Hands, ConstantsAssumption DEF InitOk, LifeOK, OnlyMarkedDropped,
       ControlOK, ControlOf, At, Mine, Locals, Shape, LoopOK, CallOK, Goto,
       ReleaseThen, store, loop, queues
  <2> QED
    BY <2>1, <2>2, <2>3, <2>4 DEF LifeOK
<1>18. ASSUME InitFail(t)
      PROVE  RefsAlive' /\ LifeOK'
  <2>1. RefsAlive'
    BY <1>18, Hands, ConstantsAssumption DEF InitFail, RefsAlive, LifeOK, OneDeleter,
       Locals, Shape, StoreOK, LoopOK, CallOK, Ref, ReleaseThen, store, loop
  <2>2. QueueOutlives'
    BY <1>18, <1>1 DEF InitFail, store, queues
  <2>3. OneDeleter'
    BY <1>18, Hands, ConstantsAssumption DEF InitFail, RefsAlive, LifeOK, OneDeleter,
       Locals, Shape, StoreOK, LoopOK, CallOK, Ref, ReleaseThen, store, loop
  <2>4. OnlyMarkedDropped'
    BY <1>18, Hands, ConstantsAssumption DEF InitFail, LifeOK, OnlyMarkedDropped,
       ControlOK, ControlOf, At, Mine, Locals, Shape, LoopOK, CallOK, Goto,
       ReleaseThen, store, loop, queues
  <2> QED
    BY <2>1, <2>2, <2>3, <2>4 DEF LifeOK
<1>19. ASSUME Launched(t)
      PROVE  RefsAlive' /\ LifeOK'
  <2>1. RefsAlive'
    BY <1>19, Hands, ConstantsAssumption DEF Launched, RefsAlive, LifeOK, OneDeleter,
       Locals, Shape, StoreOK, LoopOK, CallOK, Ref, loop, call
  <2>2. QueueOutlives'
    BY <1>19, <1>1 DEF Launched, queues
  <2>3. OneDeleter'
    BY <1>19, Hands, ConstantsAssumption DEF Launched, RefsAlive, LifeOK, OneDeleter,
       Locals, Shape, StoreOK, LoopOK, CallOK, Ref, loop, call
  <2>4. OnlyMarkedDropped'
    BY <1>19, Hands, ConstantsAssumption DEF Launched, LifeOK, OnlyMarkedDropped,
       ControlOK, ControlOf, At, Mine, Locals, Shape, LoopOK, CallOK, Goto, loop,
       call, queues
  <2> QED
    BY <2>1, <2>2, <2>3, <2>4 DEF LifeOK
<1>20. ASSUME Handover(t)
      PROVE  RefsAlive' /\ LifeOK'
  <2>1. RefsAlive'
    BY <1>20, Hands, ConstantsAssumption DEF Handover, RefsAlive, LifeOK, OneDeleter,
       Locals, Shape, StoreOK, LoopOK, CallOK, Ref, store, loop
  <2>2. QueueOutlives'
    BY <1>20, <1>1 DEF Handover, store
  <2>3. OneDeleter'
    BY <1>20, Hands, ConstantsAssumption DEF Handover, RefsAlive, LifeOK, OneDeleter,
       Locals, Shape, StoreOK, LoopOK, CallOK, Ref, store, loop
  <2>4. OnlyMarkedDropped'
    BY <1>20, Hands, ConstantsAssumption DEF Handover, LifeOK, OnlyMarkedDropped,
       ControlOK, ControlOf, At, Mine, Locals, Shape, LoopOK, CallOK, Goto, store,
       loop
  <2> QED
    BY <2>1, <2>2, <2>3, <2>4 DEF LifeOK
<1>21. ASSUME Send(t, d)
      PROVE  RefsAlive' /\ LifeOK'
  <2>1. RefsAlive'
    BY <1>21, Hands, ConstantsAssumption DEF Send, RefsAlive, LifeOK, OneDeleter,
       Locals, Shape, StoreOK, LoopOK, CallOK, Ref, GrabTo, loop
  <2>2. QueueOutlives'
    BY <1>21, <1>1 DEF Send, queues
  <2>3. OneDeleter'
    BY <1>21, Hands, ConstantsAssumption DEF Send, RefsAlive, LifeOK, OneDeleter,
       Locals, Shape, StoreOK, LoopOK, CallOK, Ref, GrabTo, loop
  <2>4. OnlyMarkedDropped'
    BY <1>21, Hands, ConstantsAssumption DEF Send, LifeOK, OnlyMarkedDropped,
       ControlOK, ControlOf, At, Mine, Locals, Shape, LoopOK, CallOK, Goto, GrabTo,
       loop, queues
  <2> QED
    BY <2>1, <2>2, <2>3, <2>4 DEF LifeOK
<1>22. ASSUME Kill(t, d)
      PROVE  RefsAlive' /\ LifeOK'
  <2>1. RefsAlive'
    BY <1>22, Hands, ConstantsAssumption DEF Kill, RefsAlive, LifeOK, OneDeleter,
       Locals, Shape, StoreOK, LoopOK, CallOK, Ref, GrabTo, loop
  <2>2. QueueOutlives'
    BY <1>22, <1>1 DEF Kill, queues
  <2>3. OneDeleter'
    BY <1>22, Hands, ConstantsAssumption DEF Kill, RefsAlive, LifeOK, OneDeleter,
       Locals, Shape, StoreOK, LoopOK, CallOK, Ref, GrabTo, loop
  <2>4. OnlyMarkedDropped'
    BY <1>22, Hands, ConstantsAssumption DEF Kill, LifeOK, OnlyMarkedDropped,
       ControlOK, ControlOf, At, Mine, Locals, Shape, LoopOK, CallOK, Goto, GrabTo,
       loop, queues
  <2> QED
    BY <2>1, <2>2, <2>3, <2>4 DEF LifeOK
<1>23. ASSUME Launch(t, d)
      PROVE  RefsAlive' /\ LifeOK'
  <2>1. RefsAlive'
    BY <1>23, Hands, ConstantsAssumption DEF Launch, RefsAlive, LifeOK, OneDeleter,
       Locals, Shape, StoreOK, LoopOK, CallOK, Ref, loop
  <2>2. QueueOutlives'
    BY <1>23, Hands, ConstantsAssumption DEF Launch, QueueOutlives,
       OnlyMarkedDropped, At, LifeOK, RefsAlive, Shape, StoreOK, QueuesOK
  <2>3. OneDeleter'
    BY <1>23, Hands, ConstantsAssumption DEF Launch, RefsAlive, LifeOK, OneDeleter,
       Locals, Shape, StoreOK, LoopOK, CallOK, Ref, loop
  <2>4. OnlyMarkedDropped'
    BY <1>23, Hands, ConstantsAssumption DEF Launch, LifeOK, OnlyMarkedDropped,
       ControlOK, ControlOf, At, Mine, Locals, Shape, LoopOK, CallOK, Goto, loop
  <2> QED
    BY <2>1, <2>2, <2>3, <2>4 DEF LifeOK
<1> QED
 BY <1>2, <1>3, <1>4, <1>5, <1>6, <1>7, <1>8, <1>9, <1>10, <1>11, <1>12, <1>13, <1>14,
    <1>15, <1>16, <1>17, <1>18, <1>19, <1>20, <1>21, <1>22, <1>23 DEF Step

\* G_NODE.total follows skynet_context_new and delete_context.
LEMMA TotalStep ==
  ASSUME Shape, ControlOK, RefsAlive, TotalOK, NEW t \in Thread, NEW d \in Service,
         Step(t) \/ Send(t, d) \/ Kill(t, d) \/ Launch(t, d)
  PROVE  TotalOK'
<1> DEFINE A == {s \in Service : ctx[s] = "alive"}
           B == {s \in Service : ctx'[s] = "alive"}
<1>1. /\ IsFiniteSet(A) /\ A \subseteq Service
      /\ ctx \in [Service -> {"absent", "alive", "freed"}]
  BY ConstantsAssumption, FS_Subset DEF Shape, StoreOK
<1>2. ASSUME Launch(t, d)
      PROVE  TotalOK'
  <2>1. B = A \cup {d} /\ d \notin A /\ total' = total + 1
    BY <1>1, <1>2 DEF Launch
  <2> HIDE DEF A, B
  <2>2. Cardinality(B) = Cardinality(A) + 1
    BY <1>1, <2>1, FS_AddElement
  <2> QED
    BY <2>1, <2>2 DEF TotalOK, A, B
<1>3. ASSUME Delete(t)
      PROVE  TotalOK'
  <2>1. dead[t] \in Service /\ ctx[dead[t]] = "alive"
    BY <1>3, Hands, ConstantsAssumption DEF Delete, RefsAlive
  <2>2. B = A \ {dead[t]} /\ dead[t] \in A /\ total' = total - 1
    BY <1>1, <1>3, <2>1 DEF Delete
  <2> HIDE DEF A, B
  <2>3. Cardinality(B) = Cardinality(A) - 1
    BY <1>1, <2>2, FS_RemoveElement
  <2> QED
    BY <2>2, <2>3 DEF TotalOK, A, B
<1>4. ASSUME UNCHANGED <<ctx, total>>
      PROVE  TotalOK'
  BY <1>4 DEF TotalOK
<1>5. CASE \/ Push(t) \/ Release(t) \/ Pop(t) \/ Grab(t) \/ MqPop(t) \/ Length(t)
           \/ CbReturn(t) \/ TailPop(t) \/ Requeue(t) \/ MqRelease(t) \/ Drop(t)
           \/ DropEnd(t) \/ Free(t) \/ Retire(t) \/ InitOk(t) \/ InitFail(t)
           \/ Launched(t) \/ Handover(t) \/ Send(t, d) \/ Kill(t, d)
  BY <1>4, <1>5 DEF Push, Release, Pop, Grab, MqPop, Length, CbReturn, TailPop, Requeue,
     MqRelease, Drop, DropEnd, Free, Retire, InitOk, InitFail, Launched, Handover, Send,
     Kill, store
<1> QED
  BY <1>2, <1>3, <1>5 DEF Step

-----------------------------------------------------------------------------
(* The owner of a queue                                                     *)

\* Every action keeps one owner per queue and in_global in step with it.
LEMMA OwnStep ==
  ASSUME Shape, ControlOK, RefsAlive, LifeOK, Inj(globalmq), OwnerOK, Distinct, FlagOK,
         NEW t \in Thread, NEW d \in Service,
         Step(t) \/ Send(t, d) \/ Kill(t, d) \/ Launch(t, d),
         \A u \in Thread : u # t => Locals(u)' = Locals(u)
  PROVE  Inj(globalmq') /\ OwnerOK' /\ Distinct' /\ FlagOK'
<1>1. globalmq \in Seq(Service) /\ Elems(globalmq) \subseteq Service
  BY DEF Shape, QueuesOK, Elems
<1>2. \A u \in Thread, s \in Service : u # t => (Owns(u, s)' <=> Owns(u, s))
  BY DEF Owns, Locals
<1>3. /\ registered \subseteq Service /\ None \notin Service
      /\ tgt[t] # None => ctx[tgt[t]] = "alive"
      /\ dead[t] # None => ctx[dead[t]] = "alive"
      /\ cur[t] # None => ctx[cur[t]] = "alive"
  BY ConstantsAssumption DEF RefsAlive, Shape, StoreOK
<1>4. ASSUME Push(t), tgt[t] \notin inGlobal
      PROVE  Inj(globalmq') /\ OwnerOK' /\ Distinct' /\ FlagOK'
  <2>1. /\ tgt[t] \in Service /\ tgt[t] \notin Elems(globalmq)
        /\ \A u \in Thread : ~Owns(u, tgt[t])
    BY <1>4, <1>3, Hands, ConstantsAssumption DEF Push, OwnerOK, FlagOK, Owns,
       HasOwner, RefsAlive, LifeOK, QueueOutlives, Mine
  <2>2. Elems(globalmq') = Elems(globalmq) \cup {tgt[t]} /\ Inj(globalmq')
    <3>1. globalmq' = Append(globalmq, tgt[t])
      BY <1>4 DEF Push
    <3> QED
      BY <3>1, <2>1, <1>1, AppendLemma
  <2>3. /\ tgt[t] \in Service /\ mq' = mq /\ inGlobal' = inGlobal \cup {tgt[t]}
        /\ release' = release
        /\ \A s \in Service : s # tgt[t] => queue'[s] = queue[s]
        /\ mq[tgt[t]] = "alive" /\ tgt[t] \notin release /\ tgt[t] \notin inGlobal
    BY <1>4, <1>3, Hands DEF Push, Mine, At, LifeOK, QueueOutlives,
       OnlyMarkedDropped, Shape, QueuesOK, store
  <2>4. \A s \in Service : Owns(t, s)' <=> Owns(t, s)
    BY <1>4, <1>3, <2>2, Hands DEF Push, Owns, Mine, Distinct, Shape, LoopOK,
       CallOK, loop
  <2>5. Distinct'
    BY <1>4, <1>3, <2>2, <2>3, <2>1, Hands DEF Push, Owns, Mine, Locals, OwnerOK,
       Distinct, Shape, LoopOK, CallOK, loop
  <2>6. OwnerOK'
    BY <1>1, <1>2, <2>2, <2>4, <2>3, <2>1 DEF OwnerOK, Shape, QueuesOK
  <2>7. FlagOK'
    BY <1>1, <1>2, <2>2, <2>4, <2>3, <2>1 DEF OwnerOK, FlagOK, HasOwner, Shape,
       QueuesOK
  <2> QED
    BY <2>2, <2>5, <2>6, <2>7
<1>5. ASSUME Push(t), tgt[t] \in inGlobal
      PROVE  Inj(globalmq') /\ OwnerOK' /\ Distinct' /\ FlagOK'
  <2>1. globalmq' = globalmq /\ Elems(globalmq') = Elems(globalmq) /\ Inj(globalmq')
    BY <1>5 DEF Push
  <2>2. /\ tgt[t] \in Service /\ mq' = mq /\ inGlobal' = inGlobal \cup {tgt[t]}
        /\ release' = release
        /\ \A s \in Service : s # tgt[t] => queue'[s] = queue[s]
        /\ mq[tgt[t]] = "alive" /\ tgt[t] \notin release /\ tgt[t] \in inGlobal
    BY <1>5, <1>3, Hands DEF Push, Mine, At, LifeOK, QueueOutlives,
       OnlyMarkedDropped, Shape, QueuesOK, store
  <2>3. \A s \in Service : Owns(t, s)' <=> Owns(t, s)
    BY <1>5, <1>3, <2>1, Hands DEF Push, Owns, Mine, Distinct, Shape, LoopOK,
       CallOK, loop
  <2>4. Distinct'
    BY <1>5, <1>3, <2>1, <2>2, Hands DEF Push, Owns, Mine, Locals, OwnerOK,
       Distinct, Shape, LoopOK, CallOK, loop
  <2>5. OwnerOK'
    BY <1>1, <1>2, <2>1, <2>3, <2>2 DEF OwnerOK, Shape, QueuesOK
  <2>6. FlagOK'
    BY <1>1, <1>2, <2>1, <2>3, <2>2 DEF OwnerOK, FlagOK, HasOwner, Shape, QueuesOK
  <2> QED
    BY <2>1, <2>4, <2>5, <2>6
<1>6. ASSUME Delete(t), dead[t] \notin inGlobal
      PROVE  Inj(globalmq') /\ OwnerOK' /\ Distinct' /\ FlagOK'
  <2>1. /\ dead[t] \in Service /\ dead[t] \notin Elems(globalmq)
        /\ \A u \in Thread : ~Owns(u, dead[t])
    BY <1>6, <1>3, Hands, ConstantsAssumption DEF Delete, OwnerOK, FlagOK, Owns,
       HasOwner, RefsAlive, LifeOK, QueueOutlives, Mine
  <2>2. Elems(globalmq') = Elems(globalmq) \cup {dead[t]} /\ Inj(globalmq')
    <3>1. globalmq' = Append(globalmq, dead[t])
      BY <1>6 DEF Delete
    <3> QED
      BY <3>1, <2>1, <1>1, AppendLemma
  <2>3. /\ dead[t] \in Service /\ mq' = mq /\ inGlobal' = inGlobal
        /\ release' = release \cup {dead[t]} /\ queue' = queue
        /\ mq[dead[t]] = "alive" /\ dead[t] \notin release /\ dead[t] \notin inGlobal
    BY <1>6, <1>3, Hands DEF Delete, Mine, At, LifeOK, QueueOutlives,
       OnlyMarkedDropped, Shape, QueuesOK
  <2>4. \A s \in Service : Owns(t, s)' <=> Owns(t, s)
    BY <1>6, <1>3, <2>2, Hands DEF Delete, Owns, Mine, Distinct, Shape, LoopOK,
       CallOK, loop
  <2>5. Distinct'
    BY <1>6, <1>3, <2>2, <2>3, <2>1, Hands DEF Delete, Owns, Mine, Locals, OwnerOK,
       Distinct, Shape, LoopOK, CallOK, loop
  <2>6. OwnerOK'
    BY <1>1, <1>2, <2>2, <2>4, <2>3, <2>1 DEF OwnerOK, Shape, QueuesOK
  <2>7. FlagOK'
    BY <1>1, <1>2, <2>2, <2>4, <2>3, <2>1 DEF OwnerOK, FlagOK, HasOwner, Shape,
       QueuesOK
  <2> QED
    BY <2>2, <2>5, <2>6, <2>7
<1>7. ASSUME Delete(t), dead[t] \in inGlobal
      PROVE  Inj(globalmq') /\ OwnerOK' /\ Distinct' /\ FlagOK'
  <2>1. globalmq' = globalmq /\ Elems(globalmq') = Elems(globalmq) /\ Inj(globalmq')
    BY <1>7 DEF Delete
  <2>2. /\ dead[t] \in Service /\ mq' = mq /\ inGlobal' = inGlobal
        /\ release' = release \cup {dead[t]} /\ queue' = queue
        /\ mq[dead[t]] = "alive" /\ dead[t] \notin release /\ dead[t] \in inGlobal
    BY <1>7, <1>3, Hands DEF Delete, Mine, At, LifeOK, QueueOutlives,
       OnlyMarkedDropped, Shape, QueuesOK
  <2>3. \A s \in Service : Owns(t, s)' <=> Owns(t, s)
    BY <1>7, <1>3, <2>1, Hands DEF Delete, Owns, Mine, Distinct, Shape, LoopOK,
       CallOK, loop
  <2>4. Distinct'
    BY <1>7, <1>3, <2>1, <2>2, Hands DEF Delete, Owns, Mine, Locals, OwnerOK,
       Distinct, Shape, LoopOK, CallOK, loop
  <2>5. OwnerOK'
    BY <1>1, <1>2, <2>1, <2>3, <2>2 DEF OwnerOK, Shape, QueuesOK
  <2>6. FlagOK'
    BY <1>1, <1>2, <2>1, <2>3, <2>2 DEF OwnerOK, FlagOK, HasOwner, Shape, QueuesOK
  <2> QED
    BY <2>1, <2>4, <2>5, <2>6
<1>8. ASSUME Pop(t)
      PROVE  Inj(globalmq') /\ OwnerOK' /\ Distinct' /\ FlagOK'
  <2>1. /\ Head(globalmq) \in Service
        /\ Elems(globalmq) = Elems(globalmq') \cup {Head(globalmq)}
        /\ Head(globalmq) \notin Elems(globalmq')
        /\ Inj(globalmq')
    <3>1. globalmq # << >> /\ globalmq' = Tail(globalmq)
      BY <1>8 DEF Pop
    <3> QED
      BY <3>1, <1>1, TailLemma
  <2>2. mq' = mq /\ inGlobal' = inGlobal /\ release' = release /\ queue' = queue
    BY <1>8, <1>3, Hands DEF Pop, Mine, At, LifeOK, QueueOutlives,
       OnlyMarkedDropped, Shape, QueuesOK, store
  <2>3. \A s \in Service : Owns(t, s)' <=> Owns(t, s) \/ s = Head(globalmq)
    BY <1>8, <1>3, <2>1, Hands DEF Pop, Owns, Mine, Distinct, Shape, LoopOK, CallOK,
       call
  <2>4. Distinct'
    BY <1>8, <1>3, <2>1, <2>2, Hands DEF Pop, Owns, Mine, Locals, OwnerOK, Distinct,
       Shape, LoopOK, CallOK, call
  <2>5. OwnerOK'
    BY <1>1, <1>2, <2>1, <2>3, <2>2 DEF OwnerOK, Shape, QueuesOK
  <2>6. FlagOK'
    BY <1>1, <1>2, <2>1, <2>3, <2>2 DEF OwnerOK, FlagOK, HasOwner, Shape, QueuesOK
  <2> QED
    BY <2>1, <2>4, <2>5, <2>6
<1>9. ASSUME MqPop(t), queue[held[t]] = << >>
      PROVE  Inj(globalmq') /\ OwnerOK' /\ Distinct' /\ FlagOK'
  <2>1. globalmq' = globalmq /\ Elems(globalmq') = Elems(globalmq) /\ Inj(globalmq')
    BY <1>9 DEF MqPop
  <2>2. /\ nq[t] = None /\ held[t] \in Ref /\ new[t] \in Ref
        /\ held' = [held EXCEPT ![t] = None] /\ UNCHANGED <<nq, new>>
    BY <1>9, <1>3, Hands DEF MqPop, Shape, LoopOK, CallOK
  <2>3. /\ held[t] \in Service /\ mq' = mq /\ inGlobal' = inGlobal \ {held[t]}
        /\ release' = release /\ queue' = queue
        /\ queue[held[t]] = << >> /\ held[t] \notin release /\ Owns(t, held[t])
    BY <1>9, <1>3, Hands DEF MqPop, Owns, Mine, At, LifeOK, QueueOutlives,
       OnlyMarkedDropped, ReleaseThen, Shape, QueuesOK, store
  <2>4. \A s \in Service : Owns(t, s)' <=> Owns(t, s) /\ s # held[t]
    BY <2>2, <1>3, <2>1, Hands DEF Owns, Mine, Distinct, Shape, LoopOK, CallOK
  <2>5. Distinct'
    BY <2>2, <1>3, <2>1, <2>3, Hands DEF Owns, Mine, Locals, OwnerOK, Distinct,
       Shape, LoopOK, CallOK
  <2>6. OwnerOK'
    BY <1>1, <1>2, <2>1, <2>4, <2>3 DEF OwnerOK, Shape, QueuesOK
  <2>7. FlagOK'
    BY <1>1, <1>2, <2>1, <2>4, <2>3 DEF OwnerOK, FlagOK, HasOwner, Shape, QueuesOK
  <2> QED
    BY <2>1, <2>5, <2>6, <2>7
<1>10. ASSUME MqPop(t), queue[held[t]] # << >>
       PROVE  Inj(globalmq') /\ OwnerOK' /\ Distinct' /\ FlagOK'
  <2>1. globalmq' = globalmq /\ Elems(globalmq') = Elems(globalmq) /\ Inj(globalmq')
    BY <1>10 DEF MqPop
  <2>2. /\ mq' = mq /\ inGlobal' = inGlobal /\ release' = release
        /\ \A s \in Service : queue'[s] # << >> => queue[s] # << >>
    BY <1>10, <1>3, Hands DEF MqPop, Mine, At, LifeOK, QueueOutlives,
       OnlyMarkedDropped, ReleaseThen, Shape, QueuesOK, store
  <2>3. \A s \in Service : Owns(t, s)' <=> Owns(t, s)
    BY <1>10, <1>3, <2>1, Hands DEF MqPop, Owns, Mine, Distinct, Shape, LoopOK,
       CallOK
  <2>4. Distinct'
    BY <1>10, <1>3, <2>1, <2>2, Hands DEF MqPop, Owns, Mine, Locals, OwnerOK,
       Distinct, Shape, LoopOK, CallOK
  <2>5. OwnerOK'
    BY <1>1, <1>2, <2>1, <2>3, <2>2 DEF OwnerOK, Shape, QueuesOK
  <2>6. FlagOK'
    BY <1>1, <1>2, <2>1, <2>3, <2>2 DEF OwnerOK, FlagOK, HasOwner, Shape, QueuesOK
  <2> QED
    BY <2>1, <2>4, <2>5, <2>6
<1>11. ASSUME TailPop(t), globalmq = << >>
       PROVE  Inj(globalmq') /\ OwnerOK' /\ Distinct' /\ FlagOK'
  <2>1. globalmq' = globalmq /\ Elems(globalmq') = Elems(globalmq) /\ Inj(globalmq')
    BY <1>11 DEF TailPop
  <2>2. mq' = mq /\ inGlobal' = inGlobal /\ release' = release /\ queue' = queue
    BY <1>11, <1>3, Hands DEF TailPop, Mine, At, LifeOK, QueueOutlives,
       OnlyMarkedDropped, ReleaseThen, Shape, QueuesOK, store
  <2>3. \A s \in Service : Owns(t, s)' <=> Owns(t, s)
    BY <1>11, <1>3, <2>1, Hands DEF TailPop, Owns, Mine, Distinct, Shape, LoopOK,
       CallOK
  <2>4. Distinct'
    BY <1>11, <1>3, <2>1, <2>2, Hands DEF TailPop, Owns, Mine, Locals, OwnerOK,
       Distinct, Shape, LoopOK, CallOK
  <2>5. OwnerOK'
    BY <1>1, <1>2, <2>1, <2>3, <2>2 DEF OwnerOK, Shape, QueuesOK
  <2>6. FlagOK'
    BY <1>1, <1>2, <2>1, <2>3, <2>2 DEF OwnerOK, FlagOK, HasOwner, Shape, QueuesOK
  <2> QED
    BY <2>1, <2>4, <2>5, <2>6
<1>12. ASSUME TailPop(t), globalmq # << >>
       PROVE  Inj(globalmq') /\ OwnerOK' /\ Distinct' /\ FlagOK'
  <2>1. /\ Head(globalmq) \in Service
        /\ Elems(globalmq) = Elems(globalmq') \cup {Head(globalmq)}
        /\ Head(globalmq) \notin Elems(globalmq')
        /\ Inj(globalmq')
    <3>1. globalmq # << >> /\ globalmq' = Tail(globalmq)
      BY <1>12 DEF TailPop
    <3> QED
      BY <3>1, <1>1, TailLemma
  <2>2. mq' = mq /\ inGlobal' = inGlobal /\ release' = release /\ queue' = queue
    BY <1>12, <1>3, Hands DEF TailPop, Mine, At, LifeOK, QueueOutlives,
       OnlyMarkedDropped, ReleaseThen, Shape, QueuesOK, store
  <2>3. \A s \in Service : Owns(t, s)' <=> Owns(t, s) \/ s = Head(globalmq)
    BY <1>12, <1>3, <2>1, Hands DEF TailPop, Owns, Mine, Distinct, Shape, LoopOK,
       CallOK
  <2>4. Distinct'
    BY <1>12, <1>3, <2>1, <2>2, Hands DEF TailPop, Owns, Mine, Locals, OwnerOK,
       Distinct, Shape, LoopOK, CallOK
  <2>5. OwnerOK'
    BY <1>1, <1>2, <2>1, <2>3, <2>2 DEF OwnerOK, Shape, QueuesOK
  <2>6. FlagOK'
    BY <1>1, <1>2, <2>1, <2>3, <2>2 DEF OwnerOK, FlagOK, HasOwner, Shape, QueuesOK
  <2> QED
    BY <2>1, <2>4, <2>5, <2>6
<1>13. ASSUME Requeue(t)
      PROVE  Inj(globalmq') /\ OwnerOK' /\ Distinct' /\ FlagOK'
  <2>1. held[t] \in Service /\ held[t] \notin Elems(globalmq)
    BY <1>13, <1>3, Hands, ConstantsAssumption DEF Requeue, OwnerOK, FlagOK, Owns,
       HasOwner, RefsAlive, LifeOK, QueueOutlives, Mine
  <2>2. Elems(globalmq') = Elems(globalmq) \cup {held[t]} /\ Inj(globalmq')
    <3>1. globalmq' = Append(globalmq, held[t])
      BY <1>13 DEF Requeue
    <3> QED
      BY <3>1, <2>1, <1>1, AppendLemma
  <2>3. /\ held[t] \in Service /\ Owns(t, held[t])
        /\ mq' = mq /\ inGlobal' = inGlobal /\ release' = release /\ queue' = queue
    BY <1>13, <1>3, Hands DEF Requeue, Owns, Mine, At, LifeOK, QueueOutlives,
       OnlyMarkedDropped, ReleaseThen, Shape, QueuesOK, store
  <2>4. \A s \in Service : Owns(t, s)' <=> Owns(t, s) /\ s # held[t]
    BY <1>13, <1>3, <2>2, Hands DEF Requeue, Owns, Mine, Distinct, Shape, LoopOK,
       CallOK
  <2>5. Distinct'
    BY <1>13, <1>3, <2>2, <2>3, <2>1, Hands DEF Requeue, Owns, Mine, Locals,
       OwnerOK, Distinct, Shape, LoopOK, CallOK
  <2>6. OwnerOK'
    BY <1>1, <1>2, <2>2, <2>4, <2>3, <2>1 DEF OwnerOK, Shape, QueuesOK
  <2>7. FlagOK'
    BY <1>1, <1>2, <2>2, <2>4, <2>3, <2>1 DEF OwnerOK, FlagOK, HasOwner, Shape,
       QueuesOK
  <2> QED
    BY <2>2, <2>5, <2>6, <2>7
<1>14. ASSUME MqRelease(t), Mine(t) \in release
      PROVE  Inj(globalmq') /\ OwnerOK' /\ Distinct' /\ FlagOK'
  <2>1. globalmq' = globalmq /\ Elems(globalmq') = Elems(globalmq) /\ Inj(globalmq')
    BY <1>14 DEF MqRelease
  <2>2. /\ Mine(t) \in Service /\ Owns(t, Mine(t))
        /\ mq' = mq /\ inGlobal' = inGlobal /\ release' = release /\ queue' = queue
    BY <1>14, <1>3, Hands DEF MqRelease, Owns, Mine, At, LifeOK, QueueOutlives,
       OnlyMarkedDropped, Shape, QueuesOK, store
  <2>3. \A s \in Service : Owns(t, s)' <=> Owns(t, s)
    BY <1>14, <1>3, <2>1, Hands DEF MqRelease, Owns, Mine, Distinct, Shape, LoopOK,
       CallOK, LetGo, loop, call
  <2>4. Distinct'
    BY <1>14, <1>3, <2>1, <2>2, Hands DEF MqRelease, Owns, Mine, Locals, OwnerOK,
       Distinct, Shape, LoopOK, CallOK, LetGo, loop, call
  <2>5. OwnerOK'
    BY <1>1, <1>2, <2>1, <2>3, <2>2 DEF OwnerOK, Shape, QueuesOK
  <2>6. FlagOK'
    BY <1>1, <1>2, <2>1, <2>3, <2>2 DEF OwnerOK, FlagOK, HasOwner, Shape, QueuesOK
  <2> QED
    BY <2>1, <2>4, <2>5, <2>6
<1>15. ASSUME MqRelease(t), Mine(t) \notin release
      PROVE  Inj(globalmq') /\ OwnerOK' /\ Distinct' /\ FlagOK'
  <2>1. Mine(t) \in Service /\ Mine(t) \notin Elems(globalmq)
    BY <1>15, <1>3, Hands, ConstantsAssumption DEF MqRelease, OwnerOK, FlagOK, Owns,
       HasOwner, RefsAlive, LifeOK, QueueOutlives, Mine
  <2>2. Elems(globalmq') = Elems(globalmq) \cup {Mine(t)} /\ Inj(globalmq')
    <3>1. globalmq' = Append(globalmq, Mine(t))
      BY <1>15 DEF MqRelease
    <3> QED
      BY <3>1, <2>1, <1>1, AppendLemma
  <2>3. /\ nq[t] = None /\ held[t] \in Ref /\ new[t] \in Ref
        /\ \/ new[t] # None /\ new' = [new EXCEPT ![t] = None] /\ UNCHANGED <<held, nq>>
           \/ new[t] = None /\ held' = [held EXCEPT ![t] = None] /\ UNCHANGED <<new, nq>>
    BY <1>15, <1>3, Hands DEF MqRelease, LetGo, Shape, LoopOK, CallOK, loop, call
  <2>4. /\ Mine(t) \in Service /\ Owns(t, Mine(t))
        /\ mq' = mq /\ inGlobal' = inGlobal /\ release' = release /\ queue' = queue
    BY <1>15, <1>3, Hands DEF MqRelease, Owns, Mine, At, LifeOK, QueueOutlives,
       OnlyMarkedDropped, Shape, QueuesOK, store
  <2>5. \A s \in Service : Owns(t, s)' <=> Owns(t, s) /\ s # Mine(t)
    BY <2>3, <1>3, <2>2, Hands DEF Owns, Mine, Distinct, Shape, LoopOK, CallOK
  <2>6. Distinct'
    BY <2>3, <1>3, <2>2, <2>4, <2>1, Hands DEF Owns, Mine, Locals, OwnerOK,
       Distinct, Shape, LoopOK, CallOK
  <2>7. OwnerOK'
    BY <1>1, <1>2, <2>2, <2>5, <2>4, <2>1 DEF OwnerOK, Shape, QueuesOK
  <2>8. FlagOK'
    BY <1>1, <1>2, <2>2, <2>5, <2>4, <2>1 DEF OwnerOK, FlagOK, HasOwner, Shape,
       QueuesOK
  <2> QED
    BY <2>2, <2>6, <2>7, <2>8
<1>16. ASSUME Drop(t)
      PROVE  Inj(globalmq') /\ OwnerOK' /\ Distinct' /\ FlagOK'
  <2>1. globalmq' = globalmq /\ Elems(globalmq') = Elems(globalmq) /\ Inj(globalmq')
    BY <1>16 DEF Drop
  <2>2. /\ mq' = mq /\ inGlobal' = inGlobal /\ release' = release
        /\ Mine(t) \in Service /\ Mine(t) \in release
        /\ \A s \in Service : s # Mine(t) => queue'[s] = queue[s]
    BY <1>16, <1>3, Hands DEF Drop, Mine, At, LifeOK, QueueOutlives,
       OnlyMarkedDropped, Shape, QueuesOK
  <2>3. \A s \in Service : Owns(t, s)' <=> Owns(t, s)
    BY <1>16, <1>3, <2>1, Hands DEF Drop, Owns, Mine, Distinct, Shape, LoopOK,
       CallOK, loop
  <2>4. Distinct'
    BY <1>16, <1>3, <2>1, <2>2, Hands DEF Drop, Owns, Mine, Locals, OwnerOK,
       Distinct, Shape, LoopOK, CallOK, loop
  <2>5. OwnerOK'
    BY <1>1, <1>2, <2>1, <2>3, <2>2 DEF OwnerOK, Shape, QueuesOK
  <2>6. FlagOK'
    BY <1>1, <1>2, <2>1, <2>3, <2>2 DEF OwnerOK, FlagOK, HasOwner, Shape, QueuesOK
  <2> QED
    BY <2>1, <2>4, <2>5, <2>6
<1>17. ASSUME DropEnd(t)
      PROVE  Inj(globalmq') /\ OwnerOK' /\ Distinct' /\ FlagOK'
  <2>1. globalmq' = globalmq /\ Elems(globalmq') = Elems(globalmq) /\ Inj(globalmq')
    BY <1>17 DEF DropEnd
  <2>2. /\ mq' = mq /\ inGlobal' = inGlobal \ {Mine(t)} /\ release' = release
        /\ queue' = queue
        /\ Mine(t) \in Service /\ Mine(t) \in release
    BY <1>17, <1>3, Hands DEF DropEnd, Mine, At, LifeOK, QueueOutlives,
       OnlyMarkedDropped, Shape, QueuesOK, store
  <2>3. \A s \in Service : Owns(t, s)' <=> Owns(t, s)
    BY <1>17, <1>3, <2>1, Hands DEF DropEnd, Owns, Mine, Distinct, Shape, LoopOK,
       CallOK, loop, call
  <2>4. Distinct'
    BY <1>17, <1>3, <2>1, <2>2, Hands DEF DropEnd, Owns, Mine, Locals, OwnerOK,
       Distinct, Shape, LoopOK, CallOK, loop, call
  <2>5. OwnerOK'
    BY <1>1, <1>2, <2>1, <2>3, <2>2 DEF OwnerOK, Shape, QueuesOK
  <2>6. FlagOK'
    BY <1>1, <1>2, <2>1, <2>3, <2>2 DEF OwnerOK, FlagOK, HasOwner, Shape, QueuesOK
  <2> QED
    BY <2>1, <2>4, <2>5, <2>6
<1>18. ASSUME Free(t)
      PROVE  Inj(globalmq') /\ OwnerOK' /\ Distinct' /\ FlagOK'
  <2>1. globalmq' = globalmq /\ Elems(globalmq') = Elems(globalmq) /\ Inj(globalmq')
    BY <1>18 DEF Free
  <2>2. /\ mq' = [mq EXCEPT ![Mine(t)] = "freed"] /\ inGlobal' = inGlobal
        /\ release' = release /\ queue' = queue
        /\ Mine(t) \in Service /\ Owns(t, Mine(t))
    BY <1>18, <1>3, Hands DEF Free, Owns, Mine, At, LifeOK, QueueOutlives,
       OnlyMarkedDropped, Shape, QueuesOK, store
  <2>3. \A s \in Service : Owns(t, s)' <=> Owns(t, s) /\ s # Mine(t)
    BY <1>18, <1>3, <2>1, Hands DEF Free, Owns, Mine, Distinct, Shape, LoopOK,
       CallOK, LetGo
  <2>4. Distinct'
    BY <1>18, <1>3, <2>1, <2>2, Hands DEF Free, Owns, Mine, Locals, OwnerOK,
       Distinct, Shape, LoopOK, CallOK, LetGo
  <2>5. OwnerOK'
    BY <1>1, <1>2, <2>1, <2>3, <2>2 DEF OwnerOK, Shape, QueuesOK
  <2>6. FlagOK'
    BY <1>1, <1>2, <2>1, <2>3, <2>2 DEF OwnerOK, FlagOK, HasOwner, Shape, QueuesOK
  <2> QED
    BY <2>1, <2>4, <2>5, <2>6
<1>19. ASSUME Launch(t, d)
      PROVE  Inj(globalmq') /\ OwnerOK' /\ Distinct' /\ FlagOK'
  <2>1. globalmq' = globalmq /\ Elems(globalmq') = Elems(globalmq) /\ Inj(globalmq')
    BY <1>19 DEF Launch
  <2>2. /\ mq' = [mq EXCEPT ![d] = "alive"] /\ inGlobal' = inGlobal \cup {d}
        /\ release' = release /\ queue' = queue
        /\ mq[d] = "absent" /\ d \notin release
    BY <1>19, <1>3, Hands DEF Launch, Mine, At, LifeOK, QueueOutlives,
       OnlyMarkedDropped, Shape, QueuesOK
  <2>3. \A s \in Service : Owns(t, s)' <=> Owns(t, s) \/ s = d
    BY <1>19, <1>3, <2>1, Hands DEF Launch, Owns, Mine, Distinct, Shape, LoopOK,
       CallOK, loop
  <2>4. Distinct'
    BY <1>19, <1>3, <2>1, <2>2, Hands DEF Launch, Owns, Mine, Locals, OwnerOK,
       Distinct, Shape, LoopOK, CallOK, loop
  <2>5. OwnerOK'
    BY <1>1, <1>2, <2>1, <2>3, <2>2 DEF OwnerOK, Shape, QueuesOK
  <2>6. FlagOK'
    BY <1>1, <1>2, <2>1, <2>3, <2>2 DEF OwnerOK, FlagOK, HasOwner, Shape, QueuesOK
  <2> QED
    BY <2>1, <2>4, <2>5, <2>6
<1>20. ASSUME Handover(t)
      PROVE  Inj(globalmq') /\ OwnerOK' /\ Distinct' /\ FlagOK'
  <2>1. new[t] \in Service /\ new[t] \notin Elems(globalmq)
    BY <1>20, <1>3, Hands, ConstantsAssumption DEF Handover, OwnerOK, FlagOK, Owns,
       HasOwner, RefsAlive, LifeOK, QueueOutlives, Mine
  <2>2. Elems(globalmq') = Elems(globalmq) \cup {new[t]} /\ Inj(globalmq')
    <3>1. globalmq' = Append(globalmq, new[t])
      BY <1>20 DEF Handover
    <3> QED
      BY <3>1, <2>1, <1>1, AppendLemma
  <2>3. /\ nq[t] = None /\ held[t] \in Ref /\ new[t] \in Ref
        /\ new' = [new EXCEPT ![t] = None] /\ UNCHANGED <<held, nq>>
    BY <1>20, <1>3, Hands DEF Handover, Shape, LoopOK, CallOK, loop
  <2>4. /\ new[t] \in Service /\ Owns(t, new[t])
        /\ mq' = mq /\ inGlobal' = inGlobal /\ release' = release /\ queue' = queue
    BY <1>20, <1>3, Hands DEF Handover, Owns, Mine, At, LifeOK, QueueOutlives,
       OnlyMarkedDropped, Shape, QueuesOK, store
  <2>5. \A s \in Service : Owns(t, s)' <=> Owns(t, s) /\ s # new[t]
    BY <2>3, <1>3, <2>2, Hands DEF Owns, Mine, Distinct, Shape, LoopOK, CallOK
  <2>6. Distinct'
    BY <2>3, <1>3, <2>2, <2>4, <2>1, Hands DEF Owns, Mine, Locals, OwnerOK,
       Distinct, Shape, LoopOK, CallOK
  <2>7. OwnerOK'
    BY <1>1, <1>2, <2>2, <2>5, <2>4, <2>1 DEF OwnerOK, Shape, QueuesOK
  <2>8. FlagOK'
    BY <1>1, <1>2, <2>2, <2>5, <2>4, <2>1 DEF OwnerOK, FlagOK, HasOwner, Shape,
       QueuesOK
  <2> QED
    BY <2>2, <2>6, <2>7, <2>8
<1>21. CASE \/ Release(t) \/ Grab(t) \/ Length(t) \/ CbReturn(t) \/ Retire(t) \/ InitOk(t)
            \/ InitFail(t) \/ Launched(t) \/ Send(t, d) \/ Kill(t, d)
  <2>1. UNCHANGED <<mq, queue, inGlobal, release, globalmq, held, nq, new>>
    BY <1>21 DEF Release, Grab, Length, CbReturn, Retire, InitOk, InitFail, Launched,
       Send, Kill, queues, loop, call
  <2> QED
    BY <2>1 DEF OwnerOK, Distinct, FlagOK, HasOwner, Owns
<1> QED
  BY <1>4, <1>5, <1>6, <1>7, <1>8, <1>9, <1>10, <1>11, <1>12, <1>13, <1>14, <1>15,
     <1>16, <1>17, <1>18, <1>19, <1>20, <1>21 DEF Step

-----------------------------------------------------------------------------
(* The inductive invariant, and what follows from it                        *)

\* skynet_start links each boot service once: a listing of n services of length
\* n repeats none.
LEMMA BootInj ==
  ASSUME Init
  PROVE  Inj(globalmq) /\ Elems(globalmq) = Boot /\ globalmq \in Seq(Service)
<1> DEFINE c == Cardinality(Boot)
<1>1. IsFiniteSet(Boot) /\ c \in Nat
  BY ConstantsAssumption, FS_Subset, FS_CardinalityType
<1>2. globalmq \in [1 .. c -> Boot] /\ \A s \in Boot : \E k \in 1 .. c : globalmq[k] = s
  BY DEF Init
<1>3. IsFiniteSet(1 .. c) /\ Cardinality(1 .. c) = c
  BY <1>1, FS_Interval
<1>4. globalmq \in Surjection(1 .. c, Boot)
  BY <1>2 DEF Surjection
<1> HIDE DEF c
<1>5. globalmq \in Injection(1 .. c, Boot)
  BY <1>1, <1>3, <1>4, FS_SurjSameCardinalityImpliesInj DEF c
<1>6. Inj(globalmq)
  BY <1>2, <1>5 DEF Injection, IsInjective, Inj
<1>7. Elems(globalmq) = Boot
  BY <1>2 DEF Elems
<1>8. globalmq \in Seq(Service)
  BY <1>1, <1>2, ConstantsAssumption
<1> QED
  BY <1>6, <1>7, <1>8

\* The state skynet_start leaves behind satisfies the invariant.
LEMMA InitInv ==
  ASSUME Init
  PROVE  Inv
<1>1. Shape
  <2>1. /\ StoreOK /\ sent \in 0 .. MaxSend
        /\ mq \in [Service -> {"absent", "alive", "freed"}]
    <3>1. Cardinality(Boot) \in Int
      BY ConstantsAssumption, FS_Subset, FS_CardinalityType
    <3> QED
      BY <3>1, ConstantsAssumption DEF Init, StoreOK
  <2>2. queue \in [Service -> Seq(Message)]
    <3>1. \A s \in Boot : << [src |-> s, id |-> 0] >> \in Seq(Message)
      BY ConstantsAssumption DEF Message
    <3> QED
      BY <3>1 DEF Init
  <2>3. QueuesOK
    BY <2>1, <2>2, BootInj, ConstantsAssumption DEF Init, QueuesOK
  <2>4. LoopOK
    BY NoMsgType, ConstantsAssumption DEF Init, LoopOK, Ref
  <2>5. CallOK
    BY <2>1, NoMsgType, ConstantsAssumption DEF Init, CallOK, Ref, Labels
  <2> QED
    BY <2>1, <2>3, <2>4, <2>5 DEF Shape
<1>2. ControlOK
  BY ConstantsAssumption DEF Init, ControlOK, ControlOf, At, Labels, Thread
<1>3. RefSum
  <2> SUFFICES ASSUME NEW s \in Service
               PROVE  ref[s] = One(s \in registered) + Count(cur, s) + Count(tgt, s)
                                 + Count(own, s)
    BY DEF RefSum
  <2>1. \A u \in Thread : cur[u] # s /\ tgt[u] # s /\ own[u] # s
    BY ConstantsAssumption DEF Init
  <2>2. Count(cur, s) = 0 /\ Count(tgt, s) = 0 /\ Count(own, s) = 0
    BY <2>1, CountFinite
  <2>3. ref[s] = One(s \in registered) /\ One(s \in registered) \in Nat
    BY DEF Init, One
  <2> QED
    BY <2>2, <2>3
<1>4. TotalOK
  <2>1. {s \in Service : ctx[s] = "alive"} = Boot
    BY ConstantsAssumption DEF Init
  <2> QED
    BY <2>1 DEF Init, TotalOK
<1>5. RefsAlive
  BY ConstantsAssumption DEF Init, RefsAlive
<1>6. LifeOK
  <2>1. QueueOutlives
    BY DEF Init, QueueOutlives
  <2>2. OneDeleter /\ OnlyMarkedDropped
    BY DEF Init, OneDeleter, OnlyMarkedDropped, At
  <2> QED
    BY <2>1, <2>2 DEF LifeOK
<1>7. /\ \A u \in Thread, s \in Service : ~Owns(u, s)
      /\ \A s \in Service : HasOwner(s) <=> s \in Boot
  <2>1. \A u \in Thread, s \in Service : ~Owns(u, s)
    BY ConstantsAssumption DEF Init, Owns
  <2> QED
    BY <2>1, BootInj DEF HasOwner
<1>8. OwnerOK /\ Distinct
  <2>1. \A s \in Boot : mq[s] = "alive"
    BY ConstantsAssumption DEF Init
  <2> QED
    BY <1>7, <2>1, BootInj, ConstantsAssumption DEF OwnerOK, Distinct, Init
<1>9. FlagOK
  BY <1>7 DEF FlagOK, Init
<1> QED
  BY <1>1, <1>2, <1>3, <1>4, <1>5, <1>6, <1>8, <1>9, BootInj DEF Inv

\* With no service at all the threads have nothing to do.
LEMMA SomeService ==
  ASSUME Inv, NEW t \in Thread, Step(t)
  PROVE  Service # {}
<1> SUFFICES ASSUME Service = {}
             PROVE  FALSE
  OBVIOUS
<1>1. globalmq = << >>
  BY DEF Inv, Shape, QueuesOK
<1>2. held[t] = None /\ tgt[t] = None /\ dead[t] = None
  BY DEF Inv, Shape, LoopOK, CallOK, Ref
<1>3. pc[t] \in {"idle", "pop"}
  BY <1>2 DEF Inv, Shape, CallOK, ControlOK, ControlOf, At, Labels
<1> QED
  BY <1>1, <1>3 DEF Step, Push, Release, Delete, Pop, Grab, MqPop, Length, CbReturn,
     TailPop, Requeue, MqRelease, Drop, DropEnd, Free, Retire, InitOk, InitFail,
     Launched, Handover

\* Every step of every thread keeps the invariant.
LEMMA NextInv ==
  ASSUME Inv, [Next]_vars
  PROVE  Inv'
<1>1. ASSUME NEW t \in Thread, NEW d \in Service,
             Step(t) \/ Send(t, d) \/ Kill(t, d) \/ Launch(t, d)
      PROVE  Inv'
  <2>1. Shape' /\ ControlOK'
    BY <1>1, TypeStep DEF Inv
  <2>2. \A u \in Thread : u # t => Locals(u)' = Locals(u)
    BY <1>1, OthersUnchanged DEF Inv
  <2>3. RefSum'
    BY <1>1, <2>1, RefStep DEF Inv
  <2>4. RefsAlive' /\ LifeOK'
    BY <1>1, <2>1, <2>2, <2>3, LifeStep DEF Inv
  <2>5. TotalOK'
    BY <1>1, TotalStep DEF Inv
  <2>6. Inj(globalmq') /\ OwnerOK' /\ Distinct' /\ FlagOK'
    BY <1>1, <2>2, OwnStep DEF Inv
  <2> QED
    BY <2>1, <2>3, <2>4, <2>5, <2>6 DEF Inv, Inj
<1>2. CASE UNCHANGED vars
  <2>1. UNCHANGED <<registered, ctx, ref, init, total, mq, queue, inGlobal, release,
                    globalmq, held, nq, cur, msg, i, n, tgt, out, dead, back, victim,
                    new, own, pc, sent>>
    BY <1>2 DEF vars, store, queues, loop, call
  <2>2. Shape' /\ ControlOK'
    BY <2>1 DEF Inv, Shape, StoreOK, QueuesOK, LoopOK, CallOK, ControlOK, ControlOf, At
  <2>3. RefSum' /\ TotalOK' /\ RefsAlive'
    BY <2>1 DEF Inv, RefSum, Count, TotalOK, RefsAlive
  <2>4. LifeOK'
    BY <2>1 DEF Inv, LifeOK, QueueOutlives, OneDeleter, OnlyMarkedDropped, At, Mine
  <2>5. Inj(globalmq') /\ OwnerOK' /\ Distinct' /\ FlagOK'
    BY <2>1 DEF Inv, OwnerOK, Distinct, FlagOK, HasOwner, Owns
  <2> QED
    BY <2>2, <2>3, <2>4, <2>5 DEF Inv, Inj
<1>3. ASSUME NEW t \in Thread, Step(t)
      PROVE  Inv'
  BY <1>1, <1>3, SomeService
<1>4. ASSUME NEW t \in Thread, Choose(t)
      PROVE  Inv'
  BY <1>1, <1>4 DEF Choose
<1> QED
  BY <1>2, <1>3, <1>4 DEF Next

\* What the invariant says, in the words of the checked properties.
LEMMA InvImplies ==
  ASSUME Inv
  PROVE  TypeOK /\ SingleOwner /\ NoIdleBacklog /\ RefCount /\ MemorySafe
<1>1. TypeOK
  <2> SUFFICES ASSUME NEW s \in Service
               PROVE  ref[s] >= 0
    BY DEF Inv, TypeOK
  <2>1. ref[s] = One(s \in registered) + Count(cur, s) + Count(tgt, s) + Count(own, s)
    BY DEF Inv, RefSum
  <2>2. /\ Count(cur, s) \in Nat /\ Count(tgt, s) \in Nat /\ Count(own, s) \in Nat
        /\ One(s \in registered) \in Nat
    BY CountFinite DEF One
  <2> QED
    BY <2>1, <2>2
<1>2. Queued = Elems(globalmq) /\ Queued \subseteq Service
  BY DEF Inv, Shape, QueuesOK, Queued, Elems
<1>3. \A u \in Thread : /\ Holding(u) \subseteq Service
                        /\ \A s \in Service : s \in Holding(u) <=> Owns(u, s)
  BY ConstantsAssumption DEF Inv, Shape, LoopOK, CallOK, Ref, Holding, Owns
<1>4. SingleOwner
  <2>1. \A u \in Thread : Holding(u) \cap Queued = {}
    BY <1>2, <1>3 DEF Inv, OwnerOK
  <2>2. \A u, v \in Thread : u # v => Holding(u) \cap Holding(v) = {}
    BY <1>3 DEF Inv, OwnerOK
  <2> QED
    BY <2>1, <2>2 DEF Inv, Inj, Distinct, SingleOwner
<1>5. \A s \in Service : Owned(s) <=> HasOwner(s)
  BY <1>2, <1>3 DEF Owned, HasOwner
<1>6. NoIdleBacklog
  BY <1>5 DEF Inv, FlagOK, NoIdleBacklog
<1>7. RefCount
  BY DEF Inv, RefSum, TotalOK, RefCount, One
<1>8. MemorySafe
  <2>1. \A s \in Service : ctx[s] = "alive" => mq[s] = "alive" /\ s \notin release
    BY DEF Inv, LifeOK, QueueOutlives
  <2>2. \A s \in registered : ctx[s] = "alive" /\ mq[s] = "alive"
    BY <2>1 DEF Inv, RefsAlive, Shape, StoreOK
  <2>3. \A s \in Queued : mq[s] = "alive"
    BY <1>2 DEF Inv, OwnerOK
  <2>4. ASSUME NEW u \in Thread
        PROVE  /\ \A s \in {cur[u], tgt[u], own[u], dead[u]} \ {None} :
                    ctx[s] = "alive" /\ mq[s] = "alive"
               /\ dead[u] # None => dead[u] \notin release
    <3>1. cur[u] \in Ref /\ tgt[u] \in Ref /\ own[u] \in Ref /\ dead[u] \in Ref
      BY DEF Inv, Shape, LoopOK, CallOK
    <3> QED
      BY <2>1, <3>1 DEF Inv, RefsAlive, Ref
  <2>5. ASSUME NEW u \in Thread
        PROVE  \A s \in Holding(u) : mq[s] = "alive"
    BY <1>3 DEF Inv, OwnerOK
  <2> QED
    BY <2>2, <2>3, <2>4, <2>5 DEF MemorySafe
<1> QED
  BY <1>1, <1>4, <1>6, <1>7, <1>8

\* The invariant holds in every state the threads can reach.
THEOREM DispatchInv == Spec => []Inv
  BY InitInv, NextInv, PTL DEF Spec

\* The variables keep their types, and ctx->ref never drops below zero.
THEOREM DispatchTypeOK == Spec => []TypeOK
  BY DispatchInv, InvImplies, PTL

\* A thread has in hand what the code at its point uses.
THEOREM DispatchControl == Spec => []ControlOK
<1>1. Inv => ControlOK
  BY DEF Inv
<1> QED
  BY <1>1, DispatchInv, PTL

\* No message_queue is ever linked twice in the global queue or in the hands of two
\* threads: skynet_globalmq_push's assertion holds and services run serially.
THEOREM QueueHasOneOwner == Spec => []SingleOwner
  BY DispatchInv, InvImplies, PTL

\* A queue with messages, or of a deleted context, always has an owner; in_global
\* tells whether a queue has one.
THEOREM NoQueueForgotten == Spec => []NoIdleBacklog
  BY DispatchInv, InvImplies, PTL

\* ctx->ref and G_NODE.total are exact.
THEOREM ReferencesCounted == Spec => []RefCount
  BY DispatchInv, InvImplies, PTL

\* No context and no queue is used after it was freed, or freed twice.
THEOREM NoUseAfterFree == Spec => []MemorySafe
  BY DispatchInv, InvImplies, PTL

\* delete_context runs once per context, with nobody else referring to it, and only
\* a queue marked by it is dropped and freed.
THEOREM LivesFitTogether == Spec => []LifeOK
<1>1. Inv => LifeOK
  BY DEF Inv
<1> QED
  BY <1>1, DispatchInv, PTL

-------------------------------------------------------------------------------
(***************************************************************************)
(* What a service sees of the dispatch machinery, on top of the invariant  *)
(* of MessageDispatch_proofs: it is called back only after its launch is   *)
(* over, it handles the messages of each sender in sending order, and its  *)
(* queue, flags and reference count together implement a Mailbox.          *)
(***************************************************************************)


\* How far the launch of new[t] is: a failed one has retired the handle before
\* it lets go of the queue, a finished one has set ctx->init or found the
\* context deleted.
LaunchOf(t) ==
    /\ cur[t] # None => cur[t] \in init
    /\ new[t] # None /\ At(t) \in {"mqrelease", "drop", "free"} => new[t] \notin registered
    /\ new[t] # None /\ At(t) = "retire" /\ own[t] = None => victim[t] = new[t]
    /\ At(t) = "handover" => new[t] \in init \/ new[t] \notin registered
    /\ At(t) = "launched" => \/ pc[t] = "launched"
                             \/ pc[t] = "release" /\ tgt[t] = new[t]
                             \/ pc[t] = "delete" /\ dead[t] = new[t]

\* A handle that can be found belongs to an initialised context, or its queue
\* is still in the hands of the thread that launches it.
LaunchOK ==
    /\ \A s \in registered : s \in init \/ \E t \in Thread : new[t] = s
    /\ \A t \in Thread : LaunchOf(t)

\* If both come from the same service through skynet_send, a was sent first.
Before(a, b) == a.src = b.src /\ a.src # None /\ a.id > 0 /\ b.id > 0 => a.id < b.id

InOrder(q) == \A j, k \in DOMAIN q : j < k => Before(q[j], q[k])

\* The points at which the callback of held[t] has not returned.
Busy(t) == new[t] # None \/ At(t) \in {"length", "cb", "retire"}

\* What is about to be pushed is younger than everything its sender pushed
\* before, for the thread still has the sender's queue in hand.
Fresh(t) ==
    /\ out[t].id <= sent
    /\ out[t].id > 0 =>
         /\ out[t].src = Mine(t)
         /\ \A s \in Service : \A x \in Elems(queue[s]) : Before(x, out[t])
         /\ \A u \in Thread : Before(msg[u], out[t])

OrderOf(t) ==
    /\ msg[t].id <= sent
    /\ ~Busy(t) => msg[t] = NoMsg
    /\ held[t] # None => \A x \in Elems(queue[held[t]]) : Before(msg[t], x)
    /\ pc[t] = "push" => Fresh(t)
    /\ At(t) = "free" => queue[Mine(t)] = << >>

OrderOK ==
    /\ \A s \in Service : InOrder(queue[s]) /\ \A x \in Elems(queue[s]) : x.id <= sent
    /\ \A t \in Thread : OrderOf(t)

-----------------------------------------------------------------------------
(* The steps of one thread                                                  *)

\* No action touches the locals of another thread, its message in dispatch or
\* the message it is about to push.
LEMMA Others ==
  ASSUME Inv, NEW t \in Thread, Step(t) \/ Choose(t), NEW u \in Thread, u # t
  PROVE  Locals(u)' = Locals(u) /\ msg'[u] = msg[u] /\ out'[u] = out[u]
<1>1. Locals(u)' = Locals(u)
  <2>1. PICK d \in Service : Step(t) \/ Send(t, d) \/ Kill(t, d) \/ Launch(t, d)
    BY SomeService DEF Choose
  <2> QED
    BY <2>1, OthersUnchanged DEF Inv
<1>2. msg \in [Thread -> Message] /\ out \in [Thread -> Message]
  BY DEF Inv, Shape, LoopOK, CallOK
<1>3. msg'[u] = msg[u] /\ out'[u] = out[u]
  <2>1. CASE Step(t)
    BY <1>2, <2>1 DEF Step, Push, Release, Delete, Pop, Grab, MqPop, Length, CbReturn,
       TailPop, Requeue, MqRelease, Drop, DropEnd, Free, Retire, InitOk, InitFail,
       Launched, Handover, GrabTo, LetGo, loop, call
  <2>2. CASE Choose(t)
    BY <1>2, <2>2 DEF Choose, Send, Kill, Launch, GrabTo, loop
  <2> QED
    BY <2>1, <2>2
<1> QED
  BY <1>1, <1>3

-----------------------------------------------------------------------------
(* Init before dispatch                                                     *)

\* Every step keeps LaunchOK.  A worker grabs a context only with its queue in
\* hand, so the queue is not the one of a launch under way, and the handle, if
\* still registered, is of an initialised context.
LEMMA LaunchStep ==
  ASSUME Inv, Inv', LaunchOK, NEW t \in Thread, Step(t) \/ Choose(t)
  PROVE  LaunchOK'
<1> DEFINE Goal == LaunchOK'
<1>0. \A u \in Thread : u # t => Locals(u)' = Locals(u)
  BY Others
<1>1. ASSUME init \subseteq init',
             \A s \in registered' : s \in registered \/ (ctx[s] = "absent" /\ s = new'[t]),
             new[t] \in Service /\ new'[t] # new[t] =>
               new[t] \in init' \/ new[t] \notin registered',
             LaunchOf(t)'
      PROVE  Goal
  <2>1. ASSUME NEW u \in Thread, u # t
        PROVE  LaunchOf(u)'
    <3>1. Locals(u)' = Locals(u)
      BY <1>0, <2>1
    <3>2. new[u] # None => new[u] \in Service /\ ctx[new[u]] # "absent"
      BY ConstantsAssumption DEF Inv, OwnerOK, Owns, LifeOK, QueueOutlives, Shape, CallOK, Ref
    <3>3. new[u] # None /\ new[u] \notin registered => new[u] \notin registered'
      BY <1>1, <3>2
    <3> QED
      BY <1>1, <3>1, <3>2, <3>3 DEF LaunchOK, LaunchOf, Locals, At, Inv, ControlOK, ControlOf
  <2>2. ASSUME NEW s \in registered'
        PROVE  s \in init' \/ \E u \in Thread : new'[u] = s
    <3>1. CASE s = new'[t]
      BY <3>1
    <3>2. CASE s \in registered /\ s # new'[t]
      <4>1. s \in init \/ \E u \in Thread : new[u] = s
        BY <3>2 DEF LaunchOK
      <4>2. ASSUME NEW u \in Thread, new[u] = s
            PROVE  s \in init' \/ \E v \in Thread : new'[v] = s
        <5>1. CASE u = t
          BY <5>1, <4>2, <3>2, <1>1 DEF Inv, Shape, StoreOK
        <5>2. CASE u # t
          BY <5>2, <4>2, <1>0 DEF Locals
        <5> QED
          BY <5>1, <5>2
      <4> QED
        BY <4>1, <4>2, <1>1
    <3> QED
      BY <3>1, <3>2, <1>1
  <2> QED
    BY <1>1, <2>1, <2>2 DEF LaunchOK
<1>2. LaunchOf(t) /\ ControlOf(t) /\ Shape
  BY DEF LaunchOK, Inv, ControlOK
<1> HIDE DEF Goal
<1>3. ASSUME Push(t)
      PROVE  Goal
  BY <1>1, <1>2, <1>3, ConstantsAssumption DEF Push, LaunchOf, ControlOf, At, Goto,
     Shape, StoreOK, LoopOK, CallOK, store, loop, Ref
<1>4. ASSUME Release(t)
      PROVE  Goal
  BY <1>1, <1>2, <1>4, ConstantsAssumption DEF Release, LaunchOf, ControlOf, At, Goto,
     Shape, StoreOK, LoopOK, CallOK, loop, Ref
<1>5. ASSUME Delete(t)
      PROVE  Goal
  <2>1. dead[t] \notin registered
    BY <1>2, <1>5 DEF Inv, LifeOK, OneDeleter, Delete, ControlOf
  <2> QED
    BY <1>1, <1>2, <1>5, <2>1, ConstantsAssumption DEF Delete, LaunchOf, ControlOf, At, Goto,
     Shape, StoreOK, LoopOK, CallOK, loop, Ref
<1>6. ASSUME Pop(t)
      PROVE  Goal
  BY <1>1, <1>2, <1>6, ConstantsAssumption DEF Pop, LaunchOf, ControlOf, At, Goto,
     Shape, StoreOK, LoopOK, CallOK, store, call, Ref
<1>7. ASSUME Grab(t)
      PROVE  Goal
  <2>1. held[t] \in registered => held[t] \in init
    <3>1. held[t] \in Service /\ new[t] = None
      BY <1>7, Hands DEF Inv, Grab
    <3>2. \A u \in Thread : new[u] # held[t]
      BY <3>1, ConstantsAssumption DEF Inv, OwnerOK, Owns
    <3> QED
      BY <3>2 DEF LaunchOK
  <2> QED
    BY <1>1, <1>2, <1>7, <2>1, ConstantsAssumption DEF Grab, LaunchOf, ControlOf, At, Goto,
     Shape, StoreOK, LoopOK, CallOK, call, Ref
<1>8. ASSUME MqPop(t)
      PROVE  Goal
  BY <1>1, <1>2, <1>8, ConstantsAssumption DEF MqPop, LaunchOf, ControlOf, At, Goto,
     Shape, StoreOK, LoopOK, CallOK, store, ReleaseThen, Ref
<1>9. ASSUME Length(t)
      PROVE  Goal
  BY <1>1, <1>2, <1>9, ConstantsAssumption DEF Length, LaunchOf, ControlOf, At, Goto,
     Shape, StoreOK, LoopOK, CallOK, store, call, Ref
<1>10. ASSUME CbReturn(t)
      PROVE  Goal
  BY <1>1, <1>2, <1>10, ConstantsAssumption DEF CbReturn, LaunchOf, ControlOf, At, Goto,
     Shape, StoreOK, LoopOK, CallOK, store, call, Ref
<1>11. ASSUME TailPop(t)
      PROVE  Goal
  BY <1>1, <1>2, <1>11, ConstantsAssumption DEF TailPop, LaunchOf, ControlOf, At, Goto,
     Shape, StoreOK, LoopOK, CallOK, store, ReleaseThen, Ref
<1>12. ASSUME Requeue(t)
      PROVE  Goal
  BY <1>1, <1>2, <1>12, ConstantsAssumption DEF Requeue, LaunchOf, ControlOf, At, Goto,
     Shape, StoreOK, LoopOK, CallOK, store, ReleaseThen, Ref
<1>13. ASSUME MqRelease(t)
      PROVE  Goal
  BY <1>1, <1>2, <1>13, ConstantsAssumption DEF MqRelease, LaunchOf, ControlOf, At, Goto,
     Shape, StoreOK, LoopOK, CallOK, store, loop, call, LetGo, Mine, Ref
<1>14. ASSUME Drop(t)
      PROVE  Goal
  BY <1>1, <1>2, <1>14, ConstantsAssumption DEF Drop, LaunchOf, ControlOf, At, Goto,
     Shape, StoreOK, LoopOK, CallOK, loop, GrabTo, Ref
<1>15. ASSUME DropEnd(t)
      PROVE  Goal
  BY <1>1, <1>2, <1>15, ConstantsAssumption DEF DropEnd, LaunchOf, ControlOf, At, Goto,
     Shape, StoreOK, LoopOK, CallOK, store, loop, call, Ref
<1>16. ASSUME Free(t)
      PROVE  Goal
  BY <1>1, <1>2, <1>16, ConstantsAssumption DEF Free, LaunchOf, ControlOf, At, Goto,
     Shape, StoreOK, LoopOK, CallOK, store, LetGo, Mine, Ref
<1>17. ASSUME Retire(t)
      PROVE  Goal
  BY <1>1, <1>2, <1>17, ConstantsAssumption DEF Retire, LaunchOf, ControlOf, At, Goto,
     Shape, StoreOK, LoopOK, CallOK, loop, ReleaseThen, Home, Ref
<1>18. ASSUME InitOk(t)
      PROVE  Goal
  BY <1>1, <1>2, <1>18, ConstantsAssumption DEF InitOk, LaunchOf, ControlOf, At, Goto,
     Shape, StoreOK, LoopOK, CallOK, store, loop, ReleaseThen, Ref
<1>19. ASSUME InitFail(t)
      PROVE  Goal
  BY <1>1, <1>2, <1>19, ConstantsAssumption DEF InitFail, LaunchOf, ControlOf, At, Goto,
     Shape, StoreOK, LoopOK, CallOK, store, loop, ReleaseThen, Ref
<1>20. ASSUME Launched(t)
      PROVE  Goal
  BY <1>1, <1>2, <1>20, ConstantsAssumption DEF Launched, LaunchOf, ControlOf, At, Goto,
     Shape, StoreOK, LoopOK, CallOK, loop, call, Ref
<1>21. ASSUME Handover(t)
      PROVE  Goal
  BY <1>1, <1>2, <1>21, ConstantsAssumption DEF Handover, LaunchOf, ControlOf, At, Goto,
     Shape, StoreOK, LoopOK, CallOK, store, loop, Ref
<1>22. ASSUME NEW d \in Service, Send(t, d)
      PROVE  Goal
  BY <1>1, <1>2, <1>22, ConstantsAssumption DEF Send, LaunchOf, ControlOf, At, Goto,
     Shape, StoreOK, LoopOK, CallOK, loop, GrabTo, Ref
<1>23. ASSUME NEW d \in Service, Kill(t, d)
      PROVE  Goal
  BY <1>1, <1>2, <1>23, ConstantsAssumption DEF Kill, LaunchOf, ControlOf, At, Goto,
     Shape, StoreOK, LoopOK, CallOK, loop, GrabTo, Ref
<1>24. ASSUME NEW d \in Service, Launch(t, d)
      PROVE  Goal
  BY <1>1, <1>2, <1>24, ConstantsAssumption DEF Launch, LaunchOf, ControlOf, At, Goto,
     Shape, StoreOK, LoopOK, CallOK, loop, Ref
<1> QED
  BY <1>3, <1>4, <1>5, <1>6, <1>7, <1>8, <1>9, <1>10, <1>11, <1>12, <1>13, <1>14, <1>15, <1>16, <1>17, <1>18, <1>19, <1>20, <1>21, <1>22, <1>23, <1>24 DEF Step, Choose, Goal

-----------------------------------------------------------------------------
(* Messages in sending order                                                *)

\* skynet_mq_push adds one message, behind everything sent before it.
LEMMA PushOrder ==
  ASSUME NEW q \in Seq(Message), NEW m \in Message
  PROVE  /\ Elems(Append(q, m)) = Elems(q) \cup {m}
         /\ InOrder(q) /\ (\A x \in Elems(q) : Before(x, m)) => InOrder(Append(q, m))
<1> DEFINE h == Append(q, m)
           l == Len(q)
<1>1. /\ l \in Nat
      /\ DOMAIN q = 1 .. l /\ DOMAIN h = 1 .. l + 1
      /\ \A k \in 1 .. l : h[k] = q[k]
      /\ h[l + 1] = m
  OBVIOUS
<1> HIDE DEF h, l
<1>2. Elems(h) = Elems(q) \cup {m}
  <2>1. ASSUME NEW k \in 1 .. l + 1
        PROVE  h[k] \in Elems(q) \cup {m}
    <3>1. CASE k \in 1 .. l
      BY <3>1, <1>1 DEF Elems
    <3>2. CASE k = l + 1
      BY <3>2, <1>1
    <3> QED
      BY <3>1, <3>2, <1>1
  <2>2. ASSUME NEW k \in 1 .. l
        PROVE  q[k] \in Elems(h)
    BY <1>1 DEF Elems
  <2>3. m \in Elems(h)
    BY <1>1 DEF Elems
  <2> QED
    BY <2>1, <2>2, <2>3, <1>1 DEF Elems
<1>3. ASSUME InOrder(q), \A x \in Elems(q) : Before(x, m),
             NEW j \in 1 .. l + 1, NEW k \in 1 .. l + 1, j < k
      PROVE  Before(h[j], h[k])
  <2>1. j \in 1 .. l /\ q[j] \in Elems(q)
    BY <1>1, <1>3 DEF Elems
  <2>2. CASE k \in 1 .. l
    <3>1. Before(q[j], q[k])
      BY <2>1, <2>2, <1>1, <1>3 DEF InOrder
    <3> QED
      BY <3>1, <2>1, <2>2, <1>1
  <2>3. CASE k = l + 1
    <3>1. h[j] = q[j] /\ h[k] = m
      BY <2>1, <2>3, <1>1
    <3> QED
      BY <3>1, <2>1, <1>3
  <2> QED
    BY <2>2, <2>3, <1>1
<1> QED
  BY <1>1, <1>2, <1>3 DEF h, InOrder

\* skynet_mq_pop takes the oldest message; what remains was sent after it.
LEMMA PopOrder ==
  ASSUME NEW q \in Seq(Message), q # << >>
  PROVE  /\ Head(q) \in Elems(q) /\ Head(q) \in Message
         /\ Elems(Tail(q)) \subseteq Elems(q)
         /\ InOrder(q) => InOrder(Tail(q)) /\ \A x \in Elems(Tail(q)) : Before(Head(q), x)
<1> DEFINE h == Tail(q)
           l == Len(q)
<1>1. /\ l \in Nat /\ l > 0
      /\ DOMAIN q = 1 .. l /\ DOMAIN h = 1 .. l - 1
      /\ \A k \in 1 .. l - 1 : h[k] = q[k + 1]
      /\ Head(q) = q[1] /\ Head(q) \in Message
  OBVIOUS
<1> HIDE DEF h, l
<1>2. ASSUME NEW k \in 1 .. l - 1
      PROVE  k + 1 \in 1 .. l /\ h[k] = q[k + 1] /\ h[k] \in Elems(q)
  BY <1>1 DEF Elems
<1>3. 1 \in 1 .. l /\ Head(q) \in Elems(q)
  BY <1>1 DEF Elems
<1>4. ASSUME InOrder(q), NEW j \in 1 .. l - 1, NEW k \in 1 .. l - 1, j < k
      PROVE  Before(h[j], h[k])
  <2>1. j + 1 \in 1 .. l /\ k + 1 \in 1 .. l /\ j + 1 < k + 1
    BY <1>4, <1>2
  <2>2. Before(q[j + 1], q[k + 1])
    BY <2>1, <1>1, <1>4 DEF InOrder
  <2> QED
    BY <2>2, <1>2
<1>5. ASSUME InOrder(q), NEW k \in 1 .. l - 1
      PROVE  Before(Head(q), h[k])
  <2>1. k + 1 \in 1 .. l /\ 1 < k + 1
    BY <1>2
  <2>2. Before(q[1], q[k + 1])
    BY <2>1, <1>1, <1>3, <1>5 DEF InOrder
  <2> QED
    BY <2>2, <1>1, <1>2
<1> QED
  BY <1>1, <1>2, <1>3, <1>4, <1>5 DEF h, InOrder, Elems

\* The service a thread works for is in its hands only: while a message is
\* about to be pushed, no other thread sends in the name of its source.
LEMMA MineAlone ==
  ASSUME Inv, NEW t \in Thread, NEW u \in Thread, Mine(t) = Mine(u), Mine(t) # None
  PROVE  t = u
<1>1. Mine(t) \in Service /\ Owns(t, Mine(t)) /\ Owns(u, Mine(t))
  BY DEF Mine, Owns, Inv, Shape, LoopOK, CallOK, Ref
<1> QED
  BY <1>1 DEF Inv, OwnerOK

\* Every step keeps OrderOK.  A new message gets the highest number; between the
\* send and the push the thread keeps the sender's queue in hand, so nobody else
\* sends for it; and skynet_mq_pop and skynet_mq_push work at the two ends.
LEMMA OrderStep ==
  ASSUME Inv, Inv', OrderOK, NEW t \in Thread, Step(t) \/ Choose(t)
  PROVE  OrderOK'
<1> DEFINE Goal == OrderOK'
<1>0. /\ \A u \in Thread : u # t => Locals(u)' = Locals(u) /\ msg'[u] = msg[u]
                                      /\ out'[u] = out[u]
      /\ \A u \in Thread : u # t => (Mine(u)' = Mine(u)) /\ (At(u)' = At(u))
                                      /\ (Busy(u)' = Busy(u))
  <2>1. ASSUME NEW u \in Thread, u # t
        PROVE  Locals(u)' = Locals(u) /\ msg'[u] = msg[u] /\ out'[u] = out[u]
    BY <2>1, Others
  <2> QED
    BY <2>1 DEF Locals, Mine, At, Busy
<1>1. /\ sent \in Nat /\ sent' \in Nat
      /\ \A s \in Service : queue[s] \in Seq(Message) /\ queue'[s] \in Seq(Message)
      /\ \A s \in Service : Elems(queue[s]) \subseteq Message
                             /\ Elems(queue'[s]) \subseteq Message
      /\ \A u \in Thread : /\ msg[u] \in Message /\ out[u] \in Message
                           /\ msg'[u] \in Message /\ out'[u] \in Message
      /\ \A m \in Message : m.id \in Nat
  <2>1. \A s \in Service : queue[s] \in Seq(Message) /\ queue'[s] \in Seq(Message)
    BY DEF Inv, Shape, QueuesOK
  <2>2. ASSUME NEW q \in Seq(Message)
        PROVE  Elems(q) \subseteq Message
    BY DEF Elems
  <2>3. sent \in Nat /\ sent' \in Nat /\ \A m \in Message : m.id \in Nat
    BY ConstantsAssumption DEF Inv, Shape, CallOK, Message
  <2> QED
    BY <2>1, <2>2, <2>3 DEF Inv, Shape, LoopOK, CallOK
<1>2. \A m \in Message : Before(NoMsg, m) /\ Before(m, NoMsg)
  BY DEF Before, NoMsg
<1>3. ControlOf(t) /\ OrderOf(t) /\ Shape
  BY DEF OrderOK, Inv, ControlOK
<1>4. ASSUME UNCHANGED <<queue, msg>>, sent <= sent',
             held'[t] # held[t] => msg[t] = NoMsg,
             ~Busy(t)' => msg[t] = NoMsg,
             pc'[t] = "push" => Fresh(t)',
             At(t)' = "free" => queue[Mine(t)'] = << >>
      PROVE  Goal
  <2>1. \A s \in Service : InOrder(queue[s])' /\ \A x \in Elems(queue'[s]) : x.id <= sent'
    BY <1>1, <1>4 DEF OrderOK, InOrder
  <2>2. OrderOf(t)'
    <3>1. msg'[t].id <= sent'
      BY <1>1, <1>3, <1>4 DEF OrderOf
    <3>2. held'[t] # None => \A x \in Elems(queue'[held'[t]]) : Before(msg[t], x)
      <4>1. CASE held'[t] = held[t]
        BY <4>1, <1>3, <1>4 DEF OrderOf
      <4>2. CASE held'[t] # held[t] /\ held'[t] # None
        <5>1. held'[t] \in Service
          BY <4>2 DEF Inv, Shape, LoopOK, Ref
        <5> QED
          BY <4>2, <5>1, <1>1, <1>2, <1>4
      <4> QED
        BY <4>1, <4>2
    <3> QED
      BY <3>1, <3>2, <1>4 DEF OrderOf
  <2>3. ASSUME NEW u \in Thread, u # t
        PROVE  OrderOf(u)'
    <3>1. OrderOf(u) /\ (Mine(u)' = Mine(u)) /\ (At(u)' = At(u)) /\ (Busy(u)' = Busy(u))
      BY <1>0, <2>3 DEF OrderOK
    <3>2. Locals(u)' = Locals(u) /\ msg'[u] = msg[u] /\ out'[u] = out[u]
      BY <1>0, <2>3
    <3>3. pc[u] = "push" => Fresh(u)'
      BY <3>1, <3>2, <1>1, <1>4 DEF OrderOf, Fresh
    <3> QED
      BY <3>1, <3>2, <3>3, <1>1, <1>4 DEF OrderOf, Locals
  <2> QED
    BY <2>1, <2>2, <2>3 DEF OrderOK
<1>5. ASSUME Release(t)
      PROVE  Goal
  BY <1>1, <1>3, <1>4, <1>5, ConstantsAssumption DEF Release, OrderOf, Busy, ControlOf, At,
     Goto, Shape, LoopOK, CallOK, loop, queues, Mine, Ref
<1>6. ASSUME Delete(t)
      PROVE  Goal
  BY <1>1, <1>3, <1>4, <1>6, ConstantsAssumption DEF Delete, OrderOf, Busy, ControlOf, At,
     Goto, Shape, LoopOK, CallOK, loop, Mine, Ref
<1>7. ASSUME Pop(t)
      PROVE  Goal
  BY <1>1, <1>3, <1>4, <1>7, ConstantsAssumption DEF Pop, OrderOf, Busy, ControlOf, At,
     Goto, Shape, LoopOK, CallOK, call, Mine, Ref
<1>8. ASSUME Grab(t)
      PROVE  Goal
  BY <1>1, <1>3, <1>4, <1>8, ConstantsAssumption DEF Grab, OrderOf, Busy, ControlOf, At,
     Goto, Shape, LoopOK, CallOK, call, queues, Mine, Ref
<1>9. ASSUME Length(t)
      PROVE  Goal
  BY <1>1, <1>3, <1>4, <1>9, ConstantsAssumption DEF Length, OrderOf, Busy, ControlOf, At,
     Goto, Shape, LoopOK, CallOK, call, queues, Mine, Ref
<1>10. ASSUME TailPop(t)
      PROVE  Goal
  BY <1>1, <1>3, <1>4, <1>10, ConstantsAssumption DEF TailPop, OrderOf, Busy, ControlOf, At,
     Goto, Shape, LoopOK, CallOK, ReleaseThen, Mine, Ref
<1>11. ASSUME Requeue(t)
      PROVE  Goal
  BY <1>1, <1>3, <1>4, <1>11, ConstantsAssumption DEF Requeue, OrderOf, Busy, ControlOf, At,
     Goto, Shape, LoopOK, CallOK, ReleaseThen, Mine, Ref
<1>12. ASSUME MqRelease(t)
      PROVE  Goal
  BY <1>1, <1>3, <1>4, <1>12, ConstantsAssumption DEF MqRelease, OrderOf, Busy, ControlOf, At,
     Goto, Shape, LoopOK, CallOK, loop, call, LetGo, Mine, Ref
<1>13. ASSUME DropEnd(t)
      PROVE  Goal
  BY <1>1, <1>3, <1>4, <1>13, ConstantsAssumption DEF DropEnd, OrderOf, Busy, ControlOf, At,
     Goto, Shape, LoopOK, CallOK, loop, call, Mine, Ref
<1>14. ASSUME Free(t)
      PROVE  Goal
  BY <1>1, <1>3, <1>4, <1>14, ConstantsAssumption DEF Free, OrderOf, Busy, ControlOf, At,
     Goto, Shape, LoopOK, CallOK, LetGo, Mine, Ref
<1>15. ASSUME Retire(t)
      PROVE  Goal
  BY <1>1, <1>3, <1>4, <1>15, ConstantsAssumption DEF Retire, OrderOf, Busy, ControlOf, At,
     Goto, Shape, LoopOK, CallOK, loop, ReleaseThen, Home, queues, Mine, Ref
<1>16. ASSUME InitOk(t)
      PROVE  Goal
  BY <1>1, <1>3, <1>4, <1>16, ConstantsAssumption DEF InitOk, OrderOf, Busy, ControlOf, At,
     Goto, Shape, LoopOK, CallOK, loop, ReleaseThen, queues, Mine, Ref
<1>17. ASSUME InitFail(t)
      PROVE  Goal
  BY <1>1, <1>3, <1>4, <1>17, ConstantsAssumption DEF InitFail, OrderOf, Busy, ControlOf, At,
     Goto, Shape, LoopOK, CallOK, loop, ReleaseThen, queues, Mine, Ref
<1>18. ASSUME Launched(t)
      PROVE  Goal
  BY <1>1, <1>3, <1>4, <1>18, ConstantsAssumption DEF Launched, OrderOf, Busy, ControlOf, At,
     Goto, Shape, LoopOK, CallOK, loop, call, queues, Mine, Ref
<1>19. ASSUME Handover(t)
      PROVE  Goal
  BY <1>1, <1>3, <1>4, <1>19, ConstantsAssumption DEF Handover, OrderOf, Busy, ControlOf, At,
     Goto, Shape, LoopOK, CallOK, loop, Mine, Ref
<1>20. ASSUME NEW d \in Service, Launch(t, d)
      PROVE  Goal
  BY <1>1, <1>3, <1>4, <1>20, ConstantsAssumption DEF Launch, OrderOf, Busy, ControlOf, At,
     Goto, Shape, LoopOK, CallOK, loop, Mine, Ref
<1>21. ASSUME NEW d \in Service, Send(t, d)
      PROVE  Goal
  <2>1. /\ out'[t] = [src |-> Mine(t), id |-> sent + 1] /\ sent' = sent + 1
        /\ Mine(t)' = Mine(t) /\ UNCHANGED <<queue, msg>>
    BY <1>21 DEF Send, GrabTo, Shape, CallOK, Inv, queues, loop, Mine
  <2>2. Fresh(t)'
    <3>1. out'[t].src = Mine(t)' /\ out'[t].id = sent + 1
      BY <2>1
    <3>2. ASSUME NEW s \in Service, NEW x \in Elems(queue'[s])
          PROVE  Before(x, out'[t])
      <4>1. x.id <= sent /\ x.id \in Nat
        BY <1>1, <2>1, <3>2 DEF OrderOK
      <4> QED
        BY <4>1, <3>1, <1>1 DEF Before
    <3>3. ASSUME NEW u \in Thread
          PROVE  Before(msg'[u], out'[t])
      <4>1. msg'[u].id <= sent /\ msg'[u].id \in Nat
        BY <1>1, <2>1 DEF OrderOK, OrderOf
      <4> QED
        BY <4>1, <3>1, <1>1 DEF Before
    <3> QED
      BY <3>1, <3>2, <3>3, <2>1, <1>1 DEF Fresh
  <2>3. /\ held'[t] = held[t] /\ Busy(t)' = Busy(t) /\ At(t)' = At(t)
    BY <1>21, <1>3 DEF Send, GrabTo, Goto, Busy, At, Shape, CallOK, loop
  <2> QED
    BY <1>1, <1>3, <1>4, <2>1, <2>2, <2>3 DEF OrderOf
<1>22. ASSUME NEW d \in Service, Kill(t, d)
      PROVE  Goal
  <2>1. /\ pc'[t] = "push" => out'[t].id = 0
        /\ UNCHANGED <<queue, msg, held, new>> /\ sent <= sent'
    BY <1>22, <1>1, <1>3 DEF Kill, GrabTo, Goto, Shape, CallOK, queues, loop
  <2>2. pc'[t] = "push" => Fresh(t)'
    BY <2>1, <1>1 DEF Fresh
  <2>3. Busy(t)' /\ At(t)' = "retire"
    BY <1>22, <1>3 DEF Kill, GrabTo, Goto, Busy, At, Shape, CallOK, loop
  <2> QED
    BY <1>1, <1>3, <1>4, <2>1, <2>2, <2>3 DEF OrderOf
<1>23. ASSUME CbReturn(t)
      PROVE  Goal
  <2>1. /\ UNCHANGED <<queue, sent, held, new, out, back>>
        /\ msg'[t] = NoMsg /\ pc'[t] # "push" /\ At(t)' # "free"
    BY <1>23, <1>3 DEF CbReturn, queues, call, Goto, At, Shape, LoopOK, CallOK
  <2>2. \A u \in Thread : msg'[u] = msg[u] \/ msg'[u] = NoMsg
    BY <1>0, <2>1
  <2>3. \A s \in Service : InOrder(queue'[s]) /\ \A x \in Elems(queue'[s]) : x.id <= sent'
    BY <2>1 DEF OrderOK
  <2>4. NoMsg.id = 0
    BY DEF NoMsg
  <2>5. OrderOf(t)'
    <3>1. held[t] # None => \A x \in Elems(queue[held[t]]) : Before(NoMsg, x)
      BY <1>1, <1>2 DEF Inv, Shape, LoopOK, Ref
    <3> QED
      BY <3>1, <2>1, <2>4, <1>1 DEF OrderOf
  <2>6. ASSUME NEW u \in Thread, u # t
        PROVE  OrderOf(u)'
    <3>1. OrderOf(u) /\ (Mine(u)' = Mine(u)) /\ (At(u)' = At(u)) /\ (Busy(u)' = Busy(u))
      BY <1>0, <2>6 DEF OrderOK
    <3>2. Locals(u)' = Locals(u) /\ msg'[u] = msg[u] /\ out'[u] = out[u]
      BY <1>0, <2>6
    <3>3. pc[u] = "push" => Fresh(u)'
      <4>1. ASSUME NEW v \in Thread, Before(msg[v], out[u])
            PROVE  Before(msg'[v], out[u])
        BY <4>1, <2>2, <1>1, <1>2
      <4> QED
        BY <4>1, <3>1, <3>2, <2>1 DEF OrderOf, Fresh
    <3> QED
      BY <3>1, <3>2, <3>3, <2>1 DEF OrderOf, Locals
  <2> QED
    BY <2>3, <2>5, <2>6 DEF OrderOK
<1>24. ASSUME Push(t)
      PROVE  Goal
  <2>1. /\ tgt[t] \in Service
        /\ queue' = [queue EXCEPT ![tgt[t]] = Append(queue[tgt[t]], out[t])]
        /\ UNCHANGED <<sent, msg, held, new, back, tgt>>
        /\ pc[t] = "push" /\ pc'[t] = "release"
    BY <1>24, <1>3, Hands DEF Push, Goto, Inv, Shape, CallOK, loop
  <2>2. Fresh(t)
    BY <2>1, <1>3 DEF OrderOf
  <2>3. \A x \in Elems(queue[tgt[t]]) : Before(x, out[t])
    BY <2>1, <2>2, <1>1 DEF Fresh, Before
  <2>4. /\ Elems(queue'[tgt[t]]) = Elems(queue[tgt[t]]) \cup {out[t]}
        /\ InOrder(queue'[tgt[t]])
    <3>1. queue'[tgt[t]] = Append(queue[tgt[t]], out[t])
      BY <2>1 DEF Inv, Shape, QueuesOK
    <3>2. InOrder(queue[tgt[t]])
      BY <2>1 DEF OrderOK
    <3> QED
      BY <3>1, <3>2, <2>1, <2>3, <1>1, PushOrder
  <2>5. \A s \in Service : s # tgt[t] => queue'[s] = queue[s]
    BY <2>1 DEF Inv, Shape, QueuesOK
  <2>6. \A s \in Service : \A x \in Elems(queue'[s]) : x \in Elems(queue[s]) \/ x = out[t]
    BY <2>4, <2>5
  <2>7. \A s \in Service : InOrder(queue'[s]) /\ \A x \in Elems(queue'[s]) : x.id <= sent'
    <3>1. \A s \in Service : InOrder(queue'[s])
      BY <2>4, <2>5 DEF OrderOK
    <3>2. out[t].id <= sent
      BY <2>2 DEF Fresh
    <3> QED
      BY <3>1, <3>2, <2>1, <2>6 DEF OrderOK
  <2>8. ASSUME NEW u \in Thread
        PROVE  held[u] # None => \A x \in Elems(queue'[held[u]]) : Before(msg[u], x)
    <3>1. Before(msg[u], out[t])
      BY <2>2, <1>1 DEF Fresh, Before
    <3>2. held[u] # None => /\ held[u] \in Service
                            /\ \A x \in Elems(queue[held[u]]) : Before(msg[u], x)
      BY DEF OrderOK, OrderOf, Inv, Shape, LoopOK, Ref
    <3> QED
      BY <3>1, <3>2, <2>6
  <2>9. ASSUME NEW u \in Thread, At(u) = "free"
        PROVE  queue'[Mine(u)] = queue[Mine(u)]
    <3>1. Mine(u) \in release /\ Mine(u) \in Service
      BY <2>9, ConstantsAssumption DEF Inv, LifeOK, OnlyMarkedDropped, Shape, QueuesOK
    <3>2. tgt[t] \notin release
      BY <2>1, ConstantsAssumption DEF Inv, LifeOK, QueueOutlives, RefsAlive
    <3> QED
      BY <3>1, <3>2, <2>5
  <2>10. OrderOf(t)'
    <3>1. At(t)' = At(t) /\ Busy(t)' = Busy(t) /\ Mine(t)' = Mine(t)
      BY <2>1 DEF At, Busy, Mine
    <3> QED
      BY <3>1, <2>1, <2>8, <2>9, <1>3 DEF OrderOf
  <2>11. ASSUME NEW u \in Thread, u # t
         PROVE  OrderOf(u)'
    <3>1. OrderOf(u) /\ (Mine(u)' = Mine(u)) /\ (At(u)' = At(u)) /\ (Busy(u)' = Busy(u))
      BY <1>0, <2>11 DEF OrderOK
    <3>2. Locals(u)' = Locals(u) /\ msg'[u] = msg[u] /\ out'[u] = out[u]
      BY <1>0, <2>11
    <3>3. pc[u] = "push" => Fresh(u)'
      <4>1. CASE out[u].id > 0 /\ pc[u] = "push"
        <5>1. out[u].src = Mine(u)
          BY <3>1, <4>1 DEF OrderOf, Fresh
        <5>2. Before(out[t], out[u])
          BY <5>1, <2>2, <2>11, <1>1, MineAlone DEF Fresh, Before
        <5> QED
          BY <5>2, <4>1, <3>1, <3>2, <2>1, <2>6 DEF OrderOf, Fresh
      <4>2. CASE ~(out[u].id > 0)
        BY <4>2, <3>1, <3>2, <2>1 DEF OrderOf, Fresh
      <4> QED
        BY <4>1, <4>2
    <3> QED
      BY <3>1, <3>2, <3>3, <2>1, <2>8, <2>9 DEF OrderOf, Locals
  <2> QED
    BY <2>7, <2>10, <2>11 DEF OrderOK
<1>25. ASSUME NEW q \in Service, queue[q] # << >>, Owns(t, q),
             queue' = [queue EXCEPT ![q] = Tail(queue[q])],
             msg'[t] \in {msg[t], Head(queue[q])}, sent' = sent,
             OrderOf(t)'
      PROVE  Goal
  <2>1. /\ Head(queue[q]) \in Elems(queue[q])
        /\ Elems(queue'[q]) \subseteq Elems(queue[q])
        /\ InOrder(queue'[q])
    <3>1. queue'[q] = Tail(queue[q]) /\ InOrder(queue[q])
      BY <1>25 DEF Inv, Shape, QueuesOK, OrderOK
    <3> QED
      BY <3>1, <1>1, <1>25, PopOrder
  <2>2. \A s \in Service : s # q => queue'[s] = queue[s]
    BY <1>25 DEF Inv, Shape, QueuesOK
  <2>3. \A s \in Service : Elems(queue'[s]) \subseteq Elems(queue[s])
    BY <2>1, <2>2
  <2>4. \A s \in Service : InOrder(queue'[s]) /\ \A x \in Elems(queue'[s]) : x.id <= sent'
    <3>1. \A s \in Service : InOrder(queue'[s])
      BY <2>1, <2>2 DEF OrderOK
    <3> QED
      BY <3>1, <2>3, <1>25 DEF OrderOK
  <2>5. ASSUME NEW u \in Thread, u # t
        PROVE  OrderOf(u)'
    <3>1. OrderOf(u) /\ (Mine(u)' = Mine(u)) /\ (At(u)' = At(u)) /\ (Busy(u)' = Busy(u))
      BY <1>0, <2>5 DEF OrderOK
    <3>2. Locals(u)' = Locals(u) /\ msg'[u] = msg[u] /\ out'[u] = out[u]
      BY <1>0, <2>5
    <3>3. pc[u] = "push" => Fresh(u)'
      <4>1. ASSUME pc[u] = "push", out[u].id > 0, NEW v \in Thread
            PROVE  Before(msg'[v], out[u])
        <5>1. Before(msg[v], out[u]) /\ Before(Head(queue[q]), out[u])
          BY <4>1, <3>1, <2>1, <1>25 DEF OrderOf, Fresh
        <5> QED
          BY <5>1, <1>0, <1>25
      <4> QED
        BY <4>1, <3>1, <3>2, <2>3, <1>25 DEF OrderOf, Fresh
    <3>4. At(u) = "free" => queue'[Mine(u)] = << >>
      <4>1. At(u) = "free" => Mine(u) \in Service
        BY DEF Inv, LifeOK, OnlyMarkedDropped, Shape, QueuesOK
      <4>2. At(u) = "free" => Mine(u) # q
        BY <3>1, <1>25 DEF OrderOf
      <4> QED
        BY <4>1, <4>2, <2>2, <3>1 DEF OrderOf
    <3>5. held[u] # None => \A x \in Elems(queue'[held[u]]) : Before(msg[u], x)
      BY <3>1, <2>3 DEF OrderOf, Inv, Shape, LoopOK, Ref
    <3> QED
      BY <3>1, <3>2, <3>3, <3>4, <3>5, <1>25 DEF OrderOf, Locals
  <2> QED
    BY <2>4, <2>5, <1>25 DEF OrderOK
<1>26. ASSUME MqPop(t)
      PROVE  Goal
  <2>1. held[t] \in Service /\ Owns(t, held[t]) /\ new[t] = None /\ pc[t] = "mqpop"
    BY <1>26, Hands DEF Inv, MqPop, Owns
  <2>2. msg[t] = NoMsg
    BY <2>1, <1>3 DEF OrderOf, Busy, At
  <2>3. CASE queue[held[t]] = << >>
    BY <1>1, <1>3, <1>4, <1>26, <2>1, <2>2, <2>3, ConstantsAssumption DEF MqPop, Busy, At,
       Goto, ReleaseThen, Shape, CallOK, Mine
  <2>4. CASE queue[held[t]] # << >>
    <3> DEFINE q == held[t]
    <3>1. /\ queue' = [queue EXCEPT ![q] = Tail(queue[q])]
          /\ msg'[t] = Head(queue[q])
          /\ UNCHANGED <<held, new, sent, back>>
          /\ pc'[t] \in {"length", "cb"}
      BY <1>26, <1>3, <2>1, <2>4 DEF MqPop, Goto, Shape, LoopOK, CallOK
    <3>2. queue'[q] = Tail(queue[q]) /\ queue[q] \in Seq(Message) /\ InOrder(queue[q])
      BY <2>1, <3>1 DEF Inv, Shape, QueuesOK, OrderOK
    <3>3. \A x \in Elems(queue'[q]) : Before(msg'[t], x)
      BY <3>1, <3>2, <2>4, PopOrder
    <3>4. msg'[t].id <= sent'
      <4>1. Head(queue[q]) \in Elems(queue[q])
        BY <3>2, <2>4, PopOrder
      <4> QED
        BY <4>1, <3>1, <2>1 DEF OrderOK
    <3>5. Busy(t)' /\ At(t)' # "free" /\ pc'[t] # "push"
      BY <3>1 DEF Busy, At
    <3>6. OrderOf(t)'
      BY <3>1, <3>3, <3>4, <3>5 DEF OrderOf
    <3> QED
      BY <1>25, <2>1, <2>4, <3>1, <3>6
  <2> QED
    BY <2>3, <2>4
<1>27. ASSUME Drop(t)
      PROVE  Goal
  <2> DEFINE q == Mine(t)
  <2>1. q \in Service /\ Owns(t, q) /\ pc[t] = "drop" /\ queue[q] # << >>
    BY <1>27, Hands DEF Inv, Drop, Owns, Mine
  <2>2. /\ queue' = [queue EXCEPT ![q] = Tail(queue[q])]
        /\ UNCHANGED <<held, new, sent, msg>>
        /\ At(t)' = "drop" /\ Mine(t)' = q
        /\ pc'[t] = "push" => out'[t].id = 0
    BY <1>27, <1>3, <2>1 DEF Drop, GrabTo, Goto, At, Mine, loop, Shape, CallOK
  <2>3. queue'[q] = Tail(queue[q]) /\ queue[q] \in Seq(Message)
    BY <2>1, <2>2 DEF Inv, Shape, QueuesOK
  <2>4. \A s \in Service : Elems(queue'[s]) \subseteq Elems(queue[s])
    <3>1. \A s \in Service : s # q => queue'[s] = queue[s]
      BY <2>2 DEF Inv, Shape, QueuesOK
    <3> QED
      BY <3>1, <2>1, <2>3, PopOrder
  <2>5. OrderOf(t)'
    <3>1. pc'[t] = "push" => Fresh(t)'
      BY <2>2, <1>1 DEF Fresh
    <3>2. held'[t] # None => \A x \in Elems(queue'[held'[t]]) : Before(msg[t], x)
      BY <2>2, <2>4, <1>3 DEF OrderOf, Shape, LoopOK, Ref
    <3>3. Busy(t)' = Busy(t)
      BY <2>1, <2>2 DEF Busy, At
    <3> QED
      BY <3>1, <3>2, <3>3, <2>2, <1>3 DEF OrderOf
  <2> QED
    BY <1>25, <2>1, <2>2, <2>5
<1> QED
  BY <1>5, <1>6, <1>7, <1>8, <1>9, <1>10, <1>11, <1>12, <1>13, <1>14, <1>15, <1>16, <1>17, <1>18, <1>19, <1>20, <1>21, <1>22, <1>23, <1>24, <1>26, <1>27 DEF Step, Choose

-----------------------------------------------------------------------------
(* The theorems about launch and order                                      *)

\* Both invariants hold when the threads start.
LEMMA InitOrder ==
  ASSUME Init
  PROVE  LaunchOK /\ OrderOK
<1>1. LaunchOK
  BY ConstantsAssumption DEF Init, LaunchOK, LaunchOf, At
<1>2. ASSUME NEW s \in Service
      PROVE  /\ InOrder(queue[s])
             /\ \A x \in Elems(queue[s]) : x.id = 0
  <2>1. CASE s \in Boot
    <3>1. queue[s] = << [src |-> s, id |-> 0] >>
      BY <2>1 DEF Init
    <3>2. Len(queue[s]) = 1 /\ DOMAIN queue[s] = 1 .. 1 /\ queue[s][1] = [src |-> s, id |-> 0]
      BY <3>1
    <3> QED
      BY <3>2 DEF InOrder, Elems
  <2>2. CASE s \notin Boot
    <3>1. queue[s] = << >>
      BY <2>2 DEF Init
    <3> QED
      BY <3>1 DEF InOrder, Elems
  <2> QED
    BY <2>1, <2>2
<1>3. ASSUME NEW t \in Thread
      PROVE  OrderOf(t)
  BY DEF Init, OrderOf, At, NoMsg
<1> QED
  BY <1>1, <1>2, <1>3 DEF OrderOK, Init

\* Both invariants are kept by every step of the threads.
LEMMA NextOrder ==
  ASSUME Inv, Inv', LaunchOK, OrderOK, [Next]_vars
  PROVE  LaunchOK' /\ OrderOK'
<1>1. ASSUME NEW t \in Thread, Step(t) \/ Choose(t)
      PROVE  LaunchOK' /\ OrderOK'
  BY <1>1, LaunchStep, OrderStep
<1>2. CASE UNCHANGED vars
  <2>1. UNCHANGED <<registered, init, queue, pc, back, held, cur, msg, tgt, out, dead,
                    victim, new, own, sent>>
    BY <1>2 DEF vars, store, queues, loop, call
  <2>2. LaunchOK'
    BY <2>1 DEF LaunchOK, LaunchOf, At
  <2>3. OrderOK'
    BY <2>1 DEF OrderOK, OrderOf, InOrder, Elems, Before, Busy, Fresh, At, Mine
  <2> QED
    BY <2>2, <2>3
<1> QED
  BY <1>1, <1>2 DEF Next

\* The invariants of this module hold in every reachable state.
THEOREM OrderInv == Spec => [](LaunchOK /\ OrderOK)
<1>1. Init => LaunchOK /\ OrderOK
  BY InitOrder
<1>2. Inv /\ Inv' /\ (LaunchOK /\ OrderOK) /\ [Next]_vars => (LaunchOK /\ OrderOK)'
  BY NextOrder
<1> QED
  BY <1>1, <1>2, DispatchInv, PTL DEF Spec

\* The assertion of dispatch_message, assert(ctx->init), holds: the callback
\* of a service runs only after its skynet_context_new has finished.
THEOREM CallbackAfterInit == Spec => []InitBeforeDispatch
<1>1. Inv /\ LaunchOK => InitBeforeDispatch
  <2> SUFFICES ASSUME Inv, LaunchOK, NEW t \in Thread, pc[t] = "cb"
               PROVE  held[t] \in init
    BY DEF InitBeforeDispatch
  <2>1. held[t] \in Service /\ cur[t] = held[t]
    BY Hands DEF Inv
  <2> QED
    BY <2>1, ConstantsAssumption DEF LaunchOK, LaunchOf
<1> QED
  BY <1>1, OrderInv, DispatchInv, PTL

\* What one service sent to another is waiting, and is handled, in sending order.
THEOREM SendOrderKept == Spec => []PerSenderOrder
<1>1. ASSUME NEW a \in Nat, NEW b \in Nat, a * b > 0
      PROVE  a > 0 /\ b > 0
  <2>1. CASE a = 0
    BY <1>1, <2>1
  <2>2. CASE b = 0
    BY <1>1, <2>2
  <2> QED
    BY <2>1, <2>2
<1>2. Inv /\ OrderOK => PerSenderOrder
  <2> SUFFICES ASSUME Inv, OrderOK, NEW s \in Service
               PROVE  LET Ordered(a, b) == a.src = b.src /\ a.src # None /\ a.id * b.id > 0
                                             => a.id < b.id
                      IN  /\ \A j, k \in DOMAIN queue[s] :
                               j < k => Ordered(queue[s][j], queue[s][k])
                          /\ \A m \in InHand(s), k \in DOMAIN queue[s] :
                               Ordered(m, queue[s][k])
    BY DEF PerSenderOrder
  <2>1. ASSUME NEW a \in Message, NEW b \in Message, Before(a, b),
               a.src = b.src, a.src # None, a.id * b.id > 0
        PROVE  a.id < b.id
    <3>1. a.id \in Nat /\ b.id \in Nat
      BY ConstantsAssumption DEF Message
    <3> QED
      BY <3>1, <2>1, <1>1 DEF Before
  <2>2. /\ queue[s] \in Seq(Message) /\ InOrder(queue[s])
        /\ \A k \in DOMAIN queue[s] : queue[s][k] \in Message
                                        /\ queue[s][k] \in Elems(queue[s])
    BY DEF Inv, Shape, QueuesOK, OrderOK, Elems
  <2>3. ASSUME NEW j \in DOMAIN queue[s], NEW k \in DOMAIN queue[s], j < k
        PROVE  Before(queue[s][j], queue[s][k])
    BY <2>2, <2>3 DEF InOrder
  <2>4. ASSUME NEW m \in InHand(s), NEW k \in DOMAIN queue[s]
        PROVE  m \in Message /\ Before(m, queue[s][k])
    <3>1. PICK u \in Thread : held[u] = s /\ m = msg[u]
      BY <2>4 DEF InHand
    <3>2. msg[u] \in Message /\ \A x \in Elems(queue[s]) : Before(msg[u], x)
      BY <3>1, ConstantsAssumption DEF Inv, Shape, LoopOK, OrderOK, OrderOf
    <3> QED
      BY <3>1, <3>2, <2>2
  <2> QED
    BY <2>1, <2>2, <2>3, <2>4
<1> QED
  BY <1>2, OrderInv, DispatchInv, PTL

-----------------------------------------------------------------------------
(* The dispatch machinery implements Mailbox                                *)

\* InHand and the message being handled, for any assignment of queues and
\* messages to threads.
HandOf(h, m, s) == {m[t] : t \in {u \in Thread : h[u] = s /\ m[u] # NoMsg}}

AnyOf(S) == IF S = {} THEN NoMsg ELSE CHOOSE m \in S : TRUE

ServedBy(h, m) == [s \in Service |-> AnyOf(HandOf(h, m, s))]

Serving == ServedBy(held, msg)

\* A queue is in one worker's hands, so the message being handled is the one
\* that worker has.
LEMMA ServedIs ==
  ASSUME NEW h, NEW m, NEW s \in Service,
         \A u, v \in Thread : h[u] = s /\ h[v] = s => u = v
  PROVE  /\ \A u \in Thread : h[u] = s => ServedBy(h, m)[s] = m[u]
         /\ (\A u \in Thread : h[u] = s => m[u] = NoMsg) => ServedBy(h, m)[s] = NoMsg
<1>1. ASSUME NEW u \in Thread, h[u] = s, m[u] # NoMsg
      PROVE  ServedBy(h, m)[s] = m[u]
  <2>1. HandOf(h, m, s) = {m[u]}
    BY <1>1 DEF HandOf
  <2> QED
    BY <2>1 DEF ServedBy, AnyOf
<1>2. ASSUME \A u \in Thread : h[u] = s => m[u] = NoMsg
      PROVE  ServedBy(h, m)[s] = NoMsg
  <2>1. HandOf(h, m, s) = {}
    BY <1>2 DEF HandOf
  <2> QED
    BY <2>1 DEF ServedBy, AnyOf
<1>3. ASSUME NEW u \in Thread, h[u] = s, m[u] = NoMsg
      PROVE  ServedBy(h, m)[s] = m[u]
  BY <1>2, <1>3
<1> QED
  BY <1>1, <1>2, <1>3

\* A thread that takes or lets go of a queue has no message in hand: the
\* messages being handled stay the same.
LEMMA SameServing ==
  ASSUME NEW t \in Thread, NEW h, NEW g, NEW m,
         \A u \in Thread : u # t => g[u] = h[u],
         g[t] # h[t] => m[t] = NoMsg
  PROVE  ServedBy(g, m) = ServedBy(h, m)
<1>1. ASSUME NEW s \in Service
      PROVE  HandOf(g, m, s) = HandOf(h, m, s)
  <2>1. \A u \in Thread : g[u] = s /\ m[u] # NoMsg <=> h[u] = s /\ m[u] # NoMsg
    OBVIOUS
  <2>2. {u \in Thread : g[u] = s /\ m[u] # NoMsg}
          = {u \in Thread : h[u] = s /\ m[u] # NoMsg}
    BY <2>1
  <2> QED
    BY <2>2, Zenon DEF HandOf
<1>2. ASSUME NEW s \in Service
      PROVE  ServedBy(g, m)[s] = ServedBy(h, m)[s]
  BY <1>1 DEF ServedBy
<1>3. /\ ServedBy(g, m) = [s \in Service |-> ServedBy(g, m)[s]]
      /\ ServedBy(h, m) = [s \in Service |-> ServedBy(h, m)[s]]
  BY DEF ServedBy
<1> QED
  BY <1>2, <1>3

\* One worker changes the message it has in hand.
LEMMA NewServing ==
  ASSUME NEW t \in Thread, NEW h \in [Thread -> Ref], NEW m, NEW w, h[t] \in Service,
         \A u, v \in Thread : h[u] = h[v] /\ h[u] # None => u = v,
         \A u \in Thread : u # t => w[u] = m[u]
  PROVE  ServedBy(h, w) = [ServedBy(h, m) EXCEPT ![h[t]] = w[t]]
<1>1. ServedBy(h, w)[h[t]] = w[t]
  BY ServedIs, ConstantsAssumption
<1>2. ASSUME NEW s \in Service, s # h[t]
      PROVE  ServedBy(h, w)[s] = ServedBy(h, m)[s]
  <2>1. HandOf(h, w, s) = HandOf(h, m, s)
    BY <1>2 DEF HandOf
  <2> QED
    BY <2>1 DEF ServedBy
<1>3. /\ ServedBy(h, w) = [s \in Service |-> ServedBy(h, w)[s]]
      /\ DOMAIN ServedBy(h, m) = Service
  BY DEF ServedBy
<1> QED
  BY <1>1, <1>2, <1>3

\* When phase, queue and message being handled stay, the mailbox does.
LEMMA BoxStays ==
  ASSUME UNCHANGED <<Phase, queue, Serving>>
  PROVE  UNCHANGED Box!vars
  BY DEF Box!vars, Serving, ServedBy, AnyOf, HandOf, InHand

\* What the phase of a service is, read off its queue, mark and handle.
LEMMA PhaseIs ==
  ASSUME NEW s \in Service
  PROVE  /\ mq[s] = "absent" => Phase[s] = "absent"
         /\ mq[s] = "freed" => Phase[s] = "gone"
         /\ mq[s] = "alive" /\ s \in release => Phase[s] = "closed"
         /\ mq[s] = "alive" /\ s \notin release /\ s \notin registered => Phase[s] = "closing"
         /\ mq[s] = "alive" /\ s \notin release /\ s \in registered => Phase[s] = "open"
         /\ mq'[s] = "absent" => Phase'[s] = "absent"
         /\ mq'[s] = "freed" => Phase'[s] = "gone"
         /\ mq'[s] = "alive" /\ s \in release' => Phase'[s] = "closed"
         /\ mq'[s] = "alive" /\ s \notin release' /\ s \notin registered' =>
              Phase'[s] = "closing"
         /\ mq'[s] = "alive" /\ s \notin release' /\ s \in registered' => Phase'[s] = "open"
  BY DEF Phase

\* The life of one service moves on, the others stay where they are.
LEMMA PhaseMoves ==
  ASSUME NEW q \in Service,
         \A s \in Service : s # q => /\ mq'[s] = mq[s]
                                     /\ s \in release' <=> s \in release
                                     /\ s \in registered' <=> s \in registered
  PROVE  Phase' = [Phase EXCEPT ![q] = Phase'[q]]
<1>1. ASSUME NEW s \in Service, s # q
      PROVE  Phase'[s] = Phase[s]
  BY <1>1 DEF Phase
<1>2. Phase' = [s \in Service |-> Phase'[s]] /\ DOMAIN Phase = Service
  BY DEF Phase
<1> QED
  BY <1>1, <1>2

\* Every step of a thread is a step of one mailbox, or none.
LEMMA BoxStep ==
  ASSUME Inv, Inv', OrderOK, OrderOK', NEW t \in Thread, Step(t) \/ Choose(t)
  PROVE  [Box!Next]_(Box!vars)
<1> DEFINE Stays == UNCHANGED <<Phase, queue, Serving>>
           Moves == \E s \in Service :
                      \/ Box!Open(s) \/ Box!Begin(s) \/ Box!End(s) \/ Box!Close(s)
                      \/ Box!Discard(s) \/ Box!Vanish(s)
                      \/ \E m \in Message : Box!Accept(s, m)
           Goal == Stays \/ Moves
<1> SUFFICES Goal
  BY BoxStays DEF Box!Next, Stays, Moves, Goal
<1> HIDE DEF Stays, Moves, Goal
<1>0. /\ held \in [Thread -> Ref] /\ held' \in [Thread -> Ref]
      /\ msg \in [Thread -> Message] /\ msg' \in [Thread -> Message]
      /\ ControlOf(t) /\ OrderOf(t) /\ Shape
      /\ \A u \in Thread : u # t => held'[u] = held[u] /\ msg'[u] = msg[u]
  BY Others DEF Inv, Shape, LoopOK, ControlOK, OrderOK, Locals
<1>1. \A u, v \in Thread : held[u] = held[v] /\ held[u] # None => u = v
  BY <1>0 DEF Inv, OwnerOK, Owns, Ref
<1>2. ASSUME UNCHANGED msg, held'[t] # held[t] => msg[t] = NoMsg
      PROVE  Serving' = Serving
  <2>1. ServedBy(held', msg) = ServedBy(held, msg)
    BY <1>0, <1>2, SameServing
  <2> QED
    BY <1>2, <2>1 DEF Serving, ServedBy, HandOf
<1>3. ASSUME UNCHANGED held, held[t] \in Service
      PROVE  Serving' = [Serving EXCEPT ![held[t]] = msg'[t]]
  <2>1. ServedBy(held, msg') = [ServedBy(held, msg) EXCEPT ![held[t]] = msg'[t]]
    BY <1>0, <1>1, <1>3, NewServing
  <2> QED
    BY <1>3, <2>1 DEF Serving, ServedBy, HandOf
<1>4. ASSUME UNCHANGED <<mq, release, registered>>
      PROVE  Phase' = Phase
  BY <1>4 DEF Phase
<1>5. ASSUME UNCHANGED <<mq, release, registered, queue, msg>>,
             held'[t] # held[t] => msg[t] = NoMsg
      PROVE  Goal
  BY <1>2, <1>4, <1>5 DEF Goal, Stays
<1>6. \A q \in Service : ctx[q] = "alive" => mq[q] = "alive" /\ q \notin release
  BY DEF Inv, LifeOK, QueueOutlives
<1>7. ASSUME Release(t)
      PROVE  Goal
  BY <1>0, <1>5, <1>7, ConstantsAssumption DEF Release, OrderOf, Busy, ControlOf, At,
     Shape, LoopOK, CallOK, loop, queues, Ref
<1>8. ASSUME Pop(t)
      PROVE  Goal
  BY <1>0, <1>5, <1>8, ConstantsAssumption DEF Pop, OrderOf, Busy, ControlOf, At,
     Shape, LoopOK, CallOK, store, call, Ref
<1>9. ASSUME Grab(t)
      PROVE  Goal
  BY <1>0, <1>5, <1>9, ConstantsAssumption DEF Grab, OrderOf, Busy, ControlOf, At,
     Shape, LoopOK, CallOK, call, queues, Ref
<1>10. ASSUME Length(t)
      PROVE  Goal
  BY <1>0, <1>5, <1>10, ConstantsAssumption DEF Length, OrderOf, Busy, ControlOf, At,
     Shape, LoopOK, CallOK, store, call, queues, Ref
<1>11. ASSUME TailPop(t)
      PROVE  Goal
  BY <1>0, <1>5, <1>11, ConstantsAssumption DEF TailPop, OrderOf, Busy, ControlOf, At,
     Shape, LoopOK, CallOK, store, ReleaseThen, Ref
<1>12. ASSUME Requeue(t)
      PROVE  Goal
  BY <1>0, <1>5, <1>12, ConstantsAssumption DEF Requeue, OrderOf, Busy, ControlOf, At,
     Shape, LoopOK, CallOK, store, ReleaseThen, Ref
<1>13. ASSUME MqRelease(t)
      PROVE  Goal
  BY <1>0, <1>5, <1>13, ConstantsAssumption DEF MqRelease, OrderOf, Busy, ControlOf, At,
     Shape, LoopOK, CallOK, store, loop, call, LetGo, Ref
<1>14. ASSUME DropEnd(t)
      PROVE  Goal
  BY <1>0, <1>5, <1>14, ConstantsAssumption DEF DropEnd, OrderOf, Busy, ControlOf, At,
     Shape, LoopOK, CallOK, store, loop, call, Ref
<1>15. ASSUME InitOk(t)
      PROVE  Goal
  BY <1>0, <1>5, <1>15, ConstantsAssumption DEF InitOk, OrderOf, Busy, ControlOf, At,
     Shape, LoopOK, CallOK, store, loop, ReleaseThen, queues, Ref
<1>16. ASSUME InitFail(t)
      PROVE  Goal
  BY <1>0, <1>5, <1>16, ConstantsAssumption DEF InitFail, OrderOf, Busy, ControlOf, At,
     Shape, LoopOK, CallOK, store, loop, ReleaseThen, queues, Ref
<1>17. ASSUME Launched(t)
      PROVE  Goal
  BY <1>0, <1>5, <1>17, ConstantsAssumption DEF Launched, OrderOf, Busy, ControlOf, At,
     Shape, LoopOK, CallOK, loop, call, queues, Ref
<1>18. ASSUME Handover(t)
      PROVE  Goal
  BY <1>0, <1>5, <1>18, ConstantsAssumption DEF Handover, OrderOf, Busy, ControlOf, At,
     Shape, LoopOK, CallOK, store, loop, Ref
<1>19. ASSUME NEW d \in Service, Send(t, d)
      PROVE  Goal
  BY <1>0, <1>5, <1>19, ConstantsAssumption DEF Send, OrderOf, Busy, ControlOf, At,
     Shape, LoopOK, CallOK, GrabTo, queues, loop, Ref
<1>20. ASSUME NEW d \in Service, Kill(t, d)
      PROVE  Goal
  BY <1>0, <1>5, <1>20, ConstantsAssumption DEF Kill, OrderOf, Busy, ControlOf, At,
     Shape, LoopOK, CallOK, GrabTo, queues, loop, Ref
<1>21. ASSUME Push(t)
      PROVE  Goal
  <2>1. tgt[t] \in Service /\ out[t] \in Message
    BY <1>21, Hands DEF Inv, Push, Shape, CallOK
  <2>2. ctx[tgt[t]] = "alive"
    BY <2>1, ConstantsAssumption DEF Inv, RefsAlive
  <2>3. Phase[tgt[t]] \in {"open", "closing"}
    BY <1>6, <2>1, <2>2, PhaseIs
  <2>4. Phase' = Phase /\ Serving' = Serving
    BY <1>2, <1>4, <1>21 DEF Push, loop, store
  <2>5. Box!Accept(tgt[t], out[t])
    BY <2>3, <2>4, <1>21 DEF Box!Accept, Box!Live, Push, Serving, ServedBy, AnyOf, HandOf,
       InHand
  <2> QED
    BY <2>1, <2>5 DEF Goal, Moves
<1>22. ASSUME Delete(t)
      PROVE  Goal
  <2>1. dead[t] \in Service /\ dead[t] # None
    BY <1>22, Hands, ConstantsAssumption DEF Inv, Delete
  <2>2. /\ ctx[dead[t]] = "alive" /\ dead[t] \notin registered
        /\ \A u \in Thread : cur[u] # dead[t]
    BY <2>1 DEF Inv, RefsAlive, LifeOK, OneDeleter
  <2>3. Phase[dead[t]] = "closing"
    BY <1>6, <2>1, <2>2, PhaseIs
  <2>4. Phase' = [Phase EXCEPT ![dead[t]] = "closed"]
    <3>1. release' = release \cup {dead[t]} /\ UNCHANGED <<mq, registered>>
      BY <1>22 DEF Delete
    <3>2. Phase'[dead[t]] = "closed"
      BY <3>1, <1>6, <2>1, <2>2, PhaseIs
    <3> QED
      BY <3>1, <3>2, <2>1, PhaseMoves
  <2>5. Serving[dead[t]] = NoMsg
    <3>1. ASSUME NEW u \in Thread, held[u] = dead[t], msg[u] # NoMsg
          PROVE  FALSE
      <4>1. cur[u] = held[u]
        BY <3>1, <2>1 DEF OrderOK, OrderOf, Busy, Inv, ControlOK, ControlOf
      <4> QED
        BY <4>1, <3>1, <2>2
    <3>2. \A u, v \in Thread : held[u] = dead[t] /\ held[v] = dead[t] => u = v
      BY <1>1, <2>1
    <3> QED
      BY <3>1, <3>2, <2>1, ServedIs DEF Serving
  <2>6. Serving' = Serving /\ queue' = queue
    BY <1>2, <1>22 DEF Delete, loop
  <2>7. Box!Close(dead[t])
    BY <2>3, <2>4, <2>5, <2>6 DEF Box!Close, Serving, ServedBy, AnyOf, HandOf, InHand
  <2> QED
    BY <2>1, <2>7 DEF Goal, Moves
<1>23. ASSUME MqPop(t)
      PROVE  Goal
  <2>1. held[t] \in Service /\ new[t] = None /\ pc[t] = "mqpop" /\ cur[t] = held[t]
    BY <1>23, Hands DEF Inv, MqPop
  <2>2. msg[t] = NoMsg
    BY <2>1, <1>0 DEF OrderOf, Busy, At
  <2>3. CASE queue[held[t]] = << >>
    BY <1>23, <1>5, <2>2, <2>3 DEF MqPop, store
  <2>4. CASE queue[held[t]] # << >>
    <3>1. /\ queue' = [queue EXCEPT ![held[t]] = Tail(queue[held[t]])]
          /\ msg'[t] = Head(queue[held[t]])
          /\ UNCHANGED <<held, mq, release, registered>>
      BY <1>23, <1>0, <2>4 DEF MqPop, store
    <3>2. ctx[held[t]] = "alive"
      BY <2>1, ConstantsAssumption DEF Inv, RefsAlive
    <3>3. Phase[held[t]] \in {"open", "closing"}
      BY <1>6, <2>1, <3>2, PhaseIs
    <3>4. Serving[held[t]] = NoMsg
      <4>1. \A u, v \in Thread : held[u] = held[t] /\ held[v] = held[t] => u = v
        BY <1>1, <2>1, ConstantsAssumption
      <4> QED
        BY <4>1, <2>1, <2>2, ServedIs DEF Serving
    <3>5. Phase' = Phase /\ Serving' = [Serving EXCEPT ![held[t]] = Head(queue[held[t]])]
      BY <1>3, <1>4, <2>1, <3>1
    <3>6. Box!Begin(held[t])
      BY <2>4, <3>1, <3>3, <3>4, <3>5 DEF Box!Begin, Box!Live, Serving, ServedBy, AnyOf,
         HandOf, InHand
    <3> QED
      BY <2>1, <3>6 DEF Goal, Moves
  <2> QED
    BY <2>3, <2>4
<1>24. ASSUME CbReturn(t)
      PROVE  Goal
  <2>1. held[t] \in Service
    BY <1>24, Hands DEF Inv, CbReturn
  <2>2. UNCHANGED <<queue, held, mq, release, registered>> /\ msg'[t] = NoMsg
    BY <1>24, <1>0 DEF CbReturn, store, queues
  <2>3. Phase' = Phase /\ Serving' = [Serving EXCEPT ![held[t]] = NoMsg]
    BY <1>3, <1>4, <2>1, <2>2
  <2>4. CASE Serving[held[t]] = NoMsg
    <3>1. Serving = [q \in Service |-> Serving[q]]
      BY DEF Serving, ServedBy
    <3>2. Serving' = Serving
      BY <2>3, <2>4, <3>1
    <3> QED
      BY <3>2, <2>2, <2>3 DEF Goal, Stays
  <2>5. CASE Serving[held[t]] # NoMsg
    <3>1. Box!End(held[t])
      BY <2>2, <2>3, <2>5 DEF Box!End, Serving, ServedBy, AnyOf, HandOf, InHand
    <3> QED
      BY <2>1, <3>1 DEF Goal, Moves
  <2> QED
    BY <2>4, <2>5
<1>25. ASSUME Drop(t)
      PROVE  Goal
  <2>1. Mine(t) \in Service /\ Owns(t, Mine(t)) /\ At(t) = "drop"
    BY <1>25, Hands DEF Inv, Drop, Mine, Owns, At
  <2>2. mq[Mine(t)] = "alive" /\ Mine(t) \in release
    BY <2>1 DEF Inv, OwnerOK, LifeOK, OnlyMarkedDropped
  <2>3. Phase[Mine(t)] = "closed"
    BY <2>1, <2>2, PhaseIs
  <2>4. Phase' = Phase /\ Serving' = Serving
    BY <1>2, <1>4, <1>25 DEF Drop, loop
  <2>5. Box!Discard(Mine(t))
    BY <2>3, <2>4, <1>25 DEF Box!Discard, Drop, Serving, ServedBy, AnyOf, HandOf, InHand
  <2> QED
    BY <2>1, <2>5 DEF Goal, Moves
<1>26. ASSUME Free(t)
      PROVE  Goal
  <2>1. Mine(t) \in Service /\ Owns(t, Mine(t)) /\ At(t) = "free"
    BY <1>26, Hands DEF Inv, Free, Mine, Owns, At
  <2>2. mq[Mine(t)] = "alive" /\ Mine(t) \in release /\ queue[Mine(t)] = << >>
    BY <2>1, <1>0 DEF Inv, OwnerOK, LifeOK, OnlyMarkedDropped, OrderOf
  <2>3. Phase[Mine(t)] = "closed"
    BY <2>1, <2>2, PhaseIs
  <2>4. /\ mq' = [mq EXCEPT ![Mine(t)] = "freed"] /\ UNCHANGED <<release, registered, queue>>
        /\ UNCHANGED msg /\ (held'[t] # held[t] => new[t] = None)
    BY <1>26 DEF Free, store, LetGo
  <2>5. Phase' = [Phase EXCEPT ![Mine(t)] = "gone"]
    <3>1. Phase'[Mine(t)] = "gone"
      BY <2>1, <2>4, PhaseIs DEF Inv, Shape, QueuesOK
    <3> QED
      BY <3>1, <2>1, <2>4, PhaseMoves DEF Inv, Shape, QueuesOK
  <2>6. Serving' = Serving
    BY <1>0, <1>2, <2>1, <2>4 DEF OrderOf, Busy
  <2>7. Box!Vanish(Mine(t))
    BY <2>2, <2>3, <2>4, <2>5, <2>6 DEF Box!Vanish, Serving, ServedBy, AnyOf, HandOf, InHand
  <2> QED
    BY <2>1, <2>7 DEF Goal, Moves
<1>27. ASSUME Retire(t)
      PROVE  Goal
  <2>1. CASE victim[t] \notin registered
    BY <1>27, <1>5, <2>1 DEF Retire, queues, loop
  <2>2. CASE victim[t] \in registered
    <3>1. victim[t] \in Service /\ ctx[victim[t]] = "alive"
      BY <2>2 DEF Inv, RefsAlive, Shape, StoreOK
    <3>2. /\ registered' = registered \ {victim[t]}
          /\ UNCHANGED <<mq, release, queue, held, msg>>
      BY <1>27, <2>2 DEF Retire, queues, loop
    <3>3. Phase[victim[t]] = "open" /\ Phase'[victim[t]] = "closing"
      BY <1>6, <2>2, <3>1, <3>2, PhaseIs
    <3>4. Phase' = [Phase EXCEPT ![victim[t]] = "closing"]
      BY <3>1, <3>2, <3>3, PhaseMoves
    <3>5. Serving' = Serving
      BY <1>2, <3>2
    <3>6. Box!Close(victim[t])
      BY <3>2, <3>3, <3>4, <3>5 DEF Box!Close, Serving, ServedBy, AnyOf, HandOf, InHand
    <3> QED
      BY <3>1, <3>6 DEF Goal, Moves
  <2> QED
    BY <2>1, <2>2
<1>28. ASSUME NEW d \in Service, Launch(t, d)
      PROVE  Goal
  <2>1. mq[d] = "absent" /\ d \notin release
    BY <1>28 DEF Launch, Inv, LifeOK, QueueOutlives
  <2>2. /\ mq' = [mq EXCEPT ![d] = "alive"] /\ registered' = registered \cup {d}
        /\ UNCHANGED <<release, queue, held, msg>>
    BY <1>28 DEF Launch, loop
  <2>3. Phase[d] = "absent" /\ Phase'[d] = "open"
    BY <2>1, <2>2, PhaseIs DEF Inv, Shape, QueuesOK
  <2>4. Phase' = [Phase EXCEPT ![d] = "open"]
    BY <2>2, <2>3, PhaseMoves DEF Inv, Shape, QueuesOK
  <2>5. Serving' = Serving
    BY <1>2, <2>2
  <2>6. Box!Open(d)
    BY <2>2, <2>3, <2>4, <2>5 DEF Box!Open, Serving, ServedBy, AnyOf, HandOf, InHand
  <2> QED
    BY <2>6 DEF Goal, Moves
<1> QED
  BY <1>7, <1>8, <1>9, <1>10, <1>11, <1>12, <1>13, <1>14, <1>15, <1>16, <1>17, <1>18, <1>19, <1>20, <1>21, <1>22, <1>23, <1>24, <1>25, <1>26, <1>27, <1>28 DEF Step, Choose

\* The dispatch machinery implements Mailbox: a service handles one message at a
\* time, first in first out, nothing is discarded before the last reference to its
\* context is gone or accepted after, and only an empty queue is freed.
THEOREM DispatchIsMailbox == Spec => MailboxSpec
<1>1. Init => Box!Init
  <2> SUFFICES ASSUME Init
               PROVE  Box!Init
    OBVIOUS
  <2>1. \A s \in Service : Phase[s] = IF s \in Boot THEN "open" ELSE "absent"
    BY DEF Init, Phase
  <2>2. Phase \in [Service -> {"absent", "open"}]
    <3>1. Phase = [s \in Service |-> Phase[s]]
      BY DEF Phase
    <3> QED
      BY <2>1, <3>1
  <2>3. \E first \in [Service -> Message] :
          queue = [s \in Service |-> IF Phase[s] = "open" THEN << first[s] >> ELSE << >>]
    <3> DEFINE first == [s \in Service |-> [src |-> s, id |-> 0]]
    <3>1. first \in [Service -> Message]
      BY ConstantsAssumption DEF Message
    <3>2. queue = [s \in Service |-> IF Phase[s] = "open" THEN << first[s] >> ELSE << >>]
      BY <2>1 DEF Init
    <3> QED
      BY <3>1, <3>2
  <2>4. Serving = [s \in Service |-> NoMsg]
    <3>1. \A s \in Service : HandOf(held, msg, s) = {}
      BY DEF HandOf, Init
    <3> QED
      BY <3>1 DEF Serving, ServedBy, AnyOf
  <2> QED
    BY <2>2, <2>3, <2>4 DEF Box!Init, Serving, ServedBy, AnyOf, HandOf, InHand
<1>2. ASSUME Inv, Inv', OrderOK, OrderOK', [Next]_vars
      PROVE  [Box!Next]_(Box!vars)
  <2>1. ASSUME NEW t \in Thread, Step(t) \/ Choose(t)
        PROVE  [Box!Next]_(Box!vars)
    BY <1>2, <2>1, BoxStep
  <2>2. CASE UNCHANGED vars
    <3>1. UNCHANGED <<mq, release, registered, queue, held, msg>>
      BY <2>2 DEF vars, store, queues, loop, call
    <3>2. UNCHANGED <<Phase, queue, Serving>>
      BY <3>1 DEF Phase, Serving, ServedBy, HandOf
    <3> QED
      BY <3>2, BoxStays
  <2> QED
    BY <1>2, <2>1, <2>2 DEF Next
<1> QED
  BY <1>1, <1>2, DispatchInv, OrderInv, PTL DEF Spec, MailboxSpec, Box!Spec
===============================================================================
