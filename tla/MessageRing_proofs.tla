-------------------------- MODULE MessageRing_proofs --------------------------
(***************************************************************************)
(* Proof that the ring buffer of skynet_mq.c is a FIFO queue, for every    *)
(* set of messages, initial capacity, overload threshold and bound.        *)
(*                                                                         *)
(* The lemmas are about rings as values: capacity c, head h, tail t and    *)
(* slots q.  The theorems apply them to the variables and to the primed    *)
(* variables.                                                              *)
(***************************************************************************)
EXTENDS MessageRing, SequenceTheorems, TLAPS

-----------------------------------------------------------------------------
(* The index arithmetic of the ring                                         *)

\* An index below the capacity is its own slot: no wrap.
LEMMA ModLow ==
  ASSUME NEW c \in Nat, c > 0, NEW x \in 0 .. c - 1
  PROVE  x % c = x
  OBVIOUS

\* An index that ran once over the end of the ring wraps by one capacity.
LEMMA ModHigh ==
  ASSUME NEW c \in Nat, c > 0, NEW x \in c .. 2 * c - 1
  PROVE  x % c = x - c
  OBVIOUS

\* The slot of the message k places behind head, without the modulus.
Slot(c, h, k) == IF h + k < c THEN h + k ELSE h + k - c

\* A ring of capacity c with head h, tail t and slots q, and the index after k.
IsRing(c, h, t, q) ==
    /\ c \in Nat /\ c > 1
    /\ h \in 0 .. c - 1
    /\ t \in 0 .. c - 1
    /\ q \in [0 .. c - 1 -> Mail]
After(c, k) == IF k + 1 >= c THEN 0 ELSE k + 1

\* The slots after a store at t, and after expand_queue (twice the capacity).
Stored(q, t, m) == [q EXCEPT ![t] = m]
Twice(c) == 2 * c
Grown(c, h, q, m) ==
    [k \in 0 .. Twice(c) - 1 |-> IF k < c THEN q[(h + k) % c] ELSE m]

\* skynet_mq_length and the messages, oldest first, of a ring.
Size(c, h, t) == IF h <= t THEN t - h ELSE t + c - h
Items(c, h, t, q) == [k \in 1 .. Size(c, h, t) |-> q[(h + k - 1) % c]]

\* (q->head + i) % q->cap of expand_queue is a slot of the ring, reached with
\* at most one wrap.
LEMMA SlotLemma ==
  ASSUME NEW c \in Nat, c > 1, NEW h \in 0 .. c - 1, NEW k \in 0 .. c - 1
  PROVE  (h + k) % c = Slot(c, h, k) /\ Slot(c, h, k) \in 0 .. c - 1
<1>1. CASE h + k < c
  <2>1. h + k \in 0 .. c - 1
    BY <1>1
  <2> QED
    BY <2>1, <1>1, ModLow DEF Slot
<1>2. CASE ~(h + k < c)
  <2>1. h + k \in c .. 2 * c - 1
    BY <1>2
  <2> QED
    BY <2>1, <1>2, ModHigh DEF Slot
<1> QED
  BY <1>1, <1>2

\* skynet_mq_length is at most cap - 1, as one slot always stays free, and the
\* messages of a ring are a sequence of that length.
LEMMA ItemsLemma ==
  ASSUME NEW c, NEW h, NEW t, NEW q, IsRing(c, h, t, q)
  PROVE  /\ Size(c, h, t) \in 0 .. c - 1
         /\ Items(c, h, t, q) \in Seq(Mail)
         /\ Len(Items(c, h, t, q)) = Size(c, h, t)
         /\ \A k \in 1 .. Size(c, h, t) :
              Items(c, h, t, q)[k] = q[Slot(c, h, k - 1)]
<1> DEFINE L == Size(c, h, t)
<1>1. L \in 0 .. c - 1
  BY DEF Size, IsRing
<1> HIDE DEF L
<1>2. ASSUME NEW k \in 1 .. L
      PROVE  /\ q[(h + k - 1) % c] = q[Slot(c, h, k - 1)]
             /\ q[(h + k - 1) % c] \in Mail
  <2>1. k - 1 \in 0 .. c - 1 /\ h + k - 1 = h + (k - 1)
    BY <1>1 DEF IsRing
  <2>2. (h + (k - 1)) % c = Slot(c, h, k - 1) /\ Slot(c, h, k - 1) \in 0 .. c - 1
    BY <2>1, SlotLemma DEF IsRing
  <2> QED
    BY <2>1, <2>2 DEF IsRing
<1>3. Items(c, h, t, q) = [k \in 1 .. L |-> q[(h + k - 1) % c]]
  BY DEF Items, L
<1>4. Items(c, h, t, q) \in [1 .. L -> Mail]
  BY <1>2, <1>3
<1>5. Items(c, h, t, q) \in Seq(Mail) /\ Len(Items(c, h, t, q)) = L
  BY <1>1, <1>4 DEF IsRing
<1> QED
  BY <1>1, <1>2, <1>3, <1>5 DEF L

-----------------------------------------------------------------------------
(* What the operations do to the messages                                   *)

\* skynet_mq_push into a ring that does not become full appends.
LEMMA PushLemma ==
  ASSUME NEW c, NEW h, NEW t, NEW q, IsRing(c, h, t, q), NEW m \in Mail,
         After(c, t) # h
  PROVE  /\ IsRing(c, h, After(c, t), Stored(q, t, m))
         /\ Items(c, h, After(c, t), Stored(q, t, m))
              = Append(Items(c, h, t, q), m)
<1> DEFINE q1 == Stored(q, t, m)
           t1 == After(c, t)
           L == Size(c, h, t)
<1>1. IsRing(c, h, t1, q1)
  BY DEF IsRing, After, Stored
<1>2. L \in Nat /\ Size(c, h, t1) = L + 1 /\ Slot(c, h, L) = t
  BY DEF IsRing, After, Size, Slot
<1>3. \A k \in 1 .. L : Slot(c, h, k - 1) \in 0 .. c - 1 /\ Slot(c, h, k - 1) # t
  BY DEF IsRing, Size, Slot
<1>4. \A k \in 1 .. L : q1[Slot(c, h, k - 1)] = q[Slot(c, h, k - 1)]
  BY <1>3 DEF IsRing, Stored
<1>5. q1[t] = m
  BY DEF IsRing, Stored
<1> HIDE DEF q1, L, t1
<1>6. /\ Items(c, h, t, q) \in Seq(Mail)
      /\ Len(Items(c, h, t, q)) = L
      /\ \A k \in 1 .. L : Items(c, h, t, q)[k] = q[Slot(c, h, k - 1)]
  BY ItemsLemma DEF L
<1>7. /\ Items(c, h, t1, q1) \in Seq(Mail)
      /\ Len(Items(c, h, t1, q1)) = Size(c, h, t1)
      /\ \A k \in 1 .. Size(c, h, t1) :
           Items(c, h, t1, q1)[k] = q1[Slot(c, h, k - 1)]
  BY <1>1, ItemsLemma
<1>8. /\ Append(Items(c, h, t, q), m) \in Seq(Mail)
      /\ Len(Append(Items(c, h, t, q), m)) = L + 1
      /\ \A k \in 1 .. L : Append(Items(c, h, t, q), m)[k] = Items(c, h, t, q)[k]
      /\ Append(Items(c, h, t, q), m)[L + 1] = m
  BY <1>6, <1>2
<1>9. ASSUME NEW k \in 1 .. L + 1
      PROVE  Items(c, h, t1, q1)[k] = Append(Items(c, h, t, q), m)[k]
  <2>1. CASE k \in 1 .. L
    BY <2>1, <1>2, <1>4, <1>6, <1>7, <1>8
  <2>2. CASE k = L + 1
    BY <2>2, <1>2, <1>5, <1>7, <1>8
  <2>3. k \in 1 .. L \/ k = L + 1
    BY <1>2
  <2> QED
    BY <2>1, <2>2, <2>3
<1>10. Items(c, h, t1, q1) = Append(Items(c, h, t, q), m)
  BY <1>2, <1>7, <1>8, <1>9, SeqEqual
<1> QED
  BY <1>1, <1>10 DEF q1, t1

\* skynet_mq_push into a ring that becomes full appends too: expand_queue
\* moves the messages to the front of the larger ring in their order.
LEMMA ExpandLemma ==
  ASSUME NEW c, NEW h, NEW t, NEW q, IsRing(c, h, t, q), NEW m \in Mail,
         After(c, t) = h
  PROVE  /\ IsRing(Twice(c), 0, c, Grown(c, h, Stored(q, t, m), m))
         /\ Items(Twice(c), 0, c, Grown(c, h, Stored(q, t, m), m))
              = Append(Items(c, h, t, q), m)
<1> DEFINE q1 == Stored(q, t, m)
           c2 == Twice(c)
           q2 == Grown(c, h, q1, m)
<1>1. c \in Nat /\ c > 1 /\ Size(c, h, t) = c - 1 /\ Slot(c, h, c - 1) = t
  BY DEF IsRing, After, Size, Slot
<1>2. \A k \in 0 .. c - 2 : Slot(c, h, k) \in 0 .. c - 1 /\ Slot(c, h, k) # t
  BY DEF IsRing, After, Slot
<1>3. \A k \in 0 .. c - 2 : q1[Slot(c, h, k)] = q[Slot(c, h, k)]
  BY <1>2 DEF IsRing, Stored
<1>4. q1[t] = m /\ q1 \in [0 .. c - 1 -> Mail]
  BY DEF IsRing, Stored
<1>5. /\ q2 = [k \in 0 .. c2 - 1 |-> IF k < c THEN q1[(h + k) % c] ELSE m]
      /\ c2 \in Nat /\ c2 = 2 * c
  BY <1>1 DEF Grown, Twice
<1> HIDE DEF q1, c2, q2
<1>6. ASSUME NEW k \in 0 .. c - 1
      PROVE  q2[k] = q1[Slot(c, h, k)] /\ q1[(h + k) % c] \in Mail
  <2>1. (h + k) % c = Slot(c, h, k) /\ Slot(c, h, k) \in 0 .. c - 1
    BY SlotLemma DEF IsRing
  <2>2. q2[k] = q1[(h + k) % c]
    BY <1>1, <1>5
  <2> QED
    BY <2>1, <2>2, <1>4
<1>7. q2 \in [0 .. c2 - 1 -> Mail]
  <2> SUFFICES ASSUME NEW k \in 0 .. c2 - 1
               PROVE  (IF k < c THEN q1[(h + k) % c] ELSE m) \in Mail
    BY <1>5
  <2>1. CASE k < c
    <3>1. k \in 0 .. c - 1
      BY <2>1, <1>1, <1>5
    <3> QED
      BY <2>1, <3>1, <1>6
  <2>2. CASE ~(k < c)
    BY <2>2
  <2> QED
    BY <2>1, <2>2
<1>8. IsRing(c2, 0, c, q2)
  <2>1. c2 > 1 /\ 0 \in 0 .. c2 - 1 /\ c \in 0 .. c2 - 1 /\ c2 \in Nat
    BY <1>1, <1>5
  <2> QED
    BY <2>1, <1>7 DEF IsRing
<1>9. Size(c2, 0, c) = c /\ \A k \in 1 .. c : Slot(c2, 0, k - 1) = k - 1
  BY <1>1, <1>5 DEF Size, Slot
<1>10. /\ Items(c, h, t, q) \in Seq(Mail)
       /\ Len(Items(c, h, t, q)) = Size(c, h, t)
       /\ \A k \in 1 .. Size(c, h, t) : Items(c, h, t, q)[k] = q[Slot(c, h, k - 1)]
  BY ItemsLemma
<1>11. /\ Items(c2, 0, c, q2) \in Seq(Mail)
       /\ Len(Items(c2, 0, c, q2)) = Size(c2, 0, c)
       /\ \A k \in 1 .. Size(c2, 0, c) :
            Items(c2, 0, c, q2)[k] = q2[Slot(c2, 0, k - 1)]
  BY <1>8, ItemsLemma
<1>12. /\ Append(Items(c, h, t, q), m) \in Seq(Mail)
       /\ Len(Append(Items(c, h, t, q), m)) = c
       /\ \A k \in 1 .. c - 1 : Append(Items(c, h, t, q), m)[k] = Items(c, h, t, q)[k]
       /\ Append(Items(c, h, t, q), m)[c] = m
  BY <1>1, <1>10
<1>13. ASSUME NEW k \in 1 .. c
       PROVE  Items(c2, 0, c, q2)[k] = Append(Items(c, h, t, q), m)[k]
  <2>1. Items(c2, 0, c, q2)[k] = q1[Slot(c, h, k - 1)]
    <3>1. k - 1 \in 0 .. c - 1
      BY <1>1
    <3> QED
      BY <3>1, <1>6, <1>9, <1>11
  <2>2. CASE k \in 1 .. c - 1
    <3>1. k - 1 \in 0 .. c - 2
      BY <2>2, <1>1
    <3> QED
      BY <2>1, <2>2, <3>1, <1>1, <1>3, <1>10, <1>12
  <2>3. CASE k = c
    BY <2>1, <2>3, <1>1, <1>4, <1>12
  <2>4. k \in 1 .. c - 1 \/ k = c
    BY <1>1
  <2> QED
    BY <2>2, <2>3, <2>4
<1>14. Items(c2, 0, c, q2) = Append(Items(c, h, t, q), m)
  BY <1>9, <1>11, <1>12, <1>13, SeqEqual
<1> QED
  BY <1>8, <1>14 DEF q1, c2, q2

\* skynet_mq_pop takes the oldest message.
LEMMA PopLemma ==
  ASSUME NEW c, NEW h, NEW t, NEW q, IsRing(c, h, t, q), h # t
  PROVE  /\ IsRing(c, After(c, h), t, q)
         /\ Items(c, h, t, q) # << >>
         /\ q[h] = Head(Items(c, h, t, q))
         /\ Items(c, After(c, h), t, q) = Tail(Items(c, h, t, q))
<1> DEFINE L == Size(c, h, t)
           h1 == After(c, h)
<1>1. IsRing(c, h1, t, q)
  BY DEF IsRing, After
<1>2. L \in Nat /\ L > 0 /\ Size(c, h1, t) = L - 1 /\ Slot(c, h, 0) = h
  BY DEF IsRing, After, Size, Slot
<1>3. \A k \in 1 .. L - 1 : Slot(c, h1, k - 1) = Slot(c, h, k)
  BY DEF IsRing, After, Size, Slot
<1> HIDE DEF L, h1
<1>4. /\ Items(c, h, t, q) \in Seq(Mail)
      /\ Len(Items(c, h, t, q)) = L
      /\ \A k \in 1 .. L : Items(c, h, t, q)[k] = q[Slot(c, h, k - 1)]
  BY ItemsLemma DEF L
<1>5. /\ Items(c, h1, t, q) \in Seq(Mail)
      /\ Len(Items(c, h1, t, q)) = Size(c, h1, t)
      /\ \A k \in 1 .. Size(c, h1, t) : Items(c, h1, t, q)[k] = q[Slot(c, h1, k - 1)]
  BY <1>1, ItemsLemma
<1>6. Items(c, h, t, q) # << >> /\ Head(Items(c, h, t, q)) = Items(c, h, t, q)[1]
  BY <1>2, <1>4
<1>7. /\ Tail(Items(c, h, t, q)) \in Seq(Mail)
      /\ Len(Tail(Items(c, h, t, q))) = L - 1
      /\ \A k \in 1 .. L - 1 : Tail(Items(c, h, t, q))[k] = Items(c, h, t, q)[k + 1]
  BY <1>2, <1>4, <1>6, HeadTailProperties
<1>8. ASSUME NEW k \in 1 .. L - 1
      PROVE  Items(c, h1, t, q)[k] = Tail(Items(c, h, t, q))[k]
  <2>1. k + 1 \in 1 .. L /\ k + 1 - 1 = k
    BY <1>2
  <2>2. Items(c, h, t, q)[k + 1] = q[Slot(c, h, k)]
    BY <2>1, <1>4
  <2> QED
    BY <2>2, <1>2, <1>3, <1>5, <1>7
<1>9. Items(c, h1, t, q) = Tail(Items(c, h, t, q))
  BY <1>2, <1>5, <1>7, <1>8, SeqEqual
<1>10. q[h] = Items(c, h, t, q)[1]
  BY <1>2, <1>4
<1> QED
  BY <1>1, <1>6, <1>9, <1>10 DEF h1

-----------------------------------------------------------------------------
(* The variables hold a ring, and the ring is a queue                       *)

\* What every operation does to the ring and to the messages in it.  Contents
\* is Items of the variables, now and after the step.
LEMMA StepLemma ==
  ASSUME RingOK, [Next]_vars
  PROVE  RingOK' /\ [Queue!Next]_<<Contents, message>>
<1>1. /\ IsRing(cap, head, tail, queue)
      /\ Contents = Items(cap, head, tail, queue)
      /\ Contents' = Items(cap', head', tail', queue')
  BY DEF RingOK, IsRing, Contents, Length, Items, Size
<1>2. ASSUME IsRing(cap', head', tail', queue'), message' \in Mail
      PROVE  RingOK'
  BY <1>2 DEF RingOK, IsRing
<1>3. ASSUME NEW m \in Mail, Push(m)
      PROVE  RingOK' /\ Queue!Put(m)
  <2>1. Next1(tail) = After(cap, tail) /\ message' = message
    BY <1>3 DEF Push, Next1, After
  <2>2. CASE Next1(tail) = head
    <3>1. /\ queue' = Grown(cap, head, Stored(queue, tail, m), m)
          /\ head' = 0 /\ tail' = cap /\ cap' = Twice(cap)
      BY <1>3, <2>2 DEF Push, Expand, Grown, Stored, Twice
    <3>2. After(cap, tail) = head
      BY <2>1, <2>2
    <3>3. /\ IsRing(Twice(cap), 0, cap, Grown(cap, head, Stored(queue, tail, m), m))
          /\ Items(Twice(cap), 0, cap, Grown(cap, head, Stored(queue, tail, m), m))
               = Append(Items(cap, head, tail, queue), m)
      BY <1>1, <3>2, ExpandLemma
    <3> QED
      BY <1>1, <1>2, <2>1, <3>1, <3>3 DEF Queue!Put, RingOK
  <2>3. CASE Next1(tail) # head
    <3>1. /\ queue' = Stored(queue, tail, m)
          /\ head' = head /\ tail' = After(cap, tail) /\ cap' = cap
      BY <1>3, <2>1, <2>3 DEF Push, Stored
    <3>2. After(cap, tail) # head
      BY <2>1, <2>3
    <3>3. /\ IsRing(cap, head, After(cap, tail), Stored(queue, tail, m))
          /\ Items(cap, head, After(cap, tail), Stored(queue, tail, m))
               = Append(Items(cap, head, tail, queue), m)
      BY <1>1, <3>2, PushLemma
    <3> QED
      BY <1>1, <1>2, <2>1, <3>1, <3>3 DEF Queue!Put, RingOK
  <2> QED
    BY <2>2, <2>3
<1>4. ASSUME Pop
      PROVE  RingOK' /\ Queue!Get
  <2>1. /\ head # tail /\ message' = queue[head] /\ head' = After(cap, head)
        /\ cap' = cap /\ tail' = tail /\ queue' = queue
    BY <1>4 DEF Pop, Next1, After
  <2>2. /\ IsRing(cap, After(cap, head), tail, queue)
        /\ Items(cap, head, tail, queue) # << >>
        /\ queue[head] = Head(Items(cap, head, tail, queue))
        /\ Items(cap, After(cap, head), tail, queue) = Tail(Items(cap, head, tail, queue))
    BY <1>1, <2>1, PopLemma
  <2>3. message' \in Mail
    BY <1>1, <2>1 DEF IsRing
  <2> QED
    BY <1>1, <1>2, <2>1, <2>2, <2>3 DEF Queue!Get
<1>5. ASSUME PopEmpty \/ Overload \/ UNCHANGED vars
      PROVE  RingOK' /\ UNCHANGED <<Contents, message>>
  <2>1. /\ cap' = cap /\ head' = head /\ tail' = tail /\ queue' = queue
        /\ message' = message
    BY <1>5 DEF PopEmpty, Overload, vars
  <2> QED
    BY <1>1, <2>1 DEF RingOK
<1> QED
  BY <1>3, <1>4, <1>5 DEF Next, Queue!Next

\* cap, head, tail and the slots keep their ranges through every operation:
\* no index of skynet_mq.c leaves the array, before or after it grows.
THEOREM RingTypeOK == Spec => []RingOK
<1>1. Init => RingOK
  BY RingAssumption DEF Init, RingOK
<1>2. RingOK /\ [Next]_vars => RingOK'
  BY StepLemma
<1> QED
  BY <1>1, <1>2, PTL DEF Spec

\* The ring buffer of skynet_mq.c implements a FIFO queue: messages come out
\* of skynet_mq_pop in the order in which skynet_mq_push put them in, none
\* lost, none twice, across wraps of head and tail and across expand_queue.
THEOREM RingIsFifo == Spec => IsFifo
<1>1. Init => Queue!Init
  <2> SUFFICES ASSUME Init
               PROVE  Contents = << >> /\ message \in Mail
    BY DEF Queue!Init
  <2>1. IsRing(cap, head, tail, queue) /\ Size(cap, head, tail) = 0
    BY RingAssumption DEF Init, IsRing, Size
  <2>2. Items(cap, head, tail, queue) \in Seq(Mail) /\ Len(Items(cap, head, tail, queue)) = 0
    BY <2>1, ItemsLemma
  <2>3. Contents = Items(cap, head, tail, queue)
    BY DEF Contents, Length, Items, Size
  <2> QED
    BY <2>2, <2>3, EmptySeq DEF Init
<1>2. RingOK /\ [Next]_vars => [Queue!Next]_<<Contents, message>>
  BY StepLemma
<1> QED
  BY <1>1, <1>2, RingTypeOK, PTL DEF Spec, IsFifo, Queue!Spec
=============================================================================
