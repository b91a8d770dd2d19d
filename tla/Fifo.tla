-------------------------------- MODULE Fifo --------------------------------
(* What a message_queue is for: an unbounded first-in-first-out queue.      *)
(* MessageRing implements this module.                                      *)
EXTENDS Integers, Sequences

CONSTANT Mail

VARIABLES
    items,  \* the messages in the queue, oldest first
    last    \* the message skynet_mq_pop returned last

Init == items = << >> /\ last \in Mail

Put(m) == items' = Append(items, m) /\ UNCHANGED last

Get ==
    /\ items # << >>
    /\ last' = Head(items)
    /\ items' = Tail(items)

Next == Get \/ \E m \in Mail : Put(m)

Spec == Init /\ [][Next]_<<items, last>>
=============================================================================
