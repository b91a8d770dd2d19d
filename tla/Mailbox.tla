------------------------------- MODULE Mailbox -------------------------------
(***************************************************************************)
(* What skynet promises to a service: an actor's mailbox.                  *)
(*                                                                         *)
(* Messages are handled one at a time, in the order they arrived.  After   *)
(* the handle is retired (closing) messages whose sender had already       *)
(* found the service still arrive, and the worker may finish its batch;    *)
(* once the last reference is gone (closed) nothing arrives and nothing    *)
(* is handled any more, what is left is discarded one by one (each with an *)
(* error to its sender), and only an empty mailbox disappears.             *)
(*                                                                         *)
(* MessageDispatch implements this module.                                 *)
(***************************************************************************)
EXTENDS Sequences

CONSTANTS
    Client,   \* the services
    Mail,     \* the messages
    Idle      \* busy when nothing is being handled

VARIABLES
    phase,    \* "absent", "open", "closing", "closed", "gone"
    box,      \* the messages waiting, oldest first
    busy      \* the message being handled

vars == <<phase, box, busy>>

Init ==
    /\ phase \in [Client -> {"absent", "open"}]
    /\ \E first \in [Client -> Mail] :
         box = [s \in Client |-> IF phase[s] = "open" THEN << first[s] >> ELSE << >>]
    /\ busy = [s \in Client |-> Idle]

Live(s) == phase[s] \in {"open", "closing"}

Open(s) ==
    /\ phase[s] = "absent"
    /\ phase' = [phase EXCEPT ![s] = "open"]
    /\ UNCHANGED <<box, busy>>

Accept(s, m) ==
    /\ Live(s)
    /\ box' = [box EXCEPT ![s] = Append(@, m)]
    /\ UNCHANGED <<phase, busy>>

Begin(s) ==
    /\ Live(s)
    /\ busy[s] = Idle
    /\ box[s] # << >>
    /\ busy' = [busy EXCEPT ![s] = Head(box[s])]
    /\ box' = [box EXCEPT ![s] = Tail(@)]
    /\ UNCHANGED phase

End(s) ==
    /\ busy[s] # Idle
    /\ busy' = [busy EXCEPT ![s] = Idle]
    /\ UNCHANGED <<phase, box>>

\* skynet_handle_retire, and the end of the last reference.
Close(s) ==
    /\ \/ phase[s] = "open" /\ phase' = [phase EXCEPT ![s] = "closing"]
       \/ /\ phase[s] = "closing" /\ busy[s] = Idle
          /\ phase' = [phase EXCEPT ![s] = "closed"]
    /\ UNCHANGED <<box, busy>>

Discard(s) ==
    /\ phase[s] = "closed"
    /\ box[s] # << >>
    /\ box' = [box EXCEPT ![s] = Tail(@)]
    /\ UNCHANGED <<phase, busy>>

Vanish(s) ==
    /\ phase[s] = "closed"
    /\ box[s] = << >>
    /\ phase' = [phase EXCEPT ![s] = "gone"]
    /\ UNCHANGED <<box, busy>>

Next ==
    \E s \in Client :
        \/ Open(s) \/ Begin(s) \/ End(s) \/ Close(s) \/ Discard(s) \/ Vanish(s)
        \/ \E m \in Mail : Accept(s, m)

Spec == Init /\ [][Next]_vars
=============================================================================
