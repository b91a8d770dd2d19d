----------------------------- MODULE SocketServer -----------------------------
(***************************************************************************)
(* TCP sockets of skynet-src/socket_server.c: the slots, the worker        *)
(* threads that call the API, and the socket thread that executes the      *)
(* commands of the pipe and the events of epoll.                           *)
(*                                                                         *)
(* A worker call is split where another thread can see the difference:     *)
(* after the CAS of reserve_id, around the direct-write lock, before the   *)
(* pipe is written.  The socket thread handles one command or event per    *)
(* action; force_close is split at its lock.  A write_buffer is a message  *)
(* and how many of its MsgSize units were sent before; the wire is the     *)
(* sequence of what each write() took.  Of wb_size the model keeps what    *)
(* the lists do not show: freed, that force_close freed buffers which      *)
(* wb_size still counts.  A failed assert() stops the program: aborted     *)
(* names it.                                                               *)
(* Left out: UDP, bind of a foreign fd, the listening sockets themselves   *)
(* (they occupy other slots; accept is an event that may always come),     *)
(* send warnings, statistics, read buffer sizes, failures of epoll_ctl on  *)
(* a registered fd.                                                        *)
(***************************************************************************)
EXTENDS Integers, Sequences, FiniteSets

CONSTANTS
    Worker,    \* threads that call the API
    NSlot,     \* MAX_SOCKET
    MsgSize,   \* units of a message
    MaxRef,    \* the limit of the counter in sending (0xffff)
    MaxId,     \* bound: ids allocated
    MaxSend,   \* bound: messages sent
    MaxCmd,    \* bound: close, shutdown, start and pause calls
    MaxPeer,   \* bound: what peers do: connect, hang up, reset
    None

ASSUME SocketAssumption ==
    /\ NSlot \in Nat \ {0} /\ MsgSize \in Nat \ {0} /\ MaxRef \in Nat \ {0}
    /\ MaxId \in Nat /\ MaxSend \in Nat /\ MaxCmd \in Nat /\ MaxPeer \in Nat
    /\ None \notin Worker /\ IsFiniteSet(Worker)

Slot == 0 .. NSlot - 1
Id == 1 .. MaxId
HASH_ID(id) == id % NSlot
ID_TAG16(id) == id \div NSlot

VARIABLES
    alloc_id,  \* the last id reserve_id has tried
    sock,      \* the slots: struct socket
    lock,      \* the holder of each dw_lock among the workers
    call,      \* the API call each worker is in
    pipe,      \* commands from the workers to the socket thread
    checkctrl, \* whether the socket thread looks at the pipe
    batch,     \* the events of the last sp_wait not handled yet
    fc,        \* the force_close under way in the socket thread
    net,       \* external: the connection behind each id
    wire,      \* external: what each write() to the peer of an id took
    said,      \* what the owner of an id was told: returned ids and messages
    sent,      \* history: the messages accepted by send, in order
    stale,     \* history: ids that got an event of their slot's previous socket, or
               \* that met in a slot while reserve_id was taking it
    torn,      \* history: slots whose reservation a command or an event of their
               \* previous socket undid
    cmds, peers, \* counters for the bounds
    aborted    \* the assert() that failed, or "no"

thread == <<checkctrl, batch, fc, aborted, stale, torn>>
outside == <<net, wire, peers>>
vars == <<alloc_id, sock, lock, call, pipe, said, sent, cmds, thread, outside>>

NoCall == [at |-> "idle", id |-> 0, m |-> 0]
NoClose == [at |-> "no", s |-> 0, id |-> 0, say |-> "-", ctrl |-> FALSE]

\* socket_server_create.
Init ==
    /\ alloc_id = 0
    /\ sock = [s \in Slot |->
                 [id |-> 0, type |-> "INVALID", tcp |-> FALSE, reading |-> FALSE,
                  writing |-> FALSE, closing |-> FALSE, tag |-> 0, sending |-> 0,
                  freed |-> FALSE, high |-> << >>, low |-> << >>, dw |-> << >>]]
    /\ lock = [s \in Slot |-> None]
    /\ call = [w \in Worker |-> NoCall]
    /\ pipe = << >>
    /\ checkctrl = TRUE
    /\ batch = {}
    /\ fc = NoClose
    /\ net = [id \in Id |-> "none"]
    /\ wire = [id \in Id |-> << >>]
    /\ said = [id \in Id |-> {}]
    /\ sent = << >>
    /\ stale = {}
    /\ torn = {}
    /\ cmds = 0
    /\ peers = 0
    /\ aborted = "no"

-----------------------------------------------------------------------------
(* Helpers                                                                  *)

Invalid(id) == sock[HASH_ID(id)].id # id \/ sock[HASH_ID(id)].type = "INVALID"

send_buffer_empty(x) == x.high = << >> /\ x.low = << >>

\* force_close frees the lists and leaves wb_size; only new_fd resets it.
StillCounted(x) == x.freed \/ ~ send_buffer_empty(x)

nomore_sending_data(x) ==
    \/ send_buffer_empty(x) /\ x.dw = << >> /\ x.sending = 0
    \/ x.type = "HALFCLOSE_WRITE"

can_direct_write(x, id) == x.id = id /\ nomore_sending_data(x) /\ x.type = "CONNECTED"

\* struct write_buffer: the message and the units of it sent before, ptr - buffer.
Buffer(m) == [m |-> m, at |-> 0]

\* The head of the list was sent in part.
list_uncomplete(list) == list # << >> /\ list[1].at # 0

\* A write() that takes k units of a buffer.
Wrote(b, k) == IF k = 0 THEN << >> ELSE <<[m |-> b.m, from |-> b.at, to |-> b.at + k]>>

\* What the owner of id knows after one more message; "LATE" marks a message
\* that must not come: OPEN, DATA or CLOSE after CLOSE, DATA before OPEN.
Say(id, kind) ==
    LET late == \/ kind \in {"OPEN", "DATA", "CLOSE"} /\ "CLOSE" \in said[id]
                \/ kind = "DATA" /\ "OPEN" \notin said[id]
    IN  said' = IF kind = "-" THEN said
                ELSE [said EXCEPT ![id] = @ \cup ({kind} \ {"DATA"}) \cup
                                          IF late THEN {"LATE"} ELSE {}]

Fresh == {id \in alloc_id + 1 .. alloc_id + NSlot : sock[HASH_ID(id)].type = "INVALID"}

-----------------------------------------------------------------------------
(* Worker threads                                                           *)

Goto(w, c) == call' = [call EXCEPT ![w] = c]

NextId == CHOOSE f \in Fresh : \A g \in Fresh : f <= g

\* socket_server_connect: reserve_id up to its CAS; when every slot is in use
\* it has tried them all.
Connect(w) ==
    /\ call[w] = NoCall
    /\ IF Fresh # {}
       THEN /\ NextId \in Id
            /\ alloc_id' = NextId
            /\ sock' = [sock EXCEPT ![HASH_ID(NextId)].type = "RESERVE"]
            /\ Goto(w, [at |-> "O", id |-> NextId, m |-> 0])
       ELSE /\ alloc_id + NSlot \in Id
            /\ alloc_id' = alloc_id + NSlot
            /\ UNCHANGED <<sock, call>>
    /\ UNCHANGED <<lock, pipe, said, sent, cmds, thread, outside>>

\* The rest of reserve_id after the CAS, and send_request.
Request(w) ==
    LET id == call[w].id IN
    /\ call[w].at = "O"
    /\ sock' = [sock EXCEPT ![HASH_ID(id)].id = id, ![HASH_ID(id)].tcp = FALSE]
    /\ pipe' = Append(pipe, [c |-> "O", id |-> id, m |-> 0])
    /\ Say(id, "CONNECT")
    /\ Goto(w, NoCall)
    /\ UNCHANGED <<alloc_id, lock, sent, cmds, thread, outside>>

\* socket_server_close ("K"), _shutdown ("Q"), _start ("R") and _pause ("S").
Command(w, cmd, id) ==
    /\ call[w] = NoCall
    /\ cmds < MaxCmd
    /\ said[id] \cap {"OPEN", "ACCEPT"} # {}
    /\ cmds' = cmds + 1
    /\ pipe' = Append(pipe, [c |-> cmd, id |-> id, m |-> 0])
    /\ Say(id, IF cmd = "Q" THEN "SHUTDOWN" ELSE "-")
    /\ UNCHANGED <<alloc_id, sock, lock, call, sent, thread, outside>>

\* socket_server_send and socket_server_send_lowpriority up to the first step
\* that others can see; the early return for an invalid or closing socket
\* changes nothing.  A service sends once it was told OPEN (socket.lua).
Send(w, id, low) ==
    LET x == sock[HASH_ID(id)]
        m == Len(sent) + 1
    IN  /\ call[w] = NoCall
        /\ m <= MaxSend
        /\ "OPEN" \in said[id]
        /\ ~ Invalid(id)
        /\ low \/ ~ x.closing
        /\ sent' = Append(sent, [w |-> w, id |-> id, low |-> low])
        /\ Goto(w, [at |-> IF ~ low /\ can_direct_write(x, id) THEN "lock" ELSE "inc",
                    id |-> id, m |-> m])
        /\ UNCHANGED <<alloc_id, sock, lock, pipe, said, cmds, thread, outside>>

\* socket_trylock and the second check.
Lock(w) ==
    LET s == HASH_ID(call[w].id) IN
    /\ call[w].at = "lock"
    /\ IF lock[s] = None /\ can_direct_write(sock[s], call[w].id)
       THEN lock' = [lock EXCEPT ![s] = w] /\ Goto(w, [call[w] EXCEPT !.at = "write"])
       ELSE lock' = lock /\ Goto(w, [call[w] EXCEPT !.at = "inc"])
    /\ UNCHANGED <<alloc_id, sock, pipe, said, sent, cmds, thread, outside>>

\* The direct write of k units; the rest goes to dw_buffer.
DirectWrite(w, k) ==
    LET s == HASH_ID(call[w].id)
        m == call[w].m
        to == sock[s].id
    IN  /\ call[w].at = "write"
        /\ net[to] \in {"rst", "hup"} => k = 0
        /\ wire' = [wire EXCEPT ![to] = @ \o Wrote(Buffer(m), k)]
        /\ sock' = [sock EXCEPT ![s].dw = IF k = MsgSize THEN << >>
                                         ELSE <<[m |-> m, at |-> k]>>]
        /\ lock' = [lock EXCEPT ![s] = None]
        /\ Goto(w, IF k = MsgSize THEN NoCall ELSE [call[w] EXCEPT !.at = "W"])
        /\ UNCHANGED <<alloc_id, pipe, net, said, sent, cmds, peers, thread>>

\* inc_sending_ref: only a TCP socket that still has this id.
TagMatches(x, id) == x.tcp /\ x.tag = ID_TAG16(id)

inc_sending_ref(w) ==
    LET s == HASH_ID(call[w].id) IN
    /\ call[w].at = "inc"
    /\ IF TagMatches(sock[s], call[w].id)
       THEN sock[s].sending < MaxRef /\ sock' = [sock EXCEPT ![s].sending = @ + 1]
       ELSE UNCHANGED sock
    /\ Goto(w, [call[w] EXCEPT !.at = IF sent[call[w].m].low THEN "P" ELSE "D"])
    /\ UNCHANGED <<alloc_id, lock, pipe, said, sent, cmds, thread, outside>>

\* send_request of "W" (after a direct write), "D" or "P".
Push(w) ==
    /\ call[w].at \in {"W", "D", "P"}
    /\ pipe' = Append(pipe, [c |-> call[w].at, id |-> call[w].id, m |-> call[w].m])
    /\ Goto(w, NoCall)
    /\ UNCHANGED <<alloc_id, sock, lock, said, sent, cmds, thread, outside>>

-----------------------------------------------------------------------------
(* Socket thread                                                            *)

\* Slot s becomes x, and the owner of id is told kind.
Set(s, x, id, kind) ==
    /\ sock' = [sock EXCEPT ![s] = x]
    /\ Say(id, kind)
    /\ UNCHANGED <<fc, aborted>>

Skip == UNCHANGED <<sock, said, fc, aborted>>

Abort(what) == aborted' = what /\ UNCHANGED <<sock, said, fc>>

\* What force_close leaves; reading and writing are set again by new_fd.
Closed(x) ==
    [x EXCEPT !.type = "INVALID", !.freed = StillCounted(x), !.high = << >>, !.low = << >>,
              !.dw = << >>, !.reading = FALSE, !.writing = FALSE]

\* force_close up to its lock: the lists are freed.
force_close(s, kind, ctrl) ==
    IF sock[s].type = "RESERVE"
    THEN Abort("force_close")
    ELSE /\ sock' = [sock EXCEPT ![s].high = << >>, ![s].low = << >>,
                                 ![s].freed = StillCounted(sock[s])]
         /\ fc' = [at |-> "lock", s |-> s, id |-> sock[s].id, say |-> kind, ctrl |-> ctrl]
         /\ UNCHANGED <<said, aborted>>

\* A command returns SOCKET_ERR for a slot without socket; clear_closed_event
\* is still to come.
Fail(s, id) ==
    /\ sock' = [sock EXCEPT ![s].type = "INVALID"]
    /\ fc' = [at |-> "clear", s |-> s, id |-> id, say |-> "ERR", ctrl |-> TRUE]
    /\ UNCHANGED <<said, aborted>>

\* Mutant: wb_size is not reset.
NewSocketKeep(x, id, type, reading, writing) ==
    [x EXCEPT !.id = id, !.type = type, !.tcp = TRUE, !.reading = reading,
              !.writing = writing, !.closing = FALSE, !.tag = ID_TAG16(id), !.sending = 0,
              !.dw = << >>]

NewSocket(x, id, type, reading, writing) ==
    [x EXCEPT !.id = id, !.type = type, !.tcp = TRUE, !.reading = reading,
              !.writing = writing, !.closing = FALSE, !.tag = ID_TAG16(id), !.sending = 0,
              !.freed = FALSE, !.dw = << >>]

\* new_fd with the type that the caller stores, the message it returns and the
\* state of the connection.
new_fd(id, type, reading, writing, kind, state) ==
    LET s == HASH_ID(id)
        x == sock[s]
    IN  IF x.type # "RESERVE" THEN Abort("new_fd") /\ UNCHANGED net
        ELSE IF ~ send_buffer_empty(x) THEN Abort("check_wb_list") /\ UNCHANGED net
        ELSE /\ Set(s, NewSocket(x, id, type, reading, writing), id, kind)
             /\ net' = [net EXCEPT ![id] = state]

\* open_socket: an error, a connection at once, or one in progress.
open_socket(id) ==
    \/ Fail(HASH_ID(id), id) /\ UNCHANGED net
    \/ new_fd(id, "CONNECTED", TRUE, FALSE, "OPEN", "up")
    \/ new_fd(id, "CONNECTING", TRUE, TRUE, "-", "syn")

close_read(x) == [x EXCEPT !.type = "HALFCLOSE_READ", !.reading = FALSE]

\* Mutant: the message is raised for the sockets that had it.
CloseKindSwapped(x) == IF x.type = "HALFCLOSE_READ" THEN "CLOSE" ELSE "-"

\* "Do not raise SOCKET_CLOSE again."
CloseKind(x) == IF x.type = "HALFCLOSE_READ" THEN "-" ELSE "CLOSE"

close_socket(id, shutdown) ==
    LET s == HASH_ID(id)
        x == sock[s]
    IN  IF Invalid(id) THEN Skip
        ELSE IF shutdown \/ nomore_sending_data(x)
        THEN force_close(s, CloseKind(x), TRUE)
        ELSE Set(s, [close_read(x) EXCEPT !.closing = TRUE], id, CloseKind(x))

resume(x) ==
    [x EXCEPT !.reading = TRUE, !.type = IF @ = "PACCEPT" THEN "CONNECTED" ELSE @]

resume_socket(id) ==
    LET s == HASH_ID(id)
        x == sock[s]
    IN  IF sock[s].id = id /\ x.type = "INVALID" THEN Fail(s, id)
        ELSE IF Invalid(id) \/ x.type = "HALFCLOSE_READ" THEN Set(s, x, id, "ERR")
        ELSE Set(s, resume(x), id,
                 IF x.type \in {"PACCEPT", "CONNECTED"} THEN "OPEN" ELSE "-")

pause_socket(id) ==
    IF Invalid(id) THEN Skip
    ELSE Set(HASH_ID(id), [sock[HASH_ID(id)] EXCEPT !.reading = FALSE], id, "-")

trigger_write(id) ==
    IF Invalid(id) THEN Skip
    ELSE Set(HASH_ID(id), [sock[HASH_ID(id)] EXCEPT !.writing = TRUE], id, "-")

\* send_socket drops the data.
Drops(x, id) ==
    x.id # id \/ x.closing \/ x.type \in {"INVALID", "HALFCLOSE_WRITE", "PACCEPT"}

\* Mutant: a low priority message always goes to the low list.
EnqueueLow(x, m, low) ==
    IF low THEN [x EXCEPT !.low = Append(@, Buffer(m))]
    ELSE [x EXCEPT !.high = Append(@, Buffer(m)), !.writing = TRUE]

\* append_sendbuffer, or append_sendbuffer_low behind other data.
Enqueue(x, m, low) ==
    IF send_buffer_empty(x) THEN [x EXCEPT !.high = <<Buffer(m)>>, !.writing = TRUE]
    ELSE IF low THEN [x EXCEPT !.low = Append(@, Buffer(m))]
    ELSE [x EXCEPT !.high = Append(@, Buffer(m))]

\* Commands "D" and "P": send_socket, then dec_sending_ref.
send_socket(id, m) ==
    LET s == HASH_ID(id)
        x == IF Drops(sock[s], id) THEN sock[s] ELSE Enqueue(sock[s], m, sent[m].low)
    IN  IF x.id # id \/ ~ x.tcp THEN Set(s, x, id, "-")
        ELSE IF x.sending = 0 THEN Abort("dec_sending_ref")
        ELSE Set(s, [x EXCEPT !.sending = @ - 1], id, "-")

\* The ids that meet when a command for the slot's last id is executed after
\* the CAS of reserve_id and before the new id is stored.
Overlap(c) ==
    IF c.c # "O" /\ sock[HASH_ID(c.id)].type = "RESERVE" /\ sock[HASH_ID(c.id)].id = c.id
    THEN {c.id} \cup {call[w].id : w \in {v \in Worker : call[v].at = "O"
                                               /\ HASH_ID(call[v].id) = HASH_ID(c.id)}}
    ELSE {}

\* The slots whose type a step changes from RESERVE.
Undone == {s \in Slot : sock[s].type = "RESERVE" /\ sock'[s].type # "RESERVE"}

\* ctrl_cmd.
Ctrl ==
    /\ fc = NoClose
    /\ checkctrl
    /\ pipe # << >>
    /\ pipe' = Tail(pipe)
    /\ LET c == Head(pipe) IN
       /\ stale' = stale \cup Overlap(c)
       /\ \/ c.c = "O" /\ open_socket(c.id)
          \/ c.c \in {"K", "Q"} /\ close_socket(c.id, c.c = "Q") /\ UNCHANGED net
          \/ c.c = "R" /\ resume_socket(c.id) /\ UNCHANGED net
          \/ c.c = "S" /\ pause_socket(c.id) /\ UNCHANGED net
          \/ c.c = "W" /\ trigger_write(c.id) /\ UNCHANGED net
          \/ c.c \in {"D", "P"} /\ send_socket(c.id, c.m) /\ UNCHANGED net
       /\ torn' = torn \cup IF c.c = "O" THEN {} ELSE Undone
    /\ UNCHANGED <<alloc_id, lock, call, sent, cmds, checkctrl, batch, wire, peers>>

\* force_close from its lock on: the fd is closed, dw_buffer freed.
CloseFd ==
    LET s == fc.s IN
    /\ fc.at = "lock"
    /\ lock[s] = None
    /\ sock' = [sock EXCEPT ![s] = Closed(@)]
    /\ net' = [net EXCEPT ![fc.id] = "none"]
    /\ IF fc.ctrl /\ fc.say # "-"
       THEN fc' = [fc EXCEPT !.at = "clear"] /\ UNCHANGED said
       ELSE fc' = NoClose /\ Say(fc.id, fc.say)
    /\ UNCHANGED <<alloc_id, lock, call, pipe, sent, cmds, checkctrl, batch, aborted, stale,
                   torn, wire, peers>>

clear_closed_event ==
    /\ fc.at = "clear"
    /\ batch' = IF sock[fc.s].id = fc.id /\ Invalid(fc.id)
                THEN {e \in batch : e.s # fc.s} ELSE batch
    /\ Say(fc.id, fc.say)
    /\ fc' = NoClose
    /\ UNCHANGED <<alloc_id, sock, lock, call, pipe, sent, cmds, checkctrl, aborted, stale,
                   torn, outside>>

-----------------------------------------------------------------------------
(* Events                                                                   *)

\* What epoll reports of slot s; data: whether the peer has sent some.
Event(s, data) ==
    LET x == sock[s]
        n == IF x.id = 0 THEN "none" ELSE net[x.id]
        live == x.type \notin {"INVALID", "RESERVE"}
    IN  [s |-> s, id |-> x.id,
         read |-> /\ live /\ x.reading
                  /\ n \in {"fin", "rst", "hup"} \/ (n = "up" /\ data),
         write |-> live /\ x.writing /\ n \notin {"none", "syn"},
         error |-> live /\ n = "rst",
         eof |-> live /\ (n \in {"rst", "hup"} \/ (n = "fin" /\ x.type = "HALFCLOSE_WRITE"))]

\* sp_wait returns what is ready; the pipe is looked at next.
Wait(D) ==
    /\ fc = NoClose
    /\ batch = {}
    /\ checkctrl => pipe = << >>
    /\ batch' = {e \in {Event(s, s \in D) : s \in Slot} : e.read \/ e.write \/ e.error \/ e.eof}
    /\ batch' # {} \/ pipe # << >>
    /\ checkctrl' = TRUE
    /\ UNCHANGED <<alloc_id, sock, lock, call, pipe, said, sent, cmds, fc, aborted, stale,
                   torn, outside>>

Type(e) == sock[e.s].type

Default(e) == Type(e) \notin {"CONNECTING", "INVALID"}

\* The event is done; keep is what the poll loop leaves of it.
Done(e, keep) == batch' = (batch \ {e}) \cup keep

AfterConnect(x) ==
    [x EXCEPT !.type = "CONNECTED", !.writing = @ /\ ~ nomore_sending_data(x)]

report_connect(e) ==
    LET x == sock[e.s] IN
    /\ Type(e) = "CONNECTING"
    /\ Done(e, {})
    /\ IF net[x.id] \in {"rst", "hup"}
       THEN force_close(e.s, "ERR", FALSE)
       ELSE Set(e.s, AfterConnect(x), x.id, "OPEN")
    /\ UNCHANGED <<net, wire>>

\* An event of a listening socket: report_accept; without a free slot the
\* connection is closed.
report_accept ==
    /\ fc = NoClose
    /\ checkctrl => pipe = << >>
    /\ peers < MaxPeer
    /\ peers' = peers + 1
    /\ checkctrl' = FALSE
    /\ IF Fresh # {}
       THEN /\ NextId \in Id
            /\ alloc_id' = NextId
            /\ LET x == sock[HASH_ID(NextId)] IN
               IF send_buffer_empty(x)
               THEN /\ Set(HASH_ID(NextId), NewSocket(x, NextId, "PACCEPT", FALSE, FALSE),
                           NextId, "ACCEPT")
                    /\ net' = [net EXCEPT ![NextId] = "up"]
               ELSE Abort("check_wb_list") /\ UNCHANGED net
       ELSE /\ alloc_id + NSlot \in Id
            /\ alloc_id' = alloc_id + NSlot
            /\ Skip /\ UNCHANGED net
    /\ UNCHANGED <<lock, call, pipe, sent, cmds, batch, stale, torn, wire>>

Ignored(e) ==
    /\ Type(e) = "INVALID"
    /\ Done(e, {})
    /\ Skip
    /\ UNCHANGED <<net, wire>>

ReadKeep(e) == IF e.write THEN {[e EXCEPT !.read = FALSE]} ELSE {}

\* Mutant: data that arrives after close_read is handed on.
DataKindAlways(x) == "DATA"

DataKind(x) == IF x.type = "HALFCLOSE_READ" THEN "-" ELSE "DATA"

\* read() returned 0.
ReadEof(e) ==
    LET x == sock[e.s] IN
    IF x.closing
    THEN (IF nomore_sending_data(x) THEN force_close(e.s, "-", FALSE) ELSE Skip)
         /\ Done(e, ReadKeep(e))
    ELSE CASE x.type = "HALFCLOSE_READ" -> Skip /\ Done(e, ReadKeep(e))
           [] x.type = "HALFCLOSE_WRITE" -> force_close(e.s, "CLOSE", FALSE) /\ Done(e, {})
           [] OTHER -> Set(e.s, close_read(x), x.id, "CLOSE") /\ Done(e, {})

\* forward_message_tcp; a slot reserved again has no protocol yet and goes to
\* forward_message_udp, whose recvfrom fails.
forward_message(e) ==
    LET x == sock[e.s] IN
    /\ Default(e) /\ e.read
    /\ \/ /\ x.tcp /\ net[x.id] \in {"up", "fin"}
          /\ Set(e.s, x, x.id, DataKind(x))
          /\ Done(e, ReadKeep(e)) \/ (DataKind(x) = "DATA" /\ UNCHANGED batch)
          /\ UNCHANGED net
       \/ /\ x.tcp /\ net[x.id] \in {"fin", "hup"}
          /\ ReadEof(e)
          /\ UNCHANGED net
       \/ /\ x.tcp /\ net[x.id] \in {"rst", "none"}
          /\ Set(e.s, x, x.id, "ERR")
          /\ Done(e, {})
          /\ net' = [net EXCEPT ![x.id] = IF @ = "rst" THEN "hup" ELSE @]
       \/ ~ x.tcp /\ force_close(e.s, "-", FALSE) /\ Done(e, {}) /\ UNCHANGED net
    /\ UNCHANGED wire

\* force_close within send_buffer, which holds the lock.
Finish(s, x) ==
    IF x.type = "RESERVE" THEN Abort("force_close") ELSE Set(s, Closed(x), x.id, "-")

\* close_write after a failed write; x has its dw_buffer in the high list.
close_write(s, x) ==
    IF x.closing \/ x.type = "HALFCLOSE_READ" THEN Finish(s, x)
    ELSE IF x.type = "HALFCLOSE_WRITE" THEN Set(s, x, x.id, "-")
    ELSE Set(s, [x EXCEPT !.type = "HALFCLOSE_WRITE", !.writing = FALSE], x.id, "ERR")

\* raise_uncomplete, when the head of the low list was sent in part.
raise_uncomplete(x) ==
    IF list_uncomplete(x.low) THEN [x EXCEPT !.high = <<Head(x.low)>>, !.low = Tail(x.low)]
    ELSE x

\* Mutant: the rest of a direct write goes behind the queued messages.
WithDirectLast(x) == [x EXCEPT !.high = @ \o x.dw, !.dw = << >>]

\* send_buffer: the rest of a direct write goes before the high list.
WithDirect(x) == [x EXCEPT !.high = x.dw \o @, !.dw = << >>]

\* What is left of a list after n whole buffers and k units of the next.
Left(list, n, k) ==
    [i \in 1 .. Len(list) - n |->
       IF i = 1 THEN [list[n + 1] EXCEPT !.at = @ + k] ELSE list[n + i]]

\* The writes of n whole buffers and k units of the next.
Writes(list, n, k) ==
    [i \in 1 .. n |-> [m |-> list[i].m, from |-> list[i].at, to |-> MsgSize]]
    \o IF k = 0 THEN << >> ELSE Wrote(list[n + 1], k)

\* send_buffer_ after n whole buffers and k units of the next were written.
Written(x, n, k) ==
    LET h == Len(x.high) IN
    IF n < h THEN [x EXCEPT !.high = Left(@, n, k)]
    ELSE raise_uncomplete([x EXCEPT !.high = << >>, !.low = Left(@, n - h, k)])

\* The assert of an empty send_buffer_: wb_size is not 0.
AbortWritten(s, x) ==
    /\ sock' = [sock EXCEPT ![s] = x]
    /\ aborted' = "wb_size"
    /\ UNCHANGED <<said, fc>>

\* A write event: send_buffer.  epoll reported room, so one unit at least is
\* written.
send_buffer(e, n, k) ==
    LET x == WithDirect(sock[e.s])
        all == x.high \o x.low
        dead == \/ x.type \in {"RESERVE", "HALFCLOSE_WRITE"}
                \/ net[x.id] \in {"rst", "hup", "none"}
        y == Written(x, n, k)
    IN  /\ Default(e) /\ ~ e.read /\ e.write
        /\ Done(e, {})
        /\ IF lock[e.s] # None
           THEN n = 0 /\ k = 0 /\ Skip /\ UNCHANGED <<net, wire>>
           ELSE IF list_uncomplete(x.low)
           THEN n = 0 /\ k = 0 /\ Abort("list_uncomplete") /\ UNCHANGED <<net, wire>>
           ELSE IF dead /\ all # << >>
           THEN /\ n = 0 /\ k = 0
                /\ close_write(e.s, x)
                /\ net' = [net EXCEPT ![x.id] = IF sock'[e.s].type = "INVALID" THEN "none"
                                                ELSE IF @ = "rst" THEN "hup" ELSE @]
                /\ UNCHANGED wire
           ELSE /\ n <= Len(all) /\ (all = << >> \/ n + k > 0)
                /\ k > 0 => n < Len(all) /\ all[n + 1].at + k < MsgSize
                /\ wire' = [wire EXCEPT ![x.id] = @ \o Writes(all, n, k)]
                /\ IF ~ send_buffer_empty(y) THEN Set(e.s, y, x.id, "-")
                   ELSE IF y.freed THEN AbortWritten(e.s, y)
                   ELSE IF y.closing THEN Finish(e.s, y)
                   ELSE Set(e.s, [y EXCEPT !.writing = FALSE], x.id, "-")
                /\ net' = [net EXCEPT ![x.id] =
                             IF sock'[e.s].type = "INVALID" THEN "none" ELSE @]

ErrorEvent(e) ==
    LET x == sock[e.s] IN
    /\ Default(e) /\ ~ e.read /\ ~ e.write /\ e.error
    /\ Done(e, {})
    /\ Set(e.s, x, x.id, "ERR")
    /\ net' = [net EXCEPT ![x.id] = IF @ = "rst" THEN "hup" ELSE @]
    /\ UNCHANGED wire

EofEvent(e) ==
    /\ Default(e) /\ ~ e.read /\ ~ e.write /\ ~ e.error
    /\ Done(e, {})
    /\ force_close(e.s, CloseKind(sock[e.s]), FALSE)
    /\ UNCHANGED <<net, wire>>

\* socket_server_poll takes the next event.
Handle(e) ==
    /\ fc = NoClose
    /\ checkctrl => pipe = << >>
    /\ checkctrl' = FALSE
    /\ stale' = stale \cup ({sock[e.s].id} \ {e.id})
    /\ \/ report_connect(e) \/ Ignored(e) \/ forward_message(e)
       \/ \E n \in 0 .. MaxSend, k \in 0 .. MsgSize - 1 : send_buffer(e, n, k)
       \/ ErrorEvent(e) \/ EofEvent(e)
    /\ torn' = torn \cup Undone
    /\ UNCHANGED <<alloc_id, lock, call, pipe, sent, cmds, peers>>

-----------------------------------------------------------------------------
(* The network (external)                                                   *)

Resolve(id, state) ==
    /\ net[id] = "syn"
    /\ net' = [net EXCEPT ![id] = state]
    /\ UNCHANGED peers

\* The peer closes its side, or the connection is reset.
HangUp(id, state) ==
    /\ net[id] \in {"up", "fin"} /\ net[id] # state
    /\ peers < MaxPeer
    /\ peers' = peers + 1
    /\ net' = [net EXCEPT ![id] = state]

Network(id) ==
    /\ (\E st \in {"up", "rst"} : Resolve(id, st)) \/ (\E st \in {"fin", "rst"} : HangUp(id, st))
    /\ UNCHANGED <<alloc_id, sock, lock, call, pipe, said, sent, cmds, thread, wire>>

-----------------------------------------------------------------------------

Call(w) ==
    \/ Connect(w)
    \/ \E id \in Id : (\E cmd \in {"K", "Q", "R", "S"} : Command(w, cmd, id))
                      \/ (\E low \in BOOLEAN : Send(w, id, low))

Continue(w) ==
    Request(w) \/ Lock(w) \/ (\E k \in 0 .. MsgSize : DirectWrite(w, k)) \/ inc_sending_ref(w)
    \/ Push(w)

SocketThread ==
    \/ Ctrl \/ CloseFd \/ clear_closed_event \/ (\E D \in SUBSET Slot : Wait(D))
    \/ \E e \in batch : Handle(e)

Next ==
    /\ aborted = "no"
    /\ \/ \E w \in Worker : Call(w) \/ Continue(w)
       \/ SocketThread \/ report_accept
       \/ \E id \in Id : Network(id)

Spec == Init /\ [][Next]_vars

-----------------------------------------------------------------------------
(* Properties                                                               *)

\* A write to the peer goes on where the one before stopped; a message starts
\* only when the one before is complete, and none comes twice.
WholeMessages(str) ==
    \A p \in DOMAIN str :
      IF p > 1 /\ str[p - 1].to < MsgSize
      THEN str[p].m = str[p - 1].m /\ str[p].from = str[p - 1].to
      ELSE str[p].from = 0 /\ \A q \in 1 .. p - 1 : str[q].m # str[p].m

\* Message a precedes message b: the same thread sent it before, to the same
\* socket, both of high priority.
Precedes(a, b) ==
    /\ a < b /\ ~ sent[a].low /\ ~ sent[b].low
    /\ sent[a].id = sent[b].id /\ sent[a].w = sent[b].w

InOrder(str) ==
    \A p \in DOMAIN str, m \in DOMAIN sent :
      Precedes(m, str[p].m) => \E q \in 1 .. p - 1 : str[q].m = m

Sound == {id \in Id : HASH_ID(id) \notin torn}

\* Whatever mix of direct writes, queued writes and partial writes of several
\* threads, the peer receives whole messages meant for it, the messages of a
\* thread in the order of its calls and without gaps.
StreamOK ==
    \A id \in Sound :
      /\ \A p \in DOMAIN wire[id] : sent[wire[id][p].m].id = id
      /\ id \notin stale /\ "SHUTDOWN" \notin said[id] =>
           WholeMessages(wire[id]) /\ InOrder(wire[id])

\* "SOCKET_CLOSE can be raised (only once)": and after it neither OPEN nor
\* DATA; no DATA before OPEN.
EventOrder == \A id \in Sound \ stale : "LATE" \notin said[id]

\* socket.lua waits for a message in open, read and close: a connection that
\* its owner knows of never disappears without CLOSE or an error.
NoSilentDeath ==
    \A id \in Sound \ stale : said[id] # {} /\ Invalid(id) /\ fc.id # id
                           => said[id] \cap {"CLOSE", "ERR"} # {}

\* Types; the counter of direct requests stays within its 16 bits.
TypeOK ==
    /\ alloc_id \in Nat
    /\ \A s \in Slot :
         /\ sock[s].id \in Id \cup {0}
         /\ sock[s].type \in {"INVALID", "RESERVE", "CONNECTING",
                              "CONNECTED", "HALFCLOSE_READ", "HALFCLOSE_WRITE", "PACCEPT"}
         /\ sock[s].sending \in 0 .. MaxRef
         /\ \A q \in {sock[s].high, sock[s].low, sock[s].dw} :
              \A i \in DOMAIN q : q[i].m \in DOMAIN sent /\ q[i].at \in 0 .. MsgSize - 1
    /\ lock \in [Slot -> Worker \cup {None}]
    /\ stale \subseteq Id /\ torn \subseteq Slot /\ checkctrl \in BOOLEAN
    /\ cmds \in 0 .. MaxCmd /\ peers \in 0 .. MaxPeer /\ Len(sent) <= MaxSend

\* wb_size counts freed buffers in s, which has no socket and is not closing.
CountsFreed(s) ==
    /\ sock[s].freed
    /\ sock[s].type # "INVALID"
    /\ ~ (fc.at = "lock" /\ fc.s = s)

\* The counters agree with what they count.  A request that will decrement
\* sending finds it positive (assert of dec_sending_ref).  A slot's wb_size
\* counts only what its lists hold, and so an empty send_buffer_ finds it 0
\* (assert at its end), except in a slot reserved again for the next
\* connection: there a stale write event makes that assert fail.  The assert at
\* the head of send_buffer_ always holds.
CountersHold ==
    /\ TypeOK
    /\ aborted # "list_uncomplete"
    /\ \A s \in Slot \ torn : CountsFreed(s) => sock[s].type = "RESERVE"
    /\ aborted = "wb_size" => \E s \in Slot : CountsFreed(s)
    /\ torn = {} => aborted # "dec_sending_ref"
    /\ \A p \in DOMAIN pipe :
         LET s == HASH_ID(pipe[p].id) IN
         /\ pipe[p].c \in {"D", "P"} /\ s \notin torn
         /\ sock[s].tcp /\ sock[s].id = pipe[p].id
         => sock[s].sending > 0

Triggered(s) ==
    \/ \E w \in Worker : call[w].at = "W" /\ HASH_ID(call[w].id) = s
    \/ \E p \in DOMAIN pipe : pipe[p].c = "W" /\ HASH_ID(pipe[p].id) = s

\* No lost wakeup: a socket with data to send waits for the write event, or
\* the command that turns it on is under way.
WriteArmed ==
    \A s \in Slot \ torn :
      sock[s].type \notin {"INVALID", "RESERVE", "HALFCLOSE_WRITE"} =>
        (send_buffer_empty(sock[s]) /\ sock[s].dw = << >>) \/ sock[s].writing \/ Triggered(s)

=============================================================================
