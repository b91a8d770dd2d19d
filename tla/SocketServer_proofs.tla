------------------------ MODULE SocketServer_proofs ------------------------
(***************************************************************************)
(* The inductive invariant of SocketServer: ids, slots, requests in the    *)
(* pipe, calls of workers, the lock and the shut-down in progress fit      *)
(* together in every reachable state, for any number of workers, slots,    *)
(* ids and messages.  The theorems of SocketStream_proofs rest on it.      *)
(***************************************************************************)
EXTENDS SocketServer, TLAPS, FiniteSetTheorems, NaturalsInduction, WellFoundedInduction

-----------------------------------------------------------------------------
(* Types                                                                    *)

Live == {"CONNECTING", "CONNECTED", "HALFCLOSE_READ", "HALFCLOSE_WRITE", "PACCEPT"}
SocketType == Live \cup {"INVALID", "RESERVE"}
Kind == {"CONNECT", "OPEN", "ACCEPT", "CLOSE", "ERR", "SHUTDOWN", "LATE"}
NetState == {"none", "syn", "up", "fin", "rst", "hup"}
Node == [m : Nat, at : 0 .. MsgSize - 1]
Sock == [id : Nat, type : SocketType, tcp : BOOLEAN, reading : BOOLEAN, writing : BOOLEAN,
         closing : BOOLEAN, tag : Nat, sending : 0 .. MaxRef, freed : BOOLEAN,
         high : Seq(Node), low : Seq(Node), dw : Seq(Node)]
CallRec == [at : {"idle", "O", "lock", "write", "inc", "W", "D", "P"}, id : Nat, m : Nat]
Cmd == [c : {"O", "K", "Q", "R", "S", "W", "D", "P"}, id : Id, m : Nat]
Ev == [s : Slot, id : Nat, read : BOOLEAN, write : BOOLEAN, error : BOOLEAN, eof : BOOLEAN]
Closing == [at : {"no", "lock", "clear"}, s : Slot, id : Nat, say : {"-", "CLOSE", "ERR"},
            ctrl : BOOLEAN]
Write == [m : Nat, from : Nat, to : Nat]
Message == [w : Worker, id : Id, low : BOOLEAN]

Types ==
    /\ alloc_id \in Nat
    /\ sock \in [Slot -> Sock]
    /\ lock \in [Slot -> Worker \cup {None}]
    /\ call \in [Worker -> CallRec]
    /\ pipe \in Seq(Cmd)
    /\ checkctrl \in BOOLEAN
    /\ batch \in SUBSET Ev
    /\ fc \in Closing
    /\ net \in [Id -> NetState]
    /\ wire \in [Id -> Seq(Write)]
    /\ said \in [Id -> SUBSET Kind]
    /\ sent \in Seq(Message) /\ Len(sent) <= MaxSend
    /\ stale \in SUBSET Id /\ torn \in SUBSET Slot
    /\ cmds \in 0 .. MaxCmd /\ peers \in 0 .. MaxPeer

\* Ids: none is used before reserve_id has returned it, and each is used in
\* the slot it hashes to.
IdInv ==
    /\ \A id \in Id : id > alloc_id => said[id] = {} /\ wire[id] = << >> /\ net[id] = "none"
    /\ \A s \in Slot :
         /\ sock[s].id <= alloc_id
         /\ sock[s].id # 0 => sock[s].id \in Id /\ HASH_ID(sock[s].id) = s
         /\ sock[s].type \in Live => sock[s].id # 0
    /\ \A w \in Worker : call[w].at # "idle" => call[w].id \in Id /\ call[w].id <= alloc_id
    /\ \A p \in DOMAIN pipe : pipe[p].id <= alloc_id
    /\ \A e \in batch :
         /\ e.id \in Id /\ e.id <= alloc_id /\ sock[e.s].id # 0
         /\ e.read \/ e.write \/ e.error \/ e.eof
    /\ fc.at # "no" => fc.id \in Id /\ fc.id <= alloc_id /\ HASH_ID(fc.id) = fc.s
    /\ fc.at = "no" => fc = NoClose

-----------------------------------------------------------------------------
(* Facts about the operators                                                *)

LEMMA HashType == \A id \in Nat : HASH_ID(id) \in Slot /\ ID_TAG16(id) \in Nat
BY SocketAssumption DEF HASH_ID, ID_TAG16, Slot

LEMMA IdType == \A id \in Id : id \in Nat /\ id # 0 /\ HASH_ID(id) \in Slot /\ ID_TAG16(id) \in Nat
BY HashType, SocketAssumption DEF Id

\* An id is its slot and its tag.
LEMMA HashTag ==
    ASSUME NEW a \in Nat, NEW b \in Nat, HASH_ID(a) = HASH_ID(b), ID_TAG16(a) = ID_TAG16(b)
    PROVE  a = b
BY SocketAssumption DEF HASH_ID, ID_TAG16

LEMMA EmptySeq == ASSUME NEW S PROVE << >> \in Seq(S)
OBVIOUS

LEMMA CountedType == ASSUME NEW x \in Sock PROVE StillCounted(x) \in BOOLEAN
BY DEF StillCounted, Sock

\* A set of numbers has a least one.
LEMMA LeastIn ==
    ASSUME NEW S, S \subseteq Nat, S # {}
    PROVE  \E x \in S : \A y \in S : x <= y
<1>1. \E x \in S : \A y \in S : ~(<<y, x>> \in OpToRel(<, Nat))
  BY NatLessThanWellFounded, WFMin
<1>2. PICK x \in S : \A y \in S : ~(<<y, x>> \in OpToRel(<, Nat))
  BY <1>1
<1>3. \A y \in S : x <= y
  <2> TAKE y \in S
  <2>1. x \in Nat /\ y \in Nat
    OBVIOUS
  <2>2. ~(y < x)
    BY <1>2, <2>1 DEF OpToRel
  <2> QED
    BY <2>1, <2>2
<1> QED
  BY <1>3

\* reserve_id takes an id above the last one, of a free slot.
LEMMA NextIdFresh ==
    ASSUME Types, Fresh # {}
    PROVE  /\ NextId \in Nat /\ NextId > alloc_id
           /\ HASH_ID(NextId) \in Slot /\ sock[HASH_ID(NextId)].type = "INVALID"
<1>1. Fresh \subseteq Nat
  BY SocketAssumption DEF Fresh, Types
<1>2. PICK f \in Fresh : \A g \in Fresh : f <= g
  BY <1>1, LeastIn
<1>3. NextId \in Fresh
  BY <1>2 DEF NextId
<1>4. NextId \in Nat /\ NextId > alloc_id /\ sock[HASH_ID(NextId)].type = "INVALID"
  BY <1>3, SocketAssumption DEF Fresh, Types
<1>. QED BY <1>4, HashType

\* The pipe without its first command.
LEMMA TailPipe ==
    ASSUME Types, pipe # << >>, pipe' = Tail(pipe)
    PROVE  /\ Head(pipe) = pipe[1] /\ 1 \in DOMAIN pipe /\ pipe[1] \in Cmd
           /\ pipe' \in Seq(Cmd)
           /\ \A p \in DOMAIN pipe' : p \in Nat /\ p >= 1 /\ p + 1 \in DOMAIN pipe /\ pipe'[p] = pipe[p + 1]
           /\ \A p \in DOMAIN pipe : p = 1 \/ (p - 1 \in DOMAIN pipe' /\ pipe'[p - 1] = pipe[p])
BY DEF Types

LEMMA AppendPipe ==
    ASSUME Types, NEW c \in Cmd, pipe' = Append(pipe, c)
    PROVE  /\ pipe' \in Seq(Cmd)
           /\ DOMAIN pipe = 1 .. Len(pipe) /\ DOMAIN pipe' = 1 .. Len(pipe) + 1 /\ Len(pipe) \in Nat
           /\ \A p \in DOMAIN pipe : pipe'[p] = pipe[p]
           /\ pipe'[Len(pipe) + 1] = c
BY DEF Types

\* What a message to the owner changes.
LEMMA SayFacts ==
    ASSUME NEW id \in Id, NEW kind \in Kind \cup {"-", "DATA"}, said \in [Id -> SUBSET Kind],
           Say(id, kind)
    PROVE  /\ said' \in [Id -> SUBSET Kind]
           /\ \A i \in Id : said[i] \subseteq said'[i] /\ (i # id => said'[i] = said[i])
           /\ kind = "-" => said' = said
           /\ \A k \in Kind \ {"LATE"} : k \in said'[id] <=> k \in said[id] \/ k = kind
BY DEF Say, Kind

LEMMA SayPlain ==
    ASSUME NEW id \in Id, NEW kind \in {"ERR", "CONNECT", "ACCEPT", "SHUTDOWN"},
           said \in [Id -> SUBSET Kind], Say(id, kind)
    PROVE  /\ said' \in [Id -> SUBSET Kind]
           /\ \A i \in Id : said'[i] = said[i] \cup IF i = id THEN {kind} ELSE {}
<1>1. {kind} \ {"DATA"} = {kind} /\ kind \in Kind
  BY DEF Kind
<1>2. said' = [said EXCEPT ![id] = @ \cup {kind}]
  BY <1>1 DEF Say
<1>. QED BY <1>1, <1>2

LEMMA SayNothing == ASSUME NEW id, Say(id, "-") PROVE said' = said
BY DEF Say

-----------------------------------------------------------------------------
(* The steps, one operator per case                                         *)

ConnectNew(w) == Connect(w) /\ Fresh # {}
ConnectFull(w) == Connect(w) /\ Fresh = {}
Locked(w) ==
    /\ Lock(w)
    /\ lock[HASH_ID(call[w].id)] = None
    /\ can_direct_write(sock[HASH_ID(call[w].id)], call[w].id)
NotLocked(w) == Lock(w) /\ lock' = lock /\ Goto(w, [call[w] EXCEPT !.at = "inc"])
Counted(w) ==
    LET s == HASH_ID(call[w].id) IN
    /\ inc_sending_ref(w)
    /\ TagMatches(sock[s], call[w].id)
    /\ sock[s].sending < MaxRef /\ sock' = [sock EXCEPT ![s].sending = @ + 1]
NotCounted(w) ==
    inc_sending_ref(w) /\ ~ TagMatches(sock[HASH_ID(call[w].id)], call[w].id) /\ sock' = sock

\* A command c is taken from the pipe.
CtrlFrame(c) ==
    /\ fc = NoClose
    /\ pipe # << >> /\ c = pipe[1] /\ c \in Cmd
    /\ pipe' = Tail(pipe)
    /\ stale' = stale \cup Overlap(c)
    /\ UNCHANGED <<alloc_id, lock, call, sent, cmds, checkctrl, batch, wire, peers>>

Forced(s, kind, ctrl) ==
    /\ sock[s].type # "RESERVE"
    /\ sock' = [sock EXCEPT ![s].high = << >>, ![s].low = << >>,
                            ![s].freed = StillCounted(sock[s])]
    /\ fc' = [at |-> "lock", s |-> s, id |-> sock[s].id, say |-> kind, ctrl |-> ctrl]
    /\ said' = said /\ aborted' = aborted /\ torn' = torn

OpenFail(c) ==
    /\ CtrlFrame(c) /\ c.c = "O"
    /\ Fail(HASH_ID(c.id), c.id)
    /\ net' = net /\ torn' = torn

OpenNew(c, type, writing, kind, state) ==
    /\ CtrlFrame(c) /\ c.c = "O"
    /\ type \in {"CONNECTED", "CONNECTING"} /\ writing \in BOOLEAN
    /\ kind = (IF type = "CONNECTED" THEN "OPEN" ELSE "-")
    /\ state \in {"up", "syn"}
    /\ sock[HASH_ID(c.id)].type = "RESERVE" /\ send_buffer_empty(sock[HASH_ID(c.id)])
    /\ Set(HASH_ID(c.id), NewSocket(sock[HASH_ID(c.id)], c.id, type, TRUE, writing), c.id, kind)
    /\ net' = [net EXCEPT ![c.id] = state]
    /\ torn' = torn

CtrlStop(c) ==
    /\ CtrlFrame(c)
    /\ sock' = sock /\ said' = said /\ fc' = fc /\ net' = net /\ torn' = torn
    /\ aborted' \notin {"no", "list_uncomplete", "wb_size"}
    /\ c.c \in {"O", "K", "Q"} \/ aborted' = "dec_sending_ref"
    /\ aborted' = "dec_sending_ref" =>
         /\ c.c \in {"D", "P"} /\ sock[HASH_ID(c.id)].sending = 0
         /\ sock[HASH_ID(c.id)].id = c.id /\ sock[HASH_ID(c.id)].tcp

CtrlTell(c, kind) ==
    /\ CtrlFrame(c) /\ c.c \in {"K", "Q", "R", "S", "W"}
    /\ kind \in {"-", "ERR"}
    /\ c.c = "W" => Invalid(c.id)
    /\ sock' = sock /\ Say(c.id, kind) /\ fc' = fc /\ net' = net /\ torn' = torn
    /\ aborted' = aborted

CloseNow(c) ==
    /\ CtrlFrame(c) /\ c.c \in {"K", "Q"} /\ ~ Invalid(c.id)
    /\ c.c = "Q" \/ nomore_sending_data(sock[HASH_ID(c.id)])
    /\ Forced(HASH_ID(c.id), CloseKind(sock[HASH_ID(c.id)]), TRUE)
    /\ net' = net

CloseLater(c) ==
    /\ CtrlFrame(c) /\ c.c = "K" /\ ~ Invalid(c.id)
    /\ ~ nomore_sending_data(sock[HASH_ID(c.id)])
    /\ Set(HASH_ID(c.id), [close_read(sock[HASH_ID(c.id)]) EXCEPT !.closing = TRUE], c.id,
           CloseKind(sock[HASH_ID(c.id)]))
    /\ net' = net /\ torn' = torn \cup Undone

ResumeFail(c) ==
    /\ CtrlFrame(c) /\ c.c = "R"
    /\ sock[HASH_ID(c.id)].id = c.id /\ sock[HASH_ID(c.id)].type = "INVALID"
    /\ Fail(HASH_ID(c.id), c.id)
    /\ net' = net /\ torn' = torn

Resumed(c) ==
    /\ CtrlFrame(c) /\ c.c = "R" /\ ~ Invalid(c.id)
    /\ sock[HASH_ID(c.id)].type # "HALFCLOSE_READ"
    /\ Set(HASH_ID(c.id), resume(sock[HASH_ID(c.id)]), c.id,
           IF sock[HASH_ID(c.id)].type \in {"PACCEPT", "CONNECTED"} THEN "OPEN" ELSE "-")
    /\ net' = net /\ torn' = torn

Paused(c) ==
    /\ CtrlFrame(c) /\ c.c = "S" /\ ~ Invalid(c.id)
    /\ Set(HASH_ID(c.id), [sock[HASH_ID(c.id)] EXCEPT !.reading = FALSE], c.id, "-")
    /\ net' = net /\ torn' = torn

Armed(c) ==
    /\ CtrlFrame(c) /\ c.c = "W" /\ ~ Invalid(c.id)
    /\ Set(HASH_ID(c.id), [sock[HASH_ID(c.id)] EXCEPT !.writing = TRUE], c.id, "-")
    /\ net' = net /\ torn' = torn

\* What send_socket makes of slot x.
Queued(x, id, m) == IF Drops(x, id) THEN x ELSE Enqueue(x, m, sent[m].low)

DataElse(c) ==
    /\ CtrlFrame(c) /\ c.c \in {"D", "P"}
    /\ sock[HASH_ID(c.id)].id # c.id \/ ~ sock[HASH_ID(c.id)].tcp
    /\ Set(HASH_ID(c.id), Queued(sock[HASH_ID(c.id)], c.id, c.m), c.id, "-")
    /\ net' = net /\ torn' = torn

DataTcp(c) ==
    /\ CtrlFrame(c) /\ c.c \in {"D", "P"}
    /\ sock[HASH_ID(c.id)].id = c.id /\ sock[HASH_ID(c.id)].tcp
    /\ sock[HASH_ID(c.id)].sending # 0
    /\ Set(HASH_ID(c.id), [Queued(sock[HASH_ID(c.id)], c.id, c.m) EXCEPT !.sending = @ - 1],
           c.id, "-")
    /\ net' = net /\ torn' = torn

\* An event e is handled; only its write part may stay in the batch.
EventFrame(e) ==
    /\ fc = NoClose
    /\ e \in batch /\ e \in Ev
    /\ stale' = stale \cup ({sock[e.s].id} \ {e.id})
    /\ \A f \in batch' : f \in batch \/ (e.write /\ f = [e EXCEPT !.read = FALSE])
    /\ checkctrl' = FALSE
    /\ UNCHANGED <<alloc_id, lock, call, pipe, sent, cmds, peers>>

Reset(id) == net' = [net EXCEPT ![id] = IF @ = "rst" THEN "hup" ELSE @]

EventTell(e, kind) ==
    /\ EventFrame(e)
    /\ kind \in {"-", "ERR", "DATA"}
    /\ kind = "DATA" =>
         /\ e.read /\ net[sock[e.s].id] \in {"up", "fin"}
         /\ sock[e.s].type \notin {"CONNECTING", "INVALID", "HALFCLOSE_READ"}
    /\ sock' = sock /\ Say(sock[e.s].id, kind) /\ fc' = fc /\ torn' = torn /\ wire' = wire
    /\ aborted' = aborted
    /\ net' = net \/ Reset(sock[e.s].id)

EventStop(e) ==
    /\ EventFrame(e)
    /\ sock' = sock /\ said' = said /\ fc' = fc /\ torn' = torn /\ wire' = wire
    /\ net' = net \/ Reset(sock[e.s].id)
    /\ aborted' \notin {"no", "dec_sending_ref", "wb_size"}
    /\ aborted' = "list_uncomplete" => list_uncomplete(sock[e.s].low)

EventForce(e, kind) ==
    /\ EventFrame(e)
    /\ \/ sock[e.s].type = "CONNECTING" /\ net[sock[e.s].id] \in {"rst", "hup"} /\ kind = "ERR"
       \/ sock[e.s].closing /\ nomore_sending_data(sock[e.s]) /\ kind = "-"
       \/ sock[e.s].type = "HALFCLOSE_WRITE" /\ kind = "CLOSE"
       \/ e.eof /\ sock[e.s].type \in Live \ {"CONNECTING"} /\ kind = CloseKind(sock[e.s])
       \/ ~ sock[e.s].tcp /\ sock[e.s].type \in Live /\ kind = "-"
    /\ sock[e.s].type \in Live
    /\ Forced(e.s, kind, FALSE)
    /\ net' = net /\ wire' = wire

Connected(e) ==
    /\ EventFrame(e)
    /\ sock[e.s].type = "CONNECTING"
    /\ Set(e.s, AfterConnect(sock[e.s]), sock[e.s].id, "OPEN")
    /\ net' = net /\ wire' = wire /\ torn' = torn

EofRead(e) ==
    /\ EventFrame(e)
    /\ sock[e.s].type \in {"CONNECTED", "PACCEPT", "RESERVE"} /\ ~ sock[e.s].closing
    /\ net[sock[e.s].id] \in {"fin", "hup"}
    /\ Set(e.s, close_read(sock[e.s]), sock[e.s].id, "CLOSE")
    /\ net' = net /\ wire' = wire /\ torn' = torn \cup Undone

WriteFrame(e) ==
    /\ EventFrame(e) /\ e.write
    /\ lock[e.s] = None /\ sock[e.s].type \notin {"CONNECTING", "INVALID"}

\* A write failed: the socket is closed, or only its write side.
WriteClosed(e) ==
    /\ WriteFrame(e)
    /\ sock[e.s].closing \/ sock[e.s].type = "HALFCLOSE_READ"
    /\ sock[e.s].type # "RESERVE"
    /\ Set(e.s, Closed(WithDirect(sock[e.s])), sock[e.s].id, "-")
    /\ net' = [net EXCEPT ![sock[e.s].id] = "none"]
    /\ wire' = wire /\ torn' = torn

WriteStopped(e) ==
    /\ WriteFrame(e)
    /\ sock[e.s].type = "HALFCLOSE_WRITE"
    /\ Set(e.s, WithDirect(sock[e.s]), sock[e.s].id, "-")
    /\ Reset(sock[e.s].id)
    /\ wire' = wire /\ torn' = torn

WriteError(e) ==
    /\ WriteFrame(e)
    /\ ~ sock[e.s].closing
    /\ sock[e.s].type \in {"CONNECTED", "PACCEPT", "RESERVE"}
    /\ WithDirect(sock[e.s]).high \o sock[e.s].low # << >>
    /\ Set(e.s, [WithDirect(sock[e.s]) EXCEPT !.type = "HALFCLOSE_WRITE", !.writing = FALSE],
           sock[e.s].id, "ERR")
    /\ Reset(sock[e.s].id)
    /\ wire' = wire /\ torn' = torn \cup Undone

\* n buffers and k units of the next are written.
WriteSome(e, n, k) ==
    LET x == WithDirect(sock[e.s])
        all == x.high \o x.low
    IN  /\ WriteFrame(e)
        /\ n \in Nat /\ k \in 0 .. MsgSize - 1
        /\ ~ list_uncomplete(x.low)
        /\ \/ all = << >>
           \/ /\ sock[e.s].type \notin {"RESERVE", "HALFCLOSE_WRITE"}
              /\ net[sock[e.s].id] \notin {"rst", "hup", "none"}
        /\ n <= Len(all)
        /\ k > 0 => n < Len(all) /\ all[n + 1].at + k < MsgSize
        /\ wire' = [wire EXCEPT ![sock[e.s].id] = @ \o Writes(all, n, k)]
        /\ torn' = torn

WriteMore(e, n, k) ==
    /\ WriteSome(e, n, k)
    /\ sock' = [sock EXCEPT ![e.s] = Written(WithDirect(sock[e.s]), n, k)]
    /\ said' = said /\ fc' = fc
    /\ aborted' # aborted => /\ aborted' = "wb_size"
                             /\ Written(WithDirect(sock[e.s]), n, k).freed
    /\ net' = net

WriteFinish(e, n, k) ==
    /\ WriteSome(e, n, k)
    /\ send_buffer_empty(Written(WithDirect(sock[e.s]), n, k))
    /\ sock[e.s].closing /\ sock[e.s].type # "RESERVE"
    /\ Set(e.s, Closed(Written(WithDirect(sock[e.s]), n, k)), sock[e.s].id, "-")
    /\ net' = [net EXCEPT ![sock[e.s].id] = "none"]

WriteDone(e, n, k) ==
    /\ WriteSome(e, n, k)
    /\ send_buffer_empty(Written(WithDirect(sock[e.s]), n, k))
    /\ ~ sock[e.s].closing
    /\ Set(e.s, [Written(WithDirect(sock[e.s]), n, k) EXCEPT !.writing = FALSE], sock[e.s].id,
           "-")
    /\ net' = net

AcceptFrame ==
    /\ fc = NoClose
    /\ peers < MaxPeer /\ peers' = peers + 1
    /\ checkctrl' = FALSE
    /\ UNCHANGED <<lock, call, pipe, sent, cmds, batch, stale, torn, wire>>

AcceptNew ==
    /\ AcceptFrame
    /\ Fresh # {} /\ NextId \in Id /\ alloc_id' = NextId
    /\ send_buffer_empty(sock[HASH_ID(NextId)])
    /\ Set(HASH_ID(NextId), NewSocket(sock[HASH_ID(NextId)], NextId, "PACCEPT", FALSE, FALSE),
           NextId, "ACCEPT")
    /\ net' = [net EXCEPT ![NextId] = "up"]

AcceptNone ==
    /\ AcceptFrame
    /\ alloc_id' \in Id /\ alloc_id' > alloc_id
    /\ sock' = sock /\ said' = said /\ fc' = fc /\ net' = net
    /\ aborted' \notin {"dec_sending_ref", "list_uncomplete", "wb_size"}

CtrlCase(c) ==
    \/ OpenFail(c) \/ (\E type, writing, kind, state : OpenNew(c, type, writing, kind, state))
    \/ CtrlStop(c) \/ (\E kind : CtrlTell(c, kind)) \/ CloseNow(c) \/ CloseLater(c)
    \/ ResumeFail(c) \/ Resumed(c) \/ Paused(c) \/ Armed(c) \/ DataElse(c) \/ DataTcp(c)

EventCase(e) ==
    \/ (\E kind : EventTell(e, kind)) \/ EventStop(e) \/ (\E kind : EventForce(e, kind))
    \/ Connected(e) \/ EofRead(e) \/ WriteClosed(e) \/ WriteStopped(e) \/ WriteError(e)
    \/ (\E n, k : WriteMore(e, n, k)) \/ (\E n, k : WriteFinish(e, n, k))
    \/ (\E n, k : WriteDone(e, n, k))

LEMMA CtrlCases ==
    ASSUME Types, IdInv, Ctrl, aborted = "no"
    PROVE  CtrlCase(pipe[1])
<1> DEFINE c == pipe[1]
           s == HASH_ID(c.id)
           x == sock[s]
<1>1. CtrlFrame(c)
  BY TailPipe DEF Ctrl, CtrlFrame
<1>2. c.id \in Id /\ s \in Slot /\ x \in Sock /\ Head(pipe) = c
  BY <1>1, IdType, TailPipe DEF CtrlFrame, Cmd, Types
<1> HIDE DEF c, x
<1>3. CASE c.c = "O"
  <2>1. open_socket(c.id) /\ torn' = torn
    BY <1>2, <1>3 DEF Ctrl
  <2>2. CASE Fail(s, c.id) /\ UNCHANGED net
    BY <1>1, <1>3, <2>1, <2>2 DEF OpenFail, CtrlCase, c
  <2>3. ASSUME NEW type \in {"CONNECTED", "CONNECTING"}, NEW writing \in BOOLEAN, NEW kind,
               kind = (IF type = "CONNECTED" THEN "OPEN" ELSE "-"),
               NEW state \in {"up", "syn"},
               new_fd(c.id, type, TRUE, writing, kind, state)
        PROVE  CtrlCase(c)
    <3>1. CASE x.type # "RESERVE" \/ ~ send_buffer_empty(x)
      <4>1. CtrlStop(c)
        BY <1>1, <1>3, <2>1, <2>3, <3>1 DEF new_fd, CtrlStop, Abort, x
      <4>. QED BY <4>1 DEF CtrlCase
    <3>2. CASE x.type = "RESERVE" /\ send_buffer_empty(x)
      <4>1. OpenNew(c, type, writing, kind, state)
        BY <1>1, <1>3, <2>1, <2>3, <3>2 DEF new_fd, OpenNew, x
      <4>. QED BY <4>1 DEF CtrlCase
    <3>. QED BY <3>1, <3>2
  <2>. QED BY <2>1, <2>2, <2>3 DEF open_socket, c
<1>4. CASE c.c \in {"K", "Q"}
  <2>1. close_socket(c.id, c.c = "Q") /\ torn' = torn \cup Undone /\ net' = net
    BY <1>2, <1>4 DEF Ctrl
  <2>2. CASE Invalid(c.id)
    <3>1. CtrlTell(c, "-")
      BY <1>1, <1>4, <2>1, <2>2 DEF close_socket, CtrlTell, Skip, Say, Undone
    <3>. QED BY <3>1 DEF CtrlCase, c
  <2>3. CASE ~ Invalid(c.id) /\ (c.c = "Q" \/ nomore_sending_data(x))
    <3>1. force_close(s, CloseKind(x), TRUE)
      BY <2>1, <2>3 DEF close_socket, x
    <3>2. CASE x.type = "RESERVE"
      <4>1. CtrlStop(c)
        BY <1>1, <1>4, <2>1, <3>1, <3>2 DEF force_close, CtrlStop, Abort, x, Undone
      <4>. QED BY <4>1 DEF CtrlCase, c
    <3>3. CASE x.type # "RESERVE"
      <4>1. torn' = torn
        BY <1>2, <2>1, <3>1, <3>3 DEF force_close, Undone, x, Types, Sock
      <4>2. CloseNow(c)
        BY <1>1, <1>4, <2>1, <2>3, <3>1, <3>3, <4>1 DEF force_close, CloseNow, Forced, x
      <4>. QED BY <4>2 DEF CtrlCase, c
    <3>. QED BY <3>2, <3>3
  <2>4. CASE ~ Invalid(c.id) /\ ~ (c.c = "Q" \/ nomore_sending_data(x))
    <3>1. CloseLater(c)
      BY <1>1, <1>4, <2>1, <2>4 DEF close_socket, CloseLater, x
    <3>. QED BY <3>1 DEF CtrlCase, c
  <2>. QED BY <2>2, <2>3, <2>4
<1>5. CASE c.c = "R"
  <2>1. resume_socket(c.id) /\ torn' = torn \cup Undone /\ net' = net
    BY <1>2, <1>5 DEF Ctrl
  <2>2. CASE x.id = c.id /\ x.type = "INVALID"
    <3>1. Fail(s, c.id)
      BY <2>1, <2>2 DEF resume_socket, x
    <3>2. torn' = torn
      BY <1>2, <2>1, <2>2, <3>1 DEF Fail, Undone, x, Types, Sock
    <3>3. ResumeFail(c)
      BY <1>1, <1>5, <2>1, <2>2, <3>1, <3>2 DEF ResumeFail, x
    <3>. QED BY <3>3 DEF CtrlCase, c
  <2>3. CASE ~ (x.id = c.id /\ x.type = "INVALID") /\ (Invalid(c.id) \/ x.type = "HALFCLOSE_READ")
    <3>1. Set(s, x, c.id, "ERR")
      BY <2>1, <2>3 DEF resume_socket, x
    <3>2. sock' = sock
      BY <1>2, <3>1 DEF Set, x, Types
    <3>3. CtrlTell(c, "ERR")
      BY <1>1, <1>5, <2>1, <3>1, <3>2 DEF CtrlTell, Set, Undone
    <3>. QED BY <3>3 DEF CtrlCase, c
  <2>4. CASE ~ Invalid(c.id) /\ x.type # "HALFCLOSE_READ"
    <3>0. x.type # "INVALID"
      BY <2>4 DEF Invalid, x
    <3>1. Set(s, resume(x), c.id, IF x.type \in {"PACCEPT", "CONNECTED"} THEN "OPEN" ELSE "-")
      BY <2>1, <2>4, <3>0 DEF resume_socket, x
    <3>2. resume(x).type = (IF x.type = "PACCEPT" THEN "CONNECTED" ELSE x.type)
      BY <1>2 DEF resume, Sock
    <3>3. torn' = torn
      BY <1>2, <2>1, <3>1, <3>2 DEF Set, Undone, x, Types
    <3>4. Resumed(c)
      BY <1>1, <1>5, <2>1, <2>4, <3>1, <3>3 DEF Resumed, x
    <3>. QED BY <3>4 DEF CtrlCase, c
  <2>. QED BY <2>2, <2>3, <2>4
<1>6. CASE c.c = "S"
  <2>1. pause_socket(c.id) /\ torn' = torn \cup Undone /\ net' = net
    BY <1>2, <1>6 DEF Ctrl
  <2>2. CASE Invalid(c.id)
    <3>1. CtrlTell(c, "-")
      BY <1>1, <1>6, <2>1, <2>2 DEF pause_socket, CtrlTell, Skip, Say, Undone
    <3>. QED BY <3>1 DEF CtrlCase, c
  <2>3. CASE ~ Invalid(c.id)
    <3>1. Set(s, [x EXCEPT !.reading = FALSE], c.id, "-")
      BY <2>1, <2>3 DEF pause_socket, x
    <3>2. torn' = torn
      BY <1>2, <2>1, <3>1 DEF Set, Undone, x, Types, Sock
    <3>3. Paused(c)
      BY <1>1, <1>6, <2>1, <2>3, <3>1, <3>2 DEF Paused, x
    <3>. QED BY <3>3 DEF CtrlCase, c
  <2>. QED BY <2>2, <2>3
<1>7. CASE c.c = "W"
  <2>1. trigger_write(c.id) /\ torn' = torn \cup Undone /\ net' = net
    BY <1>2, <1>7 DEF Ctrl
  <2>2. CASE Invalid(c.id)
    <3>1. CtrlTell(c, "-")
      BY <1>1, <1>7, <2>1, <2>2 DEF trigger_write, CtrlTell, Skip, Say, Undone
    <3>. QED BY <3>1 DEF CtrlCase, c
  <2>3. CASE ~ Invalid(c.id)
    <3>1. Set(s, [x EXCEPT !.writing = TRUE], c.id, "-")
      BY <2>1, <2>3 DEF trigger_write, x
    <3>2. torn' = torn
      BY <1>2, <2>1, <3>1 DEF Set, Undone, x, Types, Sock
    <3>3. Armed(c)
      BY <1>1, <1>7, <2>1, <2>3, <3>1, <3>2 DEF Armed, x
    <3>. QED BY <3>3 DEF CtrlCase, c
  <2>. QED BY <2>2, <2>3
<1>8. CASE c.c \in {"D", "P"}
  <2> DEFINE y == Queued(x, c.id, c.m)
  <2>1. send_socket(c.id, c.m) /\ torn' = torn \cup Undone /\ net' = net
    BY <1>2, <1>8 DEF Ctrl
  <2>2. /\ y.id = x.id /\ y.tcp = x.tcp /\ y.sending = x.sending /\ y.type = x.type
        /\ [y EXCEPT !.sending = @ - 1].type = x.type
    BY <1>2 DEF Queued, Enqueue, Sock
  <2>3. CASE x.id # c.id \/ ~ x.tcp
    <3>1. Set(s, y, c.id, "-")
      BY <2>1, <2>2, <2>3 DEF send_socket, x, Queued
    <3>2. torn' = torn
      BY <1>2, <2>1, <2>2, <3>1 DEF Set, Undone, x, Types
    <3>3. DataElse(c)
      BY <1>1, <1>8, <2>1, <2>3, <3>1, <3>2 DEF DataElse, x
    <3>. QED BY <3>3 DEF CtrlCase, c
  <2>4. CASE x.id = c.id /\ x.tcp /\ x.sending = 0
    <3>1. Abort("dec_sending_ref")
      BY <2>1, <2>2, <2>4 DEF send_socket, x, Queued
    <3>2. CtrlStop(c)
      BY <1>1, <1>8, <2>1, <2>4, <3>1 DEF Abort, CtrlStop, Undone, x
    <3>. QED BY <3>2 DEF CtrlCase, c
  <2>5. CASE x.id = c.id /\ x.tcp /\ x.sending # 0
    <3>0. y.id = c.id /\ y.tcp /\ y.sending # 0
      BY <2>2, <2>5
    <3>1. Set(s, [y EXCEPT !.sending = @ - 1], c.id, "-")
      <4> DEFINE R(z) == IF z.id # c.id \/ ~ z.tcp THEN Set(s, z, c.id, "-")
                         ELSE IF z.sending = 0 THEN Abort("dec_sending_ref")
                         ELSE Set(s, [z EXCEPT !.sending = @ - 1], c.id, "-")
      <4>1. R(y)
        BY <2>1 DEF send_socket, x, Queued
      <4> HIDE DEF y
      <4>. QED BY <3>0, <4>1
    <3>2. torn' = torn
      BY <1>2, <2>1, <2>2, <3>1 DEF Set, Undone, x, Types
    <3>3. DataTcp(c)
      BY <1>1, <1>8, <2>1, <2>5, <3>1, <3>2 DEF DataTcp, x
    <3>. QED BY <3>3 DEF CtrlCase, c
  <2>. QED BY <2>3, <2>4, <2>5
<1>. QED BY <1>1, <1>3, <1>4, <1>5, <1>6, <1>7, <1>8 DEF CtrlFrame, Cmd, c

LEMMA CatFacts ==
    ASSUME NEW S, NEW a \in Seq(S), NEW b \in Seq(S)
    PROVE  /\ a \o b \in Seq(S) /\ Len(a \o b) = Len(a) + Len(b)
           /\ Len(a) \in Nat /\ Len(b) \in Nat
           /\ DOMAIN a = 1 .. Len(a) /\ DOMAIN b = 1 .. Len(b)
           /\ DOMAIN (a \o b) = 1 .. Len(a) + Len(b)
           /\ \A i \in 1 .. Len(a) : (a \o b)[i] = a[i]
           /\ \A i \in 1 .. Len(b) : (a \o b)[Len(a) + i] = b[i]
           /\ \A i \in Nat : i > Len(a) /\ i <= Len(a) + Len(b) => (a \o b)[i] = b[i - Len(a)]
OBVIOUS

LEMMA FunSeq ==
    ASSUME NEW S, NEW n \in Nat, NEW f \in [1 .. n -> S]
    PROVE  f \in Seq(S) /\ Len(f) = n /\ DOMAIN f = 1 .. n
OBVIOUS

LEMMA SingleSeq == ASSUME NEW S, NEW a \in S PROVE <<a>> \in Seq(S) /\ Len(<<a>>) = 1 /\ <<a>>[1] = a
OBVIOUS

LEMMA WithDirectFacts ==
    ASSUME NEW x \in Sock
    PROVE  /\ WithDirect(x) \in Sock
           /\ WithDirect(x).id = x.id /\ WithDirect(x).type = x.type
           /\ WithDirect(x).closing = x.closing /\ WithDirect(x).low = x.low
           /\ WithDirect(x).high = x.dw \o x.high /\ WithDirect(x).dw = << >>
           /\ WithDirect(x).tcp = x.tcp /\ WithDirect(x).tag = x.tag
           /\ WithDirect(x).sending = x.sending /\ WithDirect(x).writing = x.writing
           /\ WithDirect(x).reading = x.reading /\ WithDirect(x).freed = x.freed
<1>1. << >> \in Seq(Node) BY EmptySeq
<1>2. x.dw \o x.high \in Seq(Node) BY DEF Sock
<1>. QED BY <1>1, <1>2 DEF WithDirect, Sock

LEMMA LeftType ==
    ASSUME NEW list \in Seq(Node), NEW n \in Nat, NEW k \in 0 .. MsgSize - 1, n <= Len(list),
           k > 0 => n < Len(list) /\ list[n + 1].at + k < MsgSize
    PROVE  /\ Left(list, n, k) \in Seq(Node)
           /\ Len(Left(list, n, k)) = Len(list) - n
           /\ DOMAIN Left(list, n, k) = 1 .. Len(list) - n
<1>1. Len(list) - n \in Nat
  OBVIOUS
<1>2. ASSUME NEW i \in 1 .. Len(list) - n
      PROVE  (IF i = 1 THEN [list[n + 1] EXCEPT !.at = @ + k] ELSE list[n + i]) \in Node
  <2>1. list[n + i] \in Node /\ n + i \in 1 .. Len(list)
    BY <1>2
  <2>2. CASE i # 1
    BY <2>1, <2>2
  <2>3. CASE i = 1
    <3>1. list[n + 1] \in Node /\ list[n + 1].at + k \in 0 .. MsgSize - 1
      BY <2>1, <2>3, SocketAssumption DEF Node
    <3>. QED BY <2>3, <3>1 DEF Node
  <2>. QED BY <2>2, <2>3
<1>3. Left(list, n, k) \in [1 .. Len(list) - n -> Node]
  BY <1>2 DEF Left
<1>. QED BY <1>1, <1>3, FunSeq

\* The bounds of a write over the two lists, list by list.
LEMMA CatRoom ==
    ASSUME NEW a \in Seq(Node), NEW b \in Seq(Node), NEW n \in Nat, NEW k \in 0 .. MsgSize - 1,
           n <= Len(a \o b), k > 0 => n < Len(a \o b) /\ (a \o b)[n + 1].at + k < MsgSize
    PROVE  /\ Len(a) \in Nat /\ Len(b) \in Nat
           /\ n <= Len(a) + Len(b)
           /\ k > 0 => n < Len(a) + Len(b)
           /\ k > 0 /\ n < Len(a) => a[n + 1].at + k < MsgSize
           /\ n >= Len(a) =>
                /\ n - Len(a) \in Nat /\ n - Len(a) <= Len(b)
                /\ k > 0 => n - Len(a) < Len(b) /\ b[n - Len(a) + 1].at + k < MsgSize
<1>1. Len(a \o b) = Len(a) + Len(b) /\ Len(a) \in Nat /\ Len(b) \in Nat
  OBVIOUS
<1>2. n < Len(a) => (a \o b)[n + 1] = a[n + 1]
  BY <1>1
<1>3. n >= Len(a) /\ n < Len(a) + Len(b) => (a \o b)[n + 1] = b[n + 1 - Len(a)]
  BY <1>1
<1>4. n + 1 - Len(a) = n - Len(a) + 1
  BY <1>1
<1>5. n >= Len(a) => n - Len(a) \in Nat /\ n - Len(a) <= Len(b)
  BY <1>1
<1>6. k > 0 => n < Len(a) + Len(b)
  BY <1>1
<1>7. n >= Len(a) /\ k > 0 => n - Len(a) < Len(b)
  BY <1>1, <1>6
<1>8. n >= Len(a) /\ k > 0 => b[n - Len(a) + 1].at + k < MsgSize
  BY <1>1, <1>3, <1>4, <1>6
<1>9. k > 0 /\ n < Len(a) => a[n + 1].at + k < MsgSize
  BY <1>2
<1>. QED BY <1>1, <1>5, <1>6, <1>7, <1>8, <1>9

LEMMA WrittenFacts ==
    ASSUME NEW x \in Sock, NEW n \in Nat, NEW k \in 0 .. MsgSize - 1,
           n <= Len(x.high \o x.low),
           k > 0 => n < Len(x.high \o x.low) /\ (x.high \o x.low)[n + 1].at + k < MsgSize
    PROVE  /\ Written(x, n, k) \in Sock
           /\ Written(x, n, k).id = x.id /\ Written(x, n, k).type = x.type
           /\ Written(x, n, k).closing = x.closing /\ Written(x, n, k).dw = x.dw
           /\ Written(x, n, k).tcp = x.tcp /\ Written(x, n, k).tag = x.tag
           /\ Written(x, n, k).sending = x.sending /\ Written(x, n, k).writing = x.writing
           /\ Written(x, n, k).reading = x.reading /\ Written(x, n, k).freed = x.freed
           /\ n < Len(x.high) => /\ Written(x, n, k).high = Left(x.high, n, k)
                                 /\ Written(x, n, k).low = x.low
           /\ n >= Len(x.high) =>
                LET l == Left(x.low, n - Len(x.high), k) IN
                /\ l \in Seq(Node)
                /\ Written(x, n, k).high = IF list_uncomplete(l) THEN <<Head(l)>> ELSE << >>
                /\ Written(x, n, k).low = IF list_uncomplete(l) THEN Tail(l) ELSE l
<1>0. x.high \in Seq(Node) /\ x.low \in Seq(Node) BY DEF Sock
<1>a. /\ Len(x.high) \in Nat /\ Len(x.low) \in Nat
      /\ n <= Len(x.high) + Len(x.low)
      /\ k > 0 => n < Len(x.high) + Len(x.low)
      /\ k > 0 /\ n < Len(x.high) => x.high[n + 1].at + k < MsgSize
      /\ n >= Len(x.high) =>
           /\ n - Len(x.high) \in Nat /\ n - Len(x.high) <= Len(x.low)
           /\ k > 0 => n - Len(x.high) < Len(x.low) /\ x.low[n - Len(x.high) + 1].at + k < MsgSize
  BY <1>0, CatRoom
<1>1. CASE n < Len(x.high)
  <2>1. k > 0 => x.high[n + 1].at + k < MsgSize
    BY <1>a, <1>1
  <2>2. Left(x.high, n, k) \in Seq(Node)
    BY <1>0, <1>1, <2>1, LeftType
  <2>3. Written(x, n, k) = [x EXCEPT !.high = Left(x.high, n, k)]
    BY <1>1 DEF Written
  <2>4. ~ (n >= Len(x.high))
    BY <1>a, <1>1
  <2>5. /\ Written(x, n, k) \in Sock
        /\ Written(x, n, k).high = Left(x.high, n, k) /\ Written(x, n, k).low = x.low
        /\ Written(x, n, k).id = x.id /\ Written(x, n, k).type = x.type
        /\ Written(x, n, k).closing = x.closing /\ Written(x, n, k).dw = x.dw
        /\ Written(x, n, k).tcp = x.tcp /\ Written(x, n, k).tag = x.tag
        /\ Written(x, n, k).sending = x.sending /\ Written(x, n, k).writing = x.writing
        /\ Written(x, n, k).reading = x.reading /\ Written(x, n, k).freed = x.freed
    BY <2>2, <2>3 DEF Sock
  <2>. QED BY <2>4, <2>5
<1>2. CASE n >= Len(x.high)
  <2> DEFINE l == Left(x.low, n - Len(x.high), k)
             z == [x EXCEPT !.high = << >>, !.low = l]
  <2>1. n - Len(x.high) \in Nat /\ n - Len(x.high) <= Len(x.low)
    BY <1>a, <1>2
  <2>2. k > 0 => n - Len(x.high) < Len(x.low) /\ x.low[n - Len(x.high) + 1].at + k < MsgSize
    BY <1>a, <1>2
  <2>3. l \in Seq(Node)
    BY <1>0, <2>1, <2>2, LeftType
  <2>4. Written(x, n, k) = raise_uncomplete(z)
    BY <1>0, <1>2 DEF Written
  <2> HIDE DEF l
  <2>5. << >> \in Seq(Node)
    BY EmptySeq
  <2>6. CASE list_uncomplete(l)
    <3>1. Head(l) \in Node /\ Tail(l) \in Seq(Node) /\ <<Head(l)>> \in Seq(Node)
      BY <2>3, <2>6 DEF list_uncomplete
    <3>2. z.low = l
      BY <2>3, <2>5 DEF Sock
    <3>3. Written(x, n, k) = [z EXCEPT !.high = <<Head(l)>>, !.low = Tail(l)]
      BY <2>4, <2>6, <3>2 DEF raise_uncomplete
    <3>4. /\ Written(x, n, k) \in Sock
          /\ Written(x, n, k).high = <<Head(l)>> /\ Written(x, n, k).low = Tail(l)
          /\ Written(x, n, k).id = x.id /\ Written(x, n, k).type = x.type
          /\ Written(x, n, k).closing = x.closing /\ Written(x, n, k).dw = x.dw
          /\ Written(x, n, k).tcp = x.tcp /\ Written(x, n, k).tag = x.tag
          /\ Written(x, n, k).sending = x.sending /\ Written(x, n, k).writing = x.writing
          /\ Written(x, n, k).reading = x.reading /\ Written(x, n, k).freed = x.freed
      BY <2>3, <2>5, <3>1, <3>3 DEF Sock
    <3>. QED BY <1>a, <1>2, <2>3, <2>6, <3>4 DEF l
  <2>7. CASE ~ list_uncomplete(l)
    <3>2. z.low = l
      BY <2>3, <2>5 DEF Sock
    <3>3. Written(x, n, k) = z
      BY <2>4, <2>7, <3>2 DEF raise_uncomplete
    <3>4. /\ Written(x, n, k) \in Sock
          /\ Written(x, n, k).high = << >> /\ Written(x, n, k).low = l
          /\ Written(x, n, k).id = x.id /\ Written(x, n, k).type = x.type
          /\ Written(x, n, k).closing = x.closing /\ Written(x, n, k).dw = x.dw
          /\ Written(x, n, k).tcp = x.tcp /\ Written(x, n, k).tag = x.tag
          /\ Written(x, n, k).sending = x.sending /\ Written(x, n, k).writing = x.writing
          /\ Written(x, n, k).reading = x.reading /\ Written(x, n, k).freed = x.freed
      BY <2>3, <2>5, <3>3 DEF Sock
    <3>. QED BY <1>a, <1>2, <2>3, <2>7, <3>4 DEF l
  <2>. QED BY <2>6, <2>7
<1>. QED BY <1>a, <1>1, <1>2

LEMMA UndoneSet ==
    ASSUME Types, NEW s \in Slot, NEW y, sock' = [sock EXCEPT ![s] = y]
    PROVE  /\ Undone = IF sock[s].type = "RESERVE" /\ y.type # "RESERVE" THEN {s} ELSE {}
           /\ sock'[s] = y
           /\ \A t \in Slot : t # s => sock'[t] = sock[t]
BY DEF Types, Undone

LEMMA ForcedFacts ==
    ASSUME Types, NEW s \in Slot, NEW kind, NEW ctrl, force_close(s, kind, ctrl), sock[s].type # "RESERVE"
    PROVE  Undone = {}
BY DEF Types, Undone, force_close, Sock


\* A force_close in the handling of event e.
LEMMA EventForces ==
    ASSUME Types, NEW e \in batch, EventFrame(e), NEW kind, force_close(e.s, kind, FALSE),
           net' = net, wire' = wire, torn' = torn \cup Undone,
           sock[e.s].type \in SocketType \ {"INVALID"},
           sock[e.s].type # "RESERVE" =>
             \/ sock[e.s].type = "CONNECTING" /\ net[sock[e.s].id] \in {"rst", "hup"} /\ kind = "ERR"
             \/ sock[e.s].closing /\ nomore_sending_data(sock[e.s]) /\ kind = "-"
             \/ sock[e.s].type = "HALFCLOSE_WRITE" /\ kind = "CLOSE"
             \/ e.eof /\ sock[e.s].type # "CONNECTING" /\ kind = CloseKind(sock[e.s])
             \/ ~ sock[e.s].tcp /\ kind = "-"
    PROVE  EventStop(e) \/ EventForce(e, kind)
<1>1. e.s \in Slot
  BY DEF Types, Ev
<1>2. CASE sock[e.s].type = "RESERVE"
  BY <1>2 DEF force_close, Abort, EventStop, Undone
<1>3. CASE sock[e.s].type # "RESERVE"
  <2>1. torn' = torn
    BY <1>1, <1>3, ForcedFacts
  <2>2. sock[e.s].type \in Live
    BY <1>3 DEF SocketType
  <2>. QED BY <1>3, <2>1, <2>2 DEF force_close, Forced, EventForce
<1>. QED BY <1>2, <1>3

LEMMA HandleCases ==
    ASSUME Types, IdInv, NEW e \in batch, Handle(e), aborted = "no"
    PROVE  EventCase(e)
<1> DEFINE x == sock[e.s]
<1>1. e \in Ev /\ e.s \in Slot /\ x \in Sock /\ x.type \in SocketType
  BY DEF Types, Ev, Sock
<1>2. /\ x.id \in Nat /\ x.id # 0 /\ x.id \in Id
      /\ e.read \/ e.write \/ e.error \/ e.eof
  BY <1>1 DEF IdInv, Sock
<1>3. /\ fc = NoClose /\ checkctrl' = FALSE
      /\ stale' = stale \cup ({x.id} \ {e.id})
      /\ torn' = torn \cup Undone
      /\ UNCHANGED <<alloc_id, lock, call, pipe, sent, cmds, peers>>
  BY DEF Handle
<1> HIDE DEF x
<1>f. ASSUME NEW keep, Done(e, keep), keep \in {{}, ReadKeep(e)}
      PROVE  EventFrame(e)
  BY <1>1, <1>3, <1>f DEF EventFrame, Done, ReadKeep, x
<1>g. ASSUME batch' = batch
      PROVE  EventFrame(e)
  BY <1>1, <1>3, <1>g DEF EventFrame, x
<1>t. ASSUME EventFrame(e), NEW kind \in {"-", "ERR"}, sock' = sock, Say(x.id, kind), fc' = fc,
             aborted' = aborted, wire' = wire, net' = net \/ Reset(x.id)
      PROVE  EventCase(e)
  <2>1. torn' = torn
    BY <1>3, <1>t DEF Undone
  <2>2. EventTell(e, kind)
    BY <1>t, <2>1 DEF EventTell, x
  <2>. QED BY <2>2 DEF EventCase
<1>s. ASSUME EventFrame(e), Skip, wire' = wire, net' = net
      PROVE  EventCase(e)
  <2>1. Say(x.id, "-")
    BY <1>s DEF Skip, Say
  <2>. QED BY <1>s, <1>t, <2>1 DEF Skip
<1>b. ASSUME EventFrame(e), NEW what, Abort(what), what \notin {"no", "dec_sending_ref", "wb_size"},
             what = "list_uncomplete" => list_uncomplete(x.low), wire' = wire,
             net' = net \/ Reset(x.id)
      PROVE  EventCase(e)
  <2>1. torn' = torn
    BY <1>3, <1>b DEF Undone, Abort
  <2>2. EventStop(e)
    BY <1>b, <2>1 DEF EventStop, Abort, x
  <2>. QED BY <2>2 DEF EventCase
<1>c. ASSUME NEW kind, force_close(e.s, kind, FALSE), EventFrame(e), net' = net, wire' = wire,
             x.type # "INVALID",
             x.type # "RESERVE" =>
               \/ x.type = "CONNECTING" /\ net[x.id] \in {"rst", "hup"} /\ kind = "ERR"
               \/ x.closing /\ nomore_sending_data(x) /\ kind = "-"
               \/ x.type = "HALFCLOSE_WRITE" /\ kind = "CLOSE"
               \/ e.eof /\ x.type # "CONNECTING" /\ kind = CloseKind(x)
               \/ ~ x.tcp /\ kind = "-"
      PROVE  EventCase(e)
  <2>1. EventStop(e) \/ EventForce(e, kind)
    BY <1>1, <1>3, <1>c, EventForces DEF x
  <2>. QED BY <2>1 DEF EventCase
<1>4. CASE report_connect(e)
  <2>1. EventFrame(e) /\ x.type = "CONNECTING" /\ net' = net /\ wire' = wire
    BY <1>4, <1>f DEF report_connect, Type, x
  <2>2. CASE net[x.id] \in {"rst", "hup"}
    <3>1. force_close(e.s, "ERR", FALSE)
      BY <1>4, <2>2 DEF report_connect, x
    <3>. QED BY <1>c, <2>1, <2>2, <3>1
  <2>3. CASE net[x.id] \notin {"rst", "hup"}
    <3>1. Set(e.s, AfterConnect(x), x.id, "OPEN")
      BY <1>4, <2>3 DEF report_connect, x
    <3>2. torn' = torn
      BY <1>1, <1>3, <2>1, <3>1, UndoneSet DEF Set, x
    <3>3. Connected(e)
      BY <2>1, <3>1, <3>2 DEF Connected, x
    <3>. QED BY <3>3 DEF EventCase
  <2>. QED BY <2>2, <2>3
<1>5. CASE Ignored(e)
  BY <1>5, <1>f, <1>s DEF Ignored
<1>6. CASE forward_message(e)
  <2>0. e.read /\ x.type \notin {"CONNECTING", "INVALID"} /\ wire' = wire
    BY <1>6 DEF forward_message, Default, Type, x
  <2>1. CASE /\ x.tcp /\ net[x.id] \in {"up", "fin"}
             /\ Set(e.s, x, x.id, DataKind(x))
             /\ Done(e, ReadKeep(e)) \/ (DataKind(x) = "DATA" /\ UNCHANGED batch)
             /\ UNCHANGED net
    <3>1. EventFrame(e)
      BY <1>f, <1>g, <2>1
    <3>2. sock' = sock
      BY <1>1, <2>1 DEF Set, x, Types
    <3>3. torn' = torn
      BY <1>3, <3>2 DEF Undone
    <3>4. EventTell(e, DataKind(x))
      BY <2>0, <2>1, <3>1, <3>2, <3>3 DEF EventTell, Set, DataKind, x
    <3>. QED BY <3>4 DEF EventCase
  <2>2. CASE x.tcp /\ net[x.id] \in {"fin", "hup"} /\ ReadEof(e) /\ UNCHANGED net
    <3>1. CASE x.closing
      <4>1. EventFrame(e)
        BY <1>f, <2>2, <3>1 DEF ReadEof, x
      <4>2. CASE nomore_sending_data(x)
        <5>1. force_close(e.s, "-", FALSE)
          BY <2>2, <3>1, <4>2 DEF ReadEof, x
        <5>. QED BY <1>c, <2>0, <2>2, <3>1, <4>1, <4>2, <5>1
      <4>3. CASE ~ nomore_sending_data(x)
        <5>1. Skip
          BY <2>2, <3>1, <4>3 DEF ReadEof, x
        <5>. QED BY <1>s, <2>0, <2>2, <4>1, <5>1
      <4>. QED BY <4>2, <4>3
    <3>2. CASE ~ x.closing /\ x.type = "HALFCLOSE_READ"
      <4>1. Skip /\ EventFrame(e)
        BY <1>f, <2>2, <3>2 DEF ReadEof, x
      <4>. QED BY <1>s, <2>0, <2>2, <4>1
    <3>3. CASE ~ x.closing /\ x.type = "HALFCLOSE_WRITE"
      <4>1. force_close(e.s, "CLOSE", FALSE) /\ EventFrame(e)
        BY <1>f, <2>2, <3>3 DEF ReadEof, x
      <4>. QED BY <1>c, <2>0, <2>2, <3>3, <4>1
    <3>4. CASE ~ x.closing /\ x.type \notin {"HALFCLOSE_READ", "HALFCLOSE_WRITE"}
      <4>1. Set(e.s, close_read(x), x.id, "CLOSE") /\ EventFrame(e)
        BY <1>f, <2>2, <3>4 DEF ReadEof, x
      <4>2. x.type \in {"CONNECTED", "PACCEPT", "RESERVE"}
        BY <1>1, <2>0, <3>4 DEF SocketType, Live
      <4>3. EofRead(e)
        BY <1>3, <2>0, <2>2, <3>4, <4>1, <4>2 DEF EofRead, x
      <4>. QED BY <4>3 DEF EventCase
    <3>. QED BY <3>1, <3>2, <3>3, <3>4
  <2>3. CASE /\ x.tcp /\ net[x.id] \in {"rst", "none"}
             /\ Set(e.s, x, x.id, "ERR")
             /\ Done(e, {})
             /\ net' = [net EXCEPT ![x.id] = IF @ = "rst" THEN "hup" ELSE @]
    <3>1. EventFrame(e)
      BY <1>f, <2>3
    <3>2. sock' = sock
      BY <1>1, <2>3 DEF Set, x, Types
    <3>. QED BY <1>t, <2>0, <2>3, <3>1, <3>2 DEF Set, Reset
  <2>4. CASE ~ x.tcp /\ force_close(e.s, "-", FALSE) /\ Done(e, {}) /\ UNCHANGED net
    <3>1. EventFrame(e)
      BY <1>f, <2>4
    <3>. QED BY <1>c, <2>0, <2>4, <3>1
  <2>. QED BY <1>6, <2>1, <2>2, <2>3, <2>4 DEF forward_message, x
<1>7. ASSUME NEW n \in 0 .. MaxSend, NEW k \in 0 .. MsgSize - 1, send_buffer(e, n, k)
      PROVE  EventCase(e)
  <2> DEFINE d == WithDirect(x)
             all == d.high \o d.low
             y == Written(d, n, k)
             dead == \/ d.type \in {"RESERVE", "HALFCLOSE_WRITE"}
                     \/ net[d.id] \in {"rst", "hup", "none"}
  <2>1. e.write /\ x.type \notin {"CONNECTING", "INVALID"} /\ EventFrame(e)
    BY <1>7, <1>f DEF send_buffer, Default, Type, x
  <2>2. /\ d \in Sock /\ d.id = x.id /\ d.type = x.type /\ d.closing = x.closing
        /\ d.low = x.low
    BY <1>1, WithDirectFacts
  <2>3. IF lock[e.s] # None
        THEN n = 0 /\ k = 0 /\ Skip /\ UNCHANGED <<net, wire>>
        ELSE IF list_uncomplete(d.low)
        THEN n = 0 /\ k = 0 /\ Abort("list_uncomplete") /\ UNCHANGED <<net, wire>>
        ELSE IF dead /\ all # << >>
        THEN /\ n = 0 /\ k = 0
             /\ close_write(e.s, d)
             /\ net' = [net EXCEPT ![d.id] = IF sock'[e.s].type = "INVALID" THEN "none"
                                             ELSE IF @ = "rst" THEN "hup" ELSE @]
             /\ UNCHANGED wire
        ELSE /\ n <= Len(all) /\ (all = << >> \/ n + k > 0)
             /\ k > 0 => n < Len(all) /\ all[n + 1].at + k < MsgSize
             /\ wire' = [wire EXCEPT ![d.id] = @ \o Writes(all, n, k)]
             /\ IF ~ send_buffer_empty(y) THEN Set(e.s, y, d.id, "-")
                ELSE IF y.freed THEN AbortWritten(e.s, y)
                ELSE IF y.closing THEN Finish(e.s, y)
                ELSE Set(e.s, [y EXCEPT !.writing = FALSE], d.id, "-")
             /\ net' = [net EXCEPT ![d.id] =
                          IF sock'[e.s].type = "INVALID" THEN "none" ELSE @]
    BY <1>7 DEF send_buffer, x
  <2> HIDE DEF d, all, y, dead
  <2>4. CASE lock[e.s] # None
    BY <1>s, <2>1, <2>3, <2>4
  <2>5. CASE lock[e.s] = None /\ list_uncomplete(d.low)
    BY <1>b, <2>1, <2>2, <2>3, <2>5
  <2>6. CASE lock[e.s] = None /\ ~ list_uncomplete(d.low) /\ dead /\ all # << >>
    <3>0. /\ close_write(e.s, d)
          /\ net' = [net EXCEPT ![x.id] = IF sock'[e.s].type = "INVALID" THEN "none"
                                          ELSE IF @ = "rst" THEN "hup" ELSE @]
          /\ wire' = wire
      BY <2>2, <2>3, <2>6
    <3>w. WriteFrame(e)
      BY <2>1, <2>6 DEF WriteFrame, x
    <3>n. sock'[e.s].type # "INVALID" => Reset(x.id)
      BY <3>0 DEF Reset
    <3>1. CASE (d.closing \/ d.type = "HALFCLOSE_READ") /\ d.type = "RESERVE"
      <4>1. Abort("force_close")
        BY <3>0, <3>1 DEF close_write, Finish
      <4>2. Reset(x.id)
        BY <2>2, <3>1, <3>n, <4>1 DEF Abort, x
      <4>. QED BY <1>b, <2>1, <3>0, <4>1, <4>2
    <3>2. CASE (d.closing \/ d.type = "HALFCLOSE_READ") /\ d.type # "RESERVE"
      <4>1. Set(e.s, Closed(d), d.id, "-")
        BY <3>0, <3>2 DEF close_write, Finish
      <4>2. Closed(d).type = "INVALID"
        BY <2>2, EmptySeq DEF Closed, Sock
      <4>3. sock'[e.s].type = "INVALID" /\ torn' = torn
        BY <1>1, <1>3, <2>2, <3>2, <4>1, <4>2, UndoneSet DEF Set, x
      <4>4. WriteClosed(e)
        BY <2>2, <3>0, <3>w, <3>2, <4>1, <4>3 DEF WriteClosed, x, d
      <4>. QED BY <4>4 DEF EventCase
    <3>3. CASE ~ (d.closing \/ d.type = "HALFCLOSE_READ") /\ d.type = "HALFCLOSE_WRITE"
      <4>1. Set(e.s, d, d.id, "-")
        BY <3>0, <3>3 DEF close_write
      <4>3. sock'[e.s].type # "INVALID" /\ torn' = torn
        BY <1>1, <1>3, <2>2, <3>3, <4>1, UndoneSet DEF Set, x
      <4>4. WriteStopped(e)
        BY <2>2, <3>0, <3>w, <3>3, <3>n, <4>1, <4>3 DEF WriteStopped, x, d
      <4>. QED BY <4>4 DEF EventCase
    <3>4. CASE ~ (d.closing \/ d.type = "HALFCLOSE_READ") /\ d.type # "HALFCLOSE_WRITE"
      <4>0. x.type \in {"CONNECTED", "PACCEPT", "RESERVE"}
        BY <1>1, <2>1, <2>2, <3>4 DEF SocketType, Live
      <4>1. Set(e.s, [d EXCEPT !.type = "HALFCLOSE_WRITE", !.writing = FALSE], d.id, "ERR")
        BY <3>0, <3>4 DEF close_write
      <4>2. [d EXCEPT !.type = "HALFCLOSE_WRITE", !.writing = FALSE].type = "HALFCLOSE_WRITE"
        BY <2>2 DEF Sock
      <4>3. sock'[e.s].type # "INVALID"
        BY <1>1, <4>1, <4>2, UndoneSet DEF Set, x
      <4>4. d.high \o x.low # << >>
        BY <2>2, <2>6 DEF all
      <4>5. WriteError(e)
        BY <1>3, <2>2, <3>0, <3>w, <3>4, <3>n, <4>0, <4>1, <4>3, <4>4 DEF WriteError, x, d
      <4>. QED BY <4>5 DEF EventCase
    <3>. QED BY <3>1, <3>2, <3>3, <3>4
  <2>7. CASE lock[e.s] = None /\ ~ list_uncomplete(d.low) /\ ~ (dead /\ all # << >>)
    <3>0. /\ n <= Len(all)
          /\ k > 0 => n < Len(all) /\ all[n + 1].at + k < MsgSize
          /\ wire' = [wire EXCEPT ![x.id] = @ \o Writes(all, n, k)]
          /\ IF ~ send_buffer_empty(y) THEN Set(e.s, y, x.id, "-")
             ELSE IF y.freed THEN AbortWritten(e.s, y)
             ELSE IF y.closing THEN Finish(e.s, y)
             ELSE Set(e.s, [y EXCEPT !.writing = FALSE], x.id, "-")
          /\ net' = [net EXCEPT ![x.id] = IF sock'[e.s].type = "INVALID" THEN "none" ELSE @]
      BY <2>2, <2>3, <2>7
    <3>n. sock'[e.s].type # "INVALID" => net' = net
      BY <1>2, <3>0 DEF Types
    <3>y. y \in Sock /\ y.id = x.id /\ y.type = x.type /\ y.closing = x.closing
      <4>1. n \in Nat
        BY SocketAssumption
      <4>. QED BY <2>2, <3>0, <4>1, WrittenFacts DEF y, all
    <3>w. ASSUME torn' = torn PROVE WriteSome(e, n, k)
      <4>1. WriteFrame(e)
        BY <2>1, <2>7 DEF WriteFrame, x
      <4>2. n \in Nat
        BY SocketAssumption
      <4>3. \/ all = << >>
            \/ /\ x.type \notin {"RESERVE", "HALFCLOSE_WRITE"}
               /\ net[x.id] \notin {"rst", "hup", "none"}
        BY <2>2, <2>7 DEF dead
      <4>. QED BY <2>7, <3>0, <3>w, <4>1, <4>2, <4>3 DEF WriteSome, x, d, all
    <3>1. CASE ~ send_buffer_empty(y) \/ y.freed
      <4>1. /\ sock' = [sock EXCEPT ![e.s] = y] /\ said' = said /\ fc' = fc
            /\ aborted' # aborted => aborted' = "wb_size" /\ y.freed
        BY <3>0, <3>1 DEF Set, Say, AbortWritten
      <4>u. sock'[e.s] = y /\ Undone = IF x.type = "RESERVE" /\ y.type # "RESERVE" THEN {e.s} ELSE {}
        BY <1>1, <4>1, UndoneSet DEF x
      <4>2. sock'[e.s].type # "INVALID" /\ torn' = torn
        BY <1>3, <2>1, <3>y, <4>u
      <4>3. WriteMore(e, n, k)
        BY <3>1, <3>n, <3>w, <4>1, <4>2 DEF WriteMore, x, d, y
      <4>. QED BY <4>3 DEF EventCase
    <3>2. CASE send_buffer_empty(y) /\ ~ y.freed /\ y.closing /\ y.type = "RESERVE"
      <4>1. Abort("force_close")
        BY <3>0, <3>2 DEF Finish
      <4>2. net' = net
        BY <3>n, <3>2, <3>y, <4>1 DEF Abort, x
      <4>3. all = << >>
        BY <2>2, <2>7, <3>2, <3>y DEF dead
      <4>4. n = 0 /\ k = 0
        BY <3>0, <4>3
      <4>5. Writes(all, n, k) = << >>
        BY <4>4 DEF Writes
      <4>6. wire[x.id] \o Writes(all, n, k) = wire[x.id]
        BY <1>2, <4>5 DEF Types
      <4>7. wire' = wire
        BY <1>2, <3>0, <4>6 DEF Types
      <4>. QED BY <1>b, <2>1, <4>1, <4>2, <4>7
    <3>3. CASE send_buffer_empty(y) /\ ~ y.freed /\ y.closing /\ y.type # "RESERVE"
      <4>1. Set(e.s, Closed(y), x.id, "-")
        BY <3>0, <3>3, <3>y DEF Finish
      <4>2. Closed(y).type = "INVALID"
        BY <3>y, EmptySeq DEF Closed, Sock
      <4>3. sock'[e.s].type = "INVALID" /\ torn' = torn
        BY <1>1, <1>3, <3>3, <3>y, <4>1, <4>2, UndoneSet DEF Set, x
      <4>4. WriteFinish(e, n, k)
        BY <3>0, <3>3, <3>w, <3>y, <4>1, <4>3 DEF WriteFinish, x, d, y
      <4>. QED BY <4>4 DEF EventCase
    <3>4. CASE send_buffer_empty(y) /\ ~ y.freed /\ ~ y.closing
      <4>1. Set(e.s, [y EXCEPT !.writing = FALSE], x.id, "-")
        BY <3>0, <3>4
      <4>2. [y EXCEPT !.writing = FALSE].type = x.type
        BY <3>y DEF Sock
      <4>z. ASSUME NEW z, z = [y EXCEPT !.writing = FALSE]
            PROVE  /\ sock'[e.s] = z
                   /\ Undone = IF x.type = "RESERVE" /\ z.type # "RESERVE" THEN {e.s} ELSE {}
        BY <1>1, <4>1, <4>z, UndoneSet DEF Set, x
      <4>3. sock'[e.s].type # "INVALID" /\ torn' = torn
        BY <1>3, <2>1, <4>2, <4>z
      <4>4. WriteDone(e, n, k)
        BY <3>n, <3>4, <3>w, <3>y, <4>1, <4>3 DEF WriteDone, x, d, y
      <4>. QED BY <4>4 DEF EventCase
    <3>. QED BY <3>1, <3>2, <3>3, <3>4
  <2>. QED BY <2>4, <2>5, <2>6, <2>7
<1>8. CASE ErrorEvent(e)
  <2>1. EventFrame(e)
    BY <1>8, <1>f DEF ErrorEvent
  <2>2. sock' = sock
    BY <1>1, <1>8 DEF ErrorEvent, Set, x, Types
  <2>. QED BY <1>8, <1>t, <2>1, <2>2 DEF ErrorEvent, Set, Reset, x
<1>9. CASE EofEvent(e)
  <2>1. EventFrame(e) /\ force_close(e.s, CloseKind(x), FALSE) /\ net' = net /\ wire' = wire
    BY <1>9, <1>f DEF EofEvent, x
  <2>2. e.eof /\ x.type \notin {"CONNECTING", "INVALID"}
    BY <1>2, <1>9 DEF EofEvent, Default, Type, x
  <2>. QED BY <1>c, <2>1, <2>2
<1>. QED BY <1>4, <1>5, <1>6, <1>7, <1>8, <1>9 DEF Handle

LEMMA AcceptCases ==
    ASSUME Types, report_accept, aborted = "no"
    PROVE  AcceptNew \/ AcceptNone
<1>1. AcceptFrame
  BY DEF report_accept, AcceptFrame
<1>2. CASE Fresh # {}
  <2>1. NextId \in Id /\ alloc_id' = NextId /\ NextId > alloc_id
    BY <1>2, NextIdFresh DEF report_accept
  <2>2. CASE send_buffer_empty(sock[HASH_ID(NextId)])
    BY <1>1, <1>2, <2>1, <2>2 DEF report_accept, AcceptNew
  <2>3. CASE ~ send_buffer_empty(sock[HASH_ID(NextId)])
    BY <1>1, <1>2, <2>1, <2>3 DEF report_accept, AcceptNone, Abort
  <2>. QED BY <2>2, <2>3
<1>3. CASE Fresh = {}
  <2>1. alloc_id' \in Id /\ alloc_id' > alloc_id
    BY <1>3, SocketAssumption DEF report_accept, Types
  <2>. QED BY <1>1, <1>3, <2>1 DEF report_accept, AcceptNone, Skip
<1>. QED BY <1>2, <1>3

-----------------------------------------------------------------------------
(* What each step does to the slots, and that it keeps the types            *)

\* Only slot s may change.
SlotTo(s) ==
    /\ s \in Slot /\ sock[s] \in Sock /\ sock'[s] \in Sock
    /\ sock' \in [Slot -> Sock]
    /\ \A t \in Slot : t # s => sock'[t] = sock[t]

SameName(s) ==
    sock'[s].id = sock[s].id /\ sock'[s].tcp = sock[s].tcp /\ sock'[s].tag = sock[s].tag
SameLists(s) ==
    sock'[s].high = sock[s].high /\ sock'[s].low = sock[s].low /\ sock'[s].dw = sock[s].dw
SameCount(s) == sock'[s].sending = sock[s].sending
SameType(s) == sock'[s].type = sock[s].type /\ sock'[s].closing = sock[s].closing
SameArmed(s) == sock'[s].writing = sock[s].writing
SameRead(s) == sock'[s].reading = sock[s].reading

\* Only the call of worker w may change.
CallTo(w, c) ==
    /\ w \in Worker /\ c \in CallRec /\ call[w] \in CallRec
    /\ call'[w] = c
    /\ \A v \in Worker : v # w => call'[v] = call[v]

LEMMA SlotSet ==
    ASSUME Types, NEW s \in Slot, NEW y \in Sock, sock' = [sock EXCEPT ![s] = y]
    PROVE  SlotTo(s) /\ sock'[s] = y
BY DEF Types, SlotTo

LEMMA CallSet ==
    ASSUME Types, NEW w \in Worker, NEW c \in CallRec, Goto(w, c)
    PROVE  CallTo(w, c) /\ call' \in [Worker -> CallRec]
BY DEF Types, CallTo, Goto

LEMMA Bounds ==
    /\ NSlot \in Nat /\ NSlot # 0 /\ MsgSize \in Nat /\ MsgSize # 0 /\ MaxRef \in Nat
    /\ MaxRef # 0 /\ MaxId \in Nat /\ MaxSend \in Nat /\ MaxCmd \in Nat /\ MaxPeer \in Nat
    /\ None \notin Worker
BY SocketAssumption

LEMMA PipeType ==
    ASSUME Types
    PROVE  \A p \in DOMAIN pipe : /\ pipe[p] \in Cmd /\ pipe[p].id \in Id /\ pipe[p].id \in Nat
                                  /\ HASH_ID(pipe[p].id) \in Slot /\ pipe[p].m \in Nat
<1>1. \A p \in DOMAIN pipe : pipe[p] \in Cmd
  BY DEF Types
<1>2. \A p \in DOMAIN pipe : pipe[p].id \in Id /\ pipe[p].m \in Nat
  BY <1>1 DEF Cmd
<1>. QED BY <1>1, <1>2, IdType

\* The bounds of ids when reserve_id moves on.
LEMMA IdUp ==
    ASSUME Types, IdInv, alloc_id' \in Nat, alloc_id' >= alloc_id
    PROVE  /\ \A t \in Slot : sock[t].id <= alloc_id'
           /\ \A v \in Worker : call[v].at # "idle" => call[v].id <= alloc_id'
           /\ \A p \in DOMAIN pipe : pipe[p].id <= alloc_id'
           /\ \A e \in batch : e.id <= alloc_id'
           /\ fc.at # "no" => fc.id <= alloc_id'
           /\ \A id \in Id : id > alloc_id' => id > alloc_id
<1>0. alloc_id \in Nat
  BY DEF Types
<1>1. \A a \in Nat : a <= alloc_id => a <= alloc_id'
  BY <1>0
<1>2. \A id \in Id : id \in Nat /\ (id > alloc_id' => id > alloc_id)
  BY <1>0, IdType
<1>3. \A t \in Slot : sock[t].id \in Nat
  BY DEF Types, Sock
<1>4. \A v \in Worker : call[v].id \in Nat
  BY DEF Types, CallRec
<1>5. \A p \in DOMAIN pipe : pipe[p].id \in Nat
  BY PipeType
<1>6. \A e \in batch : e.id \in Nat
  BY DEF Types, Ev
<1>7. fc.id \in Nat
  BY DEF Types, Closing
<1>. QED BY <1>1, <1>2, <1>3, <1>4, <1>5, <1>6, <1>7 DEF IdInv

LEMMA ConnectNewView ==
    ASSUME Types, IdInv, NEW w \in Worker, ConnectNew(w)
    PROVE  LET s == HASH_ID(NextId) IN
           /\ Types' /\ IdInv'
           /\ NextId \in Id /\ NextId > alloc_id /\ alloc_id' = NextId
           /\ SlotTo(s) /\ sock[s].type = "INVALID" /\ sock'[s].type = "RESERVE"
           /\ SameName(s) /\ SameLists(s) /\ SameCount(s) /\ SameArmed(s)
           /\ sock'[s].closing = sock[s].closing
           /\ CallTo(w, [at |-> "O", id |-> NextId, m |-> 0]) /\ call[w].at = "idle"
           /\ UNCHANGED <<lock, pipe, said, sent, cmds, thread, outside>>
<1> DEFINE s == HASH_ID(NextId)
           y == [sock[s] EXCEPT !.type = "RESERVE"]
<1>1. NextId \in Id /\ NextId > alloc_id /\ alloc_id' = NextId /\ s \in Slot /\ NextId \in Nat
      /\ sock[s].type = "INVALID"
  BY NextIdFresh DEF ConnectNew, Connect
<1>2. sock[s] \in Sock
  BY <1>1 DEF Types
<1>3. /\ y \in Sock /\ y.type = "RESERVE" /\ y.id = sock[s].id /\ y.tcp = sock[s].tcp
      /\ y.tag = sock[s].tag /\ y.high = sock[s].high /\ y.low = sock[s].low
      /\ y.dw = sock[s].dw /\ y.sending = sock[s].sending /\ y.writing = sock[s].writing
      /\ y.closing = sock[s].closing
  BY <1>2 DEF Sock, SocketType
<1>4. sock' = [sock EXCEPT ![s] = y]
  BY DEF ConnectNew, Connect
<1> HIDE DEF y, s
<1>5. SlotTo(s) /\ sock'[s] = y
  BY <1>1, <1>3, <1>4, SlotSet
<1>6. [at |-> "O", id |-> NextId, m |-> 0] \in CallRec
  BY <1>1 DEF CallRec
<1>7. CallTo(w, [at |-> "O", id |-> NextId, m |-> 0]) /\ call' \in [Worker -> CallRec]
  BY <1>6, CallSet DEF ConnectNew, Connect
<1>8. UNCHANGED <<lock, pipe, said, sent, cmds, thread, outside>> /\ call[w].at = "idle"
  BY DEF ConnectNew, Connect, NoCall
<1>9. Types'
  BY <1>1, <1>5, <1>7, <1>8 DEF Types, SlotTo, thread, outside
<1>u. alloc_id' \in Nat /\ alloc_id' >= alloc_id
  BY <1>1 DEF Types
<1>10. IdInv'
  <2>4. \A t \in Slot :
           /\ sock'[t].id = sock[t].id
           /\ sock'[t].type \in Live => sock[t].type \in Live
    BY <1>3, <1>5 DEF SlotTo, Live
  <2>5. \A v \in Worker : call'[v].at # "idle" => call'[v].id \in Id /\ call'[v].id <= alloc_id'
    <3>1. \A v \in Worker : call[v].at # "idle" => call[v].id \in Id /\ call[v].id <= alloc_id'
      BY <1>u, IdUp DEF IdInv
    <3>2. NextId <= alloc_id'
      BY <1>1
    <3>. QED BY <1>1, <1>7, <3>1, <3>2 DEF CallTo
  <2>6. \A e \in batch : e.s \in Slot
    BY DEF Types, Ev
  <2>. QED BY <1>8, <1>u, <2>4, <2>5, <2>6, IdUp DEF IdInv, thread, outside
<1>. QED BY <1>1, <1>3, <1>5, <1>7, <1>8, <1>9, <1>10 DEF SameName, SameLists, SameCount, SameArmed, s

LEMMA ConnectFullView ==
    ASSUME Types, IdInv, NEW w \in Worker, ConnectFull(w)
    PROVE  /\ Types' /\ IdInv'
           /\ alloc_id' > alloc_id /\ alloc_id' \in Nat
           /\ UNCHANGED <<sock, lock, call, pipe, said, sent, cmds, thread, outside>>
<1>1. alloc_id' > alloc_id /\ alloc_id' \in Nat
      /\ UNCHANGED <<sock, lock, call, pipe, said, sent, cmds, thread, outside>>
  BY Bounds DEF ConnectFull, Connect, Types
<1>9. Types'
  BY <1>1 DEF Types, thread, outside
<1>u. alloc_id' >= alloc_id
  BY <1>1 DEF Types
<1>10. IdInv'
  BY <1>1, <1>u, IdUp DEF IdInv, thread, outside
<1>. QED BY <1>1, <1>9, <1>10

LEMMA RequestView ==
    ASSUME Types, IdInv, NEW w \in Worker, Request(w)
    PROVE  LET id == call[w].id s == HASH_ID(id) c == [c |-> "O", id |-> id, m |-> 0] IN
           /\ Types' /\ IdInv'
           /\ id \in Id /\ call[w].at = "O" /\ CallTo(w, NoCall)
           /\ SlotTo(s) /\ sock'[s].id = id /\ ~ sock'[s].tcp
           /\ SameType(s) /\ SameLists(s) /\ SameCount(s) /\ SameArmed(s)
           /\ sock'[s].tag = sock[s].tag
           /\ pipe' = Append(pipe, c) /\ c \in Cmd
           /\ said' \in [Id -> SUBSET Kind]
           /\ \A i \in Id : said'[i] = said[i] \cup IF i = id THEN {"CONNECT"} ELSE {}
           /\ UNCHANGED <<alloc_id, lock, sent, cmds, thread, outside>>
<1> DEFINE id == call[w].id
           s == HASH_ID(id)
           y == [sock[s] EXCEPT !.id = id, !.tcp = FALSE]
           c == [c |-> "O", id |-> id, m |-> 0]
<1>1. call[w].at = "O" /\ id \in Id /\ id <= alloc_id /\ s \in Slot /\ id \in Nat
  BY IdType DEF Request, IdInv
<1>2. sock[s] \in Sock
  BY <1>1 DEF Types
<1>3. /\ y \in Sock /\ y.type = sock[s].type /\ y.id = id /\ y.tcp = FALSE
      /\ y.tag = sock[s].tag /\ y.high = sock[s].high /\ y.low = sock[s].low
      /\ y.dw = sock[s].dw /\ y.sending = sock[s].sending /\ y.writing = sock[s].writing
      /\ y.closing = sock[s].closing
  BY <1>1, <1>2 DEF Sock
<1>4. sock' = [sock EXCEPT ![s] = y]
  BY <1>1 DEF Request
<1>c. c \in Cmd /\ pipe' = Append(pipe, c) /\ NoCall \in CallRec
  BY <1>1 DEF Cmd, Request, NoCall, CallRec
<1>d. c.id = id
  OBVIOUS
<1>e. Say(id, "CONNECT")
  BY DEF Request
<1> HIDE DEF y, c
<1>5. SlotTo(s) /\ sock'[s] = y
  BY <1>1, <1>3, <1>4, SlotSet
<1>7. CallTo(w, NoCall) /\ call' \in [Worker -> CallRec]
  BY <1>c, CallSet DEF Request
<1>8. UNCHANGED <<alloc_id, lock, sent, cmds, thread, outside>>
  BY DEF Request
<1>p. /\ pipe' \in Seq(Cmd)
      /\ \A p \in DOMAIN pipe' : (p \in DOMAIN pipe /\ pipe'[p] = pipe[p]) \/ pipe'[p] = c
  BY <1>c, AppendPipe
<1>s. /\ said' \in [Id -> SUBSET Kind]
      /\ \A i \in Id : said'[i] = said[i] \cup IF i = id THEN {"CONNECT"} ELSE {}
  BY <1>1, <1>e DEF Say, Kind, Types
<1>9. Types'
  BY <1>1, <1>5, <1>7, <1>8, <1>p, <1>s DEF Types, SlotTo, thread, outside
<1>10. IdInv'
  <2>1. \A i \in Id : i > alloc_id' => said'[i] = {}
    BY <1>1, <1>8, <1>s DEF IdInv, Types, Id
  <2>2. \A v \in Worker : call'[v].at # "idle" => call'[v].id \in Id /\ call'[v].id <= alloc_id
    BY <1>7, <1>8 DEF CallTo, NoCall, IdInv
  <2>3. \A p \in DOMAIN pipe' : pipe'[p].id <= alloc_id
    BY <1>1, <1>p, <1>d DEF IdInv
  <2>4. \A t \in Slot :
           /\ sock'[t].id <= alloc_id
           /\ sock'[t].id # 0 => sock'[t].id \in Id /\ HASH_ID(sock'[t].id) = t
           /\ sock'[t].type \in Live => sock'[t].id # 0
    BY <1>1, <1>3, <1>5 DEF SlotTo, IdInv, Id
  <2>5. \A e \in batch' :
         /\ e.id \in Id /\ e.id <= alloc_id /\ sock'[e.s].id # 0
         /\ e.read \/ e.write \/ e.error \/ e.eof
    BY <1>1, <1>3, <1>5, <1>8 DEF SlotTo, IdInv, thread, Types, Ev, Id
  <2>. QED BY <1>8, <2>1, <2>2, <2>3, <2>4, <2>5 DEF IdInv, thread, outside
<1>. QED BY <1>1, <1>3, <1>5, <1>7, <1>8, <1>9, <1>10, <1>c, <1>s DEF SameType, SameLists, SameCount, SameArmed, c

LEMMA CommandView ==
    ASSUME Types, IdInv, NEW w \in Worker, NEW cmd \in {"K", "Q", "R", "S"}, NEW id \in Id,
           Command(w, cmd, id)
    PROVE  LET c == [c |-> cmd, id |-> id, m |-> 0] IN
           /\ Types' /\ IdInv'
           /\ said[id] \cap {"OPEN", "ACCEPT"} # {}
           /\ pipe' = Append(pipe, c) /\ c \in Cmd
           /\ \A i \in Id : said'[i] = said[i] \cup IF i = id /\ cmd = "Q" THEN {"SHUTDOWN"} ELSE {}
           /\ UNCHANGED <<alloc_id, sock, lock, call, sent, thread, outside>>
<1> DEFINE c == [c |-> cmd, id |-> id, m |-> 0]
<1>1. c \in Cmd /\ c.id = id
  BY DEF Cmd
<1>2. /\ said[id] \cap {"OPEN", "ACCEPT"} # {} /\ cmds' \in 0 .. MaxCmd
      /\ pipe' = Append(pipe, c)
      /\ UNCHANGED <<alloc_id, sock, lock, call, sent, thread, outside>>
      /\ Say(id, IF cmd = "Q" THEN "SHUTDOWN" ELSE "-")
  BY Bounds DEF Command, Types
<1>3. /\ said' \in [Id -> SUBSET Kind]
      /\ \A i \in Id : said'[i] = said[i] \cup IF i = id /\ cmd = "Q" THEN {"SHUTDOWN"} ELSE {}
  BY <1>2 DEF Say, Kind, Types
<1> HIDE DEF c
<1>p. /\ pipe' \in Seq(Cmd)
      /\ \A p \in DOMAIN pipe' : (p \in DOMAIN pipe /\ pipe'[p] = pipe[p]) \/ pipe'[p] = c
  BY <1>1, <1>2, AppendPipe
<1>4. Types'
  BY <1>2, <1>3, <1>p DEF Types, thread, outside
<1>5. id <= alloc_id
  BY <1>2, IdType DEF IdInv, Types
<1>6. IdInv'
  <2>1. \A i \in Id : i > alloc_id => said'[i] = {}
    <3>1. ~ (id > alloc_id)
      BY <1>2 DEF IdInv
    <3>. QED BY <1>3, <3>1 DEF IdInv
  <2>2. \A p \in DOMAIN pipe' : pipe'[p].id <= alloc_id
    BY <1>1, <1>5, <1>p DEF IdInv
  <2>. QED BY <1>2, <2>1, <2>2 DEF IdInv, thread, outside
<1>. QED BY <1>1, <1>2, <1>3, <1>4, <1>6 DEF c

LEMMA SendView ==
    ASSUME Types, IdInv, NEW w \in Worker, NEW id \in Id, NEW low \in BOOLEAN, Send(w, id, low)
    PROVE  /\ Types' /\ IdInv'
           /\ "OPEN" \in said[id] /\ ~ Invalid(id) /\ call[w].at = "idle"
           /\ low \/ ~ sock[HASH_ID(id)].closing
           /\ sent' = Append(sent, [w |-> w, id |-> id, low |-> low])
           /\ [w |-> w, id |-> id, low |-> low] \in Message
           /\ DOMAIN sent' = DOMAIN sent \cup {Len(sent) + 1} /\ Len(sent) + 1 \notin DOMAIN sent
           /\ Len(sent) + 1 \in Nat
           /\ \A n \in DOMAIN sent : n \in Nat /\ n < Len(sent) + 1 /\ sent'[n] = sent[n]
           /\ sent'[Len(sent) + 1] = [w |-> w, id |-> id, low |-> low]
           /\ \E at \in {"lock", "inc"} : /\ CallTo(w, [at |-> at, id |-> id, m |-> Len(sent) + 1])
                                          /\ low => at = "inc"
           /\ UNCHANGED <<alloc_id, sock, lock, pipe, said, cmds, thread, outside>>
<1> DEFINE msg == [w |-> w, id |-> id, low |-> low]
           at == IF ~ low /\ can_direct_write(sock[HASH_ID(id)], id) THEN "lock" ELSE "inc"
           c == [at |-> at, id |-> id, m |-> Len(sent) + 1]
<1>1. /\ "OPEN" \in said[id] /\ ~ Invalid(id) /\ call[w] = NoCall
      /\ low \/ ~ sock[HASH_ID(id)].closing
      /\ sent' = Append(sent, msg) /\ Len(sent) + 1 <= MaxSend
      /\ Goto(w, c)
      /\ UNCHANGED <<alloc_id, sock, lock, pipe, said, cmds, thread, outside>>
  BY DEF Send
<1>2. msg \in Message
  BY DEF Message
<1> HIDE DEF msg
<1>3. /\ sent' \in Seq(Message) /\ Len(sent') <= MaxSend
      /\ DOMAIN sent' = DOMAIN sent \cup {Len(sent) + 1} /\ Len(sent) + 1 \notin DOMAIN sent
      /\ Len(sent) + 1 \in Nat
      /\ \A n \in DOMAIN sent : n \in Nat /\ n < Len(sent) + 1 /\ sent'[n] = sent[n]
      /\ sent'[Len(sent) + 1] = msg
  BY <1>1, <1>2 DEF Types
<1>4. at \in {"lock", "inc"} /\ (low => at = "inc")
  OBVIOUS
<1> HIDE DEF at
<1>5. c \in CallRec
  BY <1>3, <1>4, IdType DEF CallRec
<1>6. CallTo(w, c) /\ call' \in [Worker -> CallRec]
  BY <1>1, <1>5, CallSet
<1>7. Types'
  BY <1>1, <1>3, <1>6 DEF Types, thread, outside
<1>8. ~ (id > alloc_id)
  BY <1>1 DEF IdInv
<1>9. id <= alloc_id
  BY <1>8, IdType DEF Types
<1>10. IdInv'
  <2>1. \A v \in Worker : call'[v].at # "idle" => call'[v].id \in Id /\ call'[v].id <= alloc_id
    BY <1>6, <1>9 DEF CallTo, IdInv
  <2>. QED BY <1>1, <2>1 DEF IdInv, thread, outside
<1>11. call[w].at = "idle"
  BY <1>1 DEF NoCall
<1>. QED BY <1>1, <1>2, <1>3, <1>4, <1>6, <1>7, <1>10, <1>11 DEF msg

LEMMA LockedView ==
    ASSUME Types, IdInv, NEW w \in Worker, Locked(w)
    PROVE  LET s == HASH_ID(call[w].id) IN
           /\ Types' /\ IdInv'
           /\ s \in Slot /\ call[w].at = "lock" /\ call[w].id \in Id
           /\ lock[s] = None /\ can_direct_write(sock[s], call[w].id)
           /\ lock'[s] = w /\ \A t \in Slot : t # s => lock'[t] = lock[t]
           /\ CallTo(w, [call[w] EXCEPT !.at = "write"])
           /\ call'[w].at = "write" /\ call'[w].id = call[w].id /\ call'[w].m = call[w].m
           /\ UNCHANGED <<alloc_id, sock, pipe, said, sent, cmds, thread, outside>>
<1> DEFINE s == HASH_ID(call[w].id)
           c == [call[w] EXCEPT !.at = "write"]
<1>1. /\ call[w].at = "lock" /\ lock[s] = None /\ can_direct_write(sock[s], call[w].id)
      /\ lock' = [lock EXCEPT ![s] = w] /\ Goto(w, c)
      /\ UNCHANGED <<alloc_id, sock, pipe, said, sent, cmds, thread, outside>>
  BY DEF Locked, Lock
<1>2. call[w].id \in Id /\ s \in Slot /\ call[w] \in CallRec
  BY <1>1, IdType DEF IdInv, Types
<1>3. c \in CallRec /\ c.at = "write" /\ c.id = call[w].id /\ c.m = call[w].m
  BY <1>2 DEF CallRec
<1> HIDE DEF c, s
<1>4. CallTo(w, c) /\ call' \in [Worker -> CallRec] /\ call'[w] = c
  BY <1>1, <1>3, CallSet DEF CallTo
<1>5. /\ lock' \in [Slot -> Worker \cup {None}]
      /\ lock'[s] = w /\ \A t \in Slot : t # s => lock'[t] = lock[t]
  BY <1>1, <1>2 DEF Types
<1>6. Types'
  BY <1>1, <1>4, <1>5 DEF Types, thread, outside
<1>7. IdInv'
  BY <1>1, <1>3, <1>4 DEF IdInv, thread, outside, CallTo
<1>. QED BY <1>1, <1>2, <1>3, <1>4, <1>5, <1>6, <1>7 DEF c, s

LEMMA NotLockedView ==
    ASSUME Types, IdInv, NEW w \in Worker, NotLocked(w)
    PROVE  /\ Types' /\ IdInv'
           /\ call[w].at = "lock" /\ call[w].id \in Id
           /\ CallTo(w, [call[w] EXCEPT !.at = "inc"])
           /\ call'[w].at = "inc" /\ call'[w].id = call[w].id /\ call'[w].m = call[w].m
           /\ UNCHANGED <<alloc_id, sock, lock, pipe, said, sent, cmds, thread, outside>>
<1> DEFINE c == [call[w] EXCEPT !.at = "inc"]
<1>1. /\ call[w].at = "lock" /\ Goto(w, c)
      /\ UNCHANGED <<alloc_id, sock, lock, pipe, said, sent, cmds, thread, outside>>
  BY DEF NotLocked, Lock
<1>2. call[w].id \in Id /\ call[w] \in CallRec
  BY <1>1, IdType DEF IdInv, Types
<1>3. c \in CallRec /\ c.at = "inc" /\ c.id = call[w].id /\ c.m = call[w].m
  BY <1>2 DEF CallRec
<1> HIDE DEF c
<1>4. CallTo(w, c) /\ call' \in [Worker -> CallRec] /\ call'[w] = c
  BY <1>1, <1>3, CallSet DEF CallTo
<1>6. Types'
  BY <1>1, <1>4 DEF Types, thread, outside
<1>7. IdInv'
  BY <1>1, <1>3, <1>4 DEF IdInv, thread, outside, CallTo
<1>. QED BY <1>1, <1>2, <1>3, <1>4, <1>6, <1>7 DEF c

LEMMA CountedView ==
    ASSUME Types, IdInv, NEW w \in Worker, Counted(w)
    PROVE  LET s == HASH_ID(call[w].id) IN
           /\ Types' /\ IdInv'
           /\ s \in Slot /\ call[w].at = "inc" /\ call[w].id \in Id
           /\ TagMatches(sock[s], call[w].id)
           /\ SlotTo(s) /\ SameName(s) /\ SameLists(s) /\ SameType(s) /\ SameArmed(s)
           /\ SameRead(s)
           /\ sock'[s].sending = sock[s].sending + 1
           /\ CallTo(w, call'[w])
           /\ call'[w].at = (IF sent[call[w].m].low THEN "P" ELSE "D")
           /\ call'[w].id = call[w].id /\ call'[w].m = call[w].m
           /\ UNCHANGED <<alloc_id, lock, pipe, said, sent, cmds, thread, outside>>
<1> DEFINE s == HASH_ID(call[w].id)
           c == [call[w] EXCEPT !.at = IF sent[call[w].m].low THEN "P" ELSE "D"]
           y == [sock[s] EXCEPT !.sending = @ + 1]
<1>1. /\ call[w].at = "inc" /\ Goto(w, c) /\ TagMatches(sock[s], call[w].id)
      /\ sock[s].sending < MaxRef /\ sock' = [sock EXCEPT ![s] = y]
      /\ UNCHANGED <<alloc_id, lock, pipe, said, sent, cmds, thread, outside>>
  BY DEF Counted, inc_sending_ref
<1>2. call[w].id \in Id /\ s \in Slot /\ call[w] \in CallRec /\ sock[s] \in Sock
  BY <1>1, IdType DEF IdInv, Types
<1>3. /\ c \in CallRec /\ c.at = (IF sent[call[w].m].low THEN "P" ELSE "D")
      /\ c.id = call[w].id /\ c.m = call[w].m
  BY <1>2 DEF CallRec
<1>y. /\ y \in Sock /\ y.type = sock[s].type /\ y.id = sock[s].id /\ y.tcp = sock[s].tcp
      /\ y.tag = sock[s].tag /\ y.high = sock[s].high /\ y.low = sock[s].low
      /\ y.dw = sock[s].dw /\ y.writing = sock[s].writing
      /\ y.reading = sock[s].reading /\ y.closing = sock[s].closing /\ y.sending = sock[s].sending + 1
  <2>1. sock[s].sending + 1 \in 0 .. MaxRef
    <3> HIDE DEF s
    <3>1. PICK n : n = sock[s].sending
      OBVIOUS
    <3>2. n \in 0 .. MaxRef
      BY <1>2, <3>1 DEF Sock
    <3>3. n < MaxRef
      BY <1>1, <3>1
    <3>4. n + 1 \in 0 .. MaxRef
      BY <3>2, <3>3, Bounds
    <3>. QED BY <3>1, <3>4
  <2>. QED BY <1>2, <2>1 DEF Sock
<1> HIDE DEF c, s, y
<1>4. CallTo(w, c) /\ call' \in [Worker -> CallRec] /\ call'[w] = c
  BY <1>1, <1>3, CallSet DEF CallTo
<1>5. SlotTo(s) /\ sock'[s] = y
  BY <1>1, <1>2, <1>y, SlotSet
<1>6. Types'
  BY <1>1, <1>4, <1>5 DEF Types, thread, outside, SlotTo
<1>7. IdInv'
  <2>1. \A t \in Slot : sock'[t].id = sock[t].id /\ sock'[t].type = sock[t].type
    BY <1>5, <1>y DEF SlotTo
  <2>2. \A e \in batch : e.s \in Slot
    BY DEF Types, Ev
  <2>3. \A v \in Worker : call'[v].at # "idle" => call[v].at # "idle" /\ call'[v].id = call[v].id
    BY <1>1, <1>3, <1>4 DEF CallTo
  <2>. QED BY <1>1, <2>1, <2>2, <2>3 DEF IdInv, thread, outside
<1>. QED BY <1>1, <1>2, <1>3, <1>4, <1>5, <1>6, <1>7, <1>y DEF s, SameName, SameLists, SameType, SameArmed, SameRead

LEMMA NotCountedView ==
    ASSUME Types, IdInv, NEW w \in Worker, NotCounted(w)
    PROVE  /\ Types' /\ IdInv'
           /\ call[w].at = "inc" /\ call[w].id \in Id
           /\ ~ TagMatches(sock[HASH_ID(call[w].id)], call[w].id)
           /\ CallTo(w, call'[w])
           /\ call'[w].at = (IF sent[call[w].m].low THEN "P" ELSE "D")
           /\ call'[w].id = call[w].id /\ call'[w].m = call[w].m
           /\ UNCHANGED <<alloc_id, sock, lock, pipe, said, sent, cmds, thread, outside>>
<1> DEFINE c == [call[w] EXCEPT !.at = IF sent[call[w].m].low THEN "P" ELSE "D"]
<1>1. /\ call[w].at = "inc" /\ Goto(w, c) /\ ~ TagMatches(sock[HASH_ID(call[w].id)], call[w].id)
      /\ UNCHANGED <<alloc_id, sock, lock, pipe, said, sent, cmds, thread, outside>>
  BY DEF NotCounted, inc_sending_ref
<1>2. call[w].id \in Id /\ call[w] \in CallRec
  BY <1>1, IdType DEF IdInv, Types
<1>3. /\ c \in CallRec /\ c.at = (IF sent[call[w].m].low THEN "P" ELSE "D")
      /\ c.id = call[w].id /\ c.m = call[w].m
  BY <1>2 DEF CallRec
<1> HIDE DEF c
<1>4. CallTo(w, c) /\ call' \in [Worker -> CallRec] /\ call'[w] = c
  BY <1>1, <1>3, CallSet DEF CallTo
<1>6. Types'
  BY <1>1, <1>4 DEF Types, thread, outside
<1>7. IdInv'
  BY <1>1, <1>3, <1>4 DEF IdInv, thread, outside, CallTo
<1>. QED BY <1>1, <1>2, <1>3, <1>4, <1>6, <1>7

LEMMA PushView ==
    ASSUME Types, IdInv, NEW w \in Worker, Push(w)
    PROVE  LET c == [c |-> call[w].at, id |-> call[w].id, m |-> call[w].m] IN
           /\ Types' /\ IdInv'
           /\ call[w].at \in {"W", "D", "P"} /\ call[w].id \in Id
           /\ pipe' = Append(pipe, c) /\ c \in Cmd
           /\ CallTo(w, NoCall)
           /\ UNCHANGED <<alloc_id, sock, lock, said, sent, cmds, thread, outside>>
<1> DEFINE c == [c |-> call[w].at, id |-> call[w].id, m |-> call[w].m]
<1>1. /\ call[w].at \in {"W", "D", "P"} /\ pipe' = Append(pipe, c) /\ Goto(w, NoCall)
      /\ UNCHANGED <<alloc_id, sock, lock, said, sent, cmds, thread, outside>>
  BY DEF Push
<1>2. call[w].id \in Id /\ call[w].id <= alloc_id /\ call[w].m \in Nat
  BY <1>1 DEF IdInv, Types, CallRec
<1>3. c \in Cmd /\ c.id = call[w].id /\ NoCall \in CallRec
  BY <1>1, <1>2 DEF Cmd, NoCall, CallRec
<1> HIDE DEF c
<1>4. CallTo(w, NoCall) /\ call' \in [Worker -> CallRec]
  BY <1>1, <1>3, CallSet
<1>p. /\ pipe' \in Seq(Cmd)
      /\ \A p \in DOMAIN pipe' : (p \in DOMAIN pipe /\ pipe'[p] = pipe[p]) \/ pipe'[p] = c
  BY <1>1, <1>3, AppendPipe
<1>6. Types'
  BY <1>1, <1>4, <1>p DEF Types, thread, outside
<1>7. IdInv'
  <2>1. \A p \in DOMAIN pipe' : pipe'[p].id <= alloc_id
    BY <1>2, <1>3, <1>p DEF IdInv
  <2>2. \A v \in Worker : call'[v].at # "idle" => call[v] = call'[v]
    BY <1>4 DEF CallTo, NoCall
  <2>. QED BY <1>1, <2>1, <2>2 DEF IdInv, thread, outside
<1>. QED BY <1>1, <1>2, <1>3, <1>4, <1>6, <1>7 DEF c

LEMMA DirectWriteView ==
    ASSUME Types, IdInv, NEW w \in Worker, NEW k \in 0 .. MsgSize, DirectWrite(w, k)
    PROVE  LET s == HASH_ID(call[w].id) to == sock[s].id IN
           /\ to # 0 => Types' /\ IdInv'
           /\ s \in Slot /\ call[w].at = "write" /\ call[w].id \in Id
           /\ to # 0 => to \in Id
           /\ net[to] \in {"rst", "hup"} => k = 0
           /\ SlotTo(s) /\ SameName(s) /\ SameType(s) /\ SameArmed(s) /\ SameCount(s)
           /\ sock'[s].high = sock[s].high /\ sock'[s].low = sock[s].low
           /\ sock'[s].dw = (IF k = MsgSize THEN << >> ELSE <<[m |-> call[w].m, at |-> k]>>)
           /\ wire' = [wire EXCEPT ![to] = @ \o Wrote(Buffer(call[w].m), k)]
           /\ lock'[s] = None /\ \A t \in Slot : t # s => lock'[t] = lock[t]
           /\ CallTo(w, call'[w])
           /\ call'[w] = (IF k = MsgSize THEN NoCall ELSE call'[w])
           /\ k # MsgSize => /\ call'[w].at = "W" /\ call'[w].id = call[w].id
                             /\ call'[w].m = call[w].m
           /\ UNCHANGED <<alloc_id, pipe, net, said, sent, cmds, peers, thread>>
<1> DEFINE s == HASH_ID(call[w].id)
           m == call[w].m
           to == sock[s].id
           c == IF k = MsgSize THEN NoCall ELSE [call[w] EXCEPT !.at = "W"]
           q == IF k = MsgSize THEN << >> ELSE <<[m |-> m, at |-> k]>>
           y == [sock[s] EXCEPT !.dw = q]
<1>1. /\ call[w].at = "write" /\ Goto(w, c)
      /\ net[to] \in {"rst", "hup"} => k = 0
      /\ wire' = [wire EXCEPT ![to] = @ \o Wrote(Buffer(m), k)]
      /\ sock' = [sock EXCEPT ![s] = y]
      /\ lock' = [lock EXCEPT ![s] = None]
      /\ UNCHANGED <<alloc_id, pipe, net, said, sent, cmds, peers, thread>>
  BY DEF DirectWrite
<1>2. call[w].id \in Id /\ s \in Slot /\ call[w] \in CallRec /\ sock[s] \in Sock /\ m \in Nat
  BY <1>1, IdType DEF IdInv, Types, CallRec
<1>3. /\ c \in CallRec /\ (k = MsgSize => c = NoCall)
      /\ k # MsgSize => c.at = "W" /\ c.id = call[w].id /\ c.m = m
  BY <1>2 DEF CallRec, NoCall
<1>q. q \in Seq(Node)
  <2>1. k # MsgSize => [m |-> m, at |-> k] \in Node
    BY <1>2, Bounds DEF Node
  <2>. QED BY <2>1, EmptySeq, SingleSeq
<1> HIDE DEF q
<1>y. /\ y \in Sock /\ y.type = sock[s].type /\ y.id = sock[s].id /\ y.tcp = sock[s].tcp
      /\ y.tag = sock[s].tag /\ y.high = sock[s].high /\ y.low = sock[s].low
      /\ y.dw = q /\ y.writing = sock[s].writing
      /\ y.closing = sock[s].closing /\ y.sending = sock[s].sending
  BY <1>2, <1>q DEF Sock
<1> HIDE DEF c, s, y
<1>4. CallTo(w, c) /\ call' \in [Worker -> CallRec] /\ call'[w] = c
  BY <1>1, <1>3, CallSet DEF CallTo
<1>5. SlotTo(s) /\ sock'[s] = y
  BY <1>1, <1>2, <1>y, SlotSet
<1>l. /\ lock' \in [Slot -> Worker \cup {None}]
      /\ lock'[s] = None /\ \A t \in Slot : t # s => lock'[t] = lock[t]
  BY <1>1, <1>2 DEF Types
<1>t. to # 0 => to \in Id
  BY <1>2 DEF IdInv
<1>w. ASSUME to # 0 PROVE wire' \in [Id -> Seq(Write)]
  <2>1. Wrote(Buffer(m), k) \in Seq(Write)
    <3>1. k # 0 => [m |-> m, from |-> 0, to |-> 0 + k] \in Write
      BY <1>2, Bounds DEF Write
    <3>2. << >> \in Seq(Write)
      BY EmptySeq
    <3>3. k # 0 => <<[m |-> m, from |-> 0, to |-> 0 + k]>> \in Seq(Write)
      BY <3>1, SingleSeq
    <3>. QED BY <3>2, <3>3 DEF Wrote, Buffer
  <2>2. wire[to] \o Wrote(Buffer(m), k) \in Seq(Write)
    BY <1>t, <1>w, <2>1 DEF Types
  <2>. QED BY <1>1, <2>2 DEF Types
<1>6. ASSUME to # 0 PROVE Types'
  BY <1>1, <1>4, <1>5, <1>l, <1>w, <1>6 DEF Types, thread, SlotTo
<1>7. ASSUME to # 0 PROVE IdInv'
  <2>1. \A t \in Slot : sock'[t].id = sock[t].id /\ sock'[t].type = sock[t].type
    BY <1>5, <1>y DEF SlotTo
  <2>2. \A e \in batch : e.s \in Slot
    BY DEF Types, Ev
  <2>3. \A v \in Worker : call'[v].at # "idle" => call[v].at # "idle" /\ call'[v].id = call[v].id
    BY <1>1, <1>3, <1>4 DEF CallTo, NoCall
  <2>4. \A i \in Id : i > alloc_id => wire'[i] = wire[i]
    <3>1. to <= alloc_id /\ to \in Id /\ alloc_id \in Nat
      BY <1>2, <1>7, <1>t DEF IdInv, Types
    <3>2. \A i \in Id : i > alloc_id => i # to
      BY <3>1, IdType
    <3>. QED BY <1>1, <3>2 DEF Types
  <2>5. UNCHANGED <<alloc_id, pipe, net, said, batch, fc>>
    BY <1>1 DEF thread
  <2>. QED BY <2>1, <2>2, <2>3, <2>4, <2>5 DEF IdInv
<1>8. /\ SameName(s) /\ SameType(s) /\ SameArmed(s) /\ SameCount(s)
      /\ sock'[s].high = sock[s].high /\ sock'[s].low = sock[s].low
      /\ sock'[s].dw = (IF k = MsgSize THEN << >> ELSE <<[m |-> call[w].m, at |-> k]>>)
  BY <1>5, <1>y DEF q, SameName, SameType, SameArmed, SameCount
<1>9. /\ CallTo(w, call'[w])
      /\ call'[w] = (IF k = MsgSize THEN NoCall ELSE call'[w])
      /\ k # MsgSize => /\ call'[w].at = "W" /\ call'[w].id = call[w].id
                        /\ call'[w].m = call[w].m
  BY <1>3, <1>4
<1> HIDE DEF to, m
<1>. QED BY <1>1, <1>2, <1>5, <1>6, <1>7, <1>8, <1>9, <1>l, <1>t DEF s, to, m

\* The command taken from the pipe.
LEMMA CtrlFacts ==
    ASSUME Types, IdInv, NEW c, CtrlFrame(c)
    PROVE  /\ c \in Cmd /\ c = pipe[1] /\ 1 \in DOMAIN pipe /\ c.id \in Id /\ c.id \in Nat
           /\ c.id <= alloc_id /\ c.m \in Nat
           /\ HASH_ID(c.id) \in Slot /\ sock[HASH_ID(c.id)] \in Sock
           /\ stale \subseteq stale' /\ stale' \subseteq Id
           /\ pipe' = Tail(pipe) /\ pipe # << >> /\ fc = NoClose /\ fc.at = "no"
           /\ \A p \in DOMAIN pipe' : /\ p \in Nat /\ p >= 1 /\ p + 1 \in DOMAIN pipe
                                      /\ pipe'[p] = pipe[p + 1]
           /\ \A p \in DOMAIN pipe : p = 1 \/ (p - 1 \in DOMAIN pipe' /\ pipe'[p - 1] = pipe[p])
           /\ UNCHANGED <<alloc_id, lock, call, sent, cmds, checkctrl, batch, wire, peers>>
<1>1. /\ fc = NoClose /\ pipe # << >> /\ c = pipe[1] /\ c \in Cmd /\ pipe' = Tail(pipe)
      /\ stale' = stale \cup Overlap(c)
      /\ UNCHANGED <<alloc_id, lock, call, sent, cmds, checkctrl, batch, wire, peers>>
  BY DEF CtrlFrame
<1>2. /\ 1 \in DOMAIN pipe
      /\ \A p \in DOMAIN pipe' : p \in Nat /\ p >= 1 /\ p + 1 \in DOMAIN pipe /\ pipe'[p] = pipe[p + 1]
      /\ \A p \in DOMAIN pipe : p = 1 \/ (p - 1 \in DOMAIN pipe' /\ pipe'[p - 1] = pipe[p])
  BY <1>1, TailPipe
<1>3. c.id \in Id /\ c.m \in Nat /\ c.id <= alloc_id
  BY <1>1, <1>2 DEF Cmd, IdInv
<1>4. c.id \in Nat /\ HASH_ID(c.id) \in Slot
  BY <1>3, IdType
<1>5. sock[HASH_ID(c.id)] \in Sock
  BY <1>4 DEF Types
<1>6. stale \subseteq stale' /\ stale' \subseteq Id
  BY <1>1, <1>3 DEF Overlap, IdInv, Types
<1>7. fc.at = "no"
  BY <1>1 DEF NoClose
<1>. QED BY <1>1, <1>2, <1>3, <1>4, <1>5, <1>6, <1>7

\* What a command must keep for the types and the ids.
LEMMA CtrlTypes ==
    ASSUME Types, IdInv, NEW c, CtrlFrame(c),
           SlotTo(HASH_ID(c.id)),
           sock'[HASH_ID(c.id)].id \in {sock[HASH_ID(c.id)].id, c.id},
           sock'[HASH_ID(c.id)].type \in Live => sock'[HASH_ID(c.id)].id # 0,
           fc' \in Closing,
           fc'.at # "no" => fc'.id \in {c.id, sock[HASH_ID(c.id)].id} \ {0} /\ fc'.s = HASH_ID(c.id),
           fc'.at = "no" => fc' = NoClose,
           net' \in [Id -> NetState], \A i \in Id : i # c.id => net'[i] = net[i],
           said' \in [Id -> SUBSET Kind], \A i \in Id : i # c.id => said'[i] = said[i],
           torn' \subseteq Slot
    PROVE  Types' /\ IdInv'
<1>1. /\ c \in Cmd /\ c.id \in Id /\ c.id \in Nat /\ c.id <= alloc_id /\ HASH_ID(c.id) \in Slot
      /\ stale' \subseteq Id /\ pipe' = Tail(pipe) /\ pipe # << >>
      /\ \A p \in DOMAIN pipe' : p + 1 \in DOMAIN pipe /\ pipe'[p] = pipe[p + 1]
      /\ UNCHANGED <<alloc_id, lock, call, sent, cmds, checkctrl, batch, wire, peers>>
  BY CtrlFacts
<1>2. pipe' \in Seq(Cmd)
  BY <1>1, TailPipe
<1>3. Types'
  BY <1>1, <1>2 DEF Types, SlotTo
<1>4. IdInv'
  <2>1. \A i \in Id : i > alloc_id => said'[i] = {} /\ wire[i] = << >> /\ net'[i] = "none"
    <3>1. \A i \in Id : i > alloc_id => i # c.id
      BY <1>1, IdType DEF Types
    <3>. QED BY <3>1 DEF IdInv
  <2>2. \A t \in Slot :
           /\ sock'[t].id <= alloc_id
           /\ sock'[t].id # 0 => sock'[t].id \in Id /\ HASH_ID(sock'[t].id) = t
           /\ sock'[t].type \in Live => sock'[t].id # 0
    BY <1>1 DEF SlotTo, IdInv
  <2>3. \A p \in DOMAIN pipe' : pipe'[p].id <= alloc_id
    BY <1>1 DEF IdInv
  <2>4. \A e \in batch : sock'[e.s].id # 0
    <3>1. \A e \in batch : e.s \in Slot /\ sock[e.s].id # 0
      BY DEF Types, Ev, IdInv
    <3>2. c.id # 0
      BY <1>1, IdType
    <3>. QED BY <3>1, <3>2 DEF SlotTo
  <2>5. fc'.at # "no" => fc'.id \in Id /\ fc'.id <= alloc_id /\ HASH_ID(fc'.id) = fc'.s
    BY <1>1 DEF IdInv
  <2>. QED BY <1>1, <2>1, <2>2, <2>3, <2>4, <2>5 DEF IdInv
<1>. QED BY <1>3, <1>4

LEMMA NoCloseType == NoClose \in Closing /\ NoClose.at = "no"
<1>1. 0 \in Slot
  BY Bounds DEF Slot
<1>. QED BY <1>1 DEF NoClose, Closing

\* Fail: open_socket or resume_socket of a slot without socket.
LEMMA FailView ==
    ASSUME Types, IdInv, NEW c, OpenFail(c) \/ ResumeFail(c)
    PROVE  LET s == HASH_ID(c.id) IN
           /\ Types' /\ IdInv'
           /\ CtrlFrame(c) /\ c.c \in {"O", "R"} /\ (c.c = "R" => sock[s].type = "INVALID")
           /\ SlotTo(s) /\ SameName(s) /\ SameLists(s) /\ SameCount(s) /\ SameArmed(s)
           /\ sock'[s].closing = sock[s].closing /\ sock'[s].type = "INVALID"
           /\ fc' = [at |-> "clear", s |-> s, id |-> c.id, say |-> "ERR", ctrl |-> TRUE]
           /\ said' = said /\ net' = net /\ torn' = torn /\ aborted' = aborted
<1> DEFINE s == HASH_ID(c.id)
           y == [sock[s] EXCEPT !.type = "INVALID"]
           f == [at |-> "clear", s |-> s, id |-> c.id, say |-> "ERR", ctrl |-> TRUE]
<1>1. /\ CtrlFrame(c) /\ c.c \in {"O", "R"} /\ (c.c = "R" => sock[s].type = "INVALID")
      /\ sock' = [sock EXCEPT ![s] = y] /\ fc' = f
      /\ said' = said /\ net' = net /\ torn' = torn /\ aborted' = aborted
  BY DEF OpenFail, ResumeFail, Fail
<1>2. c.id \in Id /\ c.id \in Nat /\ s \in Slot /\ sock[s] \in Sock
  BY <1>1, CtrlFacts
<1>y. /\ y \in Sock /\ y.type = "INVALID" /\ y.id = sock[s].id /\ y.tcp = sock[s].tcp
      /\ y.tag = sock[s].tag /\ y.high = sock[s].high /\ y.low = sock[s].low
      /\ y.dw = sock[s].dw /\ y.writing = sock[s].writing
      /\ y.closing = sock[s].closing /\ y.sending = sock[s].sending
  BY <1>2 DEF Sock, SocketType
<1>f. f \in Closing /\ f.at # "no" /\ f.id = c.id /\ f.s = s
  BY <1>2 DEF Closing
<1> HIDE DEF y, f, s
<1>5. SlotTo(s) /\ sock'[s] = y
  BY <1>1, <1>2, <1>y, SlotSet
<1>6. Types' /\ IdInv'
  <2>1. /\ sock'[s].id \in {sock[s].id, c.id} /\ (sock'[s].type \in Live => sock'[s].id # 0)
        /\ fc'.id \in {c.id, sock[s].id} \ {0}
    BY <1>1, <1>2, <1>5, <1>y, <1>f, IdType DEF Live
  <2>2. net' \in [Id -> NetState] /\ said' \in [Id -> SUBSET Kind] /\ torn' \subseteq Slot
    BY <1>1 DEF Types
  <2>. QED BY <1>1, <1>5, <1>f, <2>1, <2>2, CtrlTypes DEF s
<1>. QED BY <1>1, <1>2, <1>5, <1>6, <1>y DEF s, f, SameName, SameLists, SameArmed, SameCount

LEMMA OpenNewView ==
    ASSUME Types, IdInv, NEW c, NEW type, NEW writing, NEW kind, NEW state,
           OpenNew(c, type, writing, kind, state)
    PROVE  LET s == HASH_ID(c.id) IN
           /\ Types' /\ IdInv'
           /\ CtrlFrame(c) /\ c.c = "O" /\ type \in {"CONNECTED", "CONNECTING"}
           /\ SlotTo(s) /\ sock[s].type = "RESERVE"
           /\ sock[s].high = << >> /\ sock[s].low = << >>
           /\ sock'[s].id = c.id /\ sock'[s].type = type /\ sock'[s].tcp
           /\ ~ sock'[s].closing /\ sock'[s].tag = ID_TAG16(c.id) /\ sock'[s].sending = 0
           /\ sock'[s].high = << >> /\ sock'[s].low = << >> /\ sock'[s].dw = << >>
           /\ \A i \in Id : i # c.id => net'[i] = net[i] /\ said'[i] = said[i]
           /\ net'[c.id] = state /\ state \in {"up", "syn"}
           /\ Say(c.id, kind) /\ kind = (IF type = "CONNECTED" THEN "OPEN" ELSE "-")
           /\ torn' = torn /\ fc' = fc /\ aborted' = aborted
<1> DEFINE s == HASH_ID(c.id)
           x == sock[s]
           y == NewSocket(x, c.id, type, TRUE, writing)
<1>1. /\ CtrlFrame(c) /\ c.c = "O" /\ type \in {"CONNECTED", "CONNECTING"} /\ writing \in BOOLEAN
      /\ kind = (IF type = "CONNECTED" THEN "OPEN" ELSE "-") /\ state \in {"up", "syn"}
      /\ x.type = "RESERVE" /\ x.high = << >> /\ x.low = << >>
      /\ sock' = [sock EXCEPT ![s] = y] /\ Say(c.id, kind)
      /\ net' = [net EXCEPT ![c.id] = state]
      /\ torn' = torn /\ fc' = fc /\ aborted' = aborted
  BY DEF OpenNew, Set, send_buffer_empty
<1>2. c.id \in Id /\ c.id \in Nat /\ s \in Slot /\ x \in Sock /\ ID_TAG16(c.id) \in Nat /\ fc = NoClose
  BY <1>1, CtrlFacts, IdType
<1>y. /\ y \in Sock /\ y.type = type /\ y.id = c.id /\ y.tcp
      /\ y.tag = ID_TAG16(c.id) /\ y.high = x.high /\ y.low = x.low
      /\ y.dw = << >> /\ ~ y.closing /\ y.sending = 0
  <2>1. << >> \in Seq(Node)
    BY EmptySeq
  <2>2. 0 \in 0 .. MaxRef /\ type \in SocketType
    BY <1>1, Bounds DEF SocketType, Live
  <2>. QED BY <1>1, <1>2, <2>1, <2>2 DEF Sock, NewSocket
<1> HIDE DEF y, s
<1>5. SlotTo(s) /\ sock'[s] = y
  BY <1>1, <1>2, <1>y, SlotSet
<1>n. /\ net' \in [Id -> NetState] /\ net'[c.id] = state
      /\ \A i \in Id : i # c.id => net'[i] = net[i]
  BY <1>1, <1>2 DEF Types, NetState
<1>s. /\ said' \in [Id -> SUBSET Kind]
      /\ \A i \in Id : i # c.id => said'[i] = said[i]
  <2>1. kind \in Kind \cup {"-", "DATA"} /\ said \in [Id -> SUBSET Kind]
    BY <1>1 DEF Kind, Types
  <2>. QED BY <1>1, <1>2, <2>1, SayFacts
<1>6. Types' /\ IdInv'
  <2>1. /\ sock'[s].id \in {sock[s].id, c.id} /\ (sock'[s].type \in Live => sock'[s].id # 0)
        /\ fc' \in Closing /\ fc'.at = "no" /\ fc' = NoClose /\ torn' \subseteq Slot
    BY <1>1, <1>2, <1>5, <1>y, IdType, NoCloseType DEF Types
  <2>. QED BY <1>1, <1>5, <1>n, <1>s, <2>1, CtrlTypes DEF s
<1>. QED BY <1>1, <1>2, <1>5, <1>6, <1>n, <1>s, <1>y DEF s

\* Commands that leave the slots alone.
LEMMA CtrlIdleView ==
    ASSUME Types, IdInv, NEW c, NEW kind, CtrlStop(c) \/ CtrlTell(c, kind)
    PROVE  /\ Types' /\ IdInv'
           /\ CtrlFrame(c) /\ sock' = sock /\ fc' = fc /\ net' = net /\ torn' = torn
           /\ \A i \in Id : said[i] \subseteq said'[i] /\ (i # c.id => said'[i] = said[i])
           /\ \A k \in Kind \ {"ERR"} : \A i \in Id : k \in said'[i] <=> k \in said[i]
<1>1. /\ CtrlFrame(c) /\ sock' = sock /\ fc' = fc /\ net' = net /\ torn' = torn
      /\ said' = said \/ (kind \in {"-", "ERR"} /\ Say(c.id, kind))
  BY DEF CtrlStop, CtrlTell
<1>2. c.id \in Id /\ HASH_ID(c.id) \in Slot /\ fc = NoClose
  BY <1>1, CtrlFacts
<1>s. /\ said' \in [Id -> SUBSET Kind]
      /\ \A i \in Id : said[i] \subseteq said'[i] /\ (i # c.id => said'[i] = said[i])
      /\ \A k \in Kind \ {"ERR"} : \A i \in Id : k \in said'[i] <=> k \in said[i]
  <2>0. said \in [Id -> SUBSET Kind]
    BY DEF Types
  <2>1. CASE said' = said
    BY <2>0, <2>1
  <2>2. CASE kind = "ERR" /\ Say(c.id, kind)
    <3>1. /\ said' \in [Id -> SUBSET Kind]
          /\ \A i \in Id : said'[i] = said[i] \cup IF i = c.id THEN {"ERR"} ELSE {}
      BY <1>2, <2>0, <2>2, SayPlain
    <3>. QED BY <2>0, <3>1
  <2>. QED BY <1>1, <2>1, <2>2, SayNothing
<1>5. SlotTo(HASH_ID(c.id))
  BY <1>1, <1>2 DEF SlotTo, Types
<1>6. Types' /\ IdInv'
  <2>1. /\ sock'[HASH_ID(c.id)].id \in {sock[HASH_ID(c.id)].id, c.id}
        /\ (sock'[HASH_ID(c.id)].type \in Live => sock'[HASH_ID(c.id)].id # 0)
        /\ fc' \in Closing /\ fc'.at = "no" /\ fc' = NoClose /\ torn' \subseteq Slot
        /\ net' \in [Id -> NetState]
    BY <1>1, <1>2, NoCloseType DEF Types, IdInv
  <2>. QED BY <1>1, <1>5, <1>s, <2>1, CtrlTypes
<1>. QED BY <1>1, <1>6, <1>s

LEMMA CloseNowView ==
    ASSUME Types, IdInv, NEW c, CloseNow(c)
    PROVE  LET s == HASH_ID(c.id) IN
           /\ Types' /\ IdInv'
           /\ CtrlFrame(c) /\ c.c \in {"K", "Q"} /\ sock[s].id = c.id /\ sock[s].type \in Live
           /\ c.c = "Q" \/ nomore_sending_data(sock[s])
           /\ SlotTo(s) /\ SameName(s) /\ SameCount(s) /\ SameArmed(s) /\ SameType(s)
           /\ SameRead(s)
           /\ sock'[s].high = << >> /\ sock'[s].low = << >> /\ sock'[s].dw = sock[s].dw
           /\ fc' = [at |-> "lock", s |-> s, id |-> c.id, say |-> CloseKind(sock[s]), ctrl |-> TRUE]
           /\ CloseKind(sock[s]) \in {"-", "CLOSE"}
           /\ said' = said /\ net' = net /\ torn' = torn /\ aborted' = aborted
<1> DEFINE s == HASH_ID(c.id)
           x == sock[s]
           y == [x EXCEPT !.high = << >>, !.low = << >>, !.freed = StillCounted(x)]
           f == [at |-> "lock", s |-> s, id |-> c.id, say |-> CloseKind(x), ctrl |-> TRUE]
<1>1. /\ CtrlFrame(c) /\ c.c \in {"K", "Q"} /\ x.id = c.id /\ x.type \notin {"INVALID", "RESERVE"}
      /\ c.c = "Q" \/ nomore_sending_data(sock[s])
      /\ sock' = [sock EXCEPT ![s] = y] /\ fc' = f
      /\ said' = said /\ net' = net /\ torn' = torn /\ aborted' = aborted
  BY DEF CloseNow, Forced, Invalid
<1>2. c.id \in Id /\ c.id \in Nat /\ s \in Slot /\ x \in Sock
  BY <1>1, CtrlFacts
<1>3. x.type \in Live
  BY <1>1, <1>2 DEF Sock, SocketType
<1>y. /\ y \in Sock /\ y.type = x.type /\ y.id = x.id /\ y.tcp = x.tcp
      /\ y.tag = x.tag /\ y.high = << >> /\ y.low = << >>
      /\ y.dw = x.dw /\ y.writing = x.writing
      /\ y.reading = x.reading /\ y.closing = x.closing /\ y.sending = x.sending
  <2>1. << >> \in Seq(Node)
    BY EmptySeq
  <2>2. PICK b \in BOOLEAN : b = StillCounted(x)
    BY <1>2, CountedType
  <2>. QED BY <1>2, <2>1, <2>2 DEF Sock
<1>f. f \in Closing /\ f.at # "no" /\ f.id = c.id /\ f.s = s /\ CloseKind(x) \in {"-", "CLOSE"}
  BY <1>2 DEF Closing, CloseKind
<1> HIDE DEF y, f, s, x
<1>5. SlotTo(s) /\ sock'[s] = y
  BY <1>1, <1>2, <1>y, SlotSet
<1>6. Types' /\ IdInv'
  <2>1. /\ sock'[s].id \in {sock[s].id, c.id} /\ (sock'[s].type \in Live => sock'[s].id # 0)
        /\ fc'.id \in {c.id, sock[s].id} \ {0}
    BY <1>1, <1>2, <1>5, <1>y, <1>f, IdType
  <2>2. net' \in [Id -> NetState] /\ said' \in [Id -> SUBSET Kind] /\ torn' \subseteq Slot
    BY <1>1 DEF Types
  <2>. QED BY <1>1, <1>5, <1>f, <2>1, <2>2, CtrlTypes DEF s
<1>. QED BY <1>1, <1>2, <1>3, <1>5, <1>6, <1>f, <1>y DEF s, f, x, SameName, SameType, SameArmed, SameCount, SameRead

\* A command that changes fields of slot s and tells its owner.
LEMMA CtrlSet ==
    ASSUME Types, IdInv, NEW c, CtrlFrame(c), NEW y \in Sock, NEW kind \in {"-", "CLOSE", "OPEN"},
           Set(HASH_ID(c.id), y, c.id, kind), net' = net, torn' \subseteq Slot,
           y.id = sock[HASH_ID(c.id)].id, y.type \in Live => y.id # 0
    PROVE  /\ Types' /\ IdInv'
           /\ SlotTo(HASH_ID(c.id)) /\ sock'[HASH_ID(c.id)] = y
           /\ \A i \in Id : i # c.id => said'[i] = said[i]
           /\ Say(c.id, kind) /\ fc' = fc /\ aborted' = aborted
<1>1. c.id \in Id /\ HASH_ID(c.id) \in Slot /\ fc = NoClose
  BY CtrlFacts
<1>2. /\ sock' = [sock EXCEPT ![HASH_ID(c.id)] = y] /\ Say(c.id, kind)
      /\ fc' = fc /\ aborted' = aborted
  BY DEF Set
<1>3. SlotTo(HASH_ID(c.id)) /\ sock'[HASH_ID(c.id)] = y
  BY <1>1, <1>2, SlotSet
<1>s. /\ said' \in [Id -> SUBSET Kind]
      /\ \A i \in Id : i # c.id => said'[i] = said[i]
  <2>1. kind \in Kind \cup {"-", "DATA"} /\ said \in [Id -> SUBSET Kind]
    BY DEF Kind, Types
  <2>. QED BY <1>1, <1>2, <2>1, SayFacts
<1>6. Types' /\ IdInv'
  <2>1. /\ sock'[HASH_ID(c.id)].id \in {sock[HASH_ID(c.id)].id, c.id}
        /\ (sock'[HASH_ID(c.id)].type \in Live => sock'[HASH_ID(c.id)].id # 0)
        /\ fc' \in Closing /\ fc'.at = "no" /\ fc' = NoClose /\ torn' \subseteq Slot
        /\ net' \in [Id -> NetState]
    BY <1>1, <1>2, <1>3, NoCloseType DEF Types
  <2>. QED BY <1>3, <1>s, <2>1, CtrlTypes
<1>. QED BY <1>2, <1>3, <1>6, <1>s

LEMMA NotInvalid ==
    ASSUME Types, NEW id \in Id, ~ Invalid(id)
    PROVE  /\ sock[HASH_ID(id)].id = id
           /\ sock[HASH_ID(id)].type \in Live \cup {"RESERVE"}
BY IdType DEF Invalid, Types, Sock, SocketType

LEMMA CloseLaterView ==
    ASSUME Types, IdInv, NEW c, CloseLater(c)
    PROVE  LET s == HASH_ID(c.id) IN
           /\ Types' /\ IdInv'
           /\ CtrlFrame(c) /\ c.c = "K" /\ sock[s].id = c.id
           /\ sock[s].type \in Live \cup {"RESERVE"} /\ ~ nomore_sending_data(sock[s])
           /\ SlotTo(s) /\ SameName(s) /\ SameCount(s) /\ SameArmed(s) /\ SameLists(s)
           /\ sock'[s].type = "HALFCLOSE_READ" /\ sock'[s].closing
           /\ \A i \in Id : i # c.id => said'[i] = said[i]
           /\ Say(c.id, CloseKind(sock[s]))
           /\ torn' = torn \cup (IF sock[s].type = "RESERVE" THEN {s} ELSE {})
           /\ net' = net /\ fc' = fc /\ aborted' = aborted
<1> DEFINE s == HASH_ID(c.id)
           x == sock[s]
           y == [close_read(x) EXCEPT !.closing = TRUE]
<1>1. /\ CtrlFrame(c) /\ c.c = "K" /\ ~ Invalid(c.id) /\ ~ nomore_sending_data(x)
      /\ Set(s, y, c.id, CloseKind(x))
      /\ net' = net /\ torn' = torn \cup Undone
  BY DEF CloseLater
<1>2. c.id \in Id /\ s \in Slot /\ x \in Sock
  BY <1>1, CtrlFacts
<1>3. x.id = c.id /\ x.type \in Live \cup {"RESERVE"}
  BY <1>1, <1>2, NotInvalid
<1>y. /\ y \in Sock /\ y.type = "HALFCLOSE_READ" /\ y.id = x.id /\ y.tcp = x.tcp
      /\ y.tag = x.tag /\ y.high = x.high /\ y.low = x.low
      /\ y.dw = x.dw /\ y.writing = x.writing /\ y.closing /\ y.sending = x.sending
  BY <1>2 DEF Sock, SocketType, Live, close_read
<1> HIDE DEF y, x, s
<1>4. Undone = (IF x.type = "RESERVE" THEN {s} ELSE {})
  BY <1>1, <1>2, <1>y, UndoneSet DEF Set, x
<1>5. torn' \subseteq Slot
  BY <1>1, <1>2, <1>4 DEF Types
<1>6. /\ Types' /\ IdInv' /\ SlotTo(s) /\ sock'[s] = y
      /\ \A i \in Id : i # c.id => said'[i] = said[i]
      /\ Say(c.id, CloseKind(x)) /\ fc' = fc /\ aborted' = aborted
  <2>1. CloseKind(x) \in {"-", "CLOSE", "OPEN"} /\ c.id # 0
    BY <1>2, IdType DEF CloseKind
  <2>. QED BY <1>1, <1>3, <1>5, <1>y, <2>1, CtrlSet DEF s, x
<1>. QED BY <1>1, <1>3, <1>4, <1>6, <1>y DEF s, x, SameName, SameLists, SameArmed, SameCount

LEMMA ResumedView ==
    ASSUME Types, IdInv, NEW c, Resumed(c)
    PROVE  LET s == HASH_ID(c.id) IN
           /\ Types' /\ IdInv'
           /\ CtrlFrame(c) /\ c.c = "R" /\ sock[s].id = c.id
           /\ sock[s].type \in (Live \ {"HALFCLOSE_READ"}) \cup {"RESERVE"}
           /\ SlotTo(s) /\ SameName(s) /\ SameCount(s) /\ SameArmed(s) /\ SameLists(s)
           /\ sock'[s].closing = sock[s].closing
           /\ sock'[s].type = (IF sock[s].type = "PACCEPT" THEN "CONNECTED" ELSE sock[s].type)
           /\ \A i \in Id : i # c.id => said'[i] = said[i]
           /\ Say(c.id, IF sock[s].type \in {"PACCEPT", "CONNECTED"} THEN "OPEN" ELSE "-")
           /\ torn' = torn /\ net' = net /\ fc' = fc /\ aborted' = aborted
<1> DEFINE s == HASH_ID(c.id)
           x == sock[s]
           y == resume(x)
           kind == IF x.type \in {"PACCEPT", "CONNECTED"} THEN "OPEN" ELSE "-"
<1>1. /\ CtrlFrame(c) /\ c.c = "R" /\ ~ Invalid(c.id) /\ x.type # "HALFCLOSE_READ"
      /\ Set(s, y, c.id, kind)
      /\ net' = net /\ torn' = torn
  BY DEF Resumed
<1>2. c.id \in Id /\ s \in Slot /\ x \in Sock
  BY <1>1, CtrlFacts
<1>3. x.id = c.id /\ x.type \in (Live \ {"HALFCLOSE_READ"}) \cup {"RESERVE"}
  BY <1>1, <1>2, NotInvalid
<1>y. /\ y \in Sock /\ y.type = (IF x.type = "PACCEPT" THEN "CONNECTED" ELSE x.type)
      /\ y.id = x.id /\ y.tcp = x.tcp
      /\ y.tag = x.tag /\ y.high = x.high /\ y.low = x.low
      /\ y.dw = x.dw /\ y.writing = x.writing /\ y.closing = x.closing /\ y.sending = x.sending
  BY <1>2 DEF Sock, SocketType, Live, resume
<1>k. kind \in {"-", "CLOSE", "OPEN"}
  OBVIOUS
<1> HIDE DEF y, x, s, kind
<1>5. torn' \subseteq Slot
  BY <1>1 DEF Types
<1>6. /\ Types' /\ IdInv' /\ SlotTo(s) /\ sock'[s] = y
      /\ \A i \in Id : i # c.id => said'[i] = said[i]
      /\ Say(c.id, kind) /\ fc' = fc /\ aborted' = aborted
  <2>1. c.id # 0
    BY <1>2, IdType
  <2>. QED BY <1>1, <1>3, <1>5, <1>y, <1>k, <2>1, CtrlSet DEF s, x
<1>. QED BY <1>1, <1>3, <1>6, <1>y DEF s, x, kind, SameName, SameLists, SameArmed, SameCount

\* pause_socket and trigger_write.
LEMMA PokedView ==
    ASSUME Types, IdInv, NEW c, Paused(c) \/ Armed(c)
    PROVE  LET s == HASH_ID(c.id) IN
           /\ Types' /\ IdInv'
           /\ CtrlFrame(c) /\ c.c \in {"S", "W"} /\ sock[s].id = c.id
           /\ SlotTo(s) /\ SameName(s) /\ SameCount(s) /\ SameLists(s) /\ SameType(s)
           /\ c.c = "S" => SameArmed(s)
           /\ c.c = "W" => sock'[s].writing /\ sock'[s].reading = sock[s].reading
           /\ sock'[s].reading => sock[s].reading
           /\ said' = said /\ torn' = torn /\ net' = net /\ fc' = fc /\ aborted' = aborted
<1> DEFINE s == HASH_ID(c.id)
           x == sock[s]
           y == IF c.c = "S" THEN [x EXCEPT !.reading = FALSE] ELSE [x EXCEPT !.writing = TRUE]
<1>1. /\ CtrlFrame(c) /\ c.c \in {"S", "W"} /\ ~ Invalid(c.id)
      /\ Set(s, y, c.id, "-")
      /\ net' = net /\ torn' = torn
  BY DEF Paused, Armed
<1>2. c.id \in Id /\ s \in Slot /\ x \in Sock
  BY <1>1, CtrlFacts
<1>3. x.id = c.id
  BY <1>1, <1>2, NotInvalid
<1>y. /\ y \in Sock /\ y.type = x.type /\ y.id = x.id /\ y.tcp = x.tcp
      /\ y.tag = x.tag /\ y.high = x.high /\ y.low = x.low
      /\ y.dw = x.dw /\ y.closing = x.closing /\ y.sending = x.sending
      /\ c.c = "S" => y.writing = x.writing
      /\ c.c # "S" => y.writing /\ y.reading = x.reading
      /\ y.reading => x.reading
  <2>1. CASE c.c = "S"
    BY <1>2, <2>1 DEF Sock
  <2>2. CASE c.c # "S"
    BY <1>2, <2>2 DEF Sock
  <2>. QED BY <2>1, <2>2
<1> HIDE DEF y, x, s
<1>5. torn' \subseteq Slot
  BY <1>1 DEF Types
<1>6. /\ Types' /\ IdInv' /\ SlotTo(s) /\ sock'[s] = y
      /\ Say(c.id, "-") /\ fc' = fc /\ aborted' = aborted
  <2>1. c.id # 0
    BY <1>2, IdType
  <2>. QED BY <1>1, <1>3, <1>5, <1>y, <2>1, CtrlSet DEF s, x
<1>7. said' = said
  BY <1>6, SayNothing
<1>. QED BY <1>1, <1>3, <1>6, <1>7, <1>y DEF s, x, SameName, SameLists, SameArmed, SameCount, SameType

LEMMA BufferType == \A m \in Nat : Buffer(m) \in Node /\ Buffer(m).m = m /\ Buffer(m).at = 0
<1>1. 0 \in 0 .. MsgSize - 1
  BY Bounds
<1>. QED BY <1>1 DEF Buffer, Node

\* send_socket puts the message behind the others, or drops it.
LEMMA QueuedFacts ==
    ASSUME NEW x \in Sock, NEW id, NEW m \in Nat
    PROVE  LET y == Queued(x, id, m) IN
           /\ y \in Sock /\ y.id = x.id /\ y.type = x.type /\ y.tcp = x.tcp /\ y.tag = x.tag
           /\ y.closing = x.closing /\ y.sending = x.sending /\ y.dw = x.dw
           /\ y.reading = x.reading
           /\ Drops(x, id) => y = x
           /\ ~ Drops(x, id) =>
                /\ send_buffer_empty(x) => y.high = <<Buffer(m)>> /\ y.low = << >> /\ y.writing
                /\ ~ send_buffer_empty(x) => y.writing = x.writing
                /\ ~ send_buffer_empty(x) /\ sent[m].low =>
                     y.high = x.high /\ y.low = Append(x.low, Buffer(m))
                /\ ~ send_buffer_empty(x) /\ ~ sent[m].low =>
                     y.high = Append(x.high, Buffer(m)) /\ y.low = x.low
<1> DEFINE y == Queued(x, id, m)
<1>1. Buffer(m) \in Node
  BY BufferType
<1>2. /\ <<Buffer(m)>> \in Seq(Node) /\ x.high \in Seq(Node) /\ x.low \in Seq(Node)
      /\ Append(x.high, Buffer(m)) \in Seq(Node) /\ Append(x.low, Buffer(m)) \in Seq(Node)
  BY <1>1 DEF Sock
<1> HIDE DEF y
<1>3. CASE Drops(x, id)
  BY <1>3 DEF Queued, y
<1>4. CASE ~ Drops(x, id) /\ send_buffer_empty(x)
  <2>1. y = [x EXCEPT !.high = <<Buffer(m)>>, !.writing = TRUE]
    BY <1>4 DEF Queued, Enqueue, y
  <2>. QED BY <1>2, <1>4, <2>1 DEF Sock, send_buffer_empty, y
<1>5. CASE ~ Drops(x, id) /\ ~ send_buffer_empty(x) /\ sent[m].low
  <2>1. y = [x EXCEPT !.low = Append(x.low, Buffer(m))]
    BY <1>5 DEF Queued, Enqueue, y
  <2>. QED BY <1>2, <1>5, <2>1 DEF Sock, y
<1>6. CASE ~ Drops(x, id) /\ ~ send_buffer_empty(x) /\ ~ sent[m].low
  <2>1. y = [x EXCEPT !.high = Append(x.high, Buffer(m))]
    BY <1>6 DEF Queued, Enqueue, y
  <2>. QED BY <1>2, <1>6, <2>1 DEF Sock, y
<1>. QED BY <1>3, <1>4, <1>5, <1>6

LEMMA DataView ==
    ASSUME Types, IdInv, NEW c, DataElse(c) \/ DataTcp(c)
    PROVE  LET s == HASH_ID(c.id) x == sock[s] y == sock'[s] IN
           /\ Types' /\ IdInv'
           /\ CtrlFrame(c) /\ c.c \in {"D", "P"}
           /\ SlotTo(s) /\ SameName(s) /\ SameType(s) /\ SameRead(s) /\ y.dw = x.dw
           /\ x.id = c.id /\ x.tcp => x.sending # 0 /\ y.sending = x.sending - 1
           /\ ~ (x.id = c.id /\ x.tcp) => y.sending = x.sending
           /\ Drops(x, c.id) => SameLists(s) /\ SameArmed(s)
           /\ ~ Drops(x, c.id) =>
                /\ send_buffer_empty(x) => y.high = <<Buffer(c.m)>> /\ y.low = << >> /\ y.writing
                /\ ~ send_buffer_empty(x) => y.writing = x.writing
                /\ ~ send_buffer_empty(x) /\ sent[c.m].low =>
                     y.high = x.high /\ y.low = Append(x.low, Buffer(c.m))
                /\ ~ send_buffer_empty(x) /\ ~ sent[c.m].low =>
                     y.high = Append(x.high, Buffer(c.m)) /\ y.low = x.low
           /\ said' = said /\ torn' = torn /\ net' = net /\ fc' = fc /\ aborted' = aborted
<1> DEFINE s == HASH_ID(c.id)
           x == sock[s]
           q == Queued(x, c.id, c.m)
           y == IF x.id = c.id /\ x.tcp THEN [q EXCEPT !.sending = @ - 1] ELSE q
<1>1. /\ CtrlFrame(c) /\ c.c \in {"D", "P"} /\ Set(s, y, c.id, "-")
      /\ x.id = c.id /\ x.tcp => x.sending # 0
      /\ net' = net /\ torn' = torn
  BY DEF DataElse, DataTcp
<1>2. c.id \in Id /\ s \in Slot /\ x \in Sock /\ c.m \in Nat
  BY <1>1, CtrlFacts
<1> HIDE DEF x, s
<1>q. /\ q \in Sock /\ q.id = x.id /\ q.type = x.type /\ q.tcp = x.tcp /\ q.tag = x.tag
      /\ q.closing = x.closing /\ q.sending = x.sending /\ q.dw = x.dw
      /\ q.reading = x.reading
      /\ Drops(x, c.id) => q = x
      /\ ~ Drops(x, c.id) =>
                /\ send_buffer_empty(x) => q.high = <<Buffer(c.m)>> /\ q.low = << >> /\ q.writing
                /\ ~ send_buffer_empty(x) => q.writing = x.writing
                /\ ~ send_buffer_empty(x) /\ sent[c.m].low =>
                     q.high = x.high /\ q.low = Append(x.low, Buffer(c.m))
                /\ ~ send_buffer_empty(x) /\ ~ sent[c.m].low =>
                     q.high = Append(x.high, Buffer(c.m)) /\ q.low = x.low
  BY <1>2, QueuedFacts
<1> HIDE DEF q
<1>y. /\ y \in Sock /\ y.type = q.type /\ y.id = q.id /\ y.tcp = q.tcp
      /\ y.tag = q.tag /\ y.high = q.high /\ y.low = q.low
      /\ y.dw = q.dw /\ y.closing = q.closing /\ y.writing = q.writing /\ y.reading = q.reading
      /\ x.id = c.id /\ x.tcp => y.sending = x.sending - 1
      /\ ~ (x.id = c.id /\ x.tcp) => y.sending = x.sending
  <2>1. CASE x.id = c.id /\ x.tcp
    <3>0. x.sending \in 0 .. MaxRef /\ x.sending # 0 /\ q.sending = x.sending
      BY <1>1, <1>2, <1>q, <2>1 DEF Sock
    <3>1. q.sending - 1 \in 0 .. MaxRef
      BY <3>0, Bounds
    <3>2. y = [q EXCEPT !.sending = q.sending - 1]
      BY <2>1
    <3>. QED BY <1>q, <2>1, <3>1, <3>2 DEF Sock
  <2>2. CASE ~ (x.id = c.id /\ x.tcp)
    BY <1>q, <2>2
  <2>. QED BY <2>1, <2>2
<1> HIDE DEF y
<1>5. torn' \subseteq Slot
  BY <1>1 DEF Types
<1>6. /\ Types' /\ IdInv' /\ SlotTo(s) /\ sock'[s] = y
      /\ Say(c.id, "-") /\ fc' = fc /\ aborted' = aborted
  <2>1. y.type \in Live => y.id # 0
    BY <1>2, <1>q, <1>y DEF IdInv, x
  <2>2. y.id = sock[HASH_ID(c.id)].id
    BY <1>q, <1>y DEF s, x
  <2>. QED BY <1>1, <1>5, <1>y, <2>1, <2>2, CtrlSet DEF s
<1>7. said' = said
  BY <1>6, SayNothing
<1>8. /\ SameName(s) /\ SameType(s) /\ SameRead(s) /\ y.dw = x.dw
      /\ Drops(x, c.id) => SameLists(s) /\ SameArmed(s)
  BY <1>6, <1>q, <1>y DEF x, SameName, SameType, SameLists, SameArmed, SameRead
<1>9. ~ Drops(x, c.id) =>
                /\ send_buffer_empty(x) => y.high = <<Buffer(c.m)>> /\ y.low = << >> /\ y.writing
                /\ ~ send_buffer_empty(x) => y.writing = x.writing
                /\ ~ send_buffer_empty(x) /\ sent[c.m].low =>
                     y.high = x.high /\ y.low = Append(x.low, Buffer(c.m))
                /\ ~ send_buffer_empty(x) /\ ~ sent[c.m].low =>
                     y.high = Append(x.high, Buffer(c.m)) /\ y.low = x.low
  BY <1>q, <1>y
<1>. QED BY <1>1, <1>6, <1>7, <1>8, <1>9, <1>y DEF s, x

\* The event taken from the batch.
LEMMA EventFacts ==
    ASSUME Types, IdInv, NEW e, EventFrame(e)
    PROVE  /\ e \in batch /\ e \in Ev /\ e.s \in Slot /\ sock[e.s] \in Sock
           /\ sock[e.s].id \in Id /\ sock[e.s].id \in Nat /\ sock[e.s].id # 0
           /\ sock[e.s].id <= alloc_id /\ HASH_ID(sock[e.s].id) = e.s
           /\ fc = NoClose /\ fc.at = "no"
           /\ stale \subseteq stale' /\ stale' \subseteq Id
           /\ e.id # sock[e.s].id => sock[e.s].id \in stale'
           /\ batch' \subseteq Ev
           /\ \A f \in batch' :
                \/ f \in batch
                \/ /\ f.s = e.s /\ f.id = e.id /\ ~ f.read /\ f.write /\ e.write
                   /\ f.error = e.error /\ f.eof = e.eof
           /\ UNCHANGED <<alloc_id, lock, call, pipe, sent, cmds, peers>> /\ checkctrl' = FALSE
<1>1. /\ fc = NoClose
      /\ e \in batch /\ e \in Ev
      /\ stale' = stale \cup ({sock[e.s].id} \ {e.id})
      /\ \A f \in batch' : f \in batch \/ (e.write /\ f = [e EXCEPT !.read = FALSE])
      /\ checkctrl' = FALSE
      /\ UNCHANGED <<alloc_id, lock, call, pipe, sent, cmds, peers>>
  BY DEF EventFrame
<1>2. e.s \in Slot /\ sock[e.s] \in Sock /\ sock[e.s].id # 0 /\ sock[e.s].id <= alloc_id
  BY <1>1 DEF Ev, Types, IdInv
<1>3. sock[e.s].id \in Id /\ HASH_ID(sock[e.s].id) = e.s
  BY <1>2 DEF IdInv
<1>4. sock[e.s].id \in Nat /\ fc.at = "no"
  BY <1>1, <1>3, IdType DEF NoClose
<1>5. [e EXCEPT !.read = FALSE] \in Ev
  BY <1>1 DEF Ev
<1>6. batch' \subseteq Ev
  BY <1>1, <1>5 DEF Types
<1>7. \A f \in batch' :
        \/ f \in batch
        \/ /\ f.s = e.s /\ f.id = e.id /\ ~ f.read /\ f.write /\ e.write
           /\ f.error = e.error /\ f.eof = e.eof
  BY <1>1 DEF Ev
<1>8. stale \subseteq stale' /\ stale' \subseteq Id /\ (e.id # sock[e.s].id => sock[e.s].id \in stale')
  BY <1>1, <1>3 DEF Types
<1>. QED BY <1>1, <1>2, <1>3, <1>4, <1>6, <1>7, <1>8

\* What an event must keep for the types and the ids.
LEMMA EventTypes ==
    ASSUME Types, IdInv, NEW e, EventFrame(e),
           SlotTo(e.s), sock'[e.s].id = sock[e.s].id,
           fc' \in Closing,
           fc'.at # "no" => fc'.id = sock[e.s].id /\ fc'.s = e.s,
           fc'.at = "no" => fc' = NoClose,
           net' \in [Id -> NetState], \A i \in Id : i # sock[e.s].id => net'[i] = net[i],
           wire' \in [Id -> Seq(Write)], \A i \in Id : i # sock[e.s].id => wire'[i] = wire[i],
           said' \in [Id -> SUBSET Kind], \A i \in Id : i # sock[e.s].id => said'[i] = said[i],
           torn' \subseteq Slot
    PROVE  Types' /\ IdInv'
<1>1. /\ e \in batch /\ e \in Ev /\ e.s \in Slot
      /\ sock[e.s].id \in Id /\ sock[e.s].id \in Nat /\ sock[e.s].id # 0
      /\ sock[e.s].id <= alloc_id /\ HASH_ID(sock[e.s].id) = e.s
      /\ stale' \subseteq Id /\ batch' \subseteq Ev
      /\ \A f \in batch' :
           \/ f \in batch
           \/ f.s = e.s /\ f.id = e.id /\ f.write
      /\ UNCHANGED <<alloc_id, lock, call, pipe, sent, cmds, peers>> /\ checkctrl' = FALSE
  BY EventFacts
<1>3. Types'
  BY <1>1 DEF Types, SlotTo
<1>4. IdInv'
  <2>1. \A i \in Id : i > alloc_id => said'[i] = {} /\ wire'[i] = << >> /\ net'[i] = "none"
    <3>1. \A i \in Id : i > alloc_id => i # sock[e.s].id
      BY <1>1, IdType DEF Types
    <3>. QED BY <3>1 DEF IdInv
  <2>2. \A t \in Slot : sock'[t].id = sock[t].id
    BY DEF SlotTo
  <2>3. \A t \in Slot : sock'[t].type \in Live => sock'[t].id # 0
    <3>1. sock'[e.s].id # 0
      BY <1>1
    <3>2. \A t \in Slot : t # e.s => sock'[t] = sock[t]
      BY DEF SlotTo
    <3>3. \A t \in Slot : sock[t].type \in Live => sock[t].id # 0
      BY DEF IdInv
    <3>. QED BY <3>1, <3>2, <3>3
  <2>4. \A f \in batch' : /\ f.id \in Id /\ f.id <= alloc_id
                          /\ f.read \/ f.write \/ f.error \/ f.eof
    BY <1>1 DEF IdInv
  <2>5. \A f \in batch' : sock'[f.s].id # 0
    <3>1. \A f \in batch' : sock[f.s].id # 0 /\ f.s \in Slot
      BY <1>1 DEF IdInv, Ev
    <3>. QED BY <2>2, <3>1
  <2>6. fc'.at # "no" => fc'.id \in Id /\ fc'.id <= alloc_id /\ HASH_ID(fc'.id) = fc'.s
    BY <1>1
  <2>7. \A t \in Slot :
           /\ sock'[t].id <= alloc_id
           /\ sock'[t].id # 0 => sock'[t].id \in Id /\ HASH_ID(sock'[t].id) = t
    BY <2>2 DEF IdInv
  <2>8. alloc_id' = alloc_id /\ call' = call /\ pipe' = pipe
    BY <1>1
  <2>9. \A t \in Slot :
           /\ sock'[t].id <= alloc_id'
           /\ sock'[t].id # 0 => sock'[t].id \in Id /\ HASH_ID(sock'[t].id) = t
           /\ sock'[t].type \in Live => sock'[t].id # 0
    BY <2>3, <2>7, <2>8
  <2>10. \A f \in batch' :
           /\ f.id \in Id /\ f.id <= alloc_id' /\ sock'[f.s].id # 0
           /\ f.read \/ f.write \/ f.error \/ f.eof
    BY <2>4, <2>5, <2>8
  <2>11. \A w \in Worker : call'[w].at # "idle" => call'[w].id \in Id /\ call'[w].id <= alloc_id'
    BY <2>8 DEF IdInv
  <2>12. \A p \in DOMAIN pipe' : pipe'[p].id <= alloc_id'
    BY <2>8 DEF IdInv
  <2>13. \A i \in Id : i > alloc_id' => said'[i] = {} /\ wire'[i] = << >> /\ net'[i] = "none"
    BY <2>1, <2>8
  <2>14. fc'.at # "no" => fc'.id \in Id /\ fc'.id <= alloc_id' /\ HASH_ID(fc'.id) = fc'.s
    BY <2>6, <2>8
  <2>. QED BY <2>9, <2>10, <2>11, <2>12, <2>13, <2>14 DEF IdInv
<1>. QED BY <1>3, <1>4

\* An event that changes fields of its slot and tells the owner.
LEMMA EventPut ==
    ASSUME Types, IdInv, NEW e, EventFrame(e), NEW y \in Sock,
           NEW kind \in {"-", "ERR", "OPEN", "CLOSE", "DATA"},
           sock' = [sock EXCEPT ![e.s] = y], Say(sock[e.s].id, kind), fc' = fc,
           y.id = sock[e.s].id,
           net' \in [Id -> NetState], \A i \in Id : i # sock[e.s].id => net'[i] = net[i],
           wire' \in [Id -> Seq(Write)], \A i \in Id : i # sock[e.s].id => wire'[i] = wire[i],
           torn' \subseteq Slot
    PROVE  /\ Types' /\ IdInv'
           /\ SlotTo(e.s) /\ sock'[e.s] = y
           /\ \A i \in Id : i # sock[e.s].id => said'[i] = said[i]
<1>1. sock[e.s].id \in Id /\ e.s \in Slot /\ fc = NoClose
  BY EventFacts
<1>3. SlotTo(e.s) /\ sock'[e.s] = y
  BY <1>1, SlotSet
<1>s. /\ said' \in [Id -> SUBSET Kind]
      /\ \A i \in Id : i # sock[e.s].id => said'[i] = said[i]
  <2>1. kind \in Kind \cup {"-", "DATA"} /\ said \in [Id -> SUBSET Kind]
    BY DEF Kind, Types
  <2>. QED BY <1>1, <2>1, SayFacts
<1>6. Types' /\ IdInv'
  <2>1. sock'[e.s].id = sock[e.s].id /\ fc' \in Closing /\ fc'.at = "no" /\ fc' = NoClose
    BY <1>1, <1>3, NoCloseType
  <2>. QED BY <1>3, <1>s, <2>1, EventTypes
<1>. QED BY <1>3, <1>6, <1>s

LEMMA EventSet ==
    ASSUME Types, IdInv, NEW e, EventFrame(e), NEW y \in Sock,
           NEW kind \in {"-", "ERR", "OPEN", "CLOSE", "DATA"},
           Set(e.s, y, sock[e.s].id, kind), y.id = sock[e.s].id,
           net' \in [Id -> NetState], \A i \in Id : i # sock[e.s].id => net'[i] = net[i],
           wire' \in [Id -> Seq(Write)], \A i \in Id : i # sock[e.s].id => wire'[i] = wire[i],
           torn' \subseteq Slot
    PROVE  /\ Types' /\ IdInv'
           /\ SlotTo(e.s) /\ sock'[e.s] = y
           /\ \A i \in Id : i # sock[e.s].id => said'[i] = said[i]
           /\ Say(sock[e.s].id, kind) /\ fc' = fc /\ aborted' = aborted
<1>1. /\ sock' = [sock EXCEPT ![e.s] = y] /\ Say(sock[e.s].id, kind)
      /\ fc' = fc /\ aborted' = aborted
  BY DEF Set
<1>. QED BY <1>1, EventPut

\* What an error report does to the connection.
LEMMA ResetFacts ==
    ASSUME Types, NEW id \in Id, net' = net \/ Reset(id)
    PROVE  /\ net' \in [Id -> NetState]
           /\ \A i \in Id : i # id => net'[i] = net[i]
           /\ \A i \in Id : net'[i] = net[i] \/ (net[i] = "rst" /\ net'[i] = "hup")
BY DEF Types, Reset, NetState

LEMMA EventIdleView ==
    ASSUME Types, IdInv, NEW e, NEW kind, EventTell(e, kind) \/ EventStop(e)
    PROVE  /\ Types' /\ IdInv'
           /\ EventFrame(e) /\ sock' = sock /\ fc' = fc /\ wire' = wire /\ torn' = torn
           /\ \A i \in Id : net'[i] = net[i] \/ (net[i] = "rst" /\ net'[i] = "hup")
           /\ \A i \in Id : said[i] \subseteq said'[i] /\ (i # sock[e.s].id => said'[i] = said[i])
           /\ \A k \in Kind \ {"ERR", "LATE"} : \A i \in Id : k \in said'[i] <=> k \in said[i]
<1>1. /\ EventFrame(e) /\ sock' = sock /\ fc' = fc /\ wire' = wire /\ torn' = torn
      /\ said' = said \/ (kind \in {"-", "ERR", "DATA"} /\ Say(sock[e.s].id, kind))
      /\ net' = net \/ Reset(sock[e.s].id)
  BY DEF EventTell, EventStop
<1>2. sock[e.s].id \in Id /\ e.s \in Slot /\ fc = NoClose
  BY <1>1, EventFacts
<1>s. /\ said' \in [Id -> SUBSET Kind]
      /\ \A i \in Id : said[i] \subseteq said'[i] /\ (i # sock[e.s].id => said'[i] = said[i])
      /\ \A k \in Kind \ {"ERR", "LATE"} : \A i \in Id : k \in said'[i] <=> k \in said[i]
  <2>0. said \in [Id -> SUBSET Kind]
    BY DEF Types
  <2>1. CASE said' = said
    BY <2>0, <2>1
  <2>2. CASE kind \in {"-", "ERR", "DATA"} /\ Say(sock[e.s].id, kind)
    <3>0. kind \in Kind \cup {"-", "DATA"}
      BY <2>2 DEF Kind
    <3>1. /\ said' \in [Id -> SUBSET Kind]
          /\ \A i \in Id : said[i] \subseteq said'[i] /\ (i # sock[e.s].id => said'[i] = said[i])
          /\ \A k \in Kind \ {"LATE"} :
               k \in said'[sock[e.s].id] <=> k \in said[sock[e.s].id] \/ k = kind
      BY <1>2, <2>0, <2>2, <3>0, SayFacts
    <3>2. \A k \in Kind \ {"ERR", "LATE"} : k # kind
      BY <2>2 DEF Kind
    <3>. QED BY <3>1, <3>2
  <2>. QED BY <1>1, <2>1, <2>2
<1>5. SlotTo(e.s)
  BY <1>1, <1>2 DEF SlotTo, Types
<1>n. /\ net' \in [Id -> NetState] /\ \A i \in Id : i # sock[e.s].id => net'[i] = net[i]
      /\ \A i \in Id : net'[i] = net[i] \/ (net[i] = "rst" /\ net'[i] = "hup")
  BY <1>1, <1>2, ResetFacts
<1>6. Types' /\ IdInv'
  <2>1. /\ sock'[e.s].id = sock[e.s].id
        /\ fc' \in Closing /\ fc'.at = "no" /\ fc' = NoClose /\ torn' \subseteq Slot
        /\ wire' \in [Id -> Seq(Write)] /\ \A i \in Id : wire'[i] = wire[i]
    BY <1>1, <1>2, NoCloseType DEF Types
  <2>. QED BY <1>1, <1>5, <1>n, <1>s, <2>1, EventTypes
<1>. QED BY <1>1, <1>6, <1>n, <1>s

LEMMA EventForceView ==
    ASSUME Types, IdInv, NEW e, NEW kind, EventForce(e, kind)
    PROVE  LET s == e.s IN
           /\ Types' /\ IdInv'
           /\ EventFrame(e) /\ sock[s].type \in Live
           /\ kind \in {"-", "CLOSE", "ERR"}
           /\ SlotTo(s) /\ SameName(s) /\ SameCount(s) /\ SameArmed(s) /\ SameType(s)
           /\ SameRead(s)
           /\ sock'[s].high = << >> /\ sock'[s].low = << >> /\ sock'[s].dw = sock[s].dw
           /\ fc' = [at |-> "lock", s |-> s, id |-> sock[s].id, say |-> kind, ctrl |-> FALSE]
           /\ said' = said /\ net' = net /\ wire' = wire /\ torn' = torn /\ aborted' = aborted
<1> DEFINE s == e.s
           x == sock[s]
           y == [x EXCEPT !.high = << >>, !.low = << >>, !.freed = StillCounted(x)]
           f == [at |-> "lock", s |-> s, id |-> x.id, say |-> kind, ctrl |-> FALSE]
<1>1. /\ EventFrame(e) /\ x.type \in Live /\ kind \in {"-", "CLOSE", "ERR"}
      /\ sock' = [sock EXCEPT ![s] = y] /\ fc' = f
      /\ said' = said /\ net' = net /\ wire' = wire /\ torn' = torn /\ aborted' = aborted
  BY DEF EventForce, Forced, CloseKind
<1>2. x.id \in Id /\ x.id \in Nat /\ s \in Slot /\ x \in Sock
  BY <1>1, EventFacts
<1>y. /\ y \in Sock /\ y.type = x.type /\ y.id = x.id /\ y.tcp = x.tcp
      /\ y.tag = x.tag /\ y.high = << >> /\ y.low = << >>
      /\ y.dw = x.dw /\ y.writing = x.writing
      /\ y.reading = x.reading /\ y.closing = x.closing /\ y.sending = x.sending
  <2>1. << >> \in Seq(Node)
    BY EmptySeq
  <2>2. PICK b \in BOOLEAN : b = StillCounted(x)
    BY <1>2, CountedType
  <2>. QED BY <1>2, <2>1, <2>2 DEF Sock
<1>f. f \in Closing /\ f.at # "no" /\ f.id = x.id /\ f.s = s
  BY <1>1, <1>2 DEF Closing
<1> HIDE DEF y, f, s, x
<1>5. SlotTo(s) /\ sock'[s] = y
  BY <1>1, <1>2, <1>y, SlotSet
<1>6. Types' /\ IdInv'
  <2>1. sock'[s].id = sock[s].id /\ fc' \in Closing /\ fc'.at # "no" /\ fc'.id = sock[s].id /\ fc'.s = s
    BY <1>1, <1>5, <1>y, <1>f DEF x
  <2>2. /\ net' \in [Id -> NetState] /\ said' \in [Id -> SUBSET Kind] /\ torn' \subseteq Slot
        /\ wire' \in [Id -> Seq(Write)]
    BY <1>1 DEF Types
  <2>. QED BY <1>1, <1>5, <2>1, <2>2, EventTypes DEF s
<1>. QED BY <1>1, <1>2, <1>5, <1>6, <1>y DEF s, f, x, SameName, SameType, SameArmed, SameCount, SameRead

LEMMA ConnectedView ==
    ASSUME Types, IdInv, NEW e, Connected(e)
    PROVE  LET s == e.s x == sock[s] IN
           /\ Types' /\ IdInv'
           /\ EventFrame(e) /\ x.type = "CONNECTING"
           /\ SlotTo(s) /\ SameName(s) /\ SameCount(s) /\ SameLists(s)
           /\ sock'[s].type = "CONNECTED" /\ sock'[s].closing = x.closing
           /\ sock'[s].writing = (x.writing /\ ~ nomore_sending_data(x))
           /\ \A i \in Id : i # x.id => said'[i] = said[i]
           /\ Say(x.id, "OPEN") /\ fc' = fc /\ aborted' = aborted
           /\ net' = net /\ wire' = wire /\ torn' = torn
<1> DEFINE s == e.s
           x == sock[s]
           y == AfterConnect(x)
<1>1. /\ EventFrame(e) /\ x.type = "CONNECTING"
      /\ Set(s, y, x.id, "OPEN")
      /\ net' = net /\ wire' = wire /\ torn' = torn
  BY DEF Connected
<1>2. x.id \in Id /\ s \in Slot /\ x \in Sock
  BY <1>1, EventFacts
<1>y. /\ y \in Sock /\ y.type = "CONNECTED" /\ y.id = x.id /\ y.tcp = x.tcp
      /\ y.tag = x.tag /\ y.high = x.high /\ y.low = x.low
      /\ y.dw = x.dw /\ y.writing = (x.writing /\ ~ nomore_sending_data(x))
      /\ y.closing = x.closing /\ y.sending = x.sending
  <2>1. (x.writing /\ ~ nomore_sending_data(x)) \in BOOLEAN
    BY <1>2 DEF Sock
  <2>. QED BY <1>2, <2>1 DEF Sock, SocketType, Live, AfterConnect
<1> HIDE DEF y
<1>6. /\ Types' /\ IdInv' /\ SlotTo(s) /\ sock'[s] = y
      /\ \A i \in Id : i # x.id => said'[i] = said[i]
      /\ Say(x.id, "OPEN") /\ fc' = fc /\ aborted' = aborted
  <2>1. /\ net' \in [Id -> NetState] /\ wire' \in [Id -> Seq(Write)] /\ torn' \subseteq Slot
        /\ \A i \in Id : net'[i] = net[i] /\ wire'[i] = wire[i]
    BY <1>1 DEF Types
  <2>. QED BY <1>1, <1>y, <2>1, EventSet
<1>. QED BY <1>1, <1>6, <1>y DEF SameName, SameLists, SameCount

LEMMA EofReadView ==
    ASSUME Types, IdInv, NEW e, EofRead(e)
    PROVE  LET s == e.s x == sock[s] IN
           /\ Types' /\ IdInv'
           /\ EventFrame(e) /\ x.type \in {"CONNECTED", "PACCEPT", "RESERVE"} /\ ~ x.closing
           /\ net[x.id] \in {"fin", "hup"}
           /\ SlotTo(s) /\ SameName(s) /\ SameCount(s) /\ SameLists(s) /\ SameArmed(s)
           /\ sock'[s].type = "HALFCLOSE_READ" /\ sock'[s].closing = x.closing
           /\ \A i \in Id : i # x.id => said'[i] = said[i]
           /\ Say(x.id, "CLOSE") /\ fc' = fc /\ aborted' = aborted
           /\ net' = net /\ wire' = wire
           /\ torn' = torn \cup (IF x.type = "RESERVE" THEN {s} ELSE {})
<1> DEFINE s == e.s
           x == sock[s]
           y == close_read(x)
<1>1. /\ EventFrame(e) /\ x.type \in {"CONNECTED", "PACCEPT", "RESERVE"} /\ ~ x.closing
      /\ net[x.id] \in {"fin", "hup"} /\ Set(s, y, x.id, "CLOSE")
      /\ net' = net /\ wire' = wire /\ torn' = torn \cup Undone
  BY DEF EofRead
<1>2. x.id \in Id /\ s \in Slot /\ x \in Sock
  BY <1>1, EventFacts
<1>y. /\ y \in Sock /\ y.type = "HALFCLOSE_READ" /\ y.id = x.id /\ y.tcp = x.tcp
      /\ y.tag = x.tag /\ y.high = x.high /\ y.low = x.low
      /\ y.dw = x.dw /\ y.writing = x.writing
      /\ y.closing = x.closing /\ y.sending = x.sending
  BY <1>2 DEF Sock, SocketType, Live, close_read
<1> HIDE DEF y
<1>4. Undone = (IF x.type = "RESERVE" THEN {s} ELSE {})
  BY <1>1, <1>2, <1>y, UndoneSet DEF Set
<1>6. /\ Types' /\ IdInv' /\ SlotTo(s) /\ sock'[s] = y
      /\ \A i \in Id : i # x.id => said'[i] = said[i]
      /\ Say(x.id, "CLOSE") /\ fc' = fc /\ aborted' = aborted
  <2>1. /\ net' \in [Id -> NetState] /\ wire' \in [Id -> Seq(Write)] /\ torn' \subseteq Slot
        /\ \A i \in Id : net'[i] = net[i] /\ wire'[i] = wire[i]
    BY <1>1, <1>2, <1>4 DEF Types
  <2>. QED BY <1>1, <1>y, <2>1, EventSet
<1>. QED BY <1>1, <1>4, <1>6, <1>y DEF SameName, SameLists, SameCount, SameArmed

LEMMA CatWrite ==
    ASSUME NEW a \in Seq(Write), NEW b \in Seq(Write)
    PROVE  /\ a \o b \in Seq(Write) /\ Len(a \o b) = Len(a) + Len(b)
           /\ Len(a) \in Nat /\ Len(b) \in Nat
           /\ DOMAIN a = 1 .. Len(a) /\ DOMAIN b = 1 .. Len(b)
           /\ DOMAIN (a \o b) = 1 .. Len(a) + Len(b)
           /\ \A i \in 1 .. Len(a) : (a \o b)[i] = a[i]
           /\ \A i \in 1 .. Len(b) : (a \o b)[Len(a) + i] = b[i]
           /\ \A i \in Nat : i > Len(a) /\ i <= Len(a) + Len(b) => (a \o b)[i] = b[i - Len(a)]
OBVIOUS

LEMMA WritesType ==
    ASSUME NEW list \in Seq(Node), NEW n \in Nat, NEW k \in 0 .. MsgSize - 1, n <= Len(list),
           k > 0 => n < Len(list) /\ list[n + 1].at + k < MsgSize
    PROVE  /\ Writes(list, n, k) \in Seq(Write)
           /\ Len(Writes(list, n, k)) = n + IF k = 0 THEN 0 ELSE 1
           /\ \A i \in 1 .. n : Writes(list, n, k)[i] = [m |-> list[i].m, from |-> list[i].at, to |-> MsgSize]
           /\ k # 0 => Writes(list, n, k)[n + 1] =
                         [m |-> list[n + 1].m, from |-> list[n + 1].at, to |-> list[n + 1].at + k]
<1> DEFINE a == [i \in 1 .. n |-> [m |-> list[i].m, from |-> list[i].at, to |-> MsgSize]]
           b == IF k = 0 THEN << >> ELSE Wrote(list[n + 1], k)
<1>1. Writes(list, n, k) = a \o b
  BY DEF Writes
<1>2. \A i \in 1 .. n : [m |-> list[i].m, from |-> list[i].at, to |-> MsgSize] \in Write
  <2>1. ASSUME NEW i \in 1 .. n PROVE list[i].m \in Nat /\ list[i].at \in Nat
    <3>1. list[i] \in Node
      OBVIOUS
    <3>. QED BY <3>1, Bounds DEF Node
  <2>. QED BY <2>1, Bounds DEF Write
<1>3. a \in [1 .. n -> Write]
  BY <1>2
<1>4. a \in Seq(Write) /\ Len(a) = n /\ \A i \in 1 .. n : a[i] = [m |-> list[i].m, from |-> list[i].at, to |-> MsgSize]
  BY <1>3, FunSeq
<1>5. CASE k = 0
  <2>1. b = << >> /\ b \in Seq(Write) /\ Len(b) = 0
    BY <1>5, EmptySeq
  <2> HIDE DEF a, b
  <2>2. a \o b = a
    BY <1>4, <2>1
  <2>. QED BY <1>1, <1>4, <1>5, <2>2
<1>6. CASE k # 0
  <2> DEFINE r == [m |-> list[n + 1].m, from |-> list[n + 1].at, to |-> list[n + 1].at + k]
  <2>1. list[n + 1] \in Node
    BY <1>6
  <2>2. list[n + 1].m \in Nat /\ list[n + 1].at \in Nat /\ list[n + 1].at + k \in Nat
    BY <2>1, Bounds DEF Node
  <2>3. r \in Write
    BY <2>2 DEF Write
  <2>4. b = <<r>>
    BY <1>6 DEF Wrote
  <2> HIDE DEF a, r
  <2>5. b \in Seq(Write) /\ Len(b) = 1 /\ b[1] = r
    BY <2>3, <2>4, SingleSeq
  <2> HIDE DEF b
  <2>6. /\ a \o b \in Seq(Write) /\ Len(a \o b) = n + 1
        /\ \A i \in 1 .. n : (a \o b)[i] = a[i]
        /\ (a \o b)[n + 1] = r
    <3>1. a \in Seq(Write) /\ Len(a) = n
      BY <1>4
    <3>2. /\ a \o b \in Seq(Write) /\ Len(a \o b) = Len(a) + Len(b)
          /\ \A i \in 1 .. Len(a) : (a \o b)[i] = a[i]
          /\ \A i \in 1 .. Len(b) : (a \o b)[Len(a) + i] = b[i]
      BY <2>5, <3>1, CatWrite
    <3>3. 1 \in 1 .. Len(b)
      BY <2>5
    <3>4. (a \o b)[Len(a) + 1] = b[1]
      BY <3>2, <3>3
    <3>. QED BY <2>5, <3>1, <3>2, <3>4
  <2>. QED BY <1>1, <1>4, <1>6, <2>6 DEF r
<1>. QED BY <1>5, <1>6

\* What force_close leaves of slot x.
LEMMA ClosedFacts ==
    ASSUME NEW x \in Sock
    PROVE  /\ Closed(x) \in Sock /\ Closed(x).type = "INVALID" /\ Closed(x).id = x.id
           /\ Closed(x).tcp = x.tcp /\ Closed(x).tag = x.tag /\ Closed(x).high = << >>
           /\ Closed(x).low = << >> /\ Closed(x).dw = << >>
           /\ Closed(x).closing = x.closing /\ Closed(x).sending = x.sending
<1>1. << >> \in Seq(Node)
  BY EmptySeq
<1>2. PICK b \in BOOLEAN : b = StillCounted(x)
  BY CountedType
<1>. QED BY <1>1, <1>2 DEF Sock, SocketType, Closed

\* Nothing of the write list is sent, or all of it is freed.
LEMMA WriteClosedView ==
    ASSUME Types, IdInv, NEW e, WriteClosed(e)
    PROVE  LET s == e.s x == sock[s] IN
           /\ Types' /\ IdInv'
           /\ EventFrame(e) /\ x.type \in Live /\ lock[s] = None
           /\ x.closing \/ x.type = "HALFCLOSE_READ"
           /\ SlotTo(s) /\ SameName(s) /\ SameCount(s)
           /\ sock'[s].type = "INVALID" /\ sock'[s].closing = x.closing
           /\ sock'[s].high = << >> /\ sock'[s].low = << >> /\ sock'[s].dw = << >>
           /\ \A i \in Id : i # x.id => net'[i] = net[i]
           /\ net'[x.id] = "none"
           /\ said' = said /\ fc' = fc /\ aborted' = aborted /\ wire' = wire /\ torn' = torn
<1> DEFINE s == e.s
           x == sock[s]
           d == WithDirect(x)
           y == Closed(d)
<1>1. /\ EventFrame(e) /\ (x.closing \/ x.type = "HALFCLOSE_READ") /\ lock[s] = None
      /\ x.type \notin {"RESERVE", "CONNECTING", "INVALID"}
      /\ Set(s, y, x.id, "-") /\ net' = [net EXCEPT ![x.id] = "none"]
      /\ wire' = wire /\ torn' = torn
  BY DEF WriteClosed, WriteFrame
<1>2. x.id \in Id /\ s \in Slot /\ x \in Sock
  BY <1>1, EventFacts
<1>3. x.type \in Live
  BY <1>1, <1>2 DEF Sock, SocketType
<1>d. /\ d \in Sock /\ d.id = x.id /\ d.closing = x.closing /\ d.tcp = x.tcp /\ d.tag = x.tag
      /\ d.sending = x.sending
  BY <1>2, WithDirectFacts
<1> HIDE DEF d
<1>y. /\ y \in Sock /\ y.type = "INVALID" /\ y.id = x.id /\ y.tcp = x.tcp
      /\ y.tag = x.tag /\ y.high = << >> /\ y.low = << >> /\ y.dw = << >>
      /\ y.closing = x.closing /\ y.sending = x.sending
  BY <1>d, ClosedFacts
<1> HIDE DEF y
<1>n. /\ net' \in [Id -> NetState] /\ net'[x.id] = "none"
      /\ \A i \in Id : i # x.id => net'[i] = net[i]
  BY <1>1, <1>2 DEF Types, NetState
<1>6. /\ Types' /\ IdInv' /\ SlotTo(s) /\ sock'[s] = y
      /\ Say(x.id, "-") /\ fc' = fc /\ aborted' = aborted
  <2>1. /\ wire' \in [Id -> Seq(Write)] /\ torn' \subseteq Slot
        /\ \A i \in Id : wire'[i] = wire[i]
    BY <1>1 DEF Types
  <2>. QED BY <1>1, <1>y, <1>n, <2>1, EventSet
<1>7. said' = said
  BY <1>6, SayNothing
<1>. QED BY <1>1, <1>3, <1>6, <1>7, <1>n, <1>y DEF SameName, SameCount

\* The write side stays or becomes closed; the rest of a direct write joins the list.
LEMMA WriteFailView ==
    ASSUME Types, IdInv, NEW e, WriteStopped(e) \/ WriteError(e)
    PROVE  LET s == e.s x == sock[s] IN
           /\ Types' /\ IdInv'
           /\ EventFrame(e) /\ lock[s] = None
           /\ \/ x.type = "HALFCLOSE_WRITE"
              \/ x.type \in {"CONNECTED", "PACCEPT", "RESERVE"} /\ ~ x.closing
                 /\ (x.dw \o x.high) \o x.low # << >>
           /\ SlotTo(s) /\ SameName(s) /\ SameCount(s)
           /\ sock'[s].type = "HALFCLOSE_WRITE" /\ sock'[s].closing = x.closing
           /\ sock'[s].high = x.dw \o x.high /\ sock'[s].low = x.low /\ sock'[s].dw = << >>
           /\ \A i \in Id : net'[i] = net[i] \/ (net[i] = "rst" /\ net'[i] = "hup")
           /\ \A i \in Id : i # x.id => said'[i] = said[i]
           /\ Say(x.id, IF x.type = "HALFCLOSE_WRITE" THEN "-" ELSE "ERR")
           /\ fc' = fc /\ aborted' = aborted /\ wire' = wire
           /\ torn' = torn \cup (IF x.type = "RESERVE" THEN {s} ELSE {})
<1> DEFINE s == e.s
           x == sock[s]
           d == WithDirect(x)
           y == IF x.type = "HALFCLOSE_WRITE" THEN d
                ELSE [d EXCEPT !.type = "HALFCLOSE_WRITE", !.writing = FALSE]
           kind == IF x.type = "HALFCLOSE_WRITE" THEN "-" ELSE "ERR"
<1>1. /\ EventFrame(e) /\ lock[s] = None
      /\ \/ x.type = "HALFCLOSE_WRITE" /\ torn' = torn
         \/ /\ x.type \in {"CONNECTED", "PACCEPT", "RESERVE"} /\ ~ x.closing
            /\ d.high \o x.low # << >> /\ torn' = torn \cup Undone
      /\ Set(s, y, x.id, kind) /\ Reset(x.id)
      /\ wire' = wire
  BY DEF WriteStopped, WriteError, WriteFrame
<1>2. x.id \in Id /\ s \in Slot /\ x \in Sock
  BY <1>1, EventFacts
<1>d. /\ d \in Sock /\ d.id = x.id /\ d.closing = x.closing /\ d.tcp = x.tcp /\ d.tag = x.tag
      /\ d.sending = x.sending /\ d.high = x.dw \o x.high /\ d.low = x.low /\ d.dw = << >>
      /\ d.type = x.type
  BY <1>2, WithDirectFacts
<1>k. kind \in {"-", "ERR", "OPEN", "CLOSE", "DATA"}
  OBVIOUS
<1> HIDE DEF d, kind
<1>y. /\ y \in Sock /\ y.type = "HALFCLOSE_WRITE" /\ y.id = x.id /\ y.tcp = x.tcp
      /\ y.tag = x.tag /\ y.high = x.dw \o x.high /\ y.low = x.low /\ y.dw = << >>
      /\ y.closing = x.closing /\ y.sending = x.sending
  <2>1. CASE x.type = "HALFCLOSE_WRITE"
    BY <1>d, <2>1
  <2>2. CASE x.type # "HALFCLOSE_WRITE"
    <3>1. y = [d EXCEPT !.type = "HALFCLOSE_WRITE", !.writing = FALSE]
      BY <2>2
    <3>. QED BY <1>d, <3>1 DEF Sock, SocketType, Live
  <2>. QED BY <2>1, <2>2
<1> HIDE DEF y
<1>n. /\ net' \in [Id -> NetState]
      /\ \A i \in Id : i # x.id => net'[i] = net[i]
      /\ \A i \in Id : net'[i] = net[i] \/ (net[i] = "rst" /\ net'[i] = "hup")
  BY <1>1, <1>2, ResetFacts
<1>4. Undone = (IF x.type = "RESERVE" THEN {s} ELSE {})
  BY <1>1, <1>2, <1>y, UndoneSet DEF Set
<1>5. torn' = torn \cup (IF x.type = "RESERVE" THEN {s} ELSE {})
  BY <1>1, <1>4
<1>6. /\ Types' /\ IdInv' /\ SlotTo(s) /\ sock'[s] = y
      /\ \A i \in Id : i # x.id => said'[i] = said[i]
      /\ Say(x.id, kind) /\ fc' = fc /\ aborted' = aborted
  <2>1. /\ wire' \in [Id -> Seq(Write)] /\ torn' \subseteq Slot
        /\ \A i \in Id : wire'[i] = wire[i]
    BY <1>1, <1>2, <1>5 DEF Types
  <2>. QED BY <1>1, <1>y, <1>n, <1>k, <2>1, EventSet
<1>. QED BY <1>1, <1>5, <1>6, <1>d, <1>n, <1>y DEF SameName, SameCount, kind

\* What WriteMore, WriteFinish and WriteDone have in common.
LEMMA WriteSomeSlot ==
    ASSUME Types, IdInv, NEW e, NEW n, NEW k, WriteSome(e, n, k),
           NEW z, z = Written(WithDirect(sock[e.s]), n, k)
    PROVE  /\ EventFrame(e) /\ z \in Sock /\ z.type = sock[e.s].type /\ z.id = sock[e.s].id
           /\ z.tcp = sock[e.s].tcp /\ z.tag = sock[e.s].tag
           /\ z.dw = << >> /\ z.closing = sock[e.s].closing /\ z.sending = sock[e.s].sending
           /\ z.writing = sock[e.s].writing /\ z.reading = sock[e.s].reading
           /\ z.freed = sock[e.s].freed
           /\ sock[e.s].type \notin {"CONNECTING", "INVALID"}
           /\ wire' \in [Id -> Seq(Write)] /\ torn' = torn
           /\ \A i \in Id : i # sock[e.s].id => wire'[i] = wire[i]
<1> DEFINE s == e.s
           x == sock[s]
           d == WithDirect(x)
           all == (x.dw \o x.high) \o x.low
           y == Written(d, n, k)
<1>0. EventFrame(e)
  BY DEF WriteSome, WriteFrame
<1>2. x.id \in Id /\ s \in Slot /\ x \in Sock
  BY <1>0, EventFacts
<1>d. /\ d \in Sock /\ d.id = x.id /\ d.closing = x.closing /\ d.tcp = x.tcp /\ d.tag = x.tag
      /\ d.sending = x.sending /\ d.high = x.dw \o x.high /\ d.low = x.low /\ d.dw = << >>
      /\ d.type = x.type /\ d.writing = x.writing /\ d.reading = x.reading
      /\ d.freed = x.freed
  BY <1>2, WithDirectFacts
<1>1. /\ lock[s] = None /\ e.write /\ x.type \notin {"CONNECTING", "INVALID"}
      /\ n \in Nat /\ k \in 0 .. MsgSize - 1
      /\ \/ d.high \o d.low = << >>
         \/ /\ x.type \notin {"RESERVE", "HALFCLOSE_WRITE"}
            /\ net[x.id] \notin {"rst", "hup", "none"}
      /\ n <= Len(d.high \o d.low)
      /\ k > 0 => n < Len(d.high \o d.low) /\ (d.high \o d.low)[n + 1].at + k < MsgSize
      /\ wire' = [wire EXCEPT ![x.id] = @ \o Writes(d.high \o d.low, n, k)]
      /\ torn' = torn
  BY DEF WriteSome, WriteFrame
<1>a. d.high \o d.low = all
  BY <1>d
<1> HIDE DEF d
<1>3. all \in Seq(Node)
  <2>1. x.dw \in Seq(Node) /\ x.high \in Seq(Node) /\ x.low \in Seq(Node)
    BY <1>2 DEF Sock
  <2>. QED BY <2>1
<1> HIDE DEF all
<1>y. /\ y \in Sock /\ y.type = d.type /\ y.id = d.id /\ y.tcp = d.tcp /\ y.tag = d.tag
      /\ y.dw = d.dw /\ y.closing = d.closing /\ y.sending = d.sending
      /\ y.writing = d.writing /\ y.reading = d.reading
      /\ y.freed = d.freed
  BY <1>1, <1>d, WrittenFacts
<1> HIDE DEF y
<1>5. Writes(all, n, k) \in Seq(Write)
  <2>1. n <= Len(all) /\ (k > 0 => n < Len(all) /\ all[n + 1].at + k < MsgSize)
    BY <1>1, <1>a
  <2>. QED BY <1>1, <1>3, <2>1, WritesType
<1>6. wire[x.id] \o Writes(all, n, k) \in Seq(Write)
  <2>1. wire[x.id] \in Seq(Write)
    BY <1>2 DEF Types
  <2>. QED BY <1>5, <2>1
<1>7. /\ wire' \in [Id -> Seq(Write)]
      /\ wire'[x.id] = wire[x.id] \o Writes(all, n, k)
      /\ \A i \in Id : i # x.id => wire'[i] = wire[i]
  BY <1>1, <1>2, <1>6, <1>a DEF Types
<1>8. z = y
  BY DEF y, d
<1>. QED BY <1>0, <1>1, <1>7, <1>8, <1>d, <1>y

LEMMA WriteSomeFacts ==
    ASSUME Types, IdInv, NEW e, NEW n, NEW k, WriteSome(e, n, k)
    PROVE  LET s == e.s x == sock[s] d == WithDirect(x) all == (x.dw \o x.high) \o x.low IN
           /\ lock[s] = None /\ e.write
           /\ n \in Nat /\ k \in 0 .. MsgSize - 1
           /\ \/ all = << >>
              \/ x.type \in Live \ {"HALFCLOSE_WRITE"} /\ net[x.id] \notin {"rst", "hup", "none"}
           /\ all \in Seq(Node) /\ n <= Len(all)
           /\ k > 0 => n < Len(all) /\ all[n + 1].at + k < MsgSize
           /\ d \in Sock /\ d.high = x.dw \o x.high /\ d.low = x.low
           /\ wire'[x.id] = wire[x.id] \o Writes(all, n, k)
<1> DEFINE s == e.s
           x == sock[s]
           d == WithDirect(x)
           all == (x.dw \o x.high) \o x.low
<1>0. EventFrame(e)
  BY DEF WriteSome, WriteFrame
<1>2. x.id \in Id /\ s \in Slot /\ x \in Sock
  BY <1>0, EventFacts
<1>d. /\ d \in Sock /\ d.id = x.id /\ d.closing = x.closing /\ d.tcp = x.tcp /\ d.tag = x.tag
      /\ d.sending = x.sending /\ d.high = x.dw \o x.high /\ d.low = x.low /\ d.dw = << >>
      /\ d.type = x.type /\ d.writing = x.writing
  BY <1>2, WithDirectFacts
<1>1. /\ lock[s] = None /\ e.write /\ x.type \notin {"CONNECTING", "INVALID"}
      /\ n \in Nat /\ k \in 0 .. MsgSize - 1
      /\ \/ d.high \o d.low = << >>
         \/ /\ x.type \notin {"RESERVE", "HALFCLOSE_WRITE"}
            /\ net[x.id] \notin {"rst", "hup", "none"}
      /\ n <= Len(d.high \o d.low)
      /\ k > 0 => n < Len(d.high \o d.low) /\ (d.high \o d.low)[n + 1].at + k < MsgSize
      /\ wire' = [wire EXCEPT ![x.id] = @ \o Writes(d.high \o d.low, n, k)]
      /\ torn' = torn
  BY DEF WriteSome, WriteFrame
<1>a. d.high \o d.low = all
  BY <1>d
<1> HIDE DEF d
<1>3. all \in Seq(Node)
  <2>1. x.dw \in Seq(Node) /\ x.high \in Seq(Node) /\ x.low \in Seq(Node)
    BY <1>2 DEF Sock
  <2>. QED BY <2>1
<1> HIDE DEF all
<1>4. \/ all = << >>
      \/ x.type \in Live \ {"HALFCLOSE_WRITE"} /\ net[x.id] \notin {"rst", "hup", "none"}
  BY <1>1, <1>2, <1>a DEF Sock, SocketType
<1>7. wire'[x.id] = wire[x.id] \o Writes(all, n, k)
  BY <1>1, <1>2, <1>a DEF Types
<1>8. n <= Len(all) /\ (k > 0 => n < Len(all) /\ all[n + 1].at + k < MsgSize)
  BY <1>1, <1>a
<1>. QED BY <1>1, <1>3, <1>4, <1>7, <1>8, <1>d DEF d, all

LEMMA WriteMoreView ==
    ASSUME Types, IdInv, NEW e, NEW n, NEW k, WriteMore(e, n, k)
    PROVE  LET s == e.s x == sock[s] IN
           /\ Types' /\ IdInv' /\ WriteSome(e, n, k)
           /\ SlotTo(s) /\ sock'[s] = Written(WithDirect(x), n, k)
           /\ said' = said /\ fc' = fc /\ net' = net
           /\ aborted' # aborted => aborted' = "wb_size" /\ Written(WithDirect(x), n, k).freed
<1> DEFINE y == Written(WithDirect(sock[e.s]), n, k)
<1>1. /\ WriteSome(e, n, k) /\ net' = net
      /\ sock' = [sock EXCEPT ![e.s] = y] /\ said' = said /\ fc' = fc
      /\ aborted' # aborted => aborted' = "wb_size" /\ y.freed
  BY DEF WriteMore
<1>2. /\ EventFrame(e) /\ y \in Sock /\ y.id = sock[e.s].id /\ wire' \in [Id -> Seq(Write)]
      /\ torn' = torn /\ \A i \in Id : i # sock[e.s].id => wire'[i] = wire[i]
  BY <1>1, WriteSomeSlot
<1> HIDE DEF y
<1>3. net' \in [Id -> NetState] /\ torn' \subseteq Slot /\ \A i \in Id : net'[i] = net[i]
  BY <1>1, <1>2 DEF Types
<1>4. Say(sock[e.s].id, "-")
  BY <1>1 DEF Say
<1>5. Types' /\ IdInv' /\ SlotTo(e.s) /\ sock'[e.s] = y
  BY <1>1, <1>2, <1>3, <1>4, EventPut
<1>. QED BY <1>1, <1>5 DEF y

LEMMA WriteFinishView ==
    ASSUME Types, IdInv, NEW e, NEW n, NEW k, WriteFinish(e, n, k)
    PROVE  LET s == e.s x == sock[s] IN
           /\ Types' /\ IdInv' /\ WriteSome(e, n, k) /\ EventFrame(e)
           /\ x.closing /\ x.type \in Live
           /\ SlotTo(s) /\ SameName(s) /\ SameCount(s)
           /\ sock'[s].type = "INVALID" /\ sock'[s].closing
           /\ sock'[s].high = << >> /\ sock'[s].low = << >> /\ sock'[s].dw = << >>
           /\ \A i \in Id : i # x.id => net'[i] = net[i]
           /\ net'[x.id] = "none"
           /\ said' = said /\ fc' = fc /\ aborted' = aborted
<1> DEFINE x == sock[e.s]
           z == Written(WithDirect(x), n, k)
           y == Closed(z)
<1>1. /\ WriteSome(e, n, k) /\ net' = [net EXCEPT ![x.id] = "none"]
      /\ Set(e.s, y, x.id, "-") /\ x.closing /\ x.type # "RESERVE"
  BY DEF WriteFinish
<1>2. /\ EventFrame(e) /\ z \in Sock /\ z.id = x.id /\ wire' \in [Id -> Seq(Write)]
      /\ torn' = torn /\ \A i \in Id : i # x.id => wire'[i] = wire[i]
      /\ z.tcp = x.tcp /\ z.tag = x.tag /\ z.closing = x.closing /\ z.sending = x.sending
      /\ x.type \notin {"CONNECTING", "INVALID"}
  <2>1. WriteSome(e, n, k)
    BY <1>1
  <2>. QED BY <2>1, WriteSomeSlot
<1>3. x.id \in Id /\ x \in Sock
  BY <1>2, EventFacts
<1>4. x.type \in Live
  BY <1>1, <1>2, <1>3 DEF Sock, SocketType
<1> HIDE DEF z
<1>y. /\ y \in Sock /\ y.type = "INVALID" /\ y.id = x.id /\ y.tcp = x.tcp
      /\ y.tag = x.tag /\ y.high = << >> /\ y.low = << >> /\ y.dw = << >>
      /\ y.closing = x.closing /\ y.sending = x.sending
  BY <1>2, ClosedFacts
<1> HIDE DEF y
<1>n. /\ net' \in [Id -> NetState] /\ net'[x.id] = "none" /\ torn' \subseteq Slot
      /\ \A i \in Id : i # x.id => net'[i] = net[i]
  BY <1>1, <1>2, <1>3 DEF Types, NetState
<1>6. /\ Types' /\ IdInv' /\ SlotTo(e.s) /\ sock'[e.s] = y
      /\ Say(x.id, "-") /\ fc' = fc /\ aborted' = aborted
  BY <1>1, <1>2, <1>n, <1>y, EventSet
<1>7. said' = said
  BY <1>6, SayNothing
<1>. QED BY <1>1, <1>2, <1>4, <1>6, <1>7, <1>n, <1>y DEF SameName, SameCount

LEMMA WriteDoneView ==
    ASSUME Types, IdInv, NEW e, NEW n, NEW k, WriteDone(e, n, k)
    PROVE  LET s == e.s x == sock[s] IN
           /\ Types' /\ IdInv' /\ WriteSome(e, n, k) /\ EventFrame(e) /\ ~ x.closing
           /\ send_buffer_empty(Written(WithDirect(x), n, k))
           /\ SlotTo(s) /\ SameName(s) /\ SameCount(s) /\ SameType(s) /\ SameRead(s)
           /\ sock'[s].high = << >> /\ sock'[s].low = << >> /\ sock'[s].dw = << >>
           /\ said' = said /\ fc' = fc /\ aborted' = aborted /\ net' = net
<1> DEFINE x == sock[e.s]
           z == Written(WithDirect(x), n, k)
           y == [z EXCEPT !.writing = FALSE]
<1>1. /\ WriteSome(e, n, k) /\ net' = net
      /\ Set(e.s, y, x.id, "-") /\ ~ x.closing /\ send_buffer_empty(z)
  BY DEF WriteDone
<1>2. /\ EventFrame(e) /\ z \in Sock /\ z.id = x.id /\ wire' \in [Id -> Seq(Write)]
      /\ torn' = torn /\ \A i \in Id : i # x.id => wire'[i] = wire[i]
      /\ z.tcp = x.tcp /\ z.tag = x.tag /\ z.closing = x.closing /\ z.sending = x.sending
      /\ z.type = x.type /\ z.dw = << >> /\ z.reading = x.reading
  BY <1>1, WriteSomeSlot
<1> HIDE DEF z
<1>y. /\ y \in Sock /\ y.type = x.type /\ y.id = x.id /\ y.tcp = x.tcp
      /\ y.tag = x.tag /\ y.high = << >> /\ y.low = << >> /\ y.dw = << >>
      /\ y.reading = x.reading /\ y.closing = x.closing /\ y.sending = x.sending
  BY <1>1, <1>2 DEF Sock, send_buffer_empty
<1> HIDE DEF y
<1>n. /\ net' \in [Id -> NetState] /\ torn' \subseteq Slot
      /\ \A i \in Id : net'[i] = net[i]
  BY <1>1, <1>2 DEF Types
<1>6. /\ Types' /\ IdInv' /\ SlotTo(e.s) /\ sock'[e.s] = y
      /\ Say(x.id, "-") /\ fc' = fc /\ aborted' = aborted
  BY <1>1, <1>2, <1>n, <1>y, EventSet
<1>7. said' = said
  BY <1>6, SayNothing
<1>. QED BY <1>1, <1>2, <1>6, <1>7, <1>y DEF SameName, SameCount, SameType, SameRead, z

LEMMA CloseFdView ==
    ASSUME Types, IdInv, CloseFd
    PROVE  LET s == fc.s IN
           /\ Types' /\ IdInv'
           /\ fc.at = "lock" /\ lock[s] = None /\ fc.id \in Id /\ HASH_ID(fc.id) = s
           /\ SlotTo(s) /\ SameName(s) /\ SameCount(s)
           /\ sock'[s].type = "INVALID" /\ sock'[s].closing = sock[s].closing
           /\ sock'[s].high = << >> /\ sock'[s].low = << >> /\ sock'[s].dw = << >>
           /\ net'[fc.id] = "none" /\ \A i \in Id : i # fc.id => net'[i] = net[i]
           /\ \A i \in Id : i # fc.id => said'[i] = said[i]
           /\ \/ /\ fc.ctrl /\ fc.say # "-" /\ said' = said
                 /\ fc'.at = "clear" /\ fc'.s = fc.s /\ fc'.id = fc.id /\ fc'.say = fc.say
              \/ fc' = NoClose /\ Say(fc.id, fc.say)
           /\ UNCHANGED <<alloc_id, lock, call, pipe, sent, cmds, checkctrl, batch, aborted, stale,
                          torn, wire, peers>>
<1> DEFINE s == fc.s
           x == sock[s]
           y == Closed(x)
<1>1. /\ fc.at = "lock" /\ lock[s] = None
      /\ sock' = [sock EXCEPT ![s] = y]
      /\ net' = [net EXCEPT ![fc.id] = "none"]
      /\ \/ fc.ctrl /\ fc.say # "-" /\ said' = said /\ fc' = [fc EXCEPT !.at = "clear"]
         \/ fc' = NoClose /\ Say(fc.id, fc.say)
      /\ UNCHANGED <<alloc_id, lock, call, pipe, sent, cmds, checkctrl, batch, aborted, stale,
                     torn, wire, peers>>
  BY DEF CloseFd
<1>2. fc.id \in Id /\ fc.id <= alloc_id /\ HASH_ID(fc.id) = s
  BY <1>1 DEF IdInv
<1>3. s \in Slot /\ x \in Sock /\ fc \in Closing /\ fc.say \in {"-", "CLOSE", "ERR"}
  BY DEF Types, Closing
<1>y. /\ y \in Sock /\ y.type = "INVALID" /\ y.id = x.id /\ y.tcp = x.tcp
      /\ y.tag = x.tag /\ y.high = << >> /\ y.low = << >> /\ y.dw = << >>
      /\ y.closing = x.closing /\ y.sending = x.sending
  BY <1>3, ClosedFacts
<1> HIDE DEF y
<1>4. SlotTo(s) /\ sock'[s] = y
  BY <1>1, <1>3, <1>y, SlotSet
<1>n. /\ net' \in [Id -> NetState]
      /\ net'[fc.id] = "none" /\ \A i \in Id : i # fc.id => net'[i] = net[i]
  BY <1>1, <1>2 DEF Types, NetState
<1>f. /\ fc' \in Closing
      /\ \/ /\ fc.ctrl /\ fc.say # "-" /\ said' = said
            /\ fc'.at = "clear" /\ fc'.s = fc.s /\ fc'.id = fc.id /\ fc'.say = fc.say
         \/ fc' = NoClose /\ Say(fc.id, fc.say)
  BY <1>1, <1>3, NoCloseType DEF Closing
<1>s. said' \in [Id -> SUBSET Kind] /\ \A i \in Id : i # fc.id => said'[i] = said[i]
  <2>1. fc.say \in Kind \cup {"-", "DATA"} /\ said \in [Id -> SUBSET Kind]
    BY <1>3 DEF Kind, Types
  <2>. QED BY <1>2, <1>f, <2>1, SayFacts
<1>5. Types'
  BY <1>1, <1>4, <1>n, <1>f, <1>s DEF Types, SlotTo
<1>6. IdInv'
  <2>1. \A i \in Id : i > alloc_id => said'[i] = {} /\ wire[i] = << >> /\ net'[i] = "none"
    <3>1. \A i \in Id : i > alloc_id => i # fc.id
      BY <1>2, IdType DEF Types
    <3>. QED BY <1>n, <1>s, <3>1 DEF IdInv
  <2>2. \A t \in Slot : sock'[t].id = sock[t].id /\ (sock'[t].type \in Live => sock[t].type \in Live)
    BY <1>4, <1>y DEF SlotTo, Live
  <2>3. \A e \in batch : e.s \in Slot
    BY DEF Types, Ev
  <2>4. fc'.at # "no" => fc'.id \in Id /\ fc'.id <= alloc_id /\ HASH_ID(fc'.id) = fc'.s
    BY <1>2, <1>f DEF NoClose
  <2>5. fc'.at = "no" => fc' = NoClose
    BY <1>f
  <2>6. /\ alloc_id' = alloc_id /\ call' = call /\ pipe' = pipe /\ batch' = batch /\ wire' = wire
    BY <1>1
  <2>. QED BY <2>1, <2>2, <2>3, <2>4, <2>5, <2>6 DEF IdInv
<1>. QED BY <1>1, <1>2, <1>4, <1>5, <1>6, <1>f, <1>n, <1>s, <1>y DEF SameName, SameCount

LEMMA ClearView ==
    ASSUME Types, IdInv, clear_closed_event
    PROVE  /\ Types' /\ IdInv'
           /\ fc.at = "clear" /\ fc.id \in Id /\ HASH_ID(fc.id) = fc.s
           /\ batch' \subseteq batch
           /\ \A i \in Id : i # fc.id => said'[i] = said[i]
           /\ fc' = NoClose /\ Say(fc.id, fc.say)
           /\ UNCHANGED <<alloc_id, sock, lock, call, pipe, sent, cmds, checkctrl, aborted, stale,
                          torn, net, wire, peers>>
<1>1. /\ fc.at = "clear" /\ fc' = NoClose /\ Say(fc.id, fc.say) /\ batch' \subseteq batch
      /\ UNCHANGED <<alloc_id, sock, lock, call, pipe, sent, cmds, checkctrl, aborted, stale,
                     torn, net, wire, peers>>
  BY DEF clear_closed_event, outside
<1>2. fc.id \in Id /\ fc.id <= alloc_id /\ HASH_ID(fc.id) = fc.s
  BY <1>1 DEF IdInv
<1>s. said' \in [Id -> SUBSET Kind] /\ \A i \in Id : i # fc.id => said'[i] = said[i]
  <2>1. fc.say \in Kind \cup {"-", "DATA"} /\ said \in [Id -> SUBSET Kind]
    BY DEF Kind, Types, Closing
  <2>. QED BY <1>1, <1>2, <2>1, SayFacts
<1>5. Types'
  BY <1>1, <1>s, NoCloseType DEF Types
<1>6. IdInv'
  <2>1. \A i \in Id : i > alloc_id => said'[i] = {}
    <3>1. \A i \in Id : i > alloc_id => i # fc.id
      BY <1>2, IdType DEF Types
    <3>. QED BY <1>s, <3>1 DEF IdInv
  <2>6. /\ alloc_id' = alloc_id /\ call' = call /\ pipe' = pipe /\ wire' = wire /\ sock' = sock
        /\ net' = net /\ fc' = NoClose /\ NoClose.at = "no" /\ batch' \subseteq batch
    BY <1>1, NoCloseType
  <2>. QED BY <2>1, <2>6 DEF IdInv
<1>. QED BY <1>1, <1>2, <1>5, <1>6, <1>s

LEMMA WaitView ==
    ASSUME Types, IdInv, NEW D \in SUBSET Slot, Wait(D)
    PROVE  /\ Types' /\ IdInv'
           /\ fc = NoClose
           /\ \A e \in batch' : LET x == sock[e.s] IN
                /\ e.s \in Slot /\ e.id = x.id /\ x.id \in Id /\ x.type \in Live
                /\ e.read => x.reading
                /\ e.eof => net[x.id] \in {"rst", "hup"} \/ x.type = "HALFCLOSE_WRITE"
           /\ UNCHANGED <<alloc_id, sock, lock, call, pipe, said, sent, cmds, fc, aborted, stale,
                          torn, outside>>
<1>1. /\ fc = NoClose /\ checkctrl' = TRUE
      /\ batch' = {e \in {Event(s, s \in D) : s \in Slot} : e.read \/ e.write \/ e.error \/ e.eof}
      /\ UNCHANGED <<alloc_id, sock, lock, call, pipe, said, sent, cmds, fc, aborted, stale,
                     torn, outside>>
  BY DEF Wait
<1>2. ASSUME NEW s \in Slot, NEW e, e = Event(s, s \in D), e.read \/ e.write \/ e.error \/ e.eof
      PROVE  /\ e \in Ev /\ e.s = s /\ e.id = sock[s].id /\ sock[s].id \in Id
             /\ sock[s].type \in Live
             /\ e.read => sock[s].reading
             /\ e.eof => net[sock[s].id] \in {"rst", "hup"} \/ sock[s].type = "HALFCLOSE_WRITE"
  <2> DEFINE x == sock[s]
             n == IF x.id = 0 THEN "none" ELSE net[x.id]
             live == x.type \notin {"INVALID", "RESERVE"}
             rd == /\ live /\ x.reading
                   /\ n \in {"fin", "rst", "hup"} \/ (n = "up" /\ s \in D)
             wr == live /\ x.writing /\ n \notin {"none", "syn"}
             er == live /\ n = "rst"
             ef == live /\ (n \in {"rst", "hup"} \/ (n = "fin" /\ x.type = "HALFCLOSE_WRITE"))
  <2>1. e = [s |-> s, id |-> x.id, read |-> rd, write |-> wr, error |-> er, eof |-> ef]
    BY <1>2 DEF Event
  <2>2. x \in Sock
    BY DEF Types
  <2>3. rd \in BOOLEAN /\ wr \in BOOLEAN /\ er \in BOOLEAN /\ ef \in BOOLEAN
    BY <2>2 DEF Sock
  <2>4. (rd => live /\ x.reading) /\ (wr => live) /\ (er => live) /\ (ef => live)
    OBVIOUS
  <2>5. ef => n \in {"rst", "hup"} \/ x.type = "HALFCLOSE_WRITE"
    OBVIOUS
  <2> HIDE DEF rd, wr, er, ef, x
  <2>6. e.s = s /\ e.id = x.id /\ e.read = rd /\ e.write = wr /\ e.error = er /\ e.eof = ef
    BY <2>1
  <2>7. live
    BY <1>2, <2>3, <2>4, <2>6
  <2>8. x.type \in Live
    BY <2>2, <2>7 DEF Sock, SocketType
  <2>9. x.id \in Id /\ x.id # 0
    BY <2>8 DEF IdInv, x
  <2>10. e \in Ev
    BY <2>1, <2>3, <2>9, IdType DEF Ev
  <2>. QED BY <2>4, <2>5, <2>6, <2>8, <2>9, <2>10 DEF x
<1>3. \A e \in batch' : LET x == sock[e.s] IN
                /\ e \in Ev /\ e.s \in Slot /\ e.id = x.id /\ x.id \in Id /\ x.type \in Live
                /\ e.read => x.reading
                /\ e.eof => net[x.id] \in {"rst", "hup"} \/ x.type = "HALFCLOSE_WRITE"
                /\ e.read \/ e.write \/ e.error \/ e.eof
  BY <1>1, <1>2
<1>5. Types'
  BY <1>1, <1>3 DEF Types, outside
<1>6. IdInv'
  <2>1. \A e \in batch' : /\ e.id \in Id /\ e.id <= alloc_id /\ sock[e.s].id # 0
                          /\ e.read \/ e.write \/ e.error \/ e.eof
    BY <1>3, IdType DEF IdInv
  <2>6. /\ alloc_id' = alloc_id /\ call' = call /\ pipe' = pipe /\ wire' = wire /\ sock' = sock
        /\ net' = net /\ fc' = fc /\ said' = said
    BY <1>1 DEF outside
  <2>. QED BY <2>1, <2>6 DEF IdInv
<1>. QED BY <1>1, <1>3, <1>5, <1>6

LEMMA AcceptNewView ==
    ASSUME Types, IdInv, AcceptNew
    PROVE  LET s == HASH_ID(NextId) IN
           /\ Types' /\ IdInv'
           /\ NextId \in Id /\ NextId > alloc_id /\ alloc_id' = NextId
           /\ SlotTo(s) /\ sock[s].type = "INVALID" /\ sock'[s].type = "PACCEPT"
           /\ sock[s].high = << >> /\ sock[s].low = << >>
           /\ sock'[s].id = NextId /\ sock'[s].tcp /\ sock'[s].tag = ID_TAG16(NextId)
           /\ ~ sock'[s].closing /\ sock'[s].sending = 0 /\ ~ sock'[s].reading
           /\ sock'[s].high = << >> /\ sock'[s].low = << >> /\ sock'[s].dw = << >>
           /\ net'[NextId] = "up" /\ \A i \in Id : i # NextId => net'[i] = net[i]
           /\ said' \in [Id -> SUBSET Kind]
           /\ \A i \in Id : said'[i] = said[i] \cup IF i = NextId THEN {"ACCEPT"} ELSE {}
           /\ UNCHANGED <<lock, call, pipe, sent, cmds, batch, stale, torn, wire, fc, aborted>>
<1> DEFINE s == HASH_ID(NextId)
           x == sock[s]
           y == NewSocket(x, NextId, "PACCEPT", FALSE, FALSE)
<1>1. /\ NextId \in Id /\ alloc_id' = NextId /\ Fresh # {}
      /\ x.high = << >> /\ x.low = << >>
      /\ sock' = [sock EXCEPT ![s] = y] /\ Say(NextId, "ACCEPT")
      /\ net' = [net EXCEPT ![NextId] = "up"]
      /\ UNCHANGED <<lock, call, pipe, sent, cmds, batch, stale, torn, wire, fc, aborted>>
      /\ checkctrl' = FALSE /\ peers' \in 0 .. MaxPeer /\ fc = NoClose
  BY Bounds DEF AcceptNew, AcceptFrame, Set, send_buffer_empty, Types
<1>2. NextId > alloc_id /\ s \in Slot /\ NextId \in Nat /\ x.type = "INVALID"
  BY <1>1, NextIdFresh
<1>3. x \in Sock /\ ID_TAG16(NextId) \in Nat
  BY <1>1, <1>2, IdType DEF Types
<1>y. /\ y \in Sock /\ y.type = "PACCEPT" /\ y.id = NextId /\ y.tcp
      /\ y.tag = ID_TAG16(NextId) /\ y.high = x.high /\ y.low = x.low
      /\ y.dw = << >> /\ ~ y.closing /\ y.sending = 0 /\ ~ y.reading
  <2>1. << >> \in Seq(Node)
    BY EmptySeq
  <2>2. 0 \in 0 .. MaxRef
    BY Bounds
  <2>. QED BY <1>2, <1>3, <2>1, <2>2 DEF Sock, NewSocket, SocketType, Live
<1> HIDE DEF y, s
<1>5. SlotTo(s) /\ sock'[s] = y
  BY <1>1, <1>2, <1>y, SlotSet
<1>n. /\ net' \in [Id -> NetState] /\ net'[NextId] = "up"
      /\ \A i \in Id : i # NextId => net'[i] = net[i]
  BY <1>1 DEF Types, NetState
<1>s. /\ said' \in [Id -> SUBSET Kind]
      /\ \A i \in Id : said'[i] = said[i] \cup IF i = NextId THEN {"ACCEPT"} ELSE {}
  <2>1. said \in [Id -> SUBSET Kind]
    BY DEF Types
  <2>. QED BY <1>1, <2>1, SayPlain
<1>6. Types'
  BY <1>1, <1>2, <1>5, <1>n, <1>s DEF Types, SlotTo
<1>u. alloc_id' \in Nat /\ alloc_id' >= alloc_id
  BY <1>1, <1>2 DEF Types
<1>7. IdInv'
  <2>1. \A i \in Id : i > alloc_id' => said'[i] = {} /\ wire'[i] = << >> /\ net'[i] = "none"
    <3>1. \A i \in Id : i > alloc_id' => i # NextId /\ i > alloc_id
      BY <1>1, <1>2, <1>u, IdUp
    <3>2. wire' = wire
      BY <1>1
    <3>. QED BY <1>n, <1>s, <3>1, <3>2 DEF IdInv
  <2>2. /\ sock'[s].id <= alloc_id' /\ sock'[s].id \in Id /\ HASH_ID(sock'[s].id) = s
        /\ sock'[s].id # 0
    BY <1>1, <1>2, <1>5, <1>y, <1>u, IdType DEF s
  <2>3. \A t \in Slot :
           /\ sock'[t].id <= alloc_id'
           /\ sock'[t].id # 0 => sock'[t].id \in Id /\ HASH_ID(sock'[t].id) = t
           /\ sock'[t].type \in Live => sock'[t].id # 0
    BY <1>5, <1>u, <2>2, IdUp DEF SlotTo, IdInv
  <2>4. \A e \in batch : sock'[e.s].id # 0
    <3>1. \A e \in batch : e.s \in Slot /\ sock[e.s].id # 0
      BY DEF Types, Ev, IdInv
    <3>. QED BY <1>5, <2>2, <3>1 DEF SlotTo
  <2>5. call' = call /\ pipe' = pipe /\ batch' = batch /\ fc' = fc /\ fc = NoClose /\ fc.at = "no"
    BY <1>1, NoCloseType
  <2>6. \A e \in batch' : /\ e.id \in Id /\ e.id <= alloc_id' /\ sock'[e.s].id # 0
                          /\ e.read \/ e.write \/ e.error \/ e.eof
    BY <1>u, <2>4, <2>5, IdUp DEF IdInv
  <2>7. /\ \A v \in Worker : call'[v].at # "idle" => call'[v].id \in Id /\ call'[v].id <= alloc_id'
        /\ \A p \in DOMAIN pipe' : pipe'[p].id <= alloc_id'
    BY <1>u, <2>5, IdUp DEF IdInv
  <2>. QED BY <2>1, <2>3, <2>5, <2>6, <2>7 DEF IdInv
<1>. QED BY <1>1, <1>2, <1>5, <1>6, <1>7, <1>n, <1>s, <1>y DEF s

LEMMA AcceptNoneView ==
    ASSUME Types, IdInv, AcceptNone
    PROVE  /\ Types' /\ IdInv'
           /\ alloc_id' > alloc_id /\ alloc_id' \in Nat
           /\ UNCHANGED <<sock, lock, call, pipe, said, sent, cmds, batch, stale, torn, wire, net, fc>>
<1>1. /\ alloc_id' > alloc_id /\ alloc_id' \in Id
      /\ UNCHANGED <<sock, lock, call, pipe, said, sent, cmds, batch, stale, torn, wire, net, fc>>
      /\ checkctrl' = FALSE /\ peers' \in 0 .. MaxPeer
  BY Bounds DEF AcceptNone, AcceptFrame, Types
<1>2. alloc_id' \in Nat
  BY <1>1, IdType
<1>9. Types'
  BY <1>1, <1>2 DEF Types
<1>u. alloc_id' >= alloc_id
  BY <1>1, <1>2 DEF Types
<1>10. IdInv'
  BY <1>1, <1>2, <1>u, IdUp DEF IdInv
<1>. QED BY <1>1, <1>2, <1>9, <1>10

\* The peer or the network changes the state of a connection.
LEMMA NetworkView ==
    ASSUME Types, IdInv, NEW id \in Id, Network(id)
    PROVE  /\ Types' /\ IdInv'
           /\ \A i \in Id : i # id => net'[i] = net[i]
           /\ net[id] \notin {"none", "rst", "hup"} /\ net'[id] \in {"up", "fin", "rst"}
           /\ UNCHANGED <<alloc_id, sock, lock, call, pipe, said, sent, cmds, thread, wire>>
<1>1. /\ net[id] \in {"syn", "up", "fin"}
      /\ \E st \in {"up", "fin", "rst"} : net' = [net EXCEPT ![id] = st]
      /\ UNCHANGED <<alloc_id, sock, lock, call, pipe, said, sent, cmds, thread, wire>>
      /\ peers' \in 0 .. MaxPeer
  BY Bounds DEF Network, Resolve, HangUp, Types
<1>2. PICK st \in {"up", "fin", "rst"} : net' = [net EXCEPT ![id] = st]
  BY <1>1
<1>3. /\ net' \in [Id -> NetState] /\ net'[id] = st /\ \A i \in Id : i # id => net'[i] = net[i]
  BY <1>2 DEF Types, NetState
<1>4. Types'
  BY <1>1, <1>3 DEF Types, thread
<1>5. IdInv'
  <2>1. ~ (id > alloc_id)
    BY <1>1 DEF IdInv
  <2>2. \A i \in Id : i > alloc_id => net'[i] = "none"
    BY <1>3, <2>1 DEF IdInv
  <2>3. /\ alloc_id' = alloc_id /\ call' = call /\ pipe' = pipe /\ wire' = wire /\ sock' = sock
        /\ batch' = batch /\ fc' = fc /\ said' = said
    BY <1>1 DEF thread
  <2>. QED BY <2>2, <2>3 DEF IdInv
<1>. QED BY <1>1, <1>3, <1>4, <1>5
-----------------------------------------------------------------------------
(* The invariants                                                           *)

Open(id) == "OPEN" \in said[id]

\* The calls that have a message, and the requests that will be counted back.
Msg == {"lock", "write", "inc", "W", "D", "P"}
Data == {"D", "P"}

\* Nothing is asked of a socket whose owner was not told of it.
AskInv ==
    /\ \A w \in Worker : call[w].at \in Msg => Open(call[w].id)
    /\ \A p \in DOMAIN pipe :
         /\ pipe[p].c \in {"W", "D", "P"} => Open(pipe[p].id)
         /\ pipe[p].c \in {"K", "Q", "R", "S"} => said[pipe[p].id] \cap {"OPEN", "ACCEPT"} # {}
         /\ pipe[p].c = "Q" => "SHUTDOWN" \in said[pipe[p].id]
    /\ \A m \in DOMAIN sent : Open(sent[m].id)

\* A slot that is reserved stays so until the request to open it is executed:
\* before its id is stored, and after.
Pending(s) == s \notin torn =>
    /\ \A w \in Worker : call[w].at = "O" /\ HASH_ID(call[w].id) = s =>
         /\ sock[s].type = "RESERVE" /\ sock[s].id < call[w].id
         /\ said[call[w].id] = {} /\ net[call[w].id] = "none" /\ wire[call[w].id] = << >>
         /\ \A v \in Worker : call[v].at = "O" /\ HASH_ID(call[v].id) = s => v = w
         /\ \A p \in DOMAIN pipe : pipe[p].c = "O" => HASH_ID(pipe[p].id) # s
         /\ \A e \in batch : e.s = s => e.id # call[w].id
         /\ fc.id # call[w].id
    /\ \A p \in DOMAIN pipe : pipe[p].c = "O" /\ HASH_ID(pipe[p].id) = s =>
         /\ sock[s].type = "RESERVE" /\ sock[s].id = pipe[p].id /\ ~ sock[s].tcp
         /\ said[pipe[p].id] \cap {"OPEN", "ACCEPT", "CLOSE"} = {} /\ wire[pipe[p].id] = << >>
         /\ \A q \in DOMAIN pipe : pipe[q].c = "O" /\ HASH_ID(pipe[q].id) = s => q = p
         /\ \A e \in batch : e.s = s => e.id # pipe[p].id
         /\ fc.id # pipe[p].id

\* A slot, its connection and what its owner was told go together.
Coherent(s) == s \notin torn =>
    /\ sock[s].type \in Live => sock[s].tcp
    /\ sock[s].type \notin Live /\ sock[s].id # 0 => net[sock[s].id] = "none"
    /\ fc.at = "lock" /\ fc.s = s => sock[s].type \in Live /\ fc.id = sock[s].id
    /\ sock[s].type \in {"CONNECTED", "HALFCLOSE_WRITE"} => Open(sock[s].id)
    /\ sock[s].type = "PACCEPT" => ~ Open(sock[s].id) /\ ~ sock[s].reading
    /\ sock[s].closing => sock[s].type \in {"HALFCLOSE_READ", "INVALID", "RESERVE"}

\* The buffers of a slot.
Nodes(x) == {x.dw[i] : i \in DOMAIN x.dw} \cup {x.high[i] : i \in DOMAIN x.high}
            \cup {x.low[i] : i \in DOMAIN x.low}

\* The buffers of a socket were sent to it.
Addressed(s) == s \notin torn /\ sock[s].type \in Live =>
    \A b \in Nodes(sock[s]) : sent[b.m].id = sock[s].id

\* The messages whose requests will decrement the counter of id.
Out(id) == {m \in DOMAIN sent :
    \/ \E w \in Worker : call[w].at \in Data /\ call[w].id = id /\ call[w].m = m
    \/ \E p \in DOMAIN pipe : pipe[p].c \in Data /\ pipe[p].id = id /\ pipe[p].m = m}

\* The counter of a slot covers them.
Covered(s) == s \notin torn /\ sock[s].tcp =>
    /\ sock[s].id # 0 /\ sock[s].tag = ID_TAG16(sock[s].id)
    /\ Cardinality(Out(sock[s].id)) <= sock[s].sending

\* The direct-write lock and its holder; nobody else writes meanwhile.
LockInv ==
    /\ \A w \in Worker : call[w].at = "write" => lock[HASH_ID(call[w].id)] = w
    /\ \A s \in Slot : lock[s] # None =>
         /\ call[lock[s]].at = "write" /\ HASH_ID(call[lock[s]].id) = s
         /\ sock[s].id # 0
         /\ s \notin torn => /\ sock[s].id = call[lock[s]].id /\ sock[s].dw = << >>
                             /\ sock[s].type \in {"CONNECTED", "HALFCLOSE_READ"}

\* A message is on its way to the queues of its socket.
Before(m) == \/ \E w \in Worker : call[w].at \in Msg \ {"W"} /\ call[w].m = m
             \/ \E p \in DOMAIN pipe : pipe[p].c \in Data /\ pipe[p].m = m

\* The message of a call is the last one of its thread, and its own.
CallInv ==
    \A w \in Worker : call[w].at \in Msg =>
      /\ call[w].m \in DOMAIN sent /\ sent[call[w].m].w = w /\ sent[call[w].m].id = call[w].id
      /\ sent[call[w].m].low => call[w].at \in {"inc", "P"}
      /\ call[w].at = "P" => sent[call[w].m].low
      /\ \A n \in DOMAIN sent : sent[n].w = w => n <= call[w].m
      /\ call[w].at # "W" => \A p \in DOMAIN pipe : pipe[p].c \in Data => pipe[p].m # call[w].m

\* The requests in the pipe: each message once, those of a thread in order.
PipeInv ==
    \A p \in DOMAIN pipe : pipe[p].c \in Data =>
      /\ pipe[p].m \in DOMAIN sent /\ sent[pipe[p].m].id = pipe[p].id
      /\ sent[pipe[p].m].low <=> pipe[p].c = "P"
      /\ \A q \in DOMAIN pipe : pipe[q].c \in Data /\ pipe[q].m = pipe[p].m => q = p
      /\ \A q \in DOMAIN pipe :
           q < p /\ pipe[p].c = "D" /\ pipe[q].c = "D" /\ sent[pipe[q].m].w = sent[pipe[p].m].w
           => pipe[q].m < pipe[p].m

\* The buffers of the slots: accepted messages that are no longer on the way;
\* no buffer of the low list was sent in part.
ListInv ==
    \A s \in Slot :
      /\ \A b \in Nodes(sock[s]) : b.m \in DOMAIN sent /\ ~ Before(b.m)
      /\ \A i \in DOMAIN sock[s].low : sock[s].low[i].at = 0 /\ sent[sock[s].low[i].m].low
      /\ Len(sock[s].dw) <= 1

-----------------------------------------------------------------------------
(* The steps by the slot they are about                                     *)

WorkerAt(s, w) ==
    \/ ConnectNew(w) /\ s = HASH_ID(NextId)
    \/ \E cmd \in {"K", "Q", "R", "S"}, id \in Id : Command(w, cmd, id) /\ s = HASH_ID(id)
    \/ \E id \in Id, low \in BOOLEAN : Send(w, id, low) /\ s = HASH_ID(id)
    \/ /\ s = HASH_ID(call[w].id)
       /\ \/ Request(w) \/ Locked(w) \/ NotLocked(w) \/ Counted(w) \/ NotCounted(w) \/ Push(w)
          \/ \E k \in 0 .. MsgSize : DirectWrite(w, k)

OtherAt(s) ==
    \/ CloseFd /\ s = fc.s
    \/ clear_closed_event /\ s = fc.s
    \/ AcceptNew /\ s = HASH_ID(NextId)
    \/ \E id \in Id : Network(id) /\ s = HASH_ID(id)

At(s) ==
    \/ \E w \in Worker : WorkerAt(s, w)
    \/ \E c : CtrlCase(c) /\ s = HASH_ID(c.id)
    \/ \E e \in batch : EventCase(e) /\ s = e.s
    \/ OtherAt(s)

Still == AcceptNone \/ \E w \in Worker : ConnectFull(w)

LEMMA CallSlot ==
    ASSUME Types, IdInv, NEW w \in Worker, call[w].at # "idle"
    PROVE  HASH_ID(call[w].id) \in Slot /\ call[w].id \in Id
BY IdType DEF IdInv, Types

LEMMA NextCases ==
    ASSUME Types, IdInv, Next
    PROVE  (\E s \in Slot : At(s)) \/ Still \/ \E D \in SUBSET Slot : Wait(D)
<1>0. aborted = "no"
  BY DEF Next
<1>w. ASSUME NEW w \in Worker, NEW s \in Slot, WorkerAt(s, w)
      PROVE  \E t \in Slot : At(t)
  BY <1>w DEF At
<1>c. ASSUME NEW w \in Worker, call[w].at # "idle",
             \/ Request(w) \/ Locked(w) \/ NotLocked(w) \/ Counted(w) \/ NotCounted(w) \/ Push(w)
             \/ \E k \in 0 .. MsgSize : DirectWrite(w, k)
      PROVE  \E t \in Slot : At(t)
  <2>1. HASH_ID(call[w].id) \in Slot
    BY <1>c, CallSlot
  <2>2. WorkerAt(HASH_ID(call[w].id), w)
    BY <1>c DEF WorkerAt
  <2>. QED BY <1>w, <2>1, <2>2
<1>1. ASSUME NEW w \in Worker, Connect(w)
      PROVE  (\E s \in Slot : At(s)) \/ Still
  <2>1. CASE Fresh # {}
    <3>1. HASH_ID(NextId) \in Slot
      BY <2>1, NextIdFresh
    <3>2. WorkerAt(HASH_ID(NextId), w)
      BY <1>1, <2>1 DEF WorkerAt, ConnectNew
    <3>. QED BY <1>w, <3>1, <3>2
  <2>2. CASE Fresh = {}
    BY <1>1, <2>2 DEF Still, ConnectFull
  <2>. QED BY <2>1, <2>2
<1>2. ASSUME NEW w \in Worker, Call(w)
      PROVE  (\E s \in Slot : At(s)) \/ Still
  <2>1. ASSUME NEW id \in Id, NEW cmd \in {"K", "Q", "R", "S"}, Command(w, cmd, id)
        PROVE  \E s \in Slot : At(s)
    <3>1. HASH_ID(id) \in Slot /\ WorkerAt(HASH_ID(id), w)
      BY <2>1, IdType DEF WorkerAt
    <3>. QED BY <1>w, <3>1
  <2>2. ASSUME NEW id \in Id, NEW low \in BOOLEAN, Send(w, id, low)
        PROVE  \E s \in Slot : At(s)
    <3>1. HASH_ID(id) \in Slot /\ WorkerAt(HASH_ID(id), w)
      BY <2>2, IdType DEF WorkerAt
    <3>. QED BY <1>w, <3>1
  <2>. QED BY <1>1, <1>2, <2>1, <2>2 DEF Call
<1>3. ASSUME NEW w \in Worker, Continue(w)
      PROVE  \E s \in Slot : At(s)
  <2>1. CASE Request(w)
    <3>1. call[w].at # "idle"
      BY <2>1 DEF Request
    <3>. QED BY <1>c, <2>1, <3>1
  <2>2. CASE Lock(w)
    <3>1. call[w].at # "idle"
      BY <2>2 DEF Lock
    <3>2. Locked(w) \/ NotLocked(w)
      BY <2>2 DEF Locked, NotLocked, Lock
    <3>. QED BY <1>c, <3>1, <3>2
  <2>3. CASE \E k \in 0 .. MsgSize : DirectWrite(w, k)
    <3>1. call[w].at # "idle"
      BY <2>3 DEF DirectWrite
    <3>. QED BY <1>c, <2>3, <3>1
  <2>4. CASE inc_sending_ref(w)
    <3>1. call[w].at # "idle"
      BY <2>4 DEF inc_sending_ref
    <3>2. Counted(w) \/ NotCounted(w)
      BY <2>4 DEF Counted, NotCounted, inc_sending_ref
    <3>. QED BY <1>c, <3>1, <3>2
  <2>5. CASE Push(w)
    <3>1. call[w].at # "idle"
      BY <2>5 DEF Push
    <3>. QED BY <1>c, <2>5, <3>1
  <2>. QED BY <1>3, <2>1, <2>2, <2>3, <2>4, <2>5 DEF Continue
<1>4. CASE Ctrl
  <2>1. CtrlCase(pipe[1]) /\ pipe # << >>
    BY <1>0, <1>4, CtrlCases DEF Ctrl
  <2>2. HASH_ID(pipe[1].id) \in Slot
    <3>1. 1 \in DOMAIN pipe
      BY <2>1 DEF Types
    <3>. QED BY <3>1, PipeType
  <2>. QED BY <2>1, <2>2 DEF At
<1>5. CASE CloseFd \/ clear_closed_event
  <2>1. fc.s \in Slot
    BY DEF Types, Closing
  <2>. QED BY <1>5, <2>1 DEF At, OtherAt
<1>6. ASSUME NEW e \in batch, Handle(e)
      PROVE  \E s \in Slot : At(s)
  <2>1. EventCase(e)
    BY <1>0, <1>6, HandleCases
  <2>2. e.s \in Slot
    BY DEF Types, Ev
  <2>. QED BY <2>1, <2>2 DEF At
<1>7. CASE report_accept
  <2>1. AcceptNew \/ AcceptNone
    BY <1>0, <1>7, AcceptCases
  <2>2. CASE AcceptNew
    <3>1. HASH_ID(NextId) \in Slot
      BY <2>2, IdType DEF AcceptNew
    <3>. QED BY <2>2, <3>1 DEF At, OtherAt
  <2>. QED BY <2>1, <2>2 DEF Still
<1>8. ASSUME NEW id \in Id, Network(id)
      PROVE  \E s \in Slot : At(s)
  <2>1. HASH_ID(id) \in Slot
    BY IdType
  <2>. QED BY <1>8, <2>1 DEF At, OtherAt
<1>. QED BY <1>2, <1>3, <1>4, <1>5, <1>6, <1>7, <1>8 DEF Next, SocketThread

\* The commands in the pipe about slot t are the same, perhaps one place ahead.
PipeApart(t) ==
    \E d \in {0, 1} :
      /\ \A p \in DOMAIN pipe' :
           HASH_ID(pipe'[p].id) = t => p + d \in DOMAIN pipe /\ pipe'[p] = pipe[p + d]
      /\ \A p \in DOMAIN pipe :
           HASH_ID(pipe[p].id) = t => p - d \in DOMAIN pipe' /\ pipe'[p - d] = pipe[p]

\* Nothing of slot t changes.
Apart(t) ==
    /\ sock'[t] = sock[t] /\ lock'[t] = lock[t]
    /\ \A i \in Id : HASH_ID(i) = t => said'[i] = said[i] /\ net'[i] = net[i] /\ wire'[i] = wire[i]
    /\ \A w \in Worker :
         \/ call'[w] = call[w]
         \/ /\ call[w].at = "idle" \/ HASH_ID(call[w].id) # t
            /\ call'[w].at = "idle" \/ HASH_ID(call'[w].id) # t
    /\ PipeApart(t)
    /\ \A e \in batch' : e.s = t => e \in batch
    /\ \/ fc' = fc
       \/ /\ fc.at = "no" \/ fc.s # t
          /\ fc'.at = "no" \/ fc'.s # t
    /\ t \in torn' => t \in torn
    /\ \A m \in DOMAIN sent' : m \in DOMAIN sent \/ HASH_ID(sent'[m].id) # t

\* What only grows.
Grow ==
    /\ \A i \in Id : said[i] \subseteq said'[i]
    /\ torn \subseteq torn' /\ stale \subseteq stale'
    /\ \A m \in DOMAIN sent : m \in DOMAIN sent' /\ sent'[m] = sent[m]
    /\ \A s \in Slot : sock[s].id # 0 => sock'[s].id # 0

LEMMA SamePipe == ASSUME Types, pipe' = pipe, NEW t PROVE PipeApart(t)
<1>1. \A p \in DOMAIN pipe : p + 0 = p /\ p - 0 = p
  BY DEF Types
<1>. QED BY <1>1 DEF PipeApart

LEMMA MorePipe ==
    ASSUME Types, NEW c \in Cmd, pipe' = Append(pipe, c), NEW t, HASH_ID(c.id) # t
    PROVE  PipeApart(t)
<1>1. /\ DOMAIN pipe = 1 .. Len(pipe) /\ DOMAIN pipe' = 1 .. Len(pipe) + 1 /\ Len(pipe) \in Nat
      /\ \A p \in DOMAIN pipe : pipe'[p] = pipe[p]
      /\ pipe'[Len(pipe) + 1] = c
  BY AppendPipe
<1>2. \A p \in DOMAIN pipe' : HASH_ID(pipe'[p].id) = t => p \in DOMAIN pipe /\ pipe'[p] = pipe[p]
  BY <1>1
<1>3. \A p \in DOMAIN pipe : p \in DOMAIN pipe'
  BY <1>1
<1>4. (\A p \in DOMAIN pipe : p - 0 = p) /\ (\A p \in DOMAIN pipe' : p + 0 = p)
  BY <1>1
<1>. QED BY <1>1, <1>2, <1>3, <1>4 DEF PipeApart

LEMMA LessPipe ==
    ASSUME Types, IdInv, NEW c, CtrlFrame(c), NEW t, HASH_ID(c.id) # t
    PROVE  PipeApart(t)
<1>1. /\ c = pipe[1]
      /\ \A p \in DOMAIN pipe' : p + 1 \in DOMAIN pipe /\ pipe'[p] = pipe[p + 1]
      /\ \A p \in DOMAIN pipe : p = 1 \/ (p - 1 \in DOMAIN pipe' /\ pipe'[p - 1] = pipe[p])
  BY CtrlFacts
<1>2. \A p \in DOMAIN pipe : HASH_ID(pipe[p].id) = t => p # 1
  BY <1>1
<1>. QED BY <1>1, <1>2 DEF PipeApart

\* A command of the pipe is about the slot of its id.
LEMMA CtrlApart ==
    ASSUME Types, IdInv, NEW c, CtrlFrame(c),
           \A t \in Slot : t # HASH_ID(c.id) => sock'[t] = sock[t],
           sock'[HASH_ID(c.id)].id \in {sock[HASH_ID(c.id)].id, c.id},
           \A i \in Id : said[i] \subseteq said'[i] /\ (i # c.id => said'[i] = said[i]),
           \A i \in Id : i # c.id => net'[i] = net[i],
           fc' = fc \/ fc'.s = HASH_ID(c.id),
           torn \subseteq torn', torn' \subseteq torn \cup {HASH_ID(c.id)}
    PROVE  Grow /\ \A t \in Slot : t # HASH_ID(c.id) => Apart(t)
<1>1. /\ HASH_ID(c.id) \in Slot /\ c.id \in Id /\ c.id # 0 /\ stale \subseteq stale'
      /\ fc.at = "no"
      /\ lock' = lock /\ call' = call /\ sent' = sent /\ batch' = batch /\ wire' = wire
  BY CtrlFacts, IdType
<1>2. Grow
  BY <1>1 DEF Grow
<1>3. ASSUME NEW t \in Slot, t # HASH_ID(c.id)
      PROVE  Apart(t)
  <2>1. PipeApart(t)
    BY <1>3, LessPipe
  <2>2. \A i \in Id : HASH_ID(i) = t => i # c.id
    BY <1>3
  <2>. QED BY <1>1, <1>3, <2>1, <2>2 DEF Apart
<1>. QED BY <1>2, <1>3

LEMMA EventApart ==
    ASSUME Types, IdInv, NEW e, EventFrame(e),
           \A t \in Slot : t # e.s => sock'[t] = sock[t],
           sock'[e.s].id = sock[e.s].id,
           \A i \in Id : said[i] \subseteq said'[i] /\ (i # sock[e.s].id => said'[i] = said[i]),
           \A i \in Id : i # sock[e.s].id => net'[i] = net[i] /\ wire'[i] = wire[i],
           fc' = fc \/ fc'.s = e.s,
           torn \subseteq torn', torn' \subseteq torn \cup {e.s}
    PROVE  Grow /\ \A t \in Slot : t # e.s => Apart(t)
<1>1. /\ e.s \in Slot /\ HASH_ID(sock[e.s].id) = e.s /\ stale \subseteq stale'
      /\ fc.at = "no"
      /\ \A f \in batch' : f \in batch \/ f.s = e.s
      /\ lock' = lock /\ call' = call /\ sent' = sent /\ pipe' = pipe
  BY EventFacts
<1>2. Grow
  BY <1>1 DEF Grow
<1>3. ASSUME NEW t \in Slot, t # e.s
      PROVE  Apart(t)
  <2>1. PipeApart(t)
    BY <1>1, SamePipe
  <2>2. \A i \in Id : HASH_ID(i) = t => i # sock[e.s].id
    BY <1>1, <1>3
  <2>. QED BY <1>1, <1>3, <2>1, <2>2 DEF Apart
<1>. QED BY <1>2, <1>3

\* A step of worker w about slot s.
LEMMA WorkerApart ==
    ASSUME Types, IdInv, NEW s \in Slot, NEW w \in Worker,
           call[w].at = "idle" \/ HASH_ID(call[w].id) = s,
           call'[w].at = "idle" \/ HASH_ID(call'[w].id) = s,
           \A v \in Worker : v # w => call'[v] = call[v],
           \A t \in Slot : t # s => sock'[t] = sock[t] /\ lock'[t] = lock[t],
           sock[s].id # 0 => sock'[s].id # 0,
           \A i \in Id : said[i] \subseteq said'[i] /\ (HASH_ID(i) # s => said'[i] = said[i]),
           \A i \in Id : HASH_ID(i) # s => wire'[i] = wire[i],
           \A t \in Slot : t # s => PipeApart(t),
           \A m \in DOMAIN sent : m \in DOMAIN sent' /\ sent'[m] = sent[m],
           \A m \in DOMAIN sent' : m \in DOMAIN sent \/ HASH_ID(sent'[m].id) = s,
           net' = net, batch' = batch, fc' = fc, torn' = torn, stale' = stale
    PROVE  Grow /\ \A t \in Slot : t # s => Apart(t)
<1>1. Grow
  BY DEF Grow
<1>2. ASSUME NEW t \in Slot, t # s
      PROVE  Apart(t)
  <2>1. \A i \in Id : HASH_ID(i) = t => HASH_ID(i) # s
    BY <1>2
  <2>. QED BY <1>2, <2>1 DEF Apart
<1>. QED BY <1>1, <1>2

LEMMA WorkerUp ==
    ASSUME Types, IdInv, LockInv, NEW s \in Slot, NEW w \in Worker, WorkerAt(s, w)
    PROVE  Types' /\ IdInv' /\ Grow /\ \A t \in Slot : t # s => Apart(t)
<1> DEFINE G == Types' /\ IdInv' /\ Grow /\ \A t \in Slot : t # s => Apart(t)
<1>a. ASSUME /\ call[w].at = "idle" \/ HASH_ID(call[w].id) = s
             /\ call'[w].at = "idle" \/ HASH_ID(call'[w].id) = s
             /\ \A v \in Worker : v # w => call'[v] = call[v]
             /\ \A t \in Slot : t # s => sock'[t] = sock[t]
             /\ sock[s].id # 0 => sock'[s].id # 0
             /\ pipe' = pipe \/ \E c \in Cmd : pipe' = Append(pipe, c) /\ HASH_ID(c.id) = s
             /\ net' = net /\ batch' = batch /\ fc' = fc /\ torn' = torn /\ stale' = stale,
             \A t \in Slot : t # s => lock'[t] = lock[t],
             \A i \in Id : said[i] \subseteq said'[i] /\ (HASH_ID(i) # s => said'[i] = said[i]),
             \A i \in Id : HASH_ID(i) # s => wire'[i] = wire[i],
             \A m \in DOMAIN sent : m \in DOMAIN sent' /\ sent'[m] = sent[m],
             \A m \in DOMAIN sent' : m \in DOMAIN sent \/ HASH_ID(sent'[m].id) = s,
             Types', IdInv'
      PROVE  G
  <2>1. \A t \in Slot : t # s => PipeApart(t)
    BY <1>a, SamePipe, MorePipe
  <2>. QED BY <1>a, <2>1, WorkerApart
<1> HIDE DEF G
<1>k. /\ \A i \in Id : said[i] \subseteq said[i]
      /\ NoCall.at = "idle"
  BY DEF NoCall
<1>1. ASSUME ConnectNew(w) /\ s = HASH_ID(NextId)
      PROVE  G
  <2> DEFINE c == [at |-> "O", id |-> NextId, m |-> 0]
  <2>1. /\ Types' /\ IdInv' /\ SlotTo(s) /\ SameName(s) /\ CallTo(w, c) /\ call[w].at = "idle"
        /\ UNCHANGED <<lock, pipe, said, sent, cmds, thread, outside>>
    BY <1>1, ConnectNewView
  <2>2. call'[w] = c /\ c.id = NextId
    BY <2>1 DEF CallTo
  <2>z. /\ call[w].at = "idle" \/ HASH_ID(call[w].id) = s
        /\ call'[w].at = "idle" \/ HASH_ID(call'[w].id) = s
        /\ \A v \in Worker : v # w => call'[v] = call[v]
        /\ \A t \in Slot : t # s => sock'[t] = sock[t]
        /\ sock[s].id # 0 => sock'[s].id # 0
        /\ pipe' = pipe \/ \E cc \in Cmd : pipe' = Append(pipe, cc) /\ HASH_ID(cc.id) = s
        /\ net' = net /\ batch' = batch /\ fc' = fc /\ torn' = torn /\ stale' = stale
    BY <1>1, <2>1, <2>2 DEF SlotTo, SameName, CallTo, thread, outside
  <2>y. /\ \A t \in Slot : t # s => lock'[t] = lock[t]
        /\ \A i \in Id : said[i] \subseteq said'[i] /\ (HASH_ID(i) # s => said'[i] = said[i])
        /\ \A i \in Id : HASH_ID(i) # s => wire'[i] = wire[i]
        /\ \A m \in DOMAIN sent : m \in DOMAIN sent' /\ sent'[m] = sent[m]
        /\ \A m \in DOMAIN sent' : m \in DOMAIN sent \/ HASH_ID(sent'[m].id) = s
    BY <1>1, <2>1, <2>2 DEF SlotTo, SameName, CallTo, thread, outside
  <2>. QED BY <1>a, <2>z, <2>y, <1>1, <2>1, <2>2
<1>2. ASSUME NEW cmd \in {"K", "Q", "R", "S"}, NEW id \in Id, Command(w, cmd, id), s = HASH_ID(id)
      PROVE  G
  <2> DEFINE c == [c |-> cmd, id |-> id, m |-> 0]
  <2>1. /\ Types' /\ IdInv' /\ pipe' = Append(pipe, c) /\ c \in Cmd
        /\ \A i \in Id : said'[i] = said[i] \cup IF i = id /\ cmd = "Q" THEN {"SHUTDOWN"} ELSE {}
        /\ UNCHANGED <<alloc_id, sock, lock, call, sent, thread, outside>>
    BY <1>2, CommandView
  <2>2. c.id = id /\ call[w].at = "idle"
    BY <1>2 DEF Command, NoCall
  <2>3. \A i \in Id : said[i] \subseteq said'[i] /\ (HASH_ID(i) # s => said'[i] = said[i])
    BY <1>2, <2>1
  <2>z. /\ call[w].at = "idle" \/ HASH_ID(call[w].id) = s
        /\ call'[w].at = "idle" \/ HASH_ID(call'[w].id) = s
        /\ \A v \in Worker : v # w => call'[v] = call[v]
        /\ \A t \in Slot : t # s => sock'[t] = sock[t]
        /\ sock[s].id # 0 => sock'[s].id # 0
        /\ pipe' = pipe \/ \E cc \in Cmd : pipe' = Append(pipe, cc) /\ HASH_ID(cc.id) = s
        /\ net' = net /\ batch' = batch /\ fc' = fc /\ torn' = torn /\ stale' = stale
    BY <1>2, <2>1, <2>2, <2>3 DEF thread, outside
  <2>y. /\ \A t \in Slot : t # s => lock'[t] = lock[t]
        /\ \A i \in Id : said[i] \subseteq said'[i] /\ (HASH_ID(i) # s => said'[i] = said[i])
        /\ \A i \in Id : HASH_ID(i) # s => wire'[i] = wire[i]
        /\ \A m \in DOMAIN sent : m \in DOMAIN sent' /\ sent'[m] = sent[m]
        /\ \A m \in DOMAIN sent' : m \in DOMAIN sent \/ HASH_ID(sent'[m].id) = s
    BY <1>2, <2>1, <2>2, <2>3 DEF thread, outside
  <2>. QED BY <1>a, <2>z, <2>y, <1>2, <2>1, <2>2, <2>3
<1>3. ASSUME NEW id \in Id, NEW low \in BOOLEAN, Send(w, id, low), s = HASH_ID(id)
      PROVE  G
  <2>1. /\ Types' /\ IdInv' /\ call[w].at = "idle"
        /\ DOMAIN sent' = DOMAIN sent \cup {Len(sent) + 1}
        /\ \A n \in DOMAIN sent : sent'[n] = sent[n]
        /\ sent'[Len(sent) + 1] = [w |-> w, id |-> id, low |-> low]
        /\ \E at \in {"lock", "inc"} : CallTo(w, [at |-> at, id |-> id, m |-> Len(sent) + 1])
        /\ UNCHANGED <<alloc_id, sock, lock, pipe, said, cmds, thread, outside>>
    BY <1>3, SendView
  <2>2. call'[w].id = id /\ \A v \in Worker : v # w => call'[v] = call[v]
    BY <2>1 DEF CallTo
  <2>3. /\ \A m \in DOMAIN sent : m \in DOMAIN sent' /\ sent'[m] = sent[m]
        /\ \A m \in DOMAIN sent' : m \in DOMAIN sent \/ HASH_ID(sent'[m].id) = s
    BY <1>3, <2>1
  <2>z. /\ call[w].at = "idle" \/ HASH_ID(call[w].id) = s
        /\ call'[w].at = "idle" \/ HASH_ID(call'[w].id) = s
        /\ \A v \in Worker : v # w => call'[v] = call[v]
        /\ \A t \in Slot : t # s => sock'[t] = sock[t]
        /\ sock[s].id # 0 => sock'[s].id # 0
        /\ pipe' = pipe \/ \E cc \in Cmd : pipe' = Append(pipe, cc) /\ HASH_ID(cc.id) = s
        /\ net' = net /\ batch' = batch /\ fc' = fc /\ torn' = torn /\ stale' = stale
    BY <1>3, <2>1, <2>2, <2>3 DEF thread, outside
  <2>y. /\ \A t \in Slot : t # s => lock'[t] = lock[t]
        /\ \A i \in Id : said[i] \subseteq said'[i] /\ (HASH_ID(i) # s => said'[i] = said[i])
        /\ \A i \in Id : HASH_ID(i) # s => wire'[i] = wire[i]
        /\ \A m \in DOMAIN sent : m \in DOMAIN sent' /\ sent'[m] = sent[m]
        /\ \A m \in DOMAIN sent' : m \in DOMAIN sent \/ HASH_ID(sent'[m].id) = s
    BY <1>3, <2>1, <2>2, <2>3 DEF thread, outside
  <2>. QED BY <1>a, <2>z, <2>y, <1>3, <2>1, <2>2, <2>3
<1>4. ASSUME Request(w) /\ s = HASH_ID(call[w].id)
      PROVE  G
  <2> DEFINE id == call[w].id
             c == [c |-> "O", id |-> id, m |-> 0]
  <2>1. /\ Types' /\ IdInv' /\ id \in Id /\ CallTo(w, NoCall)
        /\ SlotTo(s) /\ sock'[s].id = id
        /\ pipe' = Append(pipe, c) /\ c \in Cmd
        /\ \A i \in Id : said'[i] = said[i] \cup IF i = id THEN {"CONNECT"} ELSE {}
        /\ UNCHANGED <<alloc_id, lock, sent, cmds, thread, outside>>
    BY <1>4, RequestView
  <2>2. c.id = id /\ call'[w].at = "idle" /\ id # 0
    BY <1>k, <2>1, IdType DEF CallTo
  <2>3. \A i \in Id : said[i] \subseteq said'[i] /\ (HASH_ID(i) # s => said'[i] = said[i])
    BY <1>4, <2>1
  <2>z. /\ call[w].at = "idle" \/ HASH_ID(call[w].id) = s
        /\ call'[w].at = "idle" \/ HASH_ID(call'[w].id) = s
        /\ \A v \in Worker : v # w => call'[v] = call[v]
        /\ \A t \in Slot : t # s => sock'[t] = sock[t]
        /\ sock[s].id # 0 => sock'[s].id # 0
        /\ pipe' = pipe \/ \E cc \in Cmd : pipe' = Append(pipe, cc) /\ HASH_ID(cc.id) = s
        /\ net' = net /\ batch' = batch /\ fc' = fc /\ torn' = torn /\ stale' = stale
    BY <1>4, <2>1, <2>2, <2>3 DEF thread, outside, SlotTo, CallTo
  <2>y. /\ \A t \in Slot : t # s => lock'[t] = lock[t]
        /\ \A i \in Id : said[i] \subseteq said'[i] /\ (HASH_ID(i) # s => said'[i] = said[i])
        /\ \A i \in Id : HASH_ID(i) # s => wire'[i] = wire[i]
        /\ \A m \in DOMAIN sent : m \in DOMAIN sent' /\ sent'[m] = sent[m]
        /\ \A m \in DOMAIN sent' : m \in DOMAIN sent \/ HASH_ID(sent'[m].id) = s
    BY <1>4, <2>1, <2>2, <2>3 DEF thread, outside, SlotTo, CallTo
  <2>. QED BY <1>a, <2>z, <2>y, <1>4, <2>1, <2>2, <2>3
<1>5. ASSUME Locked(w) /\ s = HASH_ID(call[w].id)
      PROVE  G
  <2>1. /\ Types' /\ IdInv' /\ CallTo(w, [call[w] EXCEPT !.at = "write"])
        /\ \A t \in Slot : t # s => lock'[t] = lock[t]
        /\ call'[w].id = call[w].id
        /\ UNCHANGED <<alloc_id, sock, pipe, said, sent, cmds, thread, outside>>
    BY <1>5, LockedView
  <2>z. /\ call[w].at = "idle" \/ HASH_ID(call[w].id) = s
        /\ call'[w].at = "idle" \/ HASH_ID(call'[w].id) = s
        /\ \A v \in Worker : v # w => call'[v] = call[v]
        /\ \A t \in Slot : t # s => sock'[t] = sock[t]
        /\ sock[s].id # 0 => sock'[s].id # 0
        /\ pipe' = pipe \/ \E cc \in Cmd : pipe' = Append(pipe, cc) /\ HASH_ID(cc.id) = s
        /\ net' = net /\ batch' = batch /\ fc' = fc /\ torn' = torn /\ stale' = stale
    BY <1>5, <2>1 DEF thread, outside, CallTo
  <2>y. /\ \A t \in Slot : t # s => lock'[t] = lock[t]
        /\ \A i \in Id : said[i] \subseteq said'[i] /\ (HASH_ID(i) # s => said'[i] = said[i])
        /\ \A i \in Id : HASH_ID(i) # s => wire'[i] = wire[i]
        /\ \A m \in DOMAIN sent : m \in DOMAIN sent' /\ sent'[m] = sent[m]
        /\ \A m \in DOMAIN sent' : m \in DOMAIN sent \/ HASH_ID(sent'[m].id) = s
    BY <1>5, <2>1 DEF thread, outside, CallTo
  <2>. QED BY <1>a, <2>z, <2>y, <1>5, <2>1
<1>6. ASSUME NotLocked(w) /\ s = HASH_ID(call[w].id)
      PROVE  G
  <2>1. /\ Types' /\ IdInv' /\ CallTo(w, [call[w] EXCEPT !.at = "inc"])
        /\ call'[w].id = call[w].id
        /\ UNCHANGED <<alloc_id, sock, lock, pipe, said, sent, cmds, thread, outside>>
    BY <1>6, NotLockedView
  <2>z. /\ call[w].at = "idle" \/ HASH_ID(call[w].id) = s
        /\ call'[w].at = "idle" \/ HASH_ID(call'[w].id) = s
        /\ \A v \in Worker : v # w => call'[v] = call[v]
        /\ \A t \in Slot : t # s => sock'[t] = sock[t]
        /\ sock[s].id # 0 => sock'[s].id # 0
        /\ pipe' = pipe \/ \E cc \in Cmd : pipe' = Append(pipe, cc) /\ HASH_ID(cc.id) = s
        /\ net' = net /\ batch' = batch /\ fc' = fc /\ torn' = torn /\ stale' = stale
    BY <1>6, <2>1 DEF thread, outside, CallTo
  <2>y. /\ \A t \in Slot : t # s => lock'[t] = lock[t]
        /\ \A i \in Id : said[i] \subseteq said'[i] /\ (HASH_ID(i) # s => said'[i] = said[i])
        /\ \A i \in Id : HASH_ID(i) # s => wire'[i] = wire[i]
        /\ \A m \in DOMAIN sent : m \in DOMAIN sent' /\ sent'[m] = sent[m]
        /\ \A m \in DOMAIN sent' : m \in DOMAIN sent \/ HASH_ID(sent'[m].id) = s
    BY <1>6, <2>1 DEF thread, outside, CallTo
  <2>. QED BY <1>a, <2>z, <2>y, <1>6, <2>1
<1>7. ASSUME Counted(w) /\ s = HASH_ID(call[w].id)
      PROVE  G
  <2>1. /\ Types' /\ IdInv' /\ CallTo(w, call'[w])
        /\ call'[w].id = call[w].id /\ SlotTo(s) /\ SameName(s)
        /\ UNCHANGED <<alloc_id, lock, pipe, said, sent, cmds, thread, outside>>
    BY <1>7, CountedView
  <2>z. /\ call[w].at = "idle" \/ HASH_ID(call[w].id) = s
        /\ call'[w].at = "idle" \/ HASH_ID(call'[w].id) = s
        /\ \A v \in Worker : v # w => call'[v] = call[v]
        /\ \A t \in Slot : t # s => sock'[t] = sock[t]
        /\ sock[s].id # 0 => sock'[s].id # 0
        /\ pipe' = pipe \/ \E cc \in Cmd : pipe' = Append(pipe, cc) /\ HASH_ID(cc.id) = s
        /\ net' = net /\ batch' = batch /\ fc' = fc /\ torn' = torn /\ stale' = stale
    BY <1>7, <2>1 DEF thread, outside, CallTo, SlotTo, SameName
  <2>y. /\ \A t \in Slot : t # s => lock'[t] = lock[t]
        /\ \A i \in Id : said[i] \subseteq said'[i] /\ (HASH_ID(i) # s => said'[i] = said[i])
        /\ \A i \in Id : HASH_ID(i) # s => wire'[i] = wire[i]
        /\ \A m \in DOMAIN sent : m \in DOMAIN sent' /\ sent'[m] = sent[m]
        /\ \A m \in DOMAIN sent' : m \in DOMAIN sent \/ HASH_ID(sent'[m].id) = s
    BY <1>7, <2>1 DEF thread, outside, CallTo, SlotTo, SameName
  <2>. QED BY <1>a, <2>z, <2>y, <1>7, <2>1
<1>8. ASSUME NotCounted(w) /\ s = HASH_ID(call[w].id)
      PROVE  G
  <2>1. /\ Types' /\ IdInv' /\ CallTo(w, call'[w])
        /\ call'[w].id = call[w].id
        /\ UNCHANGED <<alloc_id, sock, lock, pipe, said, sent, cmds, thread, outside>>
    BY <1>8, NotCountedView
  <2>z. /\ call[w].at = "idle" \/ HASH_ID(call[w].id) = s
        /\ call'[w].at = "idle" \/ HASH_ID(call'[w].id) = s
        /\ \A v \in Worker : v # w => call'[v] = call[v]
        /\ \A t \in Slot : t # s => sock'[t] = sock[t]
        /\ sock[s].id # 0 => sock'[s].id # 0
        /\ pipe' = pipe \/ \E cc \in Cmd : pipe' = Append(pipe, cc) /\ HASH_ID(cc.id) = s
        /\ net' = net /\ batch' = batch /\ fc' = fc /\ torn' = torn /\ stale' = stale
    BY <1>8, <2>1 DEF thread, outside, CallTo
  <2>y. /\ \A t \in Slot : t # s => lock'[t] = lock[t]
        /\ \A i \in Id : said[i] \subseteq said'[i] /\ (HASH_ID(i) # s => said'[i] = said[i])
        /\ \A i \in Id : HASH_ID(i) # s => wire'[i] = wire[i]
        /\ \A m \in DOMAIN sent : m \in DOMAIN sent' /\ sent'[m] = sent[m]
        /\ \A m \in DOMAIN sent' : m \in DOMAIN sent \/ HASH_ID(sent'[m].id) = s
    BY <1>8, <2>1 DEF thread, outside, CallTo
  <2>. QED BY <1>a, <2>z, <2>y, <1>8, <2>1
<1>9. ASSUME Push(w) /\ s = HASH_ID(call[w].id)
      PROVE  G
  <2> DEFINE c == [c |-> call[w].at, id |-> call[w].id, m |-> call[w].m]
  <2>1. /\ Types' /\ IdInv' /\ CallTo(w, NoCall)
        /\ pipe' = Append(pipe, c) /\ c \in Cmd
        /\ UNCHANGED <<alloc_id, sock, lock, said, sent, cmds, thread, outside>>
    BY <1>9, PushView
  <2>2. c.id = call[w].id /\ call'[w].at = "idle"
    BY <1>k, <2>1 DEF CallTo
  <2>z. /\ call[w].at = "idle" \/ HASH_ID(call[w].id) = s
        /\ call'[w].at = "idle" \/ HASH_ID(call'[w].id) = s
        /\ \A v \in Worker : v # w => call'[v] = call[v]
        /\ \A t \in Slot : t # s => sock'[t] = sock[t]
        /\ sock[s].id # 0 => sock'[s].id # 0
        /\ pipe' = pipe \/ \E cc \in Cmd : pipe' = Append(pipe, cc) /\ HASH_ID(cc.id) = s
        /\ net' = net /\ batch' = batch /\ fc' = fc /\ torn' = torn /\ stale' = stale
    BY <1>9, <2>1, <2>2 DEF thread, outside, CallTo
  <2>y. /\ \A t \in Slot : t # s => lock'[t] = lock[t]
        /\ \A i \in Id : said[i] \subseteq said'[i] /\ (HASH_ID(i) # s => said'[i] = said[i])
        /\ \A i \in Id : HASH_ID(i) # s => wire'[i] = wire[i]
        /\ \A m \in DOMAIN sent : m \in DOMAIN sent' /\ sent'[m] = sent[m]
        /\ \A m \in DOMAIN sent' : m \in DOMAIN sent \/ HASH_ID(sent'[m].id) = s
    BY <1>9, <2>1, <2>2 DEF thread, outside, CallTo
  <2>. QED BY <1>a, <2>z, <2>y, <1>9, <2>1, <2>2
<1>10. ASSUME NEW k \in 0 .. MsgSize, DirectWrite(w, k), s = HASH_ID(call[w].id)
       PROVE  G
  <2> DEFINE to == sock[s].id
  <2>1. /\ to # 0 => Types' /\ IdInv'
        /\ call[w].at = "write" /\ SlotTo(s) /\ SameName(s)
        /\ to # 0 => to \in Id
        /\ wire' = [wire EXCEPT ![to] = @ \o Wrote(Buffer(call[w].m), k)]
        /\ \A t \in Slot : t # s => lock'[t] = lock[t]
        /\ CallTo(w, call'[w])
        /\ call'[w] = (IF k = MsgSize THEN NoCall ELSE call'[w])
        /\ k # MsgSize => call'[w].id = call[w].id
        /\ UNCHANGED <<alloc_id, pipe, net, said, sent, cmds, peers, thread>>
    BY <1>10, DirectWriteView
  <2>2. lock[s] = w /\ to # 0
    BY <1>10, <2>1, Bounds DEF LockInv
  <2>3. HASH_ID(to) = s
    BY <2>2 DEF IdInv
  <2>4. \A i \in Id : HASH_ID(i) # s => wire'[i] = wire[i]
    BY <2>1, <2>2, <2>3 DEF Types
  <2>5. call'[w].at = "idle" \/ HASH_ID(call'[w].id) = s
    BY <1>10, <1>k, <2>1
  <2>z. /\ call[w].at = "idle" \/ HASH_ID(call[w].id) = s
        /\ call'[w].at = "idle" \/ HASH_ID(call'[w].id) = s
        /\ \A v \in Worker : v # w => call'[v] = call[v]
        /\ \A t \in Slot : t # s => sock'[t] = sock[t]
        /\ sock[s].id # 0 => sock'[s].id # 0
        /\ pipe' = pipe \/ \E cc \in Cmd : pipe' = Append(pipe, cc) /\ HASH_ID(cc.id) = s
        /\ net' = net /\ batch' = batch /\ fc' = fc /\ torn' = torn /\ stale' = stale
    BY <1>10, <2>1, <2>2, <2>4, <2>5 DEF thread, CallTo, SlotTo, SameName
  <2>y. /\ \A t \in Slot : t # s => lock'[t] = lock[t]
        /\ \A i \in Id : said[i] \subseteq said'[i] /\ (HASH_ID(i) # s => said'[i] = said[i])
        /\ \A i \in Id : HASH_ID(i) # s => wire'[i] = wire[i]
        /\ \A m \in DOMAIN sent : m \in DOMAIN sent' /\ sent'[m] = sent[m]
        /\ \A m \in DOMAIN sent' : m \in DOMAIN sent \/ HASH_ID(sent'[m].id) = s
    BY <1>10, <2>1, <2>2, <2>4, <2>5 DEF thread, CallTo, SlotTo, SameName
  <2>. QED BY <1>a, <2>z, <2>y, <1>10, <2>1, <2>2, <2>4, <2>5
<1>. QED BY <1>1, <1>2, <1>3, <1>4, <1>5, <1>6, <1>7, <1>8, <1>9, <1>10 DEF WorkerAt, G

LEMMA SaidTo ==
    ASSUME Types, NEW id \in Id, NEW kind \in {"-", "CLOSE", "OPEN", "ERR", "DATA"}, Say(id, kind)
    PROVE  /\ \A i \in Id : said[i] \subseteq said'[i] /\ (i # id => said'[i] = said[i])
           /\ \A k \in Kind \ {"LATE"} : k \in said'[id] <=> k \in said[id] \/ k = kind
<1>1. said \in [Id -> SUBSET Kind] /\ kind \in Kind \cup {"-", "DATA"}
  BY DEF Types, Kind
<1>. QED BY <1>1, SayFacts

LEMMA CtrlUp ==
    ASSUME Types, IdInv, NEW c, CtrlCase(c)
    PROVE  /\ Types' /\ IdInv' /\ CtrlFrame(c) /\ HASH_ID(c.id) \in Slot /\ c.id \in Id
           /\ Grow /\ \A t \in Slot : t # HASH_ID(c.id) => Apart(t)
<1> DEFINE s == HASH_ID(c.id)
           G == /\ Types' /\ IdInv' /\ CtrlFrame(c) /\ HASH_ID(c.id) \in Slot /\ c.id \in Id
                /\ Grow /\ \A t \in Slot : t # HASH_ID(c.id) => Apart(t)
<1>a. ASSUME Types', IdInv', CtrlFrame(c),
             \A t \in Slot : t # s => sock'[t] = sock[t],
             sock'[s].id \in {sock[s].id, c.id},
             \A i \in Id : said[i] \subseteq said'[i] /\ (i # c.id => said'[i] = said[i]),
             \A i \in Id : i # c.id => net'[i] = net[i],
             fc' = fc \/ fc'.s = s,
             torn' \in {torn, torn \cup {s}}
      PROVE  G
  <2>1. torn \subseteq torn' /\ torn' \subseteq torn \cup {s}
    BY <1>a
  <2>2. Grow /\ \A t \in Slot : t # s => Apart(t)
    BY <1>a, <2>1, CtrlApart
  <2>3. s \in Slot /\ c.id \in Id
    BY <1>a, CtrlFacts
  <2>. QED BY <1>a, <2>2, <2>3
<1> HIDE DEF G
<1>f. CtrlFrame(c) => c.id \in Id
  BY CtrlFacts
<1>s. said' = said => \A i \in Id : said[i] \subseteq said'[i] /\ (i # c.id => said'[i] = said[i])
  OBVIOUS
<1>1. ASSUME OpenFail(c) \/ ResumeFail(c)
      PROVE  G
  <2>1. /\ Types' /\ IdInv' /\ CtrlFrame(c) /\ SlotTo(s) /\ SameName(s)
        /\ fc' = [at |-> "clear", s |-> s, id |-> c.id, say |-> "ERR", ctrl |-> TRUE]
        /\ said' = said /\ net' = net /\ torn' = torn
    BY <1>1, FailView
  <2>2. fc'.s = s
    BY <2>1
  <2>z. /\ \A t \in Slot : t # s => sock'[t] = sock[t]
        /\ sock'[s].id \in {sock[s].id, c.id}
        /\ \A i \in Id : said[i] \subseteq said'[i] /\ (i # c.id => said'[i] = said[i])
        /\ \A i \in Id : i # c.id => net'[i] = net[i]
        /\ fc' = fc \/ fc'.s = s
        /\ torn' \in {torn, torn \cup {s}}
    BY <1>s, <2>1, <2>2 DEF SlotTo, SameName
  <2>. QED BY <1>a, <2>z, <1>s, <2>1, <2>2
<1>2. ASSUME NEW type, NEW writing, NEW kind, NEW state, OpenNew(c, type, writing, kind, state)
      PROVE  G
  <2>1. /\ Types' /\ IdInv' /\ CtrlFrame(c) /\ SlotTo(s) /\ sock'[s].id = c.id
        /\ \A i \in Id : i # c.id => net'[i] = net[i]
        /\ Say(c.id, kind) /\ kind \in {"-", "OPEN"}
        /\ torn' = torn /\ fc' = fc
    BY <1>2, OpenNewView
  <2>2. \A i \in Id : said[i] \subseteq said'[i] /\ (i # c.id => said'[i] = said[i])
    BY <1>f, <2>1, SaidTo
  <2>. QED BY <1>a, <2>1, <2>2 DEF SlotTo
<1>3. ASSUME NEW kind, CtrlStop(c) \/ CtrlTell(c, kind)
      PROVE  G
  <2>1. /\ Types' /\ IdInv' /\ CtrlFrame(c) /\ sock' = sock /\ fc' = fc /\ net' = net /\ torn' = torn
        /\ \A i \in Id : said[i] \subseteq said'[i] /\ (i # c.id => said'[i] = said[i])
    BY <1>3, CtrlIdleView
  <2>z. /\ \A t \in Slot : t # s => sock'[t] = sock[t]
        /\ sock'[s].id \in {sock[s].id, c.id}
        /\ \A i \in Id : said[i] \subseteq said'[i] /\ (i # c.id => said'[i] = said[i])
        /\ \A i \in Id : i # c.id => net'[i] = net[i]
        /\ fc' = fc \/ fc'.s = s
        /\ torn' \in {torn, torn \cup {s}}
    BY <2>1
  <2>. QED BY <1>a, <2>z, <2>1
<1>4. ASSUME CloseNow(c)
      PROVE  G
  <2>1. /\ Types' /\ IdInv' /\ CtrlFrame(c) /\ SlotTo(s) /\ SameName(s)
        /\ fc' = [at |-> "lock", s |-> s, id |-> c.id, say |-> CloseKind(sock[s]), ctrl |-> TRUE]
        /\ said' = said /\ net' = net /\ torn' = torn
    BY <1>4, CloseNowView
  <2>2. fc'.s = s
    BY <2>1
  <2>z. /\ \A t \in Slot : t # s => sock'[t] = sock[t]
        /\ sock'[s].id \in {sock[s].id, c.id}
        /\ \A i \in Id : said[i] \subseteq said'[i] /\ (i # c.id => said'[i] = said[i])
        /\ \A i \in Id : i # c.id => net'[i] = net[i]
        /\ fc' = fc \/ fc'.s = s
        /\ torn' \in {torn, torn \cup {s}}
    BY <1>s, <2>1, <2>2 DEF SlotTo, SameName
  <2>. QED BY <1>a, <2>z, <1>s, <2>1, <2>2
<1>5. ASSUME CloseLater(c)
      PROVE  G
  <2>1. /\ Types' /\ IdInv' /\ CtrlFrame(c) /\ SlotTo(s) /\ SameName(s)
        /\ Say(c.id, CloseKind(sock[s])) /\ net' = net /\ fc' = fc
        /\ torn' = torn \cup (IF sock[s].type = "RESERVE" THEN {s} ELSE {})
    BY <1>5, CloseLaterView
  <2>2. \A i \in Id : said[i] \subseteq said'[i] /\ (i # c.id => said'[i] = said[i])
    BY <1>f, <2>1, SaidTo DEF CloseKind
  <2>3. torn' \in {torn, torn \cup {s}}
    BY <2>1
  <2>z. /\ \A t \in Slot : t # s => sock'[t] = sock[t]
        /\ sock'[s].id \in {sock[s].id, c.id}
        /\ \A i \in Id : said[i] \subseteq said'[i] /\ (i # c.id => said'[i] = said[i])
        /\ \A i \in Id : i # c.id => net'[i] = net[i]
        /\ fc' = fc \/ fc'.s = s
        /\ torn' \in {torn, torn \cup {s}}
    BY <2>1, <2>2, <2>3 DEF SlotTo, SameName
  <2>. QED BY <1>a, <2>z, <2>1, <2>2, <2>3
<1>6. ASSUME Resumed(c)
      PROVE  G
  <2>1. /\ Types' /\ IdInv' /\ CtrlFrame(c) /\ SlotTo(s) /\ SameName(s)
        /\ Say(c.id, IF sock[s].type \in {"PACCEPT", "CONNECTED"} THEN "OPEN" ELSE "-")
        /\ torn' = torn /\ net' = net /\ fc' = fc
    BY <1>6, ResumedView
  <2>2. \A i \in Id : said[i] \subseteq said'[i] /\ (i # c.id => said'[i] = said[i])
    BY <1>f, <2>1, SaidTo
  <2>. QED BY <1>a, <2>1, <2>2 DEF SlotTo, SameName
<1>7. ASSUME Paused(c) \/ Armed(c)
      PROVE  G
  <2>1. /\ Types' /\ IdInv' /\ CtrlFrame(c) /\ SlotTo(s) /\ SameName(s)
        /\ said' = said /\ torn' = torn /\ net' = net /\ fc' = fc
    BY <1>7, PokedView
  <2>z. /\ \A t \in Slot : t # s => sock'[t] = sock[t]
        /\ sock'[s].id \in {sock[s].id, c.id}
        /\ \A i \in Id : said[i] \subseteq said'[i] /\ (i # c.id => said'[i] = said[i])
        /\ \A i \in Id : i # c.id => net'[i] = net[i]
        /\ fc' = fc \/ fc'.s = s
        /\ torn' \in {torn, torn \cup {s}}
    BY <1>s, <2>1 DEF SlotTo, SameName
  <2>. QED BY <1>a, <2>z, <1>s, <2>1
<1>8. ASSUME DataElse(c) \/ DataTcp(c)
      PROVE  G
  <2>1. /\ Types' /\ IdInv' /\ CtrlFrame(c) /\ SlotTo(s) /\ SameName(s)
        /\ said' = said /\ torn' = torn /\ net' = net /\ fc' = fc
    BY <1>8, DataView
  <2>z. /\ \A t \in Slot : t # s => sock'[t] = sock[t]
        /\ sock'[s].id \in {sock[s].id, c.id}
        /\ \A i \in Id : said[i] \subseteq said'[i] /\ (i # c.id => said'[i] = said[i])
        /\ \A i \in Id : i # c.id => net'[i] = net[i]
        /\ fc' = fc \/ fc'.s = s
        /\ torn' \in {torn, torn \cup {s}}
    BY <1>s, <2>1 DEF SlotTo, SameName
  <2>. QED BY <1>a, <2>z, <1>s, <2>1
<1>. QED BY <1>1, <1>2, <1>3, <1>4, <1>5, <1>6, <1>7, <1>8 DEF CtrlCase, G

LEMMA EventUp ==
    ASSUME Types, IdInv, NEW e, EventCase(e)
    PROVE  /\ Types' /\ IdInv' /\ EventFrame(e) /\ e.s \in Slot
           /\ Grow /\ \A t \in Slot : t # e.s => Apart(t)
<1> DEFINE x == sock[e.s]
           G == /\ Types' /\ IdInv' /\ EventFrame(e) /\ e.s \in Slot
                /\ Grow /\ \A t \in Slot : t # e.s => Apart(t)
<1>a. ASSUME Types', IdInv', EventFrame(e),
             \A t \in Slot : t # e.s => sock'[t] = sock[t],
             sock'[e.s].id = x.id,
             \A i \in Id : said[i] \subseteq said'[i] /\ (i # x.id => said'[i] = said[i]),
             \A i \in Id : i # x.id => net'[i] = net[i],
             \A i \in Id : i # x.id => wire'[i] = wire[i],
             fc' = fc \/ fc'.s = e.s,
             torn' \in {torn, torn \cup {e.s}}
      PROVE  G
  <2>1. torn \subseteq torn' /\ torn' \subseteq torn \cup {e.s}
    BY <1>a
  <2>4. \A i \in Id : i # x.id => net'[i] = net[i] /\ wire'[i] = wire[i]
    BY <1>a
  <2>2. Grow /\ \A t \in Slot : t # e.s => Apart(t)
    BY <1>a, <2>1, <2>4, EventApart
  <2>3. e.s \in Slot
    BY <1>a, EventFacts
  <2>. QED BY <1>a, <2>2, <2>3
<1> HIDE DEF G
<1>f. EventFrame(e) => x.id \in Id
  BY EventFacts
<1>s. said' = said => \A i \in Id : said[i] \subseteq said'[i] /\ (i # x.id => said'[i] = said[i])
  OBVIOUS
<1>1. ASSUME NEW kind, EventTell(e, kind) \/ EventStop(e)
      PROVE  G
  <2>1. /\ Types' /\ IdInv' /\ EventFrame(e) /\ sock' = sock /\ fc' = fc /\ wire' = wire /\ torn' = torn
        /\ \A i \in Id : said[i] \subseteq said'[i] /\ (i # x.id => said'[i] = said[i])
    BY <1>1, EventIdleView
  <2>2. net' = net \/ Reset(x.id)
    BY <1>1 DEF EventTell, EventStop
  <2>3. \A i \in Id : i # x.id => net'[i] = net[i]
    BY <1>f, <2>1, <2>2, ResetFacts
  <2>z. /\ \A t \in Slot : t # e.s => sock'[t] = sock[t]
        /\ sock'[e.s].id = x.id
        /\ \A i \in Id : said[i] \subseteq said'[i] /\ (i # x.id => said'[i] = said[i])
        /\ \A i \in Id : i # x.id => net'[i] = net[i]
        /\ \A i \in Id : i # x.id => wire'[i] = wire[i]
        /\ fc' = fc \/ fc'.s = e.s
        /\ torn' \in {torn, torn \cup {e.s}}
        /\ EventFrame(e)
    BY <2>1, <2>3
  <2>. QED BY <1>a, <2>z, <2>1, <2>3
<1>2. ASSUME NEW kind, EventForce(e, kind)
      PROVE  G
  <2>1. /\ Types' /\ IdInv' /\ EventFrame(e) /\ SlotTo(e.s) /\ SameName(e.s)
        /\ fc' = [at |-> "lock", s |-> e.s, id |-> x.id, say |-> kind, ctrl |-> FALSE]
        /\ said' = said /\ net' = net /\ wire' = wire /\ torn' = torn
    BY <1>2, EventForceView
  <2>2. fc'.s = e.s
    BY <2>1
  <2>z. /\ \A t \in Slot : t # e.s => sock'[t] = sock[t]
        /\ sock'[e.s].id = x.id
        /\ \A i \in Id : said[i] \subseteq said'[i] /\ (i # x.id => said'[i] = said[i])
        /\ \A i \in Id : i # x.id => net'[i] = net[i]
        /\ \A i \in Id : i # x.id => wire'[i] = wire[i]
        /\ fc' = fc \/ fc'.s = e.s
        /\ torn' \in {torn, torn \cup {e.s}}
        /\ EventFrame(e)
    BY <1>s, <2>1, <2>2 DEF SlotTo, SameName
  <2>. QED BY <1>a, <2>z, <1>s, <2>1, <2>2
<1>3. ASSUME Connected(e)
      PROVE  G
  <2>1. /\ Types' /\ IdInv' /\ EventFrame(e) /\ SlotTo(e.s) /\ SameName(e.s)
        /\ Say(x.id, "OPEN") /\ fc' = fc /\ net' = net /\ wire' = wire /\ torn' = torn
    BY <1>3, ConnectedView
  <2>2. \A i \in Id : said[i] \subseteq said'[i] /\ (i # x.id => said'[i] = said[i])
    BY <1>f, <2>1, SaidTo
  <2>. QED BY <1>a, <2>1, <2>2 DEF SlotTo, SameName
<1>4. ASSUME EofRead(e)
      PROVE  G
  <2>1. /\ Types' /\ IdInv' /\ EventFrame(e) /\ SlotTo(e.s) /\ SameName(e.s)
        /\ Say(x.id, "CLOSE") /\ fc' = fc /\ net' = net /\ wire' = wire
        /\ torn' = torn \cup (IF x.type = "RESERVE" THEN {e.s} ELSE {})
    BY <1>4, EofReadView
  <2>2. \A i \in Id : said[i] \subseteq said'[i] /\ (i # x.id => said'[i] = said[i])
    BY <1>f, <2>1, SaidTo
  <2>3. torn' \in {torn, torn \cup {e.s}}
    BY <2>1
  <2>z. /\ \A t \in Slot : t # e.s => sock'[t] = sock[t]
        /\ sock'[e.s].id = x.id
        /\ \A i \in Id : said[i] \subseteq said'[i] /\ (i # x.id => said'[i] = said[i])
        /\ \A i \in Id : i # x.id => net'[i] = net[i]
        /\ \A i \in Id : i # x.id => wire'[i] = wire[i]
        /\ fc' = fc \/ fc'.s = e.s
        /\ torn' \in {torn, torn \cup {e.s}}
        /\ EventFrame(e)
    BY <2>1, <2>2, <2>3 DEF SlotTo, SameName
  <2>. QED BY <1>a, <2>z, <2>1, <2>2, <2>3
<1>5. ASSUME WriteClosed(e)
      PROVE  G
  <2>1. /\ Types' /\ IdInv' /\ EventFrame(e) /\ SlotTo(e.s) /\ SameName(e.s)
        /\ \A i \in Id : i # x.id => net'[i] = net[i]
        /\ said' = said /\ fc' = fc /\ wire' = wire /\ torn' = torn
    BY <1>5, WriteClosedView
  <2>z. /\ \A t \in Slot : t # e.s => sock'[t] = sock[t]
        /\ sock'[e.s].id = x.id
        /\ \A i \in Id : said[i] \subseteq said'[i] /\ (i # x.id => said'[i] = said[i])
        /\ \A i \in Id : i # x.id => net'[i] = net[i]
        /\ \A i \in Id : i # x.id => wire'[i] = wire[i]
        /\ fc' = fc \/ fc'.s = e.s
        /\ torn' \in {torn, torn \cup {e.s}}
        /\ EventFrame(e)
    BY <1>s, <2>1 DEF SlotTo, SameName
  <2>. QED BY <1>a, <2>z, <1>s, <2>1
<1>6. ASSUME WriteStopped(e) \/ WriteError(e)
      PROVE  G
  <2>1. /\ Types' /\ IdInv' /\ EventFrame(e) /\ SlotTo(e.s) /\ SameName(e.s)
        /\ Say(x.id, IF x.type = "HALFCLOSE_WRITE" THEN "-" ELSE "ERR")
        /\ fc' = fc /\ wire' = wire
        /\ torn' = torn \cup (IF x.type = "RESERVE" THEN {e.s} ELSE {})
    BY <1>6, WriteFailView
  <2>2. \A i \in Id : said[i] \subseteq said'[i] /\ (i # x.id => said'[i] = said[i])
    BY <1>f, <2>1, SaidTo
  <2>3. torn' \in {torn, torn \cup {e.s}}
    BY <2>1
  <2>4. Reset(x.id)
    BY <1>6 DEF WriteStopped, WriteError
  <2>5. \A i \in Id : i # x.id => net'[i] = net[i]
    BY <1>f, <2>1, <2>4, ResetFacts
  <2>z. /\ \A t \in Slot : t # e.s => sock'[t] = sock[t]
        /\ sock'[e.s].id = x.id
        /\ \A i \in Id : said[i] \subseteq said'[i] /\ (i # x.id => said'[i] = said[i])
        /\ \A i \in Id : i # x.id => net'[i] = net[i]
        /\ \A i \in Id : i # x.id => wire'[i] = wire[i]
        /\ fc' = fc \/ fc'.s = e.s
        /\ torn' \in {torn, torn \cup {e.s}}
        /\ EventFrame(e)
    BY <2>1, <2>2, <2>3, <2>5 DEF SlotTo, SameName
  <2>. QED BY <1>a, <2>z, <2>1, <2>2, <2>3, <2>5
<1>w. ASSUME NEW n, NEW k, WriteSome(e, n, k)
      PROVE  EventFrame(e) /\ torn' = torn /\ \A i \in Id : i # x.id => wire'[i] = wire[i]
  BY <1>w, WriteSomeSlot
<1>7. ASSUME NEW n, NEW k, WriteMore(e, n, k)
      PROVE  G
  <2>1. /\ Types' /\ IdInv' /\ WriteSome(e, n, k) /\ SlotTo(e.s)
        /\ sock'[e.s] = Written(WithDirect(x), n, k)
        /\ said' = said /\ fc' = fc /\ net' = net
    BY <1>7, WriteMoreView
  <2>2. sock'[e.s].id = x.id
    BY <2>1, WriteSomeSlot
  <2>z. /\ \A t \in Slot : t # e.s => sock'[t] = sock[t]
        /\ sock'[e.s].id = x.id
        /\ \A i \in Id : said[i] \subseteq said'[i] /\ (i # x.id => said'[i] = said[i])
        /\ \A i \in Id : i # x.id => net'[i] = net[i]
        /\ \A i \in Id : i # x.id => wire'[i] = wire[i]
        /\ fc' = fc \/ fc'.s = e.s
        /\ torn' \in {torn, torn \cup {e.s}}
        /\ EventFrame(e)
    BY <1>s, <1>w, <2>1, <2>2 DEF SlotTo
  <2>. QED BY <1>a, <2>z, <1>s, <1>w, <2>1, <2>2
<1>8. ASSUME NEW n, NEW k, WriteFinish(e, n, k)
      PROVE  G
  <2>1. /\ Types' /\ IdInv' /\ WriteSome(e, n, k) /\ SlotTo(e.s) /\ SameName(e.s)
        /\ said' = said /\ fc' = fc /\ \A i \in Id : i # x.id => net'[i] = net[i]
    BY <1>8, WriteFinishView
  <2>z. /\ \A t \in Slot : t # e.s => sock'[t] = sock[t]
        /\ sock'[e.s].id = x.id
        /\ \A i \in Id : said[i] \subseteq said'[i] /\ (i # x.id => said'[i] = said[i])
        /\ \A i \in Id : i # x.id => net'[i] = net[i]
        /\ \A i \in Id : i # x.id => wire'[i] = wire[i]
        /\ fc' = fc \/ fc'.s = e.s
        /\ torn' \in {torn, torn \cup {e.s}}
        /\ EventFrame(e)
    BY <1>s, <1>w, <2>1 DEF SlotTo, SameName
  <2>. QED BY <1>a, <2>z, <1>s, <1>w, <2>1
<1>9. ASSUME NEW n, NEW k, WriteDone(e, n, k)
      PROVE  G
  <2>1. /\ Types' /\ IdInv' /\ WriteSome(e, n, k) /\ SlotTo(e.s) /\ SameName(e.s)
        /\ said' = said /\ fc' = fc /\ net' = net
    BY <1>9, WriteDoneView
  <2>z. /\ \A t \in Slot : t # e.s => sock'[t] = sock[t]
        /\ sock'[e.s].id = x.id
        /\ \A i \in Id : said[i] \subseteq said'[i] /\ (i # x.id => said'[i] = said[i])
        /\ \A i \in Id : i # x.id => net'[i] = net[i]
        /\ \A i \in Id : i # x.id => wire'[i] = wire[i]
        /\ fc' = fc \/ fc'.s = e.s
        /\ torn' \in {torn, torn \cup {e.s}}
        /\ EventFrame(e)
    BY <1>s, <1>w, <2>1 DEF SlotTo, SameName
  <2>. QED BY <1>a, <2>z, <1>s, <1>w, <2>1
<1>. QED BY <1>1, <1>2, <1>3, <1>4, <1>5, <1>6, <1>7, <1>8, <1>9 DEF EventCase, G

\* The connection, the end of force_close and accept.
LEMMA OtherUp ==
    ASSUME Types, IdInv, NEW s \in Slot, OtherAt(s)
    PROVE  /\ Types' /\ IdInv' /\ Grow /\ \A t \in Slot : t # s => Apart(t)
           /\ call' = call /\ sent' = sent /\ pipe' = pipe /\ lock' = lock
<1> DEFINE G == /\ Types' /\ IdInv' /\ Grow /\ \A t \in Slot : t # s => Apart(t)
                /\ call' = call /\ sent' = sent /\ pipe' = pipe /\ lock' = lock
<1>a. ASSUME Types', IdInv',
             \A t \in Slot : t # s => sock'[t] = sock[t],
             sock[s].id # 0 => sock'[s].id # 0,
             \A i \in Id : said[i] \subseteq said'[i] /\ (HASH_ID(i) # s => said'[i] = said[i]),
             \A i \in Id : HASH_ID(i) # s => net'[i] = net[i],
             fc' = fc \/ (fc.s = s /\ (fc'.at = "no" \/ fc'.s = s)),
             batch' \subseteq batch,
             lock' = lock /\ call' = call /\ pipe' = pipe /\ sent' = sent /\ wire' = wire
             /\ torn' = torn /\ stale' = stale
      PROVE  G
  <2>1. Grow
    BY <1>a DEF Grow
  <2>2. ASSUME NEW t \in Slot, t # s
        PROVE  Apart(t)
    <3>1. PipeApart(t)
      BY <1>a, SamePipe
    <3>2. \A i \in Id : HASH_ID(i) = t => HASH_ID(i) # s
      BY <2>2
    <3>. QED BY <1>a, <2>2, <3>1, <3>2 DEF Apart
  <2>. QED BY <1>a, <2>1, <2>2
<1> HIDE DEF G
<1>1. ASSUME CloseFd /\ s = fc.s
      PROVE  G
  <2>1. /\ Types' /\ IdInv' /\ fc.id \in Id /\ HASH_ID(fc.id) = s
        /\ SlotTo(s) /\ SameName(s)
        /\ \A i \in Id : i # fc.id => net'[i] = net[i]
        /\ \/ said' = said /\ fc'.at = "clear" /\ fc'.s = fc.s
           \/ fc' = NoClose /\ Say(fc.id, fc.say)
        /\ UNCHANGED <<alloc_id, lock, call, pipe, sent, cmds, checkctrl, batch, aborted, stale,
                       torn, wire, peers>>
    BY <1>1, CloseFdView
  <2>2. \A i \in Id : said[i] \subseteq said'[i] /\ (i # fc.id => said'[i] = said[i])
    <3>1. fc.say \in {"-", "CLOSE", "OPEN", "ERR", "DATA"}
      BY DEF Types, Closing
    <3>. QED BY <2>1, <3>1, SaidTo
  <2>3. /\ \A i \in Id : said[i] \subseteq said'[i] /\ (HASH_ID(i) # s => said'[i] = said[i])
        /\ \A i \in Id : HASH_ID(i) # s => net'[i] = net[i]
    BY <2>1, <2>2
  <2>4. fc.s = s /\ (fc'.at = "no" \/ fc'.s = s)
    BY <1>1, <2>1, NoCloseType
  <2>z. /\ \A t \in Slot : t # s => sock'[t] = sock[t]
        /\ sock[s].id # 0 => sock'[s].id # 0
        /\ \A i \in Id : said[i] \subseteq said'[i] /\ (HASH_ID(i) # s => said'[i] = said[i])
        /\ \A i \in Id : HASH_ID(i) # s => net'[i] = net[i]
        /\ fc' = fc \/ (fc.s = s /\ (fc'.at = "no" \/ fc'.s = s))
        /\ batch' \subseteq batch
        /\ lock' = lock /\ call' = call /\ pipe' = pipe /\ sent' = sent /\ wire' = wire
        /\ torn' = torn /\ stale' = stale
    BY <2>1, <2>3, <2>4 DEF SlotTo, SameName
  <2>. QED BY <1>a, <2>z, <2>1, <2>3, <2>4
<1>2. ASSUME clear_closed_event /\ s = fc.s
      PROVE  G
  <2>1. /\ Types' /\ IdInv' /\ fc.id \in Id /\ HASH_ID(fc.id) = s /\ batch' \subseteq batch
        /\ fc' = NoClose /\ Say(fc.id, fc.say)
        /\ UNCHANGED <<alloc_id, sock, lock, call, pipe, sent, cmds, checkctrl, aborted, stale,
                       torn, net, wire, peers>>
    BY <1>2, ClearView
  <2>2. \A i \in Id : said[i] \subseteq said'[i] /\ (i # fc.id => said'[i] = said[i])
    <3>1. fc.say \in {"-", "CLOSE", "OPEN", "ERR", "DATA"}
      BY DEF Types, Closing
    <3>. QED BY <2>1, <3>1, SaidTo
  <2>3. \A i \in Id : said[i] \subseteq said'[i] /\ (HASH_ID(i) # s => said'[i] = said[i])
    BY <2>1, <2>2
  <2>4. fc.s = s /\ (fc'.at = "no" \/ fc'.s = s)
    BY <1>2, <2>1, NoCloseType
  <2>z. /\ \A t \in Slot : t # s => sock'[t] = sock[t]
        /\ sock[s].id # 0 => sock'[s].id # 0
        /\ \A i \in Id : said[i] \subseteq said'[i] /\ (HASH_ID(i) # s => said'[i] = said[i])
        /\ \A i \in Id : HASH_ID(i) # s => net'[i] = net[i]
        /\ fc' = fc \/ (fc.s = s /\ (fc'.at = "no" \/ fc'.s = s))
        /\ batch' \subseteq batch
        /\ lock' = lock /\ call' = call /\ pipe' = pipe /\ sent' = sent /\ wire' = wire
        /\ torn' = torn /\ stale' = stale
    BY <2>1, <2>3, <2>4
  <2>. QED BY <1>a, <2>z, <2>1, <2>3, <2>4
<1>3. ASSUME AcceptNew /\ s = HASH_ID(NextId)
      PROVE  G
  <2>1. /\ Types' /\ IdInv' /\ NextId \in Id /\ SlotTo(s) /\ sock'[s].id = NextId
        /\ \A i \in Id : i # NextId => net'[i] = net[i]
        /\ \A i \in Id : said'[i] = said[i] \cup IF i = NextId THEN {"ACCEPT"} ELSE {}
        /\ UNCHANGED <<lock, call, pipe, sent, cmds, batch, stale, torn, wire, fc, aborted>>
    BY <1>3, AcceptNewView
  <2>3. /\ \A i \in Id : said[i] \subseteq said'[i] /\ (HASH_ID(i) # s => said'[i] = said[i])
        /\ \A i \in Id : HASH_ID(i) # s => net'[i] = net[i]
    BY <1>3, <2>1
  <2>4. NextId # 0
    BY <2>1, IdType
  <2>z. /\ \A t \in Slot : t # s => sock'[t] = sock[t]
        /\ sock[s].id # 0 => sock'[s].id # 0
        /\ \A i \in Id : said[i] \subseteq said'[i] /\ (HASH_ID(i) # s => said'[i] = said[i])
        /\ \A i \in Id : HASH_ID(i) # s => net'[i] = net[i]
        /\ fc' = fc \/ (fc.s = s /\ (fc'.at = "no" \/ fc'.s = s))
        /\ batch' \subseteq batch
        /\ lock' = lock /\ call' = call /\ pipe' = pipe /\ sent' = sent /\ wire' = wire
        /\ torn' = torn /\ stale' = stale
    BY <2>1, <2>3, <2>4 DEF SlotTo
  <2>. QED BY <1>a, <2>z, <2>1, <2>3, <2>4
<1>4. ASSUME NEW id \in Id, Network(id), s = HASH_ID(id)
      PROVE  G
  <2>1. /\ Types' /\ IdInv' /\ \A i \in Id : i # id => net'[i] = net[i]
        /\ UNCHANGED <<alloc_id, sock, lock, call, pipe, said, sent, cmds, thread, wire>>
    BY <1>4, NetworkView
  <2>z. /\ \A t \in Slot : t # s => sock'[t] = sock[t]
        /\ sock[s].id # 0 => sock'[s].id # 0
        /\ \A i \in Id : said[i] \subseteq said'[i] /\ (HASH_ID(i) # s => said'[i] = said[i])
        /\ \A i \in Id : HASH_ID(i) # s => net'[i] = net[i]
        /\ fc' = fc \/ (fc.s = s /\ (fc'.at = "no" \/ fc'.s = s))
        /\ batch' \subseteq batch
        /\ lock' = lock /\ call' = call /\ pipe' = pipe /\ sent' = sent /\ wire' = wire
        /\ torn' = torn /\ stale' = stale
    BY <1>4, <2>1 DEF thread
  <2>. QED BY <1>a, <2>z, <1>4, <2>1
<1>. QED BY <1>1, <1>2, <1>3, <1>4 DEF OtherAt, G

\* No slot is free: nothing of any slot changes.
LEMMA StillUp ==
    ASSUME Types, IdInv, Still
    PROVE  /\ Types' /\ IdInv' /\ Grow /\ \A t \in Slot : Apart(t)
           /\ UNCHANGED <<sock, lock, call, pipe, said, sent, batch, stale, torn, wire, net, fc>>
<1>1. /\ Types' /\ IdInv'
      /\ UNCHANGED <<sock, lock, call, pipe, said, sent, batch, stale, torn, wire, net, fc>>
  BY ConnectFullView, AcceptNoneView DEF Still, thread, outside
<1>2. \A t \in Slot : Apart(t)
  BY <1>1, SamePipe DEF Apart
<1>. QED BY <1>1, <1>2 DEF Grow

LEMMA WaitUp ==
    ASSUME Types, IdInv, NEW D \in SUBSET Slot, Wait(D)
    PROVE  /\ Types' /\ IdInv' /\ Grow /\ fc = NoClose
           /\ UNCHANGED <<sock, lock, call, pipe, said, sent, stale, torn, wire, net, fc>>
           /\ \A e \in batch' :
                /\ e.s \in Slot /\ e.id = sock[e.s].id /\ sock[e.s].id \in Id
                /\ sock[e.s].type \in Live
                /\ e.read => sock[e.s].reading
                /\ e.eof => net[sock[e.s].id] \in {"rst", "hup"} \/ sock[e.s].type = "HALFCLOSE_WRITE"
<1>1. /\ Types' /\ IdInv' /\ fc = NoClose
      /\ UNCHANGED <<alloc_id, sock, lock, call, pipe, said, sent, cmds, fc, aborted, stale,
                     torn, outside>>
      /\ \A e \in batch' :
                /\ e.s \in Slot /\ e.id = sock[e.s].id /\ sock[e.s].id \in Id
                /\ sock[e.s].type \in Live
                /\ e.read => sock[e.s].reading
                /\ e.eof => net[sock[e.s].id] \in {"rst", "hup"} \/ sock[e.s].type = "HALFCLOSE_WRITE"
  BY WaitView
<1>. QED BY <1>1 DEF Grow, outside

-----------------------------------------------------------------------------
(* Calls and requests                                                       *)

\* A step that is none of a worker; the socket thread may take the first command.
Quiet ==
    /\ call' = call /\ sent' = sent /\ lock' = lock
    /\ \E d \in {0, 1} : \A p \in DOMAIN pipe' : p + d \in DOMAIN pipe /\ pipe'[p] = pipe[p + d]

LEMMA QuietPipe == ASSUME Types, call' = call, sent' = sent, lock' = lock, pipe' = pipe PROVE Quiet
<1>1. \A p \in DOMAIN pipe : p + 0 = p
  BY DEF Types
<1>. QED BY <1>1 DEF Quiet

LEMMA QuietCtrl == ASSUME Types, IdInv, NEW c, CtrlFrame(c) PROVE Quiet
<1>1. /\ call' = call /\ sent' = sent /\ lock' = lock
      /\ \A p \in DOMAIN pipe' : p + 1 \in DOMAIN pipe /\ pipe'[p] = pipe[p + 1]
  BY CtrlFacts
<1>. QED BY <1>1 DEF Quiet

LEMMA QuietEvent == ASSUME Types, IdInv, NEW e, EventFrame(e) PROVE Quiet
<1>1. call' = call /\ sent' = sent /\ lock' = lock /\ pipe' = pipe
  BY EventFacts
<1>. QED BY <1>1, QuietPipe

\* What a worker's step does to the calls, the pipe and the messages.
AskedBy(w) ==
    /\ \A v \in Worker : v # w => call'[v] = call[v]
    /\ \/ /\ sent' = sent
          /\ \/ call'[w].at \notin Msg /\ call'[w].at # "O"
             \/ call'[w].at = "O"
             \/ /\ call[w].at \in Msg /\ call'[w].at \in Msg
                /\ call'[w].id = call[w].id /\ call'[w].m = call[w].m
                /\ call'[w].at = "D" => call[w].at = "inc" /\ ~ sent[call[w].m].low
                /\ call'[w].at = "P" => call[w].at = "inc" /\ sent[call[w].m].low
                /\ call'[w].at \in {"lock", "write", "W"} => call[w].at \in {"lock", "write"}
                /\ call[w].at # "W"
          /\ \/ pipe' = pipe
             \/ \E c \in Cmd : /\ pipe' = Append(pipe, c) /\ c.c \notin Data
                               /\ c.c = "W" => Open(c.id)
                               /\ c.c \in {"K", "Q", "R", "S"} => said[c.id] \cap {"OPEN", "ACCEPT"} # {}
                               /\ c.c = "Q" => "SHUTDOWN" \in said'[c.id]
             \/ /\ call[w].at \in Data /\ call'[w].at = "idle"
                /\ \E c \in Cmd : /\ pipe' = Append(pipe, c)
                                  /\ c.c = call[w].at /\ c.id = call[w].id /\ c.m = call[w].m
       \/ /\ pipe' = pipe
          /\ \E id \in Id, low \in BOOLEAN :
               /\ Open(id) /\ ~ Invalid(id) /\ (low \/ ~ sock[HASH_ID(id)].closing)
               /\ sent'[Len(sent) + 1] = [w |-> w, id |-> id, low |-> low]
               /\ call'[w].at \in {"lock", "inc"} /\ call'[w].id = id /\ call'[w].m = Len(sent) + 1
               /\ low => call'[w].at = "inc"
          /\ DOMAIN sent' = DOMAIN sent \cup {Len(sent) + 1} /\ Len(sent) + 1 \notin DOMAIN sent
          /\ Len(sent) + 1 \in Nat
          /\ \A n \in DOMAIN sent : n \in Nat /\ n < Len(sent) + 1 /\ sent'[n] = sent[n]

LEMMA WorkerAsks ==
    ASSUME Types, IdInv, LockInv, AskInv, NEW s \in Slot, NEW w \in Worker, WorkerAt(s, w)
    PROVE  AskedBy(w)
<1>1. ASSUME ConnectNew(w)
      PROVE  AskedBy(w)
  <2>1. /\ CallTo(w, [at |-> "O", id |-> NextId, m |-> 0])
        /\ UNCHANGED <<lock, pipe, said, sent, cmds, thread, outside>>
    BY <1>1, ConnectNewView
  <2>2. call'[w].at = "O" /\ \A v \in Worker : v # w => call'[v] = call[v]
    BY <2>1 DEF CallTo
  <2>. QED BY <2>1, <2>2 DEF AskedBy
<1>2. ASSUME NEW cmd \in {"K", "Q", "R", "S"}, NEW id \in Id, Command(w, cmd, id)
      PROVE  AskedBy(w)
  <2> DEFINE c == [c |-> cmd, id |-> id, m |-> 0]
  <2>1. /\ pipe' = Append(pipe, c) /\ c \in Cmd
        /\ said[id] \cap {"OPEN", "ACCEPT"} # {}
        /\ \A i \in Id : said'[i] = said[i] \cup IF i = id /\ cmd = "Q" THEN {"SHUTDOWN"} ELSE {}
        /\ UNCHANGED <<alloc_id, sock, lock, call, sent, thread, outside>>
    BY <1>2, CommandView
  <2>2. c.c = cmd /\ c.id = id /\ call[w].at = "idle" /\ c.c \notin Data /\ c.c # "W"
    BY <1>2 DEF Command, NoCall, Data
  <2>3. c.c = "Q" => "SHUTDOWN" \in said'[c.id]
    BY <2>1, <2>2
  <2> HIDE DEF c
  <2>4. call'[w].at \notin Msg /\ call'[w].at # "O" /\ sent' = sent /\ call' = call
    BY <2>1, <2>2 DEF Msg
  <2>. QED BY <2>1, <2>2, <2>3, <2>4 DEF AskedBy
<1>3. ASSUME NEW id \in Id, NEW low \in BOOLEAN, Send(w, id, low)
      PROVE  AskedBy(w)
  <2>1. /\ "OPEN" \in said[id] /\ ~ Invalid(id) /\ (low \/ ~ sock[HASH_ID(id)].closing)
        /\ DOMAIN sent' = DOMAIN sent \cup {Len(sent) + 1} /\ Len(sent) + 1 \notin DOMAIN sent
        /\ Len(sent) + 1 \in Nat
        /\ \A n \in DOMAIN sent : n \in Nat /\ n < Len(sent) + 1 /\ sent'[n] = sent[n]
        /\ sent'[Len(sent) + 1] = [w |-> w, id |-> id, low |-> low]
        /\ \E at \in {"lock", "inc"} : /\ CallTo(w, [at |-> at, id |-> id, m |-> Len(sent) + 1])
                                       /\ low => at = "inc"
        /\ pipe' = pipe
    BY <1>3, SendView
  <2>2. /\ call'[w].at \in {"lock", "inc"} /\ call'[w].id = id /\ call'[w].m = Len(sent) + 1
        /\ low => call'[w].at = "inc"
        /\ \A v \in Worker : v # w => call'[v] = call[v]
    BY <2>1 DEF CallTo
  <2>. QED BY <2>1, <2>2 DEF AskedBy, Open
<1>4. ASSUME Request(w)
      PROVE  AskedBy(w)
  <2> DEFINE c == [c |-> "O", id |-> call[w].id, m |-> 0]
  <2>1. /\ CallTo(w, NoCall) /\ pipe' = Append(pipe, c) /\ c \in Cmd
        /\ UNCHANGED <<alloc_id, lock, sent, cmds, thread, outside>>
    BY <1>4, RequestView
  <2>2. c.c = "O" /\ c.c \notin Data
    BY DEF Data
  <2>3. /\ call'[w].at \notin Msg /\ call'[w].at # "O" /\ sent' = sent
        /\ \A v \in Worker : v # w => call'[v] = call[v]
    BY <2>1 DEF CallTo, NoCall, Msg
  <2> HIDE DEF c
  <2>. QED BY <2>1, <2>2, <2>3 DEF AskedBy
<1>5. ASSUME Locked(w) \/ NotLocked(w)
      PROVE  AskedBy(w)
  <2>1. /\ call[w].at = "lock" /\ call'[w].at \in {"write", "inc"}
        /\ call'[w].id = call[w].id /\ call'[w].m = call[w].m
        /\ \A v \in Worker : v # w => call'[v] = call[v]
        /\ sent' = sent /\ pipe' = pipe
    BY <1>5, LockedView, NotLockedView DEF CallTo
  <2>. QED BY <2>1 DEF AskedBy, Msg
<1>6. ASSUME Counted(w) \/ NotCounted(w)
      PROVE  AskedBy(w)
  <2>1. /\ call[w].at = "inc" /\ call'[w].at = (IF sent[call[w].m].low THEN "P" ELSE "D")
        /\ call'[w].id = call[w].id /\ call'[w].m = call[w].m
        /\ \A v \in Worker : v # w => call'[v] = call[v]
        /\ sent' = sent /\ pipe' = pipe
    BY <1>6, CountedView, NotCountedView DEF CallTo
  <2>. QED BY <2>1 DEF AskedBy, Msg
<1>7. ASSUME Push(w)
      PROVE  AskedBy(w)
  <2> DEFINE c == [c |-> call[w].at, id |-> call[w].id, m |-> call[w].m]
  <2>1. /\ CallTo(w, NoCall) /\ pipe' = Append(pipe, c) /\ c \in Cmd
        /\ call[w].at \in {"W", "D", "P"} /\ call[w].id \in Id
        /\ UNCHANGED <<alloc_id, sock, lock, said, sent, cmds, thread, outside>>
    BY <1>7, PushView
  <2>2. c.c = call[w].at /\ c.id = call[w].id /\ c.m = call[w].m
    OBVIOUS
  <2>3. /\ call'[w].at \notin Msg /\ call'[w].at = "idle" /\ sent' = sent
        /\ \A v \in Worker : v # w => call'[v] = call[v]
    BY <2>1 DEF CallTo, NoCall, Msg
  <2>4. Open(call[w].id)
    BY <2>1 DEF AskInv, Msg
  <2> HIDE DEF c
  <2>5. CASE call[w].at = "W"
    BY <2>1, <2>2, <2>3, <2>4, <2>5 DEF AskedBy, Data
  <2>6. CASE call[w].at \in Data
    BY <2>1, <2>2, <2>3, <2>4, <2>6 DEF AskedBy
  <2>. QED BY <2>1, <2>5, <2>6 DEF Data
<1>8. ASSUME NEW k \in 0 .. MsgSize, DirectWrite(w, k)
      PROVE  AskedBy(w)
  <2>1. /\ call[w].at = "write"
        /\ CallTo(w, call'[w])
        /\ call'[w] = (IF k = MsgSize THEN NoCall ELSE call'[w])
        /\ k # MsgSize => /\ call'[w].at = "W" /\ call'[w].id = call[w].id
                          /\ call'[w].m = call[w].m
        /\ UNCHANGED <<alloc_id, pipe, net, said, sent, cmds, peers, thread>>
    BY <1>8, DirectWriteView
  <2>2. /\ sent' = sent /\ pipe' = pipe
        /\ \A v \in Worker : v # w => call'[v] = call[v]
    BY <2>1 DEF CallTo
  <2>3. CASE k = MsgSize
    <3>1. call'[w].at \notin Msg /\ call'[w].at # "O"
      BY <2>1, <2>3 DEF Msg, NoCall
    <3>. QED BY <2>2, <3>1 DEF AskedBy
  <2>4. CASE k # MsgSize
    BY <2>1, <2>2, <2>4 DEF AskedBy, Msg
  <2>. QED BY <2>3, <2>4
<1>. QED BY <1>1, <1>2, <1>3, <1>4, <1>5, <1>6, <1>7, <1>8 DEF WorkerAt

LEMMA SentType ==
    ASSUME Types
    PROVE  \A m \in DOMAIN sent : /\ sent[m] \in Message /\ m \in Nat /\ sent[m].id \in Id
                                  /\ sent[m].w \in Worker /\ sent[m].low \in BOOLEAN
<1>1. sent \in Seq(Message)
  BY DEF Types
<1>2. \A m \in DOMAIN sent : sent[m] \in Message /\ m \in Nat
  BY <1>1
<1>. QED BY <1>2 DEF Message

LEMMA AskQuiet ==
    ASSUME Types, IdInv, AskInv, Grow, Quiet
    PROVE  AskInv'
<1>0. call' = call /\ sent' = sent /\ \A i \in Id : said[i] \subseteq said'[i]
  BY DEF Quiet, Grow
<1>1. \A w \in Worker : call[w].at \in Msg => call[w].id \in Id
  BY DEF IdInv, Msg
<1>2. \A p \in DOMAIN pipe : pipe[p].id \in Id
  BY PipeType
<1>3. \A m \in DOMAIN sent : sent[m].id \in Id
  BY SentType
<1>4. \A p \in DOMAIN pipe' : \E q \in DOMAIN pipe : pipe'[p] = pipe[q]
  BY DEF Quiet
<1>5. \A p \in DOMAIN pipe :
         /\ pipe[p].c \in {"W", "D", "P"} => "OPEN" \in said'[pipe[p].id]
         /\ pipe[p].c \in {"K", "Q", "R", "S"} => said'[pipe[p].id] \cap {"OPEN", "ACCEPT"} # {}
         /\ pipe[p].c = "Q" => "SHUTDOWN" \in said'[pipe[p].id]
  BY <1>0, <1>2 DEF AskInv, Open
<1>6. \A w \in Worker : call'[w].at \in Msg => "OPEN" \in said'[call'[w].id]
  BY <1>0, <1>1 DEF AskInv, Open
<1>7. \A m \in DOMAIN sent' : "OPEN" \in said'[sent'[m].id]
  BY <1>0, <1>3 DEF AskInv, Open
<1>8. \A p \in DOMAIN pipe' :
         /\ pipe'[p].c \in {"W", "D", "P"} => "OPEN" \in said'[pipe'[p].id]
         /\ pipe'[p].c \in {"K", "Q", "R", "S"} => said'[pipe'[p].id] \cap {"OPEN", "ACCEPT"} # {}
         /\ pipe'[p].c = "Q" => "SHUTDOWN" \in said'[pipe'[p].id]
  BY <1>4, <1>5
<1>. QED BY <1>6, <1>7, <1>8 DEF AskInv, Open

LEMMA AskWorker ==
    ASSUME Types, IdInv, AskInv, Grow, NEW w \in Worker, AskedBy(w)
    PROVE  AskInv'
<1>0. \A i \in Id : said[i] \subseteq said'[i]
  BY DEF Grow
<1>1. \A v \in Worker : call[v].at \in Msg => call[v].id \in Id /\ "OPEN" \in said'[call[v].id]
  BY <1>0 DEF IdInv, Msg, AskInv, Open
<1>3. \A m \in DOMAIN sent : "OPEN" \in said'[sent[m].id]
  <2>1. \A m \in DOMAIN sent : sent[m].id \in Id
    BY SentType
  <2>. QED BY <1>0, <2>1 DEF AskInv, Open
<1>5. \A p \in DOMAIN pipe :
         /\ pipe[p].c \in {"W", "D", "P"} => "OPEN" \in said'[pipe[p].id]
         /\ pipe[p].c \in {"K", "Q", "R", "S"} => said'[pipe[p].id] \cap {"OPEN", "ACCEPT"} # {}
         /\ pipe[p].c = "Q" => "SHUTDOWN" \in said'[pipe[p].id]
  BY <1>0, PipeType DEF AskInv, Open
<1>6. \A v \in Worker : call'[v].at \in Msg => "OPEN" \in said'[call'[v].id]
  <2>1. \A v \in Worker : v # w => call'[v] = call[v]
    BY DEF AskedBy
  <2>2. call'[w].at \in Msg =>
          \/ call[w].at \in Msg /\ call'[w].id = call[w].id
          \/ \E id \in Id : call'[w].id = id /\ "OPEN" \in said[id]
    BY DEF AskedBy, Msg, Open
  <2>. QED BY <1>0, <1>1, <2>1, <2>2
<1>7. \A m \in DOMAIN sent' : "OPEN" \in said'[sent'[m].id]
  <2>1. CASE sent' = sent
    BY <1>3, <2>1
  <2>2. CASE /\ \E id \in Id, low \in BOOLEAN :
                  "OPEN" \in said[id] /\ sent'[Len(sent) + 1] = [w |-> w, id |-> id, low |-> low]
             /\ DOMAIN sent' = DOMAIN sent \cup {Len(sent) + 1}
             /\ \A n \in DOMAIN sent : sent'[n] = sent[n]
    BY <1>0, <1>3, <2>2
  <2>. QED BY <2>1, <2>2 DEF AskedBy, Open
<1>8. \A p \in DOMAIN pipe' :
         /\ pipe'[p].c \in {"W", "D", "P"} => "OPEN" \in said'[pipe'[p].id]
         /\ pipe'[p].c \in {"K", "Q", "R", "S"} => said'[pipe'[p].id] \cap {"OPEN", "ACCEPT"} # {}
         /\ pipe'[p].c = "Q" => "SHUTDOWN" \in said'[pipe'[p].id]
  <2> DEFINE Fine == \A p \in DOMAIN pipe' :
               /\ pipe'[p].c \in {"W", "D", "P"} => "OPEN" \in said'[pipe'[p].id]
               /\ pipe'[p].c \in {"K", "Q", "R", "S"} => said'[pipe'[p].id] \cap {"OPEN", "ACCEPT"} # {}
               /\ pipe'[p].c = "Q" => "SHUTDOWN" \in said'[pipe'[p].id]
  <2>1. CASE pipe' = pipe
    BY <1>5, <2>1
  <2>2. ASSUME NEW c \in Cmd, pipe' = Append(pipe, c),
               /\ c.c \in {"W", "D", "P"} => "OPEN" \in said'[c.id]
               /\ c.c \in {"K", "Q", "R", "S"} => said'[c.id] \cap {"OPEN", "ACCEPT"} # {}
               /\ c.c = "Q" => "SHUTDOWN" \in said'[c.id]
        PROVE  Fine
    <3>1. /\ DOMAIN pipe = 1 .. Len(pipe) /\ DOMAIN pipe' = 1 .. Len(pipe) + 1 /\ Len(pipe) \in Nat
          /\ \A p \in DOMAIN pipe : pipe'[p] = pipe[p]
          /\ pipe'[Len(pipe) + 1] = c
      BY <2>2, AppendPipe
    <3>2. \A p \in DOMAIN pipe' : p \in DOMAIN pipe \/ pipe'[p] = c
      BY <3>1
    <3>. QED BY <1>5, <2>2, <3>1, <3>2
  <2>3. \/ pipe' = pipe
        \/ \E c \in Cmd : /\ pipe' = Append(pipe, c)
                          /\ c.c \in {"W", "D", "P"} => "OPEN" \in said'[c.id]
                          /\ c.c \in {"K", "Q", "R", "S"} => said'[c.id] \cap {"OPEN", "ACCEPT"} # {}
                          /\ c.c = "Q" => "SHUTDOWN" \in said'[c.id]
    <3>1. CASE pipe' = pipe
      BY <3>1
    <3>2. ASSUME NEW c \in Cmd, pipe' = Append(pipe, c), c.c \notin Data,
                 c.c = "W" => Open(c.id),
                 c.c \in {"K", "Q", "R", "S"} => said[c.id] \cap {"OPEN", "ACCEPT"} # {},
                 c.c = "Q" => "SHUTDOWN" \in said'[c.id]
          PROVE  <2>3!2
      <4>1. c.id \in Id
        BY DEF Cmd
      <4>2. said[c.id] \subseteq said'[c.id]
        BY <1>0, <4>1
      <4>. QED BY <3>2, <4>2 DEF Data, Open
    <3>3. ASSUME call[w].at \in Data, NEW c \in Cmd, pipe' = Append(pipe, c),
                 c.c = call[w].at, c.id = call[w].id
          PROVE  <2>3!2
      <4>1. "OPEN" \in said'[c.id]
        BY <1>1, <3>3 DEF Data, Msg
      <4>. QED BY <3>3, <4>1 DEF Data
    <3>. QED BY <3>1, <3>2, <3>3 DEF AskedBy
  <2>. QED BY <2>1, <2>2, <2>3
<1>. QED BY <1>6, <1>7, <1>8 DEF AskInv, Open

\* No message comes back on the way once it has left it.
LEMMA BeforeQuiet == ASSUME Quiet, NEW m, Before(m)' PROVE Before(m)
BY DEF Quiet, Before

LEMMA BeforeWorker ==
    ASSUME Types, NEW w \in Worker, AskedBy(w), NEW m \in DOMAIN sent, Before(m)'
    PROVE  Before(m)
<1>1. CASE \E v \in Worker : call'[v].at \in Msg \ {"W"} /\ call'[v].m = m
  <2>1. PICK v \in Worker : call'[v].at \in Msg \ {"W"} /\ call'[v].m = m
    BY <1>1
  <2>2. call[v].at \in Msg \ {"W"} /\ call[v].m = m
    BY <2>1 DEF AskedBy, Msg
  <2>. QED BY <2>2 DEF Before
<1>2. CASE \E p \in DOMAIN pipe' : pipe'[p].c \in Data /\ pipe'[p].m = m
  <2>1. PICK p \in DOMAIN pipe' : pipe'[p].c \in Data /\ pipe'[p].m = m
    BY <1>2
  <2>2. CASE p \in DOMAIN pipe /\ pipe'[p] = pipe[p]
    BY <2>1, <2>2 DEF Before
  <2>3. CASE ~ (p \in DOMAIN pipe /\ pipe'[p] = pipe[p])
    <3>1. pipe' # pipe
      BY <2>1, <2>3
    <3>2. ASSUME NEW c \in Cmd, pipe' = Append(pipe, c)
          PROVE  pipe'[p] = c
      <4>1. /\ DOMAIN pipe = 1 .. Len(pipe) /\ DOMAIN pipe' = 1 .. Len(pipe) + 1 /\ Len(pipe) \in Nat
            /\ \A q \in DOMAIN pipe : pipe'[q] = pipe[q]
            /\ pipe'[Len(pipe) + 1] = c
        BY <3>2, AppendPipe
      <4>. QED BY <2>1, <2>3, <4>1
    <3>3. call[w].at \in Data /\ call[w].m = m
      BY <2>1, <3>1, <3>2 DEF AskedBy
    <3>. QED BY <3>3 DEF Before, Data, Msg
  <2>. QED BY <2>2, <2>3
<1>. QED BY <1>1, <1>2 DEF Before

LEMMA CallQuiet == ASSUME CallInv, Quiet PROVE CallInv'
<1>1. call' = call /\ sent' = sent /\ \A p \in DOMAIN pipe' : \E q \in DOMAIN pipe : pipe'[p] = pipe[q]
  BY DEF Quiet
<1>. QED BY <1>1 DEF CallInv

LEMMA PipeQuiet == ASSUME Types, Types', PipeInv, Quiet PROVE PipeInv'
<1>1. PICK d \in {0, 1} : \A p \in DOMAIN pipe' : p + d \in DOMAIN pipe /\ pipe'[p] = pipe[p + d]
  BY DEF Quiet
<1>2. sent' = sent
  BY DEF Quiet
<1>3. \A p \in DOMAIN pipe' : p \in Nat
  BY DEF Types
<1>4. \A p, q \in DOMAIN pipe' : (p + d = q + d => p = q) /\ (q < p => q + d < p + d)
  BY <1>3
<1>5. ASSUME NEW p \in DOMAIN pipe', pipe'[p].c \in Data
      PROVE  /\ pipe'[p].m \in DOMAIN sent /\ sent[pipe'[p].m].id = pipe'[p].id
             /\ sent[pipe'[p].m].low <=> pipe'[p].c = "P"
             /\ \A q \in DOMAIN pipe' : pipe'[q].c \in Data /\ pipe'[q].m = pipe'[p].m => q = p
             /\ \A q \in DOMAIN pipe' :
                  q < p /\ pipe'[p].c = "D" /\ pipe'[q].c = "D" /\ sent[pipe'[q].m].w = sent[pipe'[p].m].w
                  => pipe'[q].m < pipe'[p].m
  BY <1>1, <1>4, <1>5 DEF PipeInv
<1>. QED BY <1>2, <1>5 DEF PipeInv

\* The three ways in which a worker's step concerns messages.
LEMMA AskedCases ==
    ASSUME NEW w \in Worker, AskedBy(w)
    PROVE  \/ /\ sent' = sent
              /\ \/ pipe' = pipe
                 \/ \E c \in Cmd : pipe' = Append(pipe, c) /\ c.c \notin Data
           \/ /\ sent' = sent /\ call[w].at \in Data /\ call'[w].at = "idle"
              /\ \E c \in Cmd : /\ pipe' = Append(pipe, c)
                                /\ c.c = call[w].at /\ c.id = call[w].id /\ c.m = call[w].m
           \/ /\ pipe' = pipe
              /\ \E id \in Id, low \in BOOLEAN :
                   /\ sent'[Len(sent) + 1] = [w |-> w, id |-> id, low |-> low]
                   /\ call'[w].at \in {"lock", "inc"} /\ call'[w].id = id /\ call'[w].m = Len(sent) + 1
                   /\ low => call'[w].at = "inc"
              /\ DOMAIN sent' = DOMAIN sent \cup {Len(sent) + 1} /\ Len(sent) + 1 \notin DOMAIN sent
              /\ Len(sent) + 1 \in Nat
              /\ \A n \in DOMAIN sent : n \in Nat /\ n < Len(sent) + 1 /\ sent'[n] = sent[n]
BY DEF AskedBy

\* The data requests of the pipe with one more command.
LEMMA PlainAppend ==
    ASSUME Types, NEW c \in Cmd, pipe' = Append(pipe, c)
    PROVE  /\ \A p \in DOMAIN pipe : p \in Nat /\ p \in DOMAIN pipe' /\ pipe'[p] = pipe[p]
           /\ \A p \in DOMAIN pipe' : /\ p \in Nat
                                      /\ \/ p \in DOMAIN pipe /\ pipe'[p] = pipe[p]
                                         \/ p \notin DOMAIN pipe /\ pipe'[p] = c /\ p = Len(pipe) + 1
           /\ \A p \in DOMAIN pipe : p < Len(pipe) + 1
           /\ Len(pipe) + 1 \in DOMAIN pipe' /\ pipe'[Len(pipe) + 1] = c
<1>1. /\ DOMAIN pipe = 1 .. Len(pipe) /\ DOMAIN pipe' = 1 .. Len(pipe) + 1 /\ Len(pipe) \in Nat
      /\ \A p \in DOMAIN pipe : pipe'[p] = pipe[p]
      /\ pipe'[Len(pipe) + 1] = c
  BY AppendPipe
<1>. QED BY <1>1

LEMMA CallWorker ==
    ASSUME Types, IdInv, CallInv, PipeInv, NEW w \in Worker, AskedBy(w)
    PROVE  CallInv'
<1> DEFINE OK(v) ==
      call'[v].at \in Msg =>
        /\ call'[v].m \in DOMAIN sent' /\ sent'[call'[v].m].w = v /\ sent'[call'[v].m].id = call'[v].id
        /\ sent'[call'[v].m].low => call'[v].at \in {"inc", "P"}
        /\ call'[v].at = "P" => sent'[call'[v].m].low
        /\ \A n \in DOMAIN sent' : sent'[n].w = v => n <= call'[v].m
        /\ call'[v].at # "W" => \A p \in DOMAIN pipe' : pipe'[p].c \in Data => pipe'[p].m # call'[v].m
<1>0. \A v \in Worker : v # w => call'[v] = call[v]
  BY DEF AskedBy
<1>t. \A n \in DOMAIN sent : n \in Nat /\ sent[n].w \in Worker
  BY SentType
<1>1. CASE /\ sent' = sent
           /\ \/ pipe' = pipe
              \/ \E c \in Cmd : pipe' = Append(pipe, c) /\ c.c \notin Data
  <2>1. \A p \in DOMAIN pipe' : pipe'[p].c \in Data => p \in DOMAIN pipe /\ pipe'[p] = pipe[p]
    BY <1>1, PlainAppend
  <2>2. \/ call'[w].at \notin Msg
        \/ /\ call[w].at \in Msg /\ call'[w].at \in Msg
           /\ call'[w].id = call[w].id /\ call'[w].m = call[w].m
           /\ call'[w].at = "D" => call[w].at = "inc" /\ ~ sent[call[w].m].low
           /\ call'[w].at = "P" => call[w].at = "inc" /\ sent[call[w].m].low
           /\ call'[w].at \in {"lock", "write", "W"} => call[w].at \in {"lock", "write"}
           /\ call[w].at # "W"
        \/ sent' # sent
    <3>1. "O" \notin Msg
      BY DEF Msg
    <3>2. CASE sent' = sent
      <4>1. \/ call'[w].at \notin Msg /\ call'[w].at # "O"
            \/ call'[w].at = "O"
            \/ /\ call[w].at \in Msg /\ call'[w].at \in Msg
               /\ call'[w].id = call[w].id /\ call'[w].m = call[w].m
               /\ call'[w].at = "D" => call[w].at = "inc" /\ ~ sent[call[w].m].low
               /\ call'[w].at = "P" => call[w].at = "inc" /\ sent[call[w].m].low
               /\ call'[w].at \in {"lock", "write", "W"} => call[w].at \in {"lock", "write"}
               /\ call[w].at # "W"
        <5>1. ~ (DOMAIN sent' = DOMAIN sent \cup {Len(sent) + 1} /\ Len(sent) + 1 \notin DOMAIN sent)
          BY <3>2
        <5>. QED BY <5>1 DEF AskedBy
      <4>. QED BY <3>1, <4>1
    <3>. QED BY <3>2
  <2>3. ASSUME NEW v \in Worker
        PROVE  OK(v)
    <3>1. CASE v # w
      BY <1>0, <1>1, <2>1, <3>1 DEF CallInv
    <3>2. CASE v = w
      <4>1. CASE call'[w].at \notin Msg
        BY <3>2, <4>1
      <4>2. CASE /\ call[w].at \in Msg /\ call'[w].at \in Msg
                 /\ call'[w].id = call[w].id /\ call'[w].m = call[w].m
                 /\ call'[w].at = "D" => call[w].at = "inc" /\ ~ sent[call[w].m].low
                 /\ call'[w].at = "P" => call[w].at = "inc" /\ sent[call[w].m].low
                 /\ call'[w].at \in {"lock", "write", "W"} => call[w].at \in {"lock", "write"}
                 /\ call[w].at # "W"
        <5>1. /\ call[w].m \in DOMAIN sent /\ sent[call[w].m].w = w /\ sent[call[w].m].id = call[w].id
              /\ sent[call[w].m].low => call[w].at \in {"inc", "P"}
              /\ \A n \in DOMAIN sent : sent[n].w = w => n <= call[w].m
              /\ \A p \in DOMAIN pipe : pipe[p].c \in Data => pipe[p].m # call[w].m
          BY <4>2 DEF CallInv
        <5>2. sent[call[w].m].low => call'[w].at \in {"inc", "P"}
          BY <4>2, <5>1 DEF Msg
        <5>. QED BY <1>1, <2>1, <3>2, <4>2, <5>1, <5>2
      <4>. QED BY <1>1, <2>2, <4>1, <4>2
    <3>. QED BY <3>1, <3>2
  <2>. QED BY <2>3 DEF CallInv
<1>2. CASE /\ sent' = sent /\ call[w].at \in Data /\ call'[w].at = "idle"
           /\ \E c \in Cmd : /\ pipe' = Append(pipe, c)
                             /\ c.c = call[w].at /\ c.id = call[w].id /\ c.m = call[w].m
  <2>1. PICK c \in Cmd : pipe' = Append(pipe, c) /\ c.m = call[w].m
    BY <1>2
  <2>2. \A p \in DOMAIN pipe' : (p \in DOMAIN pipe /\ pipe'[p] = pipe[p]) \/ pipe'[p] = c
    BY <2>1, PlainAppend
  <2>3. sent[call[w].m].w = w
    BY <1>2 DEF CallInv, Data, Msg
  <2>4. ASSUME NEW v \in Worker, v # w, call[v].at \in Msg
        PROVE  call[v].m # call[w].m
    BY <2>3, <2>4 DEF CallInv
  <2>5. ASSUME NEW v \in Worker
        PROVE  OK(v)
    <3>1. CASE v # w
      BY <1>0, <1>2, <2>1, <2>2, <2>4, <3>1 DEF CallInv
    <3>2. CASE v = w
      BY <1>2, <3>2 DEF Msg
    <3>. QED BY <3>1, <3>2
  <2>. QED BY <2>5 DEF CallInv
<1>3. CASE /\ pipe' = pipe
           /\ \E id \in Id, low \in BOOLEAN :
                /\ sent'[Len(sent) + 1] = [w |-> w, id |-> id, low |-> low]
                /\ call'[w].at \in {"lock", "inc"} /\ call'[w].id = id /\ call'[w].m = Len(sent) + 1
                /\ low => call'[w].at = "inc"
           /\ DOMAIN sent' = DOMAIN sent \cup {Len(sent) + 1} /\ Len(sent) + 1 \notin DOMAIN sent
           /\ Len(sent) + 1 \in Nat
           /\ \A n \in DOMAIN sent : n \in Nat /\ n < Len(sent) + 1 /\ sent'[n] = sent[n]
  <2> DEFINE m == Len(sent) + 1
  <2>1. /\ sent'[m].w = w /\ sent'[m].id = call'[w].id
        /\ sent'[m].low => call'[w].at = "inc"
        /\ call'[w].at \in {"lock", "inc"} /\ call'[w].m = m
    BY <1>3
  <2>2. /\ DOMAIN sent' = DOMAIN sent \cup {m} /\ m \notin DOMAIN sent /\ m \in Nat
        /\ \A n \in DOMAIN sent : n \in Nat /\ n < m /\ sent'[n] = sent[n]
        /\ pipe' = pipe
    BY <1>3
  <2> HIDE DEF m
  <2>3. \A p \in DOMAIN pipe : pipe[p].c \in Data => pipe[p].m # m
    BY <2>2 DEF PipeInv
  <2>4. ASSUME NEW v \in Worker
        PROVE  OK(v)
    <3>1. CASE v # w
      <4>1. call'[v] = call[v]
        BY <1>0, <3>1
      <4>2. ASSUME call[v].at \in Msg
            PROVE  /\ call[v].m \in DOMAIN sent /\ sent[call[v].m].w = v /\ sent[call[v].m].id = call[v].id
                   /\ sent[call[v].m].low => call[v].at \in {"inc", "P"}
                   /\ call[v].at = "P" => sent[call[v].m].low
                   /\ \A n \in DOMAIN sent : sent[n].w = v => n <= call[v].m
                   /\ call[v].at # "W" => \A p \in DOMAIN pipe : pipe[p].c \in Data => pipe[p].m # call[v].m
        BY <4>2 DEF CallInv
      <4>. QED BY <2>1, <2>2, <3>1, <4>1, <4>2
    <3>2. CASE v = w
      <4>1. \A n \in DOMAIN sent' : n <= m
        BY <2>2
      <4>. QED BY <2>1, <2>2, <2>3, <3>2, <4>1
    <3>. QED BY <3>1, <3>2
  <2>. QED BY <2>4 DEF CallInv
<1>. QED BY <1>1, <1>2, <1>3, AskedCases

LEMMA PipeWorker ==
    ASSUME Types, CallInv, PipeInv, NEW w \in Worker, AskedBy(w)
    PROVE  PipeInv'
<1> DEFINE OK(p) ==
      pipe'[p].c \in Data =>
        /\ pipe'[p].m \in DOMAIN sent' /\ sent'[pipe'[p].m].id = pipe'[p].id
        /\ sent'[pipe'[p].m].low <=> pipe'[p].c = "P"
        /\ \A q \in DOMAIN pipe' : pipe'[q].c \in Data /\ pipe'[q].m = pipe'[p].m => q = p
        /\ \A q \in DOMAIN pipe' :
             q < p /\ pipe'[p].c = "D" /\ pipe'[q].c = "D" /\ sent'[pipe'[q].m].w = sent'[pipe'[p].m].w
             => pipe'[q].m < pipe'[p].m
<1>1. CASE /\ sent' = sent
           /\ \/ pipe' = pipe
              \/ \E c \in Cmd : pipe' = Append(pipe, c) /\ c.c \notin Data
  <2>1. \A p \in DOMAIN pipe' : pipe'[p].c \in Data => p \in DOMAIN pipe /\ pipe'[p] = pipe[p]
    BY <1>1, PlainAppend
  <2>2. "D" \in Data
    BY DEF Data
  <2>3. ASSUME NEW p \in DOMAIN pipe'
        PROVE  OK(p)
    BY <1>1, <2>1, <2>2 DEF PipeInv
  <2>. QED BY <2>3 DEF PipeInv
<1>2. CASE /\ sent' = sent /\ call[w].at \in Data /\ call'[w].at = "idle"
           /\ \E c \in Cmd : /\ pipe' = Append(pipe, c)
                             /\ c.c = call[w].at /\ c.id = call[w].id /\ c.m = call[w].m
  <2>1. PICK c \in Cmd : /\ pipe' = Append(pipe, c)
                         /\ c.c = call[w].at /\ c.id = call[w].id /\ c.m = call[w].m
    BY <1>2
  <2> DEFINE l == Len(pipe) + 1
  <2>2. /\ \A p \in DOMAIN pipe' : \/ p \in DOMAIN pipe /\ pipe'[p] = pipe[p] /\ p # l
                                   \/ p = l
        /\ \A p \in DOMAIN pipe : p \in Nat /\ p < l
        /\ pipe'[l] = c /\ l \in Nat
    BY <2>1, PlainAppend
  <2> HIDE DEF l
  <2>3. /\ c.m \in DOMAIN sent /\ sent[c.m].w = w /\ sent[c.m].id = c.id
        /\ sent[c.m].low <=> c.c = "P"
        /\ \A n \in DOMAIN sent : sent[n].w = w => n <= c.m
        /\ \A p \in DOMAIN pipe : pipe[p].c \in Data => pipe[p].m # c.m
    BY <1>2, <2>1 DEF CallInv, Data, Msg
  <2>4. sent' = sent
    BY <1>2
  <2>5. \A n \in DOMAIN sent : n \in Nat
    BY SentType
  <2>6. "D" \in Data
    BY DEF Data
  <2>7. ASSUME NEW p \in DOMAIN pipe'
        PROVE  OK(p)
    <3>1. CASE p = l
      <4>1. \A q \in DOMAIN pipe' : pipe'[q].c \in Data /\ pipe'[q].m = c.m => q = l
        BY <2>2, <2>3
      <4>2. \A q \in DOMAIN pipe' : q < l /\ pipe'[q].c = "D" /\ sent[pipe'[q].m].w = w => pipe'[q].m < c.m
        <5>1. ASSUME NEW q \in DOMAIN pipe, pipe[q].c = "D", sent[pipe[q].m].w = w
              PROVE  pipe[q].m < c.m
          <6>1. pipe[q].m \in DOMAIN sent /\ pipe[q].m # c.m
            BY <2>3, <2>6, <5>1 DEF PipeInv
          <6>. QED BY <2>3, <2>5, <5>1, <6>1
        <5>2. \A q \in DOMAIN pipe' : q < l => q \in DOMAIN pipe /\ pipe'[q] = pipe[q]
          BY <2>2
        <5>. QED BY <5>1, <5>2
      <4>. QED BY <2>2, <2>3, <2>4, <3>1, <4>1, <4>2
    <3>2. CASE p # l
      <4>1. p \in DOMAIN pipe /\ pipe'[p] = pipe[p] /\ p < l
        BY <2>2, <3>2
      <4>2. \A q \in DOMAIN pipe' : q < p => q \in DOMAIN pipe /\ pipe'[q] = pipe[q]
        BY <2>2, <4>1
      <4>3. ASSUME pipe[p].c \in Data, NEW q \in DOMAIN pipe', pipe'[q].c \in Data, pipe'[q].m = pipe[p].m
            PROVE  q = p
        <5>1. q # l
          BY <2>2, <2>3, <4>1, <4>3
        <5>. QED BY <2>2, <4>1, <4>3, <5>1 DEF PipeInv
      <4>. QED BY <2>4, <4>1, <4>2, <4>3 DEF PipeInv
    <3>. QED BY <3>1, <3>2
  <2>. QED BY <2>7 DEF PipeInv
<1>3. CASE /\ pipe' = pipe
           /\ \A n \in DOMAIN sent : n \in Nat /\ n < Len(sent) + 1 /\ sent'[n] = sent[n]
           /\ DOMAIN sent' = DOMAIN sent \cup {Len(sent) + 1}
  <2>1. "D" \in Data
    BY DEF Data
  <2>2. ASSUME NEW p \in DOMAIN pipe'
        PROVE  OK(p)
    <3>1. \A q \in DOMAIN pipe : pipe[q].c \in Data =>
             pipe[q].m \in DOMAIN sent' /\ sent'[pipe[q].m] = sent[pipe[q].m]
      BY <1>3 DEF PipeInv
    <3>. QED BY <1>3, <2>1, <3>1 DEF PipeInv
  <2>. QED BY <2>2 DEF PipeInv
<1>. QED BY <1>1, <1>2, <1>3, AskedCases

-----------------------------------------------------------------------------
(* A slot that a step does not touch keeps its invariants                   *)

\* The part of LockInv about slot s.
LockAt(s) ==
    /\ \A w \in Worker : call[w].at = "write" /\ HASH_ID(call[w].id) = s => lock[s] = w
    /\ lock[s] # None =>
         /\ call[lock[s]].at = "write" /\ HASH_ID(call[lock[s]].id) = s
         /\ sock[s].id # 0
         /\ s \notin torn => /\ sock[s].id = call[lock[s]].id /\ sock[s].dw = << >>
                             /\ sock[s].type \in {"CONNECTED", "HALFCLOSE_READ"}

LEMMA LockSlots ==
    ASSUME Types, IdInv
    PROVE  LockInv <=> \A s \in Slot : LockAt(s)
<1>1. \A w \in Worker : call[w].at = "write" => HASH_ID(call[w].id) \in Slot
  BY CallSlot
<1>2. ASSUME LockInv PROVE \A s \in Slot : LockAt(s)
  BY <1>2 DEF LockInv, LockAt
<1>3. ASSUME \A s \in Slot : LockAt(s) PROVE LockInv
  BY <1>1, <1>3 DEF LockInv, LockAt
<1>. QED BY <1>2, <1>3

\* The calls that are about slot t do not change.
LEMMA ApartCall ==
    ASSUME NEW t, Apart(t), NEW w \in Worker
    PROVE  /\ call[w].at # "idle" /\ HASH_ID(call[w].id) = t => call'[w] = call[w]
           /\ call'[w].at # "idle" /\ HASH_ID(call'[w].id) = t => call'[w] = call[w]
BY DEF Apart

LEMMA LockFrame ==
    ASSUME Types, NEW t \in Slot, Apart(t), Grow, LockAt(t)
    PROVE  LockAt(t)'
<1>1. sock'[t] = sock[t] /\ lock'[t] = lock[t] /\ (t \notin torn' => t \notin torn)
  BY DEF Apart, Grow
<1>2. ASSUME NEW w \in Worker, call'[w].at = "write", HASH_ID(call'[w].id) = t
      PROVE  lock'[t] = w
  BY <1>1, <1>2, ApartCall DEF LockAt
<1>3. ASSUME lock'[t] # None
      PROVE  call'[lock'[t]] = call[lock[t]]
  <2>1. lock[t] \in Worker /\ lock[t] # None
    BY <1>1, <1>3 DEF Types
  <2>2. call[lock[t]].at = "write" /\ HASH_ID(call[lock[t]].id) = t
    BY <2>1 DEF LockAt
  <2>. QED BY <1>1, <2>1, <2>2, ApartCall
<1>. QED BY <1>1, <1>2, <1>3 DEF LockAt

\* The commands that are about slot t stay, in their order.
LEMMA ApartPipe ==
    ASSUME Types, Types', NEW t, Apart(t)
    PROVE  \E d \in {0, 1} :
             /\ \A p \in DOMAIN pipe' : HASH_ID(pipe'[p].id) = t =>
                  p + d \in DOMAIN pipe /\ pipe'[p] = pipe[p + d] /\ p \in Nat
             /\ \A p \in DOMAIN pipe : HASH_ID(pipe[p].id) = t =>
                  p - d \in DOMAIN pipe' /\ pipe'[p - d] = pipe[p] /\ p \in Nat
<1>1. PICK d \in {0, 1} :
        /\ \A p \in DOMAIN pipe' :
             HASH_ID(pipe'[p].id) = t => p + d \in DOMAIN pipe /\ pipe'[p] = pipe[p + d]
        /\ \A p \in DOMAIN pipe :
             HASH_ID(pipe[p].id) = t => p - d \in DOMAIN pipe' /\ pipe'[p - d] = pipe[p]
  BY DEF Apart, PipeApart
<1>2. \A p \in DOMAIN pipe' : p \in Nat
  BY DEF Types
<1>3. \A p \in DOMAIN pipe : p \in Nat
  BY DEF Types
<1>. QED BY <1>1, <1>2, <1>3

LEMMA ApartFc ==
    ASSUME Types, Types', IdInv, IdInv', NEW t, Apart(t), NEW i \in Id, HASH_ID(i) = t,
           fc'.id = i \/ fc.id = i
    PROVE  fc' = fc
<1>1. i # 0
  BY IdType
<1>2. ASSUME fc.id = i PROVE fc.at # "no" /\ fc.s = t
  BY <1>1, <1>2 DEF IdInv, NoClose
<1>3. ASSUME fc'.id = i PROVE fc'.at # "no" /\ fc'.s = t
  BY <1>1, <1>3 DEF IdInv, NoClose
<1>. QED BY <1>2, <1>3 DEF Apart

LEMMA PendingFrame ==
    ASSUME Types, IdInv, Types', IdInv', NEW t \in Slot, Apart(t), Grow, Pending(t)
    PROVE  Pending(t)'
<1>1. /\ sock'[t] = sock[t] /\ (t \notin torn' => t \notin torn)
      /\ \A i \in Id : HASH_ID(i) = t => said'[i] = said[i] /\ net'[i] = net[i] /\ wire'[i] = wire[i]
      /\ \A e \in batch' : e.s = t => e \in batch
  BY DEF Apart, Grow
<1>2. PICK d \in {0, 1} :
         \A p \in DOMAIN pipe' : HASH_ID(pipe'[p].id) = t =>
           p + d \in DOMAIN pipe /\ pipe'[p] = pipe[p + d] /\ p \in Nat
  BY ApartPipe
<1> SUFFICES ASSUME t \notin torn' PROVE Pending(t)'
  BY DEF Pending
<1>3. t \notin torn
  BY <1>1
<1>4. ASSUME NEW w \in Worker, call'[w].at = "O", HASH_ID(call'[w].id) = t
      PROVE  /\ sock'[t].type = "RESERVE" /\ sock'[t].id < call'[w].id
             /\ said'[call'[w].id] = {} /\ net'[call'[w].id] = "none" /\ wire'[call'[w].id] = << >>
             /\ \A v \in Worker : call'[v].at = "O" /\ HASH_ID(call'[v].id) = t => v = w
             /\ \A p \in DOMAIN pipe' : pipe'[p].c = "O" => HASH_ID(pipe'[p].id) # t
             /\ \A e \in batch' : e.s = t => e.id # call'[w].id
             /\ fc'.id # call'[w].id
  <2>1. call'[w] = call[w] /\ call[w].at = "O" /\ HASH_ID(call[w].id) = t /\ call[w].id \in Id
    BY <1>4, ApartCall, CallSlot
  <2>2. /\ sock[t].type = "RESERVE" /\ sock[t].id < call[w].id
        /\ said[call[w].id] = {} /\ net[call[w].id] = "none" /\ wire[call[w].id] = << >>
        /\ \A v \in Worker : call[v].at = "O" /\ HASH_ID(call[v].id) = t => v = w
        /\ \A p \in DOMAIN pipe : pipe[p].c = "O" => HASH_ID(pipe[p].id) # t
        /\ \A e \in batch : e.s = t => e.id # call[w].id
        /\ fc.id # call[w].id
    BY <1>3, <2>1 DEF Pending
  <2>3. \A v \in Worker : call'[v].at = "O" /\ HASH_ID(call'[v].id) = t => v = w
    BY <2>2, ApartCall
  <2>4. \A p \in DOMAIN pipe' : pipe'[p].c = "O" => HASH_ID(pipe'[p].id) # t
    BY <1>2, <2>2
  <2>5. fc'.id # call'[w].id
    BY <2>1, <2>2, ApartFc
  <2>. QED BY <1>1, <2>1, <2>2, <2>3, <2>4, <2>5
<1>5. ASSUME NEW p \in DOMAIN pipe', pipe'[p].c = "O", HASH_ID(pipe'[p].id) = t
      PROVE  /\ sock'[t].type = "RESERVE" /\ sock'[t].id = pipe'[p].id /\ ~ sock'[t].tcp
             /\ said'[pipe'[p].id] \cap {"OPEN", "ACCEPT", "CLOSE"} = {} /\ wire'[pipe'[p].id] = << >>
             /\ \A q \in DOMAIN pipe' : pipe'[q].c = "O" /\ HASH_ID(pipe'[q].id) = t => q = p
             /\ \A e \in batch' : e.s = t => e.id # pipe'[p].id
             /\ fc'.id # pipe'[p].id
  <2> DEFINE r == p + d
  <2>1. r \in DOMAIN pipe /\ pipe'[p] = pipe[r] /\ p \in Nat
    BY <1>2, <1>5
  <2>2. pipe[r].id \in Id
    BY <2>1, PipeType
  <2>3. /\ sock[t].type = "RESERVE" /\ sock[t].id = pipe[r].id /\ ~ sock[t].tcp
        /\ said[pipe[r].id] \cap {"OPEN", "ACCEPT", "CLOSE"} = {} /\ wire[pipe[r].id] = << >>
        /\ \A q \in DOMAIN pipe : pipe[q].c = "O" /\ HASH_ID(pipe[q].id) = t => q = r
        /\ \A e \in batch : e.s = t => e.id # pipe[r].id
        /\ fc.id # pipe[r].id
    BY <1>3, <1>5, <2>1 DEF Pending
  <2>4. ASSUME NEW q \in DOMAIN pipe', pipe'[q].c = "O", HASH_ID(pipe'[q].id) = t PROVE q = p
    <3>1. q + d \in DOMAIN pipe /\ pipe'[q] = pipe[q + d] /\ q \in Nat
      BY <1>2, <2>4
    <3>2. q + d = r
      BY <2>3, <2>4, <3>1
    <3>. QED BY <2>1, <3>1, <3>2
  <2>5. fc'.id # pipe'[p].id
    BY <1>5, <2>1, <2>2, <2>3, ApartFc
  <2> HIDE DEF r
  <2>. QED BY <1>1, <1>5, <2>1, <2>2, <2>3, <2>4, <2>5
<1>. QED BY <1>4, <1>5 DEF Pending

LEMMA CoherentFrame ==
    ASSUME Types, IdInv, Types', IdInv', NEW t \in Slot, Apart(t), Grow, Coherent(t)
    PROVE  Coherent(t)'
<1>1. /\ sock'[t] = sock[t] /\ (t \notin torn' => t \notin torn)
      /\ \A i \in Id : HASH_ID(i) = t => said'[i] = said[i] /\ net'[i] = net[i]
      /\ fc'.at = "lock" /\ fc'.s = t => fc' = fc
  BY DEF Apart, Grow
<1>2. sock[t].id # 0 => sock[t].id \in Id /\ HASH_ID(sock[t].id) = t
  BY DEF IdInv
<1>3. sock[t].type \in Live => sock[t].id # 0
  BY DEF IdInv
<1>. QED BY <1>1, <1>2, <1>3 DEF Coherent, Open, Live

LEMMA AddressedFrame ==
    ASSUME NEW t \in Slot, Apart(t), Grow, Addressed(t),
           \A b \in Nodes(sock[t]) : b.m \in DOMAIN sent
    PROVE  Addressed(t)'
<1>1. /\ sock'[t] = sock[t] /\ (t \notin torn' => t \notin torn)
      /\ \A m \in DOMAIN sent : sent'[m] = sent[m]
  BY DEF Apart, Grow
<1>3. Nodes(sock'[t]) = Nodes(sock[t])
  BY <1>1
<1>4. ASSUME t \notin torn', sock'[t].type \in Live, NEW b \in Nodes(sock'[t])
      PROVE  sent'[b.m].id = sock'[t].id
  BY <1>1, <1>3, <1>4 DEF Addressed
<1>. QED BY <1>4 DEF Addressed, Nodes

LEMMA OutFinite ==
    ASSUME Types, NEW id
    PROVE  IsFiniteSet(Out(id)) /\ Cardinality(Out(id)) \in Nat
<1>1. IsFiniteSet(DOMAIN sent)
  <2>1. DOMAIN sent = 1 .. Len(sent) /\ Len(sent) \in Nat
    BY DEF Types
  <2>. QED BY <2>1, FS_Interval
<1>2. Out(id) \subseteq DOMAIN sent
  BY DEF Out
<1>. QED BY <1>1, <1>2, FS_Subset, FS_CardinalityType

LEMMA CoveredIs ==
    ASSUME NEW s, NEW i, sock'[s].id = i, i # 0, sock'[s].tag = ID_TAG16(i),
           Cardinality(Out(i)') <= sock'[s].sending
    PROVE  Covered(s)'
BY DEF Covered, Out

\* When no request is added, the count of the requests does not grow.
LEMMA OutLess ==
    ASSUME Types, Types', NEW i, Out(i)' \subseteq Out(i)
    PROVE  Cardinality(Out(i)') <= Cardinality(Out(i)) /\ Cardinality(Out(i)') \in Nat
<1>1. IsFiniteSet(Out(i)) /\ Cardinality(Out(i)) \in Nat
  BY OutFinite
<1>2. IsFiniteSet(Out(i)') /\ Cardinality(Out(i)') <= Cardinality(Out(i))
  BY <1>1, FS_Subset
<1>. QED BY <1>2, FS_CardinalityType

LEMMA CoveredFrame ==
    ASSUME Types, IdInv, Types', CallInv, PipeInv, NEW t \in Slot, Apart(t), Grow, Covered(t)
    PROVE  Covered(t)'
<1>1. sock'[t] = sock[t] /\ (t \notin torn' => t \notin torn)
  BY DEF Apart, Grow
<1> SUFFICES ASSUME t \notin torn, sock[t].tcp PROVE Covered(t)'
  BY <1>1 DEF Covered
<1>0. PICK i : i = sock[t].id
  OBVIOUS
<1>2. i # 0 /\ sock[t].tag = ID_TAG16(i) /\ Cardinality(Out(i)) <= sock[t].sending
  BY <1>0 DEF Covered
<1>3. HASH_ID(i) = t
  BY <1>0, <1>2 DEF IdInv
<1>4. PICK d \in {0, 1} :
         \A p \in DOMAIN pipe' : HASH_ID(pipe'[p].id) = t =>
           p + d \in DOMAIN pipe /\ pipe'[p] = pipe[p + d] /\ p \in Nat
  BY ApartPipe
<1>5. Out(i)' \subseteq Out(i)
  <2> SUFFICES ASSUME NEW m \in DOMAIN sent',
                      \/ \E w \in Worker : call'[w].at \in Data /\ call'[w].id = i /\ call'[w].m = m
                      \/ \E p \in DOMAIN pipe' : pipe'[p].c \in Data /\ pipe'[p].id = i /\ pipe'[p].m = m
               PROVE  m \in Out(i)
    BY DEF Out, Data
  <2>2. ASSUME NEW w \in Worker, call'[w].at \in Data, call'[w].id = i, call'[w].m = m
        PROVE  m \in Out(i)
    <3>1. call'[w] = call[w]
      BY <1>3, <2>2, ApartCall DEF Data
    <3>. QED BY <2>2, <3>1 DEF Out, CallInv, Data, Msg
  <2>3. ASSUME NEW p \in DOMAIN pipe', pipe'[p].c \in Data, pipe'[p].id = i, pipe'[p].m = m
        PROVE  m \in Out(i)
    BY <1>3, <1>4, <2>3 DEF Out, PipeInv
  <2>. QED BY <2>2, <2>3
<1>6. Cardinality(Out(i)') <= Cardinality(Out(i)) /\ Cardinality(Out(i)') \in Nat
  BY <1>5, OutLess
<1>7. Cardinality(Out(i)) \in Nat /\ sock[t].sending \in Nat
  <2>1. sock[t] \in Sock
    BY DEF Types
  <2>2. sock[t].sending \in Nat
    BY <2>1, Bounds DEF Sock
  <2>. QED BY <2>2, OutFinite
<1>8. Cardinality(Out(i)') <= sock'[t].sending
  BY <1>1, <1>2, <1>6, <1>7
<1>. QED BY <1>0, <1>1, <1>2, <1>8, CoveredIs
-----------------------------------------------------------------------------
(* The direct-write lock                                                    *)

\* The request to open a slot is at the head of the pipe.
LEMMA PendingHead ==
    ASSUME Types, IdInv, NEW c, CtrlFrame(c), c.c = "O", NEW s, s = HASH_ID(c.id), Pending(s),
           s \notin torn
    PROVE  /\ sock[s].type = "RESERVE" /\ sock[s].id = c.id /\ ~ sock[s].tcp
           /\ said[c.id] \cap {"OPEN", "ACCEPT", "CLOSE"} = {} /\ wire[c.id] = << >>
           /\ \A q \in DOMAIN pipe : pipe[q].c = "O" /\ HASH_ID(pipe[q].id) = s => q = 1
           /\ \A e \in batch : e.s = s => e.id # c.id
           /\ fc.id # c.id
           /\ \A w \in Worker : call[w].at = "O" => HASH_ID(call[w].id) # s
<1>1. c = pipe[1] /\ 1 \in DOMAIN pipe
  BY CtrlFacts
<1>. QED BY <1>1 DEF Pending

LEMMA LockQuiet ==
    ASSUME NEW s \in Slot, LockAt(s), call' = call, lock' = lock, Grow,
           s \notin torn /\ lock[s] # None =>
             /\ sock'[s].id = sock[s].id /\ sock'[s].dw = sock[s].dw
             /\ sock'[s].type \in {"CONNECTED", "HALFCLOSE_READ"}
    PROVE  LockAt(s)'
BY DEF LockAt, Grow

LEMMA LockKeep ==
    ASSUME Types, NEW s \in Slot, LockAt(s), NEW w \in Worker, call[w].at # "write", call'[w].at # "write",
           \A v \in Worker : v # w => call'[v] = call[v],
           lock' = lock, Grow,
           s \notin torn /\ lock[s] # None =>
             /\ sock'[s].id = sock[s].id /\ sock'[s].dw = sock[s].dw
             /\ sock'[s].type = sock[s].type
    PROVE  LockAt(s)'
<1>1. \A v \in Worker : call'[v].at = "write" /\ HASH_ID(call'[v].id) = s => lock[s] = v
  BY DEF LockAt
<1>2. ASSUME lock[s] # None
      PROVE  call'[lock[s]] = call[lock[s]]
  <2>1. lock[s] \in Worker /\ call[lock[s]].at = "write"
    BY <1>2 DEF LockAt, Types
  <2>. QED BY <2>1
<1>. QED BY <1>1, <1>2 DEF LockAt, Grow

LEMMA LockWorker ==
    ASSUME Types, IdInv, LockInv, NEW s \in Slot, Pending(s), Grow,
           NEW w \in Worker, WorkerAt(s, w)
    PROVE  LockAt(s)'
<1>0. LockAt(s)
  BY LockSlots
<1>l. s \notin torn /\ lock[s] # None => sock[s].type \in {"CONNECTED", "HALFCLOSE_READ"}
  BY <1>0 DEF LockAt
<1>1. ASSUME ConnectNew(w), s = HASH_ID(NextId)
      PROVE  LockAt(s)'
  <2>1. /\ CallTo(w, [at |-> "O", id |-> NextId, m |-> 0]) /\ call[w].at = "idle"
        /\ sock[s].type = "INVALID" /\ lock' = lock
    BY <1>1, ConnectNewView
  <2>2. call'[w].at # "write" /\ \A v \in Worker : v # w => call'[v] = call[v]
    BY <2>1 DEF CallTo
  <2>. QED BY <1>0, <1>l, <2>1, <2>2, LockKeep
<1>2. ASSUME NEW cmd \in {"K", "Q", "R", "S"}, NEW id \in Id, Command(w, cmd, id)
      PROVE  LockAt(s)'
  <2>1. UNCHANGED <<sock, lock, call>>
    BY <1>2, CommandView
  <2>. QED BY <1>0, <1>l, <2>1, LockQuiet
<1>3. ASSUME NEW id \in Id, NEW low \in BOOLEAN, Send(w, id, low)
      PROVE  LockAt(s)'
  <2>1. /\ call[w].at = "idle"
        /\ \E at \in {"lock", "inc"} : CallTo(w, [at |-> at, id |-> id, m |-> Len(sent) + 1])
        /\ UNCHANGED <<sock, lock>>
    BY <1>3, SendView
  <2>2. call'[w].at # "write" /\ \A v \in Worker : v # w => call'[v] = call[v]
    BY <2>1 DEF CallTo
  <2>. QED BY <1>0, <2>1, <2>2, LockKeep
<1>4. ASSUME Request(w), s = HASH_ID(call[w].id)
      PROVE  LockAt(s)'
  <2>1. call[w].at = "O" /\ CallTo(w, NoCall) /\ lock' = lock
    BY <1>4, RequestView
  <2>2. call'[w].at # "write" /\ \A v \in Worker : v # w => call'[v] = call[v]
    BY <2>1 DEF CallTo, NoCall
  <2>3. s \notin torn => sock[s].type = "RESERVE"
    BY <1>4, <2>1 DEF Pending
  <2>. QED BY <1>0, <1>l, <2>1, <2>2, <2>3, LockKeep
<1>5. ASSUME Locked(w), s = HASH_ID(call[w].id)
      PROVE  LockAt(s)'
  <2>1. /\ call[w].id \in Id /\ lock[s] = None /\ can_direct_write(sock[s], call[w].id)
        /\ lock'[s] = w /\ sock' = sock
        /\ CallTo(w, [call[w] EXCEPT !.at = "write"])
        /\ call'[w].at = "write" /\ call'[w].id = call[w].id
    BY <1>5, LockedView
  <2>2. /\ sock[s].id = call[w].id /\ sock[s].type = "CONNECTED" /\ sock[s].dw = << >>
        /\ sock[s].id # 0
    BY <2>1, IdType DEF can_direct_write, nomore_sending_data
  <2>3. \A v \in Worker : v # w => call'[v] = call[v]
    BY <2>1 DEF CallTo
  <2>4. ASSUME NEW v \in Worker, call'[v].at = "write", HASH_ID(call'[v].id) = s
        PROVE  v = w
    <3>1. ASSUME v # w PROVE FALSE
      <4>1. call[v].at = "write" /\ HASH_ID(call[v].id) = s
        BY <2>3, <2>4, <3>1
      <4>. QED BY <1>0, <2>1, <4>1, Bounds DEF LockAt
    <3>. QED BY <3>1
  <2>. QED BY <1>5, <2>1, <2>2, <2>4 DEF LockAt
<1>6. ASSUME NotLocked(w) \/ Counted(w) \/ NotCounted(w) \/ Push(w), s = HASH_ID(call[w].id)
      PROVE  LockAt(s)'
  <2>1. CASE NotLocked(w)
    <3>1. /\ call[w].at # "write" /\ call'[w].at # "write" /\ UNCHANGED <<sock, lock>>
          /\ \A v \in Worker : v # w => call'[v] = call[v]
      BY <2>1, NotLockedView DEF CallTo
    <3>. QED BY <1>0, <3>1, LockKeep
  <2>2. CASE Counted(w)
    <3>1. /\ call[w].at # "write" /\ call'[w].at # "write" /\ UNCHANGED lock
          /\ \A v \in Worker : v # w => call'[v] = call[v]
          /\ sock'[s].id = sock[s].id /\ sock'[s].dw = sock[s].dw /\ sock'[s].type = sock[s].type
      BY <1>6, <2>2, CountedView DEF CallTo, SameName, SameLists, SameType
    <3>. QED BY <1>0, <3>1, LockKeep
  <2>3. CASE NotCounted(w)
    <3>1. /\ call[w].at # "write" /\ call'[w].at # "write" /\ UNCHANGED <<sock, lock>>
          /\ \A v \in Worker : v # w => call'[v] = call[v]
      BY <2>3, NotCountedView DEF CallTo
    <3>. QED BY <1>0, <3>1, LockKeep
  <2>4. CASE Push(w)
    <3>1. /\ call[w].at # "write" /\ call'[w].at # "write" /\ UNCHANGED <<sock, lock>>
          /\ \A v \in Worker : v # w => call'[v] = call[v]
      <4>1. CallTo(w, NoCall) /\ call[w].at \in {"W", "D", "P"} /\ UNCHANGED <<sock, lock>>
        BY <2>4, PushView
      <4>. QED BY <4>1 DEF CallTo, NoCall
    <3>. QED BY <1>0, <3>1, LockKeep
  <2>. QED BY <1>6, <2>1, <2>2, <2>3, <2>4
<1>7. ASSUME NEW k \in 0 .. MsgSize, DirectWrite(w, k), s = HASH_ID(call[w].id)
      PROVE  LockAt(s)'
  <2>1. /\ call[w].at = "write" /\ lock'[s] = None /\ CallTo(w, call'[w])
        /\ call'[w] = (IF k = MsgSize THEN NoCall ELSE call'[w])
        /\ k # MsgSize => call'[w].at = "W"
    BY <1>7, DirectWriteView
  <2>2. call'[w].at # "write" /\ \A v \in Worker : v # w => call'[v] = call[v]
    BY <2>1 DEF CallTo, NoCall
  <2>3. ASSUME NEW v \in Worker, call'[v].at = "write", HASH_ID(call'[v].id) = s
        PROVE  FALSE
    BY <1>0, <1>7, <2>1, <2>2, <2>3 DEF LockAt
  <2>. QED BY <2>1, <2>3 DEF LockAt
<1>. QED BY <1>1, <1>2, <1>3, <1>4, <1>5, <1>6, <1>7 DEF WorkerAt

LEMMA LockCtrl ==
    ASSUME Types, IdInv, NEW c, CtrlCase(c), NEW s \in Slot, s = HASH_ID(c.id), LockAt(s),
           Pending(s), Grow
    PROVE  LockAt(s)'
<1>0. ASSUME CtrlFrame(c),
             s \notin torn /\ sock[s].type \in {"CONNECTED", "HALFCLOSE_READ"} =>
               /\ sock'[s].id = sock[s].id /\ sock'[s].dw = sock[s].dw
               /\ sock'[s].type \in {"CONNECTED", "HALFCLOSE_READ"}
      PROVE  LockAt(s)'
  <2>1. s \notin torn /\ lock[s] # None => sock[s].type \in {"CONNECTED", "HALFCLOSE_READ"}
    BY DEF LockAt
  <2>2. call' = call /\ lock' = lock
    BY <1>0 DEF CtrlFrame
  <2>. QED BY <1>0, <2>1, <2>2, LockQuiet
<1>1. ASSUME OpenFail(c) \/ ResumeFail(c) PROVE LockAt(s)'
  <2>1. /\ CtrlFrame(c) /\ c.c \in {"O", "R"} /\ (c.c = "R" => sock[s].type = "INVALID")
    BY <1>1, FailView
  <2>2. s \notin torn => sock[s].type \notin {"CONNECTED", "HALFCLOSE_READ"}
    BY <2>1, PendingHead
  <2>. QED BY <1>0, <2>1, <2>2
<1>2. ASSUME NEW type, NEW writing, NEW kind, NEW state, OpenNew(c, type, writing, kind, state)
      PROVE  LockAt(s)'
  <2>1. CtrlFrame(c) /\ sock[s].type = "RESERVE"
    BY <1>2, OpenNewView
  <2>. QED BY <1>0, <2>1
<1>3. ASSUME NEW kind, CtrlStop(c) \/ CtrlTell(c, kind) PROVE LockAt(s)'
  <2>1. CtrlFrame(c) /\ sock' = sock
    BY <1>3, CtrlIdleView
  <2>. QED BY <1>0, <2>1
<1>4. ASSUME CloseNow(c) PROVE LockAt(s)'
  <2>1. /\ CtrlFrame(c) /\ sock'[s].id = sock[s].id /\ sock'[s].dw = sock[s].dw
        /\ sock'[s].type = sock[s].type
    BY <1>4, CloseNowView DEF SameName, SameType
  <2>. QED BY <1>0, <2>1
<1>5. ASSUME CloseLater(c) PROVE LockAt(s)'
  <2>1. /\ CtrlFrame(c) /\ sock'[s].id = sock[s].id /\ sock'[s].dw = sock[s].dw
        /\ sock'[s].type = "HALFCLOSE_READ"
    BY <1>5, CloseLaterView DEF SameName, SameLists
  <2>. QED BY <1>0, <2>1
<1>6. ASSUME Resumed(c) PROVE LockAt(s)'
  <2>1. /\ CtrlFrame(c) /\ sock'[s].id = sock[s].id /\ sock'[s].dw = sock[s].dw
        /\ sock'[s].type = (IF sock[s].type = "PACCEPT" THEN "CONNECTED" ELSE sock[s].type)
    BY <1>6, ResumedView DEF SameName, SameLists
  <2>. QED BY <1>0, <2>1
<1>7. ASSUME Paused(c) \/ Armed(c) PROVE LockAt(s)'
  <2>1. /\ CtrlFrame(c) /\ sock'[s].id = sock[s].id /\ sock'[s].dw = sock[s].dw
        /\ sock'[s].type = sock[s].type
    BY <1>7, PokedView DEF SameName, SameLists, SameType
  <2>. QED BY <1>0, <2>1
<1>8. ASSUME DataElse(c) \/ DataTcp(c) PROVE LockAt(s)'
  <2>1. /\ CtrlFrame(c) /\ sock'[s].id = sock[s].id /\ sock'[s].dw = sock[s].dw
        /\ sock'[s].type = sock[s].type
    BY <1>8, DataView DEF SameName, SameType
  <2>. QED BY <1>0, <2>1
<1>. QED BY <1>1, <1>2, <1>3, <1>4, <1>5, <1>6, <1>7, <1>8 DEF CtrlCase

LEMMA LockEvent ==
    ASSUME Types, IdInv, NEW e, EventCase(e), NEW s \in Slot, s = e.s, LockAt(s), Grow
    PROVE  LockAt(s)'
<1>0. ASSUME EventFrame(e),
             lock[s] # None /\ s \notin torn /\ sock[s].type \in {"CONNECTED", "HALFCLOSE_READ"} =>
               /\ sock'[s].id = sock[s].id /\ sock'[s].dw = sock[s].dw
               /\ sock'[s].type \in {"CONNECTED", "HALFCLOSE_READ"}
      PROVE  LockAt(s)'
  <2>1. s \notin torn /\ lock[s] # None => sock[s].type \in {"CONNECTED", "HALFCLOSE_READ"}
    BY DEF LockAt
  <2>2. call' = call /\ lock' = lock
    BY <1>0 DEF EventFrame
  <2>. QED BY <1>0, <2>1, <2>2, LockQuiet
<1>1. ASSUME NEW kind, EventTell(e, kind) \/ EventStop(e) PROVE LockAt(s)'
  <2>1. EventFrame(e) /\ sock' = sock
    BY <1>1, EventIdleView
  <2>. QED BY <1>0, <2>1
<1>2. ASSUME NEW kind, EventForce(e, kind) PROVE LockAt(s)'
  <2>1. /\ EventFrame(e) /\ sock'[s].id = sock[s].id /\ sock'[s].dw = sock[s].dw
        /\ sock'[s].type = sock[s].type
    BY <1>2, EventForceView DEF SameName, SameType
  <2>. QED BY <1>0, <2>1
<1>3. ASSUME Connected(e) PROVE LockAt(s)'
  <2>1. EventFrame(e) /\ sock[s].type = "CONNECTING"
    BY <1>3, ConnectedView
  <2>. QED BY <1>0, <2>1
<1>4. ASSUME EofRead(e) PROVE LockAt(s)'
  <2>1. /\ EventFrame(e) /\ sock'[s].id = sock[s].id /\ sock'[s].dw = sock[s].dw
        /\ sock'[s].type = "HALFCLOSE_READ"
    BY <1>4, EofReadView DEF SameName, SameLists
  <2>. QED BY <1>0, <2>1
<1>5. ASSUME WriteClosed(e) \/ WriteStopped(e) \/ WriteError(e) PROVE LockAt(s)'
  <2>1. EventFrame(e) /\ lock[s] = None
    BY <1>5 DEF WriteClosed, WriteStopped, WriteError, WriteFrame
  <2>. QED BY <1>0, <2>1
<1>6. ASSUME NEW n, NEW k, WriteMore(e, n, k) \/ WriteFinish(e, n, k) \/ WriteDone(e, n, k)
      PROVE LockAt(s)'
  <2>1. EventFrame(e) /\ lock[s] = None
    BY <1>6 DEF WriteMore, WriteFinish, WriteDone, WriteSome, WriteFrame
  <2>. QED BY <1>0, <2>1
<1>. QED BY <1>1, <1>2, <1>3, <1>4, <1>5, <1>6 DEF EventCase

LEMMA LockOther ==
    ASSUME Types, IdInv, NEW s \in Slot, OtherAt(s), LockAt(s), Grow, call' = call, lock' = lock
    PROVE  LockAt(s)'
<1>0. ASSUME lock[s] # None /\ s \notin torn /\ sock[s].type \in {"CONNECTED", "HALFCLOSE_READ"} =>
               sock'[s] = sock[s]
      PROVE  LockAt(s)'
  <2>1. s \notin torn /\ lock[s] # None => sock[s].type \in {"CONNECTED", "HALFCLOSE_READ"}
    BY DEF LockAt
  <2>. QED BY <1>0, <2>1, LockQuiet
<1>1. ASSUME CloseFd, s = fc.s PROVE LockAt(s)'
  BY <1>0, <1>1 DEF CloseFd
<1>2. ASSUME clear_closed_event PROVE LockAt(s)'
  BY <1>0, <1>2 DEF clear_closed_event
<1>3. ASSUME AcceptNew, s = HASH_ID(NextId) PROVE LockAt(s)'
  <2>1. sock[s].type = "INVALID"
    BY <1>3, AcceptNewView
  <2>. QED BY <1>0, <2>1
<1>4. ASSUME NEW id \in Id, Network(id) PROVE LockAt(s)'
  BY <1>0, <1>4 DEF Network
<1>. QED BY <1>1, <1>2, <1>3, <1>4 DEF OtherAt
-----------------------------------------------------------------------------
(* The lists after a write                                                  *)

LEMMA CatNode ==
    ASSUME NEW a \in Seq(Node), NEW b \in Seq(Node)
    PROVE  /\ a \o b \in Seq(Node) /\ Len(a \o b) = Len(a) + Len(b)
           /\ Len(a) \in Nat /\ Len(b) \in Nat
           /\ DOMAIN a = 1 .. Len(a) /\ DOMAIN b = 1 .. Len(b)
           /\ DOMAIN (a \o b) = 1 .. Len(a) + Len(b)
           /\ \A i \in 1 .. Len(a) : (a \o b)[i] = a[i]
           /\ \A i \in 1 .. Len(b) : (a \o b)[Len(a) + i] = b[i]
           /\ \A i \in Nat : i > Len(a) /\ i <= Len(a) + Len(b) => (a \o b)[i] = b[i - Len(a)]
OBVIOUS

LEMMA LeftIs ==
    ASSUME NEW list \in Seq(Node), NEW n \in Nat, NEW k \in 0 .. MsgSize - 1, n <= Len(list),
           k > 0 => n < Len(list) /\ list[n + 1].at + k < MsgSize
    PROVE  /\ Left(list, n, k) \in Seq(Node)
           /\ Len(Left(list, n, k)) = Len(list) - n
           /\ n < Len(list) => Left(list, n, k)[1] = [list[n + 1] EXCEPT !.at = @ + k]
           /\ \A i \in 1 .. Len(list) - n : i # 1 => Left(list, n, k)[i] = list[n + i]
           /\ k = 0 => \A i \in 1 .. Len(list) - n : Left(list, n, k)[i] = list[n + i]
<1>1. Left(list, n, k) \in Seq(Node) /\ Len(Left(list, n, k)) = Len(list) - n
  BY LeftType
<1>2. \A i \in 1 .. Len(list) - n :
        Left(list, n, k)[i] = IF i = 1 THEN [list[n + 1] EXCEPT !.at = @ + k] ELSE list[n + i]
  BY DEF Left
<1>3. ASSUME k = 0, n < Len(list)
      PROVE  [list[n + 1] EXCEPT !.at = @ + k] = list[n + 1]
  <2>1. list[n + 1] \in Node
    BY <1>3
  <2>2. list[n + 1].at \in Nat
    BY <2>1, Bounds DEF Node
  <2>. QED BY <1>3, <2>1, <2>2 DEF Node
<1>4. n < Len(list) => 1 \in 1 .. Len(list) - n
  OBVIOUS
<1>5. k = 0 => \A i \in 1 .. Len(list) - n : Left(list, n, k)[i] = list[n + i]
  BY <1>2, <1>3
<1>. QED BY <1>1, <1>2, <1>4, <1>5

\* n buffers and k units of the next are no more than the list has.
Room(list, n, k) == n <= Len(list) /\ (k > 0 => n < Len(list) /\ list[n + 1].at + k < MsgSize)

\* No buffer of the low list was sent in part.
LowWhole(x) == \A i \in DOMAIN x.low : x.low[i].at = 0

\* y is what is left of the lists of x, all, after n whole buffers and k units of the next.
Remains(x, n, k, all, y) ==
    /\ y \in Sock /\ all \in Seq(Node)
    /\ Len(y.high) + Len(y.low) = Len(all) - n
    /\ n + Len(y.high) >= Len(x.high)
    /\ Len(y.high) > 0 => n < Len(all) /\ y.high[1] = [all[n + 1] EXCEPT !.at = @ + k]
    /\ \A i \in 1 .. Len(y.high) : i # 1 => y.high[i] = all[n + i]
    /\ \A i \in 1 .. Len(y.low) : y.low[i] = all[n + Len(y.high) + i]
    /\ k > 0 => Len(y.high) > 0
    /\ n >= Len(x.high) => Len(y.high) = IF k = 0 THEN 0 ELSE 1

LEMMA WrittenLists ==
    ASSUME NEW x \in Sock, NEW n \in Nat, NEW k \in 0 .. MsgSize - 1,
           Room(x.high \o x.low, n, k), LowWhole(x)
    PROVE  Remains(x, n, k, x.high \o x.low, Written(x, n, k))
<1>0. x.high \in Seq(Node) /\ x.low \in Seq(Node)
  BY DEF Sock
<1> DEFINE h == Len(x.high)
           r == Len(x.low)
           all == x.high \o x.low
           y == Written(x, n, k)
           G == Remains(x, n, k, all, y)
<1>c. /\ all \in Seq(Node) /\ Len(all) = h + r /\ h \in Nat /\ r \in Nat
      /\ DOMAIN x.low = 1 .. r
      /\ \A i \in 1 .. h : all[i] = x.high[i]
      /\ \A i \in 1 .. r : all[h + i] = x.low[i]
      /\ \A i \in 1 .. r : x.low[i].at = 0
  BY <1>0, CatNode DEF LowWhole
<1>a. /\ n <= h + r
      /\ k > 0 => n < h + r
      /\ k > 0 /\ n < h => x.high[n + 1].at + k < MsgSize
      /\ n >= h =>
           /\ n - h \in Nat /\ n - h <= r
           /\ k > 0 => n - h < r /\ x.low[n - h + 1].at + k < MsgSize
  BY <1>0, CatRoom DEF Room
<1>w. /\ y \in Sock
      /\ n < h => y.high = Left(x.high, n, k) /\ y.low = x.low
      /\ n >= h => /\ y.high = IF list_uncomplete(Left(x.low, n - h, k))
                               THEN <<Head(Left(x.low, n - h, k))>> ELSE << >>
                   /\ y.low = IF list_uncomplete(Left(x.low, n - h, k))
                              THEN Tail(Left(x.low, n - h, k)) ELSE Left(x.low, n - h, k)
  BY WrittenFacts DEF Room
<1> HIDE DEF h, r, all, y, G
<1>v. \A i \in 1 .. r : x.low[i] \in Node
  BY <1>0 DEF r
<1>1. ASSUME n < h PROVE G
  <2>1. k > 0 => n < Len(x.high) /\ x.high[n + 1].at + k < MsgSize
    BY <1>1, <1>a DEF h
  <2>2. n <= Len(x.high)
    BY <1>1, <1>c DEF h
  <2>3. /\ Len(y.high) = h - n
        /\ y.high[1] = [x.high[n + 1] EXCEPT !.at = @ + k]
        /\ \A i \in 1 .. h - n : i # 1 => y.high[i] = x.high[n + i]
    BY <1>0, <1>1, <1>w, <2>1, <2>2, LeftIs DEF h
  <2>4. Len(y.low) = r /\ y.low = x.low
    BY <1>1, <1>w DEF r
  <2>5. all[n + 1] = x.high[n + 1]
    BY <1>1, <1>c
  <2>6. \A i \in 1 .. Len(y.high) : i # 1 => y.high[i] = all[n + i]
    <3> SUFFICES ASSUME NEW i \in 1 .. Len(y.high), i # 1 PROVE y.high[i] = all[n + i]
      OBVIOUS
    <3>1. n + i \in 1 .. h /\ i \in 1 .. h - n
      BY <1>c, <1>1, <2>3
    <3>. QED BY <1>c, <2>3, <3>1
  <2>7. \A i \in 1 .. Len(y.low) : y.low[i] = all[n + Len(y.high) + i]
    <3>1. n + Len(y.high) = h
      BY <1>c, <2>3
    <3>. QED BY <1>c, <2>4, <3>1
  <2>8. /\ Len(y.high) + Len(y.low) = Len(all) - n /\ n + Len(y.high) >= h /\ n < Len(all)
        /\ Len(y.high) > 0 /\ ~ (n >= h)
    BY <1>c, <1>1, <2>3, <2>4
  <2>. QED BY <1>w, <1>c, <2>3, <2>5, <2>6, <2>7, <2>8 DEF G, Remains, h
<1>2. ASSUME n >= h PROVE G
  <2> DEFINE l == Left(x.low, n - h, k)
             q == n - h
  <2>0. q \in Nat /\ q <= r /\ (k > 0 => q < r /\ x.low[q + 1].at + k < MsgSize) /\ n = h + q
    BY <1>a, <1>c, <1>2
  <2>1. /\ l \in Seq(Node) /\ Len(l) = r - q
        /\ q < r => l[1] = [x.low[q + 1] EXCEPT !.at = @ + k]
        /\ \A i \in 1 .. r - q : i # 1 => l[i] = x.low[q + i]
        /\ k = 0 => \A i \in 1 .. r - q : l[i] = x.low[q + i]
    <3>1. q <= Len(x.low) /\ (k > 0 => q < Len(x.low) /\ x.low[q + 1].at + k < MsgSize)
      BY <2>0 DEF r
    <3>2. l = Left(x.low, q, k) /\ q \in Nat
      BY <2>0
    <3> HIDE DEF l, q
    <3>3. /\ Left(x.low, q, k) \in Seq(Node)
          /\ Len(Left(x.low, q, k)) = Len(x.low) - q
          /\ q < Len(x.low) => Left(x.low, q, k)[1] = [x.low[q + 1] EXCEPT !.at = @ + k]
          /\ \A i \in 1 .. Len(x.low) - q : i # 1 => Left(x.low, q, k)[i] = x.low[q + i]
          /\ k = 0 => \A i \in 1 .. Len(x.low) - q : Left(x.low, q, k)[i] = x.low[q + i]
      BY <1>0, <3>1, <3>2, LeftIs
    <3>. QED BY <3>2, <3>3 DEF r
  <2> HIDE DEF l, q
  <2>l. /\ y.high = IF list_uncomplete(l) THEN <<Head(l)>> ELSE << >>
        /\ y.low = IF list_uncomplete(l) THEN Tail(l) ELSE l
    BY <1>2, <1>w DEF l
  <2>m. \A i \in 1 .. r - q : all[n + i] = x.low[q + i]
    <3> SUFFICES ASSUME NEW i \in 1 .. r - q PROVE all[n + i] = x.low[q + i]
      OBVIOUS
    <3>1. q + i \in 1 .. r /\ n + i = h + (q + i)
      BY <1>c, <2>0
    <3>. QED BY <1>c, <3>1
  <2>2. ASSUME k = 0 PROVE G
    <3>1. ~ list_uncomplete(l)
      <4>1. ASSUME l # << >> PROVE l[1].at = 0
        <5>1. Len(l) > 0 /\ q < r
          BY <4>1, <2>1, <2>0, <1>c
        <5>2. l[1] = x.low[q + 1] /\ q + 1 \in 1 .. r
          BY <2>0, <2>1, <2>2, <5>1, <1>c
        <5>. QED BY <5>2, <1>c
      <4>. QED BY <4>1 DEF list_uncomplete
    <3>2. y.high = << >> /\ y.low = l /\ Len(y.high) = 0
      BY <2>l, <3>1
    <3>3. \A i \in 1 .. Len(y.low) : y.low[i] = all[n + Len(y.high) + i]
      <4>1. Len(y.low) = r - q /\ n + Len(y.high) = n /\ \A i \in 1 .. r - q : y.low[i] = x.low[q + i]
        BY <2>1, <2>2, <3>2
      <4>. QED BY <2>m, <4>1
    <3>4. /\ Len(y.high) + Len(y.low) = Len(all) - n /\ n + Len(y.high) >= h /\ ~ (Len(y.high) > 0)
          /\ ~ (k > 0)
      BY <1>c, <1>2, <2>0, <2>1, <2>2, <3>2
    <3>. QED BY <1>w, <1>c, <2>2, <3>2, <3>3, <3>4 DEF G, Remains, h
  <2>3. ASSUME k > 0 PROVE G
    <3>1. q < r /\ x.low[q + 1] \in Node /\ q + 1 \in 1 .. r
      BY <1>0, <2>0, <2>3, <1>c DEF r
    <3>2. l[1] = [x.low[q + 1] EXCEPT !.at = @ + k] /\ Len(l) > 0
      BY <2>1, <3>1, <2>0, <1>c
    <3>3. l[1].at = x.low[q + 1].at + k
      BY <3>1, <3>2 DEF Node
    <3>4. l[1].at # 0
      BY <1>c, <2>3, <3>1, <3>3, Bounds
    <3>5. list_uncomplete(l) /\ l # << >>
      BY <2>1, <3>2, <3>4 DEF list_uncomplete
    <3>6. /\ y.high = <<l[1]>> /\ Len(y.high) = 1 /\ y.high[1] = l[1] /\ y.low = Tail(l)
          /\ Len(y.low) = r - q - 1 /\ \A i \in 1 .. Len(y.low) : y.low[i] = l[i + 1]
      BY <2>1, <2>l, <3>2, <3>5, <1>c, <2>0
    <3>7. \A i \in 1 .. Len(y.low) : y.low[i] = all[n + Len(y.high) + i]
      <4> SUFFICES ASSUME NEW i \in 1 .. Len(y.low) PROVE y.low[i] = all[n + Len(y.high) + i]
        OBVIOUS
      <4>1. i + 1 \in 1 .. r - q /\ i + 1 # 1 /\ n + Len(y.high) + i = n + (i + 1)
        BY <1>c, <2>0, <3>6
      <4>. QED BY <2>1, <2>m, <3>6, <4>1
    <3>8. all[n + 1] = x.low[q + 1]
      BY <2>m, <3>1, <2>0, <1>c
    <3>9. /\ Len(y.high) + Len(y.low) = Len(all) - n /\ n + Len(y.high) >= h /\ Len(y.high) > 0
          /\ n < Len(all) /\ k # 0
      BY <1>c, <1>2, <2>0, <2>3, <3>1, <3>6
    <3>. QED BY <1>w, <1>c, <3>2, <3>6, <3>7, <3>8, <3>9 DEF G, Remains, h
  <2>. QED BY <2>2, <2>3, Bounds
<1>3. n < h \/ n >= h
  BY <1>c
<1>. QED BY <1>1, <1>2, <1>3 DEF G, all, y
-----------------------------------------------------------------------------
(* The lists hold messages that are no longer on the way                    *)

\* The part of ListInv about slot s.
ListAt(s) ==
    /\ \A b \in Nodes(sock[s]) : b.m \in DOMAIN sent /\ ~ Before(b.m)
    /\ \A i \in DOMAIN sock[s].low : sock[s].low[i].at = 0 /\ sent[sock[s].low[i].m].low
    /\ Len(sock[s].dw) <= 1

\* No message is on the way again.
OnlyLess == \A m \in DOMAIN sent : Before(m)' => Before(m)

LEMMA CatIn ==
    ASSUME NEW a \in Seq(Node), NEW b \in Seq(Node), NEW i \in DOMAIN (a \o b)
    PROVE  \/ i \in DOMAIN a /\ (a \o b)[i] = a[i]
           \/ i - Len(a) \in DOMAIN b /\ (a \o b)[i] = b[i - Len(a)] /\ i > Len(a)
<1>1. /\ i \in 1 .. Len(a) + Len(b) /\ Len(a) \in Nat /\ Len(b) \in Nat
      /\ DOMAIN a = 1 .. Len(a) /\ DOMAIN b = 1 .. Len(b)
      /\ \A j \in 1 .. Len(a) : (a \o b)[j] = a[j]
      /\ \A j \in Nat : j > Len(a) /\ j <= Len(a) + Len(b) => (a \o b)[j] = b[j - Len(a)]
  BY CatNode
<1>3. CASE i <= Len(a)
  BY <1>1, <1>3
<1>4. CASE i > Len(a)
  BY <1>1, <1>4
<1>. QED BY <1>1, <1>3, <1>4

LEMMA NodesOf ==
    ASSUME NEW x \in Sock
    PROVE  /\ x.dw \in Seq(Node) /\ x.high \in Seq(Node) /\ x.low \in Seq(Node)
           /\ \A i \in DOMAIN x.dw : x.dw[i] \in Nodes(x)
           /\ \A i \in DOMAIN x.high : x.high[i] \in Nodes(x)
           /\ \A i \in DOMAIN x.low : x.low[i] \in Nodes(x)
           /\ \A b \in Nodes(x) : b \in Node
           /\ \A i \in DOMAIN (x.dw \o x.high) : (x.dw \o x.high)[i] \in Nodes(x)
           /\ \A i \in DOMAIN ((x.dw \o x.high) \o x.low) : ((x.dw \o x.high) \o x.low)[i] \in Nodes(x)
<1>1. x.dw \in Seq(Node) /\ x.high \in Seq(Node) /\ x.low \in Seq(Node)
  BY DEF Sock
<1>2. /\ \A i \in DOMAIN x.dw : x.dw[i] \in Nodes(x)
      /\ \A i \in DOMAIN x.high : x.high[i] \in Nodes(x)
      /\ \A i \in DOMAIN x.low : x.low[i] \in Nodes(x)
  BY DEF Nodes
<1>3. \A b \in Nodes(x) : b \in Node
  BY <1>1 DEF Nodes
<1> DEFINE a == x.dw \o x.high
<1>4. \A i \in DOMAIN a : a[i] \in Nodes(x)
  BY <1>1, <1>2, CatIn
<1>5. a \in Seq(Node)
  BY <1>1, CatNode
<1> HIDE DEF a
<1>6. \A i \in DOMAIN (a \o x.low) : (a \o x.low)[i] \in Nodes(x)
  BY <1>1, <1>2, <1>4, <1>5, CatIn
<1>. QED BY <1>1, <1>2, <1>3, <1>4, <1>6 DEF a

LEMMA ListKeep ==
    ASSUME NEW s, ListAt(s), Grow, OnlyLess,
           \A b \in Nodes(sock'[s]) : \E a \in Nodes(sock[s]) : b.m = a.m,
           \A i \in DOMAIN sock'[s].low :
             \E j \in DOMAIN sock[s].low : sock'[s].low[i] = sock[s].low[j],
           Len(sock'[s].dw) <= 1
    PROVE  ListAt(s)'
<1>1. ASSUME NEW b \in Nodes(sock'[s]) PROVE b.m \in DOMAIN sent' /\ ~ Before(b.m)'
  <2>1. PICK a \in Nodes(sock[s]) : b.m = a.m
    BY <1>1
  <2>2. a.m \in DOMAIN sent /\ ~ Before(a.m)
    BY DEF ListAt
  <2>3. PICK m : m = b.m
    OBVIOUS
  <2>4. m \in DOMAIN sent /\ ~ Before(m)
    BY <2>1, <2>2, <2>3
  <2>5. ~ Before(m)'
    BY <2>4 DEF OnlyLess
  <2>. QED BY <2>3, <2>4, <2>5 DEF Grow
<1>2. ASSUME NEW i \in DOMAIN sock'[s].low
      PROVE  sock'[s].low[i].at = 0 /\ sent'[sock'[s].low[i].m].low
  <2>1. PICK j \in DOMAIN sock[s].low : sock'[s].low[i] = sock[s].low[j]
    BY <1>2
  <2>2. sock[s].low[j].at = 0 /\ sent[sock[s].low[j].m].low /\ sock[s].low[j].m \in DOMAIN sent
    BY DEF ListAt, Nodes
  <2>. QED BY <2>1, <2>2 DEF Grow
<1>3. \A b \in Nodes(sock[s])' : b.m \in DOMAIN sent' /\ ~ Before(b.m)'
  BY <1>1 DEF Nodes
<1>. QED BY <1>2, <1>3 DEF ListAt

\* The lists stay.
LEMMA ListSame ==
    ASSUME NEW s, ListAt(s), Grow, OnlyLess,
           sock'[s].high = sock[s].high, sock'[s].low = sock[s].low, sock'[s].dw = sock[s].dw
    PROVE  ListAt(s)'
<1>1. Nodes(sock'[s]) = Nodes(sock[s])
  BY DEF Nodes
<1>2. Len(sock'[s].dw) <= 1
  BY DEF ListAt
<1>. QED BY <1>1, <1>2, ListKeep

\* The two queues are emptied, and dw_buffer stays or is emptied too.
LEMMA ListEmpty ==
    ASSUME NEW s, ListAt(s), Grow, OnlyLess,
           sock'[s].high = << >>, sock'[s].low = << >>, sock'[s].dw \in {<< >>, sock[s].dw}
    PROVE  ListAt(s)'
<1>1. \A b \in Nodes(sock'[s]) : b \in Nodes(sock[s])
  BY DEF Nodes
<1>2. Len(sock'[s].dw) <= 1
  BY DEF ListAt
<1>. QED BY <1>1, <1>2, ListKeep

LEMMA ListFrame ==
    ASSUME NEW t, Apart(t), Grow, OnlyLess, ListAt(t)
    PROVE  ListAt(t)'
BY ListSame DEF Apart

LEMMA OnlyLessQuiet == ASSUME Quiet PROVE OnlyLess
BY BeforeQuiet DEF OnlyLess

LEMMA OnlyLessWorker == ASSUME Types, NEW w \in Worker, AskedBy(w) PROVE OnlyLess
BY BeforeWorker DEF OnlyLess

LEMMA ListWorker ==
    ASSUME Types, IdInv, LockInv, AskInv, CallInv, NEW s \in Slot, ListAt(s), Grow,
           NEW w \in Worker, WorkerAt(s, w)
    PROVE  ListAt(s)'
<1>0. OnlyLess
  BY WorkerAsks, OnlyLessWorker
<1>1. ASSUME sock'[s].high = sock[s].high, sock'[s].low = sock[s].low, sock'[s].dw = sock[s].dw
      PROVE  ListAt(s)'
  BY <1>0, <1>1, ListSame
<1>2. ASSUME ConnectNew(w), s = HASH_ID(NextId) PROVE ListAt(s)'
  BY <1>1, <1>2, ConnectNewView DEF SameLists
<1>3. ASSUME NEW cmd \in {"K", "Q", "R", "S"}, NEW id \in Id, Command(w, cmd, id) PROVE ListAt(s)'
  <2>1. sock' = sock
    BY <1>3, CommandView
  <2>. QED BY <1>1, <2>1
<1>4. ASSUME NEW id \in Id, NEW low \in BOOLEAN, Send(w, id, low) PROVE ListAt(s)'
  <2>1. sock' = sock
    BY <1>4, SendView
  <2>. QED BY <1>1, <2>1
<1>5. ASSUME Request(w), s = HASH_ID(call[w].id) PROVE ListAt(s)'
  BY <1>1, <1>5, RequestView DEF SameLists
<1>6. ASSUME Locked(w) \/ NotLocked(w) \/ NotCounted(w) \/ Push(w) PROVE ListAt(s)'
  <2>1. sock' = sock
    BY <1>6, LockedView, NotLockedView, NotCountedView, PushView
  <2>. QED BY <1>1, <2>1
<1>7. ASSUME Counted(w), s = HASH_ID(call[w].id) PROVE ListAt(s)'
  BY <1>1, <1>7, CountedView DEF SameLists
<1>8. ASSUME NEW k \in 0 .. MsgSize, DirectWrite(w, k), s = HASH_ID(call[w].id) PROVE ListAt(s)'
  <2>1. /\ call[w].at = "write"
        /\ sock'[s].high = sock[s].high /\ sock'[s].low = sock[s].low
        /\ sock'[s].dw = (IF k = MsgSize THEN << >> ELSE <<[m |-> call[w].m, at |-> k]>>)
        /\ CallTo(w, call'[w])
        /\ call'[w] = (IF k = MsgSize THEN NoCall ELSE call'[w])
        /\ k # MsgSize => call'[w].at = "W"
        /\ UNCHANGED <<pipe, sent>>
    BY <1>8, DirectWriteView
  <2>2. PICK m : m = call[w].m
    OBVIOUS
  <2>3. /\ m \in DOMAIN sent /\ sent[m].w = w
        /\ \A p \in DOMAIN pipe : pipe[p].c \in Data => pipe[p].m # m
    BY <2>1, <2>2 DEF CallInv, Msg
  <2>4. call'[w].at \notin Msg \ {"W"} /\ \A v \in Worker : v # w => call'[v] = call[v]
    BY <2>1 DEF CallTo, NoCall, Msg
  <2>5. \A v \in Worker : call[v].at \in Msg /\ call[v].m = m => v = w
    BY <2>3 DEF CallInv
  <2>6. ~ Before(m)'
    BY <2>1, <2>3, <2>4, <2>5 DEF Before
  <2>7. ASSUME NEW b \in Nodes(sock'[s]) PROVE b.m = m \/ b \in Nodes(sock[s])
    BY <2>1, <2>2, <2>7 DEF Nodes
  <2>8. ASSUME NEW b \in Nodes(sock'[s]) PROVE b.m \in DOMAIN sent' /\ ~ Before(b.m)'
    <3>1. PICK n : n = b.m
      OBVIOUS
    <3>2. n \in DOMAIN sent /\ ~ Before(n)'
      BY <2>3, <2>6, <2>7, <3>1, <2>8, <1>0 DEF ListAt, OnlyLess
    <3>. QED BY <3>1, <3>2, <2>1
  <2>9. \A b \in Nodes(sock[s])' : b.m \in DOMAIN sent' /\ ~ Before(b.m)'
    BY <2>8 DEF Nodes
  <2>10. Len(sock'[s].dw) <= 1
    BY <2>1
  <2>11. \A i \in DOMAIN sock'[s].low : sock'[s].low[i].at = 0 /\ sent'[sock'[s].low[i].m].low
    BY <2>1 DEF ListAt
  <2>. QED BY <2>9, <2>10, <2>11 DEF ListAt
<1>. QED BY <1>2, <1>3, <1>4, <1>5, <1>6, <1>7, <1>8 DEF WorkerAt
LEMMA AddressedKeep ==
    ASSUME NEW s, Addressed(s), ListAt(s), Grow,
           \A b \in Nodes(sock'[s]) : \E a \in Nodes(sock[s]) : b.m = a.m,
           s \notin torn' /\ sock'[s].type \in Live =>
             sock[s].type \in Live /\ sock'[s].id = sock[s].id
    PROVE  Addressed(s)'
<1>1. ASSUME s \notin torn', sock'[s].type \in Live, NEW b \in Nodes(sock'[s])
      PROVE  sent'[b.m].id = sock'[s].id
  <2>1. PICK a \in Nodes(sock[s]) : b.m = a.m
    BY <1>1
  <2>2. s \notin torn /\ sock[s].type \in Live /\ sock'[s].id = sock[s].id
    BY <1>1 DEF Grow
  <2>3. a.m \in DOMAIN sent /\ sent[a.m].id = sock[s].id
    BY <2>2 DEF Addressed, ListAt
  <2>. QED BY <2>1, <2>2, <2>3 DEF Grow
<1>. QED BY <1>1 DEF Addressed, Nodes

\* What ListInv and Addressed need of a step that keeps or empties the lists.
LEMMA BothSame ==
    ASSUME NEW s, ListAt(s), Addressed(s), Grow, OnlyLess,
           sock'[s].high = sock[s].high, sock'[s].low = sock[s].low, sock'[s].dw = sock[s].dw,
           s \notin torn' /\ sock'[s].type \in Live =>
             sock[s].type \in Live /\ sock'[s].id = sock[s].id
    PROVE  ListAt(s)' /\ Addressed(s)'
<1>1. Nodes(sock'[s]) = Nodes(sock[s])
  BY DEF Nodes
<1>2. \A b \in Nodes(sock'[s]) : \E a \in Nodes(sock[s]) : b.m = a.m
  BY <1>1
<1>. QED BY <1>2, ListSame, AddressedKeep

LEMMA BothEmpty ==
    ASSUME NEW s, ListAt(s), Addressed(s), Grow, OnlyLess,
           sock'[s].high = << >>, sock'[s].low = << >>, sock'[s].dw \in {<< >>, sock[s].dw},
           s \notin torn' /\ sock'[s].type \in Live =>
             (sock[s].type \in Live /\ sock'[s].id = sock[s].id) \/ sock'[s].dw = << >>
    PROVE  ListAt(s)' /\ Addressed(s)'
<1>1. \A b \in Nodes(sock'[s]) : b \in Nodes(sock[s])
  BY DEF Nodes
<1>2. \A b \in Nodes(sock'[s]) : \E a \in Nodes(sock[s]) : b.m = a.m
  BY <1>1
<1>3. CASE sock'[s].dw = << >>
  <2>1. Nodes(sock[s])' = {}
    BY <1>3 DEF Nodes
  <2>. QED BY <2>1, ListEmpty DEF Addressed
<1>4. CASE sock'[s].dw # << >>
  <2>1. s \notin torn' /\ sock'[s].type \in Live => sock[s].type \in Live /\ sock'[s].id = sock[s].id
    BY <1>4
  <2>. QED BY <1>2, <2>1, ListEmpty, AddressedKeep
<1>. QED BY <1>3, <1>4

\* send_socket: the message taken from the pipe is nowhere else.
LEMMA DataTaken ==
    ASSUME Types, IdInv, CallInv, PipeInv, NEW c, CtrlFrame(c), c.c \in Data
    PROVE  /\ c.m \in DOMAIN sent /\ sent[c.m].id = c.id /\ (sent[c.m].low <=> c.c = "P")
           /\ \A m : m = c.m => ~ Before(m)'
<1>1. /\ c = pipe[1] /\ 1 \in DOMAIN pipe /\ call' = call /\ sent' = sent
      /\ \A p \in DOMAIN pipe' : p \in Nat /\ p >= 1 /\ p + 1 \in DOMAIN pipe /\ pipe'[p] = pipe[p + 1]
  BY CtrlFacts
<1>2. /\ c.m \in DOMAIN sent /\ sent[c.m].id = c.id /\ (sent[c.m].low <=> c.c = "P")
      /\ \A q \in DOMAIN pipe : pipe[q].c \in Data /\ pipe[q].m = c.m => q = 1
  BY <1>1 DEF PipeInv
<1>3. ASSUME NEW m, m = c.m PROVE ~ Before(m)'
  <2>1. ASSUME NEW p \in DOMAIN pipe', pipe'[p].c \in Data, pipe'[p].m = m PROVE FALSE
    <3>1. p \in Nat /\ p >= 1 /\ p + 1 \in DOMAIN pipe /\ pipe'[p] = pipe[p + 1]
      BY <1>1, <2>1
    <3>2. p + 1 = 1
      BY <1>2, <1>3, <2>1, <3>1
    <3>. QED BY <3>1, <3>2
  <2>2. ASSUME NEW w \in Worker, call'[w].at \in Msg \ {"W"}, call'[w].m = m PROVE FALSE
    BY <1>1, <1>3, <2>2 DEF CallInv
  <2>. QED BY <2>1, <2>2 DEF Before
<1>. QED BY <1>2, <1>3

LEMMA AppendNode ==
    ASSUME NEW q \in Seq(Node), NEW b \in Node
    PROVE  /\ Append(q, b) \in Seq(Node) /\ Len(Append(q, b)) = Len(q) + 1 /\ Len(q) \in Nat
           /\ DOMAIN q = 1 .. Len(q)
           /\ \A i \in DOMAIN Append(q, b) :
                \/ i \in DOMAIN q /\ Append(q, b)[i] = q[i]
                \/ i = Len(q) + 1 /\ Append(q, b)[i] = b
           /\ \A i \in DOMAIN q : i \in DOMAIN Append(q, b) /\ Append(q, b)[i] = q[i]
           /\ Len(q) + 1 \in DOMAIN Append(q, b) /\ Append(q, b)[Len(q) + 1] = b
OBVIOUS

\* What send_socket does to the lists of its slot.
LEMMA DataLists ==
    ASSUME Types, IdInv, NEW c, DataElse(c) \/ DataTcp(c), NEW s, s = HASH_ID(c.id)
    PROVE  /\ \A b \in Nodes(sock'[s]) : \/ b \in Nodes(sock[s])
                                         \/ b = Buffer(c.m) /\ ~ Drops(sock[s], c.id)
           /\ \A i \in DOMAIN sock'[s].low :
                \/ i \in DOMAIN sock[s].low /\ sock'[s].low[i] = sock[s].low[i]
                \/ sock'[s].low[i] = Buffer(c.m) /\ sent[c.m].low
           /\ sock'[s].dw = sock[s].dw
<1> DEFINE x == sock[s]
           y == sock'[s]
           b0 == Buffer(c.m)
<1>1. /\ y.dw = x.dw
      /\ Drops(x, c.id) => y.high = x.high /\ y.low = x.low
      /\ ~ Drops(x, c.id) =>
           /\ send_buffer_empty(x) => y.high = <<b0>> /\ y.low = << >>
           /\ ~ send_buffer_empty(x) /\ sent[c.m].low => y.high = x.high /\ y.low = Append(x.low, b0)
           /\ ~ send_buffer_empty(x) /\ ~ sent[c.m].low => y.high = Append(x.high, b0) /\ y.low = x.low
  BY DataView DEF SameLists
<1>2. CtrlFrame(c)
  BY DataView
<1>3. x \in Sock /\ b0 \in Node
  <2>1. c.m \in Nat /\ HASH_ID(c.id) \in Slot /\ sock[HASH_ID(c.id)] \in Sock
    BY <1>2, CtrlFacts
  <2>. QED BY <2>1, BufferType
<1>4. x.high \in Seq(Node) /\ x.low \in Seq(Node)
  BY <1>3 DEF Sock
<1> HIDE DEF x, y, b0
<1>5. CASE Drops(x, c.id)
  BY <1>1, <1>5 DEF Nodes, x, y
<1>6. CASE ~ Drops(x, c.id) /\ send_buffer_empty(x)
  <2>1. y.high = <<b0>> /\ y.low = << >> /\ y.dw = x.dw
    BY <1>1, <1>6
  <2>2. \A b \in Nodes(y) : b \in Nodes(x) \/ b = b0
    BY <2>1 DEF Nodes
  <2>. QED BY <1>6, <2>1, <2>2 DEF x, y, b0
<1>7. CASE ~ Drops(x, c.id) /\ ~ send_buffer_empty(x) /\ sent[c.m].low
  <2>1. y.high = x.high /\ y.low = Append(x.low, b0) /\ y.dw = x.dw
    BY <1>1, <1>7
  <2>2. \A i \in DOMAIN y.low : (i \in DOMAIN x.low /\ y.low[i] = x.low[i]) \/ y.low[i] = b0
    BY <1>3, <1>4, <2>1, AppendNode
  <2>3. \A b \in Nodes(y) : b \in Nodes(x) \/ b = b0
    BY <2>1, <2>2 DEF Nodes
  <2>. QED BY <1>7, <2>1, <2>2, <2>3 DEF x, y, b0
<1>8. CASE ~ Drops(x, c.id) /\ ~ send_buffer_empty(x) /\ ~ sent[c.m].low
  <2>1. y.high = Append(x.high, b0) /\ y.low = x.low /\ y.dw = x.dw
    BY <1>1, <1>8
  <2>2. \A i \in DOMAIN y.high : (i \in DOMAIN x.high /\ y.high[i] = x.high[i]) \/ y.high[i] = b0
    BY <1>3, <1>4, <2>1, AppendNode
  <2>3. \A b \in Nodes(y) : b \in Nodes(x) \/ b = b0
    BY <2>1, <2>2 DEF Nodes
  <2>. QED BY <1>8, <2>1, <2>3 DEF x, y, b0
<1>. QED BY <1>5, <1>6, <1>7, <1>8

LEMMA BothData ==
    ASSUME Types, IdInv, CallInv, PipeInv, NEW c, DataElse(c) \/ DataTcp(c),
           NEW s, s = HASH_ID(c.id), ListAt(s), Addressed(s), Grow, OnlyLess
    PROVE  ListAt(s)' /\ Addressed(s)'
<1>1. /\ CtrlFrame(c) /\ c.c \in Data /\ sock'[s].id = sock[s].id /\ sock'[s].type = sock[s].type
      /\ torn' = torn
  BY DataView DEF SameName, SameType, Data
<1>2. PICK m : m = c.m
  OBVIOUS
<1>3. /\ m \in DOMAIN sent /\ sent[m].id = c.id /\ ~ Before(m)' /\ m \in Nat
      /\ sent' = sent
  BY <1>1, <1>2, DataTaken, CtrlFacts
<1>4. Buffer(c.m).m = m /\ Buffer(c.m).at = 0
  BY <1>2, <1>3, BufferType
<1>5. ~ Drops(sock[s], c.id) => sock[s].id = c.id
  BY DEF Drops
<1>6. ASSUME NEW b \in Nodes(sock'[s]) PROVE b.m \in DOMAIN sent' /\ ~ Before(b.m)'
  <2>1. PICK n : n = b.m
    OBVIOUS
  <2>2. n \in DOMAIN sent /\ ~ Before(n)'
    BY <1>3, <1>4, <1>6, <2>1, DataLists DEF ListAt, OnlyLess
  <2>. QED BY <1>3, <2>1, <2>2
<1>7. \A b \in Nodes(sock[s])' : b.m \in DOMAIN sent' /\ ~ Before(b.m)'
  BY <1>6 DEF Nodes
<1>8. \A i \in DOMAIN sock'[s].low : sock'[s].low[i].at = 0 /\ sent'[sock'[s].low[i].m].low
  <2> SUFFICES ASSUME NEW i \in DOMAIN sock'[s].low
               PROVE  sock'[s].low[i].at = 0 /\ sent'[sock'[s].low[i].m].low
    OBVIOUS
  <2>1. \/ i \in DOMAIN sock[s].low /\ sock'[s].low[i] = sock[s].low[i]
        \/ sock'[s].low[i] = Buffer(c.m) /\ sent[c.m].low
    BY DataLists
  <2>2. CASE i \in DOMAIN sock[s].low /\ sock'[s].low[i] = sock[s].low[i]
    <3>1. sock[s].low[i].at = 0 /\ sent[sock[s].low[i].m].low
      BY <2>2 DEF ListAt
    <3>. QED BY <1>3, <2>2, <3>1
  <2>3. CASE sock'[s].low[i] = Buffer(c.m) /\ sent[c.m].low
    BY <1>2, <1>3, <1>4, <2>3
  <2>. QED BY <2>1, <2>2, <2>3
<1>9. Len(sock'[s].dw) <= 1
  BY DataLists DEF ListAt
<1>10. ListAt(s)'
  BY <1>7, <1>8, <1>9 DEF ListAt
<1>11. ASSUME s \notin torn, sock[s].type \in Live, NEW b \in Nodes(sock'[s])
       PROVE  sent[b.m].id = sock[s].id
  BY <1>3, <1>4, <1>5, <1>11, DataLists DEF Addressed
<1>12. Addressed(s)'
  BY <1>1, <1>3, <1>11 DEF Addressed, Nodes
<1>. QED BY <1>10, <1>12

LEMMA BothCtrl ==
    ASSUME Types, IdInv, CallInv, PipeInv, NEW c, CtrlCase(c), NEW s, s = HASH_ID(c.id),
           ListAt(s), Addressed(s), Grow
    PROVE  ListAt(s)' /\ Addressed(s)'
<1> DEFINE G == ListAt(s)' /\ Addressed(s)'
<1>0. OnlyLess
  BY CtrlUp, QuietCtrl, OnlyLessQuiet
<1>a. ASSUME sock'[s].high = sock[s].high, sock'[s].low = sock[s].low, sock'[s].dw = sock[s].dw,
             s \notin torn' /\ sock'[s].type \in Live =>
               sock[s].type \in Live /\ sock'[s].id = sock[s].id
      PROVE  G
  BY <1>0, <1>a, BothSame
<1>b. ASSUME sock'[s].high = << >>, sock'[s].low = << >>, sock'[s].dw \in {<< >>, sock[s].dw},
             s \notin torn' /\ sock'[s].type \in Live =>
               (sock[s].type \in Live /\ sock'[s].id = sock[s].id) \/ sock'[s].dw = << >>
      PROVE  G
  BY <1>0, <1>b, BothEmpty
<1> HIDE DEF G
<1>1. ASSUME OpenFail(c) \/ ResumeFail(c) PROVE G
  <2>1. /\ sock'[s].type \notin Live
        /\ sock'[s].high = sock[s].high /\ sock'[s].low = sock[s].low /\ sock'[s].dw = sock[s].dw
    BY <1>1, FailView DEF SameLists, Live
  <2>. QED BY <1>a, <2>1
<1>2. ASSUME NEW type, NEW writing, NEW kind, NEW state, OpenNew(c, type, writing, kind, state)
      PROVE  G
  <2>1. sock'[s].high = << >> /\ sock'[s].low = << >> /\ sock'[s].dw = << >>
    BY <1>2, OpenNewView
  <2>. QED BY <1>b, <2>1
<1>3. ASSUME NEW kind, CtrlStop(c) \/ CtrlTell(c, kind) PROVE G
  <2>1. sock' = sock
    BY <1>3, CtrlIdleView
  <2>. QED BY <1>a, <2>1
<1>4. ASSUME CloseNow(c) PROVE G
  <2>1. /\ sock'[s].id = sock[s].id /\ sock'[s].type = sock[s].type
        /\ sock'[s].high = << >> /\ sock'[s].low = << >> /\ sock'[s].dw = sock[s].dw
    BY <1>4, CloseNowView DEF SameName, SameType
  <2>. QED BY <1>b, <2>1
<1>5. ASSUME CloseLater(c) PROVE G
  <2>1. /\ sock'[s].high = sock[s].high /\ sock'[s].low = sock[s].low /\ sock'[s].dw = sock[s].dw
        /\ sock'[s].id = sock[s].id /\ sock[s].type \in Live \cup {"RESERVE"}
        /\ torn' = torn \cup (IF sock[s].type = "RESERVE" THEN {s} ELSE {})
    BY <1>5, CloseLaterView DEF SameName, SameLists
  <2>. QED BY <1>a, <2>1
<1>6. ASSUME Resumed(c) PROVE G
  <2>1. /\ sock'[s].high = sock[s].high /\ sock'[s].low = sock[s].low /\ sock'[s].dw = sock[s].dw
        /\ sock'[s].id = sock[s].id
        /\ sock'[s].type = (IF sock[s].type = "PACCEPT" THEN "CONNECTED" ELSE sock[s].type)
    BY <1>6, ResumedView DEF SameName, SameLists
  <2>2. sock'[s].type \in Live => sock[s].type \in Live
    BY <2>1 DEF Live
  <2>. QED BY <1>a, <2>1, <2>2
<1>7. ASSUME Paused(c) \/ Armed(c) PROVE G
  <2>1. /\ sock'[s].high = sock[s].high /\ sock'[s].low = sock[s].low /\ sock'[s].dw = sock[s].dw
        /\ sock'[s].id = sock[s].id /\ sock'[s].type = sock[s].type
    BY <1>7, PokedView DEF SameName, SameLists, SameType
  <2>. QED BY <1>a, <2>1
<1>8. ASSUME DataElse(c) \/ DataTcp(c) PROVE G
  BY <1>0, <1>8, BothData DEF G
<1>9. G
  BY <1>1, <1>2, <1>3, <1>4, <1>5, <1>6, <1>7, <1>8 DEF CtrlCase
<1>. QED BY <1>9 DEF G
LEMMA ShiftIndex ==
    ASSUME NEW h \in Nat, NEW r \in Nat, NEW a \in Nat, NEW b \in Nat, NEW n \in Nat, NEW z,
           z = h + r, a + b = z - n, n + a >= h
    PROVE  /\ \A i \in 1 .. b : /\ n + a + i \in Nat /\ n + a + i > h /\ n + a + i <= h + r
                                /\ (n + a + i) - h \in 1 .. r
           /\ \A i \in 1 .. a : n + i \in 1 .. z
  OBVIOUS

\* The buffers of y were in the lists of x, the concatenation of which is all.
Within(y, x, all) ==
    /\ \A i \in DOMAIN y.low : \E j \in DOMAIN x.low : y.low[i] = x.low[j]
    /\ \A i \in DOMAIN y.high : \E j \in DOMAIN all : y.high[i].m = all[j].m

\* The buffers of y are among those of x.
Shrunk(y, x) ==
    /\ \A b \in Nodes(y) : \E a \in Nodes(x) : b.m = a.m
    /\ \A i \in DOMAIN y.low : \E j \in DOMAIN x.low : y.low[i] = x.low[j]
    /\ Len(y.dw) <= 1

LEMMA ShrunkBoth ==
    ASSUME NEW s, ListAt(s), Addressed(s), Grow, OnlyLess, Shrunk(sock'[s], sock[s]),
           s \notin torn' /\ sock'[s].type \in Live =>
             sock[s].type \in Live /\ sock'[s].id = sock[s].id
    PROVE  ListAt(s)' /\ Addressed(s)'
<1>1. /\ \A b \in Nodes(sock'[s]) : \E a \in Nodes(sock[s]) : b.m = a.m
      /\ \A i \in DOMAIN sock'[s].low : \E j \in DOMAIN sock[s].low : sock'[s].low[i] = sock[s].low[j]
      /\ Len(sock'[s].dw) <= 1
  BY DEF Shrunk
<1>. QED BY <1>1, ListKeep, AddressedKeep

Joined(x, all) == all = x.high \o x.low

\* What is left was there before, the first buffer perhaps longer on its way.
LEMMA RemainNodes ==
    ASSUME NEW x \in Sock, NEW n \in Nat, NEW k, NEW all, Joined(x, all), NEW y,
           Remains(x, n, k, all, y)
    PROVE  Within(y, x, all)
<1>2. x.high \in Seq(Node) /\ x.low \in Seq(Node)
  BY DEF Sock
<1>3. y.high \in Seq(Node) /\ y.low \in Seq(Node) /\ all \in Seq(Node)
  BY DEF Remains, Sock
<1>4. /\ Len(x.high) \in Nat /\ Len(x.low) \in Nat /\ Len(all) = Len(x.high) + Len(x.low)
      /\ DOMAIN x.low = 1 .. Len(x.low)
      /\ \A i \in Nat : i > Len(x.high) /\ i <= Len(x.high) + Len(x.low) => all[i] = x.low[i - Len(x.high)]
  BY <1>2, CatNode DEF Joined
<1>5. /\ Len(y.high) \in Nat /\ Len(y.low) \in Nat /\ Len(all) \in Nat
      /\ DOMAIN y.high = 1 .. Len(y.high) /\ DOMAIN y.low = 1 .. Len(y.low)
      /\ DOMAIN all = 1 .. Len(all)
  BY <1>3
<1>1. /\ Len(y.high) + Len(y.low) = Len(all) - n
      /\ n + Len(y.high) >= Len(x.high)
      /\ Len(y.high) > 0 => n < Len(all) /\ y.high[1] = [all[n + 1] EXCEPT !.at = @ + k]
      /\ \A i \in 1 .. Len(y.high) : i # 1 => y.high[i] = all[n + i]
      /\ \A i \in 1 .. Len(y.low) : y.low[i] = all[n + Len(y.high) + i]
  BY DEF Remains
<1>8. /\ \A i \in 1 .. Len(y.low) :
           /\ n + Len(y.high) + i \in Nat /\ n + Len(y.high) + i > Len(x.high)
           /\ n + Len(y.high) + i <= Len(x.high) + Len(x.low)
           /\ (n + Len(y.high) + i) - Len(x.high) \in 1 .. Len(x.low)
      /\ \A i \in 1 .. Len(y.high) : n + i \in 1 .. Len(all)
  <2>1. /\ Len(all) = Len(x.high) + Len(x.low) /\ Len(y.high) + Len(y.low) = Len(all) - n
        /\ n + Len(y.high) >= Len(x.high)
    BY <1>1, <1>4
  <2>. QED BY <1>4, <1>5, <2>1, ShiftIndex
<1>6. ASSUME NEW i \in DOMAIN y.low PROVE \E j \in DOMAIN x.low : y.low[i] = x.low[j]
  <2>0. i \in 1 .. Len(y.low)
    BY <1>5
  <2>1. PICK j : j = n + Len(y.high) + i
    OBVIOUS
  <2>2. /\ j \in Nat /\ j > Len(x.high) /\ j <= Len(x.high) + Len(x.low)
        /\ j - Len(x.high) \in 1 .. Len(x.low)
    BY <1>8, <2>0, <2>1
  <2>3. y.low[i] = all[j]
    BY <1>1, <2>0, <2>1
  <2>4. y.low[i] = x.low[j - Len(x.high)]
    BY <1>4, <2>2, <2>3
  <2>. QED BY <1>4, <2>2, <2>4
<1>7. ASSUME NEW i \in DOMAIN y.high PROVE \E j \in DOMAIN all : y.high[i].m = all[j].m
  <2>0. i \in 1 .. Len(y.high) /\ Len(y.high) > 0
    BY <1>5, <1>7
  <2>1. CASE i = 1
    <3>1. n + 1 \in DOMAIN all /\ y.high[1] = [all[n + 1] EXCEPT !.at = @ + k]
      BY <1>1, <1>5, <2>0
    <3>2. all[n + 1] \in Node
      BY <1>3, <3>1
    <3>3. y.high[1].m = all[n + 1].m
      BY <3>1, <3>2 DEF Node
    <3>. QED BY <2>1, <3>1, <3>3
  <2>2. CASE i # 1
    <3>1. n + i \in DOMAIN all
      BY <1>5, <1>8, <2>0
    <3>2. y.high[i] = all[n + i]
      BY <1>1, <2>0, <2>2
    <3>. QED BY <3>1, <3>2
  <2>. QED BY <2>1, <2>2
<1>. QED BY <1>6, <1>7 DEF Within

\* What send_buffer leaves in the lists was there before.
LEMMA WriteNodes ==
    ASSUME Types, IdInv, NEW e, NEW n, NEW k, WriteSome(e, n, k), NEW s, s = e.s, ListAt(s),
           NEW z, z = Written(WithDirect(sock[s]), n, k)
    PROVE  Shrunk(z, sock[s])
<1> DEFINE x == sock[s]
           d == WithDirect(x)
           all == (x.dw \o x.high) \o x.low
<1>1. /\ n \in Nat /\ k \in 0 .. MsgSize - 1 /\ all \in Seq(Node) /\ n <= Len(all)
      /\ k > 0 => n < Len(all) /\ all[n + 1].at + k < MsgSize
      /\ d \in Sock /\ d.high = x.dw \o x.high /\ d.low = x.low
  BY WriteSomeFacts
<1>2. z.dw = << >>
  BY WriteSomeSlot
<1>x. x \in Sock
  <2>1. EventFrame(e)
    BY DEF WriteSome, WriteFrame
  <2>. QED BY <2>1, EventFacts
<1>3. all = d.high \o d.low
  BY <1>1
<1>4. LowWhole(d)
  BY <1>1 DEF LowWhole, ListAt
<1>5. \A i \in DOMAIN all : all[i] \in Nodes(x)
  BY <1>x, NodesOf
<1>7. z = Written(d, n, k)
  OBVIOUS
<1> HIDE DEF x, d, all
<1>6. Room(d.high \o d.low, n, k)
  BY <1>1, <1>3 DEF Room
<1>8. /\ \A i \in DOMAIN z.low : \E j \in DOMAIN d.low : z.low[i] = d.low[j]
      /\ \A i \in DOMAIN z.high : \E j \in DOMAIN all : z.high[i].m = all[j].m
  <2>1. Remains(d, n, k, d.high \o d.low, Written(d, n, k))
    BY <1>1, <1>4, <1>6, WrittenLists
  <2>2. Remains(d, n, k, all, z)
    BY <1>3, <1>7, <2>1
  <2>3. Joined(d, all)
    BY <1>3 DEF Joined
  <2>4. Within(z, d, all)
    BY <1>1, <2>2, <2>3, RemainNodes
  <2>. QED BY <2>4 DEF Within
<1>14. \A i \in DOMAIN x.low : x.low[i] \in Nodes(x)
  BY DEF Nodes
<1>16. \A b \in Nodes(z) : \E a \in Nodes(x) : b.m = a.m
  <2> SUFFICES ASSUME NEW b \in Nodes(z) PROVE \E a \in Nodes(x) : b.m = a.m
    OBVIOUS
  <2>1. (\E i \in DOMAIN z.high : b = z.high[i]) \/ (\E i \in DOMAIN z.low : b = z.low[i])
    BY <1>2 DEF Nodes
  <2>2. CASE \E i \in DOMAIN z.high : b = z.high[i]
    BY <1>5, <1>8, <2>2
  <2>3. CASE \E i \in DOMAIN z.low : b = z.low[i]
    BY <1>1, <1>8, <1>14, <2>3
  <2>. QED BY <2>1, <2>2, <2>3
<1>17. Len(z.dw) <= 1
  BY <1>2
<1>18. \A i \in DOMAIN z.low : \E j \in DOMAIN x.low : z.low[i] = x.low[j]
  BY <1>1, <1>8
<1>19. Shrunk(z, x)
  BY <1>16, <1>17, <1>18 DEF Shrunk
<1>. QED BY <1>19 DEF x

LEMMA BothEvent ==
    ASSUME Types, IdInv, NEW e, EventCase(e), NEW s, s = e.s,
           ListAt(s), Addressed(s), Grow
    PROVE  ListAt(s)' /\ Addressed(s)'
<1> DEFINE G == ListAt(s)' /\ Addressed(s)'
<1>0. OnlyLess
  BY EventUp, QuietEvent, OnlyLessQuiet
<1>a. ASSUME sock'[s].high = sock[s].high, sock'[s].low = sock[s].low, sock'[s].dw = sock[s].dw,
             s \notin torn' /\ sock'[s].type \in Live =>
               sock[s].type \in Live /\ sock'[s].id = sock[s].id
      PROVE  G
  BY <1>0, <1>a, BothSame
<1>b. ASSUME sock'[s].high = << >>, sock'[s].low = << >>, sock'[s].dw \in {<< >>, sock[s].dw},
             s \notin torn' /\ sock'[s].type \in Live =>
               (sock[s].type \in Live /\ sock'[s].id = sock[s].id) \/ sock'[s].dw = << >>
      PROVE  G
  BY <1>0, <1>b, BothEmpty
<1>c. ASSUME Shrunk(sock'[s], sock[s]),
             s \notin torn' /\ sock'[s].type \in Live =>
               sock[s].type \in Live /\ sock'[s].id = sock[s].id
      PROVE  G
  BY <1>0, <1>c, ShrunkBoth
<1> HIDE DEF G
<1>1. ASSUME NEW kind, EventTell(e, kind) \/ EventStop(e) PROVE G
  <2>1. sock' = sock
    BY <1>1, EventIdleView
  <2>. QED BY <1>a, <2>1
<1>2. ASSUME NEW kind, EventForce(e, kind) PROVE G
  <2>1. /\ sock'[s].id = sock[s].id /\ sock'[s].type = sock[s].type
        /\ sock'[s].high = << >> /\ sock'[s].low = << >> /\ sock'[s].dw = sock[s].dw
    BY <1>2, EventForceView DEF SameName, SameType
  <2>. QED BY <1>b, <2>1
<1>3. ASSUME Connected(e) PROVE G
  <2>1. /\ sock'[s].high = sock[s].high /\ sock'[s].low = sock[s].low /\ sock'[s].dw = sock[s].dw
        /\ sock'[s].id = sock[s].id /\ sock[s].type \in Live
    BY <1>3, ConnectedView DEF SameName, SameLists, Live
  <2>. QED BY <1>a, <2>1
<1>4. ASSUME EofRead(e) PROVE G
  <2>1. /\ sock'[s].high = sock[s].high /\ sock'[s].low = sock[s].low /\ sock'[s].dw = sock[s].dw
        /\ sock'[s].id = sock[s].id /\ sock[s].type \in {"CONNECTED", "PACCEPT", "RESERVE"}
        /\ torn' = torn \cup (IF sock[s].type = "RESERVE" THEN {s} ELSE {})
    BY <1>4, EofReadView DEF SameName, SameLists
  <2>2. s \notin torn' => sock[s].type \in Live
    BY <2>1 DEF Live
  <2>. QED BY <1>a, <2>1, <2>2
<1>5. ASSUME WriteClosed(e) PROVE G
  <2>1. sock'[s].high = << >> /\ sock'[s].low = << >> /\ sock'[s].dw = << >>
    BY <1>5, WriteClosedView
  <2>. QED BY <1>b, <2>1
<1>6. ASSUME WriteStopped(e) \/ WriteError(e) PROVE G
  <2>1. /\ EventFrame(e)
        /\ sock'[s].high = sock[s].dw \o sock[s].high /\ sock'[s].low = sock[s].low
        /\ sock'[s].dw = << >> /\ sock'[s].id = sock[s].id
        /\ sock[s].type \in {"HALFCLOSE_WRITE", "CONNECTED", "PACCEPT", "RESERVE"}
        /\ torn' = torn \cup (IF sock[s].type = "RESERVE" THEN {s} ELSE {})
    BY <1>6, WriteFailView DEF SameName
  <2>2. s \notin torn' => sock[s].type \in Live
    BY <2>1 DEF Live
  <2>3. sock[s] \in Sock
    BY <2>1, EventFacts
  <2>4. \A b \in Nodes(sock'[s]) : b \in Nodes(sock[s])
    <3>1. \A i \in DOMAIN (sock[s].dw \o sock[s].high) : (sock[s].dw \o sock[s].high)[i] \in Nodes(sock[s])
      BY <2>3, NodesOf
    <3>2. \A i \in DOMAIN sock[s].low : sock[s].low[i] \in Nodes(sock[s])
      BY <2>3, NodesOf
    <3> SUFFICES ASSUME NEW b \in Nodes(sock'[s]) PROVE b \in Nodes(sock[s])
      OBVIOUS
    <3>3. \/ \E i \in DOMAIN sock'[s].dw : b = sock'[s].dw[i]
          \/ \E i \in DOMAIN sock'[s].high : b = sock'[s].high[i]
          \/ \E i \in DOMAIN sock'[s].low : b = sock'[s].low[i]
      BY DEF Nodes
    <3>4. ~ \E i \in DOMAIN sock'[s].dw : b = sock'[s].dw[i]
      BY <2>1
    <3>. QED BY <2>1, <3>1, <3>2, <3>3, <3>4
  <2>5. /\ \A i \in DOMAIN sock'[s].low : \E j \in DOMAIN sock[s].low : sock'[s].low[i] = sock[s].low[j]
        /\ Len(sock'[s].dw) <= 1
    BY <2>1
  <2>6. Shrunk(sock'[s], sock[s])
    BY <2>4, <2>5 DEF Shrunk
  <2>. QED BY <1>c, <2>1, <2>2, <2>6
<1>7. ASSUME NEW n, NEW k, WriteMore(e, n, k) PROVE G
  <2>0. PICK z : z = Written(WithDirect(sock[s]), n, k)
    OBVIOUS
  <2>1. WriteSome(e, n, k) /\ sock'[s] = z
    BY <1>7, <2>0, WriteMoreView
  <2>2. z.type = sock[s].type /\ z.id = sock[s].id
    BY <2>0, <2>1, WriteSomeSlot
  <2>3. Shrunk(z, sock[s])
    BY <2>0, <2>1, WriteNodes
  <2>. QED BY <1>c, <2>1, <2>2, <2>3
<1>8. ASSUME NEW n, NEW k, WriteFinish(e, n, k) \/ WriteDone(e, n, k) PROVE G
  <2>1. sock'[s].high = << >> /\ sock'[s].low = << >> /\ sock'[s].dw = << >>
    <3>1. CASE WriteFinish(e, n, k)
      BY <3>1, WriteFinishView
    <3>2. CASE WriteDone(e, n, k)
      BY <3>2, WriteDoneView
    <3>. QED BY <1>8, <3>1, <3>2
  <2>. QED BY <1>b, <2>1
<1>9. G
  BY <1>1, <1>2, <1>3, <1>4, <1>5, <1>6, <1>7, <1>8 DEF EventCase
<1>. QED BY <1>9 DEF G

LEMMA BothOther ==
    ASSUME Types, IdInv, NEW s \in Slot, OtherAt(s), ListAt(s), Addressed(s), Grow
    PROVE  ListAt(s)' /\ Addressed(s)'
<1> DEFINE G == ListAt(s)' /\ Addressed(s)'
<1>0. OnlyLess
  BY OtherUp, QuietPipe, OnlyLessQuiet
<1>a. ASSUME sock' = sock PROVE G
  BY <1>0, <1>a, BothSame
<1>b. ASSUME sock'[s].high = << >>, sock'[s].low = << >>, sock'[s].dw = << >> PROVE G
  BY <1>0, <1>b, BothEmpty
<1> HIDE DEF G
<1>1. ASSUME CloseFd, s = fc.s PROVE G
  BY <1>1, <1>b, CloseFdView
<1>2. ASSUME clear_closed_event PROVE G
  BY <1>2, <1>a DEF clear_closed_event
<1>3. ASSUME AcceptNew, s = HASH_ID(NextId) PROVE G
  BY <1>3, <1>b, AcceptNewView
<1>4. ASSUME NEW id \in Id, Network(id) PROVE G
  BY <1>4, <1>a DEF Network
<1>9. G
  BY <1>1, <1>2, <1>3, <1>4 DEF OtherAt
<1>. QED BY <1>9 DEF G

LEMMA AddressedWorker ==
    ASSUME Types, IdInv, LockInv, CallInv, NEW s \in Slot, ListAt(s), Addressed(s),
           Pending(s), Grow, NEW w \in Worker, WorkerAt(s, w)
    PROVE  Addressed(s)'
<1>a. ASSUME sock'[s].high = sock[s].high, sock'[s].low = sock[s].low, sock'[s].dw = sock[s].dw,
             s \notin torn' /\ sock'[s].type \in Live =>
               sock[s].type \in Live /\ sock'[s].id = sock[s].id
      PROVE  Addressed(s)'
  <2>1. Nodes(sock'[s]) = Nodes(sock[s])
    BY <1>a DEF Nodes
  <2>. QED BY <1>a, <2>1, AddressedKeep
<1>1. ASSUME sock' = sock PROVE Addressed(s)'
  BY <1>a, <1>1
<1>2. ASSUME ConnectNew(w), s = HASH_ID(NextId) PROVE Addressed(s)'
  <2>1. /\ sock'[s].high = sock[s].high /\ sock'[s].low = sock[s].low /\ sock'[s].dw = sock[s].dw
        /\ sock'[s].type \notin Live
    BY <1>2, ConnectNewView DEF SameLists, Live
  <2>. QED BY <1>a, <2>1
<1>3. ASSUME NEW cmd \in {"K", "Q", "R", "S"}, NEW id \in Id, Command(w, cmd, id) PROVE Addressed(s)'
  BY <1>1, <1>3, CommandView
<1>4. ASSUME NEW id \in Id, NEW low \in BOOLEAN, Send(w, id, low) PROVE Addressed(s)'
  BY <1>1, <1>4, SendView
<1>5. ASSUME Request(w), s = HASH_ID(call[w].id) PROVE Addressed(s)'
  <2>1. /\ sock'[s].high = sock[s].high /\ sock'[s].low = sock[s].low /\ sock'[s].dw = sock[s].dw
        /\ sock'[s].type = sock[s].type /\ call[w].at = "O"
    BY <1>5, RequestView DEF SameLists, SameType
  <2>2. s \notin torn' => sock[s].type \notin Live
    BY <1>5, <2>1 DEF Pending, Live, Grow
  <2>. QED BY <1>a, <2>1, <2>2
<1>6. ASSUME Locked(w) \/ NotLocked(w) \/ NotCounted(w) \/ Push(w) PROVE Addressed(s)'
  <2>1. sock' = sock
    BY <1>6, LockedView, NotLockedView, NotCountedView, PushView
  <2>. QED BY <1>1, <2>1
<1>7. ASSUME Counted(w), s = HASH_ID(call[w].id) PROVE Addressed(s)'
  <2>1. /\ sock'[s].high = sock[s].high /\ sock'[s].low = sock[s].low /\ sock'[s].dw = sock[s].dw
        /\ sock'[s].type = sock[s].type /\ sock'[s].id = sock[s].id
    BY <1>7, CountedView DEF SameLists, SameType, SameName
  <2>. QED BY <1>a, <2>1
<1>8. ASSUME NEW k \in 0 .. MsgSize, DirectWrite(w, k), s = HASH_ID(call[w].id) PROVE Addressed(s)'
  <2>1. /\ call[w].at = "write"
        /\ sock'[s].high = sock[s].high /\ sock'[s].low = sock[s].low
        /\ sock'[s].dw = (IF k = MsgSize THEN << >> ELSE <<[m |-> call[w].m, at |-> k]>>)
        /\ sock'[s].type = sock[s].type /\ sock'[s].id = sock[s].id
        /\ sent' = sent
    BY <1>8, DirectWriteView DEF SameType, SameName
  <2>2. \A b \in Nodes(sock'[s]) : b \in Nodes(sock[s]) \/ b.m = call[w].m
    BY <2>1 DEF Nodes
  <2>3. s \notin torn => sock[s].id = call[w].id
    BY <1>8, <2>1, Bounds DEF LockInv
  <2>4. sent[call[w].m].id = call[w].id
    BY <2>1 DEF CallInv, Msg
  <2>5. ASSUME s \notin torn', sock'[s].type \in Live, NEW b \in Nodes(sock'[s])
        PROVE  sent'[b.m].id = sock'[s].id
    BY <2>1, <2>2, <2>3, <2>4, <2>5 DEF Addressed, Grow
  <2>. QED BY <2>5 DEF Addressed, Nodes
<1>. QED BY <1>2, <1>3, <1>4, <1>5, <1>6, <1>7, <1>8 DEF WorkerAt
-----------------------------------------------------------------------------
(* A slot, its connection and what its owner was told                       *)

\* What Coherent looks at stays.
Settled(s) ==
    /\ SameName(s) /\ SameType(s) /\ (sock'[s].reading => sock[s].reading)
    /\ fc' = fc \/ fc'.at # "lock"
    /\ \A i \in Id : net[i] = "none" => net'[i] = "none"
    /\ \A i \in Id : "OPEN" \in said'[i] <=> "OPEN" \in said[i]

LEMMA CoherentKeep ==
    ASSUME IdInv, NEW s \in Slot, Coherent(s), Grow, Settled(s)
    PROVE  Coherent(s)'
<1>1. s \notin torn' => s \notin torn
  BY DEF Grow
<1>2. /\ sock[s].id # 0 => sock[s].id \in Id
      /\ sock[s].type \in Live => sock[s].id # 0
  BY DEF IdInv
<1>3. /\ sock'[s].id = sock[s].id /\ sock'[s].tcp = sock[s].tcp
      /\ sock'[s].type = sock[s].type /\ sock'[s].closing = sock[s].closing
      /\ sock'[s].reading => sock[s].reading
      /\ fc'.at = "lock" => fc' = fc
      /\ sock[s].id # 0 /\ net[sock[s].id] = "none" => net'[sock[s].id] = "none"
      /\ sock[s].type \in Live => ("OPEN" \in said'[sock[s].id] <=> "OPEN" \in said[sock[s].id])
  BY <1>2 DEF Settled, SameName, SameType
<1>4. ASSUME s \notin torn'
      PROVE  /\ sock'[s].type \in Live => sock'[s].tcp
             /\ sock'[s].type \notin Live /\ sock'[s].id # 0 => net'[sock'[s].id] = "none"
             /\ fc'.at = "lock" /\ fc'.s = s => sock'[s].type \in Live /\ fc'.id = sock'[s].id
             /\ sock'[s].closing => sock'[s].type \in {"HALFCLOSE_READ", "INVALID", "RESERVE"}
  BY <1>1, <1>3, <1>4 DEF Coherent
<1>5. ASSUME s \notin torn'
      PROVE  /\ sock'[s].type \in {"CONNECTED", "HALFCLOSE_WRITE"} => "OPEN" \in said'[sock'[s].id]
             /\ sock'[s].type = "PACCEPT" => "OPEN" \notin said'[sock'[s].id] /\ ~ sock'[s].reading
  BY <1>1, <1>3, <1>5 DEF Coherent, Open, Live
<1>. QED BY <1>4, <1>5 DEF Coherent, Open

\* The conjuncts of Coherent after a step, for the steps that change the type.
LEMMA CoherentIs ==
    ASSUME NEW s,
           s \notin torn' =>
             /\ sock'[s].type \in Live => sock'[s].tcp
             /\ sock'[s].type \notin Live /\ sock'[s].id # 0 => net'[sock'[s].id] = "none"
             /\ fc'.at = "lock" /\ fc'.s = s => sock'[s].type \in Live /\ fc'.id = sock'[s].id
             /\ sock'[s].type \in {"CONNECTED", "HALFCLOSE_WRITE"} => "OPEN" \in said'[sock'[s].id]
             /\ sock'[s].type = "PACCEPT" => "OPEN" \notin said'[sock'[s].id] /\ ~ sock'[s].reading
             /\ sock'[s].closing => sock'[s].type \in {"HALFCLOSE_READ", "INVALID", "RESERVE"}
    PROVE  Coherent(s)'
BY DEF Coherent, Open

LEMMA CoherentWorker ==
    ASSUME Types, IdInv, LockInv, NEW s \in Slot, Pending(s), Coherent(s), Grow,
           NEW w \in Worker, WorkerAt(s, w)
    PROVE  Coherent(s)'
<1> DEFINE G == Coherent(s)'
<1>a. ASSUME Settled(s) PROVE G
  BY <1>a, CoherentKeep
<1>b. s \notin torn' => s \notin torn
  BY DEF Grow
<1> HIDE DEF G
<1>1. ASSUME ConnectNew(w), s = HASH_ID(NextId) PROVE G
  <2>1. /\ sock[s].type = "INVALID" /\ sock'[s].type = "RESERVE" /\ sock'[s].id = sock[s].id
        /\ fc' = fc /\ net' = net
    BY <1>1, ConnectNewView DEF SameName, thread, outside
  <2>2. s \notin torn => ~ (fc.at = "lock" /\ fc.s = s) /\ (sock[s].id # 0 => net[sock[s].id] = "none")
    BY <2>1 DEF Coherent, Live
  <2>. QED BY <1>b, <2>1, <2>2, CoherentIs DEF G, Live
<1>2. ASSUME NEW cmd \in {"K", "Q", "R", "S"}, NEW id \in Id, Command(w, cmd, id) PROVE G
  <2> DEFINE c == [c |-> cmd, id |-> id, m |-> 0]
  <2>0. /\ pipe' = Append(pipe, c) /\ c \in Cmd
        /\ \A i \in Id : said'[i] = said[i] \cup IF i = id /\ cmd = "Q" THEN {"SHUTDOWN"} ELSE {}
        /\ UNCHANGED <<alloc_id, sock, lock, call, sent, thread, outside>>
    BY <1>2, CommandView
  <2> HIDE DEF c
  <2>1. UNCHANGED <<sock, fc, net>>
    BY <2>0 DEF thread, outside
  <2>3. \A i \in Id : said'[i] = said[i] \cup IF i = id /\ cmd = "Q" THEN {"SHUTDOWN"} ELSE {}
    BY <2>0
  <2>2. ASSUME NEW i \in Id PROVE "OPEN" \in said'[i] <=> "OPEN" \in said[i]
    <3>1. said'[i] = said[i] \/ said'[i] = said[i] \cup {"SHUTDOWN"}
      BY <2>3
    <3>. QED BY <3>1
  <2>. QED BY <1>a, <2>1, <2>2 DEF Settled, SameName, SameType
<1>3. ASSUME NEW id \in Id, NEW low \in BOOLEAN, Send(w, id, low) PROVE G
  <2>1. UNCHANGED <<sock, fc, net, said>>
    BY <1>3, SendView DEF thread, outside
  <2>. QED BY <1>a, <2>1 DEF Settled, SameName, SameType
<1>4. ASSUME Request(w), s = HASH_ID(call[w].id) PROVE G
  <2>1. /\ sock'[s].type = sock[s].type /\ sock'[s].id = call[w].id /\ call[w].at = "O"
        /\ fc' = fc /\ net' = net
    BY <1>4, RequestView DEF SameType, thread, outside
  <2>2. s \notin torn => sock[s].type = "RESERVE" /\ net[call[w].id] = "none"
    BY <1>4, <2>1 DEF Pending
  <2>3. s \notin torn => ~ (fc.at = "lock" /\ fc.s = s)
    BY <2>2 DEF Coherent, Live
  <2>. QED BY <1>b, <2>1, <2>2, <2>3, CoherentIs DEF G, Live
<1>5. ASSUME Locked(w) \/ NotLocked(w) \/ NotCounted(w) \/ Push(w) PROVE G
  <2>1. UNCHANGED <<sock, fc, net, said>>
    BY <1>5, LockedView, NotLockedView, NotCountedView, PushView DEF thread, outside
  <2>. QED BY <1>a, <2>1 DEF Settled, SameName, SameType
<1>6. ASSUME Counted(w), s = HASH_ID(call[w].id) PROVE G
  <2>1. SameName(s) /\ SameType(s) /\ SameRead(s) /\ fc' = fc /\ net' = net /\ said' = said
    BY <1>6, CountedView DEF thread, outside
  <2>. QED BY <1>a, <2>1 DEF Settled, SameRead
<1>7. ASSUME NEW k \in 0 .. MsgSize, DirectWrite(w, k), s = HASH_ID(call[w].id) PROVE G
  <2>1. SameName(s) /\ SameType(s) /\ fc' = fc /\ net' = net /\ said' = said
    BY <1>7, DirectWriteView DEF thread
  <2>2. sock'[s].reading = sock[s].reading
    BY <1>7, HashType DEF DirectWrite, Types, CallRec
  <2>. QED BY <1>a, <2>1, <2>2 DEF Settled
<1>9. G
  BY <1>1, <1>2, <1>3, <1>4, <1>5, <1>6, <1>7 DEF WorkerAt
<1>. QED BY <1>9 DEF G

LEMMA CoherentCtrl ==
    ASSUME Types, IdInv, NEW c, CtrlCase(c), NEW s \in Slot, s = HASH_ID(c.id), Pending(s),
           Coherent(s), Grow
    PROVE  Coherent(s)'
<1> DEFINE G == Coherent(s)'
<1>a. ASSUME Settled(s) PROVE G
  BY <1>a, CoherentKeep
<1>b. s \notin torn' => s \notin torn
  BY DEF Grow
<1>c. /\ CtrlFrame(c) /\ c.id \in Id /\ fc.at = "no"
  BY CtrlUp, CtrlFacts
<1> HIDE DEF G
<1>1. ASSUME OpenFail(c) \/ ResumeFail(c) PROVE G
  <2>1. /\ c.c \in {"O", "R"} /\ (c.c = "R" => sock[s].type = "INVALID")
        /\ sock'[s].type = "INVALID" /\ sock'[s].id = sock[s].id /\ net' = net /\ fc'.at = "clear"
    BY <1>1, FailView DEF SameName
  <2>2. s \notin torn => sock[s].type \in {"INVALID", "RESERVE"}
    BY <1>c, <2>1, PendingHead
  <2>3. s \notin torn /\ sock[s].id # 0 => net[sock[s].id] = "none"
    BY <2>2 DEF Coherent, Live
  <2>. QED BY <1>b, <2>1, <2>3, CoherentIs DEF G, Live
<1>2. ASSUME NEW type, NEW writing, NEW kind, NEW state, OpenNew(c, type, writing, kind, state) PROVE G
  <2>1. /\ type \in {"CONNECTED", "CONNECTING"} /\ sock'[s].type = type /\ sock'[s].tcp
        /\ sock'[s].id = c.id /\ ~ sock'[s].closing /\ fc' = fc
        /\ Say(c.id, kind) /\ kind = (IF type = "CONNECTED" THEN "OPEN" ELSE "-")
    BY <1>2, OpenNewView
  <2>2. type = "CONNECTED" => "OPEN" \in said'[c.id]
    BY <1>c, <2>1, SaidTo DEF Kind
  <2>. QED BY <1>c, <2>1, <2>2, CoherentIs DEF G, Live
<1>3. ASSUME NEW kind, CtrlStop(c) \/ CtrlTell(c, kind) PROVE G
  <2>1. /\ sock' = sock /\ fc' = fc /\ net' = net
        /\ \A k \in Kind \ {"ERR"} : \A i \in Id : k \in said'[i] <=> k \in said[i]
    BY <1>3, CtrlIdleView
  <2>2. \A i \in Id : "OPEN" \in said'[i] <=> "OPEN" \in said[i]
    BY <2>1 DEF Kind
  <2>. QED BY <1>a, <2>1, <2>2 DEF Settled, SameName, SameType
<1>4. ASSUME CloseNow(c) PROVE G
  <2>1. /\ sock[s].type \in Live /\ SameName(s) /\ SameType(s) /\ SameRead(s)
        /\ sock[s].id = c.id /\ fc'.id = c.id /\ said' = said /\ net' = net
    BY <1>4, CloseNowView
  <2>2. /\ sock'[s].type = sock[s].type /\ sock'[s].closing = sock[s].closing
        /\ sock'[s].reading = sock[s].reading /\ sock'[s].id = sock[s].id /\ sock'[s].tcp = sock[s].tcp
    BY <2>1 DEF SameName, SameType, SameRead
  <2>3. s \notin torn =>
          /\ sock[s].type \in Live => sock[s].tcp
          /\ sock[s].type \in {"CONNECTED", "HALFCLOSE_WRITE"} => "OPEN" \in said[sock[s].id]
          /\ sock[s].type = "PACCEPT" => "OPEN" \notin said[sock[s].id] /\ ~ sock[s].reading
          /\ sock[s].closing => sock[s].type \in {"HALFCLOSE_READ", "INVALID", "RESERVE"}
    BY DEF Coherent, Open
  <2>. QED BY <1>b, <2>1, <2>2, <2>3, CoherentIs DEF G
<1>5. ASSUME CloseLater(c) PROVE G
  <2>1. /\ sock[s].type \in Live \cup {"RESERVE"} /\ sock'[s].type = "HALFCLOSE_READ"
        /\ sock'[s].tcp = sock[s].tcp /\ fc' = fc
        /\ torn' = torn \cup (IF sock[s].type = "RESERVE" THEN {s} ELSE {})
    BY <1>5, CloseLaterView DEF SameName
  <2>2. s \notin torn' => sock[s].type \in Live /\ sock[s].tcp
    BY <2>1 DEF Coherent, Live
  <2>. QED BY <1>c, <2>1, <2>2, CoherentIs DEF G, Live
<1>6. ASSUME Resumed(c) PROVE G
  <2>1. /\ sock[s].id = c.id /\ SameName(s)
        /\ sock[s].type \in (Live \ {"HALFCLOSE_READ"}) \cup {"RESERVE"}
        /\ sock'[s].closing = sock[s].closing
        /\ sock'[s].type = (IF sock[s].type = "PACCEPT" THEN "CONNECTED" ELSE sock[s].type)
        /\ Say(c.id, IF sock[s].type \in {"PACCEPT", "CONNECTED"} THEN "OPEN" ELSE "-")
        /\ net' = net /\ fc' = fc
    BY <1>6, ResumedView
  <2>2. sock'[s].id = sock[s].id /\ sock'[s].tcp = sock[s].tcp
    BY <2>1 DEF SameName
  <2>3. sock[s].type \in {"PACCEPT", "CONNECTED"} => "OPEN" \in said'[c.id]
    BY <1>c, <2>1, SaidTo DEF Kind
  <2>4. sock[s].type \notin {"PACCEPT", "CONNECTED"} => said' = said
    BY <2>1, SayNothing
  <2>5. s \notin torn =>
          /\ sock[s].type \in Live => sock[s].tcp
          /\ sock[s].type \notin Live /\ sock[s].id # 0 => net[sock[s].id] = "none"
          /\ sock[s].type = "HALFCLOSE_WRITE" => "OPEN" \in said[sock[s].id]
          /\ sock[s].closing => sock[s].type \in {"HALFCLOSE_READ", "INVALID", "RESERVE"}
    BY DEF Coherent, Open
  <2>. QED BY <1>b, <1>c, <2>1, <2>2, <2>3, <2>4, <2>5, CoherentIs DEF G, Live
<1>7. ASSUME Paused(c) \/ Armed(c) PROVE G
  <2>1. /\ SameName(s) /\ SameType(s) /\ (sock'[s].reading => sock[s].reading)
        /\ said' = said /\ fc' = fc /\ net' = net
    BY <1>7, PokedView
  <2>. QED BY <1>a, <2>1 DEF Settled
<1>8. ASSUME DataElse(c) \/ DataTcp(c) PROVE G
  <2>1. SameName(s) /\ SameType(s) /\ SameRead(s) /\ said' = said /\ fc' = fc /\ net' = net
    BY <1>8, DataView
  <2>. QED BY <1>a, <2>1 DEF Settled, SameRead
<1>9. G
  BY <1>1, <1>2, <1>3, <1>4, <1>5, <1>6, <1>7, <1>8 DEF CtrlCase
<1>. QED BY <1>9 DEF G

LEMMA NonEmpty == ASSUME NEW S, NEW q \in Seq(S), q # << >> PROVE 1 \in DOMAIN q
  OBVIOUS

LEMMA CoherentEvent ==
    ASSUME Types, IdInv, NEW e, EventCase(e), NEW s \in Slot, s = e.s, AskInv, ListAt(s),
           Addressed(s), Coherent(s), Grow
    PROVE  Coherent(s)'
<1> DEFINE G == Coherent(s)'
<1>a. ASSUME Settled(s) PROVE G
  BY <1>a, CoherentKeep
<1>b. s \notin torn' => s \notin torn
  BY DEF Grow
<1>c. /\ EventFrame(e) /\ sock[s].id \in Id /\ fc.at = "no" /\ sock[s] \in Sock
  BY EventUp, EventFacts
<1> HIDE DEF G
<1>1. ASSUME NEW kind, EventTell(e, kind) \/ EventStop(e) PROVE G
  <2>1. /\ sock' = sock /\ fc' = fc
        /\ \A i \in Id : net'[i] = net[i] \/ (net[i] = "rst" /\ net'[i] = "hup")
        /\ \A k \in Kind \ {"ERR", "LATE"} : \A i \in Id : k \in said'[i] <=> k \in said[i]
    BY <1>1, EventIdleView
  <2>2. \A i \in Id : "OPEN" \in said'[i] <=> "OPEN" \in said[i]
    BY <2>1 DEF Kind
  <2>3. \A i \in Id : net[i] = "none" => net'[i] = "none"
    BY <2>1
  <2>. QED BY <1>a, <2>1, <2>2, <2>3 DEF Settled, SameName, SameType
<1>2. ASSUME NEW kind, EventForce(e, kind) PROVE G
  <2>1. /\ sock[s].type \in Live /\ SameName(s) /\ SameType(s) /\ SameRead(s)
        /\ fc'.id = sock[s].id /\ said' = said /\ net' = net
    BY <1>2, EventForceView
  <2>2. /\ sock'[s].type = sock[s].type /\ sock'[s].closing = sock[s].closing
        /\ sock'[s].reading = sock[s].reading /\ sock'[s].id = sock[s].id /\ sock'[s].tcp = sock[s].tcp
    BY <2>1 DEF SameName, SameType, SameRead
  <2>3. s \notin torn =>
          /\ sock[s].type \in Live => sock[s].tcp
          /\ sock[s].type \in {"CONNECTED", "HALFCLOSE_WRITE"} => "OPEN" \in said[sock[s].id]
          /\ sock[s].type = "PACCEPT" => "OPEN" \notin said[sock[s].id] /\ ~ sock[s].reading
          /\ sock[s].closing => sock[s].type \in {"HALFCLOSE_READ", "INVALID", "RESERVE"}
    BY DEF Coherent, Open
  <2>. QED BY <1>b, <2>1, <2>2, <2>3, CoherentIs DEF G
<1>3. ASSUME Connected(e) PROVE G
  <2>1. /\ sock[s].type = "CONNECTING" /\ sock'[s].type = "CONNECTED"
        /\ sock'[s].closing = sock[s].closing /\ sock'[s].id = sock[s].id /\ sock'[s].tcp = sock[s].tcp
        /\ Say(sock[s].id, "OPEN") /\ fc' = fc
    BY <1>3, ConnectedView DEF SameName
  <2>2. "OPEN" \in said'[sock[s].id]
    BY <1>c, <2>1, SaidTo DEF Kind
  <2>3. s \notin torn => sock[s].tcp /\ ~ sock[s].closing
    BY <2>1 DEF Coherent, Live
  <2>. QED BY <1>b, <1>c, <2>1, <2>2, <2>3, CoherentIs DEF G, Live
<1>4. ASSUME EofRead(e) PROVE G
  <2>1. /\ sock[s].type \in {"CONNECTED", "PACCEPT", "RESERVE"} /\ sock'[s].type = "HALFCLOSE_READ"
        /\ sock'[s].tcp = sock[s].tcp /\ fc' = fc
        /\ torn' = torn \cup (IF sock[s].type = "RESERVE" THEN {s} ELSE {})
    BY <1>4, EofReadView DEF SameName
  <2>2. s \notin torn' => sock[s].tcp
    BY <2>1 DEF Coherent, Live
  <2>. QED BY <1>c, <2>1, <2>2, CoherentIs DEF G, Live
<1>5. ASSUME WriteClosed(e) PROVE G
  <2>1. /\ sock'[s].type = "INVALID" /\ sock'[s].id = sock[s].id /\ fc' = fc
        /\ net'[sock[s].id] = "none"
    BY <1>5, WriteClosedView DEF SameName
  <2>. QED BY <1>c, <2>1, CoherentIs DEF G, Live
<1>6. ASSUME WriteStopped(e) \/ WriteError(e) PROVE G
  <2>1. /\ \/ sock[s].type = "HALFCLOSE_WRITE"
           \/ sock[s].type \in {"CONNECTED", "PACCEPT", "RESERVE"} /\ ~ sock[s].closing
              /\ (sock[s].dw \o sock[s].high) \o sock[s].low # << >>
        /\ sock'[s].type = "HALFCLOSE_WRITE" /\ sock'[s].closing = sock[s].closing
        /\ sock'[s].tcp = sock[s].tcp /\ sock'[s].id = sock[s].id /\ fc' = fc
        /\ torn' = torn \cup (IF sock[s].type = "RESERVE" THEN {s} ELSE {})
    BY <1>6, WriteFailView DEF SameName
  <2>2. ASSUME s \notin torn, sock[s].type = "PACCEPT" PROVE FALSE
    <3>1. PICK i \in DOMAIN ((sock[s].dw \o sock[s].high) \o sock[s].low) :
            ((sock[s].dw \o sock[s].high) \o sock[s].low)[i] \in Nodes(sock[s])
      <4>1. (sock[s].dw \o sock[s].high) \o sock[s].low \in Seq(Node)
        BY <1>c, NodesOf, CatNode
      <4>3. (sock[s].dw \o sock[s].high) \o sock[s].low # << >>
        BY <2>1, <2>2
      <4>2. 1 \in DOMAIN ((sock[s].dw \o sock[s].high) \o sock[s].low)
        BY <4>1, <4>3, NonEmpty
      <4>. QED BY <1>c, <4>2, NodesOf
    <3>2. PICK b \in Nodes(sock[s]) : TRUE
      BY <3>1
    <3>3. b.m \in DOMAIN sent /\ sent[b.m].id = sock[s].id
      BY <2>2, <3>2 DEF ListAt, Addressed, Live
    <3>4. "OPEN" \in said[sock[s].id]
      BY <3>3 DEF AskInv, Open
    <3>. QED BY <2>2, <3>4 DEF Coherent, Open
  <2>3. s \notin torn' => s \notin torn /\ sock[s].type \in {"HALFCLOSE_WRITE", "CONNECTED"}
    BY <1>b, <2>1, <2>2
  <2>4. s \notin torn' => "OPEN" \in said[sock[s].id] /\ sock[s].tcp /\ ~ sock[s].closing
    BY <2>3 DEF Coherent, Open, Live
  <2>5. s \notin torn' => "OPEN" \in said'[sock[s].id]
    BY <1>c, <2>4 DEF Grow
  <2>. QED BY <1>c, <2>1, <2>4, <2>5, CoherentIs DEF G, Live
<1>7. ASSUME NEW n, NEW k, WriteMore(e, n, k) PROVE G
  <2>0. PICK z : z = Written(WithDirect(sock[s]), n, k)
    OBVIOUS
  <2>1. WriteSome(e, n, k) /\ sock'[s] = z /\ said' = said /\ fc' = fc /\ net' = net
    BY <1>7, <2>0, WriteMoreView
  <2>2. /\ z.type = sock[s].type /\ z.id = sock[s].id /\ z.tcp = sock[s].tcp /\ z.tag = sock[s].tag
        /\ z.closing = sock[s].closing /\ z.reading = sock[s].reading
    BY <2>0, <2>1, WriteSomeSlot
  <2>. QED BY <1>a, <2>1, <2>2 DEF Settled, SameName, SameType
<1>8. ASSUME NEW n, NEW k, WriteFinish(e, n, k) PROVE G
  <2>1. /\ sock'[s].type = "INVALID" /\ sock'[s].id = sock[s].id /\ fc' = fc
        /\ net'[sock[s].id] = "none"
    BY <1>8, WriteFinishView DEF SameName
  <2>. QED BY <1>c, <2>1, CoherentIs DEF G, Live
<1>9. ASSUME NEW n, NEW k, WriteDone(e, n, k) PROVE G
  <2>1. SameName(s) /\ SameType(s) /\ SameRead(s) /\ said' = said /\ fc' = fc /\ net' = net
    BY <1>9, WriteDoneView
  <2>. QED BY <1>a, <2>1 DEF Settled, SameRead
<1>10. G
  BY <1>1, <1>2, <1>3, <1>4, <1>5, <1>6, <1>7, <1>8, <1>9 DEF EventCase
<1>. QED BY <1>10 DEF G

LEMMA CoherentOther ==
    ASSUME Types, IdInv, NEW s \in Slot, OtherAt(s), Coherent(s), Grow
    PROVE  Coherent(s)'
<1> DEFINE G == Coherent(s)'
<1>a. ASSUME Settled(s) PROVE G
  BY <1>a, CoherentKeep
<1>b. s \notin torn' => s \notin torn
  BY DEF Grow
<1>c. sock[s].id # 0 => sock[s].id \in Id
  BY DEF IdInv
<1> HIDE DEF G
<1>1. ASSUME CloseFd, s = fc.s PROVE G
  <2>1. /\ fc.at = "lock" /\ sock'[s].type = "INVALID" /\ sock'[s].id = sock[s].id
        /\ net'[fc.id] = "none" /\ fc'.at # "lock"
    BY <1>1, CloseFdView, NoCloseType DEF SameName
  <2>2. s \notin torn => fc.id = sock[s].id
    BY <1>1, <2>1 DEF Coherent
  <2>. QED BY <1>b, <2>1, <2>2, CoherentIs DEF G, Live
<1>2. ASSUME clear_closed_event, s = fc.s PROVE G
  <2>1. /\ fc.id \in Id /\ fc' = NoClose /\ Say(fc.id, fc.say) /\ sock' = sock /\ net' = net
        /\ \A i \in Id : i # fc.id => said'[i] = said[i]
    BY <1>2, ClearView
  <2>2. fc.say \in {"-", "CLOSE", "ERR"}
    BY DEF Types, Closing
  <2>3. "OPEN" \in said'[fc.id] <=> "OPEN" \in said[fc.id]
    BY <2>1, <2>2, SaidTo DEF Kind
  <2>4. \A i \in Id : "OPEN" \in said'[i] <=> "OPEN" \in said[i]
    BY <2>1, <2>3
  <2>5. fc'.at # "lock"
    BY <2>1, NoCloseType
  <2>. QED BY <1>a, <2>1, <2>4, <2>5 DEF Settled, SameName, SameType
<1>3. ASSUME AcceptNew, s = HASH_ID(NextId) PROVE G
  <2>1. /\ NextId \in Id /\ NextId > alloc_id /\ sock[s].type = "INVALID" /\ sock'[s].type = "PACCEPT"
        /\ sock'[s].id = NextId /\ sock'[s].tcp /\ ~ sock'[s].closing /\ ~ sock'[s].reading
        /\ said'[NextId] = said[NextId] \cup {"ACCEPT"} /\ fc' = fc
    BY <1>3, AcceptNewView
  <2>2. said[NextId] = {}
    BY <2>1 DEF IdInv
  <2>3. "OPEN" \notin said'[NextId]
    BY <2>1, <2>2
  <2>4. s \notin torn => ~ (fc.at = "lock" /\ fc.s = s)
    BY <2>1 DEF Coherent, Live
  <2>. QED BY <1>b, <2>1, <2>3, <2>4, CoherentIs DEF G, Live
<1>4. ASSUME NEW id \in Id, Network(id) PROVE G
  <2>1. /\ \A i \in Id : i # id => net'[i] = net[i]
        /\ net[id] # "none" /\ UNCHANGED <<sock, said, fc>>
    BY <1>4, NetworkView DEF thread
  <2>2. \A i \in Id : net[i] = "none" => net'[i] = "none"
    BY <2>1
  <2>. QED BY <1>a, <2>1, <2>2 DEF Settled, SameName, SameType
<1>9. G
  BY <1>1, <1>2, <1>3, <1>4 DEF OtherAt
<1>. QED BY <1>9 DEF G

LEMMA CoherentWait ==
    ASSUME NEW s, Coherent(s), UNCHANGED <<sock, said, torn, net, fc>>
    PROVE  Coherent(s)'
BY DEF Coherent, Open
-----------------------------------------------------------------------------
(* Reserved slots                                                           *)

\* No reservation of slot s begins.
NoNew(s) ==
    /\ \A w \in Worker : call'[w].at = "O" /\ HASH_ID(call'[w].id) = s => call'[w] = call[w]
    /\ \E d \in {0, 1} : \A p \in DOMAIN pipe' :
         pipe'[p].c = "O" => p + d \in DOMAIN pipe /\ pipe'[p] = pipe[p + d]

\* What Pending says of a reserved slot stays.
Kept(s) == s \notin torn' /\ sock[s].type = "RESERVE" =>
    /\ sock'[s].type = "RESERVE" /\ SameName(s)
    /\ wire' = wire
    /\ \A w \in Worker : call[w].at = "O" /\ HASH_ID(call[w].id) = s =>
         said'[call[w].id] = said[call[w].id] /\ net'[call[w].id] = net[call[w].id]
    /\ sock[s].id # 0 =>
         \A k \in {"OPEN", "ACCEPT", "CLOSE"} : k \in said'[sock[s].id] => k \in said[sock[s].id]
    /\ \A f \in batch' : f.s = s => \E g \in batch : g.s = s /\ g.id = f.id
    /\ fc'.id \in {fc.id, 0}

LEMMA PendingKeep ==
    ASSUME Types, Types', IdInv, NEW s \in Slot, Pending(s), Grow, NoNew(s), Kept(s)
    PROVE  Pending(s)'
<1>0. PICK d \in {0, 1} : \A p \in DOMAIN pipe' :
        pipe'[p].c = "O" => p + d \in DOMAIN pipe /\ pipe'[p] = pipe[p + d]
  BY DEF NoNew
<1>1. s \notin torn' => s \notin torn
  BY DEF Grow
<1>2. \A p \in DOMAIN pipe' : p \in Nat
  BY DEF Types
<1>3. ASSUME s \notin torn', NEW w \in Worker, call'[w].at = "O", HASH_ID(call'[w].id) = s
      PROVE  /\ sock'[s].type = "RESERVE" /\ sock'[s].id < call'[w].id
             /\ said'[call'[w].id] = {} /\ net'[call'[w].id] = "none" /\ wire'[call'[w].id] = << >>
             /\ \A v \in Worker : call'[v].at = "O" /\ HASH_ID(call'[v].id) = s => v = w
             /\ \A p \in DOMAIN pipe' : pipe'[p].c = "O" => HASH_ID(pipe'[p].id) # s
             /\ \A e \in batch' : e.s = s => e.id # call'[w].id
             /\ fc'.id # call'[w].id
  <2>1. call'[w] = call[w] /\ call[w].id \in Id
    BY <1>3 DEF NoNew, IdInv
  <2>2. /\ sock[s].type = "RESERVE" /\ sock[s].id < call[w].id
        /\ said[call[w].id] = {} /\ net[call[w].id] = "none" /\ wire[call[w].id] = << >>
        /\ \A v \in Worker : call[v].at = "O" /\ HASH_ID(call[v].id) = s => v = w
        /\ \A p \in DOMAIN pipe : pipe[p].c = "O" => HASH_ID(pipe[p].id) # s
        /\ \A e \in batch : e.s = s => e.id # call[w].id
        /\ fc.id # call[w].id
    BY <1>1, <1>3, <2>1 DEF Pending
  <2>3. /\ sock'[s].type = "RESERVE" /\ sock'[s].id = sock[s].id /\ wire' = wire
        /\ said'[call[w].id] = said[call[w].id] /\ net'[call[w].id] = net[call[w].id]
        /\ \A f \in batch' : f.s = s => \E g \in batch : g.s = s /\ g.id = f.id
        /\ fc'.id \in {fc.id, 0}
    BY <1>3, <2>1, <2>2 DEF Kept, SameName
  <2>4. \A v \in Worker : call'[v].at = "O" /\ HASH_ID(call'[v].id) = s => v = w
    BY <2>2 DEF NoNew
  <2>5. \A p \in DOMAIN pipe' : pipe'[p].c = "O" => HASH_ID(pipe'[p].id) # s
    BY <1>0, <2>2
  <2>6. \A e \in batch' : e.s = s => e.id # call[w].id
    BY <2>2, <2>3
  <2>7. fc'.id # call[w].id
    BY <2>1, <2>2, <2>3, IdType
  <2>. QED BY <2>1, <2>2, <2>3, <2>4, <2>5, <2>6, <2>7
<1>4. ASSUME s \notin torn', NEW p \in DOMAIN pipe', pipe'[p].c = "O", HASH_ID(pipe'[p].id) = s
      PROVE  /\ sock'[s].type = "RESERVE" /\ sock'[s].id = pipe'[p].id /\ ~ sock'[s].tcp
             /\ said'[pipe'[p].id] \cap {"OPEN", "ACCEPT", "CLOSE"} = {} /\ wire'[pipe'[p].id] = << >>
             /\ \A q \in DOMAIN pipe' : pipe'[q].c = "O" /\ HASH_ID(pipe'[q].id) = s => q = p
             /\ \A e \in batch' : e.s = s => e.id # pipe'[p].id
             /\ fc'.id # pipe'[p].id
  <2>0. PICK r : r = p + d
    OBVIOUS
  <2>1. r \in DOMAIN pipe /\ pipe'[p] = pipe[r]
    BY <1>0, <1>4, <2>0
  <2>a. pipe[r].id \in Id /\ pipe[r].id # 0
    BY <2>1, PipeType, IdType
  <2>2. /\ sock[s].type = "RESERVE" /\ sock[s].id = pipe[r].id /\ ~ sock[s].tcp
        /\ said[pipe[r].id] \cap {"OPEN", "ACCEPT", "CLOSE"} = {} /\ wire[pipe[r].id] = << >>
        /\ \A q \in DOMAIN pipe : pipe[q].c = "O" /\ HASH_ID(pipe[q].id) = s => q = r
        /\ \A e \in batch : e.s = s => e.id # pipe[r].id
        /\ fc.id # pipe[r].id
    BY <1>1, <1>4, <2>1 DEF Pending
  <2>3. /\ sock'[s].type = "RESERVE" /\ sock'[s].id = sock[s].id /\ sock'[s].tcp = sock[s].tcp
        /\ wire' = wire
        /\ \A k \in {"OPEN", "ACCEPT", "CLOSE"} : k \in said'[pipe[r].id] => k \in said[pipe[r].id]
        /\ \A f \in batch' : f.s = s => \E g \in batch : g.s = s /\ g.id = f.id
        /\ fc'.id \in {fc.id, 0}
    BY <1>4, <2>a, <2>2 DEF Kept, SameName
  <2>4. said'[pipe[r].id] \cap {"OPEN", "ACCEPT", "CLOSE"} = {}
    BY <2>2, <2>3
  <2>5. ASSUME NEW q \in DOMAIN pipe', pipe'[q].c = "O", HASH_ID(pipe'[q].id) = s PROVE q = p
    <3>1. q + d \in DOMAIN pipe /\ pipe'[q] = pipe[q + d]
      BY <1>0, <2>5
    <3>2. q + d = r
      BY <2>2, <2>5, <3>1
    <3>. QED BY <1>2, <2>0, <3>2
  <2>6. \A e \in batch' : e.s = s => e.id # pipe[r].id
    BY <2>2, <2>3
  <2>7. fc'.id # pipe[r].id
    BY <2>a, <2>2, <2>3
  <2>. QED BY <2>1, <2>2, <2>3, <2>4, <2>5, <2>6, <2>7
<1>. QED BY <1>3, <1>4 DEF Pending

LEMMA QuietNoNew == ASSUME Quiet, NEW s PROVE NoNew(s)
BY DEF Quiet, NoNew

LEMMA WorkerNoNew ==
    ASSUME Types, NEW s, NEW w \in Worker, call'[w].at # "O",
           \A v \in Worker : v # w => call'[v] = call[v],
           pipe' = pipe \/ \E c \in Cmd : pipe' = Append(pipe, c) /\ c.c # "O"
    PROVE  NoNew(s)
<1>1. \A v \in Worker : call'[v].at = "O" /\ HASH_ID(call'[v].id) = s => call'[v] = call[v]
  OBVIOUS
<1>2. ASSUME NEW p \in DOMAIN pipe', pipe'[p].c = "O" PROVE p \in DOMAIN pipe /\ pipe'[p] = pipe[p]
  <2>1. CASE pipe' = pipe
    BY <2>1
  <2>2. ASSUME NEW c \in Cmd, pipe' = Append(pipe, c), c.c # "O"
        PROVE  p \in DOMAIN pipe /\ pipe'[p] = pipe[p]
    BY <1>2, <2>2, PlainAppend
  <2>. QED BY <2>1, <2>2
<1>3. \A p \in DOMAIN pipe : p + 0 = p
  BY DEF Types
<1>4. \A p \in DOMAIN pipe' : pipe'[p].c = "O" => p + 0 \in DOMAIN pipe /\ pipe'[p] = pipe[p + 0]
  BY <1>2, <1>3
<1>. QED BY <1>1, <1>4 DEF NoNew

LEMMA PendingWait ==
    ASSUME Types, IdInv, NEW s \in Slot, Pending(s), NEW D \in SUBSET Slot, Wait(D)
    PROVE  Pending(s)'
<1>1. /\ Types' /\ Grow /\ \A e \in batch' : sock[e.s].type \in Live
      /\ UNCHANGED <<sock, lock, call, pipe, said, sent, torn, wire, net, fc>>
  BY WaitUp
<1>2. NoNew(s)
  BY <1>1, QuietPipe, QuietNoNew
<1>3. sock[s].type = "RESERVE" => \A e \in batch' : e.s # s
  BY <1>1 DEF Live
<1>4. Kept(s)
  BY <1>1, <1>3 DEF Kept, SameName
<1>. QED BY <1>1, <1>2, <1>4, PendingKeep

LEMMA PendingWorker ==
    ASSUME Types, IdInv, LockInv, AskInv, NEW s \in Slot, Pending(s), Grow, Types',
           NEW w \in Worker, WorkerAt(s, w)
    PROVE  Pending(s)'
<1> DEFINE G == Pending(s)'
<1>a. ASSUME NoNew(s), Kept(s) PROVE G
  BY <1>a, PendingKeep
<1> HIDE DEF G
<1>1. ASSUME ConnectNew(w), s = HASH_ID(NextId) PROVE G
  <2>0. PICK i : i = NextId
    OBVIOUS
  <2>1. /\ i \in Id /\ i > alloc_id
        /\ sock[s].type = "INVALID" /\ sock'[s].type = "RESERVE" /\ sock'[s].id = sock[s].id
        /\ CallTo(w, [at |-> "O", id |-> i, m |-> 0]) /\ call[w].at = "idle"
        /\ UNCHANGED <<pipe, said, thread, outside>>
    BY <1>1, <2>0, ConnectNewView DEF SameName
  <2>2. UNCHANGED <<batch, fc, torn, net, wire>>
    BY <2>1 DEF thread, outside
  <2>3. call'[w].id = i /\ \A v \in Worker : v # w => call'[v] = call[v]
    BY <2>1 DEF CallTo
  <2>4. /\ said[i] = {} /\ wire[i] = << >> /\ net[i] = "none"
        /\ sock[s].id <= alloc_id /\ \A e \in batch : e.id <= alloc_id
        /\ fc.at # "no" => fc.id <= alloc_id
        /\ fc.at = "no" => fc.id = 0
    BY <2>1 DEF IdInv, NoClose
  <2>5. alloc_id \in Nat /\ i \in Nat /\ i # 0 /\ sock[s].id \in Nat /\ fc.id \in Nat
    BY <2>1, IdType DEF Types, Sock, Closing
  <2>6. sock[s].id < i /\ fc.id # i
    BY <2>1, <2>4, <2>5
  <2>7. \A e \in batch : e.id # i
    <3> SUFFICES ASSUME NEW e \in batch, e.id = i PROVE FALSE
      OBVIOUS
    <3>. QED BY <2>1, <2>4, <2>5
  <2>8. s \notin torn => /\ \A v \in Worker : call[v].at = "O" => HASH_ID(call[v].id) # s
                         /\ \A p \in DOMAIN pipe : pipe[p].c = "O" => HASH_ID(pipe[p].id) # s
    BY <2>1 DEF Pending
  <2>9. ASSUME s \notin torn, NEW v \in Worker, call'[v].at = "O", HASH_ID(call'[v].id) = s PROVE v = w
    BY <2>3, <2>8, <2>9
  <2>10. ASSUME s \notin torn', NEW v \in Worker, call'[v].at = "O", HASH_ID(call'[v].id) = s
         PROVE  /\ sock'[s].type = "RESERVE" /\ sock'[s].id < call'[v].id
                /\ said'[call'[v].id] = {} /\ net'[call'[v].id] = "none" /\ wire'[call'[v].id] = << >>
                /\ \A u \in Worker : call'[u].at = "O" /\ HASH_ID(call'[u].id) = s => u = v
                /\ \A p \in DOMAIN pipe' : pipe'[p].c = "O" => HASH_ID(pipe'[p].id) # s
                /\ \A e \in batch' : e.s = s => e.id # call'[v].id
                /\ fc'.id # call'[v].id
    <3>1. v = w /\ s \notin torn /\ call'[v].id = i
      BY <2>2, <2>3, <2>9, <2>10
    <3>. QED BY <2>1, <2>2, <2>4, <2>6, <2>7, <2>8, <2>9, <3>1
  <2>11. s \notin torn' => \A p \in DOMAIN pipe' : pipe'[p].c = "O" => HASH_ID(pipe'[p].id) # s
    BY <2>1, <2>2, <2>8
  <2>. QED BY <2>10, <2>11 DEF G, Pending
<1>2. ASSUME NEW cmd \in {"K", "Q", "R", "S"}, NEW id \in Id, Command(w, cmd, id) PROVE G
  <2> DEFINE c == [c |-> cmd, id |-> id, m |-> 0]
  <2>0. /\ pipe' = Append(pipe, c) /\ c \in Cmd /\ said[id] \cap {"OPEN", "ACCEPT"} # {}
        /\ \A i \in Id : said'[i] = said[i] \cup IF i = id /\ cmd = "Q" THEN {"SHUTDOWN"} ELSE {}
        /\ UNCHANGED <<alloc_id, sock, lock, call, sent, thread, outside>>
    BY <1>2, CommandView
  <2>a. c.c # "O"
    BY <1>2
  <2> HIDE DEF c
  <2>1. UNCHANGED <<sock, call, fc, net, wire, batch, torn>>
    BY <2>0 DEF thread, outside
  <2>2. call[w].at # "O"
    BY <1>2 DEF Command, NoCall
  <2>3. NoNew(s)
    BY <2>0, <2>a, <2>1, <2>2, WorkerNoNew
  <2>4. ASSUME NEW i \in Id PROVE said'[i] = said[i] \/ said'[i] = said[i] \cup {"SHUTDOWN"}
    BY <2>0
  <2>5. ASSUME NEW i \in Id, NEW k \in {"OPEN", "ACCEPT", "CLOSE"}, k \in said'[i] PROVE k \in said[i]
    BY <2>4, <2>5
  <2>6. ASSUME s \notin torn, NEW v \in Worker, call[v].at = "O", HASH_ID(call[v].id) = s
        PROVE  said'[call[v].id] = said[call[v].id]
    <3>1. call[v].id \in Id /\ said[call[v].id] = {}
      BY <2>6 DEF IdInv, Pending
    <3>2. call[v].id # id
      BY <2>0, <3>1
    <3>. QED BY <2>0, <3>1, <3>2
  <2>7. sock[s].id # 0 => sock[s].id \in Id
    BY DEF IdInv
  <2>8. Kept(s)
    BY <2>1, <2>5, <2>6, <2>7 DEF Kept, SameName
  <2>. QED BY <1>a, <2>3, <2>8
<1>3. ASSUME NEW id \in Id, NEW low \in BOOLEAN, Send(w, id, low) PROVE G
  <2>1. /\ UNCHANGED <<sock, pipe, said, thread, outside>>
        /\ \E at \in {"lock", "inc"} : CallTo(w, [at |-> at, id |-> id, m |-> Len(sent) + 1])
    BY <1>3, SendView
  <2>2. UNCHANGED <<sock, pipe, said, fc, net, wire, batch, torn>>
    BY <2>1 DEF thread, outside
  <2>3. call'[w].at # "O" /\ \A v \in Worker : v # w => call'[v] = call[v]
    BY <2>1 DEF CallTo
  <2>4. NoNew(s)
    BY <2>2, <2>3, WorkerNoNew
  <2>5. Kept(s)
    BY <2>2 DEF Kept, SameName
  <2>. QED BY <1>a, <2>4, <2>5
<1>4. ASSUME Request(w), s = HASH_ID(call[w].id) PROVE G
  <2>0. PICK i : i = call[w].id
    OBVIOUS
  <2> DEFINE c == [c |-> "O", id |-> i, m |-> 0]
  <2>1. /\ i \in Id /\ call[w].at = "O" /\ CallTo(w, NoCall)
        /\ sock'[s].id = i /\ ~ sock'[s].tcp /\ SameType(s)
        /\ pipe' = Append(pipe, c) /\ c \in Cmd
        /\ \A j \in Id : said'[j] = said[j] \cup IF j = i THEN {"CONNECT"} ELSE {}
        /\ UNCHANGED <<thread, outside>>
    BY <1>4, <2>0, RequestView
  <2>a. c.c = "O" /\ c.id = i
    OBVIOUS
  <2> HIDE DEF c
  <2>2. UNCHANGED <<batch, fc, torn, net, wire>>
    BY <2>1 DEF thread, outside
  <2>3. call'[w].at # "O" /\ \A v \in Worker : v # w => call'[v] = call[v]
    BY <2>1 DEF CallTo, NoCall
  <2>4. s \notin torn =>
          /\ sock[s].type = "RESERVE"
          /\ said[i] = {} /\ wire[i] = << >>
          /\ \A v \in Worker : call[v].at = "O" /\ HASH_ID(call[v].id) = s => v = w
          /\ \A p \in DOMAIN pipe : pipe[p].c = "O" => HASH_ID(pipe[p].id) # s
          /\ \A e \in batch : e.s = s => e.id # i
          /\ fc.id # i
    BY <1>4, <2>0, <2>1 DEF Pending
  <2>5. s \notin torn' => \A v \in Worker : call'[v].at = "O" => HASH_ID(call'[v].id) # s
    BY <2>2, <2>3, <2>4
  <2>6. said'[i] = said[i] \cup {"CONNECT"}
    BY <2>1
  <2>7. s \notin torn => said'[i] \cap {"OPEN", "ACCEPT", "CLOSE"} = {}
    BY <2>4, <2>6
  <2>8. ASSUME s \notin torn', NEW p \in DOMAIN pipe', pipe'[p].c = "O", HASH_ID(pipe'[p].id) = s
        PROVE  pipe'[p] = c /\ p = Len(pipe) + 1
    BY <2>1, <2>2, <2>4, <2>8, PlainAppend
  <2>9. ASSUME s \notin torn', NEW p \in DOMAIN pipe', pipe'[p].c = "O", HASH_ID(pipe'[p].id) = s
        PROVE  /\ sock'[s].type = "RESERVE" /\ sock'[s].id = pipe'[p].id /\ ~ sock'[s].tcp
               /\ said'[pipe'[p].id] \cap {"OPEN", "ACCEPT", "CLOSE"} = {} /\ wire'[pipe'[p].id] = << >>
               /\ \A q \in DOMAIN pipe' : pipe'[q].c = "O" /\ HASH_ID(pipe'[q].id) = s => q = p
               /\ \A e \in batch' : e.s = s => e.id # pipe'[p].id
               /\ fc'.id # pipe'[p].id
    <3>1. pipe'[p].id = i /\ s \notin torn
      BY <2>2, <2>8, <2>9, <2>a
    <3>2. \A q \in DOMAIN pipe' : pipe'[q].c = "O" /\ HASH_ID(pipe'[q].id) = s => q = p
      BY <2>8, <2>9
    <3>. QED BY <2>1, <2>2, <2>4, <2>7, <3>1, <3>2 DEF SameType
  <2>. QED BY <2>5, <2>9 DEF G, Pending
<1>5. ASSUME Locked(w) \/ NotLocked(w) \/ NotCounted(w) PROVE G
  <2>1. /\ UNCHANGED <<sock, pipe, said, thread, outside>>
        /\ call'[w].at \in {"write", "inc", "P", "D"} /\ CallTo(w, call'[w])
    <3>1. CASE Locked(w)
      <4>1. /\ CallTo(w, [call[w] EXCEPT !.at = "write"]) /\ call'[w].at = "write"
            /\ UNCHANGED <<alloc_id, sock, pipe, said, sent, cmds, thread, outside>>
        BY <3>1, LockedView
      <4>. QED BY <4>1 DEF CallTo
    <3>2. CASE NotLocked(w)
      <4>1. /\ CallTo(w, [call[w] EXCEPT !.at = "inc"]) /\ call'[w].at = "inc"
            /\ UNCHANGED <<alloc_id, sock, lock, pipe, said, sent, cmds, thread, outside>>
        BY <3>2, NotLockedView
      <4>. QED BY <4>1 DEF CallTo
    <3>3. CASE NotCounted(w)
      BY <3>3, NotCountedView
    <3>. QED BY <1>5, <3>1, <3>2, <3>3
  <2>2. UNCHANGED <<sock, pipe, said, fc, net, wire, batch, torn>>
    BY <2>1 DEF thread, outside
  <2>3. call'[w].at # "O" /\ \A v \in Worker : v # w => call'[v] = call[v]
    BY <2>1 DEF CallTo
  <2>4. NoNew(s)
    BY <2>2, <2>3, WorkerNoNew
  <2>5. Kept(s)
    BY <2>2 DEF Kept, SameName
  <2>. QED BY <1>a, <2>4, <2>5
<1>6. ASSUME Push(w) PROVE G
  <2> DEFINE c == [c |-> call[w].at, id |-> call[w].id, m |-> call[w].m]
  <2>1. /\ call[w].at \in {"W", "D", "P"} /\ pipe' = Append(pipe, c) /\ c \in Cmd /\ CallTo(w, NoCall)
        /\ UNCHANGED <<alloc_id, sock, lock, said, sent, cmds, thread, outside>>
    BY <1>6, PushView
  <2>2. c.c # "O"
    BY <2>1
  <2> HIDE DEF c
  <2>3. UNCHANGED <<sock, said, fc, net, wire, batch, torn>>
    BY <2>1 DEF thread, outside
  <2>4. call'[w].at # "O" /\ \A v \in Worker : v # w => call'[v] = call[v]
    BY <2>1 DEF CallTo, NoCall
  <2>5. NoNew(s)
    BY <2>1, <2>2, <2>4, WorkerNoNew
  <2>6. Kept(s)
    BY <2>3 DEF Kept, SameName
  <2>. QED BY <1>a, <2>5, <2>6
<1>7. ASSUME Counted(w), s = HASH_ID(call[w].id) PROVE G
  <2>1. /\ UNCHANGED <<pipe, said, thread, outside>> /\ SameName(s) /\ SameType(s)
        /\ call'[w].at \in {"P", "D"} /\ CallTo(w, call'[w])
    BY <1>7, CountedView
  <2>2. UNCHANGED <<pipe, said, fc, net, wire, batch, torn>>
    BY <2>1 DEF thread, outside
  <2>3. call'[w].at # "O" /\ \A v \in Worker : v # w => call'[v] = call[v]
    BY <2>1 DEF CallTo
  <2>4. NoNew(s)
    BY <2>2, <2>3, WorkerNoNew
  <2>5. Kept(s)
    BY <2>1, <2>2 DEF Kept, SameType
  <2>. QED BY <1>a, <2>4, <2>5
<1>8. ASSUME NEW k \in 0 .. MsgSize, DirectWrite(w, k), s = HASH_ID(call[w].id) PROVE G
  <2>1. /\ call[w].at = "write" /\ CallTo(w, call'[w]) /\ pipe' = pipe
        /\ (call'[w] = NoCall \/ call'[w].at = "W") /\ thread' = thread
    BY <1>8, DirectWriteView
  <2>2. call'[w].at # "O" /\ \A v \in Worker : v # w => call'[v] = call[v]
    BY <2>1 DEF CallTo, NoCall
  <2>3. NoNew(s)
    BY <2>1, <2>2, WorkerNoNew
  <2>4. s \notin torn => sock[s].type \in {"CONNECTED", "HALFCLOSE_READ"}
    BY <1>8, <2>1, Bounds DEF LockInv
  <2>5. torn' = torn
    BY <2>1 DEF thread
  <2>6. Kept(s)
    BY <2>4, <2>5 DEF Kept
  <2>. QED BY <1>a, <2>3, <2>6
<1>9. G
  BY <1>1, <1>2, <1>3, <1>4, <1>5, <1>6, <1>7, <1>8 DEF WorkerAt
<1>. QED BY <1>9 DEF G

LEMMA PendingCtrl ==
    ASSUME Types, IdInv, AskInv, NEW c, CtrlCase(c), NEW s \in Slot, s = HASH_ID(c.id),
           Pending(s), Grow, Types'
    PROVE  Pending(s)'
<1> DEFINE G == Pending(s)'
<1>c. CtrlFrame(c) /\ c.id \in Id /\ c = pipe[1] /\ 1 \in DOMAIN pipe
  BY CtrlUp, CtrlFacts
<1>d. batch' = batch /\ wire' = wire /\ call' = call
  BY <1>c, CtrlFacts
<1>n. NoNew(s)
  BY <1>c, QuietCtrl, QuietNoNew
<1>a. ASSUME Kept(s) PROVE G
  BY <1>a, <1>n, PendingKeep
<1>b. s \notin torn' => s \notin torn
  BY DEF Grow
<1>i. sock[s].id # 0 => sock[s].id \in Id
  BY DEF IdInv
<1> HIDE DEF G
<1>1. ASSUME c.c = "O", sock'[s].type # "RESERVE" PROVE G
  <2>1. s \notin torn =>
          /\ \A q \in DOMAIN pipe : pipe[q].c = "O" /\ HASH_ID(pipe[q].id) = s => q = 1
          /\ \A w \in Worker : call[w].at = "O" => HASH_ID(call[w].id) # s
    BY <1>c, <1>1, PendingHead
  <2>2. \A p \in DOMAIN pipe' : p \in Nat /\ p >= 1 /\ p + 1 \in DOMAIN pipe /\ pipe'[p] = pipe[p + 1]
    BY <1>c, CtrlFacts
  <2>3. ASSUME s \notin torn', NEW p \in DOMAIN pipe', pipe'[p].c = "O", HASH_ID(pipe'[p].id) = s
        PROVE  FALSE
    <3>1. p \in Nat /\ p >= 1 /\ p + 1 \in DOMAIN pipe /\ pipe'[p] = pipe[p + 1]
      BY <2>2
    <3>2. p + 1 = 1
      BY <1>b, <2>1, <2>3, <3>1
    <3>. QED BY <3>1, <3>2
  <2>4. s \notin torn' => \A w \in Worker : call'[w].at = "O" => HASH_ID(call'[w].id) # s
    BY <1>b, <1>d, <2>1
  <2>. QED BY <2>3, <2>4 DEF G, Pending
<1>2. ASSUME OpenFail(c) PROVE G
  <2>1. c.c = "O" /\ sock'[s].type = "INVALID"
    BY <1>2, FailView DEF OpenFail
  <2>. QED BY <1>1, <2>1
<1>3. ASSUME NEW type, NEW writing, NEW kind, NEW state, OpenNew(c, type, writing, kind, state) PROVE G
  <2>1. c.c = "O" /\ sock'[s].type \in {"CONNECTED", "CONNECTING"}
    BY <1>3, OpenNewView
  <2>. QED BY <1>1, <2>1
<1>4. ASSUME sock[s].type # "RESERVE" \/ s \in torn' PROVE G
  BY <1>4, <1>a DEF Kept
<1>5. ASSUME ResumeFail(c) PROVE G
  BY <1>4, <1>5 DEF ResumeFail
<1>6. ASSUME CloseNow(c) PROVE G
  <2>1. sock[s].type \in Live
    BY <1>6, CloseNowView
  <2>. QED BY <1>4, <2>1 DEF Live
<1>7. ASSUME CloseLater(c) PROVE G
  <2>1. torn' = torn \cup (IF sock[s].type = "RESERVE" THEN {s} ELSE {})
    BY <1>7, CloseLaterView
  <2>. QED BY <1>4, <2>1
<1>8. ASSUME SameName(s), SameType(s), said' = said, net' = net, fc' = fc PROVE G
  BY <1>8, <1>a, <1>d DEF Kept, SameType
<1>9. ASSUME Resumed(c), sock[s].type = "RESERVE" PROVE G
  <2>1. /\ SameName(s) /\ sock'[s].closing = sock[s].closing /\ sock'[s].type = sock[s].type
        /\ Say(c.id, "-") /\ net' = net /\ fc' = fc
    BY <1>9, ResumedView
  <2>. QED BY <1>8, <2>1, SayNothing DEF SameType
<1>10. ASSUME Paused(c) \/ Armed(c) PROVE G
  <2>1. SameName(s) /\ SameType(s) /\ said' = said /\ net' = net /\ fc' = fc
    BY <1>10, PokedView
  <2>. QED BY <1>8, <2>1
<1>11. ASSUME DataElse(c) \/ DataTcp(c) PROVE G
  <2>1. SameName(s) /\ SameType(s) /\ said' = said /\ net' = net /\ fc' = fc
    BY <1>11, DataView
  <2>. QED BY <1>8, <2>1
<1>12. ASSUME CtrlStop(c) PROVE G
  BY <1>8, <1>12 DEF CtrlStop, SameName, SameType
<1>13. ASSUME NEW kind, CtrlTell(c, kind) PROVE G
  <2>1. /\ sock' = sock /\ fc' = fc /\ net' = net
        /\ \A i \in Id : i # c.id => said'[i] = said[i]
        /\ \A k \in Kind \ {"ERR"} : \A i \in Id : k \in said'[i] <=> k \in said[i]
    BY <1>13, CtrlIdleView
  <2>2. c.c \in {"K", "Q", "R", "S", "W"}
    BY <1>13 DEF CtrlTell
  <2>3. said[c.id] # {}
    <3>1. "OPEN" \in said[c.id] \/ said[c.id] \cap {"OPEN", "ACCEPT"} # {}
      BY <1>c, <2>2 DEF AskInv, Open
    <3>. QED BY <3>1
  <2>4. ASSUME s \notin torn, NEW v \in Worker, call[v].at = "O", HASH_ID(call[v].id) = s
        PROVE  said'[call[v].id] = said[call[v].id]
    <3>1. call[v].id \in Id /\ said[call[v].id] = {}
      BY <2>4 DEF IdInv, Pending
    <3>2. call[v].id # c.id
      BY <2>3, <3>1
    <3>. QED BY <2>1, <3>1, <3>2
  <2>5. \A k \in {"OPEN", "ACCEPT", "CLOSE"} : \A i \in Id : k \in said'[i] => k \in said[i]
    BY <2>1 DEF Kind
  <2>6. Kept(s)
    BY <1>b, <1>d, <1>i, <2>1, <2>4, <2>5 DEF Kept, SameName
  <2>. QED BY <1>a, <2>6
<1>15. ASSUME Resumed(c) PROVE G
  BY <1>4, <1>9, <1>15
<1>14. G
  BY <1>2, <1>3, <1>5, <1>6, <1>7, <1>10, <1>11, <1>12, <1>13, <1>15 DEF CtrlCase
<1>. QED BY <1>14 DEF G

\* A write event of a slot that is reserved again writes nothing.
LEMMA WriteReserve ==
    ASSUME Types, IdInv, NEW e, NEW n, NEW k, WriteSome(e, n, k), sock[e.s].type = "RESERVE"
    PROVE  wire' = wire
<1>1. /\ EventFrame(e) /\ sock[e.s].id \in Id
  <2>1. EventFrame(e)
    BY DEF WriteSome, WriteFrame
  <2>. QED BY <2>1, EventFacts
<1>0. PICK all : all = (sock[e.s].dw \o sock[e.s].high) \o sock[e.s].low
  OBVIOUS
<1>2. /\ all = << >> /\ n \in Nat /\ n <= Len(all) /\ k \in 0 .. MsgSize - 1
      /\ k > 0 => n < Len(all)
      /\ wire'[sock[e.s].id] = wire[sock[e.s].id] \o Writes(all, n, k)
  BY <1>0, WriteSomeFacts DEF Live
<1>3. n = 0 /\ k = 0
  BY <1>2, Bounds
<1>4. Writes(all, n, k) \in Seq(Write) /\ Len(Writes(all, n, k)) = 0
  <2>1. all \in Seq(Node)
    BY <1>2, EmptySeq
  <2>2. k > 0 => n < Len(all) /\ all[n + 1].at + k < MsgSize
    BY <1>3
  <2>3. /\ Writes(all, n, k) \in Seq(Write)
        /\ Len(Writes(all, n, k)) = n + IF k = 0 THEN 0 ELSE 1
    BY <1>2, <2>1, <2>2, WritesType
  <2>. QED BY <1>3, <2>3
<1>5. Writes(all, n, k) = << >>
  BY <1>4
<1>6. wire[sock[e.s].id] \in Seq(Write)
  BY <1>1 DEF Types
<1>7. wire'[sock[e.s].id] = wire[sock[e.s].id]
  BY <1>2, <1>5, <1>6
<1>8. /\ wire' \in [Id -> Seq(Write)] /\ \A i \in Id : i # sock[e.s].id => wire'[i] = wire[i]
  <2>1. PICK z : z = Written(WithDirect(sock[e.s]), n, k)
    OBVIOUS
  <2>. QED BY <2>1, WriteSomeSlot
<1>. QED BY <1>7, <1>8 DEF Types

LEMMA PendingEvent ==
    ASSUME Types, IdInv, NEW e, EventCase(e), NEW s \in Slot, s = e.s, Pending(s), Grow, Types'
    PROVE  Pending(s)'
<1> DEFINE G == Pending(s)'
<1>c. EventFrame(e) /\ sock[s].id \in Id /\ call' = call
  BY EventUp, EventFacts
<1>d. \A f \in batch' : f.s = s => \E g \in batch : g.s = s /\ g.id = f.id
  <2>1. /\ e \in batch /\ \A f \in batch' : f \in batch \/ (f.s = e.s /\ f.id = e.id)
    BY <1>c, EventFacts
  <2>. QED BY <2>1
<1>n. NoNew(s)
  BY <1>c, QuietEvent, QuietNoNew
<1>a. ASSUME Kept(s) PROVE G
  BY <1>a, <1>n, PendingKeep
<1>b. s \notin torn' => s \notin torn
  BY DEF Grow
<1> HIDE DEF G
<1>1. ASSUME sock[s].type # "RESERVE" \/ s \in torn' PROVE G
  BY <1>1, <1>a DEF Kept
<1>2. ASSUME SameName(s), SameType(s), said' = said, net' = net, fc' = fc,
             sock[s].type = "RESERVE" => wire' = wire
      PROVE  G
  BY <1>2, <1>a, <1>d DEF Kept, SameType
<1>3. ASSUME NEW kind, EventTell(e, kind) \/ EventStop(e) PROVE G
  <2>1. /\ sock' = sock /\ fc' = fc /\ wire' = wire
        /\ \A i \in Id : net'[i] = net[i] \/ (net[i] = "rst" /\ net'[i] = "hup")
        /\ \A i \in Id : i # sock[s].id => said'[i] = said[i]
        /\ \A k \in Kind \ {"ERR", "LATE"} : \A i \in Id : k \in said'[i] <=> k \in said[i]
    BY <1>3, EventIdleView
  <2>2. ASSUME s \notin torn, NEW v \in Worker, call[v].at = "O", HASH_ID(call[v].id) = s
        PROVE  said'[call[v].id] = said[call[v].id] /\ net'[call[v].id] = net[call[v].id]
    <3>1. call[v].id \in Id /\ net[call[v].id] = "none" /\ sock[s].id < call[v].id
      BY <2>2 DEF IdInv, Pending
    <3>2. call[v].id # sock[s].id
      BY <3>1, <1>c, IdType
    <3>. QED BY <2>1, <3>1, <3>2
  <2>3. \A k \in {"OPEN", "ACCEPT", "CLOSE"} : \A i \in Id : k \in said'[i] => k \in said[i]
    BY <2>1 DEF Kind
  <2>4. Kept(s)
    BY <1>b, <1>c, <1>d, <2>1, <2>2, <2>3 DEF Kept, SameName
  <2>. QED BY <1>a, <2>4
<1>4. ASSUME NEW kind, EventForce(e, kind) PROVE G
  <2>1. sock[s].type \in Live
    BY <1>4, EventForceView
  <2>. QED BY <1>1, <2>1 DEF Live
<1>5. ASSUME Connected(e) \/ WriteStopped(e) PROVE G
  BY <1>1, <1>5 DEF Connected, WriteStopped
<1>6. ASSUME EofRead(e) PROVE G
  <2>1. torn' = torn \cup (IF sock[s].type = "RESERVE" THEN {s} ELSE {})
    BY <1>6, EofReadView
  <2>. QED BY <1>1, <2>1
<1>7. ASSUME WriteError(e) PROVE G
  <2>1. torn' = torn \cup (IF sock[s].type = "RESERVE" THEN {s} ELSE {})
    BY <1>7, WriteFailView
  <2>. QED BY <1>1, <2>1
<1>8. ASSUME WriteClosed(e) PROVE G
  BY <1>1, <1>8 DEF WriteClosed
<1>9. ASSUME NEW n, NEW k, WriteMore(e, n, k) PROVE G
  <2>0. PICK z : z = Written(WithDirect(sock[s]), n, k)
    OBVIOUS
  <2>1. WriteSome(e, n, k) /\ sock'[s] = z /\ said' = said /\ fc' = fc /\ net' = net
    BY <1>9, <2>0, WriteMoreView
  <2>2. /\ z.type = sock[s].type /\ z.id = sock[s].id /\ z.tcp = sock[s].tcp /\ z.tag = sock[s].tag
        /\ z.closing = sock[s].closing
    BY <2>0, <2>1, WriteSomeSlot
  <2>3. sock[s].type = "RESERVE" => wire' = wire
    BY <2>1, WriteReserve
  <2>. QED BY <1>2, <2>1, <2>2, <2>3 DEF SameName, SameType
<1>10. ASSUME NEW n, NEW k, WriteFinish(e, n, k) PROVE G
  BY <1>1, <1>10 DEF WriteFinish
<1>11. ASSUME NEW n, NEW k, WriteDone(e, n, k) PROVE G
  <2>1. WriteSome(e, n, k) /\ SameName(s) /\ SameType(s) /\ said' = said /\ fc' = fc /\ net' = net
    BY <1>11, WriteDoneView
  <2>2. sock[s].type = "RESERVE" => wire' = wire
    BY <2>1, WriteReserve
  <2>. QED BY <1>2, <2>1, <2>2
<1>12. G
  BY <1>3, <1>4, <1>5, <1>6, <1>7, <1>8, <1>9, <1>10, <1>11 DEF EventCase
<1>. QED BY <1>12 DEF G

LEMMA PendingOther ==
    ASSUME Types, IdInv, NEW s \in Slot, OtherAt(s), Pending(s), Coherent(s), Grow, Types'
    PROVE  Pending(s)'
<1> DEFINE G == Pending(s)'
<1>c. call' = call /\ sent' = sent /\ pipe' = pipe /\ lock' = lock
  BY OtherUp
<1>n. NoNew(s)
  BY <1>c, QuietPipe, QuietNoNew
<1>a. ASSUME Kept(s) PROVE G
  BY <1>a, <1>n, PendingKeep
<1>b. s \notin torn' => s \notin torn
  BY DEF Grow
<1>i. sock[s].id # 0 => sock[s].id \in Id
  BY DEF IdInv
<1> HIDE DEF G
<1>1. ASSUME CloseFd, s = fc.s PROVE G
  <2>1. s \notin torn => sock[s].type \in Live
    BY <1>1 DEF CloseFd, Coherent
  <2>2. Kept(s)
    BY <1>b, <2>1 DEF Kept, Live
  <2>. QED BY <1>a, <2>2
<1>2. ASSUME clear_closed_event, s = fc.s PROVE G
  <2>1. /\ fc.id \in Id /\ fc' = NoClose /\ Say(fc.id, fc.say) /\ batch' \subseteq batch
        /\ UNCHANGED <<sock, torn, net, wire>>
        /\ \A i \in Id : i # fc.id => said'[i] = said[i]
    BY <1>2, ClearView
  <2>2. ASSUME s \notin torn, NEW v \in Worker, call[v].at = "O", HASH_ID(call[v].id) = s
        PROVE  said'[call[v].id] = said[call[v].id]
    <3>1. call[v].id \in Id /\ fc.id # call[v].id
      BY <2>2 DEF IdInv, Pending
    <3>. QED BY <2>1, <3>1
  <2>3. fc'.id = 0
    BY <2>1 DEF NoClose
  <2>4. ASSUME s \notin torn, NEW p \in DOMAIN pipe, pipe[p].c = "O", HASH_ID(pipe[p].id) = s
        PROVE  said'[pipe[p].id] = said[pipe[p].id]
    <3>1. pipe[p].id \in Id /\ fc.id # pipe[p].id
      BY <2>4, PipeType DEF Pending
    <3>. QED BY <2>1, <3>1
  <2>5. ASSUME s \notin torn', NEW w \in Worker, call'[w].at = "O", HASH_ID(call'[w].id) = s
        PROVE  /\ sock'[s].type = "RESERVE" /\ sock'[s].id < call'[w].id
               /\ said'[call'[w].id] = {} /\ net'[call'[w].id] = "none" /\ wire'[call'[w].id] = << >>
               /\ \A v \in Worker : call'[v].at = "O" /\ HASH_ID(call'[v].id) = s => v = w
               /\ \A p \in DOMAIN pipe' : pipe'[p].c = "O" => HASH_ID(pipe'[p].id) # s
               /\ \A e \in batch' : e.s = s => e.id # call'[w].id
               /\ fc'.id # call'[w].id
    <3>1. /\ sock[s].type = "RESERVE" /\ sock[s].id < call[w].id
          /\ said[call[w].id] = {} /\ net[call[w].id] = "none" /\ wire[call[w].id] = << >>
          /\ \A v \in Worker : call[v].at = "O" /\ HASH_ID(call[v].id) = s => v = w
          /\ \A p \in DOMAIN pipe : pipe[p].c = "O" => HASH_ID(pipe[p].id) # s
          /\ \A e \in batch : e.s = s => e.id # call[w].id
      BY <1>b, <1>c, <2>5 DEF Pending
    <3>2. call[w].id \in Id /\ call[w].id # 0
      BY <1>c, <2>5, IdType DEF IdInv
    <3>3. said'[call[w].id] = said[call[w].id]
      BY <1>b, <1>c, <2>2, <2>5
    <3>. QED BY <1>c, <2>1, <2>3, <3>1, <3>2, <3>3
  <2>6. ASSUME s \notin torn', NEW p \in DOMAIN pipe', pipe'[p].c = "O", HASH_ID(pipe'[p].id) = s
        PROVE  /\ sock'[s].type = "RESERVE" /\ sock'[s].id = pipe'[p].id /\ ~ sock'[s].tcp
               /\ said'[pipe'[p].id] \cap {"OPEN", "ACCEPT", "CLOSE"} = {} /\ wire'[pipe'[p].id] = << >>
               /\ \A q \in DOMAIN pipe' : pipe'[q].c = "O" /\ HASH_ID(pipe'[q].id) = s => q = p
               /\ \A e \in batch' : e.s = s => e.id # pipe'[p].id
               /\ fc'.id # pipe'[p].id
    <3>1. /\ sock[s].type = "RESERVE" /\ sock[s].id = pipe[p].id /\ ~ sock[s].tcp
          /\ said[pipe[p].id] \cap {"OPEN", "ACCEPT", "CLOSE"} = {} /\ wire[pipe[p].id] = << >>
          /\ \A q \in DOMAIN pipe : pipe[q].c = "O" /\ HASH_ID(pipe[q].id) = s => q = p
          /\ \A e \in batch : e.s = s => e.id # pipe[p].id
      BY <1>b, <1>c, <2>6 DEF Pending
    <3>2. pipe[p].id \in Id /\ pipe[p].id # 0
      BY <1>c, <2>6, PipeType, IdType
    <3>3. said'[pipe[p].id] = said[pipe[p].id]
      BY <1>b, <1>c, <2>4, <2>6
    <3>. QED BY <1>c, <2>1, <2>3, <3>1, <3>2, <3>3
  <2>. QED BY <2>5, <2>6 DEF G, Pending
<1>3. ASSUME AcceptNew, s = HASH_ID(NextId) PROVE G
  <2>1. sock[s].type = "INVALID"
    BY <1>3, AcceptNewView
  <2>2. Kept(s)
    BY <2>1 DEF Kept
  <2>. QED BY <1>a, <2>2
<1>4. ASSUME NEW id \in Id, Network(id) PROVE G
  <2>1. /\ \A i \in Id : i # id => net'[i] = net[i]
        /\ net[id] # "none" /\ UNCHANGED <<sock, said, fc, batch, wire, torn>>
    BY <1>4, NetworkView DEF thread
  <2>2. ASSUME s \notin torn, NEW v \in Worker, call[v].at = "O", HASH_ID(call[v].id) = s
        PROVE  net'[call[v].id] = net[call[v].id]
    <3>1. call[v].id \in Id /\ net[call[v].id] = "none"
      BY <2>2 DEF IdInv, Pending
    <3>. QED BY <2>1, <3>1
  <2>3. Kept(s)
    BY <2>1, <2>2 DEF Kept, SameName
  <2>. QED BY <1>a, <2>3
<1>9. G
  BY <1>1, <1>2, <1>3, <1>4 DEF OtherAt
<1>. QED BY <1>9 DEF G
-----------------------------------------------------------------------------
(* The counter of direct requests                                           *)

LEMMA OutMember ==
    ASSUME NEW i, NEW m
    PROVE  m \in Out(i)' <=>
             /\ m \in DOMAIN sent'
             /\ \/ \E w \in Worker : call'[w].at \in Data /\ call'[w].id = i /\ call'[w].m = m
                \/ \E p \in DOMAIN pipe' : pipe'[p].c \in Data /\ pipe'[p].id = i /\ pipe'[p].m = m
BY DEF Out, Data

LEMMA OutQuiet ==
    ASSUME Quiet, NEW i
    PROVE  Out(i)' \subseteq Out(i)
<1> SUFFICES ASSUME NEW m \in Out(i)' PROVE m \in Out(i)
  OBVIOUS
<1>1. /\ m \in DOMAIN sent'
      /\ \/ \E w \in Worker : call'[w].at \in Data /\ call'[w].id = i /\ call'[w].m = m
         \/ \E p \in DOMAIN pipe' : pipe'[p].c \in Data /\ pipe'[p].id = i /\ pipe'[p].m = m
  BY OutMember
<1>2. call' = call /\ sent' = sent
  BY DEF Quiet
<1>3. PICK d \in {0, 1} : \A p \in DOMAIN pipe' : p + d \in DOMAIN pipe /\ pipe'[p] = pipe[p + d]
  BY DEF Quiet
<1>. QED BY <1>1, <1>2, <1>3 DEF Out

LEMMA OutNone ==
    ASSUME AskInv, NEW i, ~ Open(i)
    PROVE  Out(i) = {}
BY DEF Out, AskInv, Msg, Data

\* A step of worker w adds at most the message it has just counted.
LEMMA OutWorker ==
    ASSUME Types, CallInv, PipeInv, NEW w \in Worker, AskedBy(w), NEW i, NEW m \in Out(i)'
    PROVE  \/ m \in Out(i)
           \/ call[w].at = "inc" /\ call[w].id = i /\ m = call[w].m
<1>1. /\ m \in DOMAIN sent'
      /\ \/ \E v \in Worker : call'[v].at \in Data /\ call'[v].id = i /\ call'[v].m = m
         \/ \E p \in DOMAIN pipe' : pipe'[p].c \in Data /\ pipe'[p].id = i /\ pipe'[p].m = m
  BY OutMember
<1>2. ASSUME NEW v \in Worker, call[v].at \in Data, call[v].id = i, call[v].m = m PROVE m \in Out(i)
  BY <1>2 DEF Out, CallInv, Data, Msg
<1>3. ASSUME NEW p \in DOMAIN pipe, pipe[p].c \in Data, pipe[p].id = i, pipe[p].m = m PROVE m \in Out(i)
  BY <1>3 DEF Out, PipeInv
<1>4. ASSUME NEW v \in Worker, call'[v].at \in Data, call'[v].id = i, call'[v].m = m, v # w
      PROVE m \in Out(i)
  <2>1. call'[v] = call[v]
    BY <1>4 DEF AskedBy
  <2>. QED BY <1>2, <1>4, <2>1
<1>5. ASSUME call'[w].at \in Data, call'[w].id = i, call'[w].m = m
      PROVE  call[w].at = "inc" /\ call[w].id = i /\ m = call[w].m
  BY <1>5 DEF AskedBy, Data, Msg
<1>6. ASSUME NEW p \in DOMAIN pipe', pipe'[p].c \in Data, pipe'[p].id = i, pipe'[p].m = m
      PROVE  m \in Out(i)
  <2>1. CASE pipe' = pipe
    BY <1>3, <1>6, <2>1
  <2>2. ASSUME NEW c \in Cmd, pipe' = Append(pipe, c), c.c \notin Data PROVE m \in Out(i)
    <3>1. p \in DOMAIN pipe /\ pipe'[p] = pipe[p]
      BY <1>6, <2>2, PlainAppend
    <3>. QED BY <1>3, <1>6, <3>1
  <2>3. ASSUME NEW c \in Cmd, pipe' = Append(pipe, c), call[w].at \in Data,
               c.c = call[w].at, c.id = call[w].id, c.m = call[w].m
        PROVE  m \in Out(i)
    <3>1. (p \in DOMAIN pipe /\ pipe'[p] = pipe[p]) \/ pipe'[p] = c
      BY <1>6, <2>3, PlainAppend
    <3>. QED BY <1>2, <1>3, <1>6, <2>3, <3>1
  <2>. QED BY <2>1, <2>2, <2>3, AskedCases
<1>. QED BY <1>1, <1>4, <1>5, <1>6

LEMMA CoveredKeep ==
    ASSUME Types, Types', NEW s \in Slot, Covered(s), Grow, SameName(s), SameCount(s),
           NEW i, i = sock[s].id, s \notin torn => Out(i)' \subseteq Out(i)
    PROVE  Covered(s)'
<1>1. s \notin torn' => s \notin torn
  BY DEF Grow
<1> SUFFICES ASSUME s \notin torn, sock[s].tcp PROVE Covered(s)'
  BY <1>1 DEF Covered, SameName
<1>2. i # 0 /\ sock[s].tag = ID_TAG16(i) /\ Cardinality(Out(i)) <= sock[s].sending
  BY DEF Covered
<1>3. Cardinality(Out(i)') <= Cardinality(Out(i)) /\ Cardinality(Out(i)') \in Nat
  BY OutLess
<1>4. Cardinality(Out(i)) \in Nat /\ sock[s].sending \in Nat
  <2>1. sock[s] \in Sock
    BY DEF Types
  <2>2. sock[s].sending \in Nat
    BY <2>1, Bounds DEF Sock
  <2>. QED BY <2>2, OutFinite
<1>5. Cardinality(Out(i)') <= sock'[s].sending
  BY <1>2, <1>3, <1>4 DEF SameCount
<1>. QED BY <1>2, <1>5, CoveredIs DEF SameName

LEMMA CoveredWorker ==
    ASSUME Types, IdInv, LockInv, AskInv, CallInv, PipeInv, NEW s \in Slot, Covered(s), Grow,
           Types', NEW w \in Worker, WorkerAt(s, w)
    PROVE  Covered(s)'
<1> DEFINE G == Covered(s)'
<1>0. PICK i : i = sock[s].id
  OBVIOUS
<1>w. AskedBy(w)
  BY WorkerAsks
<1>a. ASSUME SameName(s), SameCount(s), s \notin torn => Out(i)' \subseteq Out(i) PROVE G
  BY <1>0, <1>a, CoveredKeep
<1>b. ASSUME call[w].at # "inc" PROVE Out(i)' \subseteq Out(i)
  BY <1>b, <1>w, OutWorker
<1>t. s \notin torn' => s \notin torn
  BY DEF Grow
<1> HIDE DEF G
<1>1. ASSUME ConnectNew(w), s = HASH_ID(NextId) PROVE G
  <2>1. SameName(s) /\ SameCount(s) /\ call[w].at = "idle"
    BY <1>1, ConnectNewView
  <2>. QED BY <1>a, <1>b, <2>1
<1>2. ASSUME sock' = sock, call[w].at # "inc" PROVE G
  BY <1>2, <1>a, <1>b DEF SameName, SameCount
<1>3. ASSUME NEW cmd \in {"K", "Q", "R", "S"}, NEW id \in Id, Command(w, cmd, id) PROVE G
  BY <1>2, <1>3 DEF Command, NoCall
<1>4. ASSUME NEW id \in Id, NEW low \in BOOLEAN, Send(w, id, low) PROVE G
  BY <1>2, <1>4 DEF Send, NoCall
<1>5. ASSUME Request(w), s = HASH_ID(call[w].id) PROVE G
  <2>1. ~ sock'[s].tcp
    BY <1>5, RequestView
  <2>. QED BY <2>1 DEF G, Covered
<1>6. ASSUME Locked(w) \/ NotLocked(w) PROVE G
  <2>1. sock' = sock /\ call[w].at = "lock"
    BY <1>6, LockedView, NotLockedView
  <2>. QED BY <1>2, <2>1
<1>7. ASSUME Push(w) PROVE G
  <2>1. sock' = sock /\ call[w].at \in {"W", "D", "P"}
    BY <1>7, PushView
  <2>. QED BY <1>2, <2>1
<1>8. ASSUME NEW k \in 0 .. MsgSize, DirectWrite(w, k), s = HASH_ID(call[w].id) PROVE G
  <2>1. SameName(s) /\ SameCount(s) /\ call[w].at = "write"
    BY <1>8, DirectWriteView
  <2>. QED BY <1>a, <1>b, <2>1
<1>9. ASSUME NotCounted(w), s = HASH_ID(call[w].id) PROVE G
  <2>1. sock' = sock /\ call[w].at = "inc" /\ ~ TagMatches(sock[s], call[w].id)
    BY <1>9, NotCountedView
  <2>2. CASE sock[s].tcp /\ s \notin torn
    <3>1. call[w].id # i
      BY <1>0, <2>1, <2>2 DEF Covered, TagMatches
    <3>2. Out(i)' \subseteq Out(i)
      BY <1>w, <3>1, OutWorker
    <3>. QED BY <1>a, <2>1, <3>2 DEF SameName, SameCount
  <2>3. CASE ~ (sock[s].tcp /\ s \notin torn)
    BY <1>t, <2>1, <2>3 DEF G, Covered
  <2>. QED BY <2>2, <2>3
<1>10. ASSUME Counted(w), s = HASH_ID(call[w].id) PROVE G
  <2>1. SameName(s) /\ sock'[s].sending = sock[s].sending + 1 /\ call[w].at = "inc"
    BY <1>10, CountedView
  <2>2. CASE sock[s].tcp /\ s \notin torn
    <3>0. PICK m : m = call[w].m
      OBVIOUS
    <3>1. i # 0 /\ sock[s].tag = ID_TAG16(i) /\ Cardinality(Out(i)) <= sock[s].sending
      BY <1>0, <2>2 DEF Covered
    <3>2. Out(i)' \subseteq Out(i) \cup {m}
      BY <1>w, <3>0, OutWorker
    <3>3. IsFiniteSet(Out(i)) /\ Cardinality(Out(i)) \in Nat
      BY OutFinite
    <3>4. /\ IsFiniteSet(Out(i) \cup {m}) /\ Cardinality(Out(i) \cup {m}) \in Nat
          /\ Cardinality(Out(i) \cup {m}) <= Cardinality(Out(i)) + 1
      <4>1. IsFiniteSet(Out(i) \cup {m})
        BY <3>3, FS_AddElement
      <4>2. Cardinality(Out(i) \cup {m}) = Cardinality(Out(i)) \/ Cardinality(Out(i) \cup {m}) = Cardinality(Out(i)) + 1
        BY <3>3, FS_AddElement
      <4>. QED BY <3>3, <4>1, <4>2, FS_CardinalityType
    <3>5. Cardinality(Out(i)') <= Cardinality(Out(i) \cup {m}) /\ IsFiniteSet(Out(i)')
      BY <3>2, <3>4, FS_Subset
    <3>6. Cardinality(Out(i)') \in Nat
      BY <3>5, FS_CardinalityType
    <3>7. sock[s].sending \in Nat
      <4>1. sock[s] \in Sock
        BY DEF Types
      <4>. QED BY <4>1, Bounds DEF Sock
    <3>8. Cardinality(Out(i)') <= sock'[s].sending
      BY <2>1, <3>1, <3>3, <3>4, <3>5, <3>6, <3>7
    <3>. QED BY <1>0, <2>1, <3>1, <3>8, CoveredIs DEF G, SameName
  <2>3. CASE ~ (sock[s].tcp /\ s \notin torn)
    BY <1>t, <2>1, <2>3 DEF G, Covered, SameName
  <2>. QED BY <2>2, <2>3
<1>11. G
  BY <1>1, <1>3, <1>4, <1>5, <1>6, <1>7, <1>8, <1>9, <1>10 DEF WorkerAt
<1>. QED BY <1>11 DEF G

LEMMA CoveredNone ==
    ASSUME NEW s, NEW i, sock'[s].id = i, i # 0, sock'[s].tag = ID_TAG16(i),
           sock'[s].sending = 0, Out(i)' = {}
    PROVE  Covered(s)'
<1>1. Cardinality(Out(i)') = 0
  BY FS_EmptySet
<1>2. Cardinality(Out(i)') <= sock'[s].sending
  BY <1>1
<1>. QED BY <1>2, CoveredIs

LEMMA CoveredCtrl ==
    ASSUME Types, IdInv, AskInv, CallInv, PipeInv, NEW c, CtrlCase(c), NEW s \in Slot,
           s = HASH_ID(c.id), Pending(s), Covered(s), Grow, Types'
    PROVE  Covered(s)'
<1> DEFINE G == Covered(s)'
<1>0. PICK i : i = sock[s].id
  OBVIOUS
<1>c. CtrlFrame(c) /\ c.id \in Id /\ c = pipe[1] /\ 1 \in DOMAIN pipe /\ c.id # 0
  BY CtrlUp, CtrlFacts, IdType
<1>q. Quiet
  BY <1>c, QuietCtrl
<1>b. \A j : Out(j)' \subseteq Out(j)
  BY <1>q, OutQuiet
<1>t. s \notin torn' => s \notin torn
  BY DEF Grow
<1>a. ASSUME SameName(s), SameCount(s) PROVE G
  BY <1>0, <1>a, <1>b, CoveredKeep
<1> HIDE DEF G
<1>1. ASSUME OpenFail(c) \/ ResumeFail(c) PROVE G
  <2>1. SameName(s) /\ SameCount(s)
    BY <1>1, FailView
  <2>. QED BY <1>a, <2>1
<1>2. ASSUME NEW type, NEW writing, NEW kind, NEW state, OpenNew(c, type, writing, kind, state) PROVE G
  <2>0. PICK j : j = c.id
    OBVIOUS
  <2>1. /\ c.c = "O" /\ sock'[s].id = j /\ sock'[s].tag = ID_TAG16(j) /\ sock'[s].sending = 0
    BY <1>2, <2>0, OpenNewView
  <2>2. CASE s \notin torn
    <3>1. said[j] \cap {"OPEN", "ACCEPT", "CLOSE"} = {}
      BY <1>c, <2>0, <2>1, <2>2, PendingHead
    <3>2. Out(j) = {}
      BY <3>1, OutNone DEF Open
    <3>3. Out(j)' = {}
      BY <1>b, <3>2
    <3>. QED BY <1>c, <2>0, <2>1, <3>3, CoveredNone DEF G
  <2>3. CASE s \in torn
    BY <1>t, <2>3 DEF G, Covered
  <2>. QED BY <2>2, <2>3
<1>3. ASSUME sock' = sock PROVE G
  BY <1>3, <1>a DEF SameName, SameCount
<1>4. ASSUME CtrlStop(c) PROVE G
  BY <1>3, <1>4 DEF CtrlStop
<1>5. ASSUME NEW kind, CtrlTell(c, kind) PROVE G
  BY <1>3, <1>5 DEF CtrlTell
<1>6. ASSUME CloseNow(c) \/ CloseLater(c) PROVE G
  <2>1. SameName(s) /\ SameCount(s)
    BY <1>6, CloseNowView, CloseLaterView
  <2>. QED BY <1>a, <2>1
<1>7. ASSUME Resumed(c) PROVE G
  <2>1. SameName(s) /\ SameCount(s)
    BY <1>7, ResumedView
  <2>. QED BY <1>a, <2>1
<1>8. ASSUME Paused(c) \/ Armed(c) PROVE G
  <2>1. SameName(s) /\ SameCount(s)
    BY <1>8, PokedView
  <2>. QED BY <1>a, <2>1
<1>9. ASSUME DataElse(c) \/ DataTcp(c) PROVE G
  <2>1. /\ SameName(s) /\ c.c \in Data
        /\ sock[s].id = c.id /\ sock[s].tcp => sock[s].sending # 0 /\ sock'[s].sending = sock[s].sending - 1
        /\ ~ (sock[s].id = c.id /\ sock[s].tcp) => sock'[s].sending = sock[s].sending
    BY <1>9, DataView DEF Data
  <2>2. CASE ~ (sock[s].id = c.id /\ sock[s].tcp)
    BY <1>a, <2>1, <2>2 DEF SameCount
  <2>3. CASE sock[s].id = c.id /\ sock[s].tcp /\ s \notin torn
    <3>0. PICK m : m = c.m
      OBVIOUS
    <3>1. i # 0 /\ sock[s].tag = ID_TAG16(i) /\ Cardinality(Out(i)) <= sock[s].sending /\ i = c.id
      BY <1>0, <2>3 DEF Covered
    <3>2. m \in DOMAIN sent /\ ~ Before(m)'
      BY <1>c, <2>1, <3>0, DataTaken
    <3>3. m \in Out(i)
      BY <1>c, <2>1, <3>0, <3>1, <3>2 DEF Out
    <3>4. m \notin Out(i)'
      <4> SUFFICES ASSUME m \in Out(i)' PROVE FALSE
        OBVIOUS
      <4>1. \/ \E w \in Worker : call'[w].at \in Data /\ call'[w].m = m
            \/ \E p \in DOMAIN pipe' : pipe'[p].c \in Data /\ pipe'[p].m = m
        BY OutMember
      <4>. QED BY <3>2, <4>1 DEF Before, Data, Msg
    <3>5. Out(i)' \subseteq Out(i) \ {m}
      BY <1>b, <3>4
    <3>6. IsFiniteSet(Out(i)) /\ Cardinality(Out(i)) \in Nat
      BY OutFinite
    <3>7. IsFiniteSet(Out(i) \ {m}) /\ Cardinality(Out(i) \ {m}) = Cardinality(Out(i)) - 1
      BY <3>3, <3>6, FS_RemoveElement
    <3>8. IsFiniteSet(Out(i)') /\ Cardinality(Out(i)') <= Cardinality(Out(i) \ {m})
      BY <3>5, <3>7, FS_Subset
    <3>9. Cardinality(Out(i)') \in Nat
      BY <3>8, FS_CardinalityType
    <3>10. sock[s].sending \in Nat
      <4>1. sock[s] \in Sock
        BY DEF Types
      <4>. QED BY <4>1, Bounds DEF Sock
    <3>11. Cardinality(Out(i)') <= sock'[s].sending
      BY <2>1, <2>3, <3>1, <3>6, <3>7, <3>8, <3>9, <3>10
    <3>. QED BY <1>0, <2>1, <3>1, <3>11, CoveredIs DEF G, SameName
  <2>4. CASE s \in torn
    BY <1>t, <2>4 DEF G, Covered
  <2>. QED BY <2>2, <2>3, <2>4
<1>10. G
  BY <1>1, <1>2, <1>4, <1>5, <1>6, <1>7, <1>8, <1>9 DEF CtrlCase
<1>. QED BY <1>10 DEF G

LEMMA CoveredEvent ==
    ASSUME Types, IdInv, NEW e, EventCase(e), NEW s \in Slot, s = e.s, Covered(s), Grow, Types'
    PROVE  Covered(s)'
<1> DEFINE G == Covered(s)'
<1>0. PICK i : i = sock[s].id
  OBVIOUS
<1>b. \A j : Out(j)' \subseteq Out(j)
  BY EventUp, QuietEvent, OutQuiet
<1>a. ASSUME SameName(s), SameCount(s) PROVE G
  BY <1>0, <1>a, <1>b, CoveredKeep
<1> HIDE DEF G
<1>1. ASSUME NEW kind, EventTell(e, kind) \/ EventStop(e) PROVE G
  <2>1. sock' = sock
    BY <1>1, EventIdleView
  <2>. QED BY <1>a, <2>1 DEF SameName, SameCount
<1>2. ASSUME NEW kind, EventForce(e, kind) PROVE G
  <2>1. SameName(s) /\ SameCount(s)
    BY <1>2, EventForceView
  <2>. QED BY <1>a, <2>1
<1>3. ASSUME Connected(e) \/ EofRead(e) PROVE G
  <2>1. SameName(s) /\ SameCount(s)
    BY <1>3, ConnectedView, EofReadView
  <2>. QED BY <1>a, <2>1
<1>4. ASSUME WriteClosed(e) PROVE G
  <2>1. SameName(s) /\ SameCount(s)
    BY <1>4, WriteClosedView
  <2>. QED BY <1>a, <2>1
<1>5. ASSUME WriteStopped(e) \/ WriteError(e) PROVE G
  <2>1. SameName(s) /\ SameCount(s)
    BY <1>5, WriteFailView
  <2>. QED BY <1>a, <2>1
<1>6. ASSUME NEW n, NEW k, WriteMore(e, n, k) PROVE G
  <2>0. PICK z : z = Written(WithDirect(sock[s]), n, k)
    OBVIOUS
  <2>1. WriteSome(e, n, k) /\ sock'[s] = z
    BY <1>6, <2>0, WriteMoreView
  <2>2. z.id = sock[s].id /\ z.tcp = sock[s].tcp /\ z.tag = sock[s].tag /\ z.sending = sock[s].sending
    BY <2>0, <2>1, WriteSomeSlot
  <2>. QED BY <1>a, <2>1, <2>2 DEF SameName, SameCount
<1>7. ASSUME NEW n, NEW k, WriteFinish(e, n, k) PROVE G
  <2>1. SameName(s) /\ SameCount(s)
    BY <1>7, WriteFinishView
  <2>. QED BY <1>a, <2>1
<1>8. ASSUME NEW n, NEW k, WriteDone(e, n, k) PROVE G
  <2>1. SameName(s) /\ SameCount(s)
    BY <1>8, WriteDoneView
  <2>. QED BY <1>a, <2>1
<1>9. G
  BY <1>1, <1>2, <1>3, <1>4, <1>5, <1>6, <1>7, <1>8 DEF EventCase
<1>. QED BY <1>9 DEF G

LEMMA CoveredOther ==
    ASSUME Types, IdInv, AskInv, NEW s \in Slot, OtherAt(s), Covered(s), Grow, Types'
    PROVE  Covered(s)'
<1> DEFINE G == Covered(s)'
<1>0. PICK i : i = sock[s].id
  OBVIOUS
<1>q. Quiet
  BY OtherUp, QuietPipe
<1>b. \A j : Out(j)' \subseteq Out(j)
  BY <1>q, OutQuiet
<1>a. ASSUME SameName(s), SameCount(s) PROVE G
  BY <1>0, <1>a, <1>b, CoveredKeep
<1> HIDE DEF G
<1>1. ASSUME CloseFd, s = fc.s PROVE G
  <2>1. SameName(s) /\ SameCount(s)
    BY <1>1, CloseFdView
  <2>. QED BY <1>a, <2>1
<1>2. ASSUME clear_closed_event PROVE G
  <2>1. sock' = sock
    BY <1>2, ClearView
  <2>. QED BY <1>a, <2>1 DEF SameName, SameCount
<1>3. ASSUME AcceptNew, s = HASH_ID(NextId) PROVE G
  <2>0. PICK j : j = NextId
    OBVIOUS
  <2>1. /\ j \in Id /\ j > alloc_id /\ sock'[s].id = j /\ sock'[s].tag = ID_TAG16(j)
        /\ sock'[s].sending = 0
    BY <1>3, <2>0, AcceptNewView
  <2>2. said[j] = {}
    BY <2>1 DEF IdInv
  <2>3. Out(j) = {}
    BY <2>2, OutNone DEF Open
  <2>4. Out(j)' = {}
    BY <1>b, <2>3
  <2>. QED BY <2>1, <2>4, IdType, CoveredNone DEF G
<1>4. ASSUME NEW id \in Id, Network(id) PROVE G
  <2>1. sock' = sock
    BY <1>4, NetworkView
  <2>. QED BY <1>a, <2>1 DEF SameName, SameCount
<1>5. G
  BY <1>1, <1>2, <1>3, <1>4 DEF OtherAt
<1>. QED BY <1>5 DEF G

-----------------------------------------------------------------------------
(* The inductive invariant                                                  *)

SlotInv(s) == ListAt(s) /\ Addressed(s) /\ Pending(s) /\ Coherent(s) /\ Covered(s)

AbortInv == aborted # "list_uncomplete" /\ (torn = {} => aborted # "dec_sending_ref")

Inv ==
    /\ Types /\ IdInv /\ AskInv /\ CallInv /\ PipeInv /\ LockInv
    /\ \A s \in Slot : SlotInv(s)
    /\ AbortInv

LEMMA LockNext ==
    ASSUME Types', IdInv', \A s \in Slot : LockAt(s)'
    PROVE  LockInv'
<1>1. \A w \in Worker : call'[w].at = "write" => HASH_ID(call'[w].id) \in Slot
  BY IdType DEF IdInv
<1>2. \A w \in Worker : call'[w].at = "write" => lock'[HASH_ID(call'[w].id)] = w
  BY <1>1 DEF LockAt
<1>3. \A s \in Slot : lock'[s] # None =>
         /\ call'[lock'[s]].at = "write" /\ HASH_ID(call'[lock'[s]].id) = s
         /\ sock'[s].id # 0
         /\ s \notin torn' => /\ sock'[s].id = call'[lock'[s]].id /\ sock'[s].dw = << >>
                              /\ sock'[s].type \in {"CONNECTED", "HALFCLOSE_READ"}
  BY DEF LockAt
<1>. QED BY <1>2, <1>3 DEF LockInv

LEMMA SlotFrame ==
    ASSUME Types, IdInv, Types', IdInv', CallInv, PipeInv, LockInv, NEW t \in Slot, Apart(t), Grow,
           OnlyLess, SlotInv(t)
    PROVE  SlotInv(t)' /\ LockAt(t)'
<1>1. ListAt(t) /\ Addressed(t) /\ Pending(t) /\ Coherent(t) /\ Covered(t) /\ LockAt(t)
  BY LockSlots DEF SlotInv
<1>2. \A b \in Nodes(sock[t]) : b.m \in DOMAIN sent
  BY <1>1 DEF ListAt
<1>3. ListAt(t)'
  BY <1>1, ListFrame
<1>4. Addressed(t)'
  BY <1>1, <1>2, AddressedFrame
<1>5. Pending(t)'
  BY <1>1, PendingFrame
<1>6. Coherent(t)'
  BY <1>1, CoherentFrame
<1>7. Covered(t)'
  BY <1>1, CoveredFrame
<1>8. LockAt(t)'
  BY <1>1, LockFrame
<1>. QED BY <1>3, <1>4, <1>5, <1>6, <1>7, <1>8 DEF SlotInv

\* A request in the pipe finds its socket's counter positive.
LEMMA CountedPositive ==
    ASSUME Types, PipeInv, NEW s \in Slot, Covered(s), s \notin torn, sock[s].tcp,
           NEW p \in DOMAIN pipe, pipe[p].c \in Data, pipe[p].id = sock[s].id
    PROVE  sock[s].sending > 0
<1>0. PICK i : i = sock[s].id
  OBVIOUS
<1>1. Cardinality(Out(i)) <= sock[s].sending
  BY <1>0 DEF Covered
<1>2. pipe[p].m \in Out(i)
  BY <1>0 DEF Out, PipeInv
<1>3. IsFiniteSet(Out(i)) /\ Cardinality(Out(i)) \in Nat
  BY OutFinite
<1>4. Cardinality(Out(i)) # 0
  BY <1>2, <1>3, FS_EmptySet
<1>5. sock[s].sending \in Nat
  <2>1. sock[s] \in Sock
    BY DEF Types
  <2>. QED BY <2>1, Bounds DEF Sock
<1>. QED BY <1>1, <1>3, <1>4, <1>5

\* The asserts that fail are not these.
LEMMA AbortStep ==
    ASSUME Types, IdInv, PipeInv, \A s \in Slot : SlotInv(s), AbortInv, Next, Grow
    PROVE  AbortInv'
<1> DEFINE G == AbortInv'
<1>t. torn' = {} => torn = {}
  BY DEF Grow
<1>s. ASSUME aborted' = aborted PROVE G
  BY <1>s, <1>t DEF AbortInv
<1> HIDE DEF G
<1>1. ASSUME NEW s, NEW w \in Worker, WorkerAt(s, w) PROVE G
  <2>1. thread' = thread
    BY <1>1 DEF WorkerAt, ConnectNew, Connect, Command, Send, Request, Locked, NotLocked, Lock,
               Counted, NotCounted, inc_sending_ref, Push, DirectWrite
  <2>. QED BY <1>s, <2>1 DEF thread
<1>2. ASSUME NEW c, CtrlCase(c) PROVE G
  <2>1. CASE CtrlStop(c)
    <3>1. /\ aborted' \notin {"no", "list_uncomplete"} /\ torn' = torn /\ CtrlFrame(c)
          /\ aborted' = "dec_sending_ref" =>
               /\ c.c \in {"D", "P"} /\ sock[HASH_ID(c.id)].sending = 0
               /\ sock[HASH_ID(c.id)].id = c.id /\ sock[HASH_ID(c.id)].tcp
      BY <2>1 DEF CtrlStop
    <3>2. 1 \in DOMAIN pipe /\ c = pipe[1] /\ HASH_ID(c.id) \in Slot
      BY <3>1, CtrlFacts
    <3>3. Covered(HASH_ID(c.id))
      BY <3>2 DEF SlotInv
    <3>4. ASSUME aborted' = "dec_sending_ref", torn = {} PROVE FALSE
      <4>1. sock[HASH_ID(c.id)].sending > 0
        BY <3>1, <3>2, <3>3, <3>4, CountedPositive DEF Data
      <4>. QED BY <3>1, <3>4, <4>1
    <3>. QED BY <1>t, <3>1, <3>4 DEF G, AbortInv
  <2>2. CASE ~ CtrlStop(c)
    <3>1. aborted' = aborted
      BY <1>2, <2>2 DEF CtrlCase, OpenFail, OpenNew, CtrlTell, CloseNow, CloseLater, ResumeFail,
                       Resumed, Paused, Armed, DataElse, DataTcp, Set, Fail, Forced
    <3>. QED BY <1>s, <3>1
  <2>. QED BY <2>1, <2>2
<1>3. ASSUME NEW e \in batch, EventCase(e) PROVE G
  <2>1. CASE EventStop(e)
    <3>1. /\ aborted' \notin {"no", "dec_sending_ref"}
          /\ aborted' = "list_uncomplete" => list_uncomplete(sock[e.s].low)
          /\ EventFrame(e)
      BY <2>1 DEF EventStop
    <3>2. e.s \in Slot /\ sock[e.s] \in Sock
      BY <3>1, EventFacts
    <3>3. \A i \in DOMAIN sock[e.s].low : sock[e.s].low[i].at = 0
      BY <3>2 DEF SlotInv, ListAt
    <3>4. sock[e.s].low \in Seq(Node)
      BY <3>2 DEF Sock
    <3>5. ~ list_uncomplete(sock[e.s].low)
      BY <3>3, <3>4, NonEmpty DEF list_uncomplete
    <3>. QED BY <3>1, <3>5 DEF G, AbortInv
  <2>2. CASE ~ EventStop(e)
    <3>1. aborted' = aborted \/ aborted' = "wb_size"
      BY <1>3, <2>2 DEF EventCase, EventTell, EventForce, Connected, EofRead, WriteClosed,
                       WriteStopped, WriteError, WriteMore, WriteFinish, WriteDone, Set, Forced
    <3>. QED BY <1>s, <3>1 DEF G, AbortInv
  <2>. QED BY <2>1, <2>2
<1>4. ASSUME NEW s, OtherAt(s) PROVE G
  <2>1. CASE CloseFd \/ clear_closed_event
    BY <1>s, <2>1 DEF CloseFd, clear_closed_event
  <2>2. CASE AcceptNew
    <3>1. aborted' = aborted
      BY <2>2, AcceptNewView
    <3>. QED BY <1>s, <3>1
  <2>3. CASE \E id \in Id : Network(id)
    <3>1. thread' = thread
      BY <2>3 DEF Network
    <3>. QED BY <1>s, <3>1 DEF thread
  <2>. QED BY <1>4, <2>1, <2>2, <2>3 DEF OtherAt
<1>5. ASSUME Still PROVE G
  <2>1. ASSUME AcceptNone PROVE G
    BY <2>1 DEF AcceptNone, G, AbortInv
  <2>2. ASSUME NEW w \in Worker, ConnectFull(w) PROVE G
    BY <1>s, <2>2 DEF ConnectFull, Connect, thread
  <2>. QED BY <1>5, <2>1, <2>2 DEF Still
<1>6. ASSUME NEW D \in SUBSET Slot, Wait(D) PROVE G
  BY <1>s, <1>6 DEF Wait
<1>7. G
  BY <1>1, <1>2, <1>3, <1>4, <1>5, <1>6, NextCases DEF At
<1>. QED BY <1>7 DEF G

LEMMA SlotsUp ==
    ASSUME Types, IdInv, Types', IdInv', CallInv, PipeInv, LockInv, Grow, OnlyLess,
           \A t \in Slot : SlotInv(t),
           NEW s \in Slot, \A t \in Slot : t # s => Apart(t), SlotInv(s)', LockAt(s)'
    PROVE  LockInv' /\ \A t \in Slot : SlotInv(t)'
<1>1. ASSUME NEW t \in Slot PROVE SlotInv(t)' /\ LockAt(t)'
  <2>1. CASE t = s
    BY <2>1
  <2>2. CASE t # s
    BY <2>2, SlotFrame
  <2>. QED BY <2>1, <2>2
<1>. QED BY <1>1, LockNext

LEMMA StepWorker ==
    ASSUME Inv, NEW s \in Slot, NEW w \in Worker, WorkerAt(s, w)
    PROVE  /\ Types' /\ IdInv' /\ AskInv' /\ CallInv' /\ PipeInv' /\ LockInv' /\ Grow
           /\ \A t \in Slot : SlotInv(t)'
<1>1. /\ Types /\ IdInv /\ AskInv /\ CallInv /\ PipeInv /\ LockInv
      /\ \A t \in Slot : SlotInv(t)
  BY DEF Inv
<1>2. Types' /\ IdInv' /\ Grow /\ \A t \in Slot : t # s => Apart(t)
  BY <1>1, WorkerUp
<1>3. AskedBy(w)
  BY <1>1, WorkerAsks
<1>4. AskInv' /\ CallInv' /\ PipeInv' /\ OnlyLess
  BY <1>1, <1>2, <1>3, AskWorker, CallWorker, PipeWorker, OnlyLessWorker
<1>5. ListAt(s) /\ Addressed(s) /\ Pending(s) /\ Coherent(s) /\ Covered(s) /\ LockAt(s)
  BY <1>1, LockSlots DEF SlotInv
<1>6. LockAt(s)' /\ ListAt(s)' /\ Addressed(s)'
  BY <1>1, <1>2, <1>5, LockWorker, ListWorker, AddressedWorker
<1>7. Pending(s)' /\ Coherent(s)' /\ Covered(s)'
  BY <1>1, <1>2, <1>5, PendingWorker, CoherentWorker, CoveredWorker
<1>8. SlotInv(s)'
  BY <1>6, <1>7 DEF SlotInv
<1>. QED BY <1>1, <1>2, <1>4, <1>6, <1>8, SlotsUp

LEMMA StepCtrl ==
    ASSUME Inv, NEW c, CtrlCase(c)
    PROVE  /\ Types' /\ IdInv' /\ AskInv' /\ CallInv' /\ PipeInv' /\ LockInv' /\ Grow
           /\ \A t \in Slot : SlotInv(t)'
<1>0. PICK s : s = HASH_ID(c.id)
  OBVIOUS
<1>1. /\ Types /\ IdInv /\ AskInv /\ CallInv /\ PipeInv /\ LockInv
      /\ \A t \in Slot : SlotInv(t)
  BY DEF Inv
<1>2. /\ Types' /\ IdInv' /\ CtrlFrame(c) /\ s \in Slot /\ Grow
      /\ \A t \in Slot : t # s => Apart(t)
  BY <1>0, <1>1, CtrlUp
<1>3. Quiet
  BY <1>1, <1>2, QuietCtrl
<1>4. AskInv' /\ CallInv' /\ PipeInv' /\ OnlyLess
  BY <1>1, <1>2, <1>3, AskQuiet, CallQuiet, PipeQuiet, OnlyLessQuiet
<1>5. ListAt(s) /\ Addressed(s) /\ Pending(s) /\ Coherent(s) /\ Covered(s) /\ LockAt(s)
  BY <1>1, <1>2, LockSlots DEF SlotInv
<1>6. LockAt(s)' /\ ListAt(s)' /\ Addressed(s)'
  BY <1>0, <1>1, <1>2, <1>5, LockCtrl, BothCtrl
<1>7. Pending(s)' /\ Coherent(s)' /\ Covered(s)'
  BY <1>0, <1>1, <1>2, <1>5, PendingCtrl, CoherentCtrl, CoveredCtrl
<1>8. SlotInv(s)'
  BY <1>6, <1>7 DEF SlotInv
<1>. QED BY <1>1, <1>2, <1>4, <1>6, <1>8, SlotsUp

LEMMA StepEvent ==
    ASSUME Inv, NEW e \in batch, EventCase(e)
    PROVE  /\ Types' /\ IdInv' /\ AskInv' /\ CallInv' /\ PipeInv' /\ LockInv' /\ Grow
           /\ \A t \in Slot : SlotInv(t)'
<1>0. PICK s : s = e.s
  OBVIOUS
<1>1. /\ Types /\ IdInv /\ AskInv /\ CallInv /\ PipeInv /\ LockInv
      /\ \A t \in Slot : SlotInv(t)
  BY DEF Inv
<1>2. /\ Types' /\ IdInv' /\ EventFrame(e) /\ s \in Slot /\ Grow
      /\ \A t \in Slot : t # s => Apart(t)
  BY <1>0, <1>1, EventUp
<1>3. Quiet
  BY <1>1, <1>2, QuietEvent
<1>4. AskInv' /\ CallInv' /\ PipeInv' /\ OnlyLess
  BY <1>1, <1>2, <1>3, AskQuiet, CallQuiet, PipeQuiet, OnlyLessQuiet
<1>5. ListAt(s) /\ Addressed(s) /\ Pending(s) /\ Coherent(s) /\ Covered(s) /\ LockAt(s)
  BY <1>1, <1>2, LockSlots DEF SlotInv
<1>6. LockAt(s)' /\ ListAt(s)' /\ Addressed(s)'
  BY <1>0, <1>1, <1>2, <1>5, LockEvent, BothEvent
<1>7. Pending(s)' /\ Coherent(s)' /\ Covered(s)'
  BY <1>0, <1>1, <1>2, <1>5, PendingEvent, CoherentEvent, CoveredEvent
<1>8. SlotInv(s)'
  BY <1>6, <1>7 DEF SlotInv
<1>. QED BY <1>1, <1>2, <1>4, <1>6, <1>8, SlotsUp

LEMMA StepOther ==
    ASSUME Inv, NEW s \in Slot, OtherAt(s)
    PROVE  /\ Types' /\ IdInv' /\ AskInv' /\ CallInv' /\ PipeInv' /\ LockInv' /\ Grow
           /\ \A t \in Slot : SlotInv(t)'
<1>1. /\ Types /\ IdInv /\ AskInv /\ CallInv /\ PipeInv /\ LockInv
      /\ \A t \in Slot : SlotInv(t)
  BY DEF Inv
<1>2. /\ Types' /\ IdInv' /\ Grow /\ \A t \in Slot : t # s => Apart(t)
      /\ call' = call /\ sent' = sent /\ pipe' = pipe /\ lock' = lock
  BY <1>1, OtherUp
<1>3. Quiet
  BY <1>1, <1>2, QuietPipe
<1>4. AskInv' /\ CallInv' /\ PipeInv' /\ OnlyLess
  BY <1>1, <1>2, <1>3, AskQuiet, CallQuiet, PipeQuiet, OnlyLessQuiet
<1>5. ListAt(s) /\ Addressed(s) /\ Pending(s) /\ Coherent(s) /\ Covered(s) /\ LockAt(s)
  BY <1>1, LockSlots DEF SlotInv
<1>6. LockAt(s)' /\ ListAt(s)' /\ Addressed(s)'
  BY <1>1, <1>2, <1>5, LockOther, BothOther
<1>7. Pending(s)' /\ Coherent(s)' /\ Covered(s)'
  BY <1>1, <1>2, <1>5, PendingOther, CoherentOther, CoveredOther
<1>8. SlotInv(s)'
  BY <1>6, <1>7 DEF SlotInv
<1>. QED BY <1>1, <1>2, <1>4, <1>6, <1>8, SlotsUp

LEMMA StepStill ==
    ASSUME Inv, Still
    PROVE  /\ Types' /\ IdInv' /\ AskInv' /\ CallInv' /\ PipeInv' /\ LockInv' /\ Grow
           /\ \A t \in Slot : SlotInv(t)'
<1>1. /\ Types /\ IdInv /\ AskInv /\ CallInv /\ PipeInv /\ LockInv
      /\ \A t \in Slot : SlotInv(t)
  BY DEF Inv
<1>2. /\ Types' /\ IdInv' /\ Grow /\ \A t \in Slot : Apart(t)
      /\ call' = call /\ sent' = sent /\ pipe' = pipe /\ lock' = lock
  BY <1>1, StillUp
<1>3. Quiet
  BY <1>1, <1>2, QuietPipe
<1>4. AskInv' /\ CallInv' /\ PipeInv' /\ OnlyLess
  BY <1>1, <1>2, <1>3, AskQuiet, CallQuiet, PipeQuiet, OnlyLessQuiet
<1>5. \A t \in Slot : SlotInv(t)' /\ LockAt(t)'
  BY <1>1, <1>2, <1>4, SlotFrame
<1>. QED BY <1>2, <1>4, <1>5, LockNext

\* sp_wait only fills the batch.
LEMMA StepWait ==
    ASSUME Inv, NEW D \in SUBSET Slot, Wait(D)
    PROVE  /\ Types' /\ IdInv' /\ AskInv' /\ CallInv' /\ PipeInv' /\ LockInv' /\ Grow
           /\ \A t \in Slot : SlotInv(t)'
<1>1. /\ Types /\ IdInv /\ AskInv /\ CallInv /\ PipeInv /\ LockInv
      /\ \A t \in Slot : SlotInv(t)
  BY DEF Inv
<1>2. /\ Types' /\ IdInv' /\ Grow
      /\ UNCHANGED <<sock, lock, call, pipe, said, sent, stale, torn, wire, net, fc>>
  BY <1>1, WaitUp
<1>3. Quiet
  BY <1>1, <1>2, QuietPipe
<1>4. AskInv' /\ CallInv' /\ PipeInv' /\ OnlyLess
  BY <1>1, <1>2, <1>3, AskQuiet, CallQuiet, PipeQuiet, OnlyLessQuiet
<1>5. ASSUME NEW t \in Slot PROVE SlotInv(t)' /\ LockAt(t)'
  <2>1. ListAt(t) /\ Addressed(t) /\ Pending(t) /\ Coherent(t) /\ Covered(t) /\ LockAt(t)
    BY <1>1, LockSlots DEF SlotInv
  <2>2. Pending(t)'
    BY <1>1, <2>1, PendingWait
  <2>3. Coherent(t)'
    BY <1>2, <2>1, CoherentWait
  <2>4. ListAt(t)' /\ Addressed(t)'
    BY <1>2, <1>4, <2>1, BothSame
  <2>5. LockAt(t)'
    BY <1>2, <2>1 DEF LockAt
  <2>6. Covered(t)'
    <3>1. PICK i : i = sock[t].id
      OBVIOUS
    <3>2. Out(i)' \subseteq Out(i)
      BY <1>3, OutQuiet
    <3>. QED BY <1>1, <1>2, <2>1, <3>1, <3>2, CoveredKeep DEF SameName, SameCount
  <2>. QED BY <2>2, <2>3, <2>4, <2>5, <2>6 DEF SlotInv
<1>. QED BY <1>2, <1>4, <1>5, LockNext

LEMMA InvStep == ASSUME Inv, Next PROVE Inv'
<1>0. Types /\ IdInv /\ PipeInv /\ (\A s \in Slot : SlotInv(s)) /\ AbortInv
  BY DEF Inv
<1>1. /\ Types' /\ IdInv' /\ AskInv' /\ CallInv' /\ PipeInv' /\ LockInv' /\ Grow
      /\ \A t \in Slot : SlotInv(t)'
  <2>1. ASSUME NEW s \in Slot, At(s)
        PROVE  /\ Types' /\ IdInv' /\ AskInv' /\ CallInv' /\ PipeInv' /\ LockInv' /\ Grow
               /\ \A t \in Slot : SlotInv(t)'
    BY <2>1, StepWorker, StepCtrl, StepEvent, StepOther DEF At
  <2>. QED BY <1>0, <2>1, StepStill, StepWait, NextCases
<1>2. AbortInv'
  BY <1>0, <1>1, AbortStep
<1>. QED BY <1>1, <1>2 DEF Inv

LEMMA InvStutter == ASSUME Inv, UNCHANGED vars PROVE Inv'
<1>1. /\ UNCHANGED <<alloc_id, sock, lock, call, pipe, said, sent, cmds>>
      /\ UNCHANGED thread /\ UNCHANGED outside
  BY DEF vars
<1>2. /\ UNCHANGED <<checkctrl, batch, fc, aborted, stale, torn>>
      /\ UNCHANGED <<net, wire, peers>>
  BY <1>1 DEF thread, outside
<1>3. Types' /\ IdInv'
  BY <1>1, <1>2 DEF Inv, Types, IdInv
<1>4. AskInv' /\ CallInv' /\ PipeInv' /\ LockInv'
  BY <1>1, <1>2 DEF Inv, AskInv, CallInv, PipeInv, LockInv, Open
<1>5. ASSUME NEW s \in Slot PROVE SlotInv(s)'
  <2>1. SlotInv(s)
    BY DEF Inv
  <2>2. ListAt(s)' /\ Addressed(s)'
    BY <1>1, <1>2, <2>1 DEF SlotInv, ListAt, Addressed, Before, Nodes
  <2>3. Pending(s)' /\ Coherent(s)'
    BY <1>1, <1>2, <2>1 DEF SlotInv, Pending, Coherent, Open
  <2>4. Covered(s)'
    BY <1>1, <1>2, <2>1 DEF SlotInv, Covered, Out
  <2>. QED BY <2>2, <2>3, <2>4 DEF SlotInv
<1>6. AbortInv'
  BY <1>2 DEF Inv, AbortInv
<1>. QED BY <1>3, <1>4, <1>5, <1>6 DEF Inv

LEMMA InvInit == ASSUME Init PROVE Inv
<1> DEFINE x0 == [id |-> 0, type |-> "INVALID", tcp |-> FALSE, reading |-> FALSE,
                  writing |-> FALSE, closing |-> FALSE, tag |-> 0, sending |-> 0,
                  freed |-> FALSE, high |-> << >>, low |-> << >>, dw |-> << >>]
<1>1. \A s \in Slot : sock[s] = x0
  BY DEF Init
<1>2. x0 \in Sock
  BY EmptySeq, Bounds DEF Sock, SocketType
<1>3. /\ x0.id = 0 /\ x0.type = "INVALID" /\ x0.tcp = FALSE /\ x0.closing = FALSE
      /\ x0.high = << >> /\ x0.low = << >> /\ x0.dw = << >>
  OBVIOUS
<1>4. sock = [s \in Slot |-> x0]
  BY DEF Init
<1> HIDE DEF x0
<1>5. /\ alloc_id = 0 /\ call = [w \in Worker |-> NoCall] /\ pipe = << >> /\ batch = {} /\ fc = NoClose
      /\ lock = [s \in Slot |-> None] /\ checkctrl = TRUE
      /\ net = [id \in Id |-> "none"] /\ wire = [id \in Id |-> << >>] /\ said = [id \in Id |-> {}]
      /\ sent = << >> /\ stale = {} /\ torn = {} /\ cmds = 0 /\ peers = 0 /\ aborted = "no"
  BY DEF Init
<1>6. \A w \in Worker : call[w].at = "idle" /\ call[w] \in CallRec
  BY <1>5 DEF NoCall, CallRec
<1>7. DOMAIN pipe = {} /\ DOMAIN sent = {}
  BY <1>5
<1>8. Types
  <2>1. sock \in [Slot -> Sock] /\ lock \in [Slot -> Worker \cup {None}] /\ call \in [Worker -> CallRec]
    BY <1>2, <1>4, <1>5, <1>6
  <2>2. pipe \in Seq(Cmd) /\ sent \in Seq(Message) /\ Len(sent) <= MaxSend
    BY <1>5, EmptySeq, Bounds
  <2>3. wire \in [Id -> Seq(Write)]
    <3>1. << >> \in Seq(Write)
      BY EmptySeq
    <3>. QED BY <1>5, <3>1
  <2>4. net \in [Id -> NetState] /\ said \in [Id -> SUBSET Kind]
    BY <1>5 DEF NetState
  <2>5. cmds \in 0 .. MaxCmd /\ peers \in 0 .. MaxPeer /\ alloc_id \in Nat
    BY <1>5, Bounds
  <2>. QED BY <1>5, <2>1, <2>2, <2>3, <2>4, <2>5, NoCloseType DEF Types
<1>9. IdInv
  <2>1. \A s \in Slot : sock[s].id = 0 /\ sock[s].type = "INVALID"
    BY <1>1, <1>3
  <2>. QED BY <1>5, <1>6, <1>7, <2>1, NoCloseType DEF IdInv, Live
<1>10. AskInv /\ CallInv /\ PipeInv
  BY <1>6, <1>7 DEF AskInv, CallInv, PipeInv, Msg
<1>11. LockInv
  BY <1>5, <1>6 DEF LockInv
<1>12. ASSUME NEW s \in Slot PROVE SlotInv(s)
  <2>1. sock[s] = x0
    BY <1>1
  <2>2. Nodes(sock[s]) = {}
    BY <1>3, <2>1 DEF Nodes
  <2>3. ListAt(s) /\ Addressed(s)
    BY <1>3, <2>1, <2>2 DEF ListAt, Addressed
  <2>4. Pending(s)
    BY <1>6, <1>7 DEF Pending
  <2>5. Coherent(s)
    BY <1>3, <1>5, <2>1, NoCloseType DEF Coherent, Live
  <2>6. Covered(s)
    BY <1>3, <2>1 DEF Covered
  <2>. QED BY <2>3, <2>4, <2>5, <2>6 DEF SlotInv
<1>13. AbortInv
  BY <1>5 DEF AbortInv
<1>. QED BY <1>8, <1>9, <1>10, <1>11, <1>12, <1>13 DEF Inv

\* The invariant holds in every reachable state: types, ids, what is asked for
\* and what is in the pipe, the locks, and for each slot its lists, addresses,
\* reservation, coherence and counter.
THEOREM Invariance == Spec => []Inv
<1>1. Init => Inv
  BY InvInit
<1>2. Inv /\ [Next]_vars => Inv'
  BY InvStep, InvStutter
<1>. QED BY <1>1, <1>2, PTL DEF Spec
=============================================================================
