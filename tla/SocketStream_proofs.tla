------------------------ MODULE SocketStream_proofs ------------------------
(***************************************************************************)
(* What the owner and the peer of a socket see of the socket server, on    *)
(* top of the invariant of SocketServer_proofs: no write wake-up is lost,  *)
(* the counters agree with the lists and requests they count, the owner    *)
(* hears of the end of its socket once and of nothing after it, and the    *)
(* peer receives whole messages in order.                                  *)
(***************************************************************************)
EXTENDS SocketServer_proofs

-----------------------------------------------------------------------------
(* No lost wakeup                                                           *)

\* The command that turns on the write event of id is under way.
Trig(id) ==
    \/ \E w \in Worker : call[w].at = "W" /\ call[w].id = id
    \/ \E p \in DOMAIN pipe : pipe[p].c = "W" /\ pipe[p].id = id

ArmAt(s) ==
    s \notin torn /\ sock[s].type \in Live \ {"HALFCLOSE_WRITE"} /\ Nodes(sock[s]) # {}
    => sock[s].writing \/ Trig(sock[s].id)

LEMMA ArmIs ==
    ASSUME NEW s, NEW i, i = sock'[s].id,
           s \notin torn' /\ sock'[s].type \in Live \ {"HALFCLOSE_WRITE"} /\ Nodes(sock'[s]) # {}
           => sock'[s].writing \/ Trig(i)'
    PROVE  ArmAt(s)'
BY DEF ArmAt, Nodes, Trig

\* A slot that had buffers before.
LEMMA ArmKeep ==
    ASSUME NEW s, ArmAt(s), Grow, NEW i, i = sock[s].id, sock'[s].id = i,
           s \notin torn' /\ sock'[s].type \in Live \ {"HALFCLOSE_WRITE"} /\ Nodes(sock'[s]) # {}
           => \/ sock'[s].writing
              \/ /\ sock[s].type \in Live \ {"HALFCLOSE_WRITE"} /\ Nodes(sock[s]) # {}
                 /\ sock'[s].writing = sock[s].writing
                 /\ Trig(i) => Trig(i)'
    PROVE  ArmAt(s)'
<1>1. s \notin torn' => s \notin torn
  BY DEF Grow
<1>2. ASSUME s \notin torn', sock'[s].type \in Live \ {"HALFCLOSE_WRITE"}, Nodes(sock'[s]) # {}
      PROVE  sock'[s].writing \/ Trig(i)'
  <2>1. CASE sock'[s].writing
    BY <2>1
  <2>2. CASE ~ sock'[s].writing
    <3>1. /\ sock[s].type \in Live \ {"HALFCLOSE_WRITE"} /\ Nodes(sock[s]) # {}
          /\ sock'[s].writing = sock[s].writing
          /\ Trig(i) => Trig(i)'
      BY <1>2, <2>2
    <3>2. sock[s].writing \/ Trig(i)
      BY <1>1, <1>2, <3>1 DEF ArmAt
    <3>. QED BY <3>1, <3>2
  <2>. QED BY <2>1, <2>2
<1>. QED BY <1>2, ArmIs

LEMMA NodesEmpty ==
    ASSUME NEW x, x.high = << >>, x.low = << >>, x.dw = << >>
    PROVE  Nodes(x) = {}
BY DEF Nodes

LEMMA NodesSame ==
    ASSUME NEW x, NEW y, y.high = x.high, y.low = x.low, y.dw = x.dw
    PROVE  Nodes(y) = Nodes(x)
BY DEF Nodes

LEMMA NodesDw ==
    ASSUME NEW x, NEW y, y.high = << >>, y.low = << >>, y.dw = x.dw
    PROVE  Nodes(y) \subseteq Nodes(x)
BY DEF Nodes

LEMMA TrigSame == ASSUME call' = call, pipe' = pipe, NEW i PROVE Trig(i)' <=> Trig(i)
BY DEF Trig

LEMMA TrigCtrl ==
    ASSUME Types, IdInv, NEW c, CtrlFrame(c), NEW i, Trig(i), c.c # "W" \/ c.id # i
    PROVE  Trig(i)'
<1>1. /\ c = pipe[1] /\ call' = call
      /\ \A p \in DOMAIN pipe : p = 1 \/ (p - 1 \in DOMAIN pipe' /\ pipe'[p - 1] = pipe[p])
  BY CtrlFacts
<1>. QED BY <1>1 DEF Trig

LEMMA TrigWorker ==
    ASSUME Types, IdInv, NEW s, NEW w \in Worker, WorkerAt(s, w), NEW i, Trig(i)
    PROVE  Trig(i)'
<1> DEFINE G == Trig(i)'
<1>a. ASSUME call[w].at # "W", \A v \in Worker : v # w => call'[v] = call[v],
             pipe' = pipe \/ \E c \in Cmd : pipe' = Append(pipe, c)
      PROVE  G
  <2>1. \A p \in DOMAIN pipe : p \in DOMAIN pipe' /\ pipe'[p] = pipe[p]
    BY <1>a, PlainAppend
  <2>2. ASSUME NEW v \in Worker, call[v].at = "W" PROVE call'[v] = call[v]
    BY <1>a, <2>2
  <2>. QED BY <2>1, <2>2 DEF Trig
<1> HIDE DEF G
<1>1. ASSUME ConnectNew(w) PROVE G
  BY <1>a, <1>1 DEF ConnectNew, Connect, Goto, NoCall, Types
<1>2. ASSUME NEW cmd \in {"K", "Q", "R", "S"}, NEW id \in Id, Command(w, cmd, id) PROVE G
  <2>0. PICK c : c = [c |-> cmd, id |-> id, m |-> 0]
    OBVIOUS
  <2>1. pipe' = Append(pipe, c) /\ c \in Cmd /\ call' = call
    BY <1>2, <2>0, CommandView
  <2>2. call[w].at # "W"
    BY <1>2 DEF Command, NoCall
  <2>. QED BY <1>a, <2>1, <2>2
<1>3. ASSUME NEW id \in Id, NEW low \in BOOLEAN, Send(w, id, low) PROVE G
  BY <1>a, <1>3 DEF Send, Goto, NoCall, Types
<1>4. ASSUME Request(w) PROVE G
  <2>0. PICK c : c = [c |-> "O", id |-> call[w].id, m |-> 0]
    OBVIOUS
  <2>1. pipe' = Append(pipe, c) /\ c \in Cmd /\ call[w].at = "O" /\ CallTo(w, NoCall)
    BY <1>4, <2>0, RequestView
  <2>. QED BY <1>a, <2>1 DEF CallTo
<1>5. ASSUME Locked(w) \/ NotLocked(w) \/ Counted(w) \/ NotCounted(w) PROVE G
  BY <1>a, <1>5 DEF Locked, NotLocked, Lock, Counted, NotCounted, inc_sending_ref, Goto, Types
<1>6. ASSUME NEW k \in 0 .. MsgSize, DirectWrite(w, k) PROVE G
  <2>1. call[w].at = "write" /\ CallTo(w, call'[w]) /\ pipe' = pipe
    BY <1>6, DirectWriteView
  <2>. QED BY <1>a, <2>1 DEF CallTo
<1>7. ASSUME Push(w) PROVE G
  <2>0. PICK c : c = [c |-> call[w].at, id |-> call[w].id, m |-> call[w].m]
    OBVIOUS
  <2>1. pipe' = Append(pipe, c) /\ c \in Cmd /\ CallTo(w, NoCall)
    BY <1>7, <2>0, PushView
  <2>2. CASE call[w].at # "W"
    BY <1>a, <2>1, <2>2 DEF CallTo
  <2>3. CASE call[w].at = "W" /\ call[w].id = i
    <3>1. Len(pipe) + 1 \in DOMAIN pipe' /\ pipe'[Len(pipe) + 1] = c
      BY <2>1, PlainAppend
    <3>. QED BY <2>0, <2>3, <3>1 DEF G, Trig
  <2>4. CASE call[w].at = "W" /\ call[w].id # i
    <3>1. \A p \in DOMAIN pipe : p \in DOMAIN pipe' /\ pipe'[p] = pipe[p]
      BY <2>1, PlainAppend
    <3>2. ASSUME NEW v \in Worker, call[v].id = i PROVE call'[v] = call[v]
      BY <2>1, <2>4, <3>2 DEF CallTo
    <3>. QED BY <3>1, <3>2 DEF G, Trig
  <2>. QED BY <2>2, <2>3, <2>4
<1>8. G
  BY <1>1, <1>2, <1>3, <1>4, <1>5, <1>6, <1>7 DEF WorkerAt
<1>. QED BY <1>8 DEF G

LEMMA ArmFrame ==
    ASSUME Types, IdInv, Types', NEW t \in Slot, Apart(t), Grow, ArmAt(t)
    PROVE  ArmAt(t)'
<1>0. PICK i : i = sock[t].id
  OBVIOUS
<1>1. sock'[t] = sock[t]
  BY DEF Apart
<1>2. PICK d \in {0, 1} :
         \A p \in DOMAIN pipe : HASH_ID(pipe[p].id) = t =>
           p - d \in DOMAIN pipe' /\ pipe'[p - d] = pipe[p] /\ p \in Nat
  BY ApartPipe
<1>3. sock[t].type \in Live => HASH_ID(i) = t
  BY <1>0 DEF IdInv
<1>4. ASSUME HASH_ID(i) = t, Trig(i) PROVE Trig(i)'
  BY <1>2, <1>4, ApartCall DEF Trig
<1>. QED BY <1>0, <1>1, <1>3, <1>4, ArmKeep

LEMMA ArmWorker ==
    ASSUME Types, IdInv, LockInv, NEW s \in Slot, Pending(s), ArmAt(s), Grow,
           NEW w \in Worker, WorkerAt(s, w)
    PROVE  ArmAt(s)'
<1> DEFINE G == ArmAt(s)'
<1>0. PICK i : i = sock[s].id
  OBVIOUS
<1>b. Trig(i) => Trig(i)'
  BY TrigWorker
<1>t. s \notin torn' => s \notin torn
  BY DEF Grow
<1>a. ASSUME sock'[s].id = sock[s].id, sock'[s].type = sock[s].type, SameLists(s), SameArmed(s)
      PROVE  G
  <2>1. Nodes(sock'[s]) = Nodes(sock[s])
    BY <1>a, NodesSame DEF SameLists
  <2>. QED BY <1>0, <1>a, <1>b, <2>1, ArmKeep DEF SameArmed
<1>n. ASSUME sock'[s].type \notin Live PROVE G
  BY <1>n DEF ArmAt
<1> HIDE DEF G
<1>1. ASSUME ConnectNew(w), s = HASH_ID(NextId) PROVE G
  <2>1. sock'[s].type = "RESERVE"
    BY <1>1, ConnectNewView
  <2>. QED BY <1>n, <2>1 DEF Live
<1>s. ASSUME sock' = sock PROVE G
  BY <1>a, <1>s DEF SameLists, SameArmed
<1>2. ASSUME NEW cmd \in {"K", "Q", "R", "S"}, NEW id \in Id, Command(w, cmd, id) PROVE G
  BY <1>s, <1>2 DEF Command
<1>3. ASSUME NEW id \in Id, NEW low \in BOOLEAN, Send(w, id, low) PROVE G
  BY <1>s, <1>3 DEF Send
<1>4. ASSUME Request(w), s = HASH_ID(call[w].id) PROVE G
  <2>1. call[w].at = "O" /\ SameType(s) /\ UNCHANGED <<alloc_id, lock, sent, cmds, thread, outside>>
    BY <1>4, RequestView
  <2>2. s \notin torn => sock[s].type = "RESERVE"
    BY <1>4, <2>1 DEF Pending
  <2>3. s \notin torn' => sock'[s].type \notin Live
    BY <1>t, <2>1, <2>2 DEF SameType, Live
  <2>. QED BY <2>3 DEF G, ArmAt
<1>5. ASSUME Locked(w) \/ NotLocked(w) \/ NotCounted(w) \/ Push(w) PROVE G
  BY <1>s, <1>5 DEF Locked, NotLocked, Lock, NotCounted, Push
<1>6. ASSUME Counted(w), s = HASH_ID(call[w].id) PROVE G
  <2>1. SameName(s) /\ SameLists(s) /\ SameType(s) /\ SameArmed(s)
    BY <1>6, CountedView
  <2>. QED BY <1>a, <2>1 DEF SameName, SameType
<1>7. ASSUME NEW k \in 0 .. MsgSize, DirectWrite(w, k), s = HASH_ID(call[w].id) PROVE G
  <2>1. /\ call[w].at = "write"
        /\ SameName(s) /\ SameType(s) /\ SameArmed(s)
        /\ sock'[s].high = sock[s].high /\ sock'[s].low = sock[s].low
        /\ sock'[s].dw = (IF k = MsgSize THEN << >> ELSE <<[m |-> call[w].m, at |-> k]>>)
        /\ k # MsgSize => /\ call'[w].at = "W" /\ call'[w].id = call[w].id
    BY <1>7, DirectWriteView
  <2>2. s \notin torn => sock[s].id = call[w].id /\ sock[s].dw = << >>
    BY <1>7, <2>1, Bounds DEF LockInv
  <2>3. CASE s \in torn
    BY <1>t, <2>3 DEF G, ArmAt
  <2>4. CASE s \notin torn /\ k = MsgSize
    BY <1>a, <2>1, <2>2, <2>4 DEF SameName, SameType, SameLists
  <2>5. CASE s \notin torn /\ k # MsgSize
    <3>1. Trig(i)'
      BY <1>0, <2>1, <2>2, <2>5 DEF Trig
    <3>. QED BY <1>0, <2>1, <3>1, ArmIs DEF G, SameName
  <2>. QED BY <2>3, <2>4, <2>5
<1>8. G
  BY <1>1, <1>2, <1>3, <1>4, <1>5, <1>6, <1>7 DEF WorkerAt
<1>. QED BY <1>8 DEF G

LEMMA ArmCtrl ==
    ASSUME Types, IdInv, NEW c, CtrlCase(c), NEW s \in Slot, s = HASH_ID(c.id), ArmAt(s), Grow
    PROVE  ArmAt(s)'
<1> DEFINE G == ArmAt(s)'
<1>0. PICK i : i = sock[s].id
  OBVIOUS
<1>c. CtrlFrame(c) /\ c.id \in Id
  BY CtrlUp
<1>b. c.c # "W" \/ c.id # i => (Trig(i) => Trig(i)')
  BY <1>c, TrigCtrl
<1>a. ASSUME c.c # "W" \/ c.id # i,
             sock'[s].id = sock[s].id,
             s \notin torn' /\ sock'[s].type \in Live \ {"HALFCLOSE_WRITE"} =>
               sock[s].type \in Live \ {"HALFCLOSE_WRITE"},
             Nodes(sock'[s]) \subseteq Nodes(sock[s]), SameArmed(s)
      PROVE  G
  BY <1>0, <1>a, <1>b, ArmKeep DEF SameArmed
<1>n. ASSUME sock'[s].type \notin Live \/ Nodes(sock'[s]) = {} PROVE G
  <2>1. PICK j : j = sock'[s].id
    OBVIOUS
  <2>. QED BY <1>n, <2>1, ArmIs
<1> HIDE DEF G
<1>1. ASSUME OpenFail(c) \/ ResumeFail(c) PROVE G
  <2>1. sock'[s].type = "INVALID"
    BY <1>1, FailView
  <2>. QED BY <1>n, <2>1 DEF Live
<1>2. ASSUME NEW type, NEW writing, NEW kind, NEW state, OpenNew(c, type, writing, kind, state) PROVE G
  <2>1. sock'[s].high = << >> /\ sock'[s].low = << >> /\ sock'[s].dw = << >>
    BY <1>2, OpenNewView
  <2>. QED BY <1>n, <2>1, NodesEmpty
<1>s. ASSUME sock' = sock, c.c # "W" \/ c.id # i PROVE G
  BY <1>a, <1>s DEF SameArmed
<1>3. ASSUME CtrlStop(c) PROVE G
  <2>1. sock' = sock /\ c.c # "W"
    BY <1>3 DEF CtrlStop
  <2>. QED BY <1>s, <2>1
<1>4. ASSUME NEW kind, CtrlTell(c, kind) PROVE G
  <2>1. sock' = sock /\ (c.c = "W" => Invalid(c.id))
    BY <1>4 DEF CtrlTell
  <2>2. CASE c.c # "W" \/ c.id # i
    BY <1>s, <2>1, <2>2
  <2>3. CASE c.c = "W" /\ c.id = i
    <3>1. sock'[s].type = "INVALID"
      BY <1>0, <2>1, <2>3 DEF Invalid
    <3>. QED BY <1>n, <3>1 DEF Live
  <2>. QED BY <2>2, <2>3
<1>5. ASSUME CloseNow(c) PROVE G
  <2>1. /\ c.c \in {"K", "Q"} /\ SameName(s) /\ SameArmed(s) /\ SameType(s)
        /\ sock'[s].high = << >> /\ sock'[s].low = << >> /\ sock'[s].dw = sock[s].dw
    BY <1>5, CloseNowView
  <2>2. Nodes(sock'[s]) \subseteq Nodes(sock[s])
    BY <2>1, NodesDw
  <2>. QED BY <1>a, <2>1, <2>2 DEF SameName, SameType
<1>6. ASSUME CloseLater(c) PROVE G
  <2>1. /\ c.c = "K" /\ SameName(s) /\ SameArmed(s) /\ SameLists(s)
        /\ sock[s].type \in Live \cup {"RESERVE"} /\ ~ nomore_sending_data(sock[s])
        /\ torn' = torn \cup (IF sock[s].type = "RESERVE" THEN {s} ELSE {})
    BY <1>6, CloseLaterView
  <2>2. Nodes(sock'[s]) = Nodes(sock[s])
    BY <2>1, NodesSame DEF SameLists
  <2>3. s \notin torn' => sock[s].type \in Live \ {"HALFCLOSE_WRITE"}
    BY <2>1 DEF nomore_sending_data
  <2>. QED BY <1>a, <2>1, <2>2, <2>3 DEF SameName
<1>7. ASSUME Resumed(c) PROVE G
  <2>1. /\ c.c = "R" /\ SameName(s) /\ SameArmed(s) /\ SameLists(s)
        /\ sock'[s].type = (IF sock[s].type = "PACCEPT" THEN "CONNECTED" ELSE sock[s].type)
    BY <1>7, ResumedView
  <2>2. Nodes(sock'[s]) = Nodes(sock[s])
    BY <2>1, NodesSame DEF SameLists
  <2>. QED BY <1>a, <2>1, <2>2 DEF SameName, Live
<1>8. ASSUME Paused(c) \/ Armed(c) PROVE G
  <2>1. /\ c.c \in {"S", "W"} /\ SameName(s) /\ SameLists(s) /\ SameType(s)
        /\ c.c = "S" => SameArmed(s)
        /\ c.c = "W" => sock'[s].writing
    BY <1>8, PokedView
  <2>2. Nodes(sock'[s]) = Nodes(sock[s])
    BY <2>1, NodesSame DEF SameLists
  <2>3. CASE c.c = "S"
    BY <1>a, <2>1, <2>2, <2>3 DEF SameName, SameType
  <2>4. CASE c.c = "W"
    BY <2>1, <2>4 DEF G, ArmAt
  <2>. QED BY <2>1, <2>3, <2>4
<1>9. ASSUME DataElse(c) \/ DataTcp(c) PROVE G
  <2>1. /\ c.c \in {"D", "P"} /\ SameName(s) /\ SameType(s)
        /\ Drops(sock[s], c.id) => SameLists(s) /\ SameArmed(s)
        /\ ~ Drops(sock[s], c.id) =>
             /\ send_buffer_empty(sock[s]) => sock'[s].writing
             /\ ~ send_buffer_empty(sock[s]) => sock'[s].writing = sock[s].writing
    BY <1>9, DataView
  <2>2. CASE Drops(sock[s], c.id)
    <3>1. Nodes(sock'[s]) = Nodes(sock[s])
      BY <2>1, <2>2, NodesSame DEF SameLists
    <3>. QED BY <1>a, <2>1, <2>2, <3>1 DEF SameName, SameType
  <2>3. CASE sock'[s].writing
    BY <2>3 DEF G, ArmAt
  <2>4. CASE ~ Drops(sock[s], c.id) /\ ~ send_buffer_empty(sock[s])
    <3>1. sock[s] \in Sock
      BY DEF Types
    <3>2. Nodes(sock[s]) # {}
      <4>1. sock[s].high \in Seq(Node) /\ sock[s].low \in Seq(Node)
        BY <3>1 DEF Sock
      <4>2. (1 \in DOMAIN sock[s].high) \/ (1 \in DOMAIN sock[s].low)
        BY <2>4, <4>1, NonEmpty DEF send_buffer_empty
      <4>. QED BY <4>2 DEF Nodes
    <3>3. Trig(i) => Trig(i)'
      BY <1>b, <2>1
    <3>. QED BY <1>0, <2>1, <2>4, <3>2, <3>3, ArmKeep DEF G, SameName, SameType
  <2>. QED BY <2>1, <2>2, <2>3, <2>4
<1>10. G
  BY <1>1, <1>2, <1>3, <1>4, <1>5, <1>6, <1>7, <1>8, <1>9 DEF CtrlCase
<1>. QED BY <1>10 DEF G

LEMMA ArmEvent ==
    ASSUME Types, IdInv, NEW e, EventCase(e), NEW s \in Slot, s = e.s, ListAt(s), ArmAt(s), Grow
    PROVE  ArmAt(s)'
<1> DEFINE G == ArmAt(s)'
<1>0. PICK i : i = sock[s].id
  OBVIOUS
<1>c. EventFrame(e) /\ call' = call /\ pipe' = pipe
  BY EventUp, EventFacts
<1>b. Trig(i) => Trig(i)'
  BY <1>c, TrigSame
<1>a. ASSUME sock'[s].id = sock[s].id,
             s \notin torn' /\ sock'[s].type \in Live \ {"HALFCLOSE_WRITE"} =>
               sock[s].type \in Live \ {"HALFCLOSE_WRITE"},
             Nodes(sock'[s]) # {} => Nodes(sock[s]) # {} /\ sock'[s].writing = sock[s].writing
      PROVE  G
  BY <1>0, <1>a, <1>b, ArmKeep
<1>n. ASSUME sock'[s].type \notin Live \ {"HALFCLOSE_WRITE"} \/ Nodes(sock'[s]) = {} PROVE G
  <2>1. PICK j : j = sock'[s].id
    OBVIOUS
  <2>. QED BY <1>n, <2>1, ArmIs
<1> HIDE DEF G
<1>1. ASSUME NEW kind, EventTell(e, kind) \/ EventStop(e) PROVE G
  <2>1. sock' = sock
    BY <1>1, EventIdleView
  <2>. QED BY <1>a, <2>1
<1>2. ASSUME NEW kind, EventForce(e, kind) PROVE G
  <2>1. /\ SameName(s) /\ SameArmed(s) /\ SameType(s)
        /\ sock'[s].high = << >> /\ sock'[s].low = << >> /\ sock'[s].dw = sock[s].dw
    BY <1>2, EventForceView
  <2>2. Nodes(sock'[s]) \subseteq Nodes(sock[s])
    BY <2>1, NodesDw
  <2>. QED BY <1>a, <2>1, <2>2 DEF SameName, SameType, SameArmed
<1>3. ASSUME Connected(e) PROVE G
  <2>1. /\ sock[s].type = "CONNECTING" /\ SameName(s) /\ SameLists(s)
        /\ sock'[s].writing = (sock[s].writing /\ ~ nomore_sending_data(sock[s]))
    BY <1>3, ConnectedView
  <2>2. Nodes(sock'[s]) = Nodes(sock[s])
    BY <2>1, NodesSame DEF SameLists
  <2>3. Nodes(sock[s]) # {} => ~ nomore_sending_data(sock[s])
    BY <2>1, NodesEmpty DEF nomore_sending_data, send_buffer_empty
  <2>4. sock[s].writing \in BOOLEAN
    <3>1. sock[s] \in Sock
      BY DEF Types
    <3>. QED BY <3>1 DEF Sock
  <2>5. Nodes(sock[s]) # {} => sock'[s].writing = sock[s].writing
    BY <2>1, <2>3, <2>4
  <2>. QED BY <1>a, <2>1, <2>2, <2>5 DEF SameName, Live
<1>4. ASSUME EofRead(e) PROVE G
  <2>1. /\ sock[s].type \in {"CONNECTED", "PACCEPT", "RESERVE"}
        /\ SameName(s) /\ SameLists(s) /\ SameArmed(s)
        /\ torn' = torn \cup (IF sock[s].type = "RESERVE" THEN {s} ELSE {})
    BY <1>4, EofReadView
  <2>2. Nodes(sock'[s]) = Nodes(sock[s])
    BY <2>1, NodesSame DEF SameLists
  <2>3. s \notin torn' => sock[s].type \in Live \ {"HALFCLOSE_WRITE"}
    BY <2>1 DEF Live
  <2>. QED BY <1>a, <2>1, <2>2, <2>3 DEF SameName, SameArmed
<1>5. ASSUME WriteClosed(e) PROVE G
  <2>1. sock'[s].type = "INVALID"
    BY <1>5, WriteClosedView
  <2>. QED BY <1>n, <2>1 DEF Live
<1>6. ASSUME WriteStopped(e) \/ WriteError(e) PROVE G
  <2>1. sock'[s].type = "HALFCLOSE_WRITE"
    BY <1>6, WriteFailView
  <2>. QED BY <1>n, <2>1
<1>7. ASSUME NEW n, NEW k, WriteMore(e, n, k) PROVE G
  <2>0. PICK z : z = Written(WithDirect(sock[s]), n, k)
    OBVIOUS
  <2>1. WriteSome(e, n, k) /\ sock'[s] = z
    BY <1>7, <2>0, WriteMoreView
  <2>2. z.id = sock[s].id /\ z.type = sock[s].type /\ z.writing = sock[s].writing
    BY <2>0, <2>1, WriteSomeSlot
  <2>3. Shrunk(z, sock[s])
    BY <2>0, <2>1, WriteNodes
  <2>4. Nodes(z) # {} => Nodes(sock[s]) # {}
    BY <2>3 DEF Shrunk
  <2>. QED BY <1>a, <2>1, <2>2, <2>4
<1>8. ASSUME NEW n, NEW k, WriteFinish(e, n, k) PROVE G
  <2>1. sock'[s].type = "INVALID"
    BY <1>8, WriteFinishView
  <2>. QED BY <1>n, <2>1 DEF Live
<1>9. ASSUME NEW n, NEW k, WriteDone(e, n, k) PROVE G
  <2>1. sock'[s].high = << >> /\ sock'[s].low = << >> /\ sock'[s].dw = << >>
    BY <1>9, WriteDoneView
  <2>. QED BY <1>n, <2>1, NodesEmpty
<1>10. G
  BY <1>1, <1>2, <1>3, <1>4, <1>5, <1>6, <1>7, <1>8, <1>9 DEF EventCase
<1>. QED BY <1>10 DEF G

LEMMA ArmOther ==
    ASSUME Types, IdInv, NEW s \in Slot, OtherAt(s), ArmAt(s), Grow
    PROVE  ArmAt(s)'
<1> DEFINE G == ArmAt(s)'
<1>0. PICK i : i = sock[s].id
  OBVIOUS
<1>b. Trig(i) => Trig(i)'
  BY OtherUp, TrigSame
<1>a. ASSUME sock' = sock PROVE G
  BY <1>0, <1>a, <1>b, ArmKeep
<1>n. ASSUME sock'[s].type \notin Live \/ Nodes(sock'[s]) = {} PROVE G
  <2>1. PICK j : j = sock'[s].id
    OBVIOUS
  <2>. QED BY <1>n, <2>1, ArmIs
<1> HIDE DEF G
<1>1. ASSUME CloseFd, s = fc.s PROVE G
  <2>1. sock'[s].type = "INVALID"
    BY <1>1, CloseFdView
  <2>. QED BY <1>n, <2>1 DEF Live
<1>2. ASSUME clear_closed_event PROVE G
  <2>1. sock' = sock
    BY <1>2, ClearView
  <2>. QED BY <1>a, <2>1
<1>3. ASSUME AcceptNew, s = HASH_ID(NextId) PROVE G
  <2>1. sock'[s].high = << >> /\ sock'[s].low = << >> /\ sock'[s].dw = << >>
    BY <1>3, AcceptNewView
  <2>. QED BY <1>n, <2>1, NodesEmpty
<1>4. ASSUME NEW id \in Id, Network(id) PROVE G
  <2>1. sock' = sock
    BY <1>4, NetworkView
  <2>. QED BY <1>a, <2>1
<1>5. G
  BY <1>1, <1>2, <1>3, <1>4 DEF OtherAt
<1>. QED BY <1>5 DEF G

ArmInv == \A s \in Slot : ArmAt(s)

LEMMA ArmStill == ASSUME ArmInv, UNCHANGED <<sock, call, pipe, torn>> PROVE ArmInv'
<1> SUFFICES ASSUME NEW s \in Slot PROVE ArmAt(s)'
  BY DEF ArmInv
<1>0. PICK i : i = sock[s].id
  OBVIOUS
<1>1. Trig(i)' <=> Trig(i)
  BY TrigSame
<1>2. sock'[s] = sock[s] /\ torn' = torn
  OBVIOUS
<1>3. s \notin torn /\ sock[s].type \in Live \ {"HALFCLOSE_WRITE"} /\ Nodes(sock[s]) # {}
      => sock[s].writing \/ Trig(i)
  BY <1>0 DEF ArmInv, ArmAt
<1>. QED BY <1>0, <1>1, <1>2, <1>3, ArmIs

LEMMA ArmStep == ASSUME Inv, ArmInv, Next PROVE ArmInv'
<1>0. /\ Types /\ IdInv /\ LockInv /\ \A s \in Slot : SlotInv(s)
  BY DEF Inv
<1>1. Types'
  BY InvStep DEF Inv
<1>2. ASSUME NEW s \in Slot, Grow, ArmAt(s)', \A t \in Slot : t # s => Apart(t) PROVE ArmInv'
  <2>1. ASSUME NEW t \in Slot PROVE ArmAt(t)'
    <3>1. CASE t = s
      BY <1>2, <3>1
    <3>2. CASE t # s
      BY <1>0, <1>1, <1>2, <3>2, ArmFrame DEF ArmInv
    <3>. QED BY <3>1, <3>2
  <2>. QED BY <2>1 DEF ArmInv
<1>3. ASSUME NEW s \in Slot PROVE ListAt(s) /\ Pending(s) /\ ArmAt(s)
  BY <1>0 DEF SlotInv, ArmInv
<1>4. ASSUME NEW s \in Slot, NEW w \in Worker, WorkerAt(s, w) PROVE ArmInv'
  <2>1. Grow /\ \A t \in Slot : t # s => Apart(t)
    BY <1>0, <1>4, WorkerUp
  <2>2. ArmAt(s)'
    BY <1>0, <1>3, <1>4, <2>1, ArmWorker
  <2>. QED BY <1>2, <2>1, <2>2
<1>5. ASSUME NEW c, CtrlCase(c) PROVE ArmInv'
  <2>0. PICK s : s = HASH_ID(c.id)
    OBVIOUS
  <2>1. s \in Slot /\ Grow /\ \A t \in Slot : t # s => Apart(t)
    BY <1>0, <1>5, <2>0, CtrlUp
  <2>2. ArmAt(s)'
    BY <1>0, <1>3, <1>5, <2>0, <2>1, ArmCtrl
  <2>. QED BY <1>2, <2>1, <2>2
<1>6. ASSUME NEW e \in batch, EventCase(e) PROVE ArmInv'
  <2>0. PICK s : s = e.s
    OBVIOUS
  <2>1. s \in Slot /\ Grow /\ \A t \in Slot : t # s => Apart(t)
    BY <1>0, <1>6, <2>0, EventUp
  <2>2. ArmAt(s)'
    BY <1>0, <1>3, <1>6, <2>0, <2>1, ArmEvent
  <2>. QED BY <1>2, <2>1, <2>2
<1>7. ASSUME NEW s \in Slot, OtherAt(s) PROVE ArmInv'
  <2>1. Grow /\ \A t \in Slot : t # s => Apart(t)
    BY <1>0, <1>7, OtherUp
  <2>2. ArmAt(s)'
    BY <1>0, <1>3, <1>7, <2>1, ArmOther
  <2>. QED BY <1>2, <2>1, <2>2
<1>8. ASSUME Still PROVE ArmInv'
  <2>1. Grow /\ \A t \in Slot : Apart(t)
    BY <1>0, <1>8, StillUp
  <2>. QED BY <1>0, <1>1, <2>1, ArmFrame DEF ArmInv
<1>9. ASSUME NEW D \in SUBSET Slot, Wait(D) PROVE ArmInv'
  <2>1. UNCHANGED <<sock, call, pipe, torn>>
    BY <1>0, <1>9, WaitUp
  <2>. QED BY <2>1, ArmStill
<1>. QED BY <1>0, <1>4, <1>5, <1>6, <1>7, <1>8, <1>9, NextCases DEF At

\* WriteArmed: a socket with data to send waits for the write event, or the
\* command that turns it on is under way; no wakeup is lost between a direct
\* write that could not send all, trigger_write, send_socket and send_buffer.
THEOREM Wakeup == Spec => []WriteArmed
<1>1. Init => ArmInv
  <2>1. ASSUME Init PROVE ArmInv
    <3>1. \A s \in Slot : sock[s].type = "INVALID"
      BY <2>1 DEF Init
    <3>. QED BY <3>1 DEF ArmInv, ArmAt, Live
  <2>. QED BY <2>1
<1>2. Inv /\ ArmInv /\ [Next]_vars => ArmInv'
  <2>1. ASSUME ArmInv, UNCHANGED vars PROVE ArmInv'
    BY <2>1, ArmStill DEF vars, thread
  <2>. QED BY <2>1, ArmStep
<1>3. Inv /\ ArmInv => WriteArmed
  <2> SUFFICES ASSUME Inv, ArmInv, NEW s \in Slot \ torn,
                      sock[s].type \notin {"INVALID", "RESERVE", "HALFCLOSE_WRITE"}
               PROVE  \/ send_buffer_empty(sock[s]) /\ sock[s].dw = << >>
                      \/ sock[s].writing \/ Triggered(s)
    BY DEF WriteArmed
  <2>1. sock[s] \in Sock
    BY DEF Inv, Types
  <2>2. sock[s].type \in Live \ {"HALFCLOSE_WRITE"}
    BY <2>1 DEF Sock, SocketType
  <2>3. HASH_ID(sock[s].id) = s
    BY <2>2 DEF Inv, IdInv
  <2>4. CASE Nodes(sock[s]) = {}
    <3>1. sock[s].high \in Seq(Node) /\ sock[s].low \in Seq(Node) /\ sock[s].dw \in Seq(Node)
      BY <2>1 DEF Sock
    <3>2. 1 \notin DOMAIN sock[s].high /\ 1 \notin DOMAIN sock[s].low /\ 1 \notin DOMAIN sock[s].dw
      BY <2>4 DEF Nodes
    <3>. QED BY <3>1, <3>2, NonEmpty DEF send_buffer_empty
  <2>5. CASE Nodes(sock[s]) # {}
    <3>1. sock[s].writing \/ Trig(sock[s].id)
      BY <2>2, <2>5 DEF ArmInv, ArmAt
    <3>. QED BY <2>3, <3>1 DEF Trig, Triggered
  <2>. QED BY <2>4, <2>5
<1>. QED BY <1>1, <1>2, <1>3, Invariance, PTL DEF Spec

-----------------------------------------------------------------------------
(* The counters                                                             *)

\* wb_size of slot s counts freed buffers only while the slot is reserved.
FreeAt(s) == CountsFreed(s) => s \in torn \/ sock[s].type = "RESERVE"

FreeInv ==
    /\ \A s \in Slot : FreeAt(s)
    /\ aborted = "wb_size" => \E s \in Slot : CountsFreed(s)

\* No buffer of s is freed, and it becomes a socket only from one.
LEMMA FreeKeep ==
    ASSUME NEW s, FreeAt(s), Grow,
           fc.at = "lock" /\ fc.s = s => fc' = fc,
           sock'[s].freed => sock[s].freed,
           s \notin torn' /\ sock'[s].type \notin {"INVALID", "RESERVE"} =>
             sock[s].type \notin {"INVALID", "RESERVE"}
    PROVE  FreeAt(s)'
BY DEF FreeAt, CountsFreed, Grow

LEMMA FreeFrame == ASSUME NEW t \in Slot, Apart(t), Grow, FreeAt(t) PROVE FreeAt(t)'
<1>1. sock'[t] = sock[t]
  BY DEF Apart
<1>2. fc' = fc \/ fc.at = "no" \/ fc.s # t
  BY DEF Apart
<1>. QED BY <1>1, <1>2, FreeKeep

LEMMA FreeWorker ==
    ASSUME Types, IdInv, NEW s \in Slot, FreeAt(s), Grow, NEW w \in Worker, WorkerAt(s, w)
    PROVE  FreeAt(s)' /\ aborted' = aborted
<1> DEFINE G == FreeAt(s)' /\ aborted' = aborted
<1>0. sock[s] \in Sock /\ sock \in [Slot -> Sock]
  BY DEF Types
<1>a. ASSUME thread' = thread, sock'[s].freed = sock[s].freed,
             sock'[s].type \in {sock[s].type, "RESERVE"}
      PROVE  G
  BY <1>a, FreeKeep DEF thread
<1> HIDE DEF G
<1>1. ASSUME ConnectNew(w), s = HASH_ID(NextId) PROVE G
  <2>1. sock' = [sock EXCEPT ![s].type = "RESERVE"] /\ thread' = thread
    BY <1>1 DEF ConnectNew, Connect
  <2>. QED BY <1>0, <1>a, <2>1 DEF Sock
<1>s. ASSUME sock' = sock, thread' = thread PROVE G
  BY <1>a, <1>s
<1>2. ASSUME NEW cmd \in {"K", "Q", "R", "S"}, NEW id \in Id, Command(w, cmd, id) PROVE G
  BY <1>s, <1>2 DEF Command
<1>3. ASSUME NEW id \in Id, NEW low \in BOOLEAN, Send(w, id, low) PROVE G
  BY <1>s, <1>3 DEF Send
<1>4. ASSUME Request(w), s = HASH_ID(call[w].id) PROVE G
  <2>1. /\ sock' = [sock EXCEPT ![s].id = call[w].id, ![s].tcp = FALSE]
        /\ thread' = thread
    BY <1>4 DEF Request
  <2>. QED BY <1>0, <1>a, <2>1 DEF Sock
<1>5. ASSUME Locked(w) \/ NotLocked(w) \/ NotCounted(w) \/ Push(w) PROVE G
  BY <1>s, <1>5 DEF Locked, NotLocked, Lock, NotCounted, inc_sending_ref, Push
<1>6. ASSUME Counted(w), s = HASH_ID(call[w].id) PROVE G
  <2>1. sock' = [sock EXCEPT ![s].sending = @ + 1] /\ thread' = thread
    BY <1>6 DEF Counted, inc_sending_ref
  <2>. QED BY <1>0, <1>a, <2>1 DEF Sock
<1>7. ASSUME NEW k \in 0 .. MsgSize, DirectWrite(w, k), s = HASH_ID(call[w].id) PROVE G
  <2>0. PICK q : q = IF k = MsgSize THEN << >> ELSE <<[m |-> call[w].m, at |-> k]>>
    OBVIOUS
  <2>1. sock' = [sock EXCEPT ![s].dw = q] /\ thread' = thread
    BY <1>7, <2>0 DEF DirectWrite
  <2>. QED BY <1>0, <1>a, <2>1 DEF Sock
<1>8. G
  BY <1>1, <1>2, <1>3, <1>4, <1>5, <1>6, <1>7 DEF WorkerAt
<1>. QED BY <1>8 DEF G

LEMMA FreeCtrl ==
    ASSUME Types, IdInv, NEW c, CtrlCase(c), NEW s \in Slot, s = HASH_ID(c.id), FreeAt(s), Grow,
           aborted = "no"
    PROVE  FreeAt(s)' /\ aborted' # "wb_size"
<1> DEFINE G == FreeAt(s)' /\ aborted' # "wb_size"
<1>c. CtrlFrame(c) /\ fc = NoClose /\ c.id \in Id
  BY CtrlUp DEF CtrlFrame
<1>0. sock[s] \in Sock /\ sock \in [Slot -> Sock]
  BY DEF Types
<1>a. ASSUME sock'[s].freed = sock[s].freed, aborted' # "wb_size",
             \/ s \in torn' \/ sock'[s].type = sock[s].type
             \/ sock[s].type \notin {"INVALID", "RESERVE"}
      PROVE  G
  BY <1>a, <1>c, FreeKeep DEF NoClose
<1>n. ASSUME aborted' = aborted,
             \/ sock'[s].type = "INVALID" \/ sock'[s].freed = FALSE
             \/ fc'.at = "lock" /\ fc'.s = s
      PROVE  G
  BY <1>n DEF FreeAt, CountsFreed
<1> HIDE DEF G
<1>1. ASSUME OpenFail(c) \/ ResumeFail(c) PROVE G
  <2>1. sock'[s].type = "INVALID" /\ aborted' = aborted
    BY <1>1, FailView
  <2>. QED BY <1>n, <2>1
<1>2. ASSUME NEW type, NEW writing, NEW kind, NEW state, OpenNew(c, type, writing, kind, state) PROVE G
  <2>1. /\ sock' = [sock EXCEPT ![s] = NewSocket(sock[s], c.id, type, TRUE, writing)]
        /\ aborted' = aborted
    BY <1>2 DEF OpenNew, Set
  <2>2. NewSocket(sock[s], c.id, type, TRUE, writing).freed = FALSE
    BY <1>0 DEF NewSocket, Sock
  <2>. QED BY <1>0, <1>n, <2>1, <2>2
<1>3. ASSUME CtrlStop(c) PROVE G
  <2>1. sock' = sock /\ aborted' # "wb_size"
    BY <1>3 DEF CtrlStop
  <2>. QED BY <1>a, <2>1
<1>4. ASSUME NEW kind, CtrlTell(c, kind) PROVE G
  <2>1. sock' = sock /\ aborted' = aborted
    BY <1>4 DEF CtrlTell
  <2>. QED BY <1>a, <2>1
<1>5. ASSUME CloseNow(c) PROVE G
  <2>1. fc'.at = "lock" /\ fc'.s = s /\ aborted' = aborted
    BY <1>5 DEF CloseNow, Forced
  <2>. QED BY <1>n, <2>1
<1>6. ASSUME CloseLater(c) PROVE G
  <2>1. /\ sock' = [sock EXCEPT ![s] = [close_read(sock[s]) EXCEPT !.closing = TRUE]]
        /\ aborted' = aborted
    BY <1>6 DEF CloseLater, Set
  <2>2. sock'[s].freed = sock[s].freed
    BY <1>0, <2>1 DEF close_read, Sock
  <2>3. s \in torn' \/ sock[s].type \notin {"INVALID", "RESERVE"}
    BY <1>6, CloseLaterView DEF Live
  <2>. QED BY <1>a, <2>1, <2>2, <2>3
<1>7. ASSUME Resumed(c) PROVE G
  <2>1. sock' = [sock EXCEPT ![s] = resume(sock[s])] /\ aborted' = aborted
    BY <1>7 DEF Resumed, Set
  <2>2. sock'[s].freed = sock[s].freed
    BY <1>0, <2>1 DEF resume, Sock
  <2>3. sock'[s].type = (IF sock[s].type = "PACCEPT" THEN "CONNECTED" ELSE sock[s].type)
    BY <1>7, ResumedView
  <2>. QED BY <1>a, <2>1, <2>2, <2>3
<1>8. ASSUME Paused(c) \/ Armed(c) PROVE G
  <2>1. /\ \/ sock' = [sock EXCEPT ![s] = [sock[s] EXCEPT !.reading = FALSE]]
           \/ sock' = [sock EXCEPT ![s] = [sock[s] EXCEPT !.writing = TRUE]]
        /\ aborted' = aborted
    BY <1>8 DEF Paused, Armed, Set
  <2>2. sock'[s].freed = sock[s].freed /\ sock'[s].type = sock[s].type
    BY <1>0, <2>1 DEF Sock
  <2>. QED BY <1>a, <2>1, <2>2
<1>9. ASSUME DataElse(c) \/ DataTcp(c) PROVE G
  <2>0. PICK q : q = Queued(sock[s], c.id, c.m)
    OBVIOUS
  <2>1. /\ \/ sock' = [sock EXCEPT ![s] = q] \/ sock' = [sock EXCEPT ![s] = [q EXCEPT !.sending = @ - 1]]
        /\ aborted' = aborted
    BY <1>9, <2>0 DEF DataElse, DataTcp, Set
  <2>2. q.freed = sock[s].freed /\ [q EXCEPT !.sending = @ - 1].freed = sock[s].freed
    BY <1>0, <2>0 DEF Queued, Enqueue, Sock
  <2>3. sock'[s].type = sock[s].type
    BY <1>9, DataView DEF SameType
  <2>. QED BY <1>0, <1>a, <2>1, <2>2, <2>3
<1>10. G
  BY <1>1, <1>2, <1>3, <1>4, <1>5, <1>6, <1>7, <1>8, <1>9 DEF CtrlCase
<1>. QED BY <1>10 DEF G

LEMMA FreeEvent ==
    ASSUME Types, IdInv, NEW e, EventCase(e), NEW s \in Slot, s = e.s, FreeAt(s), Grow,
           aborted = "no"
    PROVE  FreeAt(s)' /\ (aborted' = "wb_size" => CountsFreed(s)')
<1> DEFINE G == FreeAt(s)' /\ (aborted' = "wb_size" => CountsFreed(s)')
<1>c. EventFrame(e) /\ fc = NoClose
  BY EventUp, EventFacts
<1>0. sock[s] \in Sock /\ sock \in [Slot -> Sock]
  BY DEF Types
<1>a. ASSUME sock'[s].freed = sock[s].freed, aborted' # "wb_size",
             \/ s \in torn' \/ sock'[s].type = sock[s].type
             \/ sock[s].type \notin {"INVALID", "RESERVE"}
      PROVE  G
  BY <1>a, <1>c, FreeKeep DEF NoClose
<1>n. ASSUME aborted' = aborted, sock'[s].type = "INVALID" \/ (fc'.at = "lock" /\ fc'.s = s)
      PROVE  G
  BY <1>n DEF FreeAt, CountsFreed
<1> HIDE DEF G
<1>1. ASSUME NEW kind, EventTell(e, kind) \/ EventStop(e) PROVE G
  <2>1. sock' = sock /\ aborted' # "wb_size"
    BY <1>1 DEF EventTell, EventStop
  <2>. QED BY <1>a, <2>1
<1>2. ASSUME NEW kind, EventForce(e, kind) PROVE G
  <2>1. fc'.at = "lock" /\ fc'.s = s /\ aborted' = aborted
    BY <1>2 DEF EventForce, Forced
  <2>. QED BY <1>n, <2>1
<1>3. ASSUME Connected(e) PROVE G
  <2>1. /\ sock' = [sock EXCEPT ![s] = AfterConnect(sock[s])] /\ aborted' = aborted
        /\ sock[s].type = "CONNECTING"
    BY <1>3 DEF Connected, Set
  <2>2. sock'[s].freed = sock[s].freed
    BY <1>0, <2>1 DEF AfterConnect, Sock
  <2>. QED BY <1>a, <2>1, <2>2
<1>4. ASSUME EofRead(e) PROVE G
  <2>1. sock' = [sock EXCEPT ![s] = close_read(sock[s])] /\ aborted' = aborted
    BY <1>4 DEF EofRead, Set
  <2>2. sock'[s].freed = sock[s].freed
    BY <1>0, <2>1 DEF close_read, Sock
  <2>3. s \in torn' \/ sock[s].type \notin {"INVALID", "RESERVE"}
    BY <1>4, EofReadView
  <2>. QED BY <1>a, <2>1, <2>2, <2>3
<1>5. ASSUME WriteClosed(e) PROVE G
  <2>1. sock'[s].type = "INVALID" /\ aborted' = aborted
    BY <1>5, WriteClosedView
  <2>. QED BY <1>n, <2>1
<1>6. ASSUME WriteStopped(e) \/ WriteError(e) PROVE G
  <2>0. PICK d \in Sock : d = WithDirect(sock[s]) /\ d.freed = sock[s].freed
    BY <1>0, WithDirectFacts
  <2>1. /\ \/ sock' = [sock EXCEPT ![s] = d]
           \/ sock' = [sock EXCEPT ![s] = [d EXCEPT !.type = "HALFCLOSE_WRITE", !.writing = FALSE]]
        /\ aborted' = aborted
    BY <1>6, <2>0 DEF WriteStopped, WriteError, Set
  <2>2. sock'[s].freed = sock[s].freed
    BY <1>0, <2>0, <2>1 DEF Sock
  <2>3. CASE WriteStopped(e)
    <3>1. sock[s].type \notin {"INVALID", "RESERVE"}
      BY <2>3 DEF WriteStopped
    <3>. QED BY <1>a, <2>1, <2>2, <3>1
  <2>4. CASE WriteError(e)
    <3>1. /\ sock[s].type \in {"CONNECTED", "PACCEPT", "RESERVE"} /\ torn' = torn \cup Undone
          /\ sock'[s].type = "HALFCLOSE_WRITE"
      BY <2>4, WriteFailView DEF WriteError
    <3>2. s \in torn' \/ sock[s].type \notin {"INVALID", "RESERVE"}
      BY <3>1 DEF Undone
    <3>. QED BY <1>a, <2>1, <2>2, <3>2
  <2>. QED BY <1>6, <2>3, <2>4
<1>7. ASSUME NEW n, NEW k, WriteMore(e, n, k) PROVE G
  <2>0. PICK z : z = Written(WithDirect(sock[s]), n, k)
    OBVIOUS
  <2>1. /\ WriteSome(e, n, k) /\ sock'[s] = z /\ fc' = fc
        /\ aborted' # aborted => aborted' = "wb_size" /\ z.freed
    BY <1>7, <2>0, WriteMoreView
  <2>2. /\ z.type = sock[s].type /\ z.freed = sock[s].freed
        /\ sock[s].type \notin {"CONNECTING", "INVALID"}
    BY <2>0, <2>1, WriteSomeSlot
  <2>3. FreeAt(s)'
    BY <1>c, <2>1, <2>2, FreeKeep DEF NoClose
  <2>4. aborted' = "wb_size" => CountsFreed(s)'
    BY <1>c, <2>1, <2>2 DEF NoClose, CountsFreed
  <2>. QED BY <2>3, <2>4 DEF G
<1>8. ASSUME NEW n, NEW k, WriteFinish(e, n, k) PROVE G
  <2>1. sock'[s].type = "INVALID" /\ aborted' = aborted
    BY <1>8, WriteFinishView
  <2>. QED BY <1>n, <2>1
<1>9. ASSUME NEW n, NEW k, WriteDone(e, n, k) PROVE G
  <2>0. PICK z : z = Written(WithDirect(sock[s]), n, k)
    OBVIOUS
  <2>1. /\ WriteSome(e, n, k) /\ sock' = [sock EXCEPT ![s] = [z EXCEPT !.writing = FALSE]]
        /\ aborted' = aborted
    BY <1>9, <2>0 DEF WriteDone, Set
  <2>2. z \in Sock /\ z.type = sock[s].type /\ z.freed = sock[s].freed
    BY <2>0, <2>1, WriteSomeSlot
  <2>3. sock'[s].freed = sock[s].freed /\ sock'[s].type = sock[s].type
    BY <1>0, <2>1, <2>2 DEF Sock
  <2>. QED BY <1>a, <2>1, <2>3
<1>10. G
  BY <1>1, <1>2, <1>3, <1>4, <1>5, <1>6, <1>7, <1>8, <1>9 DEF EventCase
<1>. QED BY <1>10 DEF G

LEMMA FreeOther ==
    ASSUME Types, IdInv, NEW s \in Slot, OtherAt(s), FreeAt(s), Grow
    PROVE  FreeAt(s)' /\ aborted' = aborted
<1> DEFINE G == FreeAt(s)' /\ aborted' = aborted
<1>n. ASSUME aborted' = aborted, sock'[s].type = "INVALID" \/ sock'[s].freed = FALSE PROVE G
  BY <1>n DEF FreeAt, CountsFreed
<1> HIDE DEF G
<1>1. ASSUME CloseFd, s = fc.s PROVE G
  <2>1. sock'[s].type = "INVALID" /\ aborted' = aborted
    BY <1>1, CloseFdView DEF CloseFd
  <2>. QED BY <1>n, <2>1
<1>2. ASSUME clear_closed_event PROVE G
  <2>1. sock' = sock /\ fc.at = "clear" /\ aborted' = aborted
    BY <1>2 DEF clear_closed_event
  <2>. QED BY <2>1, FreeKeep DEF G
<1>3. ASSUME AcceptNew, s = HASH_ID(NextId) PROVE G
  <2>1. sock' = [sock EXCEPT ![s] = NewSocket(sock[s], NextId, "PACCEPT", FALSE, FALSE)]
    BY <1>3 DEF AcceptNew, Set
  <2>2. aborted' = aborted
    BY <1>3, AcceptNewView
  <2>3. sock[s] \in Sock /\ sock \in [Slot -> Sock]
    BY DEF Types
  <2>4. NewSocket(sock[s], NextId, "PACCEPT", FALSE, FALSE).freed = FALSE
    BY <2>3 DEF NewSocket, Sock
  <2>. QED BY <1>n, <2>1, <2>2, <2>3, <2>4
<1>4. ASSUME NEW id \in Id, Network(id) PROVE G
  <2>1. sock' = sock /\ thread' = thread
    BY <1>4 DEF Network
  <2>. QED BY <2>1, FreeKeep DEF G, thread
<1>5. G
  BY <1>1, <1>2, <1>3, <1>4 DEF OtherAt
<1>. QED BY <1>5 DEF G

LEMMA FreeStep == ASSUME Inv, FreeInv, Next PROVE FreeInv'
<1>0. Types /\ IdInv /\ LockInv /\ aborted = "no" /\ \A s \in Slot : FreeAt(s)
  BY DEF Inv, FreeInv, Next
<1>1. ASSUME NEW s \in Slot, Grow, \A t \in Slot : t # s => Apart(t), FreeAt(s)',
             aborted' = "wb_size" => CountsFreed(s)'
      PROVE  FreeInv'
  <2>1. ASSUME NEW t \in Slot PROVE FreeAt(t)'
    <3>1. CASE t = s
      BY <1>1, <3>1
    <3>2. CASE t # s
      BY <1>0, <1>1, <3>2, FreeFrame
    <3>. QED BY <3>1, <3>2
  <2>. QED BY <1>1, <2>1 DEF FreeInv
<1>2. ASSUME NEW s \in Slot, At(s) PROVE FreeInv'
  <2>1. CASE \E w \in Worker : WorkerAt(s, w)
    BY <1>0, <1>1, <2>1, WorkerUp, FreeWorker
  <2>2. ASSUME NEW c, CtrlCase(c), s = HASH_ID(c.id) PROVE FreeInv'
    BY <1>0, <1>1, <2>2, CtrlUp, FreeCtrl
  <2>3. ASSUME NEW e \in batch, EventCase(e), s = e.s PROVE FreeInv'
    BY <1>0, <1>1, <2>3, EventUp, FreeEvent
  <2>4. CASE OtherAt(s)
    BY <1>0, <1>1, <2>4, OtherUp, FreeOther
  <2>. QED BY <1>2, <2>1, <2>2, <2>3, <2>4 DEF At
<1>3. ASSUME Grow, \A t \in Slot : Apart(t), aborted' # "wb_size" PROVE FreeInv'
  BY <1>0, <1>3, FreeFrame DEF FreeInv
<1>4. CASE Still
  <2>1. aborted' # "wb_size"
    BY <1>0, <1>4 DEF Still, AcceptNone, ConnectFull, Connect, thread
  <2>. QED BY <1>0, <1>3, <1>4, <2>1, StillUp
<1>5. ASSUME NEW D \in SUBSET Slot, Wait(D) PROVE FreeInv'
  <2>1. Grow /\ UNCHANGED <<sock, fc, torn>> /\ aborted' = aborted
    BY <1>0, <1>5, WaitUp DEF Wait
  <2>2. ASSUME NEW t \in Slot PROVE FreeAt(t)'
    BY <1>0, <2>1, FreeKeep
  <2>. QED BY <1>0, <2>1, <2>2 DEF FreeInv
<1>. QED BY <1>0, <1>2, <1>4, <1>5, NextCases

\* CountersHold: the 16-bit counter of direct requests stays within its range;
\* every "D" or "P" that its socket has in the pipe finds it positive, so the
\* assert of dec_sending_ref holds unless a reservation was undone; wb_size
\* counts nothing but the lists except in a reserved slot, so the assert at the
\* end of send_buffer_ can fail there only; and send_buffer_ never meets a
\* partly sent buffer in the low list.
THEOREM Counters == Spec => []CountersHold
<1>1. ASSUME Inv, FreeInv PROVE CountersHold
  <2>1. Types /\ IdInv /\ PipeInv /\ (\A s \in Slot : SlotInv(s)) /\ AbortInv
    BY <1>1 DEF Inv
  <2>2. ASSUME NEW s \in Slot
        PROVE  /\ sock[s].id \in Id \cup {0}
               /\ sock[s].type \in {"INVALID", "RESERVE", "CONNECTING",
                                    "CONNECTED", "HALFCLOSE_READ", "HALFCLOSE_WRITE", "PACCEPT"}
               /\ sock[s].sending \in 0 .. MaxRef
               /\ \A q \in {sock[s].high, sock[s].low, sock[s].dw} :
                    \A i \in DOMAIN q : q[i].m \in DOMAIN sent /\ q[i].at \in 0 .. MsgSize - 1
    <3>1. sock[s] \in Sock
      BY <2>1 DEF Types
    <3>2. sock[s].id \in Id \cup {0}
      BY <2>1 DEF IdInv
    <3>3. /\ sock[s].type \in SocketType /\ sock[s].sending \in 0 .. MaxRef
          /\ sock[s].dw \in Seq(Node) /\ sock[s].high \in Seq(Node) /\ sock[s].low \in Seq(Node)
      BY <3>1 DEF Sock
    <3>4. ASSUME NEW b \in Nodes(sock[s]) PROVE b.m \in DOMAIN sent /\ b.at \in 0 .. MsgSize - 1
      <4>1. b \in Node
        BY <3>1, NodesOf
      <4>2. b.m \in DOMAIN sent
        BY <2>1 DEF SlotInv, ListAt
      <4>. QED BY <4>1, <4>2 DEF Node
    <3>5. ASSUME NEW q \in {sock[s].high, sock[s].low, sock[s].dw}, NEW i \in DOMAIN q
          PROVE  q[i] \in Nodes(sock[s])
      BY <3>1, NodesOf
    <3>. QED BY <3>2, <3>3, <3>4, <3>5 DEF SocketType, Live
  <2>3. TypeOK
    <3>1. /\ alloc_id \in Nat /\ lock \in [Slot -> Worker \cup {None}]
          /\ stale \subseteq Id /\ torn \subseteq Slot /\ checkctrl \in BOOLEAN
          /\ cmds \in 0 .. MaxCmd /\ peers \in 0 .. MaxPeer /\ Len(sent) <= MaxSend
      BY <2>1 DEF Types
    <3>. QED BY <2>2, <3>1 DEF TypeOK
  <2>4. ASSUME NEW p \in DOMAIN pipe, pipe[p].c \in {"D", "P"}, HASH_ID(pipe[p].id) \notin torn,
               sock[HASH_ID(pipe[p].id)].tcp, sock[HASH_ID(pipe[p].id)].id = pipe[p].id
        PROVE  sock[HASH_ID(pipe[p].id)].sending > 0
    <3>1. HASH_ID(pipe[p].id) \in Slot
      BY <2>1, PipeType
    <3>2. Covered(HASH_ID(pipe[p].id))
      BY <2>1, <3>1 DEF SlotInv
    <3>. QED BY <2>1, <2>4, <3>1, <3>2, CountedPositive DEF Data
  <2>5. aborted # "list_uncomplete" /\ (torn = {} => aborted # "dec_sending_ref")
    BY <2>1 DEF AbortInv
  <2>6. /\ \A s \in Slot \ torn : CountsFreed(s) => sock[s].type = "RESERVE"
        /\ aborted = "wb_size" => \E s \in Slot : CountsFreed(s)
    BY <1>1 DEF FreeInv, FreeAt
  <2>. QED BY <2>3, <2>4, <2>5, <2>6 DEF CountersHold
<1>2. Init => FreeInv
  <2>1. ASSUME Init PROVE FreeInv
    <3>1. (\A s \in Slot : sock[s].type = "INVALID") /\ aborted = "no"
      BY <2>1 DEF Init
    <3>. QED BY <3>1 DEF FreeInv, FreeAt, CountsFreed
  <2>. QED BY <2>1
<1>3. Inv /\ FreeInv /\ [Next]_vars => FreeInv'
  <2>1. ASSUME FreeInv, UNCHANGED vars PROVE FreeInv'
    BY <2>1 DEF vars, thread, FreeInv, FreeAt, CountsFreed
  <2>. QED BY <2>1, FreeStep
<1>4. Inv /\ FreeInv => CountersHold
  BY <1>1
<1>. QED BY <1>2, <1>3, <1>4, Invariance, PTL DEF Spec

-----------------------------------------------------------------------------
(* What the owner of a socket is told                                       *)

Gone == {"rst", "hup"}

\* An event of the socket that has the slot now: EPOLLHUP only when both sides
\* are closed, nothing to read before start.
EventAt(s) == s \notin torn /\ sock[s].type \in Live =>
    \A e \in batch : e.s = s /\ e.id = sock[s].id =>
      /\ e.eof => net[sock[s].id] \in Gone \/ sock[s].type = "HALFCLOSE_WRITE"
      /\ sock[s].type = "PACCEPT" => ~ e.read

\* The events of slot s were there before.
NoEvent(s) == \A f \in batch' : f.s = s =>
    \E g \in batch : g.s = s /\ g.id = f.id /\ (f.eof => g.eof) /\ (f.read => g.read)

\* What EventAt says of a slot stays.
EventStays(s) == s \notin torn' /\ sock'[s].type \in Live =>
    /\ sock[s].type \in Live /\ sock'[s].id = sock[s].id
    /\ sock'[s].type = "PACCEPT" => sock[s].type = "PACCEPT"
    /\ sock[s].type = "HALFCLOSE_WRITE" => sock'[s].type = "HALFCLOSE_WRITE"
    /\ net[sock[s].id] \in Gone => net'[sock[s].id] \in Gone

LEMMA EventAtIs ==
    ASSUME NEW s,
           s \notin torn' /\ sock'[s].type \in Live =>
             \A e \in batch' : e.s = s /\ e.id = sock'[s].id =>
               /\ e.eof => net'[sock'[s].id] \in Gone \/ sock'[s].type = "HALFCLOSE_WRITE"
               /\ sock'[s].type = "PACCEPT" => ~ e.read
    PROVE  EventAt(s)'
BY DEF EventAt

LEMMA EventKeep ==
    ASSUME NEW s, EventAt(s), Grow, NoEvent(s), EventStays(s)
    PROVE  EventAt(s)'
<1>1. s \notin torn' => s \notin torn
  BY DEF Grow
<1>2. ASSUME s \notin torn', sock'[s].type \in Live, NEW f \in batch', f.s = s, f.id = sock'[s].id
      PROVE  /\ f.eof => net'[sock'[s].id] \in Gone \/ sock'[s].type = "HALFCLOSE_WRITE"
             /\ sock'[s].type = "PACCEPT" => ~ f.read
  <2>1. PICK g \in batch : g.s = s /\ g.id = f.id /\ (f.eof => g.eof) /\ (f.read => g.read)
    BY <1>2 DEF NoEvent
  <2>2. /\ sock[s].type \in Live /\ sock'[s].id = sock[s].id
        /\ sock'[s].type = "PACCEPT" => sock[s].type = "PACCEPT"
        /\ sock[s].type = "HALFCLOSE_WRITE" => sock'[s].type = "HALFCLOSE_WRITE"
        /\ net[sock[s].id] \in Gone => net'[sock[s].id] \in Gone
    BY <1>2 DEF EventStays
  <2>3. /\ g.eof => net[sock[s].id] \in Gone \/ sock[s].type = "HALFCLOSE_WRITE"
        /\ sock[s].type = "PACCEPT" => ~ g.read
    BY <1>1, <1>2, <2>1, <2>2 DEF EventAt
  <2>. QED BY <2>1, <2>2, <2>3
<1>. QED BY <1>2, EventAtIs

LEMMA SameEvents == ASSUME batch' \subseteq batch, NEW s PROVE NoEvent(s)
BY DEF NoEvent

LEMMA EventEvents == ASSUME Types, IdInv, NEW e, EventFrame(e), NEW s PROVE NoEvent(s)
<1>1. /\ e \in batch
      /\ \A f \in batch' :
           \/ f \in batch
           \/ f.s = e.s /\ f.id = e.id /\ ~ f.read /\ f.eof = e.eof
  BY EventFacts
<1>. QED BY <1>1 DEF NoEvent

LEMMA EventFrameAt ==
    ASSUME NEW t \in Slot, Apart(t), Grow, EventAt(t), IdInv
    PROVE  EventAt(t)'
<1>1. NoEvent(t)
  BY DEF Apart, NoEvent
<1>2. sock'[t] = sock[t]
  BY DEF Apart
<1>3. sock[t].type \in Live => sock[t].id \in Id /\ HASH_ID(sock[t].id) = t
  BY DEF IdInv
<1>4. sock[t].type \in Live => net'[sock[t].id] = net[sock[t].id]
  BY <1>3 DEF Apart
<1>5. EventStays(t)
  BY <1>2, <1>4 DEF EventStays
<1>. QED BY <1>1, <1>5, EventKeep

LEMMA EventWorker ==
    ASSUME Types, IdInv, NEW s \in Slot, Pending(s), EventAt(s), Grow,
           NEW w \in Worker, WorkerAt(s, w)
    PROVE  EventAt(s)'
<1> DEFINE G == EventAt(s)'
<1>a. ASSUME batch' = batch, net' = net, sock'[s].type = sock[s].type, sock'[s].id = sock[s].id
      PROVE  G
  <2>1. NoEvent(s)
    BY <1>a, SameEvents
  <2>2. EventStays(s)
    BY <1>a DEF EventStays
  <2>. QED BY <2>1, <2>2, EventKeep
<1>n. ASSUME s \notin torn' => sock'[s].type \notin Live PROVE G
  BY <1>n, EventAtIs
<1>s. ASSUME sock' = sock, UNCHANGED <<thread, outside>> PROVE G
  BY <1>a, <1>s DEF thread, outside
<1> HIDE DEF G
<1>1. ASSUME ConnectNew(w), s = HASH_ID(NextId) PROVE G
  <2>1. sock'[s].type = "RESERVE"
    BY <1>1, ConnectNewView
  <2>. QED BY <1>n, <2>1 DEF Live
<1>2. ASSUME NEW cmd \in {"K", "Q", "R", "S"}, NEW id \in Id, Command(w, cmd, id) PROVE G
  BY <1>s, <1>2 DEF Command
<1>3. ASSUME NEW id \in Id, NEW low \in BOOLEAN, Send(w, id, low) PROVE G
  BY <1>s, <1>3 DEF Send
<1>4. ASSUME Request(w), s = HASH_ID(call[w].id) PROVE G
  <2>1. call[w].at = "O" /\ SameType(s) /\ UNCHANGED <<alloc_id, lock, sent, cmds, thread, outside>>
    BY <1>4, RequestView
  <2>2. s \notin torn => sock[s].type = "RESERVE"
    BY <1>4, <2>1 DEF Pending
  <2>3. s \notin torn' => sock'[s].type \notin Live
    BY <2>1, <2>2 DEF SameType, Live, Grow
  <2>. QED BY <1>n, <2>3
<1>5. ASSUME Locked(w) \/ NotLocked(w) \/ NotCounted(w) \/ Push(w) PROVE G
  BY <1>s, <1>5 DEF Locked, NotLocked, Lock, NotCounted, inc_sending_ref, Push
<1>6. ASSUME Counted(w), s = HASH_ID(call[w].id) PROVE G
  <2>1. SameName(s) /\ SameType(s) /\ UNCHANGED <<alloc_id, lock, pipe, said, sent, cmds, thread, outside>>
    BY <1>6, CountedView
  <2>. QED BY <1>a, <2>1 DEF SameName, SameType, thread, outside
<1>7. ASSUME NEW k \in 0 .. MsgSize, DirectWrite(w, k), s = HASH_ID(call[w].id) PROVE G
  <2>1. /\ SameName(s) /\ SameType(s)
        /\ UNCHANGED <<alloc_id, pipe, net, said, sent, cmds, peers, thread>>
    BY <1>7, DirectWriteView
  <2>. QED BY <1>a, <2>1 DEF SameName, SameType, thread
<1>8. G
  BY <1>1, <1>2, <1>3, <1>4, <1>5, <1>6, <1>7 DEF WorkerAt
<1>. QED BY <1>8 DEF G

LEMMA EventCtrl ==
    ASSUME Types, IdInv, NEW c, CtrlCase(c), NEW s \in Slot, s = HASH_ID(c.id), Pending(s),
           EventAt(s), Grow
    PROVE  EventAt(s)'
<1> DEFINE G == EventAt(s)'
<1>c. CtrlFrame(c) /\ c.id \in Id /\ batch' = batch
  BY CtrlUp, CtrlFacts
<1>a. ASSUME EventStays(s) PROVE G
  BY <1>a, <1>c, SameEvents, EventKeep
<1>b. ASSUME net' = net, SameName(s), SameType(s) PROVE G
  BY <1>a, <1>b DEF EventStays, SameName, SameType
<1>n. ASSUME sock'[s].type \notin Live PROVE G
  BY <1>n, EventAtIs
<1> HIDE DEF G
<1>1. ASSUME OpenFail(c) \/ ResumeFail(c) PROVE G
  <2>1. sock'[s].type = "INVALID"
    BY <1>1, FailView
  <2>. QED BY <1>n, <2>1 DEF Live
<1>2. ASSUME NEW type, NEW writing, NEW kind, NEW state, OpenNew(c, type, writing, kind, state) PROVE G
  <2>1. sock'[s].id = c.id /\ c.c = "O"
    BY <1>2, OpenNewView
  <2>2. s \notin torn => \A e \in batch : e.s = s => e.id # c.id
    BY <1>c, <2>1, PendingHead
  <2>3. s \notin torn' => s \notin torn
    BY DEF Grow
  <2>. QED BY <1>c, <2>1, <2>2, <2>3, EventAtIs DEF G
<1>3. ASSUME NEW kind, CtrlStop(c) \/ CtrlTell(c, kind) PROVE G
  <2>1. sock' = sock /\ net' = net
    BY <1>3, CtrlIdleView
  <2>. QED BY <1>b, <2>1 DEF SameName, SameType
<1>5. ASSUME CloseNow(c) PROVE G
  <2>1. SameName(s) /\ SameType(s) /\ net' = net
    BY <1>5, CloseNowView
  <2>. QED BY <1>b, <2>1
<1>6. ASSUME CloseLater(c) PROVE G
  <2>1. /\ SameName(s) /\ sock'[s].type = "HALFCLOSE_READ" /\ net' = net
        /\ sock[s].type \in Live \cup {"RESERVE"} /\ ~ nomore_sending_data(sock[s])
        /\ torn' = torn \cup (IF sock[s].type = "RESERVE" THEN {s} ELSE {})
    BY <1>6, CloseLaterView
  <2>2. s \notin torn' => sock[s].type \in Live \ {"HALFCLOSE_WRITE"}
    BY <2>1 DEF nomore_sending_data
  <2>. QED BY <1>a, <2>1, <2>2 DEF SameName, EventStays
<1>7. ASSUME Resumed(c) PROVE G
  <2>1. /\ SameName(s) /\ net' = net
        /\ sock'[s].type = (IF sock[s].type = "PACCEPT" THEN "CONNECTED" ELSE sock[s].type)
    BY <1>7, ResumedView
  <2>. QED BY <1>a, <2>1 DEF SameName, EventStays, Live
<1>8. ASSUME Paused(c) \/ Armed(c) PROVE G
  <2>1. SameName(s) /\ SameType(s) /\ net' = net
    BY <1>8, PokedView
  <2>. QED BY <1>b, <2>1
<1>9. ASSUME DataElse(c) \/ DataTcp(c) PROVE G
  <2>1. SameName(s) /\ SameType(s) /\ net' = net
    BY <1>9, DataView
  <2>. QED BY <1>b, <2>1
<1>10. G
  BY <1>1, <1>2, <1>3, <1>5, <1>6, <1>7, <1>8, <1>9 DEF CtrlCase
<1>. QED BY <1>10 DEF G

LEMMA EventEvent ==
    ASSUME Types, IdInv, NEW e, EventCase(e), NEW s \in Slot, s = e.s, EventAt(s), Grow
    PROVE  EventAt(s)'
<1> DEFINE G == EventAt(s)'
<1>c. EventFrame(e) /\ sock[s].id \in Id
  BY EventUp, EventFacts
<1>a. ASSUME EventStays(s) PROVE G
  BY <1>a, <1>c, EventEvents, EventKeep
<1>b. ASSUME \A i \in Id : net'[i] = net[i] \/ (net[i] = "rst" /\ net'[i] = "hup"),
             SameName(s), SameType(s)
      PROVE  G
  <2>1. net[sock[s].id] \in Gone => net'[sock[s].id] \in Gone
    BY <1>b, <1>c DEF Gone
  <2>. QED BY <1>a, <1>b, <2>1 DEF EventStays, SameName, SameType
<1>n. ASSUME sock'[s].type \notin Live PROVE G
  BY <1>n, EventAtIs
<1> HIDE DEF G
<1>1. ASSUME NEW kind, EventTell(e, kind) \/ EventStop(e) PROVE G
  <2>1. /\ sock' = sock
        /\ \A i \in Id : net'[i] = net[i] \/ (net[i] = "rst" /\ net'[i] = "hup")
    BY <1>1, EventIdleView
  <2>. QED BY <1>b, <2>1 DEF SameName, SameType
<1>2. ASSUME NEW kind, EventForce(e, kind) PROVE G
  <2>1. SameName(s) /\ SameType(s) /\ net' = net
    BY <1>2, EventForceView
  <2>. QED BY <1>b, <2>1
<1>3. ASSUME Connected(e) PROVE G
  <2>1. /\ sock[s].type = "CONNECTING" /\ SameName(s) /\ sock'[s].type = "CONNECTED" /\ net' = net
    BY <1>3, ConnectedView
  <2>. QED BY <1>a, <2>1 DEF SameName, Live, EventStays
<1>4. ASSUME EofRead(e) PROVE G
  <2>1. /\ sock[s].type \in {"CONNECTED", "PACCEPT", "RESERVE"}
        /\ SameName(s) /\ sock'[s].type = "HALFCLOSE_READ" /\ net' = net
        /\ torn' = torn \cup (IF sock[s].type = "RESERVE" THEN {s} ELSE {})
    BY <1>4, EofReadView
  <2>3. s \notin torn' => sock[s].type \in Live \ {"HALFCLOSE_WRITE"}
    BY <2>1 DEF Live
  <2>. QED BY <1>a, <2>1, <2>3 DEF SameName, EventStays
<1>5. ASSUME WriteClosed(e) PROVE G
  <2>1. sock'[s].type = "INVALID"
    BY <1>5, WriteClosedView
  <2>. QED BY <1>n, <2>1 DEF Live
<1>6. ASSUME WriteStopped(e) \/ WriteError(e) PROVE G
  <2>1. sock'[s].type = "HALFCLOSE_WRITE"
    BY <1>6, WriteFailView
  <2>. QED BY <2>1, EventAtIs DEF G
<1>7. ASSUME NEW n, NEW k, WriteMore(e, n, k) PROVE G
  <2>0. PICK z : z = Written(WithDirect(sock[s]), n, k)
    OBVIOUS
  <2>1. WriteSome(e, n, k) /\ sock'[s] = z /\ net' = net
    BY <1>7, <2>0, WriteMoreView
  <2>2. z.id = sock[s].id /\ z.type = sock[s].type
    BY <2>0, <2>1, WriteSomeSlot
  <2>. QED BY <1>a, <2>1, <2>2 DEF EventStays
<1>8. ASSUME NEW n, NEW k, WriteFinish(e, n, k) PROVE G
  <2>1. sock'[s].type = "INVALID"
    BY <1>8, WriteFinishView
  <2>. QED BY <1>n, <2>1 DEF Live
<1>9. ASSUME NEW n, NEW k, WriteDone(e, n, k) PROVE G
  <2>1. SameName(s) /\ SameType(s) /\ net' = net
    BY <1>9, WriteDoneView
  <2>. QED BY <1>b, <2>1
<1>10. G
  BY <1>1, <1>2, <1>3, <1>4, <1>5, <1>6, <1>7, <1>8, <1>9 DEF EventCase
<1>. QED BY <1>10 DEF G

LEMMA EventOther ==
    ASSUME Types, IdInv, NEW s \in Slot, OtherAt(s), EventAt(s), Grow
    PROVE  EventAt(s)'
<1> DEFINE G == EventAt(s)'
<1>n. ASSUME sock'[s].type \notin Live PROVE G
  BY <1>n, EventAtIs
<1> HIDE DEF G
<1>1. ASSUME CloseFd, s = fc.s PROVE G
  <2>1. sock'[s].type = "INVALID"
    BY <1>1, CloseFdView
  <2>. QED BY <1>n, <2>1 DEF Live
<1>2. ASSUME clear_closed_event PROVE G
  <2>1. sock' = sock /\ net' = net /\ batch' \subseteq batch
    BY <1>2, ClearView
  <2>2. EventStays(s)
    BY <2>1 DEF EventStays
  <2>. QED BY <2>1, <2>2, SameEvents, EventKeep DEF G
<1>3. ASSUME AcceptNew, s = HASH_ID(NextId) PROVE G
  <2>1. NextId \in Id /\ NextId > alloc_id /\ sock'[s].id = NextId /\ batch' = batch
    BY <1>3, AcceptNewView
  <2>2. \A e \in batch : e.id \in Id /\ e.id <= alloc_id
    BY DEF IdInv
  <2>3. NextId \in Nat /\ alloc_id \in Nat /\ \A e \in batch : e.id \in Nat
    BY <2>1, <2>2, IdType DEF Types
  <2>4. \A e \in batch : e.id # NextId
    BY <2>1, <2>2, <2>3
  <2>. QED BY <2>1, <2>4, EventAtIs DEF G
<1>4. ASSUME NEW id \in Id, Network(id) PROVE G
  <2>1. /\ UNCHANGED <<alloc_id, sock, lock, call, pipe, said, sent, cmds, thread, wire>>
        /\ \A i \in Id : i # id => net'[i] = net[i]
        /\ net[id] \notin {"none", "rst", "hup"}
    BY <1>4, NetworkView
  <2>2. batch' \subseteq batch
    BY <2>1 DEF thread
  <2>3. sock[s].type \in Live => sock[s].id \in Id
    BY DEF IdInv
  <2>4. EventStays(s)
    BY <2>1, <2>3 DEF EventStays, Gone
  <2>. QED BY <2>2, <2>4, SameEvents, EventKeep DEF G
<1>5. G
  BY <1>1, <1>2, <1>3, <1>4 DEF OtherAt
<1>. QED BY <1>5 DEF G

LEMMA EventWait ==
    ASSUME Types, IdInv, NEW s \in Slot, Coherent(s), NEW D \in SUBSET Slot, Wait(D)
    PROVE  EventAt(s)'
<1>1. /\ UNCHANGED <<sock, lock, call, pipe, said, sent, stale, torn, wire, net, fc>>
      /\ \A e \in batch' :
           /\ e.s \in Slot /\ e.id = sock[e.s].id /\ sock[e.s].id \in Id
           /\ sock[e.s].type \in Live
           /\ e.read => sock[e.s].reading
           /\ e.eof => net[sock[e.s].id] \in {"rst", "hup"} \/ sock[e.s].type = "HALFCLOSE_WRITE"
  BY WaitUp
<1>2. s \notin torn /\ sock[s].type = "PACCEPT" => ~ sock[s].reading
  BY DEF Coherent
<1>3. /\ sock'[s] = sock[s] /\ net' = net /\ torn' = torn
  BY <1>1
<1>4. \A e \in batch' : e.s = s =>
         /\ e.read => sock[s].reading
         /\ e.eof => net[sock[s].id] \in Gone \/ sock[s].type = "HALFCLOSE_WRITE"
  BY <1>1 DEF Gone
<1>. QED BY <1>2, <1>3, <1>4, EventAtIs

\* The request to open the socket of id is in the pipe.
Opening(i) == \E p \in DOMAIN pipe : pipe[p].c = "O" /\ pipe[p].id = i

\* Slot s has no socket of id i, and none is to come.
Lost(s, i) ==
    \/ sock[s].id # i
    \/ sock[s].type = "INVALID"
    \/ aborted = "no" /\ sock[s].type = "RESERVE" /\ ~ Opening(i)

\* CLOSE was raised for a socket exactly when its read side is closed.
TellSock(s) == s \notin torn /\ sock[s].type \in Live /\ sock[s].id \notin stale =>
    ("CLOSE" \in said[sock[s].id] <=> sock[s].type = "HALFCLOSE_READ")

\* force_close will raise it unless it was raised.
TellClose(s) == s \notin torn /\ fc.at # "no" /\ fc.s = s =>
    /\ fc.at = "clear" => sock[s].type \notin Live
    /\ fc.id \notin stale /\ fc.say = "CLOSE" => "CLOSE" \notin said[fc.id]
    /\ fc.id \notin stale /\ fc.say = "-" => fc.at = "lock" /\ "CLOSE" \in said[fc.id]

\* Nothing was told too late, and the owner of a lost socket knows.
TellIds(s) == s \notin torn =>
    \A i \in Id : HASH_ID(i) = s /\ i \notin stale =>
      /\ "LATE" \notin said[i]
      /\ said[i] # {} /\ fc.id # i /\ Lost(s, i) => "CLOSE" \in said[i] \/ "ERR" \in said[i]

TellAt(s) == TellSock(s) /\ TellClose(s) /\ TellIds(s)

LEMMA TellSockIs ==
    ASSUME NEW s,
           s \notin torn' /\ sock'[s].type \in Live /\ sock'[s].id \notin stale' =>
             ("CLOSE" \in said'[sock'[s].id] <=> sock'[s].type = "HALFCLOSE_READ")
    PROVE  TellSock(s)'
BY DEF TellSock

LEMMA TellCloseIs ==
    ASSUME NEW s,
           s \notin torn' /\ fc'.at # "no" /\ fc'.s = s =>
             /\ fc'.at = "clear" => sock'[s].type \notin Live
             /\ fc'.id \notin stale' /\ fc'.say = "CLOSE" => "CLOSE" \notin said'[fc'.id]
             /\ fc'.id \notin stale' /\ fc'.say = "-" => fc'.at = "lock" /\ "CLOSE" \in said'[fc'.id]
    PROVE  TellClose(s)'
BY DEF TellClose

\* Only id j is concerned.
LEMMA TellIdsIs ==
    ASSUME NEW s, TellIds(s), Grow, NEW j \in Id,
           s \notin torn' =>
             \A i \in Id : i # j /\ HASH_ID(i) = s =>
               /\ said'[i] = said[i] /\ (fc'.id # i => fc.id # i)
               /\ Lost(s, i)' => Lost(s, i),
           s \notin torn' /\ j \notin stale' =>
             /\ "LATE" \notin said'[j]
             /\ said'[j] # {} /\ fc'.id # j /\ Lost(s, j)' => "CLOSE" \in said'[j] \/ "ERR" \in said'[j]
    PROVE  TellIds(s)'
<1>1. (s \notin torn' => s \notin torn) /\ \A i \in Id : i \notin stale' => i \notin stale
  BY DEF Grow
<1>2. ASSUME s \notin torn', NEW i \in Id, HASH_ID(i) = s, i \notin stale'
      PROVE  /\ "LATE" \notin said'[i]
             /\ said'[i] # {} /\ fc'.id # i /\ Lost(s, i)' => "CLOSE" \in said'[i] \/ "ERR" \in said'[i]
  <2>1. CASE i = j
    BY <1>2, <2>1
  <2>2. CASE i # j
    <3>1. /\ said'[i] = said[i] /\ (fc'.id # i => fc.id # i)
          /\ Lost(s, i)' => Lost(s, i)
      BY <1>2, <2>2
    <3>2. /\ "LATE" \notin said[i]
          /\ said[i] # {} /\ fc.id # i /\ Lost(s, i) => "CLOSE" \in said[i] \/ "ERR" \in said[i]
      BY <1>1, <1>2 DEF TellIds
    <3>. QED BY <3>1, <3>2
  <2>. QED BY <2>1, <2>2
<1>. QED BY <1>2 DEF TellIds

LEMMA LostIs ==
    ASSUME NEW s, NEW i
    PROVE  Lost(s, i)' <=> \/ sock'[s].id # i
                           \/ sock'[s].type = "INVALID"
                           \/ aborted' = "no" /\ sock'[s].type = "RESERVE" /\ ~ Opening(i)'
BY DEF Lost

\* What TellAt says of a slot stays.
TellSame(s) == s \notin torn' =>
    /\ sock'[s].id = sock[s].id /\ sock'[s].type = sock[s].type
    /\ \/ fc' = fc
       \/ (fc.at = "no" \/ fc.s # s) /\ (fc'.at = "no" \/ fc'.s # s)
    /\ \A i \in Id : HASH_ID(i) = s =>
         /\ fc.id = i => fc'.id = i
         /\ Opening(i) => Opening(i)' \/ aborted' # "no"
         /\ i \notin stale' =>
              /\ "CLOSE" \in said'[i] <=> "CLOSE" \in said[i]
              /\ "LATE" \in said'[i] => "LATE" \in said[i]
              /\ said[i] = {} => said'[i] = {} \/ "ERR" \in said'[i]

LEMMA TellKeep ==
    ASSUME Types, IdInv, NEW s \in Slot, TellAt(s), Grow, aborted = "no", TellSame(s)
    PROVE  TellAt(s)'
<1>1. /\ s \notin torn' => s \notin torn
      /\ \A i : i \notin stale' => i \notin stale
      /\ \A i \in Id : "ERR" \in said[i] => "ERR" \in said'[i]
  BY DEF Grow
<1>2. ASSUME s \notin torn' PROVE TellSock(s)'
  <2>1. sock'[s].id = sock[s].id /\ sock'[s].type = sock[s].type
    BY <1>2 DEF TellSame
  <2>2. sock[s].type \in Live => sock[s].id \in Id /\ HASH_ID(sock[s].id) = s
    BY DEF IdInv
  <2>3. sock[s].type \in Live /\ sock[s].id \notin stale' =>
          ("CLOSE" \in said'[sock[s].id] <=> "CLOSE" \in said[sock[s].id])
    BY <1>2, <2>2 DEF TellSame
  <2>4. sock[s].type \in Live /\ sock[s].id \notin stale =>
          ("CLOSE" \in said[sock[s].id] <=> sock[s].type = "HALFCLOSE_READ")
    BY <1>1, <1>2 DEF TellAt, TellSock
  <2>. QED BY <1>1, <2>1, <2>3, <2>4, TellSockIs
<1>3. ASSUME s \notin torn' PROVE TellClose(s)'
  <2>1. ASSUME fc'.at # "no", fc'.s = s
        PROVE  /\ fc'.at = "clear" => sock'[s].type \notin Live
               /\ fc'.id \notin stale' /\ fc'.say = "CLOSE" => "CLOSE" \notin said'[fc'.id]
               /\ fc'.id \notin stale' /\ fc'.say = "-" => fc'.at = "lock" /\ "CLOSE" \in said'[fc'.id]
    <3>1. fc' = fc /\ sock'[s].type = sock[s].type
      BY <1>3, <2>1 DEF TellSame
    <3>2. fc.id \in Id /\ HASH_ID(fc.id) = s
      BY <2>1, <3>1 DEF IdInv
    <3>3. fc.id \notin stale' => ("CLOSE" \in said'[fc.id] <=> "CLOSE" \in said[fc.id])
      BY <1>3, <3>2 DEF TellSame
    <3>4. /\ fc.at = "clear" => sock[s].type \notin Live
          /\ fc.id \notin stale /\ fc.say = "CLOSE" => "CLOSE" \notin said[fc.id]
          /\ fc.id \notin stale /\ fc.say = "-" => fc.at = "lock" /\ "CLOSE" \in said[fc.id]
      BY <1>1, <1>3, <2>1, <3>1 DEF TellAt, TellClose
    <3>. QED BY <1>1, <3>1, <3>3, <3>4
  <2>. QED BY <2>1, TellCloseIs
<1>4. ASSUME s \notin torn' PROVE TellIds(s)'
  <2>1. ASSUME NEW i \in Id, HASH_ID(i) = s, i \notin stale'
        PROVE  /\ "LATE" \notin said'[i]
               /\ said'[i] # {} /\ fc'.id # i /\ Lost(s, i)' => "CLOSE" \in said'[i] \/ "ERR" \in said'[i]
    <3>1. /\ sock'[s].id = sock[s].id /\ sock'[s].type = sock[s].type
          /\ fc.id = i => fc'.id = i
          /\ Opening(i) => Opening(i)' \/ aborted' # "no"
          /\ "CLOSE" \in said'[i] <=> "CLOSE" \in said[i]
          /\ "LATE" \in said'[i] => "LATE" \in said[i]
          /\ said[i] = {} => said'[i] = {} \/ "ERR" \in said'[i]
      BY <1>4, <2>1 DEF TellSame
    <3>2. Lost(s, i)' => Lost(s, i)
      BY <3>1, LostIs DEF Lost
    <3>3. /\ "LATE" \notin said[i]
          /\ said[i] # {} /\ fc.id # i /\ Lost(s, i) => "CLOSE" \in said[i] \/ "ERR" \in said[i]
      BY <1>1, <1>4, <2>1 DEF TellAt, TellIds
    <3>. QED BY <1>1, <3>1, <3>2, <3>3
  <2>. QED BY <2>1 DEF TellIds
<1>5. s \in torn' => TellSock(s)' /\ TellClose(s)' /\ TellIds(s)'
  BY DEF TellSock, TellClose, TellIds
<1>6. TellSock(s)' /\ TellClose(s)' /\ TellIds(s)'
  BY <1>2, <1>3, <1>4, <1>5
<1>. QED BY <1>6 DEF TellAt

LEMMA TellFrame ==
    ASSUME Types, IdInv, Types', IdInv', NEW t \in Slot, Apart(t), Grow, aborted = "no", TellAt(t)
    PROVE  TellAt(t)'
<1>1. /\ sock'[t] = sock[t]
      /\ \A i \in Id : HASH_ID(i) = t => said'[i] = said[i]
      /\ \/ fc' = fc
         \/ /\ fc.at = "no" \/ fc.s # t
            /\ fc'.at = "no" \/ fc'.s # t
  BY DEF Apart
<1>2. PICK d \in {0, 1} :
         \A p \in DOMAIN pipe : HASH_ID(pipe[p].id) = t =>
           p - d \in DOMAIN pipe' /\ pipe'[p - d] = pipe[p] /\ p \in Nat
  BY ApartPipe
<1>3. ASSUME NEW i \in Id, HASH_ID(i) = t PROVE (fc.id = i => fc'.id = i) /\ (Opening(i) => Opening(i)')
  <2>1. fc.id = i => fc' = fc
    BY <1>3, ApartFc
  <2>2. Opening(i) => Opening(i)'
    BY <1>2, <1>3 DEF Opening
  <2>. QED BY <2>1, <2>2
<1>4. TellSame(t)
  BY <1>1, <1>3 DEF TellSame
<1>. QED BY <1>4, TellKeep

\* OPEN and CLOSE before CLOSE, DATA between OPEN and CLOSE.
LEMMA SayInTime ==
    ASSUME NEW id \in Id, NEW kind \in {"OPEN", "CLOSE"}, said \in [Id -> SUBSET Kind], Say(id, kind),
           "CLOSE" \notin said[id]
    PROVE  \A i \in Id : said'[i] = said[i] \cup IF i = id THEN {kind} ELSE {}
BY DEF Say

LEMMA SayData ==
    ASSUME NEW id \in Id, said \in [Id -> SUBSET Kind], Say(id, "DATA"),
           "CLOSE" \notin said[id], "OPEN" \in said[id]
    PROVE  said'[id] = said[id]
BY DEF Say

LEMMA OpeningCtrl ==
    ASSUME Types, IdInv, NEW c, CtrlFrame(c), NEW i, c.c # "O", Opening(i)
    PROVE  Opening(i)'
<1>1. /\ c = pipe[1]
      /\ \A p \in DOMAIN pipe : p = 1 \/ (p - 1 \in DOMAIN pipe' /\ pipe'[p - 1] = pipe[p])
  BY CtrlFacts
<1>. QED BY <1>1 DEF Opening

LEMMA OpeningMore ==
    ASSUME Types, NEW i, Opening(i), pipe' = pipe \/ \E c \in Cmd : pipe' = Append(pipe, c)
    PROVE  Opening(i)'
<1>1. \A p \in DOMAIN pipe : p \in DOMAIN pipe' /\ pipe'[p] = pipe[p]
  BY PlainAppend
<1>. QED BY <1>1 DEF Opening

LEMMA TellWorker ==
    ASSUME Types, IdInv, NEW s \in Slot, Pending(s), TellAt(s), Grow, aborted = "no",
           NEW w \in Worker, WorkerAt(s, w)
    PROVE  TellAt(s)'
<1> DEFINE G == TellAt(s)'
<1>t. /\ s \notin torn' => s \notin torn
      /\ \A i : i \notin stale' => i \notin stale
  BY DEF Grow
<1>a. ASSUME sock'[s].type = sock[s].type, sock'[s].id = sock[s].id, said' = said, fc' = fc,
             pipe' = pipe \/ \E c \in Cmd : pipe' = Append(pipe, c)
      PROVE  G
  <2>1. \A i : Opening(i) => Opening(i)'
    BY <1>a, OpeningMore
  <2>2. TellSame(s)
    BY <1>a, <2>1 DEF TellSame
  <2>. QED BY <2>2, TellKeep
<1>s. ASSUME sock' = sock, said' = said, UNCHANGED thread,
             pipe' = pipe \/ \E c \in Cmd : pipe' = Append(pipe, c)
      PROVE  G
  BY <1>a, <1>s DEF thread
<1>g. ASSUME TellSock(s)', TellClose(s)', TellIds(s)' PROVE G
  BY <1>g DEF TellAt
<1>f. s \notin torn => TellSock(s) /\ TellClose(s) /\ TellIds(s)
  BY DEF TellAt
<1> HIDE DEF G
<1>1. ASSUME ConnectNew(w), s = HASH_ID(NextId) PROVE G
  <2>1. /\ NextId \in Id /\ NextId > alloc_id /\ sock[s].type = "INVALID" /\ sock'[s].type = "RESERVE"
        /\ SameName(s)
        /\ UNCHANGED <<lock, pipe, said, sent, cmds, thread, outside>>
    BY <1>1, ConnectNewView
  <2>2. fc' = fc /\ said' = said /\ stale' = stale /\ torn' = torn
    BY <2>1 DEF thread
  <2>3. said[NextId] = {}
    BY <2>1 DEF IdInv
  <2>4. TellSock(s)'
    BY <2>1, TellSockIs DEF Live
  <2>5. TellClose(s)'
    BY <1>f, <2>1, <2>2, TellCloseIs DEF TellClose, Live
  <2>6. \A i : Lost(s, i)
    BY <2>1 DEF Lost
  <2>7. TellIds(s)
    BY DEF TellAt
  <2>8. TellIds(s)'
    BY <2>1, <2>2, <2>3, <2>6, <2>7, TellIdsIs
  <2>. QED BY <1>g, <2>4, <2>5, <2>8
<1>2. ASSUME NEW cmd \in {"K", "Q", "R", "S"}, NEW id \in Id, Command(w, cmd, id) PROVE G
  <2>0. PICK c : c = [c |-> cmd, id |-> id, m |-> 0]
    OBVIOUS
  <2>1. /\ said[id] \cap {"OPEN", "ACCEPT"} # {}
        /\ pipe' = Append(pipe, c) /\ c \in Cmd
        /\ \A i \in Id : said'[i] = said[i] \cup IF i = id /\ cmd = "Q" THEN {"SHUTDOWN"} ELSE {}
        /\ UNCHANGED <<alloc_id, sock, lock, call, sent, thread, outside>>
    BY <1>2, <2>0, CommandView
  <2>2. sock' = sock /\ fc' = fc
    BY <2>1 DEF thread
  <2>3. \A i : Opening(i) => Opening(i)'
    BY <2>1, OpeningMore
  <2>4. \A i \in Id : /\ "CLOSE" \in said'[i] <=> "CLOSE" \in said[i]
                      /\ "LATE" \in said'[i] => "LATE" \in said[i]
                      /\ said[i] = {} => said'[i] = {}
    BY <2>1
  <2>5. TellSame(s)
    BY <2>2, <2>3, <2>4 DEF TellSame
  <2>. QED BY <2>5, TellKeep DEF G
<1>3. ASSUME NEW id \in Id, NEW low \in BOOLEAN, Send(w, id, low) PROVE G
  BY <1>s, <1>3 DEF Send
<1>4. ASSUME Request(w), s = HASH_ID(call[w].id) PROVE G
  <2>0. PICK c, j : j = call[w].id /\ c = [c |-> "O", id |-> j, m |-> 0]
    OBVIOUS
  <2>1. /\ j \in Id /\ call[w].at = "O" /\ HASH_ID(j) = s
        /\ sock'[s].id = j /\ SameType(s)
        /\ pipe' = Append(pipe, c) /\ c \in Cmd
        /\ \A i \in Id : said'[i] = said[i] \cup IF i = j THEN {"CONNECT"} ELSE {}
        /\ UNCHANGED <<alloc_id, lock, sent, cmds, thread, outside>>
    BY <1>4, <2>0, RequestView
  <2>2. fc' = fc /\ stale' = stale /\ torn' = torn
    BY <2>1 DEF thread
  <2>3. s \notin torn =>
          /\ sock[s].type = "RESERVE" /\ said[j] = {} /\ fc.id # j
          /\ \A p \in DOMAIN pipe : pipe[p].c = "O" => HASH_ID(pipe[p].id) # s
    BY <1>4, <2>0, <2>1 DEF Pending
  <2>4. TellSock(s)'
    BY <1>t, <2>1, <2>3, TellSockIs DEF Live, SameType
  <2>5. TellClose(s)'
    <3>1. ASSUME s \notin torn', fc.at # "no", fc.s = s PROVE said'[fc.id] = said[fc.id]
      <4>1. fc.id \in Id
        BY <3>1 DEF IdInv
      <4>2. fc.id # j
        BY <1>t, <2>3, <3>1
      <4>3. said'[fc.id] = said[fc.id] \cup IF fc.id = j THEN {"CONNECT"} ELSE {}
        BY <2>1, <4>1
      <4>. QED BY <4>2, <4>3
    <3>2. s \notin torn' => sock'[s].type \notin Live
      BY <1>t, <2>1, <2>3 DEF Live, SameType
    <3>3. s \notin torn /\ fc.at # "no" /\ fc.s = s =>
            /\ fc.id \notin stale /\ fc.say = "CLOSE" => "CLOSE" \notin said[fc.id]
            /\ fc.id \notin stale /\ fc.say = "-" => fc.at = "lock" /\ "CLOSE" \in said[fc.id]
      BY <1>f DEF TellClose
    <3>4. /\ fc.id \notin stale' => fc.id \notin stale
          /\ s \notin torn' => s \notin torn
      BY <1>t
    <3>5. ASSUME s \notin torn', fc'.at # "no", fc'.s = s
          PROVE  /\ fc'.at = "clear" => sock'[s].type \notin Live
                 /\ fc'.id \notin stale' /\ fc'.say = "CLOSE" => "CLOSE" \notin said'[fc'.id]
                 /\ fc'.id \notin stale' /\ fc'.say = "-" => fc'.at = "lock" /\ "CLOSE" \in said'[fc'.id]
      BY <2>2, <3>1, <3>2, <3>3, <3>4, <3>5
    <3>. QED BY <3>5, TellCloseIs
  <2>6. TellIds(s)'
    <3>1. ASSUME s \notin torn', NEW i \in Id, i # j, HASH_ID(i) = s PROVE Lost(s, i)
      BY <1>t, <2>3, <3>1 DEF Lost, Opening
    <3>2. Opening(j)'
      <4>1. Len(pipe) + 1 \in DOMAIN pipe' /\ pipe'[Len(pipe) + 1] = c
        BY <2>1, PlainAppend
      <4>. QED BY <2>0, <4>1 DEF Opening
    <3>3. s \notin torn' => ~ Lost(s, j)'
      BY <1>t, <2>1, <2>3, <3>2, LostIs DEF SameType
    <3>4. s \notin torn' => "LATE" \notin said'[j]
      BY <1>t, <2>1, <2>3
    <3>5. s \notin torn' => \A i \in Id : i # j /\ HASH_ID(i) = s =>
               /\ said'[i] = said[i] /\ (fc'.id # i => fc.id # i)
               /\ Lost(s, i)' => Lost(s, i)
      BY <2>1, <2>2, <3>1
    <3>6. TellIds(s)
      BY DEF TellAt
    <3>. QED BY <2>1, <3>3, <3>4, <3>5, <3>6, TellIdsIs
  <2>. QED BY <1>g, <2>4, <2>5, <2>6
<1>5. ASSUME Locked(w) \/ NotLocked(w) \/ NotCounted(w) PROVE G
  BY <1>s, <1>5 DEF Locked, NotLocked, Lock, NotCounted, inc_sending_ref
<1>6. ASSUME Counted(w), s = HASH_ID(call[w].id) PROVE G
  <2>1. SameName(s) /\ SameType(s) /\ UNCHANGED <<alloc_id, lock, pipe, said, sent, cmds, thread, outside>>
    BY <1>6, CountedView
  <2>. QED BY <1>a, <2>1 DEF SameName, SameType, thread
<1>7. ASSUME NEW k \in 0 .. MsgSize, DirectWrite(w, k), s = HASH_ID(call[w].id) PROVE G
  <2>1. /\ SameName(s) /\ SameType(s)
        /\ UNCHANGED <<alloc_id, pipe, net, said, sent, cmds, peers, thread>>
    BY <1>7, DirectWriteView
  <2>. QED BY <1>a, <2>1 DEF SameName, SameType, thread
<1>8. ASSUME Push(w) PROVE G
  <2>0. PICK c : c = [c |-> call[w].at, id |-> call[w].id, m |-> call[w].m]
    OBVIOUS
  <2>1. /\ pipe' = Append(pipe, c) /\ c \in Cmd
        /\ UNCHANGED <<alloc_id, sock, lock, said, sent, cmds, thread, outside>>
    BY <1>8, <2>0, PushView
  <2>. QED BY <1>s, <2>1
<1>9. G
  BY <1>1, <1>2, <1>3, <1>4, <1>5, <1>6, <1>7, <1>8 DEF WorkerAt
<1>. QED BY <1>9 DEF G

LEMMA TellCtrl ==
    ASSUME Types, IdInv, NEW c, CtrlCase(c), NEW s \in Slot, s = HASH_ID(c.id), Pending(s),
           Coherent(s), TellAt(s), Grow, aborted = "no"
    PROVE  TellAt(s)'
<1> DEFINE G == TellAt(s)'
<1>c. CtrlFrame(c) /\ c.id \in Id /\ fc = NoClose /\ fc.at = "no"
  BY CtrlUp, CtrlFacts
<1>z. \A i \in Id : fc.id # i
  BY <1>c, IdType DEF NoClose
<1>t. /\ s \notin torn' => s \notin torn
      /\ \A i : i \notin stale' => i \notin stale
  BY DEF Grow
<1>v. said \in [Id -> SUBSET Kind]
  BY DEF Types
<1>a. ASSUME c.c # "O" \/ aborted' # "no", sock'[s].type = sock[s].type, sock'[s].id = sock[s].id,
             fc' = fc,
             \A i \in Id : /\ "CLOSE" \in said'[i] <=> "CLOSE" \in said[i]
                           /\ "LATE" \in said'[i] => "LATE" \in said[i]
                           /\ said[i] = {} => said'[i] = {} \/ "ERR" \in said'[i]
      PROVE  G
  <2>1. \A i : Opening(i) => Opening(i)' \/ aborted' # "no"
    BY <1>a, <1>c, OpeningCtrl
  <2>2. TellSame(s)
    BY <1>a, <2>1 DEF TellSame
  <2>. QED BY <2>2, TellKeep
<1>g. ASSUME TellSock(s)', TellClose(s)', TellIds(s)' PROVE G
  BY <1>g DEF TellAt
<1>f. TellSock(s) /\ TellClose(s) /\ TellIds(s)
  BY DEF TellAt
<1>n. ASSUME fc' = fc PROVE TellClose(s)'
  BY <1>c, <1>n, TellCloseIs
<1>l. s \notin torn' /\ c.id \notin stale' => "LATE" \notin said[c.id]
  BY <1>c, <1>f, <1>t DEF TellIds
\* The socket of c.id has the slot.
<1>i. ASSUME sock[s].id = c.id,
             \A i \in Id : i # c.id => said'[i] = said[i],
             s \notin torn' /\ c.id \notin stale' =>
               /\ "LATE" \notin said'[c.id]
               /\ said'[c.id] # {} /\ fc'.id # c.id /\ Lost(s, c.id)' =>
                    "CLOSE" \in said'[c.id] \/ "ERR" \in said'[c.id]
      PROVE  TellIds(s)'
  <2>1. \A i \in Id : i # c.id => Lost(s, i)
    BY <1>i DEF Lost
  <2>2. s \notin torn' => \A i \in Id : i # c.id /\ HASH_ID(i) = s =>
               /\ said'[i] = said[i] /\ (fc'.id # i => fc.id # i)
               /\ Lost(s, i)' => Lost(s, i)
    BY <1>i, <1>z, <2>1
  <2>. QED BY <1>c, <1>f, <1>i, <2>2, TellIdsIs
<1>j. ASSUME s \in torn' PROVE G
  BY <1>j DEF TellAt, TellSock, TellClose, TellIds
<1> HIDE DEF G
<1>1. ASSUME OpenFail(c) \/ ResumeFail(c) PROVE G
  <2>1. /\ c.c \in {"O", "R"} /\ sock'[s].type = "INVALID"
        /\ fc' = [at |-> "clear", s |-> s, id |-> c.id, say |-> "ERR", ctrl |-> TRUE]
        /\ said' = said /\ torn' = torn
    BY <1>1, FailView
  <2>2. CASE s \in torn
    BY <1>j, <2>1, <2>2
  <2>3. CASE s \notin torn
    <3>1. sock[s].id = c.id
      <4>1. CASE OpenFail(c)
        <5>1. c.c = "O"
          BY <4>1 DEF OpenFail
        <5>. QED BY <1>c, <2>3, <5>1, PendingHead
      <4>2. CASE ResumeFail(c)
        BY <4>2 DEF ResumeFail
      <4>. QED BY <1>1, <4>1, <4>2
    <3>2. fc'.id = c.id /\ fc'.say = "ERR"
      BY <2>1
    <3>3. TellSock(s)'
      BY <2>1, TellSockIs DEF Live
    <3>4. TellClose(s)'
      BY <2>1, <3>2, TellCloseIs DEF Live
    <3>5. TellIds(s)'
      BY <1>i, <1>l, <2>1, <3>1, <3>2
    <3>. QED BY <1>g, <3>3, <3>4, <3>5
  <2>. QED BY <2>2, <2>3
<1>2. ASSUME NEW type, NEW writing, NEW kind, NEW state, OpenNew(c, type, writing, kind, state) PROVE G
  <2>1. /\ c.c = "O" /\ type \in {"CONNECTED", "CONNECTING"}
        /\ sock'[s].id = c.id /\ sock'[s].type = type
        /\ \A i \in Id : i # c.id => said'[i] = said[i]
        /\ Say(c.id, kind) /\ kind = (IF type = "CONNECTED" THEN "OPEN" ELSE "-")
        /\ torn' = torn /\ fc' = fc
    BY <1>2, OpenNewView
  <2>2. CASE s \in torn
    BY <1>j, <2>1, <2>2
  <2>3. CASE s \notin torn
    <3>1. sock[s].id = c.id /\ "CLOSE" \notin said[c.id]
      BY <1>c, <2>1, <2>3, PendingHead
    <3>2. said'[c.id] = said[c.id] \/ said'[c.id] = said[c.id] \cup {"OPEN"}
      <4>1. CASE type = "CONNECTED"
        BY <1>c, <1>v, <2>1, <3>1, <4>1, SayInTime
      <4>2. CASE type = "CONNECTING"
        BY <2>1, <4>2, SayNothing
      <4>. QED BY <2>1, <4>1, <4>2
    <3>3. TellSock(s)'
      BY <2>1, <3>1, <3>2, TellSockIs
    <3>4. ~ Lost(s, c.id)'
      BY <2>1, LostIs
    <3>5. TellIds(s)'
      BY <1>i, <1>l, <2>1, <3>1, <3>2, <3>4
    <3>. QED BY <1>g, <1>n, <2>1, <3>3, <3>5
  <2>. QED BY <2>2, <2>3
<1>3. ASSUME CtrlStop(c) PROVE G
  <2>1. sock' = sock /\ said' = said /\ fc' = fc /\ aborted' # "no"
    BY <1>3 DEF CtrlStop
  <2>. QED BY <1>a, <2>1
<1>4. ASSUME NEW kind, CtrlTell(c, kind) PROVE G
  <2>1. c.c # "O" /\ kind \in {"-", "ERR"} /\ sock' = sock /\ Say(c.id, kind) /\ fc' = fc
    BY <1>4 DEF CtrlTell
  <2>2. CASE kind = "-"
    BY <1>a, <2>1, <2>2, SayNothing
  <2>3. CASE kind = "ERR"
    <3>1. \A i \in Id : said'[i] = said[i] \cup IF i = c.id THEN {"ERR"} ELSE {}
      BY <1>c, <1>v, <2>1, <2>3, SayPlain
    <3>2. \A i \in Id : /\ "CLOSE" \in said'[i] <=> "CLOSE" \in said[i]
                        /\ "LATE" \in said'[i] => "LATE" \in said[i]
                        /\ said[i] = {} => said'[i] = {} \/ "ERR" \in said'[i]
      BY <3>1
    <3>. QED BY <1>a, <2>1, <3>2
  <2>. QED BY <2>1, <2>2, <2>3
<1>5. ASSUME CloseNow(c) PROVE G
  <2>1. /\ sock[s].id = c.id /\ sock[s].type \in Live /\ SameName(s) /\ SameType(s)
        /\ fc' = [at |-> "lock", s |-> s, id |-> c.id, say |-> CloseKind(sock[s]), ctrl |-> TRUE]
        /\ said' = said
    BY <1>5, CloseNowView
  <2>2. fc'.at = "lock" /\ fc'.id = c.id /\ fc'.say = CloseKind(sock[s])
    BY <2>1
  <2>3. s \notin torn' /\ c.id \notin stale' =>
          ("CLOSE" \in said[c.id] <=> sock[s].type = "HALFCLOSE_READ")
    BY <1>f, <1>t, <2>1 DEF TellSock
  <2>4. TellSock(s)'
    BY <2>1, <2>3, TellSockIs DEF SameName, SameType
  <2>5. TellClose(s)'
    BY <2>1, <2>2, <2>3, TellCloseIs DEF CloseKind
  <2>6. TellIds(s)'
    BY <1>i, <1>l, <2>1, <2>2
  <2>. QED BY <1>g, <2>4, <2>5, <2>6
<1>6. ASSUME CloseLater(c) PROVE G
  <2>1. /\ sock[s].id = c.id /\ sock'[s].id = c.id /\ sock'[s].type = "HALFCLOSE_READ"
        /\ sock[s].type \in Live \cup {"RESERVE"}
        /\ \A i \in Id : i # c.id => said'[i] = said[i]
        /\ Say(c.id, CloseKind(sock[s]))
        /\ torn' = torn \cup (IF sock[s].type = "RESERVE" THEN {s} ELSE {})
        /\ fc' = fc
    BY <1>6, CloseLaterView DEF SameName
  <2>2. CASE s \in torn'
    BY <1>j, <2>2
  <2>3. CASE s \notin torn'
    <3>1. sock[s].type \in Live
      BY <2>1, <2>3
    <3>2. c.id \notin stale' => ("CLOSE" \in said[c.id] <=> sock[s].type = "HALFCLOSE_READ")
      BY <1>f, <1>t, <2>1, <2>3, <3>1 DEF TellSock
    <3>3. ASSUME c.id \notin stale' PROVE said'[c.id] = said[c.id] \cup {"CLOSE"}
      <4>1. CASE sock[s].type = "HALFCLOSE_READ"
        <5>1. Say(c.id, "-")
          BY <2>1, <4>1 DEF CloseKind
        <5>. QED BY <3>2, <3>3, <4>1, <5>1, SayNothing
      <4>2. CASE sock[s].type # "HALFCLOSE_READ"
        <5>1. Say(c.id, "CLOSE")
          BY <2>1, <4>2 DEF CloseKind
        <5>. QED BY <1>c, <1>v, <3>2, <3>3, <4>2, <5>1, SayInTime
      <4>. QED BY <4>1, <4>2
    <3>4. TellSock(s)'
      BY <2>1, <3>3, TellSockIs
    <3>5. ~ Lost(s, c.id)'
      BY <2>1, LostIs
    <3>6. TellIds(s)'
      BY <1>i, <1>l, <2>1, <3>3, <3>5
    <3>. QED BY <1>g, <1>n, <2>1, <3>4, <3>6
  <2>. QED BY <2>2, <2>3
<1>7. ASSUME Resumed(c) PROVE G
  <2>1. /\ c.c = "R" /\ sock[s].id = c.id /\ sock'[s].id = c.id
        /\ sock[s].type \in (Live \ {"HALFCLOSE_READ"}) \cup {"RESERVE"}
        /\ sock'[s].type = (IF sock[s].type = "PACCEPT" THEN "CONNECTED" ELSE sock[s].type)
        /\ \A i \in Id : i # c.id => said'[i] = said[i]
        /\ Say(c.id, IF sock[s].type \in {"PACCEPT", "CONNECTED"} THEN "OPEN" ELSE "-")
        /\ fc' = fc
    BY <1>7, ResumedView DEF SameName
  <2>2. CASE sock[s].type \notin {"PACCEPT", "CONNECTED"}
    <3>1. Say(c.id, "-") /\ sock'[s].type = sock[s].type
      BY <2>1, <2>2
    <3>. QED BY <1>a, <2>1, <3>1, SayNothing
  <2>3. CASE sock[s].type \in {"PACCEPT", "CONNECTED"}
    <3>1. Say(c.id, "OPEN") /\ sock'[s].type = "CONNECTED"
      BY <2>1, <2>3
    <3>2. s \notin torn' /\ c.id \notin stale' => "CLOSE" \notin said[c.id]
      BY <1>f, <1>t, <2>1, <2>3 DEF TellSock, Live
    <3>3. s \notin torn' /\ c.id \notin stale' => said'[c.id] = said[c.id] \cup {"OPEN"}
      BY <1>c, <1>v, <3>1, <3>2, SayInTime
    <3>4. TellSock(s)'
      BY <2>1, <3>1, <3>2, <3>3, TellSockIs
    <3>5. ~ Lost(s, c.id)'
      BY <2>1, <3>1, LostIs
    <3>6. TellIds(s)'
      BY <1>i, <1>l, <2>1, <3>3, <3>5
    <3>. QED BY <1>g, <1>n, <2>1, <3>4, <3>6
  <2>. QED BY <2>2, <2>3
<1>8. ASSUME Paused(c) \/ Armed(c) PROVE G
  <2>1. c.c \in {"S", "W"} /\ SameName(s) /\ SameType(s) /\ said' = said /\ fc' = fc
    BY <1>8, PokedView
  <2>. QED BY <1>a, <2>1 DEF SameName, SameType
<1>9. ASSUME DataElse(c) \/ DataTcp(c) PROVE G
  <2>1. c.c \in {"D", "P"} /\ SameName(s) /\ SameType(s) /\ said' = said /\ fc' = fc
    BY <1>9, DataView
  <2>. QED BY <1>a, <2>1 DEF SameName, SameType
<1>10. G
  BY <1>1, <1>2, <1>3, <1>4, <1>5, <1>6, <1>7, <1>8, <1>9 DEF CtrlCase
<1>. QED BY <1>10 DEF G

LEMMA TellEvent ==
    ASSUME Types, IdInv, NEW e, EventCase(e), NEW s \in Slot, s = e.s, Coherent(s), EventAt(s),
           TellAt(s), Grow, aborted = "no"
    PROVE  TellAt(s)'
<1> DEFINE G == TellAt(s)'
<1>0. PICK j : j = sock[s].id
  OBVIOUS
<1>c. /\ EventFrame(e) /\ e \in batch /\ j \in Id /\ fc = NoClose /\ fc.at = "no" /\ pipe' = pipe
      /\ e.id # j => j \in stale'
  BY <1>0, EventUp, EventFacts
<1>z. \A i \in Id : fc.id # i
  BY <1>c, IdType DEF NoClose
<1>t. /\ s \notin torn' => s \notin torn
      /\ \A i : i \notin stale' => i \notin stale
  BY DEF Grow
<1>v. said \in [Id -> SUBSET Kind]
  BY DEF Types
<1>o. \A i : Opening(i) => Opening(i)'
  BY <1>c DEF Opening
<1>a. ASSUME sock'[s].type = sock[s].type, sock'[s].id = sock[s].id, fc' = fc,
             s \notin torn' => \A i \in Id : i \notin stale' =>
                /\ "CLOSE" \in said'[i] <=> "CLOSE" \in said[i]
                /\ "LATE" \in said'[i] => "LATE" \in said[i]
                /\ said[i] = {} => said'[i] = {} \/ "ERR" \in said'[i]
      PROVE  G
  <2>2. TellSame(s)
    BY <1>a, <1>o DEF TellSame
  <2>. QED BY <2>2, TellKeep
<1>g. ASSUME TellSock(s)', TellClose(s)', TellIds(s)' PROVE G
  BY <1>g DEF TellAt
<1>f. TellSock(s) /\ TellClose(s) /\ TellIds(s)
  BY DEF TellAt
<1>n. ASSUME fc' = fc PROVE TellClose(s)'
  BY <1>c, <1>n, TellCloseIs
<1>h. HASH_ID(j) = s
  BY <1>0, <1>c, IdType DEF IdInv
<1>l. s \notin torn' /\ j \notin stale' => "LATE" \notin said[j]
  BY <1>c, <1>f, <1>h, <1>t DEF TellIds
<1>k. s \notin torn' /\ j \notin stale' /\ sock[s].type \in Live =>
        ("CLOSE" \in said[j] <=> sock[s].type = "HALFCLOSE_READ")
  BY <1>0, <1>f, <1>t DEF TellSock
<1>i. ASSUME \A i \in Id : i # j => said'[i] = said[i],
             s \notin torn' /\ j \notin stale' =>
               /\ "LATE" \notin said'[j]
               /\ said'[j] # {} /\ fc'.id # j /\ Lost(s, j)' =>
                    "CLOSE" \in said'[j] \/ "ERR" \in said'[j]
      PROVE  TellIds(s)'
  <2>1. \A i \in Id : i # j => Lost(s, i)
    BY <1>0 DEF Lost
  <2>2. s \notin torn' => \A i \in Id : i # j /\ HASH_ID(i) = s =>
               /\ said'[i] = said[i] /\ (fc'.id # i => fc.id # i)
               /\ Lost(s, i)' => Lost(s, i)
    BY <1>i, <1>z, <2>1
  <2>. QED BY <1>c, <1>f, <1>i, <2>2, TellIdsIs
<1>j. ASSUME s \in torn' PROVE G
  BY <1>j DEF TellAt, TellSock, TellClose, TellIds
<1>w. s \notin torn' =>
        /\ sock[s].type \in Live => sock[s].tcp
        /\ sock[s].type \notin Live => net[j] = "none"
        /\ sock[s].type \in {"CONNECTED", "HALFCLOSE_WRITE"} => "OPEN" \in said[j]
        /\ sock[s].closing /\ sock[s].type \in Live => sock[s].type = "HALFCLOSE_READ"
  BY <1>0, <1>c, <1>t, IdType DEF Coherent, Open, Live
<1> HIDE DEF G
<1>1. ASSUME NEW kind, EventTell(e, kind) PROVE G
  <2>1. /\ kind \in {"-", "ERR", "DATA"}
        /\ kind = "DATA" =>
             /\ e.read /\ net[j] \in {"up", "fin"}
             /\ sock[s].type \notin {"CONNECTING", "INVALID", "HALFCLOSE_READ"}
        /\ sock' = sock /\ Say(j, kind) /\ fc' = fc
    BY <1>0, <1>1 DEF EventTell
  <2>2. CASE kind = "-"
    BY <1>a, <2>1, <2>2, SayNothing
  <2>3. CASE kind = "ERR"
    <3>1. \A i \in Id : said'[i] = said[i] \cup IF i = j THEN {"ERR"} ELSE {}
      BY <1>c, <1>v, <2>1, <2>3, SayPlain
    <3>2. \A i \in Id : /\ "CLOSE" \in said'[i] <=> "CLOSE" \in said[i]
                        /\ "LATE" \in said'[i] => "LATE" \in said[i]
                        /\ said[i] = {} => said'[i] = {} \/ "ERR" \in said'[i]
      BY <3>1
    <3>. QED BY <1>a, <2>1, <3>2
  <2>4. CASE kind = "DATA"
    <3>1. \A i \in Id : i # j => said'[i] = said[i]
      BY <1>c, <2>1, <2>4, SaidTo
    <3>2. ASSUME s \notin torn', j \notin stale' PROVE said'[j] = said[j]
      <4>1. sock[s].type \in Live
        BY <1>w, <2>1, <2>4, <3>2
      <4>2. sock[s].type # "PACCEPT"
        BY <1>0, <1>c, <1>t, <2>1, <2>4, <3>2, <4>1 DEF EventAt
      <4>3. "OPEN" \in said[j] /\ "CLOSE" \notin said[j]
        BY <1>k, <1>w, <2>1, <2>4, <3>2, <4>1, <4>2 DEF Live
      <4>. QED BY <1>c, <1>v, <2>1, <2>4, <4>3, SayData
    <3>3. s \notin torn' => \A i \in Id : i \notin stale' => said'[i] = said[i]
      BY <3>1, <3>2
    <3>. QED BY <1>a, <2>1, <3>3
  <2>. QED BY <2>1, <2>2, <2>3, <2>4
<1>11. ASSUME EventStop(e) PROVE G
  <2>1. sock' = sock /\ said' = said /\ fc' = fc
    BY <1>11 DEF EventStop
  <2>. QED BY <1>a, <2>1
<1>2. ASSUME NEW kind, EventForce(e, kind) PROVE G
  <2>1. /\ sock[s].type \in Live /\ SameName(s) /\ SameType(s)
        /\ fc' = [at |-> "lock", s |-> s, id |-> j, say |-> kind, ctrl |-> FALSE]
        /\ said' = said
    BY <1>0, <1>2, EventForceView
  <2>2. fc'.at = "lock" /\ fc'.id = j /\ fc'.say = kind
    BY <2>1
  <2>3. \/ kind = "ERR"
        \/ sock[s].closing /\ kind = "-"
        \/ sock[s].type = "HALFCLOSE_WRITE" /\ kind = "CLOSE"
        \/ kind = CloseKind(sock[s])
        \/ ~ sock[s].tcp
    BY <1>2 DEF EventForce
  <2>4. s \notin torn' /\ j \notin stale' =>
          /\ kind = "CLOSE" => "CLOSE" \notin said[j]
          /\ kind = "-" => "CLOSE" \in said[j]
    BY <1>k, <1>w, <2>1, <2>3 DEF CloseKind
  <2>5. TellSock(s)'
    BY <1>0, <1>k, <2>1, TellSockIs DEF SameName, SameType
  <2>6. TellClose(s)'
    BY <2>1, <2>2, <2>4, TellCloseIs
  <2>7. TellIds(s)'
    BY <1>i, <1>l, <2>1, <2>2
  <2>. QED BY <1>g, <2>5, <2>6, <2>7
<1>3. ASSUME Connected(e) PROVE G
  <2>1. /\ sock[s].type = "CONNECTING" /\ sock'[s].id = j /\ sock'[s].type = "CONNECTED"
        /\ \A i \in Id : i # j => said'[i] = said[i]
        /\ Say(j, "OPEN") /\ fc' = fc
    BY <1>0, <1>3, ConnectedView DEF SameName
  <2>2. s \notin torn' /\ j \notin stale' => "CLOSE" \notin said[j]
    BY <1>k, <2>1 DEF Live
  <2>3. s \notin torn' /\ j \notin stale' => said'[j] = said[j] \cup {"OPEN"}
    BY <1>c, <1>v, <2>1, <2>2, SayInTime
  <2>4. TellSock(s)'
    BY <2>1, <2>2, <2>3, TellSockIs
  <2>5. ~ Lost(s, j)'
    BY <2>1, LostIs
  <2>6. TellIds(s)'
    BY <1>i, <1>l, <2>1, <2>3, <2>5
  <2>. QED BY <1>g, <1>n, <2>1, <2>4, <2>6
<1>4. ASSUME EofRead(e) PROVE G
  <2>1. /\ sock[s].type \in {"CONNECTED", "PACCEPT", "RESERVE"}
        /\ sock'[s].id = j /\ sock'[s].type = "HALFCLOSE_READ"
        /\ torn' = torn \cup (IF sock[s].type = "RESERVE" THEN {s} ELSE {})
        /\ \A i \in Id : i # j => said'[i] = said[i]
        /\ Say(j, "CLOSE") /\ fc' = fc
    BY <1>0, <1>4, EofReadView DEF SameName
  <2>2. s \notin torn' /\ j \notin stale' => "CLOSE" \notin said[j]
    BY <1>k, <2>1 DEF Live
  <2>3. s \notin torn' /\ j \notin stale' => said'[j] = said[j] \cup {"CLOSE"}
    BY <1>c, <1>v, <2>1, <2>2, SayInTime
  <2>4. TellSock(s)'
    BY <2>1, <2>3, TellSockIs
  <2>5. ~ Lost(s, j)'
    BY <2>1, LostIs
  <2>6. TellIds(s)'
    BY <1>i, <1>l, <2>1, <2>3, <2>5
  <2>. QED BY <1>g, <1>n, <2>1, <2>4, <2>6
\* A socket that is closed after its last write.
<1>d. ASSUME sock[s].type \in Live, sock[s].closing \/ sock[s].type = "HALFCLOSE_READ",
             sock'[s].type = "INVALID", said' = said, fc' = fc
      PROVE  G
  <2>1. s \notin torn' /\ j \notin stale' => "CLOSE" \in said[j]
    BY <1>d, <1>k, <1>w
  <2>2. TellSock(s)'
    BY <1>d, TellSockIs DEF Live
  <2>3. TellIds(s)'
    BY <1>d, <1>i, <1>l, <2>1
  <2>. QED BY <1>d, <1>g, <1>n, <2>2, <2>3
<1>5. ASSUME WriteClosed(e) PROVE G
  <2>1. /\ sock[s].type \in Live /\ (sock[s].closing \/ sock[s].type = "HALFCLOSE_READ")
        /\ sock'[s].type = "INVALID" /\ said' = said /\ fc' = fc
    BY <1>5, WriteClosedView
  <2>. QED BY <1>d, <2>1
<1>6. ASSUME WriteStopped(e) \/ WriteError(e) PROVE G
  <2>1. /\ \/ sock[s].type = "HALFCLOSE_WRITE"
           \/ sock[s].type \in {"CONNECTED", "PACCEPT", "RESERVE"}
        /\ sock'[s].id = j /\ sock'[s].type = "HALFCLOSE_WRITE"
        /\ \A i \in Id : i # j => said'[i] = said[i]
        /\ Say(j, IF sock[s].type = "HALFCLOSE_WRITE" THEN "-" ELSE "ERR")
        /\ fc' = fc
        /\ torn' = torn \cup (IF sock[s].type = "RESERVE" THEN {s} ELSE {})
    BY <1>0, <1>6, WriteFailView DEF SameName
  <2>2. CASE sock[s].type = "HALFCLOSE_WRITE"
    BY <1>0, <1>a, <2>1, <2>2, SayNothing
  <2>3. CASE sock[s].type # "HALFCLOSE_WRITE"
    <3>1. said'[j] = said[j] \cup {"ERR"}
      BY <1>c, <1>v, <2>1, <2>3, SayPlain
    <3>2. s \notin torn' => sock[s].type \in Live \ {"HALFCLOSE_READ"}
      BY <2>1, <2>3 DEF Live
    <3>3. TellSock(s)'
      BY <1>k, <2>1, <3>1, <3>2, TellSockIs
    <3>4. TellIds(s)'
      BY <1>i, <1>l, <2>1, <3>1
    <3>. QED BY <1>g, <1>n, <2>1, <3>3, <3>4
  <2>. QED BY <2>2, <2>3
<1>7. ASSUME NEW n, NEW k, WriteMore(e, n, k) PROVE G
  <2>0. PICK z : z = Written(WithDirect(sock[s]), n, k)
    OBVIOUS
  <2>1. WriteSome(e, n, k) /\ sock'[s] = z /\ said' = said /\ fc' = fc
    BY <1>7, <2>0, WriteMoreView
  <2>2. z.id = sock[s].id /\ z.type = sock[s].type
    BY <2>0, <2>1, WriteSomeSlot
  <2>. QED BY <1>a, <2>1, <2>2
<1>8. ASSUME NEW n, NEW k, WriteFinish(e, n, k) PROVE G
  <2>1. /\ sock[s].type \in Live /\ sock[s].closing
        /\ sock'[s].type = "INVALID" /\ said' = said /\ fc' = fc
    BY <1>8, WriteFinishView
  <2>. QED BY <1>d, <2>1
<1>9. ASSUME NEW n, NEW k, WriteDone(e, n, k) PROVE G
  <2>1. SameName(s) /\ SameType(s) /\ said' = said /\ fc' = fc
    BY <1>9, WriteDoneView
  <2>. QED BY <1>a, <2>1 DEF SameName, SameType
<1>10. G
  BY <1>1, <1>11, <1>2, <1>3, <1>4, <1>5, <1>6, <1>7, <1>8, <1>9 DEF EventCase
<1>. QED BY <1>10 DEF G

LEMMA TellOther ==
    ASSUME Types, IdInv, NEW s \in Slot, OtherAt(s), Coherent(s), TellAt(s), Grow, aborted = "no"
    PROVE  TellAt(s)'
<1> DEFINE G == TellAt(s)'
<1>t. /\ s \notin torn' => s \notin torn
      /\ \A i : i \notin stale' => i \notin stale
  BY DEF Grow
<1>v. said \in [Id -> SUBSET Kind]
  BY DEF Types
<1>g. ASSUME TellSock(s)', TellClose(s)', TellIds(s)' PROVE G
  BY <1>g DEF TellAt
<1>f. TellSock(s) /\ TellClose(s) /\ TellIds(s)
  BY DEF TellAt
<1>y. fc.say \in {"-", "CLOSE", "ERR"}
  BY DEF Types, Closing
\* What force_close tells at last.
<1>s. ASSUME s = fc.s, fc.at # "no", fc.id \in Id, HASH_ID(fc.id) = s, Say(fc.id, fc.say), fc' = NoClose,
             s \notin torn', fc.id \notin stale'
      PROVE  "LATE" \notin said'[fc.id] /\ ("CLOSE" \in said'[fc.id] \/ "ERR" \in said'[fc.id])
  <2>1. /\ fc.say = "CLOSE" => "CLOSE" \notin said[fc.id]
        /\ fc.say = "-" => fc.at = "lock" /\ "CLOSE" \in said[fc.id]
        /\ "LATE" \notin said[fc.id]
    BY <1>f, <1>s, <1>t DEF TellClose, TellIds
  <2>2. CASE fc.say = "-"
    BY <1>s, <2>1, <2>2, SayNothing
  <2>3. CASE fc.say = "ERR"
    <3>1. \A i \in Id : said'[i] = said[i] \cup IF i = fc.id THEN {"ERR"} ELSE {}
      BY <1>s, <1>v, <2>3, SayPlain
    <3>. QED BY <1>s, <2>1, <3>1
  <2>4. CASE fc.say = "CLOSE"
    <3>1. \A i \in Id : said'[i] = said[i] \cup IF i = fc.id THEN {"CLOSE"} ELSE {}
      BY <1>s, <1>v, <2>1, <2>4, SayInTime
    <3>. QED BY <1>s, <2>1, <3>1
  <2>. QED BY <1>y, <2>2, <2>3, <2>4
<1> HIDE DEF G
<1>1. ASSUME CloseFd, s = fc.s PROVE G
  <2>1. /\ fc.at = "lock" /\ fc.id \in Id /\ HASH_ID(fc.id) = s
        /\ sock'[s].type = "INVALID"
        /\ \A i \in Id : i # fc.id => said'[i] = said[i]
        /\ \/ /\ fc.ctrl /\ fc.say # "-" /\ said' = said
              /\ fc'.at = "clear" /\ fc'.s = fc.s /\ fc'.id = fc.id /\ fc'.say = fc.say
           \/ fc' = NoClose /\ Say(fc.id, fc.say)
    BY <1>1, CloseFdView
  <2>2. TellSock(s)'
    BY <2>1, TellSockIs DEF Live
  <2>3. TellClose(s)'
    <3>1. CASE fc' = NoClose
      BY <3>1, NoCloseType, TellCloseIs
    <3>2. CASE fc.say # "-" /\ said' = said /\ fc'.at = "clear" /\ fc'.id = fc.id /\ fc'.say = fc.say
      <4>1. s \notin torn' /\ fc.id \notin stale' /\ fc.say = "CLOSE" => "CLOSE" \notin said[fc.id]
        BY <1>1, <1>f, <1>t, <2>1 DEF TellClose
      <4>. QED BY <2>1, <3>2, <4>1, TellCloseIs DEF Live
    <3>. QED BY <2>1, <3>1, <3>2
  <2>4. s \notin torn' => fc.id = sock[s].id
    BY <1>1, <1>t, <2>1 DEF Coherent
  <2>5. s \notin torn' => \A i \in Id : i # fc.id /\ HASH_ID(i) = s =>
               /\ said'[i] = said[i] /\ (fc'.id # i => fc.id # i)
               /\ Lost(s, i)' => Lost(s, i)
    BY <2>1, <2>4 DEF Lost
  <2>7. TellIds(s)'
    <3>1. PICK j : j = fc.id
      OBVIOUS
    <3>2. s \notin torn' => \A i \in Id : i # j /\ HASH_ID(i) = s =>
               /\ said'[i] = said[i] /\ (fc'.id # i => fc.id # i)
               /\ Lost(s, i)' => Lost(s, i)
      BY <2>5, <3>1
    <3>3. s \notin torn' /\ j \notin stale' =>
             /\ "LATE" \notin said'[j]
             /\ said'[j] # {} /\ fc'.id # j /\ Lost(s, j)' => "CLOSE" \in said'[j] \/ "ERR" \in said'[j]
      <4>1. CASE fc' = NoClose /\ Say(fc.id, fc.say)
        BY <1>1, <1>s, <2>1, <3>1, <4>1
      <4>2. CASE said' = said /\ fc'.id = fc.id
        BY <1>f, <1>t, <2>1, <3>1, <4>2 DEF TellIds
      <4>. QED BY <2>1, <4>1, <4>2
    <3>. QED BY <1>f, <2>1, <3>1, <3>2, <3>3, TellIdsIs
  <2>. QED BY <1>g, <2>2, <2>3, <2>7
<1>2. ASSUME clear_closed_event, s = fc.s PROVE G
  <2>1. /\ fc.at = "clear" /\ fc.id \in Id /\ HASH_ID(fc.id) = s
        /\ \A i \in Id : i # fc.id => said'[i] = said[i]
        /\ fc' = NoClose /\ Say(fc.id, fc.say)
        /\ UNCHANGED <<alloc_id, sock, lock, call, pipe, sent, cmds, checkctrl, aborted, stale,
                       torn, net, wire, peers>>
    BY <1>2, ClearView
  <2>2. TellSock(s)'
    BY <1>2, <1>f, <1>t, <2>1, TellSockIs DEF TellClose
  <2>3. TellClose(s)'
    BY <2>1, NoCloseType, TellCloseIs
  <2>4. \A i : Lost(s, i)' => Lost(s, i)
    BY <2>1, LostIs DEF Lost, Opening
  <2>5. PICK j : j = fc.id
    OBVIOUS
  <2>6. s \notin torn' => \A i \in Id : i # j /\ HASH_ID(i) = s =>
               /\ said'[i] = said[i] /\ (fc'.id # i => fc.id # i)
               /\ Lost(s, i)' => Lost(s, i)
    BY <2>1, <2>4, <2>5
  <2>7. s \notin torn' /\ j \notin stale' =>
             /\ "LATE" \notin said'[j]
             /\ said'[j] # {} /\ fc'.id # j /\ Lost(s, j)' => "CLOSE" \in said'[j] \/ "ERR" \in said'[j]
    BY <1>2, <1>s, <2>1, <2>5
  <2>8. TellIds(s)'
    BY <1>f, <2>1, <2>5, <2>6, <2>7, TellIdsIs
  <2>. QED BY <1>g, <2>2, <2>3, <2>8
<1>3. ASSUME AcceptNew, s = HASH_ID(NextId) PROVE G
  <2>0. PICK j : j = NextId
    OBVIOUS
  <2>1. /\ j \in Id /\ j > alloc_id /\ sock[s].type = "INVALID" /\ sock'[s].type = "PACCEPT"
        /\ sock'[s].id = j
        /\ \A i \in Id : said'[i] = said[i] \cup IF i = j THEN {"ACCEPT"} ELSE {}
        /\ fc' = fc
    BY <1>3, <2>0, AcceptNewView
  <2>2. fc = NoClose
    BY <1>3 DEF AcceptNew, AcceptFrame
  <2>3. said[j] = {}
    BY <2>1 DEF IdInv
  <2>4. said'[j] = {"ACCEPT"}
    BY <2>1, <2>3
  <2>5. TellSock(s)'
    BY <2>1, <2>4, TellSockIs
  <2>6. TellClose(s)'
    BY <2>1, <2>2, NoCloseType, TellCloseIs
  <2>7. ~ Lost(s, j)'
    BY <2>1, LostIs
  <2>8. \A i : Lost(s, i)
    BY <2>1 DEF Lost
  <2>9. ASSUME NEW i \in Id, i # j PROVE said'[i] = said[i]
    <3>1. said'[i] = said[i] \cup {}
      BY <2>1, <2>9
    <3>. QED BY <3>1
  <2>10. s \notin torn' => \A i \in Id : i # j /\ HASH_ID(i) = s =>
               /\ said'[i] = said[i] /\ (fc'.id # i => fc.id # i)
               /\ Lost(s, i)' => Lost(s, i)
    BY <2>1, <2>8, <2>9
  <2>11. TellIds(s)'
    BY <1>f, <2>1, <2>4, <2>7, <2>10, TellIdsIs
  <2>. QED BY <1>g, <2>5, <2>6, <2>11
<1>4. ASSUME NEW id \in Id, Network(id) PROVE G
  <2>1. UNCHANGED <<alloc_id, sock, lock, call, pipe, said, sent, cmds, thread, wire>>
    BY <1>4, NetworkView
  <2>2. fc' = fc /\ pipe' = pipe /\ sock' = sock /\ said' = said
    BY <2>1 DEF thread
  <2>3. \A i : Opening(i) => Opening(i)'
    BY <2>2 DEF Opening
  <2>4. TellSame(s)
    BY <2>2, <2>3 DEF TellSame
  <2>. QED BY <2>4, TellKeep DEF G
<1>5. G
  BY <1>1, <1>2, <1>3, <1>4 DEF OtherAt
<1>. QED BY <1>5 DEF G

TellInv == \A s \in Slot : EventAt(s) /\ TellAt(s)

LEMMA TellStill ==
    ASSUME Types, IdInv, NEW s \in Slot, TellAt(s), Grow, aborted = "no",
           UNCHANGED <<sock, pipe, said, fc>>
    PROVE  TellAt(s)'
<1>1. \A i : Opening(i) => Opening(i)'
  BY DEF Opening
<1>2. TellSame(s)
  BY <1>1 DEF TellSame
<1>. QED BY <1>2, TellKeep

LEMMA TellStep == ASSUME Inv, TellInv, Next PROVE TellInv'
<1>0. /\ Types /\ IdInv /\ LockInv /\ \A s \in Slot : SlotInv(s)
  BY DEF Inv
<1>1. Types' /\ IdInv'
  BY InvStep DEF Inv
<1>a. aborted = "no"
  BY DEF Next
<1>2. ASSUME NEW s \in Slot, Grow, EventAt(s)', TellAt(s)', \A t \in Slot : t # s => Apart(t)
      PROVE  TellInv'
  <2>1. ASSUME NEW t \in Slot PROVE EventAt(t)' /\ TellAt(t)'
    <3>1. CASE t = s
      BY <1>2, <3>1
    <3>2. CASE t # s
      BY <1>0, <1>1, <1>2, <1>a, <3>2, EventFrameAt, TellFrame DEF TellInv
    <3>. QED BY <3>1, <3>2
  <2>. QED BY <2>1 DEF TellInv
<1>3. ASSUME NEW s \in Slot PROVE Pending(s) /\ Coherent(s) /\ EventAt(s) /\ TellAt(s)
  BY <1>0 DEF SlotInv, TellInv
<1>4. ASSUME NEW s \in Slot, NEW w \in Worker, WorkerAt(s, w) PROVE TellInv'
  <2>1. Grow /\ \A t \in Slot : t # s => Apart(t)
    BY <1>0, <1>4, WorkerUp
  <2>2. EventAt(s)'
    BY <1>0, <1>3, <1>4, <2>1, EventWorker
  <2>3. TellAt(s)'
    BY <1>0, <1>3, <1>4, <1>a, <2>1, TellWorker
  <2>. QED BY <1>2, <2>1, <2>2, <2>3
<1>5. ASSUME NEW c, CtrlCase(c) PROVE TellInv'
  <2>0. PICK s : s = HASH_ID(c.id)
    OBVIOUS
  <2>1. s \in Slot /\ Grow /\ \A t \in Slot : t # s => Apart(t)
    BY <1>0, <1>5, <2>0, CtrlUp
  <2>2. EventAt(s)'
    BY <1>0, <1>3, <1>5, <2>0, <2>1, EventCtrl
  <2>3. TellAt(s)'
    BY <1>0, <1>3, <1>5, <1>a, <2>0, <2>1, TellCtrl
  <2>. QED BY <1>2, <2>1, <2>2, <2>3
<1>6. ASSUME NEW e \in batch, EventCase(e) PROVE TellInv'
  <2>0. PICK s : s = e.s
    OBVIOUS
  <2>1. s \in Slot /\ Grow /\ \A t \in Slot : t # s => Apart(t)
    BY <1>0, <1>6, <2>0, EventUp
  <2>2. EventAt(s)'
    BY <1>0, <1>3, <1>6, <2>0, <2>1, EventEvent
  <2>3. TellAt(s)'
    BY <1>0, <1>3, <1>6, <1>a, <2>0, <2>1, TellEvent
  <2>. QED BY <1>2, <2>1, <2>2, <2>3
<1>7. ASSUME NEW s \in Slot, OtherAt(s) PROVE TellInv'
  <2>1. Grow /\ \A t \in Slot : t # s => Apart(t)
    BY <1>0, <1>7, OtherUp
  <2>2. EventAt(s)'
    BY <1>0, <1>3, <1>7, <2>1, EventOther
  <2>3. TellAt(s)'
    BY <1>0, <1>3, <1>7, <1>a, <2>1, TellOther
  <2>. QED BY <1>2, <2>1, <2>2, <2>3
<1>8. ASSUME Still PROVE TellInv'
  <2>1. Grow /\ \A t \in Slot : Apart(t)
    BY <1>0, <1>8, StillUp
  <2>. QED BY <1>0, <1>1, <1>a, <2>1, EventFrameAt, TellFrame DEF TellInv
<1>9. ASSUME NEW D \in SUBSET Slot, Wait(D) PROVE TellInv'
  <2>1. Grow /\ UNCHANGED <<sock, lock, call, pipe, said, sent, stale, torn, wire, net, fc>>
    BY <1>0, <1>9, WaitUp
  <2>2. ASSUME NEW s \in Slot PROVE EventAt(s)' /\ TellAt(s)'
    <3>1. EventAt(s)'
      BY <1>0, <1>3, <1>9, EventWait
    <3>2. TellAt(s)'
      BY <1>0, <1>3, <1>a, <2>1, TellStill
    <3>. QED BY <3>1, <3>2
  <2>. QED BY <2>2 DEF TellInv
<1>. QED BY <1>0, <1>4, <1>5, <1>6, <1>7, <1>8, <1>9, NextCases DEF At

LEMMA TellStutter == ASSUME TellInv, UNCHANGED vars PROVE TellInv'
<1> SUFFICES ASSUME NEW s \in Slot PROVE EventAt(s)' /\ TellAt(s)'
  BY DEF TellInv
<1>1. UNCHANGED <<sock, pipe, said, fc, batch, net, torn, stale, aborted>>
  BY DEF vars, thread, outside
<1>2. EventAt(s) /\ TellSock(s) /\ TellClose(s) /\ TellIds(s)
  BY DEF TellInv, TellAt
<1>3. \A i : Lost(s, i)' <=> Lost(s, i)
  BY <1>1 DEF Lost, Opening
<1>4. EventAt(s)' /\ TellSock(s)' /\ TellClose(s)'
  BY <1>1, <1>2 DEF EventAt, TellSock, TellClose
<1>5. TellIds(s)'
  BY <1>1, <1>2, <1>3 DEF TellIds
<1>. QED BY <1>4, <1>5 DEF TellAt

LEMMA TellInit == ASSUME Init PROVE TellInv
<1> SUFFICES ASSUME NEW s \in Slot PROVE EventAt(s) /\ TellAt(s)
  BY DEF TellInv
<1>1. /\ sock[s].type = "INVALID" /\ fc = NoClose /\ batch = {} /\ \A i \in Id : said[i] = {}
  BY DEF Init
<1>. QED BY <1>1, NoCloseType DEF EventAt, TellAt, TellSock, TellClose, TellIds, Live

\* What is told to the owner of a socket agrees with the socket's state.
LEMMA Telling == Spec => [](Inv /\ TellInv)
<1>1. Inv /\ TellInv /\ [Next]_vars => TellInv'
  BY TellStep, TellStutter
<1>2. Init => TellInv
  BY TellInit
<1>. QED BY <1>1, <1>2, Invariance, PTL DEF Spec

\* EventOrder: no OPEN, DATA or CLOSE after CLOSE and no DATA before OPEN, for
\* every interleaving of the commands, the events of a batch and force_close.
THEOREM Order == Spec => []EventOrder
<1>1. Inv /\ TellInv => EventOrder
  <2> SUFFICES ASSUME Inv, TellInv, NEW id \in Sound \ stale PROVE "LATE" \notin said[id]
    BY DEF EventOrder
  <2>1. id \in Id /\ HASH_ID(id) \notin torn /\ HASH_ID(id) \in Slot
    BY IdType DEF Sound
  <2>. QED BY <2>1 DEF TellInv, TellAt, TellIds
<1>. QED BY <1>1, Telling, PTL

\* NoSilentDeath: the owner of a socket that is gone was told CLOSE or an error,
\* whichever of close_socket, the events and send_buffer closed it.
THEOREM Notice == Spec => []NoSilentDeath
<1>1. Inv /\ TellInv => NoSilentDeath
  <2> SUFFICES ASSUME Inv, TellInv, NEW id \in Sound \ stale, said[id] # {}, Invalid(id), fc.id # id
               PROVE  said[id] \cap {"CLOSE", "ERR"} # {}
    BY DEF NoSilentDeath
  <2>1. id \in Id /\ HASH_ID(id) \notin torn /\ HASH_ID(id) \in Slot
    BY IdType DEF Sound
  <2>2. Lost(HASH_ID(id), id)
    BY DEF Lost, Invalid
  <2>. QED BY <2>1, <2>2 DEF TellInv, TellAt, TellIds
<1>. QED BY <1>1, Telling, PTL


-----------------------------------------------------------------------------
(* What was written and what is queued, as one stream                       *)

\* Precedes, of a history st.
Ahead(st, a, b) ==
    /\ a < b /\ ~ st[a].low /\ ~ st[b].low
    /\ st[a].id = st[b].id /\ st[a].w = st[b].w

\* InOrder, of a history st.
Ordered(st, str) ==
    \A p \in DOMAIN str, m \in DOMAIN st :
      Ahead(st, m, str[p].m) => \E q \in 1 .. p - 1 : str[q].m = m

Ends(str) == str # << >> => str[Len(str)].to = MsgSize

Good(st, v) == WholeMessages(v) /\ Ordered(st, v) /\ Ends(v)

InWire(str, m) == \E p \in DOMAIN str : str[p].m = m

\* The write of the rest of a buffer.
Rest(b) == [m |-> b.m, from |-> b.at, to |-> MsgSize]

\* What the peer has received once the buffers of list q are written, too.
Stream(str, q) == str \o [i \in 1 .. Len(q) |-> Rest(q[i])]

\* A stream w is v with the whole message m put at position at.
Inserted(v, w, at, m) ==
    /\ Len(w) = Len(v) + 1 /\ at \in 1 .. Len(v) + 1
    /\ \A i \in 1 .. at - 1 : w[i] = v[i]
    /\ w[at] = [m |-> m, from |-> 0, to |-> MsgSize]
    /\ \A i \in at + 1 .. Len(v) + 1 : w[i] = v[i - 1]

\* A message m may be put in stream v at position at.
Fits(st, v, at, m) ==
    /\ at > 1 => v[at - 1].to = MsgSize
    /\ ~ InWire(v, m)
    /\ \A a \in DOMAIN st : Ahead(st, a, m) => \E q \in 1 .. at - 1 : v[q].m = a

Keeps(v, w) == \A a : InWire(v, a) => InWire(w, a)

\* A stream w is v with the write at position at made in two.
Cut(v, w, at, c) ==
    /\ Len(w) = Len(v) + 1 /\ at \in 1 .. Len(v) /\ c \in Nat /\ c < MsgSize
    /\ v[at].to = MsgSize
    /\ \A i \in 1 .. at - 1 : w[i] = v[i]
    /\ w[at] = [m |-> v[at].m, from |-> v[at].from, to |-> c]
    /\ w[at + 1] = [m |-> v[at].m, from |-> c, to |-> MsgSize]
    /\ \A i \in at + 2 .. Len(v) + 1 : w[i] = v[i - 1]

LEMMA StreamType ==
    ASSUME NEW v \in Seq(Write)
    PROVE  /\ Len(v) \in Nat /\ DOMAIN v = 1 .. Len(v)
           /\ \A i \in 1 .. Len(v) : /\ v[i] \in Write /\ v[i].m \in Nat /\ v[i].from \in Nat
                                     /\ v[i].to \in Nat
           /\ v = << >> <=> Len(v) = 0
  <1>1. Len(v) \in Nat /\ DOMAIN v = 1 .. Len(v)
    OBVIOUS
  <1>2. \A i \in 1 .. Len(v) : v[i] \in Write
    OBVIOUS
  <1>3. \A i \in 1 .. Len(v) : v[i].m \in Nat /\ v[i].from \in Nat /\ v[i].to \in Nat
    BY <1>2 DEF Write
  <1>4. v = << >> <=> Len(v) = 0
    OBVIOUS
  <1> QED BY <1>1, <1>2, <1>3, <1>4

\* The two cases of WholeMessages at a position.
Begins(v, p) == v[p].from = 0 /\ \A q \in 1 .. p - 1 : v[q].m # v[p].m
Follows(v, p) == v[p].m = v[p - 1].m /\ v[p].from = v[p - 1].to

LEMMA WholeIs ==
    ASSUME NEW v \in Seq(Write)
    PROVE  WholeMessages(v) <=>
             \A p \in 1 .. Len(v) : IF p > 1 /\ v[p - 1].to < MsgSize THEN Follows(v, p) ELSE Begins(v, p)
  BY StreamType DEF WholeMessages, Begins, Follows

LEMMA InsertWhole ==
    ASSUME NEW v \in Seq(Write), NEW w \in Seq(Write), NEW at, NEW m, Inserted(v, w, at, m),
           WholeMessages(v), at > 1 => v[at - 1].to = MsgSize, ~ InWire(v, m)
    PROVE  WholeMessages(w)
  <1> USE Bounds
  <1>1. /\ Len(v) \in Nat /\ DOMAIN v = 1 .. Len(v) /\ at \in Nat /\ at >= 1 /\ at <= Len(v) + 1
        /\ Len(w) = Len(v) + 1
    BY StreamType DEF Inserted
  <1>2. /\ \A i \in 1 .. at - 1 : w[i] = v[i]
        /\ w[at].m = m /\ w[at].from = 0 /\ w[at].to = MsgSize
        /\ \A i \in at + 1 .. Len(v) + 1 : w[i] = v[i - 1]
    BY DEF Inserted
  <1>3. \A p \in 1 .. Len(v) : IF p > 1 /\ v[p - 1].to < MsgSize THEN Follows(v, p) ELSE Begins(v, p)
    BY WholeIs
  <1>4. \A q \in 1 .. Len(v) : v[q].m # m
    BY <1>1 DEF InWire
  <1> SUFFICES ASSUME NEW p \in 1 .. Len(v) + 1
               PROVE  IF p > 1 /\ w[p - 1].to < MsgSize THEN Follows(w, p) ELSE Begins(w, p)
    BY <1>1, WholeIs
  <1>5. CASE p < at
    <2>1. p \in 1 .. Len(v) /\ p \in 1 .. at - 1 /\ w[p] = v[p]
      BY <1>1, <1>2, <1>5
    <2>2. p > 1 => w[p - 1] = v[p - 1]
      BY <1>1, <1>2, <1>5
    <2>3. \A q \in 1 .. p - 1 : w[q] = v[q]
      BY <1>1, <1>2, <1>5
    <2> QED BY <1>3, <2>1, <2>2, <2>3 DEF Follows, Begins
  <1>6. CASE p = at
    <2>1. p > 1 => w[p - 1].to = MsgSize
      BY <1>1, <1>2, <1>6
    <2>2. \A q \in 1 .. p - 1 : w[q].m # m
      BY <1>1, <1>2, <1>4, <1>6
    <2> QED BY <1>1, <1>2, <1>6, <2>1, <2>2 DEF Begins
  <1>7. CASE p = at + 1
    <2>1. w[p] = v[at] /\ at \in 1 .. Len(v) /\ w[p - 1].to = MsgSize
      BY <1>1, <1>2, <1>7
    <2>2. Begins(v, at)
      BY <1>1, <1>3, <2>1
    <2>3. \A q \in 1 .. p - 1 : w[q].m # v[at].m
      BY <1>1, <1>2, <1>4, <1>7, <2>1, <2>2 DEF Begins
    <2> QED BY <1>1, <1>7, <2>1, <2>2, <2>3 DEF Begins
  <1>8. CASE p > at + 1
    <2>1. w[p] = v[p - 1] /\ w[p - 1] = v[p - 2] /\ p - 1 \in 1 .. Len(v) /\ p - 2 \in 1 .. Len(v)
          /\ p - 1 > 1 /\ (p - 1) - 1 = p - 2
      BY <1>1, <1>2, <1>8
    <2>2. CASE v[p - 2].to < MsgSize
      BY <1>1, <1>3, <2>1, <2>2 DEF Follows
    <2>3. CASE ~ v[p - 2].to < MsgSize
      <3>1. Begins(v, p - 1)
        BY <1>1, <1>3, <2>1, <2>3
      <3>2. ASSUME NEW q \in 1 .. p - 1 PROVE w[q].m # w[p].m
        <4>1. CASE q < at
          <5>1. w[q] = v[q] /\ q \in 1 .. (p - 1) - 1
            BY <1>1, <1>2, <1>8, <4>1
          <5> QED BY <2>1, <3>1, <5>1 DEF Begins
        <4>2. CASE q = at
          BY <1>1, <1>2, <1>4, <2>1, <4>2
        <4>3. CASE q > at
          <5>1. w[q] = v[q - 1] /\ q - 1 \in 1 .. (p - 1) - 1
            BY <1>1, <1>2, <1>8, <4>3
          <5> QED BY <2>1, <3>1, <5>1 DEF Begins
        <4> QED BY <1>1, <4>1, <4>2, <4>3
      <3> QED BY <1>1, <2>1, <2>3, <3>1, <3>2 DEF Begins
    <2> QED BY <2>2, <2>3
  <1> QED BY <1>1, <1>5, <1>6, <1>7, <1>8

LEMMA InsertGood ==
    ASSUME NEW st, NEW v \in Seq(Write), NEW w \in Seq(Write), NEW at, NEW m, Inserted(v, w, at, m),
           Good(st, v), Fits(st, v, at, m)
    PROVE  Good(st, w) /\ InWire(w, m) /\ Keeps(v, w)
  <1>1. /\ Len(v) \in Nat /\ DOMAIN v = 1 .. Len(v) /\ at \in Nat /\ at >= 1 /\ at <= Len(v) + 1
        /\ Len(w) = Len(v) + 1 /\ DOMAIN w = 1 .. Len(v) + 1
    BY StreamType DEF Inserted
  <1>2. /\ \A i \in 1 .. at - 1 : w[i] = v[i]
        /\ w[at].m = m /\ w[at].to = MsgSize
        /\ \A i \in at + 1 .. Len(v) + 1 : w[i] = v[i - 1]
    BY DEF Inserted
  <1>3. WholeMessages(w)
    BY InsertWhole DEF Good, Fits
  <1>4. Ends(w)
    <2>1. w[Len(v) + 1].to = MsgSize
      <3>1. CASE at = Len(v) + 1
        BY <1>2, <3>1
      <3>2. CASE at < Len(v) + 1
        <4>1. w[Len(v) + 1] = v[Len(v)] /\ Len(v) # 0
          BY <1>1, <1>2, <3>2
        <4> QED BY <4>1, StreamType DEF Good, Ends
      <3> QED BY <1>1, <3>1, <3>2
    <2> QED BY <1>1, <2>1 DEF Ends
  <1>5. ASSUME NEW p \in DOMAIN w, NEW a \in DOMAIN st, Ahead(st, a, w[p].m)
        PROVE  \E q \in 1 .. p - 1 : w[q].m = a
    <2>1. CASE p < at
      <3>1. p \in DOMAIN v /\ w[p] = v[p]
        BY <1>1, <1>2, <2>1
      <3>2. PICK q \in 1 .. p - 1 : v[q].m = a
        BY <1>5, <3>1 DEF Good, Ordered
      <3> QED BY <1>1, <1>2, <2>1, <3>2
    <2>2. CASE p = at
      <3>1. PICK q \in 1 .. at - 1 : v[q].m = a
        BY <1>2, <1>5, <2>2 DEF Fits
      <3> QED BY <1>1, <1>2, <2>2, <3>1
    <2>3. CASE p > at
      <3>1. p - 1 \in DOMAIN v /\ w[p] = v[p - 1]
        BY <1>1, <1>2, <2>3
      <3>2. PICK q \in 1 .. (p - 1) - 1 : v[q].m = a
        BY <1>5, <3>1 DEF Good, Ordered
      <3>3. CASE q < at
        <4>1. w[q] = v[q] /\ q \in 1 .. p - 1
          BY <1>1, <1>2, <3>2, <3>3
        <4> QED BY <3>2, <4>1
      <3>4. CASE q >= at
        <4>1. w[q + 1] = v[q] /\ q + 1 \in 1 .. p - 1
          BY <1>1, <1>2, <3>2, <3>4
        <4> QED BY <3>2, <4>1
      <3> QED BY <1>1, <3>3, <3>4
    <2> QED BY <1>1, <2>1, <2>2, <2>3
  <1>6. InWire(w, m)
    BY <1>1, <1>2 DEF InWire
  <1>7. ASSUME NEW a, InWire(v, a) PROVE InWire(w, a)
    <2>1. PICK p \in DOMAIN v : v[p].m = a
      BY <1>7 DEF InWire
    <2>2. CASE p < at
      <3>1. w[p] = v[p] /\ p \in DOMAIN w
        BY <1>1, <1>2, <2>2
      <3> QED BY <2>1, <3>1 DEF InWire
    <2>3. CASE p >= at
      <3>1. w[p + 1] = v[p] /\ p + 1 \in DOMAIN w
        BY <1>1, <1>2, <2>3
      <3> QED BY <2>1, <3>1 DEF InWire
    <2> QED BY <1>1, <2>2, <2>3
  <1> QED BY <1>3, <1>4, <1>5, <1>6, <1>7 DEF Good, Ordered, Keeps

LEMMA CutWhole ==
    ASSUME NEW v \in Seq(Write), NEW w \in Seq(Write), NEW at, NEW c, Cut(v, w, at, c),
           WholeMessages(v)
    PROVE  WholeMessages(w)
  <1> USE Bounds
  <1>1. /\ Len(v) \in Nat /\ DOMAIN v = 1 .. Len(v) /\ at \in Nat /\ at >= 1 /\ at <= Len(v)
        /\ Len(w) = Len(v) + 1 /\ c \in Nat /\ c < MsgSize /\ v[at].to = MsgSize
    BY StreamType DEF Cut
  <1>2. /\ \A i \in 1 .. at - 1 : w[i] = v[i]
        /\ w[at].m = v[at].m /\ w[at].from = v[at].from /\ w[at].to = c
        /\ w[at + 1].m = v[at].m /\ w[at + 1].from = c /\ w[at + 1].to = MsgSize
        /\ \A i \in at + 2 .. Len(v) + 1 : w[i] = v[i - 1]
    BY DEF Cut
  <1>3. \A p \in 1 .. Len(v) : IF p > 1 /\ v[p - 1].to < MsgSize THEN Follows(v, p) ELSE Begins(v, p)
    BY WholeIs
  <1>4. \A q \in 1 .. at : w[q].m = v[q].m
    BY <1>1, <1>2
  <1> SUFFICES ASSUME NEW p \in 1 .. Len(v) + 1
               PROVE  IF p > 1 /\ w[p - 1].to < MsgSize THEN Follows(w, p) ELSE Begins(w, p)
    BY <1>1, WholeIs
  <1>5. CASE p <= at
    <2>1. p \in 1 .. Len(v) /\ w[p].m = v[p].m /\ w[p].from = v[p].from
      BY <1>1, <1>2, <1>5
    <2>2. p > 1 => w[p - 1] = v[p - 1]
      BY <1>1, <1>2, <1>5
    <2>3. \A q \in 1 .. p - 1 : w[q].m = v[q].m
      BY <1>1, <1>4, <1>5
    <2> QED BY <1>3, <2>1, <2>2, <2>3 DEF Follows, Begins
  <1>6. CASE p = at + 1
    BY <1>1, <1>2, <1>6 DEF Follows
  <1>7. CASE p = at + 2
    <2>1. w[p] = v[at + 1] /\ at + 1 \in 1 .. Len(v) /\ w[p - 1].to = MsgSize
      BY <1>1, <1>2, <1>7
    <2>2. Begins(v, at + 1)
      BY <1>1, <1>3, <2>1
    <2>3. \A q \in 1 .. p - 1 : w[q].m # v[at + 1].m
      BY <1>1, <1>2, <1>4, <1>7, <2>1, <2>2 DEF Begins
    <2> QED BY <1>1, <1>7, <2>1, <2>2, <2>3 DEF Begins
  <1>8. CASE p > at + 2
    <2>1. w[p] = v[p - 1] /\ w[p - 1] = v[p - 2] /\ p - 1 \in 1 .. Len(v) /\ p - 2 \in 1 .. Len(v)
          /\ p - 1 > 1 /\ (p - 1) - 1 = p - 2
      BY <1>1, <1>2, <1>8
    <2>2. CASE v[p - 2].to < MsgSize
      BY <1>1, <1>3, <2>1, <2>2 DEF Follows
    <2>3. CASE ~ v[p - 2].to < MsgSize
      <3>1. Begins(v, p - 1)
        BY <1>1, <1>3, <2>1, <2>3
      <3>2. ASSUME NEW q \in 1 .. p - 1 PROVE w[q].m # w[p].m
        <4>1. CASE q <= at
          <5>1. w[q].m = v[q].m /\ q \in 1 .. (p - 1) - 1
            BY <1>1, <1>4, <1>8, <4>1
          <5> QED BY <2>1, <3>1, <5>1 DEF Begins
        <4>2. CASE q = at + 1
          <5>1. w[q].m = v[at].m /\ at \in 1 .. (p - 1) - 1
            BY <1>1, <1>2, <1>8, <4>2
          <5> QED BY <2>1, <3>1, <5>1 DEF Begins
        <4>3. CASE q > at + 1
          <5>1. w[q] = v[q - 1] /\ q - 1 \in 1 .. (p - 1) - 1
            BY <1>1, <1>2, <1>8, <4>3
          <5> QED BY <2>1, <3>1, <5>1 DEF Begins
        <4> QED BY <1>1, <4>1, <4>2, <4>3
      <3> QED BY <1>1, <2>1, <2>3, <3>1, <3>2 DEF Begins
    <2> QED BY <2>2, <2>3
  <1> QED BY <1>1, <1>5, <1>6, <1>7, <1>8

LEMMA CutGood ==
    ASSUME NEW st, NEW v \in Seq(Write), NEW w \in Seq(Write), NEW at, NEW c, Cut(v, w, at, c),
           Good(st, v)
    PROVE  Good(st, w) /\ \A a : InWire(v, a) => InWire(w, a)
  <1>1. /\ Len(v) \in Nat /\ DOMAIN v = 1 .. Len(v) /\ at \in Nat /\ at >= 1 /\ at <= Len(v)
        /\ Len(w) = Len(v) + 1 /\ DOMAIN w = 1 .. Len(v) + 1
    BY StreamType DEF Cut
  <1>2. /\ \A i \in 1 .. at - 1 : w[i] = v[i]
        /\ w[at].m = v[at].m
        /\ w[at + 1].m = v[at].m /\ w[at + 1].to = MsgSize
        /\ \A i \in at + 2 .. Len(v) + 1 : w[i] = v[i - 1]
    BY DEF Cut
  <1>3. WholeMessages(w)
    BY CutWhole DEF Good
  <1>4. \A q \in 1 .. at : w[q].m = v[q].m
    BY <1>1, <1>2
  <1>5. \A q \in at .. Len(v) : w[q + 1].m = v[q].m
    BY <1>1, <1>2
  <1>6. Ends(w)
    <2>1. w[Len(v) + 1].to = MsgSize
      <3>1. CASE at = Len(v)
        BY <1>2, <3>1
      <3>2. CASE at < Len(v)
        <4>1. w[Len(v) + 1] = v[Len(v)] /\ Len(v) # 0
          BY <1>1, <1>2, <3>2
        <4> QED BY <4>1, StreamType DEF Good, Ends
      <3>3. at = Len(v) \/ at < Len(v)
        <4>1. PICK z : z = Len(v)
          OBVIOUS
        <4>2. z \in Nat /\ at \in Nat /\ at <= z
          BY <1>1, <4>1
        <4>3. at = z \/ at < z
          BY <4>2
        <4> QED BY <4>1, <4>3
      <3> QED BY <3>1, <3>2, <3>3
    <2> QED BY <1>1, <2>1 DEF Ends
  <1>7. ASSUME NEW p \in DOMAIN w, NEW a \in DOMAIN st, Ahead(st, a, w[p].m)
        PROVE  \E q \in 1 .. p - 1 : w[q].m = a
    <2>1. PICK r \in DOMAIN v : w[p].m = v[r].m /\ r <= p /\ (r = p \/ (r = p - 1 /\ r >= at))
                                /\ (r = p => p <= at)
      <3>1. CASE p <= at
        BY <1>1, <1>4, <3>1
      <3>2. CASE p > at
        <4>1. p - 1 \in at .. Len(v) /\ (p - 1) + 1 = p
          BY <1>1, <3>2
        <4>2. w[p].m = v[p - 1].m
          BY <1>5, <4>1
        <4>3. p - 1 \in DOMAIN v /\ p - 1 <= p /\ p - 1 >= at /\ p - 1 # p
          BY <1>1, <4>1
        <4> QED BY <4>2, <4>3
      <3> QED BY <1>1, <3>1, <3>2
    <2>2. PICK q \in 1 .. r - 1 : v[q].m = a
      BY <1>7, <2>1 DEF Good, Ordered
    <2>3. CASE q <= at
      <3>1. w[q].m = a /\ q \in 1 .. p - 1
        BY <1>1, <1>4, <2>1, <2>2, <2>3
      <3> QED BY <3>1
    <2>4. CASE q > at
      <3>1. w[q + 1].m = a /\ q + 1 \in 1 .. p - 1
        BY <1>1, <1>5, <2>1, <2>2, <2>4
      <3> QED BY <3>1
    <2> QED BY <1>1, <2>3, <2>4
  <1>8. ASSUME NEW a, InWire(v, a) PROVE InWire(w, a)
    <2>1. PICK p \in DOMAIN v : v[p].m = a
      BY <1>8 DEF InWire
    <2>2. CASE p <= at
      <3>1. w[p].m = a /\ p \in DOMAIN w
        BY <1>1, <1>4, <2>1, <2>2
      <3> QED BY <3>1 DEF InWire
    <2>3. CASE p > at
      <3>1. w[p + 1].m = a /\ p + 1 \in DOMAIN w
        BY <1>1, <1>5, <2>1, <2>3
      <3> QED BY <3>1 DEF InWire
    <2> QED BY <1>1, <2>2, <2>3
  <1> QED BY <1>3, <1>6, <1>7, <1>8 DEF Good, Ordered

\* The beginning of a stream.
LEMMA PrefixGood ==
    ASSUME NEW st, NEW v \in Seq(Write), NEW str \in Seq(Write), Len(str) <= Len(v),
           \A i \in 1 .. Len(str) : str[i] = v[i], WholeMessages(v), Ordered(st, v)
    PROVE  WholeMessages(str) /\ Ordered(st, str)
  <1>1. Len(v) \in Nat /\ DOMAIN v = 1 .. Len(v) /\ Len(str) \in Nat /\ DOMAIN str = 1 .. Len(str)
    BY StreamType
  <1>2. ASSUME NEW p \in 1 .. Len(str)
        PROVE  IF p > 1 /\ str[p - 1].to < MsgSize THEN Follows(str, p) ELSE Begins(str, p)
    <2>1. /\ p \in 1 .. Len(v) /\ str[p] = v[p] /\ (p > 1 => str[p - 1] = v[p - 1])
          /\ \A q \in 1 .. p - 1 : str[q] = v[q]
      BY <1>1
    <2>2. IF p > 1 /\ v[p - 1].to < MsgSize THEN Follows(v, p) ELSE Begins(v, p)
      BY <2>1, WholeIs
    <2> QED BY <2>1, <2>2 DEF Follows, Begins
  <1>3. ASSUME NEW p \in DOMAIN str, NEW a \in DOMAIN st, Ahead(st, a, str[p].m)
        PROVE  \E q \in 1 .. p - 1 : str[q].m = a
    <2>1. p \in DOMAIN v /\ str[p] = v[p]
      BY <1>1
    <2>2. PICK q \in 1 .. p - 1 : v[q].m = a
      BY <1>3, <2>1 DEF Ordered
    <2>3. str[q] = v[q]
      BY <1>1
    <2> QED BY <2>2, <2>3
  <1> QED BY <1>2, <1>3, WholeIs DEF Ordered

\* A message sent later does not precede one sent before.
LEMMA AheadMore ==
    ASSUME Types, Types', Grow, NEW a \in DOMAIN sent', NEW b \in DOMAIN sent, Ahead(sent', a, b)
    PROVE  a \in DOMAIN sent /\ Ahead(sent, a, b)
  <1>1. /\ Len(sent) \in Nat /\ Len(sent') \in Nat /\ DOMAIN sent = 1 .. Len(sent)
        /\ DOMAIN sent' = 1 .. Len(sent')
    BY DEF Types
  <1>2. a < b
    BY DEF Ahead
  <1>3. a \in DOMAIN sent
    BY <1>1, <1>2
  <1>4. sent'[a] = sent[a] /\ sent'[b] = sent[b]
    BY <1>3 DEF Grow
  <1> QED BY <1>3, <1>4 DEF Ahead

LEMMA OrderedMore ==
    ASSUME Types, Types', Grow, NEW v, Ordered(sent, v), \A p \in DOMAIN v : v[p].m \in DOMAIN sent
    PROVE  Ordered(sent', v)
  <1> SUFFICES ASSUME NEW p \in DOMAIN v, NEW a \in DOMAIN sent', Ahead(sent', a, v[p].m)
               PROVE  \E q \in 1 .. p - 1 : v[q].m = a
    BY DEF Ordered
  <1>1. a \in DOMAIN sent /\ Ahead(sent, a, v[p].m)
    BY AheadMore
  <1> QED BY <1>1 DEF Ordered

\* The buffers of a socket in the order in which they will be written.
Line(x) == (x.dw \o x.high) \o x.low

\* The facts about c = a \o b that the proofs use.
Joins(c, a, b) ==
    /\ Len(c) = Len(a) + Len(b) /\ Len(a) \in Nat /\ Len(b) \in Nat
    /\ DOMAIN a = 1 .. Len(a) /\ DOMAIN b = 1 .. Len(b) /\ DOMAIN c = 1 .. Len(a) + Len(b)
    /\ \A i \in 1 .. Len(a) : c[i] = a[i]
    /\ \A i \in 1 .. Len(b) : c[Len(a) + i] = b[i]

LEMMA CatWriteIs ==
    ASSUME NEW a \in Seq(Write), NEW b \in Seq(Write), NEW c, c = a \o b
    PROVE  c \in Seq(Write) /\ Joins(c, a, b)
  BY CatWrite, Zenon DEF Joins

LEMMA CatNodeIs ==
    ASSUME NEW a \in Seq(Node), NEW b \in Seq(Node), NEW c, c = a \o b
    PROVE  c \in Seq(Node) /\ Joins(c, a, b)
  BY CatNode, Zenon DEF Joins

LEMMA SameStream ==
    ASSUME NEW v \in Seq(Write), NEW w \in Seq(Write), Len(v) = Len(w),
           \A i \in 1 .. Len(v) : v[i] = w[i]
    PROVE  v = w
  OBVIOUS

IsStream(v, str, q) ==
    /\ v \in Seq(Write) /\ Len(v) = Len(str) + Len(q) /\ Len(str) \in Nat /\ Len(q) \in Nat
    /\ DOMAIN q = 1 .. Len(q) /\ DOMAIN str = 1 .. Len(str) /\ DOMAIN v = 1 .. Len(str) + Len(q)
    /\ \A i \in 1 .. Len(str) : v[i] = str[i]
    /\ \A i \in 1 .. Len(q) : v[Len(str) + i] = Rest(q[i])

LEMMA StreamIs ==
    ASSUME NEW str \in Seq(Write), NEW q \in Seq(Node), NEW v, v = Stream(str, q)
    PROVE  IsStream(v, str, q)
  <1> USE Bounds
  <1>1. Len(q) \in Nat /\ DOMAIN q = 1 .. Len(q) /\ \A i \in 1 .. Len(q) : q[i] \in Node
    OBVIOUS
  <1>2. \A i \in 1 .. Len(q) : Rest(q[i]) \in Write
    BY <1>1 DEF Node, Write, Rest
  <1>3. PICK f : f = [i \in 1 .. Len(q) |-> Rest(q[i])]
    OBVIOUS
  <1>4. f \in [1 .. Len(q) -> Write] /\ \A i \in 1 .. Len(q) : f[i] = Rest(q[i])
    BY <1>2, <1>3
  <1>5. f \in Seq(Write) /\ Len(f) = Len(q)
    BY <1>1, <1>4, FunSeq
  <1>6. v = str \o f
    BY <1>3 DEF Stream
  <1>7. v \in Seq(Write) /\ Joins(v, str, f)
    BY <1>5, <1>6, CatWriteIs
  <1> QED BY <1>1, <1>4, <1>5, <1>7 DEF Joins, IsStream

\* A list r is what is left of q after n buffers and k units of the next.
RestOf(q, r, n, k) ==
    /\ Len(r) = Len(q) - n
    /\ n < Len(q) => r[1].m = q[n + 1].m /\ r[1].at = q[n + 1].at + k
    /\ \A i \in 2 .. Len(q) - n : r[i] = q[n + i]

LEMMA ThreeLists ==
    ASSUME NEW a \in Seq(Node), NEW b \in Seq(Node), NEW c \in Seq(Node), NEW q, q = (a \o b) \o c
    PROVE  /\ q \in Seq(Node) /\ Len(q) = Len(a) + Len(b) + Len(c)
           /\ Len(a) \in Nat /\ Len(b) \in Nat /\ Len(c) \in Nat
           /\ DOMAIN q = 1 .. Len(q)
           /\ \A i \in 1 .. Len(a) : q[i] = a[i]
           /\ \A i \in 1 .. Len(b) : q[Len(a) + i] = b[i]
           /\ \A i \in 1 .. Len(c) : q[Len(a) + Len(b) + i] = c[i]
           /\ q = << >> <=> a = << >> /\ b = << >> /\ c = << >>
  <1>1. PICK d : d = a \o b
    OBVIOUS
  <1>2. /\ d \in Seq(Node) /\ Len(d) = Len(a) + Len(b)
        /\ Len(a) \in Nat /\ Len(b) \in Nat
        /\ \A i \in 1 .. Len(a) : d[i] = a[i]
        /\ \A i \in 1 .. Len(b) : d[Len(a) + i] = b[i]
    <2>1. d \in Seq(Node) /\ Joins(d, a, b)
      BY <1>1, CatNodeIs
    <2> QED BY <2>1 DEF Joins
  <1>3. /\ q \in Seq(Node) /\ Len(q) = Len(d) + Len(c) /\ Len(c) \in Nat
        /\ DOMAIN q = 1 .. Len(d) + Len(c)
        /\ \A i \in 1 .. Len(d) : q[i] = d[i]
        /\ \A i \in 1 .. Len(c) : q[Len(d) + i] = c[i]
    <2>1. q = d \o c
      BY <1>1
    <2>2. q \in Seq(Node) /\ Joins(q, d, c)
      BY <1>2, <2>1, CatNodeIs
    <2> QED BY <2>2 DEF Joins
  <1>4. PICK x \in Nat, y \in Nat, z \in Nat : x = Len(a) /\ y = Len(b) /\ z = Len(c)
    BY <1>2, <1>3
  <1>5. Len(d) = x + y /\ Len(q) = x + y + z
    BY <1>2, <1>3, <1>4
  <1>6. \A i \in 1 .. x : q[i] = a[i]
    BY <1>2, <1>3, <1>4, <1>5
  <1>7. \A i \in 1 .. y : q[x + i] = b[i]
    <2> SUFFICES ASSUME NEW i \in 1 .. y PROVE q[x + i] = b[i]
      OBVIOUS
    <2>1. x + i \in 1 .. x + y
      OBVIOUS
    <2> QED BY <1>2, <1>3, <1>4, <1>5, <2>1
  <1>8. \A i \in 1 .. z : q[x + y + i] = c[i]
    BY <1>3, <1>4, <1>5
  <1>9. (q = << >> <=> Len(q) = 0) /\ (a = << >> <=> Len(a) = 0) /\ (b = << >> <=> Len(b) = 0)
        /\ (c = << >> <=> Len(c) = 0)
    BY <1>3
  <1>10. x + y + z = 0 <=> x = 0 /\ y = 0 /\ z = 0
    OBVIOUS
  <1> QED BY <1>3, <1>4, <1>5, <1>6, <1>7, <1>8, <1>9, <1>10

LEMMA LineIs ==
    ASSUME NEW x \in Sock, NEW q, q = Line(x)
    PROVE  /\ q \in Seq(Node) /\ Len(q) = Len(x.dw) + Len(x.high) + Len(x.low)
           /\ Len(x.dw) \in Nat /\ Len(x.high) \in Nat /\ Len(x.low) \in Nat
           /\ DOMAIN q = 1 .. Len(q)
           /\ \A i \in 1 .. Len(x.dw) : q[i] = x.dw[i]
           /\ \A i \in 1 .. Len(x.high) : q[Len(x.dw) + i] = x.high[i]
           /\ \A i \in 1 .. Len(x.low) : q[Len(x.dw) + Len(x.high) + i] = x.low[i]
           /\ q = << >> <=> x.dw = << >> /\ x.high = << >> /\ x.low = << >>
           /\ \A i \in DOMAIN q : q[i] \in Nodes(x) /\ q[i] \in Node
  <1>1. x.dw \in Seq(Node) /\ x.high \in Seq(Node) /\ x.low \in Seq(Node)
    BY DEF Sock
  <1>2. PICK a \in Seq(Node), b \in Seq(Node), c \in Seq(Node) : a = x.dw /\ b = x.high /\ c = x.low
    BY <1>1
  <1>3. q = (a \o b) \o c
    BY <1>2 DEF Line
  <1>4. /\ q \in Seq(Node) /\ Len(q) = Len(a) + Len(b) + Len(c)
        /\ Len(a) \in Nat /\ Len(b) \in Nat /\ Len(c) \in Nat
        /\ DOMAIN q = 1 .. Len(q)
        /\ \A i \in 1 .. Len(a) : q[i] = a[i]
        /\ \A i \in 1 .. Len(b) : q[Len(a) + i] = b[i]
        /\ \A i \in 1 .. Len(c) : q[Len(a) + Len(b) + i] = c[i]
        /\ q = << >> <=> a = << >> /\ b = << >> /\ c = << >>
    BY <1>3, ThreeLists
  <1>5. \A i \in DOMAIN q : q[i] \in Nodes(x)
    BY NodesOf DEF Line
  <1>6. \A i \in DOMAIN q : q[i] \in Node
    BY <1>5, NodesOf
  <1> QED BY <1>2, <1>4, <1>5, <1>6, Zenon

LEMMA LineEmpty ==
    ASSUME NEW x \in Sock
    PROVE  Line(x) = << >> <=> x.dw = << >> /\ x.high = << >> /\ x.low = << >>
  <1>1. PICK a \in Seq(Node), b \in Seq(Node), c \in Seq(Node) : a = x.dw /\ b = x.high /\ c = x.low
    BY DEF Sock
  <1>2. PICK q : q = (a \o b) \o c
    OBVIOUS
  <1>3. q = << >> <=> a = << >> /\ b = << >> /\ c = << >>
    BY <1>2, ThreeLists
  <1> QED BY <1>1, <1>2, <1>3 DEF Line

LEMMA LineSame ==
    ASSUME NEW x, NEW y, y.high = x.high, y.low = x.low, y.dw = x.dw
    PROVE  Line(y) = Line(x)
  BY DEF Line

\* n buffers and k units of the next can be written.
CanWrite(q, n, k) ==
    n <= Len(q) /\ (k > 0 => n < Len(q) /\ q[n + 1].at + k < MsgSize)

\* The socket writes n buffers of its line q and k units of the next; r is left.
TakesOff(s, q, r, n, k) ==
    /\ q \in Seq(Node) /\ r \in Seq(Node) /\ n \in Nat /\ k \in 0 .. MsgSize - 1
    /\ RestOf(q, r, n, k) /\ CanWrite(q, n, k)
    /\ wire'[sock[s].id] = wire[sock[s].id] \o Writes(q, n, k)

\* What send_buffer leaves of the buffers of a socket.
LEMMA WriteTakes ==
    ASSUME Types, IdInv, NEW e, NEW n, NEW k, WriteSome(e, n, k), NEW s, s = e.s, ListAt(s),
           NEW z, z = Written(WithDirect(sock[s]), n, k),
           NEW q, q = Line(sock[s]), NEW rest, rest = Line(z)
    PROVE  TakesOff(s, q, rest, n, k)
  <1>1. PICK x : x = sock[s]
    OBVIOUS
  <1>2. PICK d : d = WithDirect(x)
    OBVIOUS
  <1>3. PICK all : all = Line(x)
    OBVIOUS
  <1>4. /\ n \in Nat /\ k \in 0 .. MsgSize - 1
        /\ all \in Seq(Node) /\ n <= Len(all)
        /\ k > 0 => n < Len(all) /\ all[n + 1].at + k < MsgSize
        /\ d \in Sock /\ d.high = x.dw \o x.high /\ d.low = x.low
        /\ wire'[x.id] = wire[x.id] \o Writes(all, n, k)
    BY <1>1, <1>2, <1>3, WriteSomeFacts DEF Line
  <1>5. z \in Sock /\ z.dw = << >> /\ x \in Sock
    <2>1. EventFrame(e) /\ z \in Sock /\ z.dw = << >>
      BY WriteSomeSlot
    <2>2. sock[e.s] \in Sock
      BY <2>1, EventFacts
    <2> QED BY <1>1, <2>1, <2>2
  <1>6. all = d.high \o d.low
    BY <1>3, <1>4 DEF Line
  <1>7. LowWhole(d)
    BY <1>1, <1>4 DEF ListAt, LowWhole
  <1>8. Room(d.high \o d.low, n, k)
    BY <1>4, <1>6 DEF Room
  <1>9. Remains(d, n, k, d.high \o d.low, Written(d, n, k))
    BY <1>4, <1>7, <1>8, WrittenLists
  <1>10. Remains(d, n, k, all, z)
    BY <1>1, <1>2, <1>6, <1>9
  <1>11. PICK r : r = Line(z)
    OBVIOUS
  <1>12. PICK h \in Seq(Node), l \in Seq(Node) : h = z.high /\ l = z.low
    BY <1>5 DEF Sock
  <1>13. PICK H \in Nat, R \in Nat : H = Len(h) /\ R = Len(l)
    OBVIOUS
  <1>14. /\ r \in Seq(Node) /\ Len(r) = H + R
         /\ \A i \in 1 .. H : r[i] = h[i]
         /\ \A i \in 1 .. R : r[H + i] = l[i]
    <2>1. r = (<< >> \o h) \o l
      BY <1>5, <1>11, <1>12 DEF Line
    <2>2. PICK o \in Seq(Node) : o = << >>
      BY EmptySeq
    <2>3. r = (o \o h) \o l /\ Len(o) = 0
      BY <2>1, <2>2
    <2>4. /\ r \in Seq(Node) /\ Len(r) = Len(o) + Len(h) + Len(l)
          /\ \A i \in 1 .. Len(h) : r[Len(o) + i] = h[i]
          /\ \A i \in 1 .. Len(l) : r[Len(o) + Len(h) + i] = l[i]
      BY <2>3, ThreeLists
    <2> QED BY <1>13, <2>3, <2>4
  <1>15. /\ H + R = Len(all) - n
         /\ H > 0 => n < Len(all) /\ h[1] = [all[n + 1] EXCEPT !.at = @ + k]
         /\ \A i \in 1 .. H : i # 1 => h[i] = all[n + i]
         /\ \A i \in 1 .. R : l[i] = all[n + H + i]
         /\ k > 0 => H > 0
    BY <1>10, <1>12, <1>13, Zenon DEF Remains
  <1>16. Len(all) \in Nat /\ \A i \in 1 .. Len(all) : all[i] \in Node
    BY <1>4
  <1> PICK A \in Nat : A = Len(all)
    BY <1>16
  <1>20. H + R = A - n /\ n \in Nat /\ n <= A
    BY <1>4, <1>15
  <1>17. ASSUME n < Len(all) PROVE r[1].m = all[n + 1].m /\ r[1].at = all[n + 1].at + k
    <2>1. n + 1 \in 1 .. Len(all)
      BY <1>4, <1>16, <1>17
    <2>2. all[n + 1] \in Node
      BY <1>16, <2>1
    <2>3. CASE H > 0
      <3>1. r[1] = h[1]
        BY <1>14, <2>3
      <3> QED BY <1>15, <2>2, <2>3, <3>1 DEF Node
    <2>4. CASE H = 0
      <3>1. k = 0 /\ R > 0
        <4>1. ~ k > 0
          BY <1>15, <2>4
        <4>2. n < A
          BY <1>17
        <4> QED BY <1>4, <1>20, <2>4, <4>1, <4>2, Bounds
      <3>2. r[1] = l[1] /\ l[1] = all[n + 1]
        <4>1. 1 \in 1 .. R /\ H + 1 = 1 /\ n + H + 1 = n + 1
          BY <1>20, <2>4, <3>1
        <4> QED BY <1>14, <1>15, <4>1
      <3>3. all[n + 1].at \in Nat
        BY <2>2, Bounds DEF Node
      <3> QED BY <3>1, <3>2, <3>3
    <2> QED BY <2>3, <2>4
  <1>18. ASSUME NEW i \in 2 .. Len(all) - n PROVE r[i] = all[n + i]
    <2>1. CASE i <= H
      BY <1>4, <1>14, <1>15, <1>16, <2>1
    <2>2. CASE i > H
      <3>1. PICK j : j = i - H
        OBVIOUS
      <3>2. i \in 2 .. A - n
        OBVIOUS
      <3>3. j \in 1 .. R /\ H + j = i /\ n + H + j = n + i
        BY <1>20, <2>2, <3>1, <3>2
      <3> QED BY <1>14, <1>15, <3>3
    <2> QED BY <1>4, <1>16, <2>1, <2>2
  <1>19. RestOf(all, r, n, k)
    BY <1>14, <1>15, <1>17, <1>18 DEF RestOf
  <1>21. CanWrite(all, n, k)
    BY <1>4 DEF CanWrite
  <1>22. TakesOff(s, all, r, n, k)
    BY <1>1, <1>4, <1>14, <1>19, <1>21 DEF TakesOff
  <1>23. all = q /\ r = rest
    BY <1>1, <1>3, <1>11
  <1> QED BY <1>22, <1>23

\* What Writes is.
AreWrites(wr, q, n, k) ==
    /\ wr \in Seq(Write)
    /\ Len(wr) = n + IF k = 0 THEN 0 ELSE 1
    /\ \A i \in 1 .. n : wr[i] = [m |-> q[i].m, from |-> q[i].at, to |-> MsgSize]
    /\ k # 0 => wr[n + 1] = [m |-> q[n + 1].m, from |-> q[n + 1].at, to |-> q[n + 1].at + k]

LEMMA WritesIs ==
    ASSUME NEW q \in Seq(Node), NEW n \in Nat, NEW k \in 0 .. MsgSize - 1, CanWrite(q, n, k),
           NEW wr, wr = Writes(q, n, k)
    PROVE  AreWrites(wr, q, n, k)
  <1>1. n <= Len(q) /\ (k > 0 => n < Len(q) /\ q[n + 1].at + k < MsgSize)
    BY DEF CanWrite
  <1>2. /\ wr \in Seq(Write)
        /\ Len(wr) = n + IF k = 0 THEN 0 ELSE 1
        /\ \A i \in 1 .. n : wr[i] = [m |-> q[i].m, from |-> q[i].at, to |-> MsgSize]
        /\ k # 0 => wr[n + 1] = [m |-> q[n + 1].m, from |-> q[n + 1].at, to |-> q[n + 1].at + k]
    BY <1>1, WritesType
  <1> QED BY <1>2 DEF AreWrites

Leads(str, v) ==
    str \in Seq(Write) /\ Len(str) <= Len(v) /\ \A i \in 1 .. Len(str) : str[i] = v[i]

\* Writing n buffers and k units of the next changes the stream only where a
\* buffer is written in part.
LEMMA WriteGood ==
    ASSUME NEW st, NEW str \in Seq(Write), NEW q \in Seq(Node), NEW r \in Seq(Node), NEW n \in Nat,
           NEW k \in 0 .. MsgSize - 1, CanWrite(q, n, k), RestOf(q, r, n, k), Good(st, Stream(str, q)),
           NEW str2, str2 = str \o Writes(q, n, k)
    PROVE  /\ Good(st, Stream(str2, r)) /\ Keeps(Stream(str, q), Stream(str2, r))
           /\ Leads(str2, Stream(str2, r))
  <1> USE Bounds
  <1>1. PICK wr : wr = Writes(q, n, k)
    OBVIOUS
  <1>2. /\ wr \in Seq(Write)
        /\ Len(wr) = n + IF k = 0 THEN 0 ELSE 1
        /\ \A i \in 1 .. n : wr[i] = [m |-> q[i].m, from |-> q[i].at, to |-> MsgSize]
        /\ k # 0 => wr[n + 1] = [m |-> q[n + 1].m, from |-> q[n + 1].at, to |-> q[n + 1].at + k]
    <2>1. AreWrites(wr, q, n, k)
      BY <1>1, WritesIs
    <2> QED BY <2>1 DEF AreWrites
  <1>3. PICK v : v = Stream(str, q)
    OBVIOUS
  <1>4. PICK w : w = Stream(str2, r)
    OBVIOUS
  <1>5. /\ str2 \in Seq(Write) /\ Len(str2) = Len(str) + Len(wr)
        /\ \A i \in 1 .. Len(str) : str2[i] = str[i]
        /\ \A i \in 1 .. Len(wr) : str2[Len(str) + i] = wr[i]
    <2>1. str2 = str \o wr
      BY <1>1
    <2>2. str2 \in Seq(Write) /\ Joins(str2, str, wr)
      BY <1>2, <2>1, CatWriteIs
    <2> QED BY <2>2 DEF Joins
  <1>6. PICK L \in Nat, Q \in Nat : L = Len(str) /\ Q = Len(q)
    <2>1. Len(str) \in Nat /\ Len(q) \in Nat
      OBVIOUS
    <2> QED BY <2>1
  <1>7. PICK d \in {0, 1} : d = IF k = 0 THEN 0 ELSE 1
    OBVIOUS
  <1>8. Len(str2) = L + n + d /\ Len(r) = Q - n /\ n <= Q
    <2>1. Len(wr) = n + d
      BY <1>2, <1>7
    <2>2. Len(str2) = L + (n + d)
      BY <1>5, <1>6, <2>1
    <2>3. Len(r) = Q - n /\ n <= Q
      BY <1>6 DEF RestOf, CanWrite
    <2> QED BY <1>7, <2>2, <2>3
  <1>9. /\ v \in Seq(Write) /\ Len(v) = L + Q
        /\ \A i \in 1 .. L : v[i] = str[i]
        /\ \A i \in 1 .. Q : v[L + i] = Rest(q[i])
    <2>1. IsStream(v, str, q)
      BY <1>3, StreamIs
    <2> QED BY <1>6, <2>1 DEF IsStream
  <1>10. /\ w \in Seq(Write) /\ Len(w) = (L + n + d) + (Q - n)
         /\ \A i \in 1 .. L + n + d : w[i] = str2[i]
         /\ \A i \in 1 .. Q - n : w[L + n + d + i] = Rest(r[i])
    <2>1. IsStream(w, str2, r)
      BY <1>4, <1>5, StreamIs
    <2> QED BY <1>8, <2>1 DEF IsStream
  <1>11. \A i \in 1 .. L + n : w[i] = v[i]
    <2> SUFFICES ASSUME NEW i \in 1 .. L + n PROVE w[i] = v[i]
      OBVIOUS
    <2>1. CASE i <= L
      <3>1. i \in 1 .. L /\ i \in 1 .. L + n + d
        BY <1>7, <2>1
      <3> QED BY <1>5, <1>6, <1>9, <1>10, <3>1
    <2>2. CASE i > L
      <3>1. PICK j \in Nat : j = i - L
        BY <2>2
      <3>2. j \in 1 .. n /\ L + j = i /\ i \in 1 .. L + n + d /\ j \in 1 .. Q /\ j \in 1 .. n + d
        BY <1>7, <1>8, <3>1, <2>2
      <3>3. w[i] = str2[L + j]
        BY <1>10, <3>2
      <3>4. Len(wr) = n + d
        BY <1>2, <1>7
      <3>5. str2[L + j] = wr[j]
        BY <1>5, <1>6, <3>2, <3>4
      <3>6. wr[j] = Rest(q[j])
        BY <1>2, <3>2 DEF Rest
      <3> QED BY <1>9, <3>2, <3>3, <3>5, <3>6
    <2> QED BY <2>1, <2>2
  <1>12. \A i \in 1 .. Q : q[i] \in Node /\ q[i].at \in Nat
    <2>1. \A i \in 1 .. Q : q[i] \in Node
      BY <1>6
    <2> QED BY <2>1 DEF Node
  <1>13. ASSUME n < Q PROVE r[1].m = q[n + 1].m /\ r[1].at = q[n + 1].at + k
    BY <1>6, <1>13 DEF RestOf
  <1>14. \A i \in 2 .. Q - n : r[i] = q[n + i]
    BY <1>6 DEF RestOf
  <1>17. Len(str2) <= Len(w) /\ \A i \in 1 .. Len(str2) : str2[i] = w[i]
    BY <1>7, <1>8, <1>10
  <1>15. CASE k = 0
    <2>1. d = 0
      BY <1>7, <1>15
    <2>2. Len(w) = L + Q
      BY <1>8, <1>10, <2>1
    <2>3. ASSUME NEW i \in 1 .. L + Q PROVE w[i] = v[i]
      <3>1. CASE i <= L + n
        BY <1>11, <3>1
      <3>2. CASE i > L + n
        <4>1. PICK j \in Nat : j = i - (L + n)
          BY <3>2
        <4>2. j \in 1 .. Q - n /\ L + n + d + j = i /\ n + j \in 1 .. Q /\ L + (n + j) = i
          BY <1>8, <2>1, <3>2, <4>1
        <4>3. w[i] = Rest(r[j])
          BY <1>10, <4>2
        <4>4. v[i] = Rest(q[n + j])
          BY <1>9, <4>2
        <4>5. CASE j = 1
          <5>1. n < Q /\ n + 1 \in 1 .. Q
            BY <1>8, <4>2, <4>5
          <5>2. r[1].m = q[n + 1].m /\ r[1].at = q[n + 1].at
            BY <1>12, <1>13, <1>15, <5>1
          <5> QED BY <4>3, <4>4, <4>5, <5>2 DEF Rest
        <4>6. CASE j # 1
          <5>1. j \in 2 .. Q - n
            BY <4>2, <4>6
          <5> QED BY <1>14, <4>3, <4>4, <5>1
        <4> QED BY <4>5, <4>6
      <3> QED BY <3>1, <3>2
    <2>4. v = w
      <3>1. Len(v) = Len(w) /\ v \in Seq(Write) /\ w \in Seq(Write)
        BY <1>9, <1>10, <2>2
      <3>2. \A i \in 1 .. Len(v) : v[i] = w[i]
        BY <1>9, <2>3
      <3> QED BY <3>1, <3>2, SameStream
    <2>5. Good(st, w) /\ Keeps(v, w) /\ Leads(str2, w)
      BY <1>3, <1>5, <1>17, <2>4 DEF Keeps, Leads
    <2> QED BY <1>3, <1>4, <2>5
  <1>16. CASE k > 0
    <2>1. d = 1 /\ n < Q
      BY <1>6, <1>7, <1>16 DEF CanWrite
    <2>2. PICK at \in Nat, c \in Nat : at = L + n + 1 /\ c = q[n + 1].at + k
      <3>1. n + 1 \in 1 .. Q
        BY <2>1
      <3>2. q[n + 1].at + k \in Nat
        BY <1>12, <3>1
      <3>3. L + n + 1 \in Nat
        OBVIOUS
      <3> QED BY <3>2, <3>3
    <2>3. c < MsgSize /\ n + 1 \in 1 .. Q
      BY <1>6, <1>8, <1>16, <2>1, <2>2 DEF CanWrite
    <2>4. Len(w) = Len(v) + 1 /\ Len(v) = L + Q /\ at \in 1 .. L + Q
      <3>1. Len(w) = (L + n + 1) + (Q - n)
        BY <1>10, <2>1
      <3> QED BY <1>9, <2>1, <2>2, <3>1
    <2>5. v[at] = Rest(q[n + 1])
      <3>1. L + (n + 1) = at
        BY <2>2
      <3> QED BY <1>9, <2>3, <3>1
    <2>6. v[at].to = MsgSize /\ v[at].m = q[n + 1].m /\ v[at].from = q[n + 1].at
      BY <2>5 DEF Rest
    <2>7. \A i \in 1 .. at - 1 : w[i] = v[i]
      BY <1>11, <2>2
    <2>8. w[at] = [m |-> q[n + 1].m, from |-> q[n + 1].at, to |-> c]
      <3>1. at \in 1 .. L + n + d /\ L + (n + 1) = at /\ n + 1 \in 1 .. n + d
        BY <2>1, <2>2
      <3>2. Len(wr) = n + d
        BY <1>2, <1>7
      <3>3. str2[L + (n + 1)] = wr[n + 1]
        BY <1>5, <1>6, <3>1, <3>2
      <3>4. k # 0
        BY <1>16
      <3> QED BY <1>2, <1>10, <2>2, <3>1, <3>3, <3>4
    <2>9. w[at + 1] = [m |-> q[n + 1].m, from |-> c, to |-> MsgSize]
      <3>1. 1 \in 1 .. Q - n /\ L + n + d + 1 = at + 1
        BY <1>8, <2>1, <2>2
      <3>2. w[at + 1] = Rest(r[1])
        BY <1>10, <3>1
      <3> QED BY <1>13, <2>1, <2>2, <3>2 DEF Rest
    <2>10. ASSUME NEW i \in at + 2 .. Len(v) + 1 PROVE w[i] = v[i - 1]
      <3>1. PICK j \in Nat : j = i - at
        BY <2>2, <2>4
      <3>2. j \in 2 .. Q - n /\ j \in 1 .. Q - n /\ L + n + d + j = i /\ n + j \in 1 .. Q
            /\ L + (n + j) = i - 1
        BY <1>8, <2>1, <2>2, <2>4, <3>1
      <3>3. w[i] = Rest(r[j])
        BY <1>10, <3>2
      <3>4. v[i - 1] = Rest(q[n + j])
        BY <1>9, <3>2
      <3> QED BY <1>14, <3>2, <3>3, <3>4
    <2>11. Cut(v, w, at, c)
      BY <2>3, <2>4, <2>6, <2>7, <2>8, <2>9, <2>10 DEF Cut
    <2>12. Good(st, w) /\ \A a : InWire(v, a) => InWire(w, a)
      BY <1>3, <1>9, <1>10, <2>11, CutGood
    <2>13. Good(st, w) /\ Keeps(v, w) /\ Leads(str2, w)
      BY <1>5, <1>17, <2>12 DEF Keeps, Leads
    <2> QED BY <1>3, <1>4, <2>13
  <1> QED BY <1>15, <1>16

LEMMA LeadsGood ==
    ASSUME NEW st, NEW v \in Seq(Write), NEW str, Leads(str, v), Good(st, v)
    PROVE  WholeMessages(str) /\ Ordered(st, str)
  <1>1. /\ str \in Seq(Write) /\ Len(str) <= Len(v)
        /\ \A i \in 1 .. Len(str) : str[i] = v[i]
    BY DEF Leads
  <1>2. WholeMessages(v) /\ Ordered(st, v)
    BY DEF Good
  <1> QED BY <1>1, <1>2, PrefixGood

-----------------------------------------------------------------------------
(* The invariant of the streams                                             *)

\* What was written to a peer are messages to it that left the queues.
WireAt(s) == s \notin torn =>
    \A i \in Id : HASH_ID(i) = s =>
      \A p \in DOMAIN wire[i] :
        /\ wire[i][p].m \in DOMAIN sent /\ ~ Before(wire[i][p].m)
        /\ sent[wire[i][p].m].id = i

\* The sockets StreamOK is about.
Clean(i) == i \notin stale /\ "SHUTDOWN" \notin said[i]

FlowWire(s) == s \notin torn =>
    \A i \in Id : HASH_ID(i) = s /\ Clean(i) =>
      WholeMessages(wire[i]) /\ Ordered(sent, wire[i])

\* A socket that may write: force_close of a lost connection has dropped the
\* buffers already.
Running(s) ==
    /\ s \notin torn /\ sock[s].type \in Live \ {"HALFCLOSE_WRITE"} /\ Clean(sock[s].id)
    /\ ~ (fc.at = "lock" /\ fc.s = s /\ net[fc.id] \in Gone)

\* A socket i with stream str and buffers q: the stream goes on with the
\* buffers; a direct write may go between; nothing is missing until the socket
\* is being closed.
DirectOK(s, str) ==
    \A w \in Worker : call[w].at = "write" /\ HASH_ID(call[w].id) = s =>
      /\ Ends(str)
      /\ \A m \in DOMAIN sent : Ahead(sent, m, call[w].m) => InWire(str, m)

AllOK(i, v) ==
    \A m \in DOMAIN sent : sent[m].id = i /\ ~ sent[m].low => InWire(v, m) \/ Before(m)

FlowOK(s, i, str, q, closing) ==
    /\ Good(sent, Stream(str, q))
    /\ DirectOK(s, str)
    /\ ~ closing => AllOK(i, Stream(str, q))

FlowSock(s) == Running(s) =>
    FlowOK(s, sock[s].id, wire[sock[s].id], Line(sock[s]), sock[s].closing)

\* A write takes something, and at most the rest of its message.
TakenAt(s) ==
    \A i \in Id : HASH_ID(i) = s => \A p \in DOMAIN wire[i] : wire[i][p].to \in 1 .. MsgSize

FlowAt(s) == WireAt(s) /\ FlowWire(s) /\ FlowSock(s) /\ TakenAt(s)

LEMMA TakenKeep ==
    ASSUME NEW s, TakenAt(s), \A i \in Id : HASH_ID(i) = s => wire'[i] = wire[i]
    PROVE  TakenAt(s)'
  BY DEF TakenAt

LEMMA WireIs ==
    ASSUME NEW s,
           \A i \in Id : s \notin torn' /\ HASH_ID(i) = s =>
             \A p \in DOMAIN wire'[i] : \A m : m = wire'[i][p].m =>
               m \in DOMAIN sent' /\ ~ Before(m)' /\ sent'[m].id = i
    PROVE  WireAt(s)'
  <1> SUFFICES ASSUME s \notin torn', NEW i \in Id, HASH_ID(i) = s, NEW p \in DOMAIN wire'[i]
               PROVE  /\ wire'[i][p].m \in DOMAIN sent' /\ ~ Before(wire[i][p].m)'
                      /\ sent'[wire'[i][p].m].id = i
    BY DEF WireAt
  <1>1. PICK m : m = wire'[i][p].m
    OBVIOUS
  <1>2. m \in DOMAIN sent' /\ ~ Before(m)' /\ sent'[m].id = i
    BY <1>1
  <1> QED BY <1>1, <1>2 DEF Before

LEMMA WireHas ==
    ASSUME NEW s, WireAt(s), s \notin torn, NEW i \in Id, HASH_ID(i) = s, NEW p \in DOMAIN wire[i],
           NEW m, m = wire[i][p].m
    PROVE  m \in DOMAIN sent /\ ~ Before(m) /\ sent[m].id = i
  BY DEF WireAt

LEMMA WireKeep ==
    ASSUME NEW s, WireAt(s), Grow, OnlyLess, \A i \in Id : HASH_ID(i) = s => wire'[i] = wire[i]
    PROVE  WireAt(s)'
  <1> SUFFICES ASSUME NEW i \in Id, s \notin torn', HASH_ID(i) = s, NEW p \in DOMAIN wire'[i],
                      NEW m, m = wire'[i][p].m
               PROVE  m \in DOMAIN sent' /\ ~ Before(m)' /\ sent'[m].id = i
    BY WireIs
  <1>1. p \in DOMAIN wire[i] /\ m = wire[i][p].m /\ s \notin torn
    BY DEF Grow
  <1>2. m \in DOMAIN sent /\ ~ Before(m) /\ sent[m].id = i
    BY <1>1, WireHas
  <1> QED BY <1>2 DEF Grow, OnlyLess

LEMMA FlowOKIs ==
    ASSUME NEW s, NEW i, NEW str, NEW q, NEW closing,
           Good(sent', Stream(str, q)),
           \A w \in Worker : call'[w].at = "write" /\ HASH_ID(call'[w].id) = s =>
             /\ Ends(str)
             /\ \A m \in DOMAIN sent' : Ahead(sent', m, call'[w].m) => InWire(str, m),
           ~ closing => \A m \in DOMAIN sent' : sent'[m].id = i /\ ~ sent'[m].low =>
                          InWire(Stream(str, q), m) \/ Before(m)'
    PROVE  FlowOK(s, i, str, q, closing)'
  BY DEF FlowOK, DirectOK, AllOK

LEMMA FlowSockIs ==
    ASSUME NEW s, Running(s)' => \E i, str, q, closing :
             /\ i = sock'[s].id /\ str = wire'[i] /\ q = Line(sock'[s]) /\ closing = sock'[s].closing
             /\ FlowOK(s, i, str, q, closing)'
    PROVE  FlowSock(s)'
  BY DEF FlowSock, FlowOK, DirectOK, AllOK

LEMMA CleanKeep == ASSUME Grow, NEW i \in Id, Clean(i)' PROVE Clean(i)
  BY DEF Clean, Grow

LEMMA WireSent ==
    ASSUME NEW s, WireAt(s), s \notin torn, NEW i \in Id, HASH_ID(i) = s
    PROVE  \A p \in DOMAIN wire[i] : wire[i][p].m \in DOMAIN sent
  BY DEF WireAt

\* The streams of a slot to which nothing is written.
LEMMA FlowWireKeep ==
    ASSUME Types, Types', NEW s, WireAt(s), FlowWire(s), Grow,
           \A i \in Id : HASH_ID(i) = s => wire'[i] = wire[i]
    PROVE  FlowWire(s)'
  <1> SUFFICES ASSUME s \notin torn', NEW i \in Id, HASH_ID(i) = s, Clean(i)'
               PROVE  WholeMessages(wire'[i]) /\ Ordered(sent', wire'[i])
    BY DEF FlowWire
  <1>1. s \notin torn /\ Clean(i) /\ wire'[i] = wire[i]
    BY CleanKeep DEF Grow
  <1>2. WholeMessages(wire[i]) /\ Ordered(sent, wire[i])
    BY <1>1 DEF FlowWire
  <1>3. PICK v : v = wire[i]
    OBVIOUS
  <1>4. \A p \in DOMAIN v : v[p].m \in DOMAIN sent
    BY <1>1, <1>3, WireSent
  <1>5. Ordered(sent', v)
    BY <1>2, <1>3, <1>4, OrderedMore
  <1> QED BY <1>1, <1>2, <1>3, <1>5

LEMMA RunningId ==
    ASSUME IdInv, NEW s \in Slot, Running(s)
    PROVE  sock[s].id \in Id /\ HASH_ID(sock[s].id) = s /\ s \notin torn
  BY DEF IdInv, Running

LEMMA SlotLine ==
    ASSUME Types, NEW s \in Slot
    PROVE  sock[s] \in Sock /\ Line(sock[s]) \in Seq(Node)
  <1>1. sock[s] \in Sock
    BY DEF Types
  <1>2. PICK q : q = Line(sock[s])
    OBVIOUS
  <1>3. q \in Seq(Node)
    BY <1>1, <1>2, LineIs
  <1> QED BY <1>1, <1>2, <1>3

\* The messages of the stream of a socket.
LEMMA StreamSent ==
    ASSUME Types, IdInv, NEW s \in Slot, WireAt(s), ListAt(s), Running(s), NEW i, i = sock[s].id,
           NEW q, q = Line(sock[s]), NEW v, v = Stream(wire[i], q)
    PROVE  \A p \in DOMAIN v : v[p].m \in DOMAIN sent /\ ~ Before(v[p].m)
  <1>1. i \in Id /\ HASH_ID(i) = s /\ s \notin torn
    BY RunningId
  <1>2. PICK str \in Seq(Write) : str = wire[i]
    BY <1>1 DEF Types
  <1>3. PICK x \in Sock : x = sock[s]
    BY SlotLine
  <1>4. q \in Seq(Node) /\ \A j \in DOMAIN q : q[j] \in Nodes(x)
    BY <1>3, LineIs
  <1>5. IsStream(v, str, q)
    BY <1>2, <1>4, StreamIs
  <1>6. PICK L \in Nat, Q \in Nat : L = Len(str) /\ Q = Len(q)
    BY <1>5 DEF IsStream
  <1>7. /\ DOMAIN v = 1 .. L + Q /\ DOMAIN str = 1 .. L /\ DOMAIN q = 1 .. Q
        /\ \A j \in 1 .. L : v[j] = str[j]
        /\ \A j \in 1 .. Q : v[L + j] = Rest(q[j])
    BY <1>5, <1>6 DEF IsStream
  <1> SUFFICES ASSUME NEW p \in 1 .. L + Q
               PROVE  v[p].m \in DOMAIN sent /\ ~ Before(v[p].m)
    BY <1>7
  <1>8. CASE p <= L
    <2>1. p \in DOMAIN wire[i] /\ v[p].m = wire[i][p].m
      BY <1>2, <1>7, <1>8
    <2>2. PICK m : m = v[p].m
      OBVIOUS
    <2>3. m \in DOMAIN sent /\ ~ Before(m)
      BY <1>1, <2>1, <2>2, WireHas
    <2> QED BY <2>2, <2>3
  <1>9. CASE p > L
    <2>1. PICK j \in Nat : j = p - L
      BY <1>9
    <2>2. j \in 1 .. Q /\ L + j = p
      BY <1>9, <2>1
    <2>3. v[p].m = q[j].m /\ q[j] \in Nodes(x)
      <3>1. v[p] = Rest(q[j])
        BY <1>7, <2>2
      <3>2. q[j] \in Nodes(x)
        BY <1>4, <1>7, <2>2
      <3>3. Rest(q[j]).m = q[j].m
        BY DEF Rest
      <3> QED BY <3>1, <3>2, <3>3
    <2>4. PICK b : b = q[j]
      OBVIOUS
    <2>5. b.m \in DOMAIN sent /\ ~ Before(b.m)
      <3>1. b \in Nodes(sock[s])
        BY <1>3, <2>3, <2>4
      <3>2. \A a \in Nodes(sock[s]) : a.m \in DOMAIN sent /\ ~ Before(a.m)
        BY DEF ListAt
      <3> QED BY <3>1, <3>2
    <2> QED BY <2>3, <2>4, <2>5
  <1> QED BY <1>8, <1>9

\* A message on its way is not in the stream yet.
LEMMA NotInStream ==
    ASSUME Types, IdInv, NEW s \in Slot, WireAt(s), ListAt(s), Running(s), NEW i, i = sock[s].id,
           NEW str, str = wire[i], NEW q, q = Line(sock[s]), NEW m, Before(m)
    PROVE  ~ InWire(Stream(str, q), m)
  <1>1. PICK v : v = Stream(str, q)
    OBVIOUS
  <1>2. v = Stream(wire[i], q)
    BY <1>1
  <1>3. \A p \in DOMAIN v : v[p].m \in DOMAIN sent /\ ~ Before(v[p].m)
    BY <1>2, StreamSent
  <1>4. ASSUME NEW p \in DOMAIN v, v[p].m = m PROVE FALSE
    <2>1. ~ Before(m)
      BY <1>3, <1>4
    <2> QED BY <2>1
  <1> QED BY <1>1, <1>4 DEF InWire

\* The stream and the direct writes of slot s stay.
FlowSame(s) ==
    /\ Running(s) /\ sock'[s].id = sock[s].id
    /\ wire'[sock[s].id] = wire[sock[s].id]
    /\ Line(sock'[s]) = Line(sock[s]) /\ (sock[s].closing => sock'[s].closing)
    /\ \A w \in Worker : call'[w].at = "write" /\ HASH_ID(call'[w].id) = s => call'[w] = call[w]
    /\ ~ sock'[s].closing => \A m \in DOMAIN sent' : sent'[m].id = sock[s].id =>
         Before(m)' \/ (m \in DOMAIN sent /\ ~ Before(m))

LEMMA FlowKeep ==
    ASSUME Types, Types', IdInv, CallInv, NEW s \in Slot, WireAt(s), ListAt(s), FlowSock(s), Grow,
           Running(s)' => FlowSame(s)
    PROVE  FlowSock(s)'
  <1> SUFFICES ASSUME Running(s)'
               PROVE  \E i, str, q, closing :
                        /\ i = sock'[s].id /\ str = wire'[i] /\ q = Line(sock'[s])
                        /\ closing = sock'[s].closing /\ FlowOK(s, i, str, q, closing)'
    BY FlowSockIs
  <1>1. FlowSame(s)
    OBVIOUS
  <1>2. Running(s) /\ sock'[s].id = sock[s].id /\ wire'[sock[s].id] = wire[sock[s].id]
        /\ Line(sock'[s]) = Line(sock[s]) /\ (sock[s].closing => sock'[s].closing)
    BY <1>1 DEF FlowSame
  <1>3. PICK i, q, cl : i = sock[s].id /\ q = Line(sock[s]) /\ cl = sock'[s].closing
    OBVIOUS
  <1>4. PICK str : str = wire[i]
    OBVIOUS
  <1>5. PICK v : v = Stream(str, q)
    OBVIOUS
  <1>6. FlowOK(s, i, str, q, sock[s].closing)
    BY <1>2, <1>3, <1>4 DEF FlowSock
  <1>7. /\ Good(sent, v) /\ DirectOK(s, str) /\ (~ sock[s].closing => AllOK(i, v))
    BY <1>5, <1>6 DEF FlowOK
  <1>8. \A p \in DOMAIN v : v[p].m \in DOMAIN sent
    BY <1>2, <1>3, <1>4, <1>5, StreamSent
  <1>9. Good(sent', Stream(str, q))
    <2>1. Ordered(sent', v)
      BY <1>7, <1>8, OrderedMore DEF Good
    <2> QED BY <1>5, <1>7, <2>1 DEF Good
  <1>10. ASSUME NEW w \in Worker, call'[w].at = "write", HASH_ID(call'[w].id) = s
         PROVE  Ends(str) /\ \A m \in DOMAIN sent' : Ahead(sent', m, call'[w].m) => InWire(str, m)
    <2>1. call'[w] = call[w]
      BY <1>1, <1>10 DEF FlowSame
    <2>2. PICK b : b = call[w].m
      OBVIOUS
    <2>3. call[w].at = "write" /\ HASH_ID(call[w].id) = s /\ call'[w].m = b
      BY <1>10, <2>1, <2>2
    <2>4. b \in DOMAIN sent
      BY <2>2, <2>3 DEF CallInv, Msg
    <2>5. Ends(str) /\ \A m \in DOMAIN sent : Ahead(sent, m, b) => InWire(str, m)
      BY <1>7, <2>2, <2>3 DEF DirectOK
    <2>6. ASSUME NEW m \in DOMAIN sent', Ahead(sent', m, b) PROVE InWire(str, m)
      <3>1. m \in DOMAIN sent /\ Ahead(sent, m, b)
        BY <2>4, <2>6, AheadMore
      <3> QED BY <2>5, <3>1
    <2> QED BY <2>3, <2>5, <2>6
  <1>11. ASSUME ~ cl, NEW m \in DOMAIN sent', sent'[m].id = i, ~ sent'[m].low
         PROVE  InWire(Stream(str, q), m) \/ Before(m)'
    <2>1. Before(m)' \/ (m \in DOMAIN sent /\ ~ Before(m))
      BY <1>1, <1>3, <1>11 DEF FlowSame
    <2>2. CASE m \in DOMAIN sent /\ ~ Before(m)
      <3>1. sent'[m] = sent[m]
        BY <2>2 DEF Grow
      <3>2. AllOK(i, v)
        BY <1>2, <1>3, <1>7, <1>11
      <3> QED BY <1>5, <1>11, <2>2, <3>1, <3>2 DEF AllOK
    <2> QED BY <2>1, <2>2
  <1>12. FlowOK(s, i, str, q, cl)'
    BY <1>9, <1>10, <1>11, FlowOKIs
  <1> QED BY <1>2, <1>3, <1>4, <1>12

\* A message on its way to the socket of another slot stays on it.
LEMMA BeforeApart ==
    ASSUME Types, Types', CallInv, PipeInv, NEW t \in Slot, Apart(t), NEW m \in DOMAIN sent,
           HASH_ID(sent[m].id) = t, Before(m)
    PROVE  Before(m)'
  <1>1. CASE \E w \in Worker : call[w].at \in Msg \ {"W"} /\ call[w].m = m
    <2>1. PICK w \in Worker : call[w].at \in Msg \ {"W"} /\ call[w].m = m
      BY <1>1
    <2>2. sent[call[w].m].id = call[w].id /\ call[w].at # "idle"
      BY <2>1 DEF CallInv, Msg
    <2>3. HASH_ID(call[w].id) = t
      BY <2>1, <2>2
    <2>4. call'[w] = call[w]
      BY <2>2, <2>3, ApartCall
    <2> QED BY <2>1, <2>4 DEF Before
  <1>2. CASE \E p \in DOMAIN pipe : pipe[p].c \in Data /\ pipe[p].m = m
    <2>1. PICK p \in DOMAIN pipe : pipe[p].c \in Data /\ pipe[p].m = m
      BY <1>2
    <2>2. sent[pipe[p].m].id = pipe[p].id
      BY <2>1 DEF PipeInv
    <2>3. HASH_ID(pipe[p].id) = t
      BY <2>1, <2>2
    <2>4. PICK d \in {0, 1} : \A q \in DOMAIN pipe : HASH_ID(pipe[q].id) = t =>
             q - d \in DOMAIN pipe' /\ pipe'[q - d] = pipe[q]
      BY ApartPipe
    <2>5. p - d \in DOMAIN pipe' /\ pipe'[p - d] = pipe[p]
      BY <2>3, <2>4
    <2> QED BY <2>1, <2>5 DEF Before
  <1> QED BY <1>1, <1>2 DEF Before

LEMMA FlowFrame ==
    ASSUME Types, Types', IdInv, IdInv', CallInv, PipeInv, NEW t \in Slot, Apart(t), Grow, OnlyLess,
           ListAt(t), FlowAt(t)
    PROVE  FlowAt(t)'
  <1>1. WireAt(t) /\ FlowWire(t) /\ FlowSock(t) /\ TakenAt(t)
    BY DEF FlowAt
  <1>2. \A i \in Id : HASH_ID(i) = t => wire'[i] = wire[i] /\ said'[i] = said[i] /\ net'[i] = net[i]
    BY DEF Apart
  <1>3. WireAt(t)'
    BY <1>1, <1>2, WireKeep
  <1>4. FlowWire(t)'
    BY <1>1, <1>2, FlowWireKeep
  <1>5. ASSUME Running(t)' PROVE FlowSame(t)
    <2>1. sock'[t] = sock[t] /\ t \notin torn
      BY <1>5 DEF Apart, Running, Grow
    <2>2. sock[t].id \in Id /\ HASH_ID(sock[t].id) = t
      BY <1>5, <2>1 DEF Running, IdInv
    <2>3. Running(t)
      <3>1. Clean(sock[t].id)
        BY <1>5, <2>1, <2>2 DEF Clean, Running, Grow
      <3>2. ASSUME fc.at = "lock", fc.s = t, net[fc.id] \in Gone PROVE FALSE
        <4>1. fc' = fc
          BY <3>2 DEF Apart
        <4>2. fc.id \in Id /\ HASH_ID(fc.id) = t
          BY <3>2 DEF IdInv
        <4>3. net'[fc'.id] = net[fc.id]
          BY <1>2, <4>1, <4>2
        <4> QED BY <1>5, <3>2, <4>1, <4>3 DEF Running
      <3> QED BY <1>5, <2>1, <3>1, <3>2 DEF Running
    <2>4. \A w \in Worker : call'[w].at = "write" /\ HASH_ID(call'[w].id) = t => call'[w] = call[w]
      BY ApartCall
    <2>5. ASSUME NEW m \in DOMAIN sent', sent'[m].id = sock[t].id
          PROVE  Before(m)' \/ (m \in DOMAIN sent /\ ~ Before(m))
      <3>1. m \in DOMAIN sent
        BY <2>2, <2>5 DEF Apart
      <3>2. HASH_ID(sent[m].id) = t
        BY <2>2, <2>5, <3>1 DEF Grow
      <3> QED BY <3>1, <3>2, BeforeApart
    <2> QED BY <1>2, <2>1, <2>2, <2>3, <2>4, <2>5 DEF FlowSame
  <1>6. FlowSock(t)'
    BY <1>1, <1>5, FlowKeep
  <1>7. TakenAt(t)'
    BY <1>1, <1>2, TakenKeep
  <1> QED BY <1>3, <1>4, <1>6, <1>7 DEF FlowAt

LEMMA StreamEmpty == ASSUME NEW str \in Seq(Write) PROVE Stream(str, << >>) = str
  <1>1. PICK q \in Seq(Node) : q = << >>
    BY EmptySeq
  <1>2. PICK v : v = Stream(str, q)
    OBVIOUS
  <1>3. IsStream(v, str, q)
    BY <1>2, StreamIs
  <1>4. Len(q) = 0
    BY <1>1
  <1>5. v \in Seq(Write) /\ Len(v) = Len(str) /\ \A i \in 1 .. Len(v) : v[i] = str[i]
    BY <1>3, <1>4 DEF IsStream
  <1>6. v = str
    BY <1>5, SameStream
  <1> QED BY <1>1, <1>2, <1>6

\* A buffer b put in list q behind its first n.
Placed(q, r, n, b) ==
    /\ n \in 0 .. Len(q) /\ Len(r) = Len(q) + 1
    /\ \A i \in 1 .. n : r[i] = q[i]
    /\ r[n + 1] = b
    /\ \A i \in n + 2 .. Len(q) + 1 : r[i] = q[i - 1]

\* What is ahead of m has been written or is among the first n buffers.
FitsBehind(st, str, q, n, m) ==
    /\ n = 0 => Ends(str)
    /\ \A a \in DOMAIN st : Ahead(st, a, m) => InWire(str, a) \/ \E i \in 1 .. n : q[i].m = a

LEMMA PlaceGood ==
    ASSUME NEW st, NEW str \in Seq(Write), NEW q \in Seq(Node), NEW r \in Seq(Node), NEW n, NEW m,
           Placed(q, r, n, Buffer(m)), Good(st, Stream(str, q)), ~ InWire(Stream(str, q), m),
           FitsBehind(st, str, q, n, m)
    PROVE  /\ Good(st, Stream(str, r)) /\ InWire(Stream(str, r), m)
           /\ Keeps(Stream(str, q), Stream(str, r))
  <1> USE Bounds
  <1>1. PICK v, w : v = Stream(str, q) /\ w = Stream(str, r)
    OBVIOUS
  <1>2. IsStream(v, str, q) /\ IsStream(w, str, r)
    BY <1>1, StreamIs
  <1>3. PICK L \in Nat, Q \in Nat : L = Len(str) /\ Q = Len(q)
    BY <1>2 DEF IsStream
  <1>4. /\ n \in Nat /\ n <= Q /\ Len(r) = Q + 1
        /\ \A i \in 1 .. n : r[i] = q[i]
        /\ r[n + 1] = Buffer(m)
        /\ \A i \in n + 2 .. Q + 1 : r[i] = q[i - 1]
    BY <1>3 DEF Placed
  <1>5. /\ v \in Seq(Write) /\ Len(v) = L + Q /\ DOMAIN str = 1 .. L /\ DOMAIN v = 1 .. L + Q
        /\ \A i \in 1 .. L : v[i] = str[i]
        /\ \A i \in 1 .. Q : v[L + i] = Rest(q[i])
    BY <1>2, <1>3 DEF IsStream
  <1>6. /\ w \in Seq(Write) /\ Len(w) = L + (Q + 1)
        /\ \A i \in 1 .. L : w[i] = str[i]
        /\ \A i \in 1 .. Q + 1 : w[L + i] = Rest(r[i])
    BY <1>2, <1>3, <1>4 DEF IsStream
  <1>7. PICK at \in Nat : at = L + n + 1
    BY <1>4
  <1>8. ASSUME NEW i \in 1 .. at - 1 PROVE w[i] = v[i]
    <2>1. CASE i <= L
      BY <1>5, <1>6, <2>1
    <2>2. CASE i > L
      <3>1. PICK j \in Nat : j = i - L
        BY <2>2
      <3>2. j \in 1 .. n /\ L + j = i /\ j \in 1 .. Q /\ j \in 1 .. Q + 1
        BY <1>4, <1>7, <2>2, <3>1
      <3>3. w[i] = Rest(r[j])
        BY <1>6, <3>2
      <3>4. v[i] = Rest(q[j])
        BY <1>5, <3>2
      <3>5. r[j] = q[j]
        BY <1>4, <3>2
      <3> QED BY <3>3, <3>4, <3>5
    <2> QED BY <2>1, <2>2
  <1>9. w[at] = [m |-> m, from |-> 0, to |-> MsgSize]
    <2>1. n + 1 \in 1 .. Q + 1 /\ L + (n + 1) = at
      BY <1>4, <1>7
    <2>2. w[at] = Rest(Buffer(m))
      BY <1>4, <1>6, <2>1
    <2> QED BY <2>2 DEF Rest, Buffer
  <1>10. ASSUME NEW i \in at + 1 .. Len(v) + 1 PROVE w[i] = v[i - 1]
    <2>1. PICK j \in Nat : j = i - L
      BY <1>4, <1>5, <1>7
    <2>2. j \in n + 2 .. Q + 1 /\ j \in 1 .. Q + 1 /\ L + j = i /\ j - 1 \in 1 .. Q
          /\ L + (j - 1) = i - 1
      BY <1>4, <1>5, <1>7, <2>1
    <2>3. w[i] = Rest(r[j])
      BY <1>6, <2>2
    <2>4. v[i - 1] = Rest(q[j - 1])
      BY <1>5, <2>2
    <2> QED BY <1>4, <2>2, <2>3, <2>4
  <1>11. Len(w) = Len(v) + 1 /\ at \in 1 .. Len(v) + 1
    BY <1>4, <1>5, <1>6, <1>7
  <1>12. Inserted(v, w, at, m)
    BY <1>8, <1>9, <1>10, <1>11 DEF Inserted
  <1>13. ASSUME at > 1 PROVE v[at - 1].to = MsgSize
    <2>1. CASE n = 0
      <3>1. L # 0 /\ at - 1 = L /\ v[L] = str[L]
        BY <1>4, <1>5, <1>7, <1>13, <2>1
      <3> QED BY <1>3, <2>1, <3>1 DEF Ends, FitsBehind
    <2>2. CASE n # 0
      <3>1. n \in 1 .. Q /\ L + n = at - 1
        BY <1>4, <1>7, <2>2
      <3>2. v[at - 1] = Rest(q[n])
        BY <1>5, <3>1
      <3> QED BY <3>2 DEF Rest
    <2> QED BY <2>1, <2>2
  <1>14. ASSUME NEW a \in DOMAIN st, Ahead(st, a, m) PROVE \E p \in 1 .. at - 1 : v[p].m = a
    <2>1. CASE InWire(str, a)
      <3>1. PICK p \in 1 .. L : str[p].m = a
        BY <1>5, <2>1 DEF InWire
      <3>2. p \in 1 .. at - 1
        BY <1>4, <1>7
      <3> QED BY <1>5, <3>1, <3>2
    <2>2. CASE \E i \in 1 .. n : q[i].m = a
      <3>1. PICK i \in 1 .. n : q[i].m = a
        BY <2>2
      <3>2. L + i \in 1 .. at - 1 /\ i \in 1 .. Q
        BY <1>4, <1>7
      <3>3. v[L + i] = Rest(q[i])
        BY <1>5, <3>2
      <3>4. v[L + i].m = a
        BY <3>1, <3>3 DEF Rest
      <3> QED BY <3>2, <3>4
    <2> QED BY <1>14, <2>1, <2>2 DEF FitsBehind
  <1>15. Good(st, w) /\ InWire(w, m) /\ Keeps(v, w)
    <2>1. Good(st, v) /\ ~ InWire(v, m) /\ v \in Seq(Write) /\ w \in Seq(Write)
      BY <1>1, <1>5, <1>6
    <2>2. Fits(st, v, at, m)
      BY <1>13, <1>14, <2>1 DEF Fits
    <2> QED BY <1>12, <2>1, <2>2, InsertGood
  <1> QED BY <1>1, <1>15

\* A direct write of k units, the rest of the message before the other buffers.
LEMMA DirectGood ==
    ASSUME NEW st, NEW str \in Seq(Write), NEW q \in Seq(Node), NEW r \in Seq(Node), NEW m \in Nat,
           NEW k \in 0 .. MsgSize, Good(st, Stream(str, q)), Ends(str), ~ InWire(Stream(str, q), m),
           \A a \in DOMAIN st : Ahead(st, a, m) => InWire(str, a),
           NEW str2, str2 = str \o Wrote(Buffer(m), k),
           k = MsgSize => r = q,
           k # MsgSize => Placed(q, r, 0, [m |-> m, at |-> k])
    PROVE  /\ Good(st, Stream(str2, r)) /\ InWire(Stream(str2, r), m)
           /\ Keeps(Stream(str, q), Stream(str2, r)) /\ Leads(str2, Stream(str2, r))
  <1> USE Bounds
  <1>1. Buffer(m) \in Node /\ Buffer(m).m = m /\ Buffer(m).at = 0
    BY BufferType
  <1>2. PICK o \in Seq(Node) : o = <<Buffer(m)>>
    BY <1>1, SingleSeq
  <1>3. Len(o) = 1 /\ o[1] = Buffer(m)
    BY <1>2
  <1>4. PICK q1 : q1 = o \o q
    OBVIOUS
  <1>5. q1 \in Seq(Node) /\ Joins(q1, o, q)
    BY <1>4, CatNodeIs
  <1>6. PICK Q \in Nat : Q = Len(q)
    BY <1>5 DEF Joins
  <1>7. Len(q1) = Q + 1 /\ q1[1] = Buffer(m) /\ \A i \in 1 .. Q : q1[1 + i] = q[i]
    BY <1>3, <1>5, <1>6 DEF Joins
  <1>8. Placed(q, q1, 0, Buffer(m))
    <2>1. ASSUME NEW i \in 2 .. Q + 1 PROVE q1[i] = q[i - 1]
      <3>1. i - 1 \in 1 .. Q /\ 1 + (i - 1) = i
        BY <1>6
      <3> QED BY <1>7, <3>1
    <2>2. /\ 0 \in 0 .. Q /\ \A i \in 1 .. 0 : q1[i] = q[i]
      BY <1>6
    <2>3. q1[0 + 1] = Buffer(m) /\ \A i \in 0 + 2 .. Q + 1 : q1[i] = q[i - 1]
      BY <1>7, <2>1
    <2> QED BY <1>6, <1>7, <2>2, <2>3 DEF Placed
  <1>9. /\ Good(st, Stream(str, q1)) /\ InWire(Stream(str, q1), m)
        /\ Keeps(Stream(str, q), Stream(str, q1))
    <2>1. PICK z : z = 0
      OBVIOUS
    <2>2. Placed(q, q1, z, Buffer(m)) /\ q1 \in Seq(Node)
      BY <1>5, <1>8, <2>1
    <2>3. FitsBehind(st, str, q, z, m)
      BY DEF FitsBehind
    <2> QED BY <2>2, <2>3, PlaceGood
  <1>10. CASE k = MsgSize
    <2>1. RestOf(q1, r, 1, 0)
      <3>1. ASSUME 1 < Len(q1) PROVE r[1].m = q1[1 + 1].m /\ r[1].at = q1[1 + 1].at + 0
        <4>1. 1 \in 1 .. Q
          BY <1>6, <1>7, <3>1
        <4>2. q1[1 + 1] = q[1] /\ q[1] \in Node
          BY <1>6, <1>7, <4>1
        <4>3. q[1].at \in Nat
          BY <4>2 DEF Node
        <4> QED BY <1>10, <4>2, <4>3
      <3>2. ASSUME NEW i \in 2 .. Len(q1) - 1 PROVE r[i] = q1[1 + i]
        <4>1. i \in 1 .. Q
          BY <1>6, <1>7
        <4> QED BY <1>7, <1>10, <4>1
      <3>3. Len(r) = Len(q1) - 1
        BY <1>6, <1>7, <1>10
      <3> QED BY <3>1, <3>2, <3>3 DEF RestOf
    <2>a. PICK one \in Nat, z \in 0 .. MsgSize - 1 : one = 1 /\ z = 0
      OBVIOUS
    <2>b. one <= Len(q1) /\ (z > 0 => one < Len(q1) /\ q1[one + 1].at + z < MsgSize)
      BY <1>6, <1>7, <2>a
    <2>2. Writes(q1, one, z) = Wrote(Buffer(m), k)
      <3>1. PICK a, b : a = Writes(q1, one, z) /\ b = Wrote(Buffer(m), k)
        OBVIOUS
      <3>2. /\ a \in Seq(Write)
            /\ Len(a) = one + IF z = 0 THEN 0 ELSE 1
            /\ \A i \in 1 .. one : a[i] = [m |-> q1[i].m, from |-> q1[i].at, to |-> MsgSize]
        <4>1. AreWrites(a, q1, one, z)
          <5>1. q1 \in Seq(Node) /\ CanWrite(q1, one, z)
            BY <1>5, <2>b DEF CanWrite
          <5> QED BY <3>1, <5>1, WritesIs
        <4> QED BY <4>1 DEF AreWrites
      <3>3. Len(a) = 1 /\ a[1] = [m |-> m, from |-> 0, to |-> MsgSize]
        <4>1. Len(a) = 1 /\ 1 \in 1 .. one
          BY <2>a, <3>2
        <4>2. a[1] = [m |-> q1[1].m, from |-> q1[1].at, to |-> MsgSize]
          BY <3>2, <4>1
        <4> QED BY <1>1, <1>7, <4>1, <4>2
      <3>4. b = <<[m |-> m, from |-> 0, to |-> MsgSize]>>
        BY <1>1, <1>10, <3>1 DEF Wrote
      <3>5. [m |-> m, from |-> 0, to |-> MsgSize] \in Write
        BY DEF Write
      <3>6. b \in Seq(Write) /\ Len(b) = 1 /\ b[1] = [m |-> m, from |-> 0, to |-> MsgSize]
        BY <3>4, <3>5, SingleSeq
      <3>7. a = b
        BY <3>2, <3>3, <3>6, SameStream
      <3> QED BY <3>1, <3>7
    <2>3. str2 = str \o Writes(q1, one, z)
      BY <2>2
    <2>4. RestOf(q1, r, one, z)
      BY <2>1, <2>a
    <2>5. /\ Good(st, Stream(str2, r))
          /\ Keeps(Stream(str, q1), Stream(str2, r)) /\ Leads(str2, Stream(str2, r))
      <3>1. Good(st, Stream(str, q1)) /\ q1 \in Seq(Node)
        BY <1>5, <1>9
      <3>2. CanWrite(q1, one, z)
        BY <2>b DEF CanWrite
      <3> QED BY <2>3, <2>4, <3>1, <3>2, WriteGood
    <2> QED BY <1>9, <2>5 DEF Keeps
  <1>11. CASE k # MsgSize
    <2>1. k \in 0 .. MsgSize - 1
      BY <1>11
    <2>2. Placed(q, r, 0, [m |-> m, at |-> k])
      BY <1>11
    <2>3. Len(r) = Q + 1 /\ r[1] = [m |-> m, at |-> k] /\ \A i \in 2 .. Q + 1 : r[i] = q[i - 1]
      BY <1>6, <2>2 DEF Placed
    <2>4. RestOf(q1, r, 0, k)
      <3>1. ASSUME NEW i \in 2 .. Len(q1) - 0 PROVE r[i] = q1[0 + i]
        <4>1. i \in 2 .. Q + 1 /\ i - 1 \in 1 .. Q /\ 1 + (i - 1) = i /\ 0 + i = i
          BY <1>6, <1>7
        <4> QED BY <1>7, <2>3, <4>1
      <3>2. r[1].m = q1[0 + 1].m /\ r[1].at = q1[0 + 1].at + k
        BY <1>1, <1>7, <2>1, <2>3
      <3>3. Len(r) = Len(q1) - 0
        BY <1>6, <1>7, <2>3
      <3> QED BY <3>1, <3>2, <3>3 DEF RestOf
    <2>5. 0 <= Len(q1) /\ 0 \in Nat /\ (k > 0 => 0 < Len(q1) /\ q1[0 + 1].at + k < MsgSize)
      BY <1>1, <1>6, <1>7, <2>1
    <2>a. PICK z \in Nat : z = 0
      OBVIOUS
    <2>b. z <= Len(q1) /\ (k > 0 => z < Len(q1) /\ q1[z + 1].at + k < MsgSize)
      BY <2>5, <2>a
    <2>6. Writes(q1, z, k) = Wrote(Buffer(m), k)
      <3>1. PICK a, b : a = Writes(q1, z, k) /\ b = Wrote(Buffer(m), k)
        OBVIOUS
      <3>2. /\ a \in Seq(Write) /\ Len(a) = z + IF k = 0 THEN 0 ELSE 1
            /\ k # 0 => a[z + 1] = [m |-> q1[z + 1].m, from |-> q1[z + 1].at, to |-> q1[z + 1].at + k]
        <4>1. AreWrites(a, q1, z, k)
          <5>1. q1 \in Seq(Node) /\ CanWrite(q1, z, k)
            BY <1>5, <2>b DEF CanWrite
          <5> QED BY <2>1, <3>1, <5>1, WritesIs
        <4> QED BY <4>1 DEF AreWrites
      <3>3. CASE k = 0
        BY <2>a, <3>1, <3>2, <3>3 DEF Wrote
      <3>4. CASE k # 0
        <4>1. Len(a) = 1 /\ a[1] = [m |-> m, from |-> 0, to |-> k]
          <5>1. Len(a) = 1 /\ z + 1 = 1
            BY <2>a, <3>2, <3>4
          <5>2. a[1] = [m |-> q1[1].m, from |-> q1[1].at, to |-> q1[1].at + k]
            BY <3>2, <3>4, <5>1
          <5> QED BY <1>1, <1>7, <2>1, <5>1, <5>2
        <4>2. b = <<[m |-> m, from |-> 0, to |-> k]>>
          BY <1>1, <2>1, <3>1, <3>4 DEF Wrote
        <4>3. [m |-> m, from |-> 0, to |-> k] \in Write
          BY <2>1 DEF Write
        <4>4. b \in Seq(Write) /\ Len(b) = 1 /\ b[1] = [m |-> m, from |-> 0, to |-> k]
          BY <4>2, <4>3, SingleSeq
        <4>5. a = b
          BY <3>2, <4>1, <4>4, SameStream
        <4> QED BY <3>1, <4>5
      <3> QED BY <3>3, <3>4
    <2>7. str2 = str \o Writes(q1, z, k) /\ RestOf(q1, r, z, k)
      BY <2>4, <2>6, <2>a
    <2>8. /\ Good(st, Stream(str2, r))
          /\ Keeps(Stream(str, q1), Stream(str2, r)) /\ Leads(str2, Stream(str2, r))
      <3>1. Good(st, Stream(str, q1)) /\ q1 \in Seq(Node)
        BY <1>5, <1>9
      <3>2. CanWrite(q1, z, k)
        BY <2>1, <2>b DEF CanWrite
      <3> QED BY <2>1, <2>7, <3>1, <3>2, WriteGood
    <2> QED BY <1>9, <2>8 DEF Keeps
  <1> QED BY <1>10, <1>11

\* A socket that may write could write before.
LEMMA RunningBack ==
    ASSUME Types, IdInv, NEW s \in Slot, Grow, Running(s)', sock'[s].id = sock[s].id,
           sock[s].type \in Live \ {"HALFCLOSE_WRITE"},
           fc.at = "lock" => fc' = fc /\ (net[fc.id] \in Gone => net'[fc.id] \in Gone)
    PROVE  Running(s)
  <1>1. sock[s].id \in Id
    BY DEF IdInv
  <1>2. Clean(sock[s].id)' /\ s \notin torn'
    BY DEF Running
  <1>3. PICK i \in Id : i = sock[s].id
    BY <1>1
  <1>4. Clean(i)'
    BY <1>2, <1>3 DEF Clean
  <1>5. Clean(i) /\ s \notin torn
    BY <1>2, <1>4, CleanKeep DEF Grow
  <1>6. ASSUME fc.at = "lock", fc.s = s, net[fc.id] \in Gone PROVE FALSE
    BY <1>6 DEF Running
  <1> QED BY <1>3, <1>5, <1>6 DEF Running

LEMMA FlowQuiet ==
    ASSUME Types, Types', IdInv, CallInv, NEW s \in Slot, ListAt(s), FlowAt(s), Grow, OnlyLess,
           \A i \in Id : HASH_ID(i) = s => wire'[i] = wire[i],
           Running(s)' => FlowSame(s)
    PROVE  FlowAt(s)'
  <1>1. WireAt(s) /\ FlowWire(s) /\ FlowSock(s) /\ TakenAt(s)
    BY DEF FlowAt
  <1>2. WireAt(s)'
    BY <1>1, WireKeep
  <1>3. FlowWire(s)'
    BY <1>1, FlowWireKeep
  <1>4. FlowSock(s)'
    BY <1>1, FlowKeep
  <1>5. TakenAt(s)'
    BY <1>1, TakenKeep
  <1> QED BY <1>2, <1>3, <1>4, <1>5 DEF FlowAt

\* The socket, its lists and what is on the way to them stay.
LEMMA FlowStay ==
    ASSUME Types, Types', IdInv, CallInv, NEW s \in Slot, ListAt(s), FlowAt(s), Grow, OnlyLess,
           \A i \in Id : HASH_ID(i) = s => wire'[i] = wire[i],
           sock'[s].id = sock[s].id, SameLists(s), sock[s].closing => sock'[s].closing,
           Running(s)' => sock[s].type \in Live \ {"HALFCLOSE_WRITE"},
           fc.at = "lock" => fc' = fc /\ (net[fc.id] \in Gone => net'[fc.id] \in Gone),
           \A w \in Worker : call'[w].at = "write" => call'[w] = call[w],
           ~ sock'[s].closing => \A m \in DOMAIN sent' : sent'[m].id = sock[s].id =>
             Before(m)' \/ (m \in DOMAIN sent /\ ~ Before(m))
    PROVE  FlowAt(s)'
  <1>1. ASSUME Running(s)' PROVE FlowSame(s)
    <2>1. Running(s)
      BY <1>1, RunningBack
    <2>2. sock[s].id \in Id /\ HASH_ID(sock[s].id) = s
      BY <2>1, RunningId
    <2>3. Line(sock'[s]) = Line(sock[s])
      BY LineSame DEF SameLists
    <2> QED BY <2>1, <2>2, <2>3 DEF FlowSame
  <1> QED BY <1>1, FlowQuiet

\* What a worker does takes no message off the way but its own.
LEMMA BeforeGo ==
    ASSUME Types, NEW w \in Worker, \A v \in Worker : v # w => call'[v] = call[v],
           pipe' = pipe \/ \E c \in Cmd : pipe' = Append(pipe, c),
           NEW m, Before(m), call[w].at \in Msg \ {"W"} /\ call[w].m = m => Before(m)'
    PROVE  Before(m)'
  <1>1. ASSUME NEW v \in Worker, call[v].at \in Msg \ {"W"}, call[v].m = m PROVE Before(m)'
    <2>1. CASE v = w
      BY <1>1, <2>1
    <2>2. CASE v # w
      <3>1. call'[v] = call[v]
        BY <2>2
      <3> QED BY <1>1, <3>1 DEF Before
    <2> QED BY <2>1, <2>2
  <1>2. ASSUME NEW p \in DOMAIN pipe, pipe[p].c \in Data, pipe[p].m = m PROVE Before(m)'
    <2>1. p \in DOMAIN pipe' /\ pipe'[p] = pipe[p]
      <3>1. ASSUME NEW c \in Cmd, pipe' = Append(pipe, c) PROVE p \in DOMAIN pipe' /\ pipe'[p] = pipe[p]
        BY <3>1 DEF Types
      <3> QED BY <3>1
    <2> QED BY <1>2, <2>1 DEF Before
  <1> QED BY <1>1, <1>2 DEF Before

\* A worker's step that writes nothing and takes no lock.
LEMMA FlowAsk ==
    ASSUME Types, Types', IdInv, CallInv, NEW s \in Slot, ListAt(s), FlowAt(s), Grow, OnlyLess,
           sock'[s].id = sock[s].id, SameLists(s), SameType(s),
           fc' = fc, net' = net, wire' = wire,
           NEW w \in Worker, \A v \in Worker : v # w => call'[v] = call[v],
           call'[w].at # "write" \/ call'[w] = call[w],
           pipe' = pipe \/ \E c \in Cmd : pipe' = Append(pipe, c),
           NEW n, n = call[w].m, call[w].at \in Msg \ {"W"} => Before(n)',
           \A m \in DOMAIN sent' : m \in DOMAIN sent \/ Before(m)'
    PROVE  FlowAt(s)'
  <1>1. ASSUME NEW m \in DOMAIN sent' PROVE Before(m)' \/ (m \in DOMAIN sent /\ ~ Before(m))
    <2>1. call[w].at \in Msg \ {"W"} /\ call[w].m = m => Before(m)'
      OBVIOUS
    <2>2. Before(m) => Before(m)'
      BY <2>1, BeforeGo
    <2> QED BY <2>2
  <1>2. Running(s)' => sock[s].type \in Live \ {"HALFCLOSE_WRITE"}
    BY DEF Running, SameType
  <1>3. /\ \A i \in Id : HASH_ID(i) = s => wire'[i] = wire[i]
        /\ sock[s].closing => sock'[s].closing
        /\ fc.at = "lock" => fc' = fc /\ (net[fc.id] \in Gone => net'[fc.id] \in Gone)
        /\ \A v \in Worker : call'[v].at = "write" => call'[v] = call[v]
    BY DEF SameType
  <1> QED BY <1>1, <1>2, <1>3, FlowStay

\* Nothing of the messages ahead of a worker's message is on the way when the
\* socket has nothing to send.
LEMMA LockedAhead ==
    ASSUME Types, IdInv, CallInv, PipeInv, NEW s \in Slot, Coherent(s), Covered(s), Running(s),
           NEW w \in Worker, call[w].at = "lock", can_direct_write(sock[s], call[w].id),
           NEW m, m = call[w].m, NEW a \in DOMAIN sent, Ahead(sent, a, m)
    PROVE  sent[a].id = sock[s].id /\ ~ sent[a].low /\ ~ Before(a)
  <1>1. /\ sock[s].id = call[w].id /\ sock[s].sending = 0 /\ s \notin torn /\ sock[s].tcp
    BY DEF can_direct_write, nomore_sending_data, Running, Coherent
  <1>2. /\ m \in DOMAIN sent /\ sent[m].w = w /\ sent[m].id = call[w].id
    BY DEF CallInv, Msg
  <1>3. /\ a < m /\ sent[a].id = call[w].id /\ sent[a].w = w /\ ~ sent[a].low
    BY <1>2 DEF Ahead
  <1>4. a \in Nat /\ m \in Nat
    BY <1>2 DEF Types
  <1>5. ASSUME NEW v \in Worker, call[v].at \in Msg \ {"W"}, call[v].m = a PROVE FALSE
    <2>1. sent[a].w = v
      BY <1>5 DEF CallInv
    <2> QED BY <1>3, <1>4, <1>5, <2>1
  <1>6. ASSUME NEW p \in DOMAIN pipe, pipe[p].c \in Data, pipe[p].m = a PROVE FALSE
    <2>1. pipe[p].id = sock[s].id
      BY <1>1, <1>3, <1>6 DEF PipeInv
    <2>2. sock[s].sending > 0
      BY <1>1, <1>6, <2>1, CountedPositive
    <2> QED BY <1>1, <2>2
  <1> QED BY <1>1, <1>3, <1>5, <1>6 DEF Before

LEMMA FlowLocked ==
    ASSUME Types, Types', IdInv, LockInv, CallInv, PipeInv, NEW s \in Slot, Coherent(s), Covered(s),
           ListAt(s), FlowAt(s), Grow, OnlyLess, NEW w \in Worker, Locked(w), s = HASH_ID(call[w].id)
    PROVE  FlowAt(s)'
  <1>1. /\ call[w].at = "lock" /\ call[w].id \in Id
        /\ lock[s] = None /\ can_direct_write(sock[s], call[w].id)
        /\ CallTo(w, [call[w] EXCEPT !.at = "write"])
        /\ call'[w].at = "write" /\ call'[w].id = call[w].id /\ call'[w].m = call[w].m
        /\ UNCHANGED <<alloc_id, sock, pipe, said, sent, cmds, thread, outside>>
    BY LockedView
  <1>2. sock' = sock /\ pipe' = pipe /\ sent' = sent /\ wire' = wire /\ net' = net /\ fc' = fc
    BY <1>1 DEF thread, outside
  <1>3. WireAt(s) /\ FlowWire(s) /\ FlowSock(s) /\ TakenAt(s)
    BY DEF FlowAt
  <1>4. WireAt(s)' /\ FlowWire(s)' /\ TakenAt(s)'
    BY <1>2, <1>3, WireKeep, FlowWireKeep, TakenKeep
  <1>5. FlowSock(s)'
    <2> SUFFICES ASSUME Running(s)'
                 PROVE  \E i, str, q, closing :
                          /\ i = sock'[s].id /\ str = wire'[i] /\ q = Line(sock'[s])
                          /\ closing = sock'[s].closing /\ FlowOK(s, i, str, q, closing)'
      BY FlowSockIs
    <2>1. Running(s)
      <3>1. sock[s].type \in Live \ {"HALFCLOSE_WRITE"}
        BY <1>2 DEF Running
      <3> QED BY <1>2, <3>1, RunningBack
    <2>2. sock[s].id \in Id /\ HASH_ID(sock[s].id) = s /\ s \notin torn
      BY <2>1, RunningId
    <2>3. PICK i \in Id : i = sock[s].id
      BY <2>2
    <2>4. PICK str \in Seq(Write) : str = wire[i]
      BY <2>3 DEF Types
    <2>5. /\ sock[s].dw = << >> /\ sock[s].high = << >> /\ sock[s].low = << >>
          /\ sock[s].type = "CONNECTED"
      BY <1>1 DEF can_direct_write, nomore_sending_data, send_buffer_empty
    <2>6. Line(sock[s]) = << >> /\ ~ sock[s].closing
      BY <2>2, <2>5, LineEmpty, SlotLine DEF Coherent
    <2>7. Stream(str, << >>) = str
      BY StreamEmpty
    <2>8. Good(sent, str) /\ Ends(str) /\ AllOK(i, str)
      BY <1>3, <2>1, <2>3, <2>4, <2>6, <2>7 DEF FlowSock, FlowOK, Good
    <2>9. ASSUME NEW v \in Worker, call'[v].at = "write", HASH_ID(call'[v].id) = s PROVE v = w
      <3>1. CASE v # w
        <4>1. call'[v] = call[v]
          BY <1>1, <3>1 DEF CallTo
        <4>2. lock[s] = v
          BY <2>9, <4>1 DEF LockInv
        <4> QED BY <1>1, <4>2, Bounds
      <3> QED BY <3>1
    <2>10. PICK m : m = call[w].m
      OBVIOUS
    <2>11. ASSUME NEW a \in DOMAIN sent, Ahead(sent, a, m) PROVE InWire(str, a)
      <3>1. sent[a].id = sock[s].id /\ ~ sent[a].low /\ ~ Before(a)
        BY <1>1, <2>1, <2>10, <2>11, LockedAhead
      <3> QED BY <2>3, <2>8, <3>1 DEF AllOK
    <2>12. ASSUME NEW v \in Worker, call'[v].at = "write", HASH_ID(call'[v].id) = s
           PROVE  Ends(str) /\ \A a \in DOMAIN sent' : Ahead(sent', a, call'[v].m) => InWire(str, a)
      BY <1>1, <1>2, <2>8, <2>9, <2>10, <2>11, <2>12
    <2>13. ASSUME NEW a \in DOMAIN sent', sent'[a].id = i, ~ sent'[a].low
           PROVE  InWire(Stream(str, << >>), a) \/ Before(a)'
      <3>1. InWire(str, a) \/ Before(a)
        BY <1>2, <2>8, <2>13 DEF AllOK
      <3>2. \A v \in Worker : v # w => call'[v] = call[v]
        BY <1>1 DEF CallTo
      <3>3. call[w].m = a => Before(a)'
        BY <1>1 DEF Before, Msg
      <3>4. Before(a) => Before(a)'
        BY <1>2, <3>2, <3>3, BeforeGo
      <3> QED BY <2>7, <3>1, <3>4
    <2>14. PICK q, cl : q = << >> /\ cl = sock[s].closing
      OBVIOUS
    <2>15. Good(sent', Stream(str, q))
      BY <1>2, <2>7, <2>8, <2>14
    <2>16. FlowOK(s, i, str, q, cl)'
      BY <2>12, <2>13, <2>14, <2>15, FlowOKIs
    <2>17. i = sock'[s].id /\ str = wire'[i] /\ q = Line(sock'[s]) /\ cl = sock'[s].closing
      BY <1>2, <2>3, <2>4, <2>6, <2>14
    <2> QED BY <2>16, <2>17
  <1> QED BY <1>4, <1>5 DEF FlowAt

\* A stream to which nothing is written.
LEMMA WireStays ==
    ASSUME Types, Types', NEW s, WireAt(s), FlowWire(s), Grow, NEW i \in Id, HASH_ID(i) = s,
           s \notin torn', Clean(i)', wire'[i] = wire[i]
    PROVE  WholeMessages(wire'[i]) /\ Ordered(sent', wire'[i])
  <1>1. s \notin torn /\ Clean(i)
    BY CleanKeep DEF Grow
  <1>2. WholeMessages(wire[i]) /\ Ordered(sent, wire[i])
    BY <1>1 DEF FlowWire
  <1>3. PICK v : v = wire[i]
    OBVIOUS
  <1>4. \A p \in DOMAIN v : v[p].m \in DOMAIN sent
    BY <1>1, <1>3, WireSent
  <1>5. Ordered(sent', v)
    BY <1>2, <1>3, <1>4, OrderedMore
  <1> QED BY <1>2, <1>3, <1>5

\* One stream of a slot grows.
LEMMA FlowWireOne ==
    ASSUME Types, Types', NEW s, WireAt(s), FlowWire(s), Grow, NEW i,
           \A j \in Id : HASH_ID(j) = s /\ j # i => wire'[j] = wire[j],
           i \in Id /\ HASH_ID(i) = s /\ s \notin torn' /\ Clean(i)' =>
             WholeMessages(wire'[i]) /\ Ordered(sent', wire'[i])
    PROVE  FlowWire(s)'
  <1> SUFFICES ASSUME s \notin torn', NEW j \in Id, HASH_ID(j) = s, Clean(j)'
               PROVE  WholeMessages(wire'[j]) /\ Ordered(sent', wire'[j])
    BY DEF FlowWire
  <1>1. CASE j = i
    <2>1. Clean(i)'
      BY <1>1 DEF Clean
    <2> QED BY <1>1, <2>1
  <1>2. CASE j # i
    BY <1>2, WireStays
  <1> QED BY <1>1, <1>2

\* Stream str2 is str and what a write of k units of message m adds.
Adds(str, str2, m, k) ==
    /\ \A p \in DOMAIN str2 : (p \in DOMAIN str /\ str2[p] = str[p]) \/ str2[p].m = m
    /\ k = 0 => str2 = str
    /\ (\A p \in DOMAIN str : str[p].to \in 1 .. MsgSize) =>
         \A p \in DOMAIN str2 : str2[p].to \in 1 .. MsgSize

LEMMA WroteIn ==
    ASSUME NEW str \in Seq(Write), NEW m \in Nat, NEW k \in 0 .. MsgSize,
           NEW str2, str2 = str \o Wrote(Buffer(m), k)
    PROVE  Adds(str, str2, m, k)
  <1> USE DEF Adds
  <1>0. MsgSize \in Nat /\ k \in Nat
    BY Bounds
  <1>1. CASE k = 0
    <2>1. str2 = str \o << >>
      BY <1>1 DEF Wrote
    <2>2. str2 = str
      BY <2>1
    <2> QED BY <2>2
  <1>2. CASE k # 0
    <2>1. PICK b : b = [m |-> m, from |-> 0, to |-> k]
      OBVIOUS
    <2>2. b \in Write /\ b.m = m /\ b.to \in 1 .. MsgSize
      BY <1>0, <1>2, <2>1 DEF Write
    <2>3. Wrote(Buffer(m), k) = <<b>>
      <3>1. Buffer(m).m = m /\ Buffer(m).at = 0
        BY DEF Buffer
      <3>2. 0 + k = k
        BY <1>0
      <3> QED BY <1>2, <2>1, <3>1, <3>2 DEF Wrote
    <2>4. PICK c \in Seq(Write) : c = <<b>> /\ Len(c) = 1 /\ c[1] = b
      BY <2>2, SingleSeq
    <2>5. str2 \in Seq(Write) /\ Joins(str2, str, c)
      BY <2>3, <2>4, CatWriteIs
    <2>6. PICK L \in Nat : L = Len(str)
      OBVIOUS
    <2>7. /\ DOMAIN str2 = 1 .. L + 1 /\ DOMAIN str = 1 .. L
          /\ \A p \in 1 .. L : str2[p] = str[p]
          /\ \A p \in 1 .. 1 : str2[L + p] = c[p]
      BY <2>4, <2>5, <2>6 DEF Joins
    <2>8. ASSUME NEW p \in 1 .. L + 1
          PROVE  (p \in DOMAIN str /\ str2[p] = str[p]) \/ str2[p] = b
      <3>1. CASE p <= L
        BY <2>7, <3>1
      <3>2. CASE p = L + 1
        BY <2>4, <2>7, <3>2
      <3>3. p <= L \/ p = L + 1
        BY <2>6
      <3> QED BY <3>1, <3>2, <3>3
    <2> QED BY <1>2, <2>2, <2>7, <2>8
  <1> QED BY <1>1, <1>2

LEMMA Shift ==
    ASSUME NEW i \in Int, NEW a \in Int, NEW n \in Int, i > a, i <= a + n
    PROVE  \E j \in 1 .. n : i = a + j
  <1>1. PICK j : j = i - a
    OBVIOUS
  <1>2. j \in 1 .. n /\ i = a + j
    BY <1>1
  <1> QED BY <1>2

\* The list q is made of lists a, b and c, of d, h and l buffers.
MadeOf(q, a, b, c, d, h, l) ==
    /\ q \in Seq(Node) /\ Len(q) = d + h + l
    /\ \A i \in 1 .. d : q[i] = a[i]
    /\ \A i \in 1 .. h : q[d + i] = b[i]
    /\ \A i \in 1 .. l : q[d + h + i] = c[i]

LEMMA ThreeMade ==
    ASSUME NEW a \in Seq(Node), NEW b \in Seq(Node), NEW c \in Seq(Node), NEW q, q = (a \o b) \o c
    PROVE  MadeOf(q, a, b, c, Len(a), Len(b), Len(c))
  <1>1. /\ q \in Seq(Node) /\ Len(q) = Len(a) + Len(b) + Len(c)
        /\ Len(a) \in Nat /\ Len(b) \in Nat /\ Len(c) \in Nat
        /\ DOMAIN q = 1 .. Len(q)
        /\ \A i \in 1 .. Len(a) : q[i] = a[i]
        /\ \A i \in 1 .. Len(b) : q[Len(a) + i] = b[i]
        /\ \A i \in 1 .. Len(c) : q[Len(a) + Len(b) + i] = c[i]
        /\ q = << >> <=> a = << >> /\ b = << >> /\ c = << >>
    BY ThreeLists
  <1> QED BY <1>1 DEF MadeOf

LEMMA LineParts ==
    ASSUME NEW x \in Sock, NEW q, q = Line(x),
           NEW a \in Seq(Node), a = x.dw, NEW b \in Seq(Node), b = x.high,
           NEW c \in Seq(Node), c = x.low,
           NEW d \in Nat, d = Len(a), NEW h \in Nat, h = Len(b), NEW l \in Nat, l = Len(c)
    PROVE  MadeOf(q, a, b, c, d, h, l)
  <1>1. q = (a \o b) \o c
    BY DEF Line
  <1>2. MadeOf(q, a, b, c, Len(a), Len(b), Len(c))
    BY <1>1, ThreeMade
  <1> QED BY <1>2

LEMMA PlaceFirst ==
    ASSUME NEW x \in Sock, NEW y \in Sock, NEW b, x.dw = << >>, y.dw = <<b>>, y.high = x.high,
           y.low = x.low, NEW q, q = Line(x), NEW r, r = Line(y)
    PROVE  Placed(q, r, 0, b)
  <1>1. PICK dw \in Seq(Node), high \in Seq(Node), low \in Seq(Node) :
          dw = x.dw /\ high = x.high /\ low = x.low
    BY DEF Sock
  <1>2. PICK d \in Nat, h \in Nat, l \in Nat : d = Len(dw) /\ h = Len(high) /\ l = Len(low)
    OBVIOUS
  <1>3a. MadeOf(q, dw, high, low, d, h, l)
    BY <1>1, <1>2, LineParts
  <1>3. /\ q \in Seq(Node) /\ Len(q) = d + h + l
        /\ \A i \in 1 .. d : q[i] = dw[i]
        /\ \A i \in 1 .. h : q[d + i] = high[i]
        /\ \A i \in 1 .. l : q[d + h + i] = low[i]
    BY <1>3a DEF MadeOf
  <1>4. d = 0
    BY <1>1, <1>2
  <1>5. PICK dw2 \in Seq(Node) : dw2 = <<b>>
    BY DEF Sock
  <1>6. Len(dw2) = 1 /\ dw2[1] = b /\ dw2 = y.dw /\ high = y.high /\ low = y.low
    BY <1>1, <1>5
  <1>7. PICK e \in Nat : e = Len(dw2)
    OBVIOUS
  <1>8a. MadeOf(r, dw2, high, low, e, h, l)
    BY <1>2, <1>6, <1>7, LineParts
  <1>8. /\ r \in Seq(Node) /\ Len(r) = e + h + l
        /\ \A i \in 1 .. e : r[i] = dw2[i]
        /\ \A i \in 1 .. h : r[e + i] = high[i]
        /\ \A i \in 1 .. l : r[e + h + i] = low[i]
    BY <1>8a DEF MadeOf
  <1>9. e = 1 /\ Len(r) = 1 + h + l /\ Len(q) = h + l
    BY <1>3, <1>4, <1>6, <1>7, <1>8
  <1>10. r[1] = b
    BY <1>6, <1>8, <1>9
  <1>11. ASSUME NEW i \in 2 .. h + l + 1 PROVE r[i] = q[i - 1]
    <2>1. CASE i <= h + 1
      <3>1. PICK j \in 1 .. h : i = 1 + j
        <4>1. i \in Int /\ h \in Int /\ i > 1 /\ i <= 1 + h
          BY <1>3, <2>1
        <4> QED BY <4>1, Shift
      <3>2. r[1 + j] = high[j] /\ q[0 + j] = high[j]
        BY <1>3, <1>4, <1>8, <1>9
      <3>3. i - 1 = j /\ 0 + j = j
        BY <1>3, <3>1
      <3> QED BY <3>1, <3>2, <3>3
    <2>2. CASE i > h + 1
      <3>0. PICK g \in Int : g = 1 + h
        BY <1>3
      <3>1. PICK j \in 1 .. l : i = g + j
        <4>1. i \in Int /\ l \in Int /\ i > g /\ i <= g + l
          BY <1>3, <2>2, <3>0
        <4> QED BY <4>1, Shift
      <3>2. r[1 + h + j] = low[j] /\ q[0 + h + j] = low[j]
        BY <1>3, <1>4, <1>8, <1>9
      <3>3. i - 1 = 0 + h + j /\ i = 1 + h + j
        BY <1>3, <3>0, <3>1
      <3> QED BY <3>2, <3>3
    <2> QED BY <1>3, <2>1, <2>2
  <1>12. PICK n \in Nat : n = h + l
    BY <1>3
  <1>13. Len(q) = n /\ Len(r) = n + 1
    BY <1>3, <1>9, <1>12
  <1>14. \A i \in 2 .. n + 1 : r[i] = q[i - 1]
    BY <1>11, <1>12
  <1>15. 0 \in 0 .. n /\ 0 + 1 = 1 /\ 0 + 2 = 2 /\ \A i \in 1 .. 0 : r[i] = q[i]
    OBVIOUS
  <1> QED BY <1>10, <1>13, <1>14, <1>15 DEF Placed


LEMMA FlowDirect ==
    ASSUME Types, Types', IdInv, LockInv, CallInv, NEW s \in Slot, Coherent(s), ListAt(s), FlowAt(s),
           Grow, OnlyLess, NEW w \in Worker, NEW k \in 0 .. MsgSize, DirectWrite(w, k),
           s = HASH_ID(call[w].id)
    PROVE  FlowAt(s)'
  <1>1. PICK i : i = sock[s].id
    OBVIOUS
  <1>2. PICK m \in Nat : m = call[w].m
    BY DEF Types, CallRec
  <1>3. /\ call[w].at = "write" /\ call[w].id \in Id
        /\ net[i] \in {"rst", "hup"} => k = 0
        /\ SameName(s) /\ SameType(s)
        /\ sock'[s].high = sock[s].high /\ sock'[s].low = sock[s].low
        /\ sock'[s].dw = (IF k = MsgSize THEN << >> ELSE <<[m |-> m, at |-> k]>>)
        /\ wire' = [wire EXCEPT ![i] = @ \o Wrote(Buffer(m), k)]
        /\ CallTo(w, call'[w])
        /\ call'[w] = (IF k = MsgSize THEN NoCall ELSE call'[w])
        /\ k # MsgSize => call'[w].at = "W"
        /\ UNCHANGED <<alloc_id, pipe, net, said, sent, cmds, peers, thread>>
    BY <1>1, <1>2, DirectWriteView
  <1>4. fc' = fc /\ net' = net /\ torn' = torn /\ pipe' = pipe /\ sent' = sent
    BY <1>3 DEF thread
  <1>5. WireAt(s) /\ FlowWire(s) /\ FlowSock(s) /\ TakenAt(s)
    BY DEF FlowAt
  <1>t. TakenAt(s)'
    <2>1. lock[s] = w /\ lock[s] # None
      BY <1>3, Bounds DEF LockInv
    <2>2. i \in Id /\ HASH_ID(i) = s
      BY <1>1, <2>1 DEF LockInv, IdInv
    <2>3. PICK str \in Seq(Write) : str = wire[i]
      BY <2>2 DEF Types
    <2>4. PICK str2 : str2 = wire'[i]
      OBVIOUS
    <2>5. /\ str2 = str \o Wrote(Buffer(m), k)
          /\ \A j \in Id : j # i => wire'[j] = wire[j]
      BY <1>3, <2>2, <2>3, <2>4 DEF Types
    <2>6. Adds(str, str2, m, k)
      BY <2>5, WroteIn
    <2>7. \A p \in DOMAIN str : str[p].to \in 1 .. MsgSize
      BY <1>5, <2>2, <2>3 DEF TakenAt
    <2>8. \A p \in DOMAIN str2 : str2[p].to \in 1 .. MsgSize
      BY <2>6, <2>7 DEF Adds
    <2> QED BY <1>5, <2>4, <2>5, <2>8 DEF TakenAt
  <1>6. CASE s \in torn
    BY <1>4, <1>6, <1>t DEF FlowAt, WireAt, FlowWire, FlowSock, Running
  <1>7. CASE s \notin torn
    <2>1. lock[s] = w /\ lock[s] # None
      BY <1>3, Bounds DEF LockInv
    <2>2. /\ i = call[w].id /\ i \in Id /\ HASH_ID(i) = s /\ sock[s].dw = << >>
          /\ sock[s].type \in {"CONNECTED", "HALFCLOSE_READ"}
      BY <1>1, <1>3, <1>7, <2>1 DEF LockInv
    <2>3. /\ m \in DOMAIN sent /\ sent[m].w = w /\ sent[m].id = i
          /\ \A p \in DOMAIN pipe : pipe[p].c \in Data => pipe[p].m # m
      BY <1>2, <1>3, <2>2 DEF CallInv, Msg
    <2>4. /\ call'[w].at \notin Msg \ {"W"} /\ call'[w].at # "write"
          /\ \A v \in Worker : v # w => call'[v] = call[v]
      BY <1>3 DEF CallTo, NoCall, Msg
    <2>5. ~ Before(m)' /\ Before(m)
      <3>1. \A v \in Worker : call[v].at \in Msg /\ call[v].m = m => v = w
        BY <2>3 DEF CallInv
      <3>2. ~ Before(m)'
        BY <1>4, <2>3, <2>4, <3>1 DEF Before
      <3>3. Before(m)
        BY <1>2, <1>3 DEF Before, Msg
      <3> QED BY <3>2, <3>3
    <2>6. PICK str \in Seq(Write) : str = wire[i]
      BY <2>2 DEF Types
    <2>7. PICK str2 \in Seq(Write) : str2 = wire'[i]
      BY <2>2 DEF Types
    <2>8. /\ str2 = str \o Wrote(Buffer(m), k)
          /\ \A j \in Id : j # i => wire'[j] = wire[j]
      BY <1>3, <2>2, <2>6, <2>7 DEF Types
    <2>9. m \in Nat
      BY <2>3 DEF Types
    <2>9a. Adds(str, str2, m, k)
      BY <2>8, WroteIn
    <2>10. /\ \A p \in DOMAIN str2 : (p \in DOMAIN str /\ str2[p] = str[p]) \/ str2[p].m = m
           /\ k = 0 => str2 = str
      BY <2>9a DEF Adds
    <2>11. WireAt(s)'
      <3> SUFFICES ASSUME NEW j \in Id, s \notin torn', HASH_ID(j) = s, NEW p \in DOMAIN wire'[j],
                          NEW a, a = wire'[j][p].m
                   PROVE  a \in DOMAIN sent' /\ ~ Before(a)' /\ sent'[a].id = j
        BY WireIs
      <3>1. CASE p \in DOMAIN wire[j] /\ wire'[j][p] = wire[j][p]
        <4>1. a \in DOMAIN sent /\ ~ Before(a) /\ sent[a].id = j
          BY <1>5, <1>7, <3>1, WireHas
        <4> QED BY <1>4, <4>1 DEF OnlyLess
      <3>2. CASE j = i /\ a = m
        <4>1. ~ Before(a)'
          BY <2>5, <3>2 DEF Before
        <4> QED BY <1>4, <2>3, <3>2, <4>1
      <3>3. CASE j # i
        BY <2>8, <3>1, <3>3
      <3>4. CASE j = i
        <4>1. p \in DOMAIN str2
          BY <2>7, <3>4
        <4>2. (p \in DOMAIN str /\ str2[p] = str[p]) \/ str2[p].m = m
          BY <2>10, <4>1
        <4> QED BY <2>6, <2>7, <3>1, <3>2, <3>4, <4>2
      <3> QED BY <3>3, <3>4
    <2>12. \A j \in Id : HASH_ID(j) = s /\ j # i => wire'[j] = wire[j]
      BY <2>8
    <2>13. CASE Running(s)
      <3>1. PICK q \in Seq(Node) : q = Line(sock[s])
        BY SlotLine
      <3>2. PICK y \in Sock : y = sock'[s]
        BY DEF Types
      <3>3. PICK r : r = Line(y)
        OBVIOUS
      <3>4. r \in Seq(Node)
        BY <3>3, LineIs
      <3>5. FlowOK(s, i, str, q, sock[s].closing)
        BY <1>1, <1>5, <2>6, <2>13, <3>1 DEF FlowSock
      <3>6. /\ Good(sent, Stream(str, q)) /\ DirectOK(s, str)
            /\ ~ sock[s].closing => AllOK(i, Stream(str, q))
        BY <3>5 DEF FlowOK
      <3>7. /\ Ends(str)
            /\ \A a \in DOMAIN sent : Ahead(sent, a, m) => InWire(str, a)
        BY <1>2, <1>3, <3>6 DEF DirectOK
      <3>8. ~ InWire(Stream(str, q), m)
        BY <1>1, <1>5, <2>2, <2>5, <2>6, <2>13, <3>1, NotInStream
      <3>9. k = MsgSize => r = q
        <4>1. k = MsgSize => sock'[s].dw = sock[s].dw
          BY <1>3, <2>2
        <4>2. sock'[s].dw = sock[s].dw => Line(sock'[s]) = Line(sock[s])
          BY <1>3, LineSame
        <4> QED BY <3>1, <3>2, <3>3, <4>1, <4>2
      <3>10. k # MsgSize => Placed(q, r, 0, [m |-> m, at |-> k])
        <4>1. PICK x \in Sock : x = sock[s]
          BY SlotLine
        <4>2. PICK b : b = [m |-> m, at |-> k]
          OBVIOUS
        <4>3. k # MsgSize => y.dw = <<b>>
          BY <1>3, <3>2, <4>2
        <4>4. x.dw = << >> /\ y.high = x.high /\ y.low = x.low /\ q = Line(x)
          BY <1>3, <2>2, <3>1, <3>2, <4>1
        <4>5. k # MsgSize => Placed(q, r, 0, b)
          BY <3>3, <4>3, <4>4, PlaceFirst
        <4> QED BY <4>2, <4>5
      <3>11. PICK v : v = Stream(str2, r)
        OBVIOUS
      <3>12. /\ Good(sent, Stream(str2, r)) /\ InWire(Stream(str2, r), m)
             /\ Keeps(Stream(str, q), Stream(str2, r)) /\ Leads(str2, Stream(str2, r))
        BY <2>8, <2>9, <3>4, <3>6, <3>7, <3>8, <3>9, <3>10, DirectGood
      <3>13. IsStream(v, str2, r)
        BY <3>4, <3>11, StreamIs
      <3>14. WholeMessages(str2) /\ Ordered(sent, str2)
        <4>1. v \in Seq(Write)
          BY <3>13 DEF IsStream
        <4> QED BY <3>11, <3>12, <4>1, LeadsGood
      <3>15. FlowWire(s)'
        <4>1. WholeMessages(wire'[i]) /\ Ordered(sent', wire'[i])
          BY <1>4, <2>7, <3>14
        <4> QED BY <1>5, <2>12, <4>1, FlowWireOne
      <3>16. FlowSock(s)'
        <4> SUFFICES ASSUME Running(s)'
                     PROVE  \E j, st, l, closing :
                              /\ j = sock'[s].id /\ st = wire'[j] /\ l = Line(sock'[s])
                              /\ closing = sock'[s].closing /\ FlowOK(s, j, st, l, closing)'
          BY FlowSockIs
        <4>1. PICK cl : cl = sock[s].closing
          OBVIOUS
        <4>2. ASSUME NEW v1 \in Worker, call'[v1].at = "write", HASH_ID(call'[v1].id) = s PROVE FALSE
          <5>1. v1 # w
            BY <2>4, <4>2
          <5>2. call[v1].at = "write" /\ HASH_ID(call[v1].id) = s
            BY <2>4, <4>2, <5>1
          <5>3. lock[s] = v1
            BY <5>2 DEF LockInv
          <5> QED BY <2>1, <5>1, <5>3
        <4>3. ASSUME ~ cl, NEW a \in DOMAIN sent', sent'[a].id = i, ~ sent'[a].low
              PROVE  InWire(Stream(str2, r), a) \/ Before(a)'
          <5>1. InWire(Stream(str, q), a) \/ Before(a)
            BY <1>4, <3>6, <4>1, <4>3 DEF AllOK
          <5>2. CASE InWire(Stream(str, q), a)
            BY <3>12, <5>2 DEF Keeps
          <5>3. CASE a = m
            BY <3>12, <5>3
          <5>4. CASE Before(a) /\ a # m
            <6>1. call[w].m # a
              BY <1>2, <5>4
            <6> QED BY <1>4, <2>4, <5>4, <6>1, BeforeGo
          <5> QED BY <5>1, <5>2, <5>3, <5>4
        <4>4. Good(sent', Stream(str2, r))
          BY <1>4, <3>12
        <4>5. FlowOK(s, i, str2, r, cl)'
          BY <4>2, <4>3, <4>4, FlowOKIs
        <4>6. i = sock'[s].id /\ str2 = wire'[i] /\ r = Line(sock'[s]) /\ cl = sock'[s].closing
          BY <1>1, <1>3, <2>7, <3>2, <3>3, <4>1 DEF SameName, SameType
        <4> QED BY <4>5, <4>6
      <3> QED BY <1>t, <2>11, <3>15, <3>16 DEF FlowAt
    <2>14. CASE ~ Running(s)
      <3>1. ~ Running(s)'
        <4>1. sock[s].type \in Live \ {"HALFCLOSE_WRITE"}
          BY <2>2 DEF Live
        <4>2. sock'[s].id = sock[s].id
          BY <1>3 DEF SameName
        <4> QED BY <1>4, <2>14, <4>1, <4>2, RunningBack
      <3>2. FlowSock(s)'
        BY <3>1 DEF FlowSock
      <3>3. ASSUME Clean(i)' PROVE WholeMessages(wire'[i]) /\ Ordered(sent', wire'[i])
        <4>1. Clean(i)
          BY <2>2, <3>3, CleanKeep
        <4>2. fc.at = "lock" /\ fc.s = s /\ net[fc.id] \in Gone
          BY <1>1, <1>7, <2>2, <2>14, <4>1 DEF Running, Live
        <4>3. fc.id = i
          BY <1>1, <1>7, <4>2 DEF Coherent
        <4>4. k = 0
          BY <1>3, <4>2, <4>3 DEF Gone
        <4>5. wire'[i] = wire[i]
          BY <2>6, <2>7, <2>10, <4>4
        <4> QED BY <1>4, <1>5, <1>7, <2>2, <3>3, <4>5, WireStays
      <3>4. FlowWire(s)'
        BY <1>5, <2>12, <3>3, FlowWireOne
      <3> QED BY <1>t, <2>11, <3>2, <3>4 DEF FlowAt
    <2> QED BY <2>13, <2>14
  <1> QED BY <1>6, <1>7

LEMMA FlowWorker ==
    ASSUME Types, IdInv, LockInv, AskInv, CallInv, PipeInv, NEW s \in Slot, Pending(s), Coherent(s),
           Covered(s), ListAt(s), FlowAt(s), Grow, NEW w \in Worker, WorkerAt(s, w)
    PROVE  FlowAt(s)'
  <1> DEFINE G == FlowAt(s)'
  <1>0. Types'
    BY WorkerUp
  <1>m. PICK n : n = call[w].m
    OBVIOUS
  <1>o. OnlyLess
    BY WorkerAsks, OnlyLessWorker
  <1>n. ASSUME ~ Running(s)', wire' = wire PROVE G
    BY <1>0, <1>o, <1>n, FlowQuiet
  <1>a. ASSUME sock'[s].id = sock[s].id, SameLists(s), SameType(s),
               fc' = fc, net' = net, wire' = wire,
               \A v \in Worker : v # w => call'[v] = call[v],
               call'[w].at # "write" \/ call'[w] = call[w],
               pipe' = pipe \/ \E c \in Cmd : pipe' = Append(pipe, c),
               call[w].at \in Msg \ {"W"} => Before(n)',
               \A m \in DOMAIN sent' : m \in DOMAIN sent \/ Before(m)'
        PROVE  G
    BY <1>0, <1>o, <1>m, <1>a, FlowAsk
  <1> HIDE DEF G
  <1>b. sock' = sock => sock'[s].id = sock[s].id /\ SameLists(s) /\ SameType(s)
    BY DEF SameLists, SameType
  <1>1. ASSUME ConnectNew(w), s = HASH_ID(NextId) PROVE G
    <2>1. sock'[s].type = "RESERVE" /\ UNCHANGED <<lock, pipe, said, sent, cmds, thread, outside>>
      BY <1>1, ConnectNewView
    <2>2. ~ Running(s)' /\ wire' = wire
      BY <2>1 DEF Running, Live, outside
    <2> QED BY <1>n, <2>2
  <1>2. ASSUME NEW cmd \in {"K", "Q", "R", "S"}, NEW id \in Id, Command(w, cmd, id) PROVE G
    <2>1. /\ pipe' = Append(pipe, [c |-> cmd, id |-> id, m |-> 0])
          /\ [c |-> cmd, id |-> id, m |-> 0] \in Cmd
          /\ UNCHANGED <<alloc_id, sock, lock, call, sent, thread, outside>>
      BY <1>2, CommandView
    <2>2. sock' = sock /\ call' = call /\ sent' = sent /\ fc' = fc /\ net' = net /\ wire' = wire
      BY <2>1 DEF thread, outside
    <2>3. call[w].at \notin Msg
      BY <1>2 DEF Command, NoCall, Msg
    <2> QED BY <1>a, <1>b, <2>1, <2>2, <2>3
  <1>3. ASSUME NEW id \in Id, NEW low \in BOOLEAN, Send(w, id, low) PROVE G
    <2>1. /\ call[w].at = "idle"
          /\ DOMAIN sent' = DOMAIN sent \cup {Len(sent) + 1}
          /\ \E at \in {"lock", "inc"} : CallTo(w, [at |-> at, id |-> id, m |-> Len(sent) + 1])
          /\ UNCHANGED <<alloc_id, sock, lock, pipe, said, cmds, thread, outside>>
      BY <1>3, SendView
    <2>2. sock' = sock /\ pipe' = pipe /\ fc' = fc /\ net' = net /\ wire' = wire
      BY <2>1 DEF thread, outside
    <2>3. PICK l : l = Len(sent) + 1
      OBVIOUS
    <2>4. /\ call'[w].at \in {"lock", "inc"} /\ call'[w].m = l
          /\ \A v \in Worker : v # w => call'[v] = call[v]
      BY <2>1, <2>3 DEF CallTo
    <2>5. Before(l)'
      BY <2>4 DEF Before, Msg
    <2>6. \A m \in DOMAIN sent' : m \in DOMAIN sent \/ Before(m)'
      <3> TAKE m \in DOMAIN sent'
      <3>1. m \in DOMAIN sent \/ m = l
        BY <2>1, <2>3
      <3>2. CASE m = l
        BY <2>5, <3>2
      <3> QED BY <3>1, <3>2
    <2>7. call[w].at \notin Msg
      BY <2>1 DEF Msg
    <2> QED BY <1>a, <1>b, <2>2, <2>4, <2>6, <2>7
  <1>4. ASSUME Request(w), s = HASH_ID(call[w].id) PROVE G
    <2>1. call[w].at = "O" /\ SameType(s) /\ UNCHANGED <<alloc_id, lock, sent, cmds, thread, outside>>
      BY <1>4, RequestView
    <2>2. torn' = torn /\ wire' = wire
      BY <2>1 DEF thread, outside
    <2>3. s \notin torn => sock[s].type = "RESERVE"
      BY <1>4, <2>1 DEF Pending
    <2>4. ~ Running(s)'
      BY <2>1, <2>2, <2>3 DEF Running, SameType, Live
    <2> QED BY <1>n, <2>2, <2>4
  <1>5. ASSUME Locked(w), s = HASH_ID(call[w].id) PROVE G
    BY <1>0, <1>o, <1>5, FlowLocked DEF G
  <1>k. ASSUME CallTo(w, call'[w]), call'[w].at \in Msg \ {"W", "write"}, call'[w].m = call[w].m,
               sock'[s].id = sock[s].id, SameLists(s), SameType(s),
               UNCHANGED <<pipe, sent, thread, outside>>
        PROVE  G
    <2>1. pipe' = pipe /\ sent' = sent /\ fc' = fc /\ net' = net /\ wire' = wire
      BY <1>k DEF thread, outside
    <2>4. Before(n)'
      BY <1>k, <1>m DEF Before
    <2>5. \A v \in Worker : v # w => call'[v] = call[v]
      BY <1>k DEF CallTo
    <2> QED BY <1>a, <1>k, <2>1, <2>4, <2>5
  <1>6. ASSUME NotLocked(w) \/ NotCounted(w) PROVE G
    <2>1. /\ call'[w].m = call[w].m /\ call'[w].at \in {"inc", "D", "P"}
          /\ CallTo(w, call'[w])
          /\ UNCHANGED <<alloc_id, sock, lock, pipe, said, sent, cmds, thread, outside>>
      <3>1. CASE NotLocked(w)
        BY <3>1, NotLockedView DEF CallTo
      <3>2. CASE NotCounted(w)
        BY <3>2, NotCountedView
      <3> QED BY <1>6, <3>1, <3>2
    <2>2. call'[w].at \in Msg \ {"W", "write"}
      BY <2>1 DEF Msg
    <2> QED BY <1>b, <1>k, <2>1, <2>2
  <1>7. ASSUME Counted(w), s = HASH_ID(call[w].id) PROVE G
    <2>1. /\ SameName(s) /\ SameLists(s) /\ SameType(s) /\ CallTo(w, call'[w])
          /\ call'[w].at = (IF sent[call[w].m].low THEN "P" ELSE "D")
          /\ call'[w].m = call[w].m
          /\ UNCHANGED <<alloc_id, lock, pipe, said, sent, cmds, thread, outside>>
      BY <1>7, CountedView
    <2>2. call'[w].at \in Msg \ {"W", "write"} /\ sock'[s].id = sock[s].id
      BY <2>1 DEF Msg, SameName
    <2> QED BY <1>k, <2>1, <2>2
  <1>8. ASSUME Push(w) PROVE G
    <2>0. PICK c : c = [c |-> call[w].at, id |-> call[w].id, m |-> call[w].m]
      OBVIOUS
    <2>1. /\ call[w].at \in {"W", "D", "P"}
          /\ pipe' = Append(pipe, c) /\ c \in Cmd
          /\ CallTo(w, NoCall)
          /\ UNCHANGED <<alloc_id, sock, lock, said, sent, cmds, thread, outside>>
      BY <1>8, <2>0, PushView
    <2>2. sock' = sock /\ sent' = sent /\ fc' = fc /\ net' = net /\ wire' = wire
      BY <2>1 DEF thread, outside
    <2>3. call'[w].at # "write" /\ \A v \in Worker : v # w => call'[v] = call[v]
      BY <2>1 DEF CallTo, NoCall
    <2>4. call[w].at \in Msg \ {"W"} => Before(n)'
      <3>1. Len(pipe) + 1 \in DOMAIN pipe' /\ pipe'[Len(pipe) + 1] = c
        BY <2>1, AppendPipe
      <3>2. PICK p \in DOMAIN pipe' : pipe'[p] = c
        BY <3>1
      <3>3. call[w].at \in Msg \ {"W"} => c.c \in Data /\ c.m = n
        BY <1>m, <2>0, <2>1 DEF Data
      <3> QED BY <3>2, <3>3 DEF Before
    <2> QED BY <1>a, <1>b, <2>1, <2>2, <2>3, <2>4
  <1>9. ASSUME NEW k \in 0 .. MsgSize, DirectWrite(w, k), s = HASH_ID(call[w].id) PROVE G
    BY <1>0, <1>o, <1>9, FlowDirect DEF G
  <1>10. G
    BY <1>1, <1>2, <1>3, <1>4, <1>5, <1>6, <1>7, <1>8, <1>9 DEF WorkerAt
  <1> QED BY <1>10 DEF G

\* A command takes no message off the way but its own.
LEMMA BeforeLess ==
    ASSUME Types, IdInv, NEW c, CtrlFrame(c), NEW m, Before(m), c.c \notin Data \/ c.m # m
    PROVE  Before(m)'
  <1>1. /\ c = pipe[1] /\ call' = call
        /\ \A p \in DOMAIN pipe : p = 1 \/ (p - 1 \in DOMAIN pipe' /\ pipe'[p - 1] = pipe[p])
    BY CtrlFacts
  <1>2. ASSUME NEW p \in DOMAIN pipe, pipe[p].c \in Data, pipe[p].m = m PROVE Before(m)'
    <2>1. p # 1
      BY <1>1, <1>2
    <2>2. PICK q \in DOMAIN pipe' : pipe'[q] = pipe[p]
      BY <1>1, <2>1
    <2> QED BY <1>2, <2>2 DEF Before
  <1>3. ASSUME NEW v \in Worker, call[v].at \in Msg \ {"W"}, call[v].m = m PROVE Before(m)'
    BY <1>1, <1>3 DEF Before
  <1> QED BY <1>2, <1>3 DEF Before

LEMMA OnlyLessCtrl == ASSUME Types, IdInv, NEW c, CtrlFrame(c) PROVE OnlyLess
  <1> SUFFICES ASSUME NEW m \in DOMAIN sent, Before(m)' PROVE Before(m)
    BY DEF OnlyLess
  <1>1. /\ call' = call
        /\ \A p \in DOMAIN pipe' : p + 1 \in DOMAIN pipe /\ pipe'[p] = pipe[p + 1]
    BY CtrlFacts
  <1>2. ASSUME NEW p \in DOMAIN pipe', pipe'[p].c \in Data, pipe'[p].m = m PROVE Before(m)
    <2>1. PICK q \in DOMAIN pipe : pipe'[p] = pipe[q]
      BY <1>1
    <2> QED BY <1>2, <2>1 DEF Before
  <1>3. ASSUME NEW v \in Worker, call'[v].at \in Msg \ {"W"}, call'[v].m = m PROVE Before(m)
    BY <1>1, <1>3 DEF Before
  <1> QED BY <1>2, <1>3 DEF Before

\* A command without data that leaves the lists.
LEMMA FlowCmd ==
    ASSUME Types, Types', IdInv, CallInv, NEW s \in Slot, ListAt(s), FlowAt(s), Grow,
           NEW c, CtrlFrame(c), c.c \notin Data,
           sock'[s].id = sock[s].id, SameLists(s), sock[s].closing => sock'[s].closing,
           Running(s)' => sock[s].type \in Live \ {"HALFCLOSE_WRITE"}
    PROVE  FlowAt(s)'
  <1>1. OnlyLess
    BY OnlyLessCtrl
  <1>2. /\ fc.at # "lock" /\ call' = call /\ sent' = sent /\ wire' = wire
    BY CtrlFacts
  <1>3. ASSUME NEW m \in DOMAIN sent' PROVE Before(m)' \/ (m \in DOMAIN sent /\ ~ Before(m))
    <2>1. Before(m) => Before(m)'
      BY BeforeLess
    <2> QED BY <1>2, <2>1
  <1> QED BY <1>1, <1>2, <1>3, FlowStay

LEMMA GoodEmpty == ASSUME NEW st PROVE Good(st, << >>)
  <1>1. DOMAIN << >> = {}
    OBVIOUS
  <1> QED BY <1>1 DEF Good, WholeMessages, Ordered, Ends

\* A new socket.
LEMMA FlowNew ==
    ASSUME Types, Types', IdInv, NEW s \in Slot, FlowAt(s), Grow, OnlyLess, wire' = wire,
           NEW i, sock'[s].id = i, ~ sock'[s].closing, sock'[s] \in Sock,
           sock'[s].high = << >>, sock'[s].low = << >>, sock'[s].dw = << >>,
           s \notin torn' =>
             /\ wire[i] = << >>
             /\ \A w \in Worker : call'[w].at = "write" => HASH_ID(call'[w].id) # s
             /\ \A m \in DOMAIN sent' : sent'[m].id # i
    PROVE  FlowAt(s)'
  <1>1. WireAt(s) /\ FlowWire(s) /\ FlowSock(s) /\ TakenAt(s)
    BY DEF FlowAt
  <1>2. WireAt(s)' /\ FlowWire(s)' /\ TakenAt(s)'
    BY <1>1, WireKeep, FlowWireKeep, TakenKeep
  <1>3. FlowSock(s)'
    <2> SUFFICES ASSUME Running(s)'
                 PROVE  \E j, str, q, closing :
                          /\ j = sock'[s].id /\ str = wire'[j] /\ q = Line(sock'[s])
                          /\ closing = sock'[s].closing /\ FlowOK(s, j, str, q, closing)'
      BY FlowSockIs
    <2>1. s \notin torn'
      BY DEF Running
    <2>2. PICK str \in Seq(Write) : str = << >>
      BY EmptySeq
    <2>3. PICK q, cl : q = << >> /\ cl = sock'[s].closing
      OBVIOUS
    <2>4. Line(sock'[s]) = q
      BY <2>3, LineEmpty
    <2>5. Stream(str, q) = << >>
      BY <2>2, <2>3, StreamEmpty
    <2>6. Good(sent', Stream(str, q))
      BY <2>5, GoodEmpty
    <2>7. FlowOK(s, i, str, q, cl)'
      BY <2>1, <2>6, FlowOKIs
    <2> QED BY <2>1, <2>2, <2>3, <2>4, <2>7
  <1> QED BY <1>2, <1>3 DEF FlowAt

LEMMA PlaceHigh ==
    ASSUME NEW x \in Sock, NEW y \in Sock, NEW b, y.dw = x.dw, y.high = Append(x.high, b),
           y.low = x.low, NEW q, q = Line(x), NEW r, r = Line(y), NEW n, n = Len(x.dw) + Len(x.high)
    PROVE  Placed(q, r, n, b)
  <1>1. PICK dw \in Seq(Node), high \in Seq(Node), low \in Seq(Node) :
          dw = x.dw /\ high = x.high /\ low = x.low
    BY DEF Sock
  <1>2. PICK d \in Nat, h \in Nat, l \in Nat : d = Len(dw) /\ h = Len(high) /\ l = Len(low)
    OBVIOUS
  <1>3a. MadeOf(q, dw, high, low, d, h, l)
    BY <1>1, <1>2, LineParts
  <1>3. /\ q \in Seq(Node) /\ Len(q) = d + h + l
        /\ \A i \in 1 .. d : q[i] = dw[i]
        /\ \A i \in 1 .. h : q[d + i] = high[i]
        /\ \A i \in 1 .. l : q[d + h + i] = low[i]
    BY <1>3a DEF MadeOf
  <1>4. PICK high2 \in Seq(Node) : high2 = Append(high, b)
    BY <1>1 DEF Sock
  <1>5. dw = y.dw /\ high2 = y.high /\ low = y.low
    BY <1>1, <1>4
  <1>6. PICK h2 \in Nat : h2 = Len(high2)
    OBVIOUS
  <1>7. h2 = h + 1 /\ high2[h2] = b /\ \A i \in 1 .. h : high2[i] = high[i]
    <2>1. high \in Seq(Node) /\ b \in Node
      <3>1. high \in Seq(Node) /\ high2 \in Seq(Node)
        BY <1>1, <1>5 DEF Sock
      <3>2. Len(high2) = Len(high) + 1 /\ high2[Len(high) + 1] = b
        BY <1>4, <3>1
      <3> QED BY <3>1, <3>2
    <2> QED BY <1>2, <1>4, <1>6, <2>1
  <1>7a. h2 = h + 1
    BY <1>7
  <1>8a. MadeOf(r, dw, high2, low, d, h2, l)
    BY <1>2, <1>5, <1>6, LineParts
  <1>8. /\ r \in Seq(Node) /\ Len(r) = d + h2 + l
        /\ \A i \in 1 .. d : r[i] = dw[i]
        /\ \A i \in 1 .. h2 : r[d + i] = high2[i]
        /\ \A i \in 1 .. l : r[d + h2 + i] = low[i]
    BY <1>8a DEF MadeOf
  <1>9a. PICK k \in Nat : k = d + h
    OBVIOUS
  <1>9. k = n /\ k = d + h
    BY <1>1, <1>2, <1>9a, Zenon
  <1>10. PICK t \in Nat : t = k + l
    OBVIOUS
  <1>11. Len(q) = t /\ Len(r) = t + 1
    BY <1>3, <1>7, <1>8, <1>9a, <1>10
  <1>12. ASSUME NEW i \in 1 .. k PROVE r[i] = q[i]
    <2>1. CASE i <= d
      BY <1>3, <1>8, <2>1
    <2>2. CASE i > d
      <3>1. PICK j \in 1 .. h : i = d + j
        <4>1. i \in Int /\ d \in Int /\ h \in Int /\ i > d /\ i <= d + h
          BY <1>3, <1>9a, <2>2
        <4> QED BY <4>1, Shift
      <3>2. j \in 1 .. h2
        BY <1>3, <1>7
      <3>3. r[d + j] = high2[j] /\ high2[j] = high[j] /\ q[d + j] = high[j]
        BY <1>3, <1>7, <1>8, <3>2
      <3> QED BY <3>1, <3>3
    <2> QED BY <1>3, <2>1, <2>2
  <1>13. r[k + 1] = b
    <2>1. h2 \in 1 .. h2 /\ k + 1 = d + h2
      BY <1>7a, <1>9a
    <2>2. r[d + h2] = high2[h2]
      BY <1>8, <2>1
    <2> QED BY <1>7, <2>1, <2>2
  <1>14. ASSUME NEW i \in k + 2 .. t + 1 PROVE r[i] = q[i - 1]
    <2>0. PICK g \in Int : g = d + h2
      BY <1>8
    <2>1. PICK j \in 1 .. l : i = g + j
      <3>1. i \in Int /\ l \in Int /\ i > g /\ i <= g + l
        BY <1>7a, <1>9a, <1>10, <2>0
      <3> QED BY <3>1, Shift
    <2>2. r[d + h2 + j] = low[j] /\ q[d + h + j] = low[j]
      BY <1>3, <1>8
    <2>3. i - 1 = d + h + j /\ i = d + h2 + j
      BY <1>7a, <2>0, <2>1
    <2> QED BY <2>2, <2>3
  <1>15. k \in 0 .. t
    BY <1>3, <1>9a, <1>10
  <1> QED BY <1>9, <1>11, <1>12, <1>13, <1>14, <1>15 DEF Placed

LEMMA PlaceLow ==
    ASSUME NEW x \in Sock, NEW y \in Sock, NEW b, y.dw = x.dw, y.high = x.high,
           y.low = Append(x.low, b), NEW q, q = Line(x), NEW r, r = Line(y), NEW n, n = Len(q)
    PROVE  Placed(q, r, n, b) /\ n \in Nat
  <1>1. PICK dw \in Seq(Node), high \in Seq(Node), low \in Seq(Node) :
          dw = x.dw /\ high = x.high /\ low = x.low
    BY DEF Sock
  <1>2. PICK d \in Nat, h \in Nat, l \in Nat : d = Len(dw) /\ h = Len(high) /\ l = Len(low)
    OBVIOUS
  <1>3a. MadeOf(q, dw, high, low, d, h, l)
    BY <1>1, <1>2, LineParts
  <1>3. /\ q \in Seq(Node) /\ Len(q) = d + h + l
        /\ \A i \in 1 .. d : q[i] = dw[i]
        /\ \A i \in 1 .. h : q[d + i] = high[i]
        /\ \A i \in 1 .. l : q[d + h + i] = low[i]
    BY <1>3a DEF MadeOf
  <1>4. PICK low2 \in Seq(Node) : low2 = Append(low, b)
    BY <1>1 DEF Sock
  <1>5. dw = y.dw /\ high = y.high /\ low2 = y.low
    BY <1>1, <1>4
  <1>6. PICK l2 \in Nat : l2 = Len(low2)
    OBVIOUS
  <1>7. l2 = l + 1 /\ low2[l2] = b /\ \A i \in 1 .. l : low2[i] = low[i]
    <2>1. low \in Seq(Node) /\ low2 \in Seq(Node)
      BY <1>1, <1>5 DEF Sock
    <2> QED BY <1>2, <1>4, <1>6, <2>1
  <1>8a. MadeOf(r, dw, high, low2, d, h, l2)
    BY <1>2, <1>5, <1>6, LineParts
  <1>8. /\ r \in Seq(Node) /\ Len(r) = d + h + l2
        /\ \A i \in 1 .. d : r[i] = dw[i]
        /\ \A i \in 1 .. h : r[d + i] = high[i]
        /\ \A i \in 1 .. l2 : r[d + h + i] = low2[i]
    BY <1>8a DEF MadeOf
  <1>9a. PICK k \in Nat : k = d + h + l
    OBVIOUS
  <1>9. k = n /\ k = d + h + l
    BY <1>3, <1>9a
  <1>10. Len(q) = k /\ Len(r) = k + 1
    BY <1>3, <1>7, <1>8, <1>9
  <1>11. ASSUME NEW i \in 1 .. k PROVE r[i] = q[i]
    <2>1. CASE i <= d
      BY <1>3, <1>8, <2>1
    <2>2. CASE i > d /\ i <= d + h
      <3>1. PICK j \in 1 .. h : i = d + j
        <4>1. i \in Int /\ d \in Int /\ h \in Int /\ i > d /\ i <= d + h
          BY <1>3, <2>2
        <4> QED BY <4>1, Shift
      <3>2. r[d + j] = high[j] /\ q[d + j] = high[j]
        BY <1>3, <1>8
      <3> QED BY <3>1, <3>2
    <2>3. CASE i > d + h
      <3>0. PICK g \in Int : g = d + h
        BY <1>3
      <3>1. PICK j \in 1 .. l : i = g + j
        <4>1. i \in Int /\ l \in Int /\ i > g /\ i <= g + l
          BY <1>3, <1>9, <2>3, <3>0
        <4> QED BY <4>1, Shift
      <3>2. j \in 1 .. l2
        BY <1>3, <1>7
      <3>3. r[d + h + j] = low2[j] /\ low2[j] = low[j] /\ q[d + h + j] = low[j]
        BY <1>3, <1>7, <1>8, <3>2
      <3> QED BY <3>0, <3>1, <3>3
    <2> QED BY <1>3, <2>1, <2>2, <2>3
  <1>12. r[k + 1] = b
    <2>1. l2 \in 1 .. l2 /\ k + 1 = d + h + l2
      BY <1>3, <1>7, <1>9
    <2>2. r[d + h + l2] = low2[l2]
      BY <1>8, <2>1
    <2> QED BY <1>7, <2>1, <2>2
  <1>13. k \in 0 .. k /\ \A i \in k + 2 .. k + 1 : r[i] = q[i - 1]
    BY <1>9
  <1> QED BY <1>9, <1>10, <1>11, <1>12, <1>13 DEF Placed


\* A request is the first one: what is ahead of its message is not on the way.
LEMMA DataAhead ==
    ASSUME Types, IdInv, CallInv, PipeInv, NEW c, CtrlFrame(c), c.c \in Data,
           NEW m, m = c.m, NEW a \in DOMAIN sent, Ahead(sent, a, m)
    PROVE  ~ Before(a)
  <1>1. c = pipe[1] /\ 1 \in DOMAIN pipe
    BY CtrlFacts
  <1>2. m \in DOMAIN sent /\ (sent[m].low <=> c.c = "P")
    BY <1>1 DEF PipeInv
  <1>3. a < m /\ ~ sent[a].low /\ ~ sent[m].low /\ sent[a].w = sent[m].w
    BY DEF Ahead
  <1>4. a \in Nat /\ m \in Nat /\ c.c = "D"
    BY <1>2, <1>3 DEF Types, Data
  <1>5. ASSUME NEW v \in Worker, call[v].at \in Msg \ {"W"}, call[v].m = a PROVE FALSE
    <2>1. sent[a].w = v /\ \A n \in DOMAIN sent : sent[n].w = v => n <= a
      BY <1>5 DEF CallInv
    <2>2. m <= a
      BY <1>2, <1>3, <2>1
    <2> QED BY <1>3, <1>4, <2>2
  <1>6. ASSUME NEW p \in DOMAIN pipe, pipe[p].c \in Data, pipe[p].m = a PROVE FALSE
    <2>1. pipe[p].c = "D"
      BY <1>3, <1>6 DEF PipeInv, Data
    <2>2. p # 1
      BY <1>1, <1>3, <1>4, <1>6
    <2>3. p \in Nat /\ 1 < p
      BY <2>2 DEF Types
    <2>4. pipe[1].m < pipe[p].m
      BY <1>1, <1>3, <1>4, <1>6, <2>1, <2>3 DEF PipeInv
    <2> QED BY <1>1, <1>3, <1>4, <1>6, <2>4
  <1> QED BY <1>5, <1>6 DEF Before

\* The stream ends with a whole message when no buffer but those of the low list
\* waits.
LEMMA LowEnds ==
    ASSUME Types, IdInv, NEW s \in Slot, ListAt(s), TakenAt(s), Running(s), sock[s].dw = << >>,
           sock[s].high = << >>, NEW i, i = sock[s].id, NEW str \in Seq(Write), str = wire[i],
           NEW q, q = Line(sock[s]), Good(sent, Stream(str, q))
    PROVE  Ends(str)
  <1>1. PICK x \in Sock : x = sock[s]
    BY SlotLine
  <1>2. q \in Seq(Node) /\ (q = << >> <=> x.low = << >>)
    BY <1>1, SlotLine, LineEmpty
  <1>3. CASE q = << >>
    <2>1. Stream(str, q) = str
      BY <1>3, StreamEmpty
    <2> QED BY <2>1 DEF Good
  <1>4. CASE q # << >>
    <2>1. PICK v : v = Stream(str, q)
      OBVIOUS
    <2>2. IsStream(v, str, q)
      BY <1>2, <2>1, StreamIs
    <2>3. PICK L \in Nat, Q \in Nat : L = Len(str) /\ Q = Len(q)
      BY <2>2 DEF IsStream
    <2>4. /\ v \in Seq(Write) /\ Len(v) = L + Q /\ DOMAIN str = 1 .. L
          /\ \A j \in 1 .. L : v[j] = str[j]
          /\ \A j \in 1 .. Q : v[L + j] = Rest(q[j])
      BY <2>2, <2>3 DEF IsStream
    <2>5. Q >= 1
      BY <1>2, <1>4, <2>3
    <2>6. q[1].at = 0
      <3>1. PICK l \in Seq(Node) : l = x.low
        BY DEF Sock
      <3>2. l # << >> /\ 1 \in DOMAIN l /\ 1 \in 1 .. Len(l)
        BY <1>2, <1>4, <3>1
      <3>3. l[1].at = 0
        BY <1>1, <3>1, <3>2 DEF ListAt
      <3>4. q[1] = l[1]
        <4>1. PICK dw \in Seq(Node), hi \in Seq(Node) : dw = x.dw /\ hi = x.high
          BY DEF Sock
        <4>2. PICK d \in Nat, h \in Nat, n \in Nat : d = Len(dw) /\ h = Len(hi) /\ n = Len(l)
          OBVIOUS
        <4>3. MadeOf(q, dw, hi, l, d, h, n)
          BY <1>1, <3>1, <4>1, <4>2, LineParts
        <4>4. dw = << >> /\ hi = << >>
          BY <1>1, <4>1
        <4>5. d = 0 /\ h = 0 /\ 1 \in 1 .. n
          BY <3>2, <4>2, <4>4
        <4>6. q[d + h + 1] = l[1] /\ d + h + 1 = 1
          BY <4>3, <4>5 DEF MadeOf
        <4> QED BY <4>6
      <3> QED BY <3>3, <3>4
    <2>7. v[L + 1].from = 0
      <3>1. v[L + 1] = Rest(q[1])
        BY <2>4, <2>5
      <3> QED BY <2>6, <3>1 DEF Rest
    <2>8. WholeMessages(v)
      BY <2>1 DEF Good
    <2>9. \A p \in 1 .. Len(v) : IF p > 1 /\ v[p - 1].to < MsgSize THEN Follows(v, p) ELSE Begins(v, p)
      BY <2>4, <2>8, WholeIs
    <2>10. ASSUME str # << >> PROVE str[Len(str)].to = MsgSize
      <3>0. L # 0
        BY <2>3, <2>10
      <3>1. L >= 1 /\ L \in 1 .. L /\ L + 1 \in 1 .. L + Q /\ L + 1 > 1 /\ (L + 1) - 1 = L
        BY <2>5, <3>0
      <3>2. v[L] = str[L]
        BY <2>4, <3>1
      <3>3. IF v[L].to < MsgSize THEN Follows(v, L + 1) ELSE Begins(v, L + 1)
        <4>1. L + 1 \in 1 .. Len(v)
          BY <2>4, <3>1
        <4>2. IF L + 1 > 1 /\ v[(L + 1) - 1].to < MsgSize THEN Follows(v, L + 1) ELSE Begins(v, L + 1)
          BY <2>9, <4>1
        <4> QED BY <3>1, <4>2
      <3>4. PICK t : t = str[L].to
        OBVIOUS
      <3>5. t \in 1 .. MsgSize
        <4>1. i \in Id /\ HASH_ID(i) = s
          BY RunningId
        <4>2. L \in DOMAIN wire[i]
          BY <2>4, <3>1
        <4> QED BY <3>4, <4>1, <4>2 DEF TakenAt
      <3>6. ~ (t < MsgSize)
        <4>1. ASSUME t < MsgSize PROVE FALSE
          <5>1. Follows(v, L + 1)
            BY <3>2, <3>3, <3>4, <4>1
          <5>2. v[L + 1].from = v[(L + 1) - 1].to
            BY <5>1 DEF Follows
          <5>3. t = 0
            BY <2>7, <3>1, <3>2, <3>4, <5>2
          <5> QED BY <3>5, <5>3
        <4> QED BY <4>1
      <3>7. t = MsgSize
        BY <3>5, <3>6, Bounds
      <3> QED BY <2>3, <3>4, <3>7
    <2> QED BY <2>10 DEF Ends
  <1> QED BY <1>3, <1>4

\* A request that is queued: its place, and why it fits there.
LEMMA DataPlaced ==
    ASSUME Types, IdInv, CallInv, PipeInv, NEW c, CtrlFrame(c), DataElse(c) \/ DataTcp(c),
           NEW s \in Slot, s = HASH_ID(c.id), ListAt(s), TakenAt(s), Running(s),
           ~ Drops(sock[s], c.id), NEW i, i = sock[s].id, NEW str \in Seq(Write), str = wire[i],
           NEW q, q = Line(sock[s]), Good(sent, Stream(str, q)), AllOK(i, Stream(str, q)),
           NEW r, r = Line(sock'[s]), NEW m, m = c.m
    PROVE  \E n : Placed(q, r, n, Buffer(m)) /\ FitsBehind(sent, str, q, n, m)
  <1>1. PICK x \in Sock : x = sock[s]
    BY SlotLine
  <1>2. PICK b : b = Buffer(m)
    OBVIOUS
  <1>3. /\ c.c \in Data /\ SlotTo(s) /\ sock'[s].dw = x.dw
        /\ send_buffer_empty(x) => sock'[s].high = <<b>> /\ sock'[s].low = << >>
        /\ ~ send_buffer_empty(x) /\ sent[m].low => sock'[s].high = x.high /\ sock'[s].low = Append(x.low, b)
        /\ ~ send_buffer_empty(x) /\ ~ sent[m].low => sock'[s].high = Append(x.high, b) /\ sock'[s].low = x.low
    BY <1>1, <1>2, DataView DEF Data
  <1>4. PICK y \in Sock : y = sock'[s]
    BY <1>3 DEF SlotTo
  <1>5. q \in Seq(Node)
    BY <1>1, LineIs
  <1>6. i = c.id
    BY DEF Drops
  <1>7. CASE ~ send_buffer_empty(x) /\ sent[m].low
    <2>1. PICK n : n = Len(q)
      OBVIOUS
    <2>2. Placed(q, r, n, b) /\ n \in Nat
      BY <1>1, <1>3, <1>4, <1>7, <2>1, PlaceLow
    <2>3. n # 0
      <3>1. q # << >>
        BY <1>1, <1>7, LineIs DEF send_buffer_empty
      <3> QED BY <1>5, <2>1, <3>1
    <2>4. FitsBehind(sent, str, q, n, m)
      BY <1>7, <2>3 DEF FitsBehind, Ahead
    <2> QED BY <1>2, <2>2, <2>4
  <1>8. CASE send_buffer_empty(x) \/ ~ sent[m].low
    <2>1. PICK d \in Nat, h \in Nat, l \in Nat : d = Len(x.dw) /\ h = Len(x.high) /\ l = Len(x.low)
      BY LineIs
    <2>2. PICK n \in Nat : n = d + h
      OBVIOUS
    <2>3. y.dw = x.dw /\ y.high = Append(x.high, b) /\ y.low = x.low
      <3>1. CASE send_buffer_empty(x)
        <4>1. x.high = << >> /\ x.low = << >>
          BY <3>1 DEF send_buffer_empty
        <4>2. Append(<< >>, b) = <<b>>
          OBVIOUS
        <4> QED BY <1>3, <1>4, <3>1, <4>1, <4>2
      <3>2. CASE ~ send_buffer_empty(x)
        BY <1>3, <1>4, <1>8, <3>2
      <3> QED BY <3>1, <3>2
    <2>4. Placed(q, r, n, b)
      <3>1. n = Len(x.dw) + Len(x.high)
        BY <2>1, <2>2
      <3> QED BY <1>1, <1>4, <2>3, <3>1, PlaceHigh
    <2>5. n = 0 => Ends(str)
      <3>1. ASSUME n = 0 PROVE Ends(str)
        <4>1. d = 0 /\ h = 0
          BY <2>2, <3>1
        <4>2. PICK dw \in Seq(Node), hi \in Seq(Node) : dw = x.dw /\ hi = x.high
          BY DEF Sock
        <4>3. dw = << >> /\ hi = << >>
          <5>1. Len(dw) = 0 /\ Len(hi) = 0
            BY <2>1, <4>1, <4>2
          <5> QED BY <5>1
        <4>4. sock[s].dw = << >> /\ sock[s].high = << >>
          BY <1>1, <4>2, <4>3
        <4> QED BY <4>4, LowEnds
      <3> QED BY <3>1
    <2>6. ASSUME NEW a \in DOMAIN sent, Ahead(sent, a, m)
          PROVE  InWire(str, a) \/ \E j \in 1 .. n : q[j].m = a
      <3>1. ~ Before(a)
        BY <1>3, <2>6, DataAhead
      <3>2. m \in DOMAIN sent /\ sent[m].id = c.id
        <4>1. c = pipe[1] /\ 1 \in DOMAIN pipe
          BY CtrlFacts
        <4> QED BY <1>3, <4>1 DEF PipeInv
      <3>3. sent[a].id = i /\ ~ sent[a].low
        BY <1>6, <2>6, <3>2 DEF Ahead
      <3>4. PICK v : v = Stream(str, q)
        OBVIOUS
      <3>5. InWire(v, a)
        BY <3>1, <3>3, <3>4 DEF AllOK
      <3>6. IsStream(v, str, q)
        BY <1>5, <3>4, StreamIs
      <3>7. PICK L \in Nat, Q \in Nat : L = Len(str) /\ Q = Len(q)
        BY <3>6 DEF IsStream
      <3>8. /\ DOMAIN v = 1 .. L + Q /\ DOMAIN str = 1 .. L
            /\ \A j \in 1 .. L : v[j] = str[j]
            /\ \A j \in 1 .. Q : v[L + j] = Rest(q[j])
        BY <3>6, <3>7 DEF IsStream
      <3>9. PICK p \in 1 .. L + Q : v[p].m = a
        BY <3>5, <3>8 DEF InWire
      <3>10. CASE p <= L
        <4>1. p \in DOMAIN str /\ str[p].m = a
          BY <3>8, <3>9, <3>10
        <4> QED BY <4>1 DEF InWire
      <3>11. CASE p > L
        <4>1. PICK j \in 1 .. Q : p = L + j
          BY <3>11
        <4>2. q[j].m = a
          <5>1. v[p] = Rest(q[j])
            BY <3>8, <4>1
          <5> QED BY <3>9, <5>1 DEF Rest
        <4>3. j <= n
          <5>1. ASSUME j > n PROVE FALSE
            <6>1. Q = d + h + l
              BY <1>1, <2>1, <3>7, LineIs
            <6>2. PICK k \in 1 .. l : j = d + h + k
              BY <2>2, <5>1, <6>1
            <6>3. PICK low \in Seq(Node) : low = x.low
              BY DEF Sock
            <6>4. k \in DOMAIN low /\ q[j] = low[k]
              <7>0. PICK dw \in Seq(Node), hi \in Seq(Node) : dw = x.dw /\ hi = x.high
                BY DEF Sock
              <7>a. d = Len(dw) /\ h = Len(hi) /\ l = Len(low)
                BY <2>1, <6>3, <7>0
              <7>b. MadeOf(q, dw, hi, low, d, h, l)
                BY <1>1, <6>3, <7>0, <7>a, LineParts
              <7>1. \A t \in 1 .. l : q[d + h + t] = low[t]
                BY <7>b DEF MadeOf
              <7>2. Len(low) = l
                BY <2>1, <6>3
              <7> QED BY <6>2, <7>1, <7>2
            <6>5. sent[low[k].m].low
              BY <1>1, <6>3, <6>4 DEF ListAt
            <6> QED BY <3>3, <4>2, <6>4, <6>5
          <5> QED BY <5>1, <2>2
        <4>4. j \in 1 .. n
          BY <4>3
        <4> QED BY <4>2, <4>4
      <3> QED BY <3>10, <3>11
    <2>7. FitsBehind(sent, str, q, n, m)
      BY <2>5, <2>6 DEF FitsBehind
    <2> QED BY <1>2, <2>4, <2>7
  <1> QED BY <1>7, <1>8

LEMMA FlowData ==
    ASSUME Types, Types', IdInv, AskInv, CallInv, PipeInv, NEW c, CtrlFrame(c),
           DataElse(c) \/ DataTcp(c), NEW s \in Slot, s = HASH_ID(c.id), Coherent(s), ListAt(s),
           FlowAt(s), Grow
    PROVE  FlowAt(s)'
  <1>1. /\ c.c \in Data /\ SameName(s) /\ SameType(s)
        /\ Drops(sock[s], c.id) => SameLists(s)
    BY DataView DEF Data
  <1>2. /\ fc.at # "lock" /\ call' = call /\ sent' = sent /\ wire' = wire
        /\ c = pipe[1] /\ 1 \in DOMAIN pipe
    BY CtrlFacts
  <1>3. OnlyLess
    BY OnlyLessCtrl
  <1>4. sock'[s].id = sock[s].id /\ sock'[s].type = sock[s].type /\ sock'[s].closing = sock[s].closing
    BY <1>1 DEF SameName, SameType
  <1>5. PICK m : m = c.m
    OBVIOUS
  <1>6. m \in DOMAIN sent /\ sent[m].id = c.id /\ Before(m)
    <2>1. m \in DOMAIN sent /\ sent[m].id = c.id
      BY <1>1, <1>2, <1>5 DEF PipeInv
    <2>2. Before(m)
      BY <1>1, <1>2, <1>5 DEF Before
    <2> QED BY <2>1, <2>2
  <1>7. ASSUME NEW a, Before(a), a # m PROVE Before(a)'
    BY <1>5, <1>7, BeforeLess
  <1>8. WireAt(s) /\ FlowWire(s) /\ FlowSock(s) /\ TakenAt(s)
    BY DEF FlowAt
  <1>9. ASSUME Running(s)' PROVE Running(s)
    BY <1>2, <1>4, <1>9, RunningBack DEF Running
  <1>10. CASE Drops(sock[s], c.id)
    <2>1. ASSUME Running(s)' PROVE sock[s].type \in Live \ {"HALFCLOSE_WRITE"}
      BY <1>4, <2>1 DEF Running
    <2>2. CASE ~ Running(s)'
      BY <1>2, <1>3, <2>2, FlowQuiet
    <2>3. CASE Running(s)'
      <3>1. sock[s].id # c.id \/ sock[s].closing
        <4>1. sock[s].type # "PACCEPT" \/ sock[s].id # c.id
          <5>1. Open(c.id)
            BY <1>1, <1>2 DEF AskInv, Data
          <5>2. s \notin torn
            BY <1>9, <2>3 DEF Running
          <5> QED BY <5>1, <5>2 DEF Coherent
        <4> QED BY <1>10, <2>1, <2>3, <4>1 DEF Drops, Live
      <3>2. ASSUME ~ sock'[s].closing, NEW a \in DOMAIN sent', sent'[a].id = sock[s].id
            PROVE  Before(a)' \/ (a \in DOMAIN sent /\ ~ Before(a))
        <4>1. a # m
          BY <1>2, <1>4, <1>6, <3>1, <3>2
        <4> QED BY <1>2, <1>7, <4>1
      <3> QED BY <1>1, <1>2, <1>3, <1>4, <1>10, <2>1, <2>3, <3>2, FlowStay
    <2> QED BY <2>2, <2>3
  <1>11. CASE ~ Drops(sock[s], c.id)
    <2>1. WireAt(s)' /\ FlowWire(s)' /\ TakenAt(s)'
      BY <1>2, <1>3, <1>8, WireKeep, FlowWireKeep, TakenKeep
    <2>2. FlowSock(s)'
      <3> SUFFICES ASSUME Running(s)'
                   PROVE  \E j, st, l, closing :
                            /\ j = sock'[s].id /\ st = wire'[j] /\ l = Line(sock'[s])
                            /\ closing = sock'[s].closing /\ FlowOK(s, j, st, l, closing)'
        BY FlowSockIs
      <3>1. Running(s)
        BY <1>9
      <3>2. PICK i \in Id : i = sock[s].id
        BY <3>1, RunningId
      <3>3. PICK str \in Seq(Write) : str = wire[i]
        BY DEF Types
      <3>4. PICK q \in Seq(Node) : q = Line(sock[s])
        BY SlotLine
      <3>5. PICK y \in Sock : y = sock'[s]
        BY DEF Types
      <3>6. PICK r : r = Line(y)
        OBVIOUS
      <3>7. r \in Seq(Node)
        BY <3>6, LineIs
      <3>8. PICK cl : cl = sock[s].closing
        OBVIOUS
      <3>9. FlowOK(s, i, str, q, cl)
        BY <1>8, <3>1, <3>2, <3>3, <3>4, <3>8 DEF FlowSock
      <3>10. ~ cl
        BY <1>11, <3>8 DEF Drops
      <3>11. Good(sent, Stream(str, q)) /\ DirectOK(s, str) /\ AllOK(i, Stream(str, q))
        BY <3>9, <3>10 DEF FlowOK
      <3>12. PICK n : Placed(q, r, n, Buffer(m)) /\ FitsBehind(sent, str, q, n, m)
        <4>1. r = Line(sock'[s])
          BY <3>5, <3>6
        <4> QED BY <1>5, <1>8, <1>11, <3>1, <3>2, <3>3, <3>4, <3>11, <4>1, DataPlaced
      <3>13. ~ InWire(Stream(str, q), m)
        <4>1. WireAt(s)
          BY <1>8
        <4> QED BY <1>6, <3>1, <3>2, <3>3, <3>4, <4>1, NotInStream, ZenonT(60)
      <3>14. /\ Good(sent, Stream(str, r)) /\ InWire(Stream(str, r), m)
             /\ Keeps(Stream(str, q), Stream(str, r))
        BY <3>7, <3>11, <3>12, <3>13, PlaceGood
      <3>15. Good(sent', Stream(str, r))
        BY <1>2, <3>14
      <3>16. ASSUME NEW a \in DOMAIN sent', sent'[a].id = i, ~ sent'[a].low
             PROVE  InWire(Stream(str, r), a) \/ Before(a)'
        <4>1. InWire(Stream(str, q), a) \/ Before(a)
          BY <1>2, <3>11, <3>16 DEF AllOK
        <4>2. CASE InWire(Stream(str, q), a)
          BY <3>14, <4>2 DEF Keeps
        <4>3. CASE a = m
          BY <3>14, <4>3
        <4>4. CASE Before(a) /\ a # m
          BY <1>7, <4>4
        <4> QED BY <4>1, <4>2, <4>3, <4>4
      <3>17. \A w \in Worker : call'[w].at = "write" /\ HASH_ID(call'[w].id) = s =>
               /\ Ends(str)
               /\ \A a \in DOMAIN sent' : Ahead(sent', a, call'[w].m) => InWire(str, a)
        BY <1>2, <3>11 DEF DirectOK
      <3>18. FlowOK(s, i, str, r, cl)'
        BY <3>15, <3>16, <3>17, FlowOKIs
      <3>19. i = sock'[s].id /\ str = wire'[i] /\ r = Line(sock'[s]) /\ cl = sock'[s].closing
        BY <1>2, <1>4, <3>2, <3>3, <3>5, <3>6, <3>8
      <3> QED BY <3>18, <3>19
    <2> QED BY <2>1, <2>2 DEF FlowAt
  <1> QED BY <1>10, <1>11

LEMMA FlowCtrl ==
    ASSUME Types, IdInv, LockInv, AskInv, CallInv, PipeInv, NEW c, CtrlCase(c), NEW s \in Slot,
           s = HASH_ID(c.id), Pending(s), Coherent(s), Covered(s), ListAt(s), FlowAt(s), Grow
    PROVE  FlowAt(s)'
  <1> DEFINE G == FlowAt(s)'
  <1>c. Types' /\ CtrlFrame(c) /\ c.id \in Id
    BY CtrlUp
  <1>f. /\ fc.at # "lock" /\ call' = call /\ sent' = sent /\ wire' = wire
        /\ c = pipe[1] /\ 1 \in DOMAIN pipe
    BY <1>c, CtrlFacts
  <1>o. OnlyLess
    BY <1>c, OnlyLessCtrl
  <1>n. ASSUME ~ Running(s)' PROVE G
    BY <1>c, <1>f, <1>o, <1>n, FlowQuiet
  <1>a. ASSUME c.c \notin Data, sock'[s].id = sock[s].id, SameLists(s),
               sock[s].closing => sock'[s].closing,
               Running(s)' => sock[s].type \in Live \ {"HALFCLOSE_WRITE"}
        PROVE  G
    BY <1>c, <1>a, FlowCmd
  <1> HIDE DEF G
  <1>i. ASSUME sock'[s].type \notin Live \ {"HALFCLOSE_WRITE"} PROVE G
    BY <1>n, <1>i DEF Running
  <1>s. ASSUME sock' = sock, c.c \notin Data PROVE G
    <2>1. Running(s)' => sock[s].type \in Live \ {"HALFCLOSE_WRITE"}
      BY <1>s DEF Running
    <2> QED BY <1>a, <1>s, <2>1 DEF SameLists
  <1>1. ASSUME OpenFail(c) \/ ResumeFail(c) PROVE G
    <2>1. sock'[s].type = "INVALID"
      BY <1>1, FailView
    <2> QED BY <1>i, <2>1 DEF Live
  <1>2. ASSUME NEW type, NEW writing, NEW kind, NEW state, OpenNew(c, type, writing, kind, state) PROVE G
    <2>1. /\ c.c = "O" /\ SlotTo(s) /\ sock[s].type = "RESERVE" /\ sock'[s].id = c.id
          /\ ~ sock'[s].closing
          /\ sock'[s].high = << >> /\ sock'[s].low = << >> /\ sock'[s].dw = << >>
          /\ torn' = torn
      BY <1>2, OpenNewView
    <2>2. PICK i : i = c.id
      OBVIOUS
    <2>3. ASSUME s \notin torn'
          PROVE  /\ wire[i] = << >>
                 /\ \A w \in Worker : call'[w].at = "write" => HASH_ID(call'[w].id) # s
                 /\ \A m \in DOMAIN sent' : sent'[m].id # i
      <3>1. s \notin torn /\ said[c.id] \cap {"OPEN", "ACCEPT", "CLOSE"} = {} /\ wire[c.id] = << >>
        BY <1>c, <2>1, <2>3, PendingHead
      <3>2. ASSUME NEW w \in Worker, call'[w].at = "write", HASH_ID(call'[w].id) = s PROVE FALSE
        <4>1. lock[s] = w /\ lock[s] # None
          BY <1>f, <3>2, Bounds DEF LockInv
        <4>2. sock[s].type \in {"CONNECTED", "HALFCLOSE_READ"}
          BY <3>1, <4>1 DEF LockInv
        <4> QED BY <2>1, <4>2
      <3>3. \A m \in DOMAIN sent : "OPEN" \in said[sent[m].id]
        BY DEF AskInv, Open
      <3> QED BY <1>f, <2>2, <3>1, <3>2, <3>3
    <2>4. sock'[s] \in Sock
      BY <2>1 DEF SlotTo
    <2> QED BY <1>c, <1>f, <1>o, <2>1, <2>2, <2>3, <2>4, FlowNew DEF G
  <1>3. ASSUME CtrlStop(c) PROVE G
    <2>1. /\ sock' = sock /\ torn' = torn
          /\ c.c \in {"O", "K", "Q"} \/ aborted' = "dec_sending_ref"
          /\ aborted' = "dec_sending_ref" =>
               c.c \in {"D", "P"} /\ sock[s].sending = 0 /\ sock[s].id = c.id /\ sock[s].tcp
      BY <1>3 DEF CtrlStop
    <2>2. CASE c.c \notin Data
      BY <1>s, <2>1, <2>2
    <2>3. CASE c.c \in Data
      <3>1. sock[s].sending = 0 /\ sock[s].id = c.id /\ sock[s].tcp
        BY <2>1, <2>3 DEF Data
      <3>2. s \in torn
        <4>1. ASSUME s \notin torn PROVE FALSE
          <5>1. pipe[1].c \in Data /\ pipe[1].id = sock[s].id
            BY <1>f, <2>3, <3>1
          <5>2. sock[s].sending > 0
            BY <1>f, <3>1, <4>1, <5>1, CountedPositive
          <5> QED BY <3>1, <5>2
        <4> QED BY <4>1
      <3>3. ~ Running(s)'
        BY <2>1, <3>2 DEF Running
      <3> QED BY <1>n, <3>3
    <2> QED BY <2>2, <2>3
  <1>4. ASSUME NEW kind, CtrlTell(c, kind) PROVE G
    <2>1. sock' = sock /\ c.c \notin Data
      BY <1>4 DEF CtrlTell, Data
    <2> QED BY <1>s, <2>1
  <1>5. ASSUME CloseNow(c) PROVE G
    <2>1. /\ c.c \in {"K", "Q"} /\ sock[s].id = c.id /\ SameName(s) /\ SameType(s)
          /\ c.c = "Q" \/ nomore_sending_data(sock[s])
          /\ sock'[s].high = << >> /\ sock'[s].low = << >> /\ sock'[s].dw = sock[s].dw
          /\ said' = said
      BY <1>5, CloseNowView
    <2>2. sock'[s].id = sock[s].id /\ sock'[s].type = sock[s].type /\ sock'[s].closing = sock[s].closing
      BY <2>1 DEF SameName, SameType
    <2>3. CASE c.c = "Q"
      <3>1. "SHUTDOWN" \in said[c.id]
        BY <1>f, <2>3 DEF AskInv
      <3>2. "SHUTDOWN" \in said'[sock'[s].id]
        BY <2>1, <2>2, <3>1
      <3>3. ~ Running(s)'
        BY <3>2 DEF Running, Clean
      <3> QED BY <1>n, <3>3
    <2>4. CASE sock[s].type = "HALFCLOSE_WRITE"
      BY <1>i, <2>2, <2>4
    <2>5. CASE c.c # "Q" /\ sock[s].type # "HALFCLOSE_WRITE"
      <3>1. sock[s].high = << >> /\ sock[s].low = << >>
        BY <2>1, <2>5 DEF nomore_sending_data, send_buffer_empty
      <3>2. SameLists(s)
        BY <2>1, <3>1 DEF SameLists
      <3>3. Running(s)' => sock[s].type \in Live \ {"HALFCLOSE_WRITE"}
        BY <2>2 DEF Running
      <3>4. c.c \notin Data
        BY <2>1 DEF Data
      <3> QED BY <1>a, <2>2, <3>2, <3>3, <3>4
    <2> QED BY <2>3, <2>4, <2>5
  <1>6. ASSUME CloseLater(c) PROVE G
    <2>1. /\ c.c = "K" /\ SameName(s) /\ SameLists(s) /\ sock'[s].closing
          /\ sock[s].type \in Live \cup {"RESERVE"} /\ ~ nomore_sending_data(sock[s])
          /\ torn' = torn \cup (IF sock[s].type = "RESERVE" THEN {s} ELSE {})
      BY <1>6, CloseLaterView
    <2>2. Running(s)' => sock[s].type \in Live \ {"HALFCLOSE_WRITE"}
      BY <2>1 DEF Running, nomore_sending_data
    <2>3. c.c \notin Data /\ sock'[s].id = sock[s].id
      BY <2>1 DEF Data, SameName
    <2> QED BY <1>a, <2>1, <2>2, <2>3
  <1>7. ASSUME Resumed(c) PROVE G
    <2>1. /\ c.c = "R" /\ SameName(s) /\ SameLists(s) /\ sock'[s].closing = sock[s].closing
          /\ sock'[s].type = (IF sock[s].type = "PACCEPT" THEN "CONNECTED" ELSE sock[s].type)
      BY <1>7, ResumedView
    <2>2. Running(s)' => sock[s].type \in Live \ {"HALFCLOSE_WRITE"}
      BY <2>1 DEF Running, Live
    <2>3. c.c \notin Data /\ sock'[s].id = sock[s].id
      BY <2>1 DEF Data, SameName
    <2> QED BY <1>a, <2>1, <2>2, <2>3
  <1>8. ASSUME Paused(c) \/ Armed(c) PROVE G
    <2>1. c.c \in {"S", "W"} /\ SameName(s) /\ SameLists(s) /\ SameType(s)
      BY <1>8, PokedView
    <2>2. Running(s)' => sock[s].type \in Live \ {"HALFCLOSE_WRITE"}
      BY <2>1 DEF Running, SameType
    <2>3. c.c \notin Data /\ sock'[s].id = sock[s].id /\ sock'[s].closing = sock[s].closing
      BY <2>1 DEF Data, SameName, SameType
    <2> QED BY <1>a, <2>1, <2>2, <2>3
  <1>9. ASSUME DataElse(c) \/ DataTcp(c) PROVE G
    BY <1>c, <1>9, FlowData DEF G
  <1>10. G
    BY <1>1, <1>2, <1>3, <1>4, <1>5, <1>6, <1>7, <1>8, <1>9 DEF CtrlCase
  <1> QED BY <1>10 DEF G
LEMMA BeforeSame == ASSUME call' = call, pipe' = pipe, NEW m PROVE Before(m)' <=> Before(m)
  BY DEF Before

\* No message moves.
LEMMA FlowIdle ==
    ASSUME Types, Types', IdInv, CallInv, NEW s \in Slot, ListAt(s), FlowAt(s), Grow,
           call' = call, pipe' = pipe, sent' = sent,
           \A i \in Id : HASH_ID(i) = s => wire'[i] = wire[i],
           sock'[s].id = sock[s].id, SameLists(s), sock[s].closing => sock'[s].closing,
           Running(s)' => sock[s].type \in Live \ {"HALFCLOSE_WRITE"},
           fc.at = "lock" => fc' = fc /\ (net[fc.id] \in Gone => net'[fc.id] \in Gone)
    PROVE  FlowAt(s)'
  <1>1. OnlyLess
    BY BeforeSame DEF OnlyLess
  <1>2. \A w \in Worker : call'[w].at = "write" => call'[w] = call[w]
    OBVIOUS
  <1>3. \A m \in DOMAIN sent' : sent'[m].id = sock[s].id =>
          Before(m)' \/ (m \in DOMAIN sent /\ ~ Before(m))
    BY BeforeSame
  <1> QED BY <1>1, <1>2, <1>3, FlowStay

\* Stream str2 is str and writes of buffers of q.
AddsOf(str, str2, q) ==
    /\ \A p \in DOMAIN str2 :
         (p \in DOMAIN str /\ str2[p] = str[p]) \/ \E j \in DOMAIN q : str2[p].m = q[j].m
    /\ q = << >> => str2 = str
    /\ (\A p \in DOMAIN str : str[p].to \in 1 .. MsgSize) =>
         \A p \in DOMAIN str2 : str2[p].to \in 1 .. MsgSize

LEMMA WritesIn ==
    ASSUME NEW str \in Seq(Write), NEW q \in Seq(Node), NEW n \in Nat, NEW k \in 0 .. MsgSize - 1,
           CanWrite(q, n, k), NEW str2, str2 = str \o Writes(q, n, k)
    PROVE  AddsOf(str, str2, q)
  <1>0. MsgSize \in Nat /\ MsgSize # 0
    BY Bounds
  <1>1. PICK wr : wr = Writes(q, n, k)
    OBVIOUS
  <1>2. AreWrites(wr, q, n, k)
    BY <1>1, WritesIs
  <1>3. wr \in Seq(Write)
    BY <1>2 DEF AreWrites
  <1>4. str2 \in Seq(Write) /\ Joins(str2, str, wr)
    BY <1>1, <1>3, CatWriteIs
  <1>5. PICK L \in Nat, W \in Nat, Q \in Nat : L = Len(str) /\ W = Len(wr) /\ Q = Len(q)
    BY <1>3
  <1>6. /\ DOMAIN str2 = 1 .. L + W /\ DOMAIN str = 1 .. L
        /\ \A p \in 1 .. L : str2[p] = str[p]
        /\ \A p \in 1 .. W : str2[L + p] = wr[p]
    BY <1>4, <1>5 DEF Joins
  <1>7. n <= Q /\ (k > 0 => n < Q /\ q[n + 1].at + k < MsgSize) /\ DOMAIN q = 1 .. Q
    BY <1>5 DEF CanWrite
  <1>8. ASSUME NEW j \in 1 .. W
        PROVE  wr[j].to \in 1 .. MsgSize /\ \E h \in DOMAIN q : wr[j].m = q[h].m
    <2>1. CASE j <= n
      <3>1. wr[j] = [m |-> q[j].m, from |-> q[j].at, to |-> MsgSize]
        BY <1>2, <2>1 DEF AreWrites
      <3>2. wr[j].m = q[j].m /\ wr[j].to = MsgSize
        BY <3>1
      <3>3. j \in DOMAIN q
        BY <1>7, <2>1
      <3>4. MsgSize \in 1 .. MsgSize
        BY <1>0
      <3> QED BY <3>2, <3>3, <3>4
    <2>2. CASE j > n
      <3>1. W = n + IF k = 0 THEN 0 ELSE 1
        BY <1>2, <1>5 DEF AreWrites
      <3>2. k # 0 /\ j = n + 1 /\ k > 0
        BY <1>0, <2>2, <3>1
      <3>3. wr[n + 1] = [m |-> q[n + 1].m, from |-> q[n + 1].at, to |-> q[n + 1].at + k]
        BY <1>2, <3>2 DEF AreWrites
      <3>4. PICK a : a = q[n + 1].at
        OBVIOUS
      <3>5. n + 1 \in DOMAIN q
        BY <1>7, <3>2
      <3>6. q[n + 1] \in Node
        BY <3>5
      <3>7. a \in Nat
        BY <3>4, <3>6 DEF Node
      <3>8. a + k \in 1 .. MsgSize
        <4>1. a + k < MsgSize
          BY <1>7, <3>2, <3>4
        <4> QED BY <1>0, <3>2, <3>7, <4>1
      <3>9. wr[j].m = q[n + 1].m /\ wr[j].to = a + k
        BY <3>2, <3>3, <3>4
      <3> QED BY <3>5, <3>8, <3>9
    <2> QED BY <2>1, <2>2
  <1>9. ASSUME NEW p \in 1 .. L + W
        PROVE  (p \in DOMAIN str /\ str2[p] = str[p]) \/ \E j \in 1 .. W : str2[p] = wr[j]
    <2>1. CASE p <= L
      BY <1>6, <2>1
    <2>2. CASE p > L
      <3>1. PICK j \in 1 .. W : p = L + j
        <4>1. p \in Int /\ L \in Int /\ W \in Int /\ p > L /\ p <= L + W
          BY <2>2
        <4> QED BY <4>1, Shift
      <3> QED BY <1>6, <3>1
    <2>3. p <= L \/ p > L
      OBVIOUS
    <2> QED BY <2>1, <2>2, <2>3
  <1>10. q = << >> => str2 = str
    <2>1. ASSUME q = << >> PROVE str2 = str
      <3>1. Q = 0
        BY <1>5, <2>1
      <3>2. ~ (k > 0) /\ n = 0
        BY <1>7, <3>1
      <3>3. k = 0
        BY <1>0, <3>2
      <3>4. W = n + IF k = 0 THEN 0 ELSE 1
        BY <1>2, <1>5 DEF AreWrites
      <3>5. W = 0
        BY <3>2, <3>3, <3>4
      <3>6. Len(str2) = L
        BY <1>4, <1>5, <3>5 DEF Joins
      <3> QED BY <1>4, <1>5, <1>6, <3>6, SameStream
    <2> QED BY <2>1
  <1>11. \A p \in DOMAIN str2 :
          (p \in DOMAIN str /\ str2[p] = str[p]) \/ \E j \in DOMAIN q : str2[p].m = q[j].m
    <2> SUFFICES ASSUME NEW p \in 1 .. L + W
                 PROVE  (p \in DOMAIN str /\ str2[p] = str[p]) \/ \E j \in DOMAIN q : str2[p].m = q[j].m
      BY <1>6
    <2>1. CASE p \in DOMAIN str /\ str2[p] = str[p]
      BY <2>1
    <2>2. ASSUME NEW j \in 1 .. W, str2[p] = wr[j] PROVE \E h \in DOMAIN q : str2[p].m = q[h].m
      BY <1>8, <2>2
    <2> QED BY <1>9, <2>1, <2>2
  <1>12. ASSUME \A p \in DOMAIN str : str[p].to \in 1 .. MsgSize, NEW p \in DOMAIN str2
         PROVE  str2[p].to \in 1 .. MsgSize
    <2>1. CASE p \in DOMAIN str /\ str2[p] = str[p]
      BY <1>12, <2>1
    <2>2. ASSUME NEW j \in 1 .. W, str2[p] = wr[j] PROVE str2[p].to \in 1 .. MsgSize
      BY <1>8, <2>2
    <2>3. p \in 1 .. L + W
      BY <1>6
    <2> QED BY <1>9, <2>1, <2>2, <2>3
  <1> QED BY <1>10, <1>11, <1>12 DEF AddsOf

\* send_buffer writes n buffers and k units of the next one.
LEMMA FlowSome ==
    ASSUME Types, Types', IdInv, LockInv, CallInv, NEW s \in Slot, ListAt(s), Addressed(s), FlowAt(s),
           Grow, NEW e, NEW n, NEW k, WriteSome(e, n, k), s = e.s,
           NEW z, z = Written(WithDirect(sock[s]), n, k),
           sock'[s].id = sock[s].id,
           \/ sock'[s].type = "INVALID"
           \/ SameType(s) /\ Line(sock'[s]) = Line(z)
    PROVE  FlowAt(s)'
  <1>1. EventFrame(e) /\ torn' = torn /\ \A j \in Id : j # sock[e.s].id => wire'[j] = wire[j]
    BY WriteSomeSlot
  <1>2. /\ sock[e.s].id \in Id /\ HASH_ID(sock[e.s].id) = e.s /\ fc.at = "no"
        /\ UNCHANGED <<alloc_id, lock, call, pipe, sent, cmds, peers>>
    BY <1>1, EventFacts
  <1>3. /\ lock[e.s] = None
        /\ \/ (sock[e.s].dw \o sock[e.s].high) \o sock[e.s].low = << >>
           \/ sock[e.s].type \in Live \ {"HALFCLOSE_WRITE"} /\ net[sock[e.s].id] \notin {"rst", "hup", "none"}
    BY WriteSomeFacts
  <1>4. PICK i \in Id : i = sock[s].id
    BY <1>2
  <1>5. PICK q : q = Line(sock[s])
    OBVIOUS
  <1>6. PICK r : r = Line(z)
    OBVIOUS
  <1>7. TakesOff(s, q, r, n, k)
    BY <1>5, <1>6, WriteTakes
  <1>8. /\ q \in Seq(Node) /\ r \in Seq(Node) /\ n \in Nat /\ k \in 0 .. MsgSize - 1
        /\ RestOf(q, r, n, k) /\ CanWrite(q, n, k)
        /\ wire'[sock[s].id] = wire[sock[s].id] \o Writes(q, n, k)
    BY <1>7 DEF TakesOff
  <1>10. PICK str \in Seq(Write) : str = wire[i]
    BY DEF Types
  <1>11. PICK str2 \in Seq(Write) : str2 = wire'[i]
    BY DEF Types
  <1>12. str2 = str \o Writes(q, n, k)
    BY <1>4, <1>8, <1>10, <1>11
  <1>13. AddsOf(str, str2, q)
    BY <1>8, <1>12, WritesIn
  <1>14. HASH_ID(i) = s /\ \A j \in Id : j # i => wire'[j] = wire[j]
    BY <1>1, <1>2, <1>4
  <1>15. WireAt(s) /\ FlowWire(s) /\ FlowSock(s) /\ TakenAt(s)
    BY DEF FlowAt
  <1>16. call' = call /\ pipe' = pipe /\ sent' = sent
    BY <1>2
  <1>17. q # << >> => sock[s].type \in Live \ {"HALFCLOSE_WRITE"}
    BY <1>3, <1>5 DEF Line
  <1>18. TakenAt(s)'
    <2>1. \A p \in DOMAIN str : str[p].to \in 1 .. MsgSize
      BY <1>10, <1>14, <1>15 DEF TakenAt
    <2>2. \A p \in DOMAIN str2 : str2[p].to \in 1 .. MsgSize
      BY <1>13, <2>1 DEF AddsOf
    <2> QED BY <1>11, <1>14, <1>15, <2>2 DEF TakenAt
  <1>19. WireAt(s)'
    <2> SUFFICES ASSUME NEW j \in Id, s \notin torn', HASH_ID(j) = s, NEW p \in DOMAIN wire'[j],
                        NEW a, a = wire'[j][p].m
                 PROVE  a \in DOMAIN sent' /\ ~ Before(a)' /\ sent'[a].id = j
      BY WireIs
    <2>0. s \notin torn
      BY <1>1
    <2>1. CASE p \in DOMAIN wire[j] /\ wire'[j][p] = wire[j][p]
      <3>1. a \in DOMAIN sent /\ ~ Before(a) /\ sent[a].id = j
        BY <1>15, <2>0, <2>1, WireHas
      <3> QED BY <1>16, <3>1, BeforeSame
    <2>2. ASSUME NEW h \in DOMAIN q, a = q[h].m, j = i
          PROVE  a \in DOMAIN sent' /\ ~ Before(a)' /\ sent'[a].id = j
      <3>1. PICK x \in Sock : x = sock[s]
        BY SlotLine
      <3>2. q[h] \in Nodes(x)
        BY <1>5, <3>1, NodesOf DEF Line
      <3>3. a \in DOMAIN sent /\ ~ Before(a)
        BY <2>2, <3>1, <3>2 DEF ListAt
      <3>4. q # << >>
        BY <2>2
      <3>5. sent[a].id = i
        BY <1>4, <1>17, <2>0, <2>2, <3>1, <3>2, <3>4 DEF Addressed
      <3> QED BY <1>16, <2>2, <3>3, <3>5, BeforeSame
    <2>3. CASE j # i
      BY <1>14, <2>1, <2>3
    <2>4. CASE j = i
      <3>1. p \in DOMAIN str2
        BY <1>11, <2>4
      <3>2. (p \in DOMAIN str /\ str2[p] = str[p]) \/ \E h \in DOMAIN q : str2[p].m = q[h].m
        BY <1>13, <3>1 DEF AddsOf
      <3> QED BY <1>10, <1>11, <2>1, <2>2, <2>4, <3>2
    <2> QED BY <2>3, <2>4
  <1>20. ASSUME Running(s)
         PROVE  /\ Good(sent, Stream(str2, r)) /\ Keeps(Stream(str, q), Stream(str2, r))
                /\ Leads(str2, Stream(str2, r))
                /\ ~ sock[s].closing => AllOK(i, Stream(str, q))
    <2>1. FlowOK(s, i, str, q, sock[s].closing)
      BY <1>4, <1>5, <1>10, <1>15, <1>20 DEF FlowSock
    <2>2. Good(sent, Stream(str, q)) /\ (~ sock[s].closing => AllOK(i, Stream(str, q)))
      BY <2>1 DEF FlowOK
    <2>3. /\ Good(sent, Stream(str2, r)) /\ Keeps(Stream(str, q), Stream(str2, r))
          /\ Leads(str2, Stream(str2, r))
      BY <1>8, <1>12, <2>2, WriteGood
    <2> QED BY <2>2, <2>3
  <1>21. FlowWire(s)'
    <2>1. ASSUME s \notin torn', Clean(i)'
          PROVE  WholeMessages(wire'[i]) /\ Ordered(sent', wire'[i])
      <3>1. CASE q = << >>
        <4>1. wire'[i] = wire[i]
          BY <1>10, <1>11, <1>13, <3>1 DEF AddsOf
        <4> QED BY <1>14, <1>15, <2>1, <4>1, WireStays
      <3>2. CASE q # << >>
        <4>1. Clean(i)
          BY <2>1, CleanKeep
        <4>2. Running(s)
          BY <1>1, <1>2, <1>4, <1>17, <2>1, <3>2, <4>1 DEF Running
        <4>3. PICK v : v = Stream(str2, r)
          OBVIOUS
        <4>4. IsStream(v, str2, r)
          BY <1>8, <4>3, StreamIs
        <4>5. v \in Seq(Write)
          BY <4>4 DEF IsStream
        <4>6. Good(sent, v) /\ Leads(str2, v)
          BY <1>20, <4>2, <4>3
        <4>7. WholeMessages(str2) /\ Ordered(sent, str2)
          BY <4>5, <4>6, LeadsGood
        <4> QED BY <1>11, <1>16, <4>7
      <3> QED BY <3>1, <3>2
    <2>2. \A j \in Id : HASH_ID(j) = s /\ j # i => wire'[j] = wire[j]
      BY <1>14
    <2> QED BY <1>15, <2>1, <2>2, FlowWireOne
  <1>22. FlowSock(s)'
    <2> SUFFICES ASSUME Running(s)'
                 PROVE  \E j, st, l, closing :
                          /\ j = sock'[s].id /\ st = wire'[j] /\ l = Line(sock'[s])
                          /\ closing = sock'[s].closing /\ FlowOK(s, j, st, l, closing)'
      BY FlowSockIs
    <2>1. sock'[s].type \in Live /\ Clean(sock[s].id)' /\ s \notin torn' /\ sock'[s].type # "HALFCLOSE_WRITE"
      BY DEF Running
    <2>2. SameType(s) /\ Line(sock'[s]) = Line(z)
      <3>1. sock'[s].type # "INVALID"
        BY <2>1 DEF Live
      <3> QED BY <3>1
    <2>3. sock[s].type = sock'[s].type /\ sock'[s].closing = sock[s].closing
      BY <2>2 DEF SameType
    <2>4. Clean(i)
      <3>1. Clean(i)'
        BY <1>4, <2>1 DEF Clean
      <3> QED BY <3>1, CleanKeep
    <2>5. Running(s)
      BY <1>1, <1>2, <1>4, <2>1, <2>3, <2>4 DEF Running
    <2>6. PICK cl : cl = sock'[s].closing
      OBVIOUS
    <2>7. ASSUME NEW w \in Worker, call'[w].at = "write", HASH_ID(call'[w].id) = s PROVE FALSE
      <3>1. lock[s] = w
        BY <1>16, <2>7 DEF LockInv
      <3> QED BY <1>3, <3>1, Bounds
    <2>8. ASSUME ~ cl, NEW m \in DOMAIN sent', sent'[m].id = i, ~ sent'[m].low
          PROVE  InWire(Stream(str2, r), m) \/ Before(m)'
      <3>1. InWire(Stream(str, q), m) \/ Before(m)
        BY <1>16, <1>20, <2>3, <2>5, <2>6, <2>8 DEF AllOK
      <3> QED BY <1>16, <1>20, <2>5, <3>1, BeforeSame DEF Keeps
    <2>9. Good(sent', Stream(str2, r))
      BY <1>16, <1>20, <2>5
    <2>10. FlowOK(s, i, str2, r, cl)'
      BY <2>7, <2>8, <2>9, FlowOKIs
    <2>11. i = sock'[s].id /\ str2 = wire'[i] /\ r = Line(sock'[s]) /\ cl = sock'[s].closing
      BY <1>4, <1>6, <1>11, <2>2, <2>6
    <2> QED BY <2>10, <2>11
  <1> QED BY <1>18, <1>19, <1>21, <1>22 DEF FlowAt

\* An event of the batch.
LEMMA FlowEvent ==
    ASSUME Types, IdInv, LockInv, CallInv, NEW e \in batch, EventCase(e), NEW s \in Slot, s = e.s,
           Coherent(s), EventAt(s), ListAt(s), Addressed(s), FlowAt(s), Grow
    PROVE  FlowAt(s)'
  <1> DEFINE G == FlowAt(s)'
  <1>u. Types' /\ IdInv' /\ EventFrame(e)
    BY EventUp
  <1>f. /\ sock[s].id \in Id /\ HASH_ID(sock[s].id) = s /\ fc.at = "no"
        /\ call' = call /\ pipe' = pipe /\ sent' = sent
        /\ e.id # sock[s].id => sock[s].id \in stale'
    BY <1>u, EventFacts
  <1>o. OnlyLess
    BY <1>f, BeforeSame DEF OnlyLess
  <1> HIDE DEF G
  <1>q. ASSUME ~ Running(s)', wire' = wire PROVE G
    BY <1>u, <1>o, <1>q, FlowQuiet DEF G
  <1>i. ASSUME wire' = wire, sock'[s].id = sock[s].id, SameLists(s), sock[s].closing => sock'[s].closing,
               Running(s)' => sock[s].type \in Live \ {"HALFCLOSE_WRITE"}
        PROVE  G
    BY <1>u, <1>f, <1>i, FlowIdle DEF G
  <1>1. ASSUME NEW kind, EventTell(e, kind) \/ EventStop(e) PROVE G
    <2>1. sock' = sock /\ wire' = wire
      BY <1>1, EventIdleView
    <2>2. Running(s)' => sock[s].type \in Live \ {"HALFCLOSE_WRITE"}
      BY <2>1 DEF Running
    <2> QED BY <1>i, <2>1, <2>2 DEF SameLists
  <1>2. ASSUME NEW kind, EventForce(e, kind) PROVE G
    <2>1. /\ SameName(s) /\ SameType(s)
          /\ sock'[s].high = << >> /\ sock'[s].low = << >> /\ sock'[s].dw = sock[s].dw
          /\ fc' = [at |-> "lock", s |-> s, id |-> sock[s].id, say |-> kind, ctrl |-> FALSE]
          /\ net' = net /\ wire' = wire /\ torn' = torn
      BY <1>2, EventForceView
    <2>2. CASE ~ Running(s)'
      BY <1>q, <2>1, <2>2
    <2>3. CASE Running(s)'
      <3>1. /\ s \notin torn /\ sock[s].type \in Live \ {"HALFCLOSE_WRITE"} /\ sock[s].id \notin stale'
            /\ ~ (fc'.at = "lock" /\ fc'.s = s /\ net'[fc'.id] \in Gone)
        BY <2>1, <2>3 DEF Running, SameName, SameType, Clean
      <3>2. net[sock[s].id] \notin Gone
        BY <2>1, <3>1
      <3>3. e.id = sock[s].id
        BY <1>f, <3>1
      <3>4. sock[s].tcp
        BY <3>1 DEF Coherent
      <3>5. ~ e.eof
        BY <3>1, <3>2, <3>3 DEF EventAt
      <3>6. sock[s].closing /\ nomore_sending_data(sock[s])
        BY <1>2, <3>1, <3>2, <3>4, <3>5 DEF EventForce, Gone
      <3>7. sock[s].high = << >> /\ sock[s].low = << >>
        BY <3>1, <3>6 DEF nomore_sending_data, send_buffer_empty
      <3>8. SameLists(s) /\ sock'[s].id = sock[s].id /\ sock'[s].closing = sock[s].closing
        BY <2>1, <3>7 DEF SameLists, SameName, SameType
      <3> QED BY <1>i, <2>1, <3>1, <3>8
    <2> QED BY <2>2, <2>3
  <1>3. ASSUME Connected(e) PROVE G
    <2>1. /\ sock[s].type = "CONNECTING" /\ SameName(s) /\ SameLists(s)
          /\ sock'[s].closing = sock[s].closing /\ wire' = wire
      BY <1>3, ConnectedView
    <2>2. sock[s].type \in Live \ {"HALFCLOSE_WRITE"} /\ sock'[s].id = sock[s].id
      BY <2>1 DEF Live, SameName
    <2> QED BY <1>i, <2>1, <2>2
  <1>4. ASSUME EofRead(e) PROVE G
    <2>1. /\ sock[s].type \in {"CONNECTED", "PACCEPT", "RESERVE"} /\ SameName(s) /\ SameLists(s)
          /\ sock'[s].closing = sock[s].closing /\ wire' = wire
          /\ torn' = torn \cup (IF sock[s].type = "RESERVE" THEN {s} ELSE {})
      BY <1>4, EofReadView
    <2>2. Running(s)' => sock[s].type \in Live \ {"HALFCLOSE_WRITE"}
      BY <2>1 DEF Live, Running
    <2> QED BY <1>i, <2>1, <2>2 DEF SameName
  <1>5. ASSUME WriteClosed(e) PROVE G
    <2>1. sock'[s].type = "INVALID" /\ wire' = wire
      BY <1>5, WriteClosedView
    <2>2. ~ Running(s)'
      BY <2>1 DEF Running, Live
    <2> QED BY <1>q, <2>1, <2>2
  <1>6. ASSUME WriteStopped(e) \/ WriteError(e) PROVE G
    <2>1. sock'[s].type = "HALFCLOSE_WRITE" /\ wire' = wire
      BY <1>6, WriteFailView
    <2>2. ~ Running(s)'
      BY <2>1 DEF Running
    <2> QED BY <1>q, <2>1, <2>2
  <1>7. ASSUME NEW n, NEW k, WriteMore(e, n, k) PROVE G
    <2>0. PICK z : z = Written(WithDirect(sock[s]), n, k)
      OBVIOUS
    <2>1. WriteSome(e, n, k) /\ sock'[s] = z
      BY <1>7, <2>0, WriteMoreView
    <2>2. z.type = sock[s].type /\ z.id = sock[s].id /\ z.closing = sock[s].closing
      BY <2>0, <2>1, WriteSomeSlot
    <2>3. sock'[s].id = sock[s].id /\ SameType(s) /\ Line(sock'[s]) = Line(z)
      BY <2>1, <2>2 DEF SameType
    <2> QED BY <1>u, <2>0, <2>1, <2>3, FlowSome DEF G
  <1>8. ASSUME NEW n, NEW k, WriteFinish(e, n, k) PROVE G
    <2>0. PICK z : z = Written(WithDirect(sock[s]), n, k)
      OBVIOUS
    <2>1. WriteSome(e, n, k) /\ sock'[s].type = "INVALID" /\ SameName(s)
      BY <1>8, WriteFinishView
    <2>2. sock'[s].id = sock[s].id
      BY <2>1 DEF SameName
    <2> QED BY <1>u, <2>0, <2>1, <2>2, FlowSome DEF G
  <1>9. ASSUME NEW n, NEW k, WriteDone(e, n, k) PROVE G
    <2>0. PICK z : z = Written(WithDirect(sock[s]), n, k)
      OBVIOUS
    <2>1. /\ WriteSome(e, n, k) /\ SameName(s) /\ SameType(s) /\ send_buffer_empty(z)
          /\ sock'[s].high = << >> /\ sock'[s].low = << >> /\ sock'[s].dw = << >>
      BY <1>9, <2>0, WriteDoneView
    <2>2. z \in Sock /\ z.dw = << >>
      BY <2>0, <2>1, WriteSomeSlot
    <2>3. PICK y \in Sock : y = sock'[s]
      BY <1>u DEF Types
    <2>4. Line(z) = << >>
      BY <2>1, <2>2, LineEmpty DEF send_buffer_empty
    <2>5. Line(y) = << >>
      BY <2>1, <2>3, LineEmpty
    <2>6. sock'[s].id = sock[s].id /\ Line(sock'[s]) = Line(z)
      BY <2>1, <2>3, <2>4, <2>5 DEF SameName
    <2> QED BY <1>u, <2>0, <2>1, <2>6, FlowSome DEF G
  <1>10. G
    BY <1>1, <1>2, <1>3, <1>4, <1>5, <1>6, <1>7, <1>8, <1>9 DEF EventCase
  <1> QED BY <1>10 DEF G

\* force_close after the lock, an accepted connection, the network.
LEMMA FlowOther ==
    ASSUME Types, IdInv, LockInv, AskInv, CallInv, NEW s \in Slot, OtherAt(s), Coherent(s), ListAt(s),
           FlowAt(s), Grow
    PROVE  FlowAt(s)'
  <1> DEFINE G == FlowAt(s)'
  <1>u. Types' /\ IdInv' /\ call' = call /\ sent' = sent /\ pipe' = pipe /\ lock' = lock
    BY OtherUp
  <1>o. OnlyLess
    BY <1>u, BeforeSame DEF OnlyLess
  <1> HIDE DEF G
  <1>1. ASSUME CloseFd, s = fc.s PROVE G
    <2>1. sock'[s].type = "INVALID" /\ wire' = wire
      BY <1>1, CloseFdView
    <2>2. ~ Running(s)'
      BY <2>1 DEF Running, Live
    <2> QED BY <1>u, <1>o, <2>1, <2>2, FlowQuiet DEF G
  <1>2. ASSUME clear_closed_event PROVE G
    <2>1. fc.at = "clear" /\ sock' = sock /\ wire' = wire
      BY <1>2, ClearView
    <2>2. Running(s)' => sock[s].type \in Live \ {"HALFCLOSE_WRITE"}
      BY <2>1 DEF Running
    <2>3. fc.at # "lock" /\ SameLists(s)
      BY <2>1 DEF SameLists
    <2> QED BY <1>u, <2>1, <2>2, <2>3, FlowIdle DEF G
  <1>3. ASSUME AcceptNew, s = HASH_ID(NextId) PROVE G
    <2>1. /\ NextId \in Id /\ NextId > alloc_id
          /\ SlotTo(s) /\ sock[s].type = "INVALID" /\ sock'[s].id = NextId /\ ~ sock'[s].closing
          /\ sock'[s].high = << >> /\ sock'[s].low = << >> /\ sock'[s].dw = << >>
          /\ torn' = torn /\ wire' = wire
      BY <1>3, AcceptNewView
    <2>2. PICK i : i = NextId
      OBVIOUS
    <2>3. said[i] = {} /\ wire[i] = << >>
      BY <2>1, <2>2 DEF IdInv
    <2>4. ASSUME s \notin torn', NEW w \in Worker, call'[w].at = "write", HASH_ID(call'[w].id) = s
          PROVE  FALSE
      <3>1. lock[s] = w /\ lock[s] # None
        BY <1>u, <2>4, Bounds DEF LockInv
      <3>2. sock[s].type \in {"CONNECTED", "HALFCLOSE_READ"}
        BY <2>1, <2>4, <3>1 DEF LockInv
      <3> QED BY <2>1, <3>2
    <2>5. \A m \in DOMAIN sent' : sent'[m].id # i
      BY <1>u, <2>3 DEF AskInv, Open
    <2>6. sock'[s] \in Sock /\ sock'[s].id = i
      BY <2>1, <2>2 DEF SlotTo
    <2> QED BY <1>u, <1>o, <2>1, <2>3, <2>4, <2>5, <2>6, FlowNew DEF G
  <1>4. ASSUME NEW id \in Id, Network(id) PROVE G
    <2>1. /\ \A i \in Id : i # id => net'[i] = net[i]
          /\ net[id] \notin {"none", "rst", "hup"}
          /\ UNCHANGED <<alloc_id, sock, lock, call, pipe, said, sent, cmds, thread, wire>>
      BY <1>4, NetworkView
    <2>2. sock' = sock /\ wire' = wire /\ fc' = fc
      BY <2>1 DEF thread
    <2>3. Running(s)' => sock[s].type \in Live \ {"HALFCLOSE_WRITE"}
      BY <2>2 DEF Running
    <2>4. fc.at = "lock" => fc' = fc /\ (net[fc.id] \in Gone => net'[fc.id] \in Gone)
      BY <2>1, <2>2 DEF IdInv, Gone
    <2>5. SameLists(s)
      BY <2>2 DEF SameLists
    <2> QED BY <1>u, <2>2, <2>3, <2>4, <2>5, FlowIdle DEF G
  <1>5. G
    BY <1>1, <1>2, <1>3, <1>4 DEF OtherAt
  <1> QED BY <1>5 DEF G

FlowInv == \A s \in Slot : FlowAt(s)

LEMMA FlowStep == ASSUME Inv, TellInv, FlowInv, Next PROVE FlowInv'
  <1>0. /\ Types /\ IdInv /\ LockInv /\ AskInv /\ CallInv /\ PipeInv
        /\ \A s \in Slot : SlotInv(s)
    BY DEF Inv
  <1>1. Types' /\ IdInv'
    BY InvStep DEF Inv
  <1>2. ASSUME NEW s \in Slot
        PROVE  /\ Pending(s) /\ Coherent(s) /\ Covered(s) /\ ListAt(s) /\ Addressed(s)
               /\ EventAt(s) /\ FlowAt(s)
    BY <1>0 DEF SlotInv, TellInv, FlowInv
  <1>3. ASSUME NEW s \in Slot, Grow, OnlyLess, FlowAt(s)', \A t \in Slot : t # s => Apart(t)
        PROVE  FlowInv'
    <2>1. ASSUME NEW t \in Slot PROVE FlowAt(t)'
      <3>1. CASE t = s
        BY <1>3, <3>1
      <3>2. CASE t # s
        <4>1. Apart(t) /\ ListAt(t) /\ FlowAt(t)
          BY <1>2, <1>3, <3>2
        <4> QED BY <1>0, <1>1, <1>3, <4>1, FlowFrame
      <3> QED BY <3>1, <3>2
    <2> QED BY <2>1 DEF FlowInv
  <1>4. ASSUME NEW s \in Slot, NEW w \in Worker, WorkerAt(s, w) PROVE FlowInv'
    <2>1. Grow /\ \A t \in Slot : t # s => Apart(t)
      BY <1>0, <1>4, WorkerUp
    <2>2. AskedBy(w)
      BY <1>0, <1>4, WorkerAsks
    <2>3. OnlyLess
      BY <1>0, <2>2, OnlyLessWorker
    <2>4. FlowAt(s)'
      BY <1>0, <1>2, <1>4, <2>1, FlowWorker
    <2> QED BY <1>3, <2>1, <2>3, <2>4
  <1>5. ASSUME NEW c, CtrlCase(c) PROVE FlowInv'
    <2>0. PICK s : s = HASH_ID(c.id)
      OBVIOUS
    <2>1. s \in Slot /\ Grow /\ CtrlFrame(c) /\ \A t \in Slot : t # s => Apart(t)
      BY <1>0, <1>5, <2>0, CtrlUp
    <2>2. OnlyLess
      BY <1>0, <2>1, OnlyLessCtrl
    <2>3. FlowAt(s)'
      BY <1>0, <1>2, <1>5, <2>0, <2>1, FlowCtrl
    <2> QED BY <1>3, <2>1, <2>2, <2>3
  <1>6. ASSUME NEW e \in batch, EventCase(e) PROVE FlowInv'
    <2>0. PICK s : s = e.s
      OBVIOUS
    <2>1. s \in Slot /\ Grow /\ EventFrame(e) /\ \A t \in Slot : t # s => Apart(t)
      BY <1>0, <1>6, <2>0, EventUp
    <2>2. OnlyLess
      <3>1. Quiet
        BY <1>0, <2>1, QuietEvent
      <3> QED BY <3>1, OnlyLessQuiet
    <2>3. FlowAt(s)'
      BY <1>0, <1>2, <1>6, <2>0, <2>1, FlowEvent
    <2> QED BY <1>3, <2>1, <2>2, <2>3
  <1>7. ASSUME NEW s \in Slot, OtherAt(s) PROVE FlowInv'
    <2>1. /\ Grow /\ \A t \in Slot : t # s => Apart(t)
          /\ call' = call /\ sent' = sent /\ pipe' = pipe /\ lock' = lock
      BY <1>0, <1>7, OtherUp
    <2>2. OnlyLess
      BY <2>1, BeforeSame DEF OnlyLess
    <2>3. FlowAt(s)'
      BY <1>0, <1>2, <1>7, <2>1, FlowOther
    <2> QED BY <1>3, <2>1, <2>2, <2>3
  <1>8. ASSUME Grow, UNCHANGED <<sock, lock, call, pipe, said, sent, stale, torn, wire, net, fc>>
        PROVE  FlowInv'
    <2>1. ASSUME NEW s \in Slot PROVE FlowAt(s)'
      <3>1. Running(s)' => sock[s].type \in Live \ {"HALFCLOSE_WRITE"}
        BY <1>8 DEF Running
      <3>2. SameLists(s)
        BY <1>8 DEF SameLists
      <3> QED BY <1>0, <1>1, <1>2, <1>8, <3>1, <3>2, FlowIdle
    <2> QED BY <2>1 DEF FlowInv
  <1>9. ASSUME Still PROVE FlowInv'
    <2>1. Grow /\ UNCHANGED <<sock, lock, call, pipe, said, sent, stale, torn, wire, net, fc>>
      BY <1>0, <1>9, StillUp
    <2> QED BY <1>8, <2>1
  <1>10. ASSUME NEW D \in SUBSET Slot, Wait(D) PROVE FlowInv'
    <2>1. Grow /\ UNCHANGED <<sock, lock, call, pipe, said, sent, stale, torn, wire, net, fc>>
      BY <1>0, <1>10, WaitUp
    <2> QED BY <1>8, <2>1
  <1> QED BY <1>0, <1>4, <1>5, <1>6, <1>7, <1>9, <1>10, NextCases DEF At

LEMMA FlowStutter == ASSUME Inv, FlowInv, UNCHANGED vars PROVE FlowInv'
  <1>0. Types /\ IdInv /\ CallInv /\ \A s \in Slot : SlotInv(s)
    BY DEF Inv
  <1>1. UNCHANGED <<sock, lock, call, pipe, said, sent, stale, torn, wire, net, fc>>
    BY DEF vars, thread, outside
  <1>2. Types' /\ Grow
    <2>1. Types'
      BY <1>0 DEF Types, vars, thread, outside
    <2> QED BY <1>1, <2>1 DEF Grow
  <1>3. ASSUME NEW s \in Slot PROVE FlowAt(s)'
    <2>1. Running(s)' => sock[s].type \in Live \ {"HALFCLOSE_WRITE"}
      BY <1>1 DEF Running
    <2>2. SameLists(s) /\ ListAt(s) /\ FlowAt(s)
      BY <1>0, <1>1 DEF SameLists, SlotInv, FlowInv
    <2> QED BY <1>0, <1>1, <1>2, <2>1, <2>2, FlowIdle
  <1> QED BY <1>3 DEF FlowInv

LEMMA FlowInit == ASSUME Init PROVE FlowInv
  <1> SUFFICES ASSUME NEW s \in Slot PROVE FlowAt(s)
    BY DEF FlowInv
  <1>1. sock[s].type = "INVALID" /\ \A i \in Id : wire[i] = << >>
    BY DEF Init
  <1>2. ASSUME NEW i \in Id PROVE DOMAIN wire[i] = {}
    BY <1>1
  <1>3. WireAt(s) /\ TakenAt(s)
    BY <1>2 DEF WireAt, TakenAt
  <1>4. FlowWire(s)
    BY <1>2 DEF FlowWire, WholeMessages, Ordered
  <1>5. FlowSock(s)
    BY <1>1 DEF FlowSock, Running, Live
  <1> QED BY <1>3, <1>4, <1>5 DEF FlowAt

\* What was written and the buffers that wait make a stream of whole messages in
\* the order of the calls, in every state.
LEMMA Flowing == Spec => [](Inv /\ TellInv /\ FlowInv)
  <1>1. Inv /\ TellInv /\ FlowInv /\ [Next]_vars => FlowInv'
    BY FlowStep, FlowStutter
  <1>2. Init => FlowInv
    BY FlowInit
  <1> QED BY <1>1, <1>2, Telling, PTL DEF Spec

\* StreamOK: whatever mix of direct writes, queued writes and partial writes of
\* several threads, the peer of a socket receives whole messages meant for it,
\* those of a thread in the order of its calls and without gaps.
THEOREM StreamIntact == Spec => []StreamOK
  <1>1. Inv /\ FlowInv => StreamOK
    <2> SUFFICES ASSUME Inv, FlowInv, NEW id \in Sound
                 PROVE  /\ \A p \in DOMAIN wire[id] : sent[wire[id][p].m].id = id
                        /\ id \notin stale /\ "SHUTDOWN" \notin said[id] =>
                             WholeMessages(wire[id]) /\ InOrder(wire[id])
      BY DEF StreamOK
    <2>1. PICK s \in Slot : s = HASH_ID(id)
      BY IdType DEF Sound
    <2>2. id \in Id /\ s \notin torn /\ WireAt(s) /\ FlowWire(s)
      BY <2>1 DEF Sound, FlowInv, FlowAt
    <2>3. \A p \in DOMAIN wire[id] : sent[wire[id][p].m].id = id
      BY <2>1, <2>2 DEF WireAt
    <2>4. ASSUME id \notin stale, "SHUTDOWN" \notin said[id]
          PROVE  WholeMessages(wire[id]) /\ Ordered(sent, wire[id])
      BY <2>1, <2>2, <2>4 DEF FlowWire, Clean
    <2>5. Ordered(sent, wire[id]) => InOrder(wire[id])
      BY DEF Ordered, InOrder, Ahead, Precedes
    <2> QED BY <2>3, <2>4, <2>5
  <1> QED BY <1>1, Flowing, PTL
=============================================================================
