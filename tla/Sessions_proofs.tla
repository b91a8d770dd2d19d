---------------------------- MODULE Sessions_proofs ----------------------------
(***************************************************************************)
(* The tables of skynet.lua fit together in every service that is up:      *)
(* each suspended coroutine is in session_id_coroutine under one session,  *)
(* the queues of wakeups, errors and forks and the queue of a critical     *)
(* section hold only coroutines that wait for them, and an error leaves    *)
(* the callback only with a Nop in fork_queue that triggers what is left.  *)
(***************************************************************************)
EXTENDS Sessions, FiniteSetTheorems, WellFoundedInduction, TLAPS

Waits == {"sleep", "wait", "enter"}
Modes == {"idle", "run", "chain", "fork", "dead"}
Places == {"free", "start", "run", "call", "fork", "closed"} \cup Waits

\* The tables of a Lua state.
LuaType ==
    [session : Nat, id_co : [Session -> Co \cup {Nil, Break}],
     co_id : [Co -> Session \cup {Nil}], address : [Co -> Service \cup {None}],
     unresponse : SUBSET [to : Service, k : Session],
     sleep : [Co -> Session \cup {Nil}],
     wakeup : Seq(Co), error : Seq(Session), fork : Seq(Co \cup {Nop}),
     watching : [Session -> Service \cup {None}],
     at : [Co -> Places], run : Co \cup {Nil}, mode : Modes,
     current : Co \cup {Nil}, ref : Nat, threads : Seq(Co)]

\* A request or an answer with a session, an answer of the timer, or the
\* error that stands for every session of its source.
Messages ==
    [t : {"REQUEST", "RESPONSE", "ERROR"}, k : Session, from : Service]
      \cup [t : {"RESPONSE"}, k : Session, from : {None}]
      \cup [t : {"ERROR"}, k : {0}, from : Service]

Listed(q, c) == \E i \in DOMAIN q : q[i] = c

\* Nothing but a Nop is in a queue twice.
Once(q) == \A i, j \in DOMAIN q : q[i] = q[j] => i = j \/ q[i] = Nop

\* True of a service at any time of its life.
Shape(s, x) ==
    /\ x.session \in 1 .. MaxSession[s]
    /\ x.run # Nil <=> x.mode \in {"run", "dead"}
    /\ \A c \in Co : x.at[c] = "run" => c = x.run
    /\ \A c \in Co : x.co_id[c] # Nil => x.address[c] \in Service

\* session_id_coroutine leads from each open session to one suspended coroutine.
Parked(x) ==
    /\ \A k \in Session : x.id_co[k] \in Co => x.at[x.id_co[k]] \in {"start", "call"} \cup Waits
    /\ \A j, k \in Session : x.id_co[j] \in Co /\ x.id_co[j] = x.id_co[k] => j = k
    /\ \A k \in Session : x.id_co[k] \in Co => k <= x.session
    /\ \A c \in Co : x.sleep[c] # Nil => x.id_co[x.sleep[c]] = c
    /\ \A c \in Co : x.sleep[c] # Nil <=> x.at[c] \in Waits
    /\ \A k \in Session : x.watching[k] # None
                          => x.id_co[k] \in Co /\ x.at[x.id_co[k]] = "call"

\* Who is in the queues of errors, forks and wakeups.
Queues(x) ==
    /\ Once(x.error) /\ \A k \in Session : Listed(x.error, k) => x.watching[k] # None
    /\ Once(x.fork) /\ \A c \in Co : Listed(x.fork, c) => x.at[c] = "fork"
    /\ Once(x.wakeup)
    /\ \A c \in Co : Listed(x.wakeup, c) =>
         \/ x.at[c] \in {"sleep", "wait"}
         \/ x.at[c] = "enter" /\ x.current = c /\ x.ref = 0

\* The critical section has an owner, or one who is being woken, or nobody wants it.
Section(x) ==
    /\ x.current = Nil => x.ref = 0 /\ x.threads = << >>
    /\ x.current # Nil /\ x.ref = 0 => x.at[x.current] = "enter" /\ Listed(x.wakeup, x.current)
    /\ x.ref > 0 => x.at[x.current] \in {"run", "call", "sleep", "wait"}
    /\ Once(x.threads)
    /\ \A c \in Co : Listed(x.threads, c) => x.at[c] = "enter" /\ x.current # c
    /\ \A c \in Co : x.at[c] = "enter" => Listed(x.threads, c) \/ x.current = c

\* The callback ends with empty queues; while it goes over fork_queue,
\* wakeups and errors are left only if a Nop comes.
Flow(x) ==
    /\ x.mode # "dead" /\ (x.mode = "run" => x.at[x.run] = "run")
    /\ x.mode = "idle" => x.wakeup = << >> /\ x.error = << >> /\ x.fork = << >>
    /\ x.mode = "fork" => (x.wakeup = << >> /\ x.error = << >>) \/ Listed(x.fork, Nop)

\* The loops that are under way have something to do.
Busy(x) ==
    /\ x.mode = "fork" => x.fork # << >>
    /\ x.mode = "chain" => x.wakeup # << >> \/ x.error # << >>

Sound(x) == Parked(x) /\ Queues(x) /\ Section(x) /\ Flow(x)

SessionsInv ==
    /\ lua \in [Service -> LuaType]
    /\ mail \in [Service -> Seq(Messages)]
    /\ life \in [Service -> {"up", "exited", "freed"}]
    /\ timers \in [Service -> SUBSET Session]
    /\ \A s \in Service : Shape(s, lua[s]) /\ Busy(lua[s])
    /\ \A s \in Service : life[s] = "up" => Sound(lua[s])

-----------------------------------------------------------------------------
(* Constants, queues and records                                            *)

\* The constants, as the proofs use them.
LEMMA Constants ==
  /\ Co \subseteq Nat \ {0} /\ 1 \in Co /\ Session \subseteq Nat \ {0} /\ None \notin Service
  /\ \A s \in Service : MaxSession[s] \in Nat \ {0} /\ 1 .. MaxSession[s] \subseteq Session
<1>1. Co \subseteq Nat \ {0} /\ 1 \in Co
  <2>1. Cardinality(Co) \in Nat
    BY SessionsAssumption, FS_CardinalityType
  <2> DEFINE n == Cardinality(Co)
  <2>2. n \in Nat /\ Co = 1 .. n /\ Co # {}
    BY <2>1, SessionsAssumption
  <2> HIDE DEF n
  <2> QED
    BY <2>2
<1>2. ASSUME NEW s \in Service
      PROVE  MaxSession[s] \in Nat \ {0} /\ 1 .. MaxSession[s] \subseteq Session
  BY SessionsAssumption DEF Session
<1>3. Session \subseteq Nat \ {0}
  BY SessionsAssumption DEF Session
<1> QED
  BY <1>1, <1>2, <1>3, SessionsAssumption

\* What is in a queue after an element was added at its end.
LEMMA QAppend ==
  ASSUME NEW S, NEW q \in Seq(S), NEW c \in S
  PROVE  /\ Append(q, c) \in Seq(S)
         /\ \A d : Listed(Append(q, c), d) <=> Listed(q, d) \/ d = c
         /\ Once(q) /\ (~ Listed(q, c) \/ c = Nop) => Once(Append(q, c))
<1> DEFINE r == Append(q, c)
<1>1. /\ r \in Seq(S) /\ DOMAIN r = 1 .. Len(q) + 1 /\ DOMAIN q = 1 .. Len(q) /\ Len(q) \in Nat
      /\ r[Len(q) + 1] = c /\ \A i \in 1 .. Len(q) : r[i] = q[i]
  OBVIOUS
<1> HIDE DEF r
<1>2. \A d : Listed(r, d) <=> Listed(q, d) \/ d = c
  BY <1>1 DEF Listed
<1>3. Once(q) /\ (~ Listed(q, c) \/ c = Nop) => Once(r)
  BY <1>1 DEF Listed, Once
<1> QED
  BY <1>1, <1>2, <1>3 DEF r

\* What is left after the first element was taken.
LEMMA QTail ==
  ASSUME NEW S, NEW q \in Seq(S), q # << >>
  PROVE  /\ Head(q) \in S /\ Tail(q) \in Seq(S) /\ Listed(q, Head(q))
         /\ \A d : Listed(Tail(q), d) => Listed(q, d)
         /\ \A d : Listed(q, d) /\ d # Head(q) => Listed(Tail(q), d)
         /\ Once(q) => Once(Tail(q)) /\ (Head(q) # Nop => ~ Listed(Tail(q), Head(q)))
<1> DEFINE r == Tail(q)
<1>1. /\ r \in Seq(S) /\ DOMAIN r = 1 .. Len(q) - 1 /\ DOMAIN q = 1 .. Len(q)
      /\ Len(q) \in Nat \ {0} /\ Head(q) = q[1] /\ q[1] \in S
      /\ \A i \in 1 .. Len(q) - 1 : r[i] = q[i + 1]
  <2>1. Len(q) \in Nat \ {0} /\ DOMAIN q = 1 .. Len(q) /\ Head(q) = q[1] /\ q[1] \in S
    OBVIOUS
  <2>2. r \in Seq(S) /\ Len(r) = Len(q) - 1
    OBVIOUS
  <2>3. DOMAIN r = 1 .. Len(q) - 1
    BY <2>2
  <2>4. \A i \in 1 .. Len(q) - 1 : r[i] = q[i + 1]
    OBVIOUS
  <2> QED
    BY <2>1, <2>2, <2>3, <2>4
<1> HIDE DEF r
<1>2. Listed(q, Head(q))
  BY <1>1 DEF Listed
<1>3. \A d : Listed(r, d) => Listed(q, d)
  BY <1>1 DEF Listed
<1>4. ASSUME NEW d, Listed(q, d), d # Head(q)
      PROVE  Listed(r, d)
  <2>1. PICK i \in 1 .. Len(q) : q[i] = d /\ i # 1
    BY <1>1, <1>4 DEF Listed
  <2>2. i - 1 \in 1 .. Len(q) - 1 /\ r[i - 1] = d
    BY <1>1, <2>1
  <2> QED
    BY <1>1, <2>2 DEF Listed
<1>5. ASSUME Once(q) PROVE Once(r)
  <2>1. \A i \in 1 .. Len(q) - 1 : i + 1 \in 1 .. Len(q) /\ r[i] = q[i + 1]
    BY <1>1
  <2>2. ASSUME NEW i \in 1 .. Len(q) - 1, NEW j \in 1 .. Len(q) - 1, r[i] = r[j], r[i] # Nop
        PROVE  i = j
    <3>1. i + 1 = j + 1
      BY <1>1, <1>5, <2>1, <2>2 DEF Once
    <3> QED
      BY <3>1, <1>1
  <2> QED
    BY <1>1, <2>2 DEF Once
<1>6. ASSUME Once(q), Head(q) # Nop, Listed(r, Head(q)) PROVE FALSE
  <2>1. PICK i \in 1 .. Len(q) - 1 : q[i + 1] = q[1]
    BY <1>1, <1>6 DEF Listed
  <2>2. i + 1 \in 1 .. Len(q) /\ 1 \in 1 .. Len(q) /\ i + 1 # 1
    BY <1>1
  <2> QED
    BY <1>1, <1>6, <2>1, <2>2 DEF Once
<1> QED
  BY <1>1, <1>2, <1>3, <1>4, <1>5, <1>6 DEF r

\* The empty queue.
LEMMA QEmpty == Once(<< >>) /\ \A d : ~ Listed(<< >>, d)
  BY DEF Once, Listed

\* The fields of a Lua state.
LEMMA Fields ==
  ASSUME NEW x \in LuaType
  PROVE  /\ x.session \in Nat /\ x.id_co \in [Session -> Co \cup {Nil, Break}]
         /\ x.co_id \in [Co -> Session \cup {Nil}] /\ x.address \in [Co -> Service \cup {None}]
         /\ x.unresponse \in SUBSET [to : Service, k : Session]
         /\ x.sleep \in [Co -> Session \cup {Nil}]
         /\ x.wakeup \in Seq(Co) /\ x.error \in Seq(Session) /\ x.fork \in Seq(Co \cup {Nop})
         /\ x.watching \in [Session -> Service \cup {None}]
         /\ x.at \in [Co -> Places] /\ x.run \in Co \cup {Nil} /\ x.mode \in Modes
         /\ x.current \in Co \cup {Nil} /\ x.ref \in Nat /\ x.threads \in Seq(Co)
  BY DEF LuaType

\* Soundness does not depend on the requests a service has to answer.
LEMMA SoundSame ==
  ASSUME NEW x \in LuaType, NEW y \in LuaType, Sound(x),
         y.session >= x.session, y.id_co = x.id_co, y.sleep = x.sleep, y.wakeup = x.wakeup,
         y.error = x.error, y.fork = x.fork, y.watching = x.watching, y.at = x.at,
         y.run = x.run, y.mode = x.mode, y.current = x.current, y.ref = x.ref,
         y.threads = x.threads
  PROVE  Sound(y)
<1>1. Parked(y)
  <2>1. x.session \in Nat /\ y.session \in Nat /\ Session \subseteq Nat
    BY Fields, Constants
  <2> QED
    BY <2>1 DEF Sound, Parked
<1>2. Queues(y) /\ Section(y) /\ Flow(y)
  BY DEF Sound, Queues, Section, Flow
<1> QED
  BY <1>1, <1>2 DEF Sound

\* Settle only ends a loop that has nothing left to do.
LEMMA Settled ==
  ASSUME NEW s \in Service, NEW x \in LuaType, Shape(s, x)
  PROVE  /\ Settle(x) \in LuaType /\ Shape(s, Settle(x)) /\ Busy(Settle(x))
         /\ Sound(x) => Sound(Settle(x))
<1>1. ASSUME NEW z \in LuaType, Shape(s, z), NEW m \in {"fork", "idle"},
             z.mode \in {"chain", "fork"},
             m = "fork" => z.wakeup = << >> /\ z.error = << >>,
             m = "idle" => z.fork = << >> /\ z.mode = "fork"
      PROVE  /\ [z EXCEPT !.mode = m] \in LuaType /\ Shape(s, [z EXCEPT !.mode = m])
             /\ Sound(z) => Sound([z EXCEPT !.mode = m])
  <2> DEFINE y == [z EXCEPT !.mode = m]
  <2>1. /\ y \in LuaType /\ y.mode = m /\ y.session = z.session /\ y.id_co = z.id_co
        /\ y.sleep = z.sleep /\ y.wakeup = z.wakeup /\ y.error = z.error /\ y.fork = z.fork
        /\ y.watching = z.watching /\ y.at = z.at /\ y.run = z.run /\ y.current = z.current
        /\ y.ref = z.ref /\ y.threads = z.threads /\ y.co_id = z.co_id
        /\ y.address = z.address
    BY DEF LuaType, Modes
  <2> HIDE DEF y
  <2>2. Shape(s, y)
    BY <1>1, <2>1 DEF Shape
  <2>3. ASSUME Sound(z) PROVE Flow(y)
    BY <1>1, <2>1, <2>3, QEmpty DEF Sound, Flow
  <2>4. ASSUME Sound(z) PROVE Parked(y) /\ Queues(y) /\ Section(y)
    BY <2>1, <2>4 DEF Sound, Parked, Queues, Section
  <2> QED
    BY <2>1, <2>2, <2>3, <2>4 DEF Sound, y
<1> DEFINE y == IF x.mode = "chain" /\ x.wakeup = << >> /\ x.error = << >>
                THEN [x EXCEPT !.mode = "fork"] ELSE x
<1>2. y \in LuaType /\ Shape(s, y) /\ (Sound(x) => Sound(y))
  BY <1>1
<1>3. Settle(x) = IF y.mode = "fork" /\ y.fork = << >> THEN [y EXCEPT !.mode = "idle"] ELSE y
  BY DEF Settle
<1>4. y.mode = "chain" => y.wakeup # << >> \/ y.error # << >>
  BY DEF LuaType
<1>5. ASSUME y.mode = "fork", y.fork = << >>
      PROVE  [y EXCEPT !.mode = "idle"].mode = "idle"
  BY <1>2 DEF LuaType
<1> HIDE DEF y
<1>6. Busy(Settle(x))
  BY <1>3, <1>4, <1>5 DEF Busy
<1> QED
  BY <1>1, <1>2, <1>3, <1>6

\* A step of s that makes its Lua state y, before the callback settles.
LEMMA BecomeStep ==
  ASSUME SessionsInv, NEW s \in Service, NEW y \in LuaType, Shape(s, y), Become(s, y),
         mail' \in [Service -> Seq(Messages)], timers' \in [Service -> SUBSET Session],
         life' \in [Service -> {"up", "exited", "freed"}],
         \A u \in Service : u # s => life'[u] = life[u],
         life'[s] = "up" => Sound(y)
  PROVE  SessionsInv'
<1>1. /\ Settle(y) \in LuaType /\ Shape(s, Settle(y)) /\ Busy(Settle(y))
      /\ (Sound(y) => Sound(Settle(y)))
  BY Settled
<1>2. lua' = [lua EXCEPT ![s] = Settle(y)] /\ lua \in [Service -> LuaType]
  BY DEF Become, SessionsInv
<1>3. /\ lua' \in [Service -> LuaType] /\ lua'[s] = Settle(y)
      /\ \A u \in Service : u # s => lua'[u] = lua[u]
  BY <1>1, <1>2
<1>4. \A u \in Service : Shape(u, lua[u]) /\ Busy(lua[u]) /\ (life[u] = "up" => Sound(lua[u]))
  BY DEF SessionsInv
<1>5. \A u \in Service : Shape(u, lua'[u]) /\ Busy(lua'[u]) /\ (life'[u] = "up" => Sound(lua'[u]))
  BY <1>1, <1>3, <1>4
<1> QED
  BY <1>3, <1>5 DEF SessionsInv

-----------------------------------------------------------------------------
(* What the steps of a coroutine do to a sound Lua state                    *)

\* The running coroutine watches some service in session k.
Watches(x, k) == {[x.watching EXCEPT ![k] = d] : d \in Service}

\* The running coroutine waits in the new session k.
LEMMA ParkSound ==
  ASSUME NEW x \in LuaType, NEW y \in LuaType, Sound(x), x.mode = "run", x.run \in Co,
         NEW k \in Session, k = x.session + 1,
         NEW place \in {"call"} \cup Waits,
         y.session = k, y.id_co = [x.id_co EXCEPT ![k] = x.run],
         y.at = [x.at EXCEPT ![x.run] = place], y.run = Nil, y.mode = "chain",
         y.wakeup = x.wakeup, y.error = x.error, y.fork = x.fork,
         y.current = x.current, y.ref = x.ref,
         place = "call" => y.sleep = x.sleep /\ y.watching \in Watches(x, k),
         place # "call" => y.sleep = [x.sleep EXCEPT ![x.run] = k] /\ y.watching = x.watching,
         place # "enter" => y.threads = x.threads,
         place = "enter" => /\ y.threads = Append(x.threads, x.run)
                            /\ x.current # Nil /\ x.current # x.run
  PROVE  Sound(y)
<1> DEFINE c == x.run
<1>0. PICK d : place = "call" => d \in Service /\ y.watching = [x.watching EXCEPT ![k] = d]
  BY DEF Watches
<1>1. /\ x.at[c] = "run" /\ x.sleep[c] = Nil /\ \A j \in Session : x.id_co[j] # c
      /\ ~ Listed(x.wakeup, c) /\ ~ Listed(x.fork, c) /\ ~ Listed(x.threads, c)
      /\ x.id_co[k] \notin Co /\ x.watching[k] = None /\ ~ Listed(x.error, k)
      /\ x.current = c => x.ref > 0
  <2>1. x.at[c] = "run" /\ Parked(x) /\ Queues(x) /\ Section(x)
    BY DEF Sound, Flow
  <2>2. x.ref \in Nat /\ x.session \in Nat
    BY Fields
  <2>3. x.sleep[c] = Nil /\ \A j \in Session : x.id_co[j] # c
    BY <2>1 DEF Parked, Waits
  <2>4. x.id_co[k] \notin Co
    BY <2>1, <2>2 DEF Parked
  <2>5. x.watching[k] = None
    BY <2>1, <2>4 DEF Parked
  <2>6. ~ Listed(x.wakeup, c) /\ ~ Listed(x.fork, c) /\ ~ Listed(x.error, k)
    BY <2>1, <2>5 DEF Queues
  <2>7. ~ Listed(x.threads, c)
    BY <2>1 DEF Section
  <2>8. x.current = c => x.ref > 0
    BY <2>1, <2>2, Constants DEF Section, Nil
  <2> QED
    BY <2>1, <2>3, <2>4, <2>5, <2>6, <2>7, <2>8
<1>2. /\ \A j \in Session : y.id_co[j] = IF j = k THEN c ELSE x.id_co[j]
      /\ \A b \in Co : y.at[b] = IF b = c THEN place ELSE x.at[b]
      /\ \A b \in Co : y.sleep[b] = IF b = c /\ place # "call" THEN k ELSE x.sleep[b]
      /\ \A j \in Session : y.watching[j] = IF j = k /\ place = "call" THEN d ELSE x.watching[j]
  BY <1>0, Fields
<1>3. Parked(y)
  <2>1. Parked(x) /\ x.session \in Nat /\ Session \subseteq Nat \ {0} /\ None \notin Service
    BY Constants, Fields DEF Sound
  <2>2. \A j \in Session : y.id_co[j] \in Co => y.at[y.id_co[j]] \in {"start", "call"} \cup Waits
    BY <1>1, <1>2, <2>1 DEF Parked
  <2>3. \A i, j \in Session : y.id_co[i] \in Co /\ y.id_co[i] = y.id_co[j] => i = j
    BY <1>1, <1>2, <2>1 DEF Parked
  <2>4. \A j \in Session : y.id_co[j] \in Co => j <= y.session
    BY <1>1, <1>2, <2>1 DEF Parked
  <2>5. ASSUME NEW b \in Co, y.sleep[b] # Nil PROVE y.id_co[y.sleep[b]] = b
    <3>1. x.sleep[b] \in Session \cup {Nil}
      BY Fields
    <3> QED
      BY <1>1, <1>2, <2>1, <2>5, <3>1 DEF Parked
  <2>6. \A b \in Co : y.sleep[b] # Nil <=> y.at[b] \in Waits
    BY <1>1, <1>2, <2>1 DEF Parked, Waits, Nil
  <2>7. \A j \in Session : y.watching[j] # None => y.id_co[j] \in Co /\ y.at[y.id_co[j]] = "call"
    BY <1>0, <1>1, <1>2, <2>1 DEF Parked
  <2> QED
    BY <2>2, <2>3, <2>4, <2>5, <2>6, <2>7 DEF Parked
<1>4. Queues(y)
  <2>1. Queues(x) /\ None \notin Service
    BY Constants DEF Sound
  <2> QED
    BY <1>0, <1>1, <1>2, <2>1 DEF Queues
<1>5. Section(y)
  <2>1. Section(x) /\ x.ref \in Nat /\ x.current \in Co \cup {Nil} /\ x.threads \in Seq(Co)
    BY Fields DEF Sound
  <2>2. /\ Append(x.threads, c) \in Seq(Co)
        /\ \A b : Listed(Append(x.threads, c), b) <=> Listed(x.threads, b) \/ b = c
        /\ Once(x.threads) => Once(Append(x.threads, c))
    BY <1>1, <2>1, QAppend
  <2>3. x.current = Nil => x.ref = 0 /\ y.threads = << >>
    BY <2>1 DEF Section
  <2>4. /\ x.current # Nil /\ x.ref = 0 => y.at[x.current] = "enter" /\ Listed(x.wakeup, x.current)
        /\ x.ref > 0 => y.at[x.current] \in {"run", "call", "sleep", "wait"}
    BY <1>1, <1>2, <2>1 DEF Section, Waits
  <2>5. /\ Once(y.threads)
        /\ \A b \in Co : Listed(y.threads, b) => y.at[b] = "enter" /\ x.current # b
        /\ \A b \in Co : y.at[b] = "enter" => Listed(y.threads, b) \/ x.current = b
    <3>1. CASE place = "enter"
      <4>1. y.threads = Append(x.threads, c) /\ x.current # c
        BY <3>1
      <4>2. Once(y.threads) /\ \A b : Listed(y.threads, b) <=> Listed(x.threads, b) \/ b = c
        BY <2>1, <2>2, <4>1 DEF Section
      <4> HIDE DEF c
      <4> QED
        BY <3>1, <1>1, <1>2, <2>1, <4>1, <4>2 DEF Section
    <3>2. CASE place # "enter"
      BY <3>2, <1>1, <1>2, <2>1 DEF Section
    <3> QED
      BY <3>1, <3>2
  <2> QED
    BY <2>3, <2>4, <2>5 DEF Section
<1>6. Flow(y)
  BY DEF Flow
<1> QED
  BY <1>3, <1>4, <1>5, <1>6 DEF Sound

\* y is x with coroutine c, which waited in session k, resumed.
Resumes(x, y, c, k) ==
    /\ x.mode # "run" /\ x.id_co[k] = c /\ y.session = x.session
    /\ \E v \in {Nil, Break} : y.id_co = [x.id_co EXCEPT ![k] = v]
    /\ y.at = [x.at EXCEPT ![c] = "run"] /\ y.run = c /\ y.mode = "run"
    /\ Once(y.wakeup) /\ \A b : Listed(y.wakeup, b) <=> Listed(x.wakeup, b) /\ b # c
    /\ Once(y.error) /\ \A j : Listed(y.error, j) => Listed(x.error, j) /\ j # k
    /\ y.fork = x.fork /\ y.threads = x.threads
    /\ x.at[c] \in Waits => y.sleep = [x.sleep EXCEPT ![c] = Nil]
    /\ x.at[c] \notin Waits => y.sleep = x.sleep
    /\ x.at[c] = "call" => y.watching = [x.watching EXCEPT ![k] = None]
    /\ x.at[c] # "call" => y.watching = x.watching
    /\ x.at[c] = "enter" => x.current = c /\ x.ref = 0 /\ y.current = c /\ y.ref = 1
    /\ x.at[c] # "enter" => y.current = x.current /\ y.ref = x.ref

\* The coroutine c that waits in session k goes on.
LEMMA ResumeSound ==
  ASSUME NEW x \in LuaType, NEW y \in LuaType, Sound(x),
         NEW c \in Co, NEW k \in Session, Resumes(x, y, c, k)
  PROVE  Sound(y)
<1> SUFFICES ASSUME NEW v \in {Nil, Break}, x.mode # "run", x.id_co[k] = c,
         y.session = x.session, y.id_co = [x.id_co EXCEPT ![k] = v],
         y.at = [x.at EXCEPT ![c] = "run"], y.run = c, y.mode = "run",
         \A b : Listed(y.wakeup, b) <=> Listed(x.wakeup, b) /\ b # c, Once(y.wakeup),
         \A j : Listed(y.error, j) => Listed(x.error, j) /\ j # k, Once(y.error),
         y.fork = x.fork, y.threads = x.threads,
         y.sleep = IF x.at[c] \in Waits THEN [x.sleep EXCEPT ![c] = Nil] ELSE x.sleep,
         y.watching = IF x.at[c] = "call" THEN [x.watching EXCEPT ![k] = None] ELSE x.watching,
         IF x.at[c] = "enter" THEN x.current = c /\ x.ref = 0 /\ y.current = c /\ y.ref = 1
         ELSE y.current = x.current /\ y.ref = x.ref
             PROVE  Sound(y)
  BY DEF Resumes
<1>1. /\ x.at[c] \in {"start", "call"} \cup Waits
      /\ \A j \in Session : x.id_co[j] = c => j = k
      /\ ~ Listed(x.fork, c) /\ c # Nil /\ c # Break /\ v \notin Co
      /\ \A j \in Session : j # k => x.id_co[j] # c
  BY Constants DEF Sound, Parked, Queues, Waits, Nil, Break
<1>2. /\ \A j \in Session : y.id_co[j] = IF j = k THEN v ELSE x.id_co[j]
      /\ \A b \in Co : y.at[b] = IF b = c THEN "run" ELSE x.at[b]
      /\ \A b \in Co : y.sleep[b] = IF b = c /\ x.at[c] \in Waits THEN Nil ELSE x.sleep[b]
      /\ \A j \in Session : y.watching[j] =
           IF j = k /\ x.at[c] = "call" THEN None ELSE x.watching[j]
  BY Fields
<1>3. Parked(y)
  <2>1. Parked(x) /\ x.session \in Nat /\ Session \subseteq Nat \ {0}
    BY Constants, Fields DEF Sound
  <2>2. \A j \in Session : y.id_co[j] \in Co => y.at[y.id_co[j]] \in {"start", "call"} \cup Waits
    BY <1>1, <1>2, <2>1 DEF Parked
  <2>3. \A i, j \in Session : y.id_co[i] \in Co /\ y.id_co[i] = y.id_co[j] => i = j
    BY <1>1, <1>2, <2>1 DEF Parked
  <2>4. \A j \in Session : y.id_co[j] \in Co => j <= y.session
    BY <1>1, <1>2, <2>1 DEF Parked
  <2>5. ASSUME NEW b \in Co, y.sleep[b] # Nil PROVE y.id_co[y.sleep[b]] = b
    <3>1. x.sleep[b] \in Session \cup {Nil}
      BY Fields
    <3>2. b # c
      BY <1>2, <2>1, <2>5 DEF Parked
    <3>3. y.sleep[b] = x.sleep[b] /\ x.sleep[b] \in Session /\ x.id_co[x.sleep[b]] = b
      BY <1>2, <2>1, <2>5, <3>1, <3>2 DEF Parked
    <3> QED
      BY <1>2, <3>2, <3>3
  <2>6. \A b \in Co : y.sleep[b] # Nil <=> y.at[b] \in Waits
    BY <1>1, <1>2, <2>1 DEF Parked, Waits, Nil
  <2>7. \A j \in Session : y.watching[j] # None => y.id_co[j] \in Co /\ y.at[y.id_co[j]] = "call"
    BY <1>1, <1>2, <2>1 DEF Parked
  <2> QED
    BY <2>2, <2>3, <2>4, <2>5, <2>6, <2>7 DEF Parked
<1>4. Queues(y)
  <2>1. Queues(x)
    BY DEF Sound
  <2>2. \A j \in Session : Listed(y.error, j) => y.watching[j] # None
    BY <1>2, <2>1 DEF Queues
  <2>3. \A b \in Co : Listed(y.fork, b) => y.at[b] = "fork"
    BY <1>1, <1>2, <2>1 DEF Queues
  <2>4. ASSUME NEW b \in Co, Listed(y.wakeup, b)
        PROVE  \/ y.at[b] \in {"sleep", "wait"}
               \/ y.at[b] = "enter" /\ y.current = b /\ y.ref = 0
    BY <1>1, <1>2, <2>1, <2>4 DEF Queues
  <2> QED
    BY <2>1, <2>2, <2>3, <2>4 DEF Queues
<1>5. Section(y)
  <2>1. Section(x) /\ x.ref \in Nat /\ x.current \in Co \cup {Nil} /\ x.threads \in Seq(Co)
    BY Fields DEF Sound
  <2>2. CASE x.at[c] = "enter"
    BY <1>1, <1>2, <2>1, <2>2 DEF Section
  <2>3. CASE x.at[c] # "enter"
    <3>1. x.current # Nil /\ x.ref = 0 => y.at[x.current] = "enter" /\ Listed(y.wakeup, x.current)
      BY <1>2, <2>1, <2>3 DEF Section
    <3>2. x.ref > 0 => y.at[x.current] \in {"run", "call", "sleep", "wait"}
      BY <1>2, <2>1, <2>3 DEF Section
    <3> QED
      BY <1>1, <1>2, <2>1, <2>3, <3>1, <3>2 DEF Section
  <2> QED
    BY <2>2, <2>3
<1>6. Flow(y)
  BY <1>2 DEF Flow
<1> QED
  BY <1>3, <1>4, <1>5, <1>6 DEF Sound

\* A coroutine that is free or in fork_queue begins.
LEMMA BeginSound ==
  ASSUME NEW x \in LuaType, NEW y \in LuaType, Sound(x), x.mode # "run",
         NEW c \in Co, x.at[c] \in {"free", "fork"},
         y.session = x.session, y.id_co = x.id_co, y.sleep = x.sleep, y.watching = x.watching,
         y.at = [x.at EXCEPT ![c] = "run"], y.run = c, y.mode = "run",
         y.wakeup = x.wakeup, y.error = x.error, y.threads = x.threads,
         y.current = x.current, y.ref = x.ref,
         \A b \in Co : Listed(y.fork, b) => Listed(x.fork, b) /\ b # c, Once(y.fork)
  PROVE  Sound(y)
<1>1. \A b \in Co : y.at[b] = IF b = c THEN "run" ELSE x.at[b]
  BY Fields
<1>2. Parked(y)
  <2>1. Parked(x)
    BY DEF Sound
  <2>2. \A j \in Session : x.id_co[j] # c
    BY <2>1 DEF Parked, Waits
  <2>3. \A b \in Co : y.sleep[b] # Nil <=> y.at[b] \in Waits
    BY <1>1, <2>1 DEF Parked, Waits
  <2> QED
    BY <1>1, <2>1, <2>2, <2>3 DEF Parked
<1>3. Queues(y)
  BY <1>1 DEF Sound, Queues
<1>4. Section(y)
  <2>1. Section(x) /\ x.ref \in Nat /\ x.current \in Co \cup {Nil}
    BY Fields DEF Sound
  <2>2. x.ref > 0 => x.current # Nil
    BY <2>1 DEF Section
  <2> QED
    BY <1>1, <2>1, <2>2 DEF Section
<1>5. Flow(y)
  BY <1>1 DEF Flow
<1> QED
  BY <1>2, <1>3, <1>4, <1>5 DEF Sound

\* The running coroutine, which is not in the critical section, ends.
LEMMA EndSound ==
  ASSUME NEW x \in LuaType, NEW y \in LuaType, Sound(x), x.mode = "run", x.run \in Co,
         ~ Inside(x), y.session = x.session, y.id_co = x.id_co, y.sleep = x.sleep,
         y.watching = x.watching,
         y.at = [x.at EXCEPT ![x.run] = "free"], y.run = Nil,
         y.wakeup = x.wakeup, y.error = x.error, y.threads = x.threads,
         y.current = x.current, y.ref = x.ref,
         \/ y.mode = "chain" /\ y.fork = x.fork
         \/ y.mode = "fork" /\ y.fork = Append(x.fork, Nop)
  PROVE  Sound(y)
<1> DEFINE c == x.run
<1>1. \A b \in Co : y.at[b] = IF b = c THEN "free" ELSE x.at[b]
  BY Fields
<1>2. x.at[c] = "run" /\ c # Nil
  BY Constants DEF Sound, Flow, Nil
<1>3. Parked(y)
  <2>1. Parked(x)
    BY DEF Sound
  <2>2. \A j \in Session : x.id_co[j] # c
    BY <1>2, <2>1 DEF Parked, Waits
  <2>3. \A b \in Co : y.sleep[b] # Nil <=> y.at[b] \in Waits
    BY <1>1, <1>2, <2>1 DEF Parked, Waits
  <2> QED
    BY <1>1, <2>1, <2>2, <2>3 DEF Parked
<1>4. /\ Once(y.fork) /\ \A b \in Co : Listed(y.fork, b) => Listed(x.fork, b)
      /\ y.mode = "fork" => Listed(y.fork, Nop)
  <2>1. x.fork \in Seq(Co \cup {Nop}) /\ Once(x.fork) /\ Nop \notin Co
    BY Fields, Constants DEF Sound, Queues, Nop
  <2>2. /\ \A d : Listed(Append(x.fork, Nop), d) <=> Listed(x.fork, d) \/ d = Nop
        /\ Once(x.fork) /\ (~ Listed(x.fork, Nop) \/ Nop = Nop) => Once(Append(x.fork, Nop))
    BY <2>1, QAppend
  <2> QED
    BY <2>1, <2>2
<1>5. Queues(y)
  BY <1>1, <1>2, <1>4 DEF Sound, Queues
<1>6. Section(y)
  <2>1. Section(x) /\ x.ref \in Nat /\ x.current \in Co \cup {Nil}
    BY Fields DEF Sound
  <2>2. x.ref > 0 => x.current # Nil
    BY <2>1 DEF Section
  <2>3. x.current # c
    BY <1>2, <2>1 DEF Section, Inside
  <2> QED
    BY <1>1, <1>2, <2>1, <2>2, <2>3 DEF Section
<1>7. Flow(y)
  BY <1>4 DEF Flow
<1> QED
  BY <1>3, <1>5, <1>6, <1>7 DEF Sound

-----------------------------------------------------------------------------
(* The calls of the running coroutine                                       *)

\* The Lua state of s.
LEMMA Here ==
  ASSUME SessionsInv, NEW s \in Service
  PROVE  /\ lua[s] \in LuaType /\ Shape(s, lua[s]) /\ Busy(lua[s])
         /\ life[s] = "up" => Sound(lua[s])
  BY DEF SessionsInv

\* The running coroutine.
LEMMA RunningCo ==
  ASSUME NEW s \in Service, NEW x \in LuaType, Shape(s, x), x.mode \in {"run", "dead"}
  PROVE  x.run \in Co /\ x.run # Nil
  BY Fields DEF Shape

\* c.send of typed messages.
LEMMA Delivered ==
  ASSUME SessionsInv, NEW out \in [Service -> Seq(Messages)], Deliver(out)
  PROVE  mail' \in [Service -> Seq(Messages)]
  BY DEF SessionsInv, Deliver

\* One message.
LEMMA Sent ==
  ASSUME SessionsInv, NEW d \in Service, NEW m \in Messages, Deliver(To(d, m))
  PROVE  mail' \in [Service -> Seq(Messages)]
<1>1. To(d, m) \in [Service -> Seq(Messages)]
  BY DEF To
<1> QED
  BY <1>1, Delivered

\* A step that changes the Lua state only.
LEMMA LocalStep ==
  ASSUME SessionsInv, NEW s \in Service, NEW y \in LuaType, Shape(s, y), Become(s, y),
         UNCHANGED life, mail' \in [Service -> Seq(Messages)],
         timers' \in [Service -> SUBSET Session],
         Sound(lua[s]) => Sound(y)
  PROVE  SessionsInv'
<1>1. /\ life' \in [Service -> {"up", "exited", "freed"}]
      /\ \A u \in Service : u # s => life'[u] = life[u]
      /\ life'[s] = "up" => Sound(y)
  BY Here DEF SessionsInv
<1> QED
  BY <1>1, BecomeStep

LEMMA CallStep ==
  ASSUME SessionsInv, NEW s \in Service, NEW d \in Service, NEW name \in BOOLEAN,
         Call(s, d, name)
  PROVE  SessionsInv'
<1> DEFINE x == lua[s]
           k == x.session + 1
<1>1. x \in LuaType /\ Shape(s, x) /\ x.mode = "run" /\ x.run \in Co /\ x.run # Nil
  BY Here, RunningCo DEF Call, Calls, Running
<1>2. k \in 1 .. MaxSession[s] /\ k \in Session /\ k >= x.session /\ k \in Nat
      /\ k = x.session + 1
  BY <1>1, Constants DEF Call, Shape
<1>3. UNCHANGED <<life, timers>> /\ timers \in [Service -> SUBSET Session]
      /\ mail \in [Service -> Seq(Messages)]
  BY DEF Call, SessionsInv
<1>4. CASE life[d] = "up"
  <2> DEFINE y == [Yield(x, "call") EXCEPT !.session = k, !.id_co[k] = x.run, !.watching[k] = d]
  <2>0. Become(s, y) /\ Deliver(To(d, Message("REQUEST", k, s)))
    BY <1>4 DEF Call
  <2> HIDE DEF x, k
  <2>1. /\ y \in LuaType /\ y.session = k /\ y.id_co = [x.id_co EXCEPT ![k] = x.run]
        /\ y.at = [x.at EXCEPT ![x.run] = "call"] /\ y.run = Nil /\ y.mode = "chain"
        /\ y.wakeup = x.wakeup /\ y.error = x.error /\ y.fork = x.fork
        /\ y.current = x.current /\ y.ref = x.ref /\ y.sleep = x.sleep
        /\ y.watching = [x.watching EXCEPT ![k] = d] /\ y.threads = x.threads
        /\ y.co_id = x.co_id /\ y.address = x.address
    BY <1>1, <1>2 DEF LuaType, Yield, Places, Modes
  <2> HIDE DEF y
  <2>3. Shape(s, y)
    BY <1>1, <1>2, <2>1, Fields DEF Shape
  <2>4. Sound(x) => Sound(y)
    <3>1. "call" \in {"call"} \cup Waits /\ "call" # "enter" /\ y.watching \in Watches(x, k)
      BY <2>1 DEF Watches
    <3> QED
      BY <1>1, <1>2, <2>1, <3>1, ParkSound, Zenon
  <2>5. mail' \in [Service -> Seq(Messages)]
    BY <1>2, <2>0, Sent DEF Messages, Message
  <2> QED
    BY <1>3, <2>0, <2>1, <2>3, <2>4, <2>5, LocalStep DEF x
<1>5. CASE life[d] # "up"
  <2> DEFINE y == [x EXCEPT !.session = k]
  <2>0. Become(s, y) /\ UNCHANGED mail
    BY <1>5 DEF Call
  <2> HIDE DEF x, k
  <2>1. /\ y \in LuaType /\ y.session = k /\ y.id_co = x.id_co /\ y.sleep = x.sleep
        /\ y.wakeup = x.wakeup /\ y.error = x.error /\ y.fork = x.fork
        /\ y.watching = x.watching /\ y.at = x.at /\ y.run = x.run /\ y.mode = x.mode
        /\ y.current = x.current /\ y.ref = x.ref /\ y.threads = x.threads
        /\ y.co_id = x.co_id /\ y.address = x.address
    BY <1>1, <1>2 DEF LuaType
  <2> HIDE DEF y
  <2>3. Shape(s, y)
    BY <1>1, <1>2, <2>1 DEF Shape
  <2>4. Sound(x) => Sound(y)
    BY <1>1, <1>2, <2>1, SoundSame
  <2> QED
    BY <1>3, <2>0, <2>1, <2>3, <2>4, LocalStep DEF x
<1> QED
  BY <1>4, <1>5

\* A coroutine yields.
LEMMA YieldIs ==
  ASSUME NEW x \in LuaType, x.run \in Co, NEW place \in Places
  PROVE  LET w == Yield(x, place)
         IN  /\ w \in LuaType /\ w.session = x.session /\ w.id_co = x.id_co
             /\ w.at = [x.at EXCEPT ![x.run] = place] /\ w.run = Nil /\ w.mode = "chain"
             /\ w.wakeup = x.wakeup /\ w.error = x.error /\ w.fork = x.fork
             /\ w.current = x.current /\ w.ref = x.ref /\ w.sleep = x.sleep
             /\ w.watching = x.watching /\ w.threads = x.threads
             /\ w.co_id = x.co_id /\ w.address = x.address
             /\ w.unresponse = x.unresponse
  BY DEF LuaType, Yield, Modes

\* suspend_sleep.
LEMMA SuspendedIs ==
  ASSUME NEW s \in Service, NEW x \in LuaType, Shape(s, x), x.mode = "run",
         x.session < MaxSession[s], NEW place \in Waits
  PROVE  LET k == x.session + 1
             y == Suspended(x, place)
         IN  /\ k \in 1 .. MaxSession[s] /\ k \in Session
             /\ y \in LuaType /\ y.session = k /\ y.id_co = [x.id_co EXCEPT ![k] = x.run]
             /\ y.at = [x.at EXCEPT ![x.run] = place] /\ y.run = Nil /\ y.mode = "chain"
             /\ y.wakeup = x.wakeup /\ y.error = x.error /\ y.fork = x.fork
             /\ y.current = x.current /\ y.ref = x.ref
             /\ y.sleep = [x.sleep EXCEPT ![x.run] = k]
             /\ y.watching = x.watching /\ y.threads = x.threads
             /\ y.co_id = x.co_id /\ y.address = x.address
             /\ y.unresponse = x.unresponse
<1>1. x.session + 1 \in 1 .. MaxSession[s] /\ x.session + 1 \in Session
      /\ x.session + 1 \in Nat
  BY Constants DEF Shape
<1>2. x.run \in Co
  BY RunningCo
<1> DEFINE k == x.session + 1
           w == Yield(x, place)
<1>3. /\ w \in LuaType /\ w.session = x.session /\ w.id_co = x.id_co
      /\ w.at = [x.at EXCEPT ![x.run] = place] /\ w.run = Nil /\ w.mode = "chain"
      /\ w.wakeup = x.wakeup /\ w.error = x.error /\ w.fork = x.fork
      /\ w.current = x.current /\ w.ref = x.ref /\ w.sleep = x.sleep
      /\ w.watching = x.watching /\ w.threads = x.threads
      /\ w.co_id = x.co_id /\ w.address = x.address
      /\ w.unresponse = x.unresponse
  BY <1>2, YieldIs DEF Waits, Places
<1>4. Suspended(x, place) = [w EXCEPT !.session = @ + 1, !.id_co[k] = x.run, !.sleep[x.run] = k]
  BY DEF Suspended
<1>5. k \in 1 .. MaxSession[s] /\ k \in Session /\ k \in Nat /\ w.session + 1 = k
  BY <1>1, <1>3
<1> HIDE DEF k, w
<1> DEFINE y == [w EXCEPT !.session = @ + 1, !.id_co[k] = x.run, !.sleep[x.run] = k]
<1>6. /\ y \in LuaType /\ y.session = k /\ y.id_co = [w.id_co EXCEPT ![k] = x.run]
      /\ y.at = w.at /\ y.run = w.run /\ y.mode = w.mode
      /\ y.wakeup = w.wakeup /\ y.error = w.error /\ y.fork = w.fork
      /\ y.current = w.current /\ y.ref = w.ref
      /\ y.sleep = [w.sleep EXCEPT ![x.run] = k]
      /\ y.watching = w.watching /\ y.threads = w.threads
      /\ y.co_id = w.co_id /\ y.address = w.address
      /\ y.unresponse = w.unresponse
  BY <1>2, <1>3, <1>5 DEF LuaType
<1> HIDE DEF y
<1>7. Suspended(x, place) = y
  BY <1>4 DEF y
<1> QED
  BY <1>3, <1>5, <1>6, <1>7 DEF k

LEMMA SleepStep ==
  ASSUME SessionsInv, NEW s \in Service, Sleep(s) \/ Wait(s)
  PROVE  SessionsInv'
<1> DEFINE x == lua[s]
<1>1. x \in LuaType /\ Shape(s, x) /\ x.mode = "run" /\ x.run \in Co /\ x.run # Nil
      /\ x.session < MaxSession[s]
  BY Here, RunningCo DEF Sleep, Wait, Calls, Running
<1>2. x.session + 1 \in Session
  BY <1>1, Constants DEF Shape
<1>3. PICK place \in {"sleep", "wait"} : Become(s, Suspended(x, place))
  BY DEF Sleep, Wait
<1>4. /\ UNCHANGED <<life, mail>> /\ mail' \in [Service -> Seq(Messages)]
      /\ timers' \in [Service -> SUBSET Session]
  BY <1>2 DEF Sleep, Wait, SessionsInv
<1> DEFINE y == Suspended(x, place)
           k == x.session + 1
<1> HIDE DEF x
<1>5. /\ k \in 1 .. MaxSession[s] /\ k \in Session /\ k = x.session + 1
      /\ y \in LuaType /\ y.session = k /\ y.id_co = [x.id_co EXCEPT ![k] = x.run]
      /\ y.at = [x.at EXCEPT ![x.run] = place] /\ y.run = Nil /\ y.mode = "chain"
      /\ y.wakeup = x.wakeup /\ y.error = x.error /\ y.fork = x.fork
      /\ y.current = x.current /\ y.ref = x.ref
      /\ y.sleep = [x.sleep EXCEPT ![x.run] = k]
      /\ y.watching = x.watching /\ y.threads = x.threads
      /\ y.co_id = x.co_id /\ y.address = x.address
  <2>1. place \in Waits
    BY DEF Waits
  <2> QED
    BY <1>1, <2>1, SuspendedIs
<1> HIDE DEF y, k
<1>6. Shape(s, y)
  BY <1>1, <1>5, Fields DEF Shape
<1>7. Sound(x) => Sound(y)
  <2>1. place \in {"call"} \cup Waits /\ place # "call" /\ place # "enter"
    BY DEF Waits
  <2> QED
    BY <1>1, <1>5, <2>1, ParkSound, Zenon
<1> QED
  BY <1>3, <1>4, <1>5, <1>6, <1>7, LocalStep DEF x, y

\* The call of a critical section.
LEMMA EnterStep ==
  ASSUME SessionsInv, NEW s \in Service, Enter(s)
  PROVE  SessionsInv'
<1> DEFINE x == lua[s]
<1>1. x \in LuaType /\ Shape(s, x) /\ x.mode = "run" /\ x.run \in Co /\ x.run # Nil
  BY Here, RunningCo DEF Enter, Calls, Running
<1>2. /\ UNCHANGED <<life, mail, timers>> /\ mail' \in [Service -> Seq(Messages)]
      /\ timers' \in [Service -> SUBSET Session]
  BY DEF Enter, SessionsInv
<1>3. CASE x.current \in {Nil, x.run}
  <2> DEFINE y == [x EXCEPT !.current = x.run, !.ref = @ + 1]
  <2>1. Become(s, y)
    BY <1>3 DEF Enter
  <2> HIDE DEF x
  <2>2. /\ y \in LuaType /\ y.session = x.session /\ y.id_co = x.id_co /\ y.sleep = x.sleep
        /\ y.wakeup = x.wakeup /\ y.error = x.error /\ y.fork = x.fork
        /\ y.watching = x.watching /\ y.at = x.at /\ y.run = x.run /\ y.mode = x.mode
        /\ y.current = x.run /\ y.ref = x.ref + 1 /\ y.threads = x.threads
        /\ y.co_id = x.co_id /\ y.address = x.address
    <3>1. x.ref + 1 \in Nat
      BY <1>1, Fields
    <3> QED
      BY <1>1, <3>1 DEF LuaType
  <2> HIDE DEF y
  <2>3. Shape(s, y)
    BY <1>1, <2>2 DEF Shape
  <2>4. ASSUME Sound(x) PROVE Sound(y)
    <3>1. x.at[x.run] = "run" /\ x.ref \in Nat /\ x.threads \in Seq(Co)
      BY <1>1, <2>4, Fields DEF Sound, Flow
    <3>2. Parked(y) /\ Flow(y)
      BY <2>2, <2>4 DEF Sound, Parked, Flow
    <3>3. \A c \in Co : Listed(x.wakeup, c) => x.at[c] \in {"sleep", "wait"}
      BY <1>1, <1>3, <2>4, <3>1, Constants DEF Sound, Queues, Section, Nil
    <3>4. Queues(y)
      BY <2>2, <2>4, <3>3 DEF Sound, Queues
    <3>5. Section(y)
      <4>1. Section(x)
        BY <2>4 DEF Sound
      <4>2. \A c \in Co : ~ (x.current = c /\ x.current = Nil)
        BY Constants DEF Nil
      <4>3. /\ Once(x.threads)
            /\ \A c \in Co : Listed(x.threads, c) => x.at[c] = "enter" /\ x.run # c
            /\ \A c \in Co : x.at[c] = "enter" => Listed(x.threads, c) \/ x.run = c
        BY <1>3, <3>1, <4>1, <4>2 DEF Section
      <4> QED
        BY <1>1, <2>2, <3>1, <4>3 DEF Section
    <3> QED
      BY <3>2, <3>4, <3>5 DEF Sound
  <2> QED
    BY <1>2, <2>1, <2>2, <2>3, <2>4, LocalStep DEF x
<1>4. CASE x.current \notin {Nil, x.run}
  <2> DEFINE z == Suspended(x, "enter")
             y == [z EXCEPT !.threads = Append(@, x.run)]
  <2>1. Become(s, y) /\ x.session < MaxSession[s]
    BY <1>4 DEF Enter
  <2> HIDE DEF x
  <2> DEFINE k == x.session + 1
  <2>2. /\ k \in 1 .. MaxSession[s] /\ k \in Session /\ k = x.session + 1
        /\ z \in LuaType /\ z.session = k /\ z.id_co = [x.id_co EXCEPT ![k] = x.run]
        /\ z.at = [x.at EXCEPT ![x.run] = "enter"] /\ z.run = Nil /\ z.mode = "chain"
        /\ z.wakeup = x.wakeup /\ z.error = x.error /\ z.fork = x.fork
        /\ z.current = x.current /\ z.ref = x.ref
        /\ z.sleep = [x.sleep EXCEPT ![x.run] = k]
        /\ z.watching = x.watching /\ z.threads = x.threads
        /\ z.co_id = x.co_id /\ z.address = x.address
    BY <1>1, <2>1, SuspendedIs DEF Waits
  <2> HIDE DEF z, k
  <2>3. Append(x.threads, x.run) \in Seq(Co)
    BY <1>1, Fields
  <2>4. /\ y \in LuaType /\ y.session = z.session /\ y.id_co = z.id_co /\ y.sleep = z.sleep
        /\ y.wakeup = z.wakeup /\ y.error = z.error /\ y.fork = z.fork
        /\ y.watching = z.watching /\ y.at = z.at /\ y.run = z.run /\ y.mode = z.mode
        /\ y.current = z.current /\ y.ref = z.ref /\ y.threads = Append(x.threads, x.run)
        /\ y.co_id = z.co_id /\ y.address = z.address
    BY <2>2, <2>3 DEF LuaType
  <2> HIDE DEF y
  <2>5. Shape(s, y)
    BY <1>1, <2>2, <2>4, Fields DEF Shape
  <2>6. Sound(x) => Sound(y)
    <3>1. "enter" \in {"call"} \cup Waits /\ x.current # Nil /\ x.current # x.run
      BY <1>4 DEF Waits
    <3>2. /\ y.session = k /\ y.id_co = [x.id_co EXCEPT ![k] = x.run]
          /\ y.at = [x.at EXCEPT ![x.run] = "enter"] /\ y.run = Nil /\ y.mode = "chain"
          /\ y.wakeup = x.wakeup /\ y.error = x.error /\ y.fork = x.fork
          /\ y.current = x.current /\ y.ref = x.ref
          /\ y.sleep = [x.sleep EXCEPT ![x.run] = k] /\ y.watching = x.watching
      BY <2>2, <2>4
    <3> QED
      BY <1>1, <2>2, <2>4, <3>1, <3>2, ParkSound, Zenon
  <2> QED
    BY <1>2, <2>1, <2>4, <2>5, <2>6, LocalStep DEF x
<1> QED
  BY <1>3, <1>4

\* co_create finds a coroutine that is not in use.
LEMMA NewCoIn ==
  ASSUME NEW x \in LuaType, Free(x) # {}
  PROVE  NewCo(x) \in Co /\ x.at[NewCo(x)] = "free"
<1> DEFINE S == Free(x)
<1>1. S \subseteq Nat /\ S # {} /\ \A c \in S : c \in Co /\ x.at[c] = "free"
  BY Constants DEF Free
<1> HIDE DEF S
<1>2. PICK c \in S : \A d \in S : ~ (<<d, c>> \in OpToRel(<, Nat))
  BY <1>1, NatLessThanWellFounded, WFMin
<1>3. \A d \in S : c <= d
  <2> TAKE d \in S
  <2>1. c \in Nat /\ d \in Nat
    BY <1>1
  <2>2. ~ (d < c)
    BY <1>2, <2>1 DEF OpToRel
  <2> QED
    BY <2>1, <2>2
<1>4. NewCo(x) \in S
  BY <1>3 DEF NewCo, S
<1> QED
  BY <1>1, <1>4

LEMMA WakeupStep ==
  ASSUME SessionsInv, NEW s \in Service, NEW c \in Co, Wakeup(s, c)
  PROVE  SessionsInv'
<1> DEFINE x == lua[s]
           y == [x EXCEPT !.wakeup = Append(@, c)]
<1>1. x \in LuaType /\ Shape(s, x) /\ x.at[c] \in {"sleep", "wait"} /\ ~ Listed(x.wakeup, c)
  BY Here DEF Wakeup, Listed
<1>2. /\ UNCHANGED <<life, mail, timers>> /\ mail' \in [Service -> Seq(Messages)]
      /\ timers' \in [Service -> SUBSET Session]
  BY DEF Wakeup, SessionsInv
<1>3. Become(s, x) \/ Become(s, y)
  BY DEF Wakeup, Woken
<1> HIDE DEF x
<1>4. x.wakeup \in Seq(Co)
  BY <1>1, Fields
<1>5. /\ Append(x.wakeup, c) \in Seq(Co)
      /\ \A b : Listed(Append(x.wakeup, c), b) <=> Listed(x.wakeup, b) \/ b = c
      /\ Once(x.wakeup) => Once(Append(x.wakeup, c))
  BY <1>1, <1>4, QAppend
<1>6. /\ y \in LuaType /\ y.session = x.session /\ y.id_co = x.id_co /\ y.sleep = x.sleep
      /\ y.wakeup = Append(x.wakeup, c) /\ y.error = x.error /\ y.fork = x.fork
      /\ y.watching = x.watching /\ y.at = x.at /\ y.run = x.run /\ y.mode = x.mode
      /\ y.current = x.current /\ y.ref = x.ref /\ y.threads = x.threads
      /\ y.co_id = x.co_id /\ y.address = x.address
  BY <1>1, <1>5 DEF LuaType
<1> HIDE DEF y
<1>7. Shape(s, y)
  BY <1>1, <1>6 DEF Shape
<1>8. ASSUME Sound(x), x.mode = "run" PROVE Sound(y)
  <2>1. Parked(y) /\ Flow(y)
    BY <1>6, <1>8 DEF Sound, Parked, Flow
  <2>2. Queues(y)
    BY <1>1, <1>5, <1>6, <1>8 DEF Sound, Queues
  <2>3. Section(y)
    BY <1>5, <1>6, <1>8 DEF Sound, Section
  <2> QED
    BY <2>1, <2>2, <2>3 DEF Sound
<1>9. x.mode = "run"
  BY DEF Wakeup, Calls, Running, x
<1> QED
  BY <1>1, <1>2, <1>3, <1>6, <1>7, <1>8, <1>9, LocalStep DEF x

LEMMA ForkStep ==
  ASSUME SessionsInv, NEW s \in Service, Fork(s)
  PROVE  SessionsInv'
<1> DEFINE x == lua[s]
           c == NewCo(x)
           y == [x EXCEPT !.fork = Append(@, c), !.at[c] = "fork"]
<1>1. x \in LuaType /\ Shape(s, x) /\ x.mode = "run" /\ c \in Co /\ x.at[c] = "free"
  BY Here, NewCoIn DEF Fork, Calls, Running
<1>2. /\ UNCHANGED <<life, mail, timers>> /\ mail' \in [Service -> Seq(Messages)]
      /\ timers' \in [Service -> SUBSET Session]
  BY DEF Fork, SessionsInv
<1>3. Become(s, y)
  BY DEF Fork
<1> HIDE DEF x, c
<1>4. x.fork \in Seq(Co \cup {Nop}) /\ c \in Co \cup {Nop} /\ x.run \in Co \cup {Nil}
  BY <1>1, Fields
<1>5. /\ Append(x.fork, c) \in Seq(Co \cup {Nop})
      /\ \A b : Listed(Append(x.fork, c), b) <=> Listed(x.fork, b) \/ b = c
      /\ Once(x.fork) /\ (~ Listed(x.fork, c) \/ c = Nop) => Once(Append(x.fork, c))
  BY <1>4, QAppend
<1>6. /\ y \in LuaType /\ y.session = x.session /\ y.id_co = x.id_co /\ y.sleep = x.sleep
      /\ y.fork = Append(x.fork, c) /\ y.error = x.error /\ y.wakeup = x.wakeup
      /\ y.watching = x.watching /\ y.at = [x.at EXCEPT ![c] = "fork"]
      /\ y.run = x.run /\ y.mode = x.mode
      /\ y.current = x.current /\ y.ref = x.ref /\ y.threads = x.threads
      /\ y.co_id = x.co_id /\ y.address = x.address
  BY <1>1, <1>5 DEF LuaType, Places
<1> HIDE DEF y
<1>7. \A b \in Co : y.at[b] = IF b = c THEN "fork" ELSE x.at[b]
  BY <1>1, <1>6, Fields
<1>8. Shape(s, y)
  BY <1>1, <1>6, <1>7 DEF Shape
<1>9. ASSUME Sound(x) PROVE Sound(y)
  <2>1. Parked(y)
    <3>1. Parked(x)
      BY <1>9 DEF Sound
    <3>2. \A j \in Session : x.id_co[j] # c
      BY <1>1, <3>1 DEF Parked, Waits
    <3>3. \A b \in Co : y.sleep[b] # Nil <=> y.at[b] \in Waits
      BY <1>1, <1>6, <1>7, <3>1 DEF Parked, Waits
    <3> QED
      BY <1>6, <1>7, <3>1, <3>2, <3>3 DEF Parked
  <2>2. Queues(y)
    <3>1. Queues(x)
      BY <1>9 DEF Sound
    <3>2. ~ Listed(x.fork, c)
      BY <1>1, <3>1 DEF Queues
    <3> QED
      BY <1>1, <1>5, <1>6, <1>7, <3>1, <3>2 DEF Queues
  <2>3. Section(y)
    <3>1. Section(x) /\ x.ref \in Nat /\ x.current \in Co \cup {Nil}
      BY <1>1, <1>9, Fields DEF Sound
    <3>2. x.current # Nil => x.current # c
      BY <1>1, <3>1 DEF Section
    <3>3. x.ref > 0 => x.current # Nil
      BY <3>1 DEF Section
    <3> QED
      BY <1>1, <1>6, <1>7, <3>1, <3>2, <3>3 DEF Section
  <2>4. Flow(y)
    <3>1. Flow(x) /\ x.run # c
      BY <1>1, <1>9 DEF Sound, Flow
    <3> QED
      BY <1>1, <1>4, <1>6, <1>7, <3>1, RunningCo DEF Flow
  <2> QED
    BY <2>1, <2>2, <2>3, <2>4 DEF Sound
<1> QED
  BY <1>2, <1>3, <1>6, <1>8, <1>9, LocalStep DEF x

\* A Lua state that differs in the requests to answer only.
LEMMA OwedStep ==
  ASSUME SessionsInv, NEW s \in Service, NEW y \in LuaType, Become(s, y),
         UNCHANGED <<life, timers>>, mail' \in [Service -> Seq(Messages)],
         y.session = lua[s].session, y.id_co = lua[s].id_co, y.sleep = lua[s].sleep,
         y.wakeup = lua[s].wakeup, y.error = lua[s].error, y.fork = lua[s].fork,
         y.watching = lua[s].watching, y.at = lua[s].at, y.run = lua[s].run,
         y.mode = lua[s].mode, y.current = lua[s].current, y.ref = lua[s].ref,
         y.threads = lua[s].threads, y.address = lua[s].address,
         \A c \in Co : y.co_id[c] # Nil => y.co_id[c] = lua[s].co_id[c]
  PROVE  SessionsInv'
<1> DEFINE x == lua[s]
<1>1. x \in LuaType /\ Shape(s, x) /\ x.session \in Nat
  BY Here, Fields
<1>2. timers' \in [Service -> SUBSET Session]
  BY DEF SessionsInv
<1>3. Shape(s, y)
  BY <1>1 DEF Shape
<1>4. Sound(x) => Sound(y)
  BY <1>1, SoundSame
<1> QED
  BY <1>2, <1>3, <1>4, LocalStep

LEMMA RetStep ==
  ASSUME SessionsInv, NEW s \in Service, Ret(s) \/ Response(s)
  PROVE  SessionsInv'
<1> DEFINE x == lua[s]
           c == x.run
           r == [to |-> x.address[c], k |-> x.co_id[c]]
           y == [x EXCEPT !.co_id[c] = Nil]
           z == [y EXCEPT !.unresponse = @ \cup {r}]
<1>1. x \in LuaType /\ Shape(s, x) /\ c \in Co /\ x.co_id[c] # Nil
  BY Here, RunningCo DEF Ret, Response, Calls, Running
<1>2. x.address[c] \in Service /\ x.co_id[c] \in Session
  BY <1>1, Fields DEF Shape
<1>3. \/ Become(s, y) /\ Answer(s, x.address[c], x.co_id[c], "RESPONSE")
      \/ Become(s, z) /\ UNCHANGED mail
  BY DEF Ret, Response, Answered
<1>4. UNCHANGED <<life, timers>> /\ mail \in [Service -> Seq(Messages)]
  BY DEF Ret, Response, SessionsInv
<1>5. Answer(s, x.address[c], x.co_id[c], "RESPONSE") => mail' \in [Service -> Seq(Messages)]
  BY <1>2, Sent DEF Answer, Message, Messages
<1>6. r \in [to : Service, k : Session]
  BY <1>2
<1> HIDE DEF x, c, r
<1>7. /\ y \in LuaType /\ y.session = x.session /\ y.id_co = x.id_co /\ y.sleep = x.sleep
      /\ y.wakeup = x.wakeup /\ y.error = x.error /\ y.fork = x.fork
      /\ y.watching = x.watching /\ y.at = x.at /\ y.run = x.run /\ y.mode = x.mode
      /\ y.current = x.current /\ y.ref = x.ref /\ y.threads = x.threads
      /\ y.address = x.address
      /\ \A b \in Co : y.co_id[b] # Nil => y.co_id[b] = x.co_id[b]
  BY <1>1 DEF LuaType
<1> HIDE DEF y
<1>8. /\ z \in LuaType /\ z.session = y.session /\ z.id_co = y.id_co /\ z.sleep = y.sleep
      /\ z.wakeup = y.wakeup /\ z.error = y.error /\ z.fork = y.fork
      /\ z.watching = y.watching /\ z.at = y.at /\ z.run = y.run /\ z.mode = y.mode
      /\ z.current = y.current /\ z.ref = y.ref /\ z.threads = y.threads
      /\ z.address = y.address /\ z.co_id = y.co_id
  <2>1. y.unresponse \cup {r} \in SUBSET [to : Service, k : Session]
    BY <1>6, <1>7, Fields
  <2> QED
    BY <1>7, <2>1 DEF LuaType
<1> HIDE DEF z
<1>9. CASE Become(s, y) /\ Answer(s, x.address[c], x.co_id[c], "RESPONSE")
  BY <1>4, <1>5, <1>7, <1>9, OwedStep DEF x
<1>10. CASE Become(s, z) /\ UNCHANGED mail
  BY <1>4, <1>7, <1>8, <1>10, OwedStep DEF x
<1> QED
  BY <1>3, <1>9, <1>10

LEMMA RespondStep ==
  ASSUME SessionsInv, NEW s \in Service, NEW r \in lua[s].unresponse,
         NEW kind \in {"RESPONSE", "ERROR"}, Respond(s, r, kind)
  PROVE  SessionsInv'
<1> DEFINE x == lua[s]
           y == [x EXCEPT !.unresponse = @ \ {r}]
<1>1. x \in LuaType
  BY Here
<1>2. r.to \in Service /\ r.k \in Session
  BY <1>1, Fields
<1>3. Become(s, y) /\ Deliver(To(r.to, Message(kind, r.k, s)))
  BY DEF Respond, Answer
<1>4. UNCHANGED <<life, timers>>
  BY DEF Respond
<1>5. mail' \in [Service -> Seq(Messages)]
  <2>1. Message(kind, r.k, s) \in Messages
    BY <1>2 DEF Message, Messages
  <2> QED
    BY <1>2, <1>3, <2>1, Sent
<1> HIDE DEF x
<1>6. /\ y \in LuaType /\ y.session = x.session /\ y.id_co = x.id_co /\ y.sleep = x.sleep
      /\ y.wakeup = x.wakeup /\ y.error = x.error /\ y.fork = x.fork
      /\ y.watching = x.watching /\ y.at = x.at /\ y.run = x.run /\ y.mode = x.mode
      /\ y.current = x.current /\ y.ref = x.ref /\ y.threads = x.threads
      /\ y.address = x.address /\ y.co_id = x.co_id
  BY <1>1 DEF LuaType
<1> HIDE DEF y
<1> QED
  BY <1>3, <1>4, <1>5, <1>6, OwedStep DEF x

\* The critical section is left: it stays with its owner, is free, or goes to
\* the first thread of its queue, which is woken.
LEMMA LeaveStep ==
  ASSUME SessionsInv, NEW s \in Service, Leave(s)
  PROVE  SessionsInv'
<1> DEFINE x == lua[s]
           y == LeaveTo(x)
<1>1. /\ x \in LuaType /\ Shape(s, x) /\ x.mode = "run" /\ x.run \in Co /\ x.run # Nil
      /\ x.current = x.run /\ x.ref > 0 /\ x.ref \in Nat /\ x.threads \in Seq(Co)
      /\ x.wakeup \in Seq(Co)
  BY Here, RunningCo, Fields DEF Leave, Running, Inside
<1>2. /\ UNCHANGED <<life, mail, timers>> /\ mail' \in [Service -> Seq(Messages)]
      /\ timers' \in [Service -> SUBSET Session] /\ Become(s, y)
  BY DEF Leave, SessionsInv
<1> HIDE DEF x
<1> DEFINE h == Head(x.threads)
           free == [x EXCEPT !.ref = 0, !.current = Nil]
           less == [x EXCEPT !.ref = @ - 1]
           next == [x EXCEPT !.ref = 0, !.current = h, !.threads = Tail(@)]
           woke == [next EXCEPT !.wakeup = Append(@, h)]
<1>3. CASE x.ref > 1
  <2>1. y = less
    BY <1>3 DEF LeaveTo
  <2>2. /\ y \in LuaType /\ y.session = x.session /\ y.id_co = x.id_co /\ y.sleep = x.sleep
        /\ y.wakeup = x.wakeup /\ y.error = x.error /\ y.fork = x.fork
        /\ y.watching = x.watching /\ y.at = x.at /\ y.run = x.run /\ y.mode = x.mode
        /\ y.current = x.current /\ y.ref = x.ref - 1 /\ y.threads = x.threads
        /\ y.address = x.address /\ y.co_id = x.co_id
    <3>1. x.ref - 1 \in Nat
      BY <1>1, <1>3
    <3> QED
      BY <1>1, <2>1, <3>1 DEF LuaType
  <2> HIDE DEF y, less
  <2>3. Shape(s, y)
    BY <1>1, <2>2 DEF Shape
  <2>4. ASSUME Sound(x) PROVE Sound(y)
    <3>1. Parked(y) /\ Flow(y)
      BY <2>2, <2>4 DEF Sound, Parked, Flow
    <3>2. Queues(y)
      BY <1>1, <2>2, <2>4 DEF Sound, Queues
    <3>3. Section(y)
      BY <1>1, <1>3, <2>2, <2>4 DEF Sound, Section
    <3> QED
      BY <3>1, <3>2, <3>3 DEF Sound
  <2> QED
    BY <1>2, <2>2, <2>3, <2>4, LocalStep DEF x
<1>4. CASE x.ref = 1 /\ x.threads = << >>
  <2>1. y = [x EXCEPT !.ref = 0, !.current = Nil]
    BY <1>1, <1>4 DEF LeaveTo
  <2> HIDE DEF y, free, less, next, woke, h
  <2>2. /\ y \in LuaType /\ y.session = x.session /\ y.id_co = x.id_co /\ y.sleep = x.sleep
        /\ y.wakeup = x.wakeup /\ y.error = x.error /\ y.fork = x.fork
        /\ y.watching = x.watching /\ y.at = x.at /\ y.run = x.run /\ y.mode = x.mode
        /\ y.current = Nil /\ y.ref = 0 /\ y.threads = x.threads
        /\ y.address = x.address /\ y.co_id = x.co_id
    BY <1>1, <2>1 DEF LuaType
  <2>3. Shape(s, y)
    BY <1>1, <2>2 DEF Shape
  <2>4. ASSUME Sound(x) PROVE Sound(y)
    <3>1. Parked(y) /\ Flow(y)
      BY <2>2, <2>4 DEF Sound, Parked, Flow
    <3>2. Queues(y)
      BY <1>1, <2>2, <2>4 DEF Sound, Queues
    <3>3. \A c \in Co : x.at[c] # "enter"
      BY <1>1, <1>4, <2>4, QEmpty DEF Sound, Section
    <3>4. Section(y)
      BY <1>1, <1>4, <2>2, <2>4, <3>3, QEmpty DEF Sound, Section
    <3> QED
      BY <3>1, <3>2, <3>4 DEF Sound
  <2> QED
    BY <1>2, <2>2, <2>3, <2>4, LocalStep DEF x
<1>5. CASE x.ref = 1 /\ x.threads # << >>
  <2>1. /\ h \in Co /\ Tail(x.threads) \in Seq(Co) /\ Listed(x.threads, h)
        /\ \A d : Listed(Tail(x.threads), d) => Listed(x.threads, d)
        /\ \A d : Listed(x.threads, d) /\ d # h => Listed(Tail(x.threads), d)
        /\ Once(x.threads) => Once(Tail(x.threads)) /\ (h # Nop => ~ Listed(Tail(x.threads), h))
    BY <1>1, <1>5, QTail
  <2> HIDE DEF h
  <2>2. /\ next \in LuaType /\ next.session = x.session /\ next.id_co = x.id_co
        /\ next.sleep = x.sleep
        /\ next.wakeup = x.wakeup /\ next.error = x.error /\ next.fork = x.fork
        /\ next.watching = x.watching /\ next.at = x.at /\ next.run = x.run
        /\ next.mode = x.mode
        /\ next.current = h /\ next.ref = 0 /\ next.threads = Tail(x.threads)
        /\ next.address = x.address /\ next.co_id = x.co_id
    BY <1>1, <2>1 DEF LuaType
  <2>3. y = IF next.sleep[h] # Nil THEN woke ELSE next
    BY <1>1, <1>5 DEF LeaveTo, Woken, h
  <2> HIDE DEF next, y
  <2>4. /\ Append(x.wakeup, h) \in Seq(Co)
        /\ \A b : Listed(Append(x.wakeup, h), b) <=> Listed(x.wakeup, b) \/ b = h
        /\ Once(x.wakeup) /\ (~ Listed(x.wakeup, h) \/ h = Nop) => Once(Append(x.wakeup, h))
    BY <1>1, <2>1, QAppend
  <2>5. /\ woke \in LuaType /\ woke.session = x.session /\ woke.id_co = x.id_co
        /\ woke.sleep = x.sleep
        /\ woke.wakeup = Append(x.wakeup, h) /\ woke.error = x.error /\ woke.fork = x.fork
        /\ woke.watching = x.watching /\ woke.at = x.at /\ woke.run = x.run
        /\ woke.mode = x.mode
        /\ woke.current = h /\ woke.ref = 0 /\ woke.threads = Tail(x.threads)
        /\ woke.address = x.address /\ woke.co_id = x.co_id
    <3>1. [next EXCEPT !.wakeup = Append(@, h)] = [next EXCEPT !.wakeup = Append(x.wakeup, h)]
      BY <2>2
    <3>2. woke = [next EXCEPT !.wakeup = Append(x.wakeup, h)]
      BY <3>1
    <3> QED
      BY <2>2, <2>4, <3>2 DEF LuaType
  <2> HIDE DEF woke
  <2>6. Shape(s, woke) /\ Shape(s, next)
    BY <1>1, <2>2, <2>5 DEF Shape
  <2>7. ASSUME Sound(x) PROVE Sound(woke) /\ next.sleep[h] # Nil
    <3>1. x.at[h] = "enter" /\ x.current # h /\ h # Nil
      BY <2>1, <2>7, Constants DEF Sound, Section, Nil
    <3>2. x.sleep[h] # Nil
      BY <2>1, <2>7, <3>1 DEF Sound, Parked, Waits
    <3>3. ~ Listed(x.wakeup, h)
      BY <1>1, <2>1, <2>7, <3>1 DEF Sound, Queues
    <3>4. Parked(woke) /\ Flow(woke)
      BY <1>1, <2>5, <2>7 DEF Sound, Parked, Flow
    <3>5. Queues(woke)
      BY <1>1, <2>4, <2>5, <2>7, <3>1, <3>3 DEF Sound, Queues
    <3>6. Section(woke)
      <4>1. Section(x) /\ x.at[x.run] = "run"
        BY <1>1, <2>7 DEF Sound, Flow
      <4>2. \A c \in Co : Listed(woke.threads, c) => woke.at[c] = "enter" /\ woke.current # c
        BY <2>1, <2>5, <3>1, <4>1, Constants DEF Section, Nop
      <4>3. ASSUME NEW c \in Co, woke.at[c] = "enter"
            PROVE  Listed(woke.threads, c) \/ woke.current = c
        BY <1>1, <2>1, <2>5, <4>1, <4>3 DEF Section
      <4> QED
        BY <2>1, <2>4, <2>5, <3>1, <4>1, <4>2, <4>3 DEF Section
    <3> QED
      BY <2>2, <3>2, <3>4, <3>5, <3>6 DEF Sound
  <2> QED
    BY <1>2, <2>2, <2>3, <2>5, <2>6, <2>7, LocalStep DEF x
<1> QED
  BY <1>1, <1>3, <1>4, <1>5

LEMMA ReturnStep ==
  ASSUME SessionsInv, NEW s \in Service, Return(s)
  PROVE  SessionsInv'
<1> DEFINE x == lua[s]
           y == Recycled(x)
<1>1. /\ x \in LuaType /\ Shape(s, x) /\ x.mode = "run" /\ x.run \in Co /\ ~ Inside(x)
  BY Here, RunningCo DEF Return, Running
<1>2. /\ UNCHANGED <<life, mail, timers>> /\ mail' \in [Service -> Seq(Messages)]
      /\ timers' \in [Service -> SUBSET Session] /\ Become(s, y)
  BY DEF Return, SessionsInv
<1> HIDE DEF x
<1>3. /\ y \in LuaType /\ y.session = x.session /\ y.id_co = x.id_co
      /\ y.at = [x.at EXCEPT ![x.run] = "free"] /\ y.run = Nil /\ y.mode = "chain"
      /\ y.wakeup = x.wakeup /\ y.error = x.error /\ y.fork = x.fork
      /\ y.current = x.current /\ y.ref = x.ref /\ y.sleep = x.sleep
      /\ y.watching = x.watching /\ y.threads = x.threads
      /\ y.co_id = [x.co_id EXCEPT ![x.run] = Nil]
      /\ y.address = [x.address EXCEPT ![x.run] = None]
  <2>1. y = [x EXCEPT !.co_id = [x.co_id EXCEPT ![x.run] = Nil],
                      !.address = [x.address EXCEPT ![x.run] = None],
                      !.at = [x.at EXCEPT ![x.run] = "free"], !.run = Nil, !.mode = "chain"]
    BY DEF Recycled, Yield
  <2> HIDE DEF y
  <2>2. /\ [x.co_id EXCEPT ![x.run] = Nil] \in [Co -> Session \cup {Nil}]
        /\ [x.address EXCEPT ![x.run] = None] \in [Co -> Service \cup {None}]
        /\ [x.at EXCEPT ![x.run] = "free"] \in [Co -> Places]
    BY <1>1, Fields DEF Places
  <2> QED
    BY <1>1, <2>1, <2>2 DEF LuaType, Modes
<1> HIDE DEF y
<1>4. Shape(s, y)
  BY <1>1, <1>3, Fields DEF Shape
<1>5. Sound(x) => Sound(y)
  BY <1>1, <1>3, EndSound, Zenon
<1> QED
  BY <1>2, <1>3, <1>4, <1>5, LocalStep DEF x

LEMMA RaiseStep ==
  ASSUME SessionsInv, NEW s \in Service, Raise(s)
  PROVE  SessionsInv'
<1> DEFINE x == lua[s]
           c == x.run
           y == Failed(x, c)
<1>1. /\ x \in LuaType /\ Shape(s, x) /\ c \in Co
      /\ x.mode = "dead" \/ (x.mode = "run" /\ ~ Inside(x))
  BY Here, RunningCo DEF Raise, Running
<1>2. UNCHANGED <<life, timers>> /\ timers \in [Service -> SUBSET Session] /\ Become(s, y)
  BY DEF Raise, SessionsInv
<1>3. mail' \in [Service -> Seq(Messages)]
  <2>1. CASE x.co_id[c] # Nil
    <3>1. x.address[c] \in Service /\ x.co_id[c] \in Session
      BY <1>1, <2>1, Fields DEF Shape
    <3>2. Deliver(To(x.address[c], Message("ERROR", x.co_id[c], s)))
      BY <2>1 DEF Raise, Answer
    <3>3. Message("ERROR", x.co_id[c], s) \in Messages
      BY <3>1 DEF Message, Messages
    <3> QED
      BY <3>1, <3>2, <3>3, Sent
  <2>2. CASE x.co_id[c] = Nil
    BY <2>2 DEF Raise, SessionsInv
  <2> QED
    BY <2>1, <2>2
<1> HIDE DEF x, c
<1>4. x.fork \in Seq(Co \cup {Nop}) /\ Append(x.fork, Nop) \in Seq(Co \cup {Nop})
  BY <1>1, Fields
<1>5. /\ y \in LuaType /\ y.session = x.session /\ y.id_co = x.id_co
      /\ y.at = [x.at EXCEPT ![c] = "free"] /\ y.run = Nil /\ y.mode = "fork"
      /\ y.wakeup = x.wakeup /\ y.error = x.error /\ y.fork = Append(x.fork, Nop)
      /\ y.current = x.current /\ y.ref = x.ref /\ y.sleep = x.sleep
      /\ y.watching = x.watching /\ y.threads = x.threads
      /\ y.co_id = [x.co_id EXCEPT ![c] = Nil] /\ y.address = [x.address EXCEPT ![c] = None]
  <2>1. y = [x EXCEPT !.co_id = [x.co_id EXCEPT ![c] = Nil],
                      !.address = [x.address EXCEPT ![c] = None],
                      !.at = [x.at EXCEPT ![c] = "free"], !.run = Nil,
                      !.mode = "fork", !.fork = Append(x.fork, Nop)]
    BY DEF Failed
  <2> HIDE DEF y
  <2>2. /\ [x.co_id EXCEPT ![c] = Nil] \in [Co -> Session \cup {Nil}]
        /\ [x.address EXCEPT ![c] = None] \in [Co -> Service \cup {None}]
        /\ [x.at EXCEPT ![c] = "free"] \in [Co -> Places]
    BY <1>1, Fields DEF Places
  <2> QED
    BY <1>1, <1>4, <2>1, <2>2 DEF LuaType, Modes
<1> HIDE DEF y
<1>6. Shape(s, y)
  BY <1>1, <1>5, Fields DEF Shape, c
<1>7. Sound(x) => Sound(y)
  <2>1. Sound(x) => x.mode = "run" /\ ~ Inside(x)
    BY <1>1 DEF Sound, Flow
  <2> QED
    BY <1>1, <1>5, <2>1, EndSound, Zenon DEF c
<1> QED
  BY <1>2, <1>3, <1>5, <1>6, <1>7, LocalStep DEF x

-----------------------------------------------------------------------------
(* skynet.exit, the timer, and what becomes of the messages of a dead service *)

\* A service has finitely many sessions.
LEMMA SessionFinite == IsFiniteSet(Session)
<1> DEFINE f == [s \in Service |-> 1 .. MaxSession[s]]
           T == {1 .. MaxSession[s] : s \in Service}
<1>1. f \in Surjection(Service, T)
  BY DEF Surjection
<1>2. IsFiniteSet(T)
  BY <1>1, SessionsAssumption, FS_Surjection
<1>3. \A t \in T : IsFiniteSet(t)
  <2>1. ASSUME NEW s \in Service PROVE IsFiniteSet(1 .. MaxSession[s])
    BY Constants, FS_Interval
  <2> QED
    BY <2>1
<1> QED
  BY <1>2, <1>3, FS_UNION DEF Session

\* A set of numbers has a least one.
LEMMA Least ==
  ASSUME NEW S, S \subseteq Nat, S # {}
  PROVE  \E c \in S : \A d \in S : c <= d
<1>1. PICK c \in S : \A d \in S : ~ (<<d, c>> \in OpToRel(<, Nat))
  BY NatLessThanWellFounded, WFMin
<1>2. \A d \in S : c <= d
  <2> TAKE d \in S
  <2>1. c \in Nat /\ d \in Nat
    OBVIOUS
  <2>2. ~ (d < c)
    BY <1>1, <2>1 DEF OpToRel
  <2> QED
    BY <2>1, <2>2
<1> QED
  BY <1>2

Rank(S, k) == Cardinality({j \in S : j < k})

\* The sessions to answer can be told in ascending order, as Report does.
LEMMA RankExists ==
  ASSUME NEW S, S \subseteq Nat, IsFiniteSet(S), NEW n \in 1 .. Cardinality(S)
  PROVE  \E k \in S : Rank(S, k) = n - 1
<1> DEFINE Bad == {i \in 1 .. Cardinality(S) : ~ \E k \in S : Rank(S, k) = i - 1}
<1>0. Cardinality(S) \in Nat
  BY FS_CardinalityType
<1> SUFFICES ASSUME Bad # {} PROVE FALSE
  OBVIOUS
<1>1. PICK i \in Bad : \A j \in Bad : i <= j
  <2>1. Bad \subseteq Nat
    BY <1>0
  <2> QED
    BY <2>1, Least
<1>2. i \in 1 .. Cardinality(S) /\ ~ \E k \in S : Rank(S, k) = i - 1
  OBVIOUS
<1>3. CASE i = 1
  <2>1. S # {}
    BY <1>0, <1>2, <1>3, FS_EmptySet
  <2>2. PICK k \in S : \A d \in S : k <= d
    BY <2>1, Least
  <2>3. {j \in S : j < k} = {}
    <3>1. ASSUME NEW j \in S PROVE ~ (j < k)
      <4>1. j \in Nat /\ k \in Nat /\ k <= j
        BY <2>2
      <4> QED
        BY <4>1
    <3> QED
      BY <3>1
  <2>4. Rank(S, k) = 0
    BY <2>3, FS_EmptySet DEF Rank
  <2> QED
    BY <1>2, <1>3, <2>4
<1>4. CASE i > 1
  <2>1. i - 1 \in 1 .. Cardinality(S) /\ i - 1 \notin Bad
    BY <1>0, <1>1, <1>2, <1>4
  <2>2. PICK g \in S : Rank(S, g) = i - 2
    BY <2>1, <1>0, <1>2
  <2> DEFINE L == {j \in S : j < g}
             A == L \cup {g}
  <2>3. IsFiniteSet(L) /\ g \notin L /\ A \subseteq S
    <3>1. IsFiniteSet(L)
      BY FS_Subset
    <3> QED
      BY <3>1
  <2>4. Cardinality(L) = i - 2
    BY <2>2 DEF Rank
  <2>5. Cardinality(A) = i - 1
    <3>1. Cardinality(A) = Cardinality(L) + 1
      BY <2>3, FS_AddElement
    <3> QED
      BY <1>0, <1>2, <2>4, <3>1
  <2>6. S \ A # {}
    <3>1. ASSUME S = A PROVE FALSE
      BY <1>0, <1>2, <2>5, <3>1
    <3> QED
      BY <2>3, <3>1
  <2>7. PICK k \in S \ A : \A d \in S \ A : k <= d
    <3>1. S \ A \subseteq Nat
      OBVIOUS
    <3> QED
      BY <2>6, <3>1, Least
  <2>8. {j \in S : j < k} = A
    <3>1. g \in Nat /\ k \in Nat /\ k > g
      BY <2>7
    <3>2. \A j \in S : j \in Nat
      OBVIOUS
    <3>3. \A j \in A : j \in S /\ j < k
      BY <2>3, <3>1, <3>2
    <3>4. \A j \in S : j < k => j \in A
      BY <2>7, <3>1, <3>2
    <3> QED
      BY <3>3, <3>4
  <2>9. Rank(S, k) = i - 1
    BY <2>5, <2>8 DEF Rank
  <2> QED
    BY <1>2, <2>7, <2>9
<1> QED
  BY <1>0, <1>2, <1>3, <1>4

\* What is in a queue that another one was added to.
LEMMA ConcatIs ==
  ASSUME NEW S, NEW q \in Seq(S), NEW r \in Seq(S)
  PROVE  /\ DOMAIN (q \o r) = 1 .. Len(q) + Len(r) /\ Len(q) \in Nat /\ Len(r) \in Nat
         /\ DOMAIN q = 1 .. Len(q) /\ DOMAIN r = 1 .. Len(r)
         /\ \A i \in DOMAIN (q \o r) :
              \/ i \in DOMAIN q /\ (q \o r)[i] = q[i]
              \/ i - Len(q) \in DOMAIN r /\ (q \o r)[i] = r[i - Len(q)]
<1> DEFINE p == q \o r
<1>1. /\ DOMAIN p = 1 .. Len(q) + Len(r) /\ Len(q) \in Nat /\ Len(r) \in Nat
      /\ DOMAIN q = 1 .. Len(q) /\ DOMAIN r = 1 .. Len(r)
      /\ \A i \in DOMAIN p : p[i] = IF i <= Len(q) THEN q[i] ELSE r[i - Len(q)]
  OBVIOUS
<1> HIDE DEF p
<1>2. \A i \in DOMAIN p : \/ i \in DOMAIN q /\ p[i] = q[i]
                          \/ i - Len(q) \in DOMAIN r /\ p[i] = r[i - Len(q)]
  BY <1>1
<1> QED
  BY <1>1, <1>2 DEF p

\* skynet.exit sends errors of session 0 to those it calls.
LEMMA DownsAre ==
  ASSUME NEW s \in Service, NEW x, NEW d
  PROVE  /\ Downs(s, x, d) \in Seq(Messages)
         /\ \A i \in DOMAIN Downs(s, x, d) :
              LET m == Downs(s, x, d)[i] IN m.t = "ERROR" /\ m.from = s /\ m.k = 0
<1> DEFINE m == Message("ERROR", 0, s)
           a == Down(s, Watched(s, x, d))
           b == Down(s, WatchedName(s, x, d))
<1>1. m \in Messages /\ m.t = "ERROR" /\ m.from = s /\ m.k = 0
  BY DEF Message, Messages
<1>2. (a = <<m>> \/ a = << >>) /\ (b = <<m>> \/ b = << >>) /\ Downs(s, x, d) = a \o b
  BY DEF Down, Downs
<1> HIDE DEF m, a, b
<1>3. <<m>> \in Seq(Messages) /\ << >> \in Seq(Messages) /\ DOMAIN << >> = {}
      /\ \A i \in DOMAIN <<m>> : <<m>>[i] = m
  BY <1>1
<1>4. ASSUME NEW z, z = <<m>> \/ z = << >>
      PROVE  z \in Seq(Messages) /\ \A i \in DOMAIN z : z[i] = m
  <2>1. CASE z = <<m>>
    BY <1>3, <2>1, Zenon
  <2>2. CASE z = << >>
    BY <1>3, <2>2, Zenon
  <2> QED
    BY <1>4, <2>1, <2>2
<1>5. a \o b \in Seq(Messages) /\ \A i \in DOMAIN (a \o b) : (a \o b)[i] = m
  <2>1. a \in Seq(Messages) /\ b \in Seq(Messages) /\ a \o b \in Seq(Messages)
    BY <1>2, <1>4
  <2> QED
    BY <1>2, <1>4, <2>1, ConcatIs
<1> QED
  BY <1>1, <1>2, <1>5

\* What skynet.exit sends to d.
LEMMA ReportTyped ==
  ASSUME NEW s \in Service, NEW d \in Service, NEW x \in LuaType, Shape(s, x)
  PROVE  Report(s, x, d) \in Seq(Messages)
<1> DEFINE ks == {r.k : r \in {r \in Owed(x) : r.to = d}}
           n == Cardinality(ks)
           pick(i) == CHOOSE k \in ks : Cardinality({j \in ks : j < k}) = i - 1
           q == [i \in 1 .. n |-> Message("ERROR", pick(i), s)]
           e == Downs(s, x, d)
<1>1. Owed(x) \subseteq [to : Service, k : Session]
  BY Fields DEF Owed, Shape
<1>2. ks \subseteq Session
  BY <1>1
<1>3. IsFiniteSet(ks) /\ ks \subseteq Nat
  BY <1>2, SessionFinite, FS_Subset, Constants
<1>4. n \in Nat
  BY <1>3, FS_CardinalityType
<1>5. Report(s, x, d) = q \o e
  BY DEF Report
<1> HIDE DEF ks
<1>6. ASSUME NEW i \in 1 .. n PROVE pick(i) \in Session
  <2>1. \E k \in ks : Cardinality({j \in ks : j < k}) = i - 1
    BY <1>3, RankExists DEF Rank
  <2> QED
    BY <1>2, <2>1
<1> HIDE DEF pick
<1>7. \A k \in Session \cup {0} : Message("ERROR", k, s) \in Messages
  BY DEF Message, Messages
<1>8. q \in Seq(Messages)
  <2>1. \A i \in 1 .. n : Message("ERROR", pick(i), s) \in Messages
    BY <1>6, <1>7
  <2> HIDE DEF n
  <2> QED
    BY <1>4, <2>1
<1>9. e \in Seq(Messages)
  BY DownsAre
<1> HIDE DEF q, e
<1> QED
  BY <1>5, <1>8, <1>9

LEMMA ExitStep ==
  ASSUME SessionsInv, NEW s \in Service, Exit(s)
  PROVE  SessionsInv'
<1> DEFINE x == lua[s]
           y == Shut(x)
           out == [d \in Service |-> Report(s, x, d)]
<1>1. x \in LuaType /\ Shape(s, x)
  BY Here
<1>2. /\ UNCHANGED timers /\ timers \in [Service -> SUBSET Session] /\ Become(s, y)
      /\ Deliver(out) /\ life' = [life EXCEPT ![s] = "exited"]
      /\ life \in [Service -> {"up", "exited", "freed"}]
  BY DEF Exit, SessionsInv
<1>3. out \in [Service -> Seq(Messages)]
  BY <1>1, ReportTyped
<1> HIDE DEF x, out
<1>4. mail' \in [Service -> Seq(Messages)]
  BY <1>2, <1>3, Delivered
<1> DEFINE closed == [c \in Co |-> IF x.at[c] \in {"free", "fork"} THEN "free" ELSE "closed"]
<1>5. y = [x EXCEPT !.fork = << >>, !.unresponse = {}, !.run = Nil, !.mode = "fork",
                    !.at = closed]
  BY DEF Shut
<1>6. closed \in [Co -> Places] /\ \A c \in Co : closed[c] # "run"
  BY DEF Places
<1> HIDE DEF y, closed
<1>7. /\ y \in LuaType /\ y.session = x.session /\ y.at = closed /\ y.run = Nil
      /\ y.mode = "fork" /\ y.co_id = x.co_id /\ y.address = x.address
  <2>1. /\ << >> \in Seq(Co \cup {Nop}) /\ {} \in SUBSET [to : Service, k : Session]
        /\ Nil \in Co \cup {Nil} /\ "fork" \in Modes
    BY DEF Modes
  <2> QED
    BY <1>1, <1>5, <1>6, <2>1 DEF LuaType
<1>8. Shape(s, y)
  BY <1>1, <1>6, <1>7 DEF Shape
<1>9. /\ life' \in [Service -> {"up", "exited", "freed"}] /\ life'[s] # "up"
      /\ \A u \in Service : u # s => life'[u] = life[u]
  BY <1>2
<1> QED
  BY <1>2, <1>4, <1>7, <1>8, <1>9, BecomeStep

\* The Lua state of a new service.
LEMMA NewIs ==
  /\ New \in LuaType /\ New.session = 1 /\ New.run = Nil /\ New.mode = "idle"
  /\ New.id_co = [k \in Session |-> IF k = 1 THEN 1 ELSE Nil]
  /\ New.at = [c \in Co |-> IF c = 1 THEN "start" ELSE "free"]
  /\ New.co_id = [c \in Co |-> Nil] /\ New.sleep = [c \in Co |-> Nil]
  /\ New.watching = [k \in Session |-> None]
  /\ New.wakeup = << >> /\ New.error = << >> /\ New.fork = << >> /\ New.threads = << >>
  /\ New.current = Nil /\ New.ref = 0
<1>1. /\ [k \in Session |-> IF k = 1 THEN 1 ELSE Nil] \in [Session -> Co \cup {Nil, Break}]
      /\ [c \in Co |-> Nil] \in [Co -> Session \cup {Nil}]
      /\ [c \in Co |-> None] \in [Co -> Service \cup {None}]
      /\ [k \in Session |-> None] \in [Session -> Service \cup {None}]
      /\ [c \in Co |-> IF c = 1 THEN "start" ELSE "free"] \in [Co -> Places]
  BY Constants DEF Places
<1>2. /\ << >> \in Seq(Co) /\ << >> \in Seq(Session) /\ << >> \in Seq(Co \cup {Nop})
      /\ {} \in SUBSET [to : Service, k : Session] /\ Nil \in Co \cup {Nil}
      /\ "idle" \in Modes /\ 0 \in Nat /\ 1 \in Nat
  BY DEF Modes
<1> QED
  BY <1>1, <1>2 DEF New, LuaType

LEMMA ReleaseStep ==
  ASSUME SessionsInv, NEW s \in Service, Release(s)
  PROVE  SessionsInv'
<1> DEFINE y == [New EXCEPT !.at = [c \in Co |-> "free"], !.id_co = [k \in Session |-> Nil]]
<1>1. /\ UNCHANGED mail /\ mail \in [Service -> Seq(Messages)] /\ Become(s, y)
      /\ timers' = [timers EXCEPT ![s] = {}] /\ timers \in [Service -> SUBSET Session]
      /\ life' = [life EXCEPT ![s] = "freed"]
      /\ life \in [Service -> {"up", "exited", "freed"}]
  BY DEF Release, SessionsInv
<1>2. /\ y \in LuaType /\ y.session = 1 /\ y.run = Nil /\ y.mode = "idle"
      /\ y.at = [c \in Co |-> "free"] /\ y.co_id = [c \in Co |-> Nil]
  <2>1. [c \in Co |-> "free"] \in [Co -> Places]
    BY DEF Places
  <2>2. [k \in Session |-> Nil] \in [Session -> Co \cup {Nil, Break}]
    OBVIOUS
  <2> QED
    BY <2>1, <2>2, NewIs DEF LuaType
<1> HIDE DEF y
<1>3. Shape(s, y)
  BY <1>2, Constants DEF Shape
<1>4. /\ life' \in [Service -> {"up", "exited", "freed"}] /\ life'[s] # "up"
      /\ \A u \in Service : u # s => life'[u] = life[u]
      /\ timers' \in [Service -> SUBSET Session]
  BY <1>1
<1> QED
  BY <1>1, <1>2, <1>3, <1>4, BecomeStep

LEMMA MailStep ==
  ASSUME SessionsInv, UNCHANGED <<lua, life>>, mail' \in [Service -> Seq(Messages)],
         timers' \in [Service -> SUBSET Session]
  PROVE  SessionsInv'
  BY DEF SessionsInv

LEMMA DropStep ==
  ASSUME SessionsInv, NEW s \in Service, Drop(s)
  PROVE  SessionsInv'
<1> DEFINE m == Head(mail[s])
           err == Message("ERROR", 0, s)
<1>1. /\ UNCHANGED <<lua, life, timers>> /\ timers \in [Service -> SUBSET Session]
      /\ mail \in [Service -> Seq(Messages)] /\ mail[s] # << >>
      /\ mail' = [d \in Service |->
                    IF d = s THEN Tail(mail[s])
                    ELSE IF d = m.from /\ life[d] = "up" THEN Append(mail[d], err) ELSE mail[d]]
  BY DEF Drop, SessionsInv
<1>2. err \in Messages
  BY DEF Message, Messages
<1> HIDE DEF m, err
<1>3. mail' \in [Service -> Seq(Messages)]
  BY <1>1, <1>2
<1> QED
  BY <1>1, <1>3, MailStep

LEMMA TimerStep ==
  ASSUME SessionsInv, NEW s \in Service, NEW k \in Session, Timer(s, k)
  PROVE  SessionsInv'
<1>1. Message("RESPONSE", k, None) \in Messages
  BY DEF Message, Messages
<1>2. mail' \in [Service -> Seq(Messages)]
  BY <1>1, Sent DEF Timer
<1>3. UNCHANGED <<lua, life>> /\ timers' \in [Service -> SUBSET Session]
  BY DEF Timer, SessionsInv
<1> QED
  BY <1>2, <1>3, MailStep

-----------------------------------------------------------------------------
(* The callback                                                             *)

\* y is x but for what a coroutine changes that goes on: where it is, its
\* session, its sleep and its call.
Alike(x, y) ==
    /\ y.session = x.session /\ y.co_id = x.co_id /\ y.address = x.address
    /\ y.unresponse = x.unresponse /\ y.fork = x.fork /\ y.threads = x.threads

\* coroutine_resume.
LEMMA RunIs ==
  ASSUME NEW x \in LuaType, NEW c \in Co
  PROVE  LET w == Run(x, c)
         IN  /\ w \in LuaType /\ Alike(x, w) /\ w.id_co = x.id_co
             /\ w.at = [x.at EXCEPT ![c] = "run"] /\ w.run = c /\ w.mode = "run"
             /\ w.wakeup = x.wakeup /\ w.error = x.error /\ w.sleep = x.sleep
             /\ w.current = x.current /\ w.ref = x.ref /\ w.watching = x.watching
<1>1. "run" \in Places /\ "run" \in Modes
  BY DEF Places, Modes
<1> QED
  BY <1>1 DEF LuaType, Run, Alike

\* w is x with coroutine c, which was asleep, resumed.
Awoken(x, w, c) ==
    /\ w \in LuaType /\ Alike(x, w) /\ w.id_co = x.id_co
    /\ w.at = [x.at EXCEPT ![c] = "run"] /\ w.run = c /\ w.mode = "run"
    /\ w.wakeup = x.wakeup /\ w.error = x.error /\ w.sleep = [x.sleep EXCEPT ![c] = Nil]
    /\ w.current = x.current /\ w.ref = x.ref /\ w.watching = x.watching

\* The coroutine was asleep.
LEMMA AwakeIs ==
  ASSUME NEW x \in LuaType, NEW c \in Co
  PROVE  Awoken(x, Awake(x, c), c)
<1> DEFINE r == Run(x, c)
           w == [r EXCEPT !.sleep[c] = Nil]
<1>1. /\ r \in LuaType /\ Alike(x, r) /\ r.id_co = x.id_co
      /\ r.at = [x.at EXCEPT ![c] = "run"] /\ r.run = c /\ r.mode = "run"
      /\ r.wakeup = x.wakeup /\ r.error = x.error /\ r.sleep = x.sleep
      /\ r.current = x.current /\ r.ref = x.ref /\ r.watching = x.watching
  BY RunIs
<1>2. Awake(x, c) = w
  BY DEF Awake
<1> HIDE DEF r
<1>3. /\ w \in LuaType /\ Alike(r, w) /\ w.id_co = r.id_co /\ w.at = r.at /\ w.run = r.run
      /\ w.mode = r.mode /\ w.wakeup = r.wakeup /\ w.error = r.error
      /\ w.sleep = [r.sleep EXCEPT ![c] = Nil]
      /\ w.current = r.current /\ w.ref = r.ref /\ w.watching = r.watching
  BY <1>1 DEF LuaType, Alike
<1> HIDE DEF w
<1> QED
  BY <1>1, <1>2, <1>3 DEF Alike, Awoken

\* The call in session k returns.
LEMMA ReturnedIs ==
  ASSUME NEW x \in LuaType, NEW c \in Co, NEW k \in Session
  PROVE  LET w == [Run(x, c) EXCEPT !.watching[k] = None]
         IN  /\ w \in LuaType /\ Alike(x, w) /\ w.id_co = x.id_co
             /\ w.at = [x.at EXCEPT ![c] = "run"] /\ w.run = c /\ w.mode = "run"
             /\ w.wakeup = x.wakeup /\ w.error = x.error /\ w.sleep = x.sleep
             /\ w.current = x.current /\ w.ref = x.ref
             /\ w.watching = [x.watching EXCEPT ![k] = None]
<1> DEFINE r == Run(x, c)
           w == [r EXCEPT !.watching[k] = None]
<1>1. /\ r \in LuaType /\ Alike(x, r) /\ r.id_co = x.id_co
      /\ r.at = [x.at EXCEPT ![c] = "run"] /\ r.run = c /\ r.mode = "run"
      /\ r.wakeup = x.wakeup /\ r.error = x.error /\ r.sleep = x.sleep
      /\ r.current = x.current /\ r.ref = x.ref /\ r.watching = x.watching
  BY RunIs
<1> HIDE DEF r
<1>2. /\ w \in LuaType /\ Alike(r, w) /\ w.id_co = r.id_co /\ w.at = r.at /\ w.run = r.run
      /\ w.mode = r.mode /\ w.wakeup = r.wakeup /\ w.error = r.error /\ w.sleep = r.sleep
      /\ w.current = r.current /\ w.ref = r.ref
      /\ w.watching = [r.watching EXCEPT ![k] = None]
  BY <1>1 DEF LuaType, Alike
<1>3. [Run(x, c) EXCEPT !.watching[k] = None] = w
  BY DEF r
<1> HIDE DEF w
<1> QED
  BY <1>1, <1>2, <1>3 DEF Alike

\* Coroutine c runs, or could not be resumed, or the callback goes on.
GoesOn(x, y, c) ==
    \/ y.at = [x.at EXCEPT ![c] = "run"] /\ y.run = c /\ y.mode = "run"
    \/ y.at = x.at /\ y.run = c /\ y.mode = "dead"
    \/ y.at = x.at /\ y.run = x.run /\ y.mode \notin {"run", "dead"}

\* One coroutine runs.
LEMMA RunShape ==
  ASSUME NEW s \in Service, NEW x \in LuaType, Shape(s, x), x.mode \notin {"run", "dead"},
         NEW y \in LuaType, Alike(x, y), NEW c \in Co, GoesOn(x, y, c)
  PROVE  Shape(s, y)
<1>1. /\ x.run = Nil /\ c # Nil /\ \A b \in Co : x.at[b] # "run"
  BY Constants DEF Shape, Nil
<1>2. /\ y.session \in 1 .. MaxSession[s]
      /\ \A b \in Co : y.co_id[b] # Nil => y.address[b] \in Service
  BY DEF Shape, Alike
<1>3. /\ y.run # Nil <=> y.mode \in {"run", "dead"}
      /\ \A b \in Co : y.at[b] = "run" => b = y.run
  BY <1>1, Fields DEF GoesOn
<1> QED
  BY <1>2, <1>3 DEF Shape

\* What may follow when a coroutine is resumed by dispatch_wakeup or
\* dispatch_error_queue.
LEMMA WokeShape ==
  ASSUME NEW s \in Service, NEW x \in LuaType, Shape(s, x), x.mode = "chain",
         NEW c \in Co \cup {Nil, Break}, NEW k \in Session
  PROVE  Woke(x, c, k) \in LuaType /\ Shape(s, Woke(x, c, k))
<1> DEFINE w == Awake(x, c)
<1>1. CASE c \notin Co
  <2> DEFINE y == [x EXCEPT !.mode = "fork"]
  <2>1. Woke(x, c, k) = y
    BY <1>1 DEF Woke
  <2>2. y \in LuaType /\ Alike(x, y) /\ y.at = x.at /\ y.run = x.run /\ y.mode = "fork"
    BY DEF LuaType, Modes, Alike
  <2> HIDE DEF y
  <2>3. 1 \in Co
    BY Constants
  <2> QED
    BY <2>1, <2>2, <2>3, RunShape DEF GoesOn
<1>2. CASE c \in Co
  <2>1. /\ w \in LuaType /\ Alike(x, w) /\ w.id_co = x.id_co
        /\ w.at = [x.at EXCEPT ![c] = "run"] /\ w.run = c /\ w.mode = "run"
    BY <1>2, AwakeIs DEF Awoken
  <2>2. \/ Woke(x, c, k) = w
        \/ Woke(x, c, k) = [w EXCEPT !.id_co[k] = Nil]
        \/ Woke(x, c, k) = [w EXCEPT !.id_co[k] = Nil, !.current = c, !.ref = 1]
        \/ Woke(x, c, k) = [x EXCEPT !.run = c, !.mode = "dead"]
    BY <1>2 DEF Woke, Dead
  <2> HIDE DEF w
  <2>3. CASE Woke(x, c, k) = w
    BY <1>2, <2>1, <2>3, RunShape DEF GoesOn
  <2>4. CASE Woke(x, c, k) = [w EXCEPT !.id_co[k] = Nil]
    <3> DEFINE y == [w EXCEPT !.id_co[k] = Nil]
    <3>1. y \in LuaType /\ Alike(w, y) /\ y.at = w.at /\ y.run = w.run /\ y.mode = w.mode
      BY <2>1 DEF LuaType, Alike
    <3> HIDE DEF y
    <3>2. Alike(x, y)
      BY <2>1, <3>1 DEF Alike
    <3>3. Shape(s, y)
      BY <1>2, <2>1, <3>1, <3>2, RunShape DEF GoesOn
    <3> QED
      BY <2>4, <3>1, <3>3 DEF y
  <2>5. CASE Woke(x, c, k) = [w EXCEPT !.id_co[k] = Nil, !.current = c, !.ref = 1]
    <3> DEFINE y == [w EXCEPT !.id_co[k] = Nil, !.current = c, !.ref = 1]
    <3>1. y \in LuaType /\ Alike(w, y) /\ y.at = w.at /\ y.run = w.run /\ y.mode = w.mode
      BY <1>2, <2>1 DEF LuaType, Alike
    <3> HIDE DEF y
    <3>2. Alike(x, y)
      BY <2>1, <3>1 DEF Alike
    <3>3. Shape(s, y)
      BY <1>2, <2>1, <3>1, <3>2, RunShape DEF GoesOn
    <3> QED
      BY <2>5, <3>1, <3>3 DEF y
  <2>6. CASE Woke(x, c, k) = [x EXCEPT !.run = c, !.mode = "dead"]
    <3> DEFINE y == [x EXCEPT !.run = c, !.mode = "dead"]
    <3>1. y \in LuaType /\ Alike(x, y) /\ y.at = x.at /\ y.run = c /\ y.mode = "dead"
      BY <1>2 DEF LuaType, Alike, Modes
    <3> HIDE DEF y
    <3>2. Shape(s, y)
      BY <1>2, <3>1, RunShape DEF GoesOn
    <3> QED
      BY <2>6, <3>1, <3>2 DEF y
  <2> QED
    BY <2>2, <2>3, <2>4, <2>5, <2>6
<1> QED
  BY <1>1, <1>2

\* The first message of the queue.
LEMMA TakeMail ==
  ASSUME SessionsInv, NEW s \in Service, Take(s)
  PROVE  /\ Head(mail[s]) \in Messages /\ mail' \in [Service -> Seq(Messages)]
         /\ UNCHANGED <<life, timers>> /\ timers' \in [Service -> SUBSET Session]
         /\ lua[s].mode = "idle"
  BY DEF Take, SessionsInv

\* A response resumes the coroutine of its session, if there is one.
LEMMA TakeResponseStep ==
  ASSUME SessionsInv, NEW s \in Service, Take(s), NEW k \in Session, TakeResponse(s, k)
  PROVE  SessionsInv'
<1> DEFINE x == lua[s]
           c == x.id_co[k]
           z == [x EXCEPT !.id_co[k] = Nil]
<1>1. /\ x \in LuaType /\ Shape(s, x) /\ x.mode = "idle"
      /\ mail' \in [Service -> Seq(Messages)] /\ UNCHANGED <<life, timers>>
      /\ timers' \in [Service -> SUBSET Session]
  BY Here, TakeMail
<1>2. \/ c \in {Break, Nil} /\ Become(s, z)
      \/ c \in Co /\ z.at[c] = "closed" /\ Become(s, Dead(z, c))
      \/ c \in Co /\ z.at[c] = "start" /\ Become(s, Run(z, c))
      \/ c \in Co /\ z.at[c] = "sleep" /\ Become(s, Awake(z, c))
      \/ c \in Co /\ z.at[c] = "call" /\ Become(s, [Run(z, c) EXCEPT !.watching[k] = None])
  BY DEF TakeResponse, Returned
<1> HIDE DEF x
<1>3. /\ z \in LuaType /\ Alike(x, z) /\ z.id_co = [x.id_co EXCEPT ![k] = Nil]
      /\ z.at = x.at /\ z.run = x.run /\ z.mode = x.mode
      /\ z.wakeup = x.wakeup /\ z.error = x.error /\ z.sleep = x.sleep
      /\ z.current = x.current /\ z.ref = x.ref /\ z.watching = x.watching
  BY <1>1 DEF LuaType, Alike
<1> HIDE DEF z, c
<1>4. /\ 1 \in Co /\ Nil \notin Co /\ Break \notin Co
  BY Constants DEF Nil, Break
<1>5. Shape(s, z)
  BY <1>1, <1>3, <1>4, RunShape DEF GoesOn
<1>6. ASSUME Sound(x)
      PROVE  /\ x.wakeup = << >> /\ x.error = << >>
             /\ Once(x.wakeup) /\ Once(x.error)
             /\ \A d : ~ Listed(x.wakeup, d) /\ ~ Listed(x.error, d)
             /\ c \in Co => x.at[c] \in {"start", "call"} \cup Waits
  BY <1>1, <1>6, QEmpty DEF Sound, Flow, Parked, c
<1>7. CASE c \in {Break, Nil} /\ Become(s, z)
  <2>1. ASSUME Sound(x) PROVE Sound(z)
    <3>1. /\ x.id_co[k] \notin Co /\ x.id_co \in [Session -> Co \cup {Nil, Break}]
      BY <1>1, <1>4, <1>7, Fields DEF c
    <3>2. \A j \in Session : z.id_co[j] = IF j = k THEN Nil ELSE x.id_co[j]
      BY <1>3, <3>1
    <3>3. Parked(x) /\ Queues(x) /\ Section(x) /\ Flow(x)
      BY <2>1 DEF Sound
    <3>4. ASSUME NEW b \in Co, z.sleep[b] # Nil PROVE z.id_co[z.sleep[b]] = b
      <4>1. x.sleep[b] \in Session \cup {Nil}
        BY <1>1, Fields
      <4>2. x.sleep[b] # k
        BY <1>3, <3>1, <3>3, <3>4 DEF Parked
      <4> QED
        BY <1>3, <3>2, <3>3, <3>4, <4>1, <4>2 DEF Parked
    <3>5. Parked(z)
      BY <1>3, <1>4, <3>1, <3>2, <3>3, <3>4 DEF Parked, Alike
    <3>6. Queues(z) /\ Section(z) /\ Flow(z)
      BY <1>3, <3>3 DEF Queues, Section, Flow, Alike
    <3> QED
      BY <3>5, <3>6 DEF Sound
  <2> QED
    BY <1>1, <1>3, <1>5, <1>7, <2>1, LocalStep DEF x
<1>8. CASE c \in Co /\ z.at[c] = "closed" /\ Become(s, Dead(z, c))
  <2> DEFINE y == [z EXCEPT !.run = c, !.mode = "dead"]
  <2>1. Become(s, y)
    BY <1>8 DEF Dead
  <2>2. y \in LuaType /\ Alike(z, y) /\ y.at = z.at /\ y.run = c /\ y.mode = "dead"
    BY <1>3, <1>8 DEF LuaType, Alike, Modes
  <2> HIDE DEF y
  <2>3. Shape(s, y)
    <3>1. Alike(x, y) /\ y.at = x.at
      BY <1>3, <2>2 DEF Alike
    <3>2. GoesOn(x, y, c)
      BY <2>2, <3>1 DEF GoesOn
    <3> QED
      BY <1>1, <1>8, <2>2, <3>1, <3>2, RunShape
  <2>4. ~ Sound(x)
    BY <1>3, <1>6, <1>8 DEF Waits
  <2> QED
    BY <1>1, <2>1, <2>2, <2>3, <2>4, LocalStep DEF x
<1>9. CASE c \in Co /\ z.at[c] = "start" /\ Become(s, Run(z, c))
  <2> DEFINE y == Run(z, c)
  <2>1. /\ y \in LuaType /\ Alike(z, y) /\ y.id_co = z.id_co
        /\ y.at = [z.at EXCEPT ![c] = "run"] /\ y.run = c /\ y.mode = "run"
        /\ y.wakeup = z.wakeup /\ y.error = z.error /\ y.sleep = z.sleep
        /\ y.current = z.current /\ y.ref = z.ref /\ y.watching = z.watching
    BY <1>3, <1>9, RunIs
  <2>2. Become(s, y)
    BY <1>9
  <2> HIDE DEF y
  <2>3. Shape(s, y)
    <3>1. Alike(x, y) /\ y.at = [x.at EXCEPT ![c] = "run"]
      BY <1>3, <2>1 DEF Alike
    <3>2. GoesOn(x, y, c)
      BY <2>1, <3>1 DEF GoesOn
    <3> QED
      BY <1>1, <1>9, <2>1, <3>1, <3>2, RunShape
  <2>4. ASSUME Sound(x) PROVE Sound(y)
    <3>1. /\ y.id_co = [x.id_co EXCEPT ![k] = Nil] /\ y.at = [x.at EXCEPT ![c] = "run"]
          /\ y.session = x.session /\ y.fork = x.fork /\ y.threads = x.threads
          /\ y.wakeup = x.wakeup /\ y.error = x.error /\ y.sleep = x.sleep
          /\ y.current = x.current /\ y.ref = x.ref /\ y.watching = x.watching
          /\ x.at[c] = "start" /\ "start" \notin Waits /\ x.id_co[k] = c
      BY <1>3, <1>9, <2>1 DEF Alike, Waits, c
    <3>2. Resumes(x, y, c, k)
      BY <1>1, <1>6, <1>9, <2>1, <2>4, <3>1 DEF Resumes, Waits
    <3> QED
      BY <1>1, <2>1, <2>4, <3>2, <1>9, ResumeSound
  <2> QED
    BY <1>1, <2>1, <2>2, <2>3, <2>4, LocalStep DEF x
<1>10. CASE c \in Co /\ z.at[c] = "sleep" /\ Become(s, Awake(z, c))
  <2> DEFINE y == Awake(z, c)
  <2>1. /\ y \in LuaType /\ Alike(z, y) /\ y.id_co = z.id_co
        /\ y.at = [z.at EXCEPT ![c] = "run"] /\ y.run = c /\ y.mode = "run"
        /\ y.wakeup = z.wakeup /\ y.error = z.error
        /\ y.sleep = [z.sleep EXCEPT ![c] = Nil]
        /\ y.current = z.current /\ y.ref = z.ref /\ y.watching = z.watching
    BY <1>3, <1>10, AwakeIs DEF Awoken
  <2>2. Become(s, y)
    BY <1>10
  <2> HIDE DEF y
  <2>3. Shape(s, y)
    <3>1. Alike(x, y) /\ y.at = [x.at EXCEPT ![c] = "run"]
      BY <1>3, <2>1 DEF Alike
    <3>2. GoesOn(x, y, c)
      BY <2>1, <3>1 DEF GoesOn
    <3> QED
      BY <1>1, <1>10, <2>1, <3>1, <3>2, RunShape
  <2>4. ASSUME Sound(x) PROVE Sound(y)
    <3>1. /\ y.id_co = [x.id_co EXCEPT ![k] = Nil] /\ y.at = [x.at EXCEPT ![c] = "run"]
          /\ y.session = x.session /\ y.fork = x.fork /\ y.threads = x.threads
          /\ y.wakeup = x.wakeup /\ y.error = x.error
          /\ y.sleep = [x.sleep EXCEPT ![c] = Nil]
          /\ y.current = x.current /\ y.ref = x.ref /\ y.watching = x.watching
          /\ x.at[c] = "sleep" /\ "sleep" \in Waits /\ x.id_co[k] = c
      BY <1>3, <1>10, <2>1 DEF Alike, Waits, c
    <3>2. Resumes(x, y, c, k)
      BY <1>1, <1>6, <1>10, <2>1, <2>4, <3>1 DEF Resumes, Waits
    <3> QED
      BY <1>1, <2>1, <2>4, <3>2, <1>10, ResumeSound
  <2> QED
    BY <1>1, <2>1, <2>2, <2>3, <2>4, LocalStep DEF x
<1>11. CASE c \in Co /\ z.at[c] = "call" /\ Become(s, [Run(z, c) EXCEPT !.watching[k] = None])
  <2> DEFINE y == [Run(z, c) EXCEPT !.watching[k] = None]
  <2>1. /\ y \in LuaType /\ Alike(z, y) /\ y.id_co = z.id_co
        /\ y.at = [z.at EXCEPT ![c] = "run"] /\ y.run = c /\ y.mode = "run"
        /\ y.wakeup = z.wakeup /\ y.error = z.error /\ y.sleep = z.sleep
        /\ y.current = z.current /\ y.ref = z.ref
        /\ y.watching = [z.watching EXCEPT ![k] = None]
    BY <1>3, <1>11, ReturnedIs
  <2>2. Become(s, y)
    BY <1>11
  <2> HIDE DEF y
  <2>3. Shape(s, y)
    <3>1. Alike(x, y) /\ y.at = [x.at EXCEPT ![c] = "run"]
      BY <1>3, <2>1 DEF Alike
    <3>2. GoesOn(x, y, c)
      BY <2>1, <3>1 DEF GoesOn
    <3> QED
      BY <1>1, <1>11, <2>1, <3>1, <3>2, RunShape
  <2>4. ASSUME Sound(x) PROVE Sound(y)
    <3>1. /\ y.id_co = [x.id_co EXCEPT ![k] = Nil] /\ y.at = [x.at EXCEPT ![c] = "run"]
          /\ y.session = x.session /\ y.fork = x.fork /\ y.threads = x.threads
          /\ y.wakeup = x.wakeup /\ y.error = x.error /\ y.sleep = x.sleep
          /\ y.current = x.current /\ y.ref = x.ref
          /\ y.watching = [x.watching EXCEPT ![k] = None]
          /\ x.at[c] = "call" /\ "call" \notin Waits /\ x.id_co[k] = c
      BY <1>3, <1>11, <2>1 DEF Alike, Waits, c
    <3>2. Resumes(x, y, c, k)
      BY <1>1, <1>6, <1>11, <2>1, <2>4, <3>1 DEF Resumes, Waits
    <3> QED
      BY <1>1, <2>1, <2>4, <3>2, <1>11, ResumeSound
  <2> QED
    BY <1>1, <2>1, <2>2, <2>3, <2>4, LocalStep DEF x
<1> QED
  BY <1>2, <1>7, <1>8, <1>9, <1>10, <1>11

\* A request gets a new coroutine.
LEMMA TakeRequestStep ==
  ASSUME SessionsInv, NEW s \in Service, Take(s), NEW m, m.k \in Session, m.from \in Service,
         TakeRequest(s, m)
  PROVE  SessionsInv'
<1> DEFINE x == lua[s]
           c == NewCo(x)
           r == Run(x, c)
           y == [r EXCEPT !.co_id[c] = m.k, !.address[c] = m.from]
<1>1. /\ x \in LuaType /\ Shape(s, x) /\ x.mode = "idle"
      /\ mail' \in [Service -> Seq(Messages)] /\ UNCHANGED <<life, timers>>
      /\ timers' \in [Service -> SUBSET Session]
  BY Here, TakeMail
<1>2. Become(s, y) /\ Free(x) # {}
  BY DEF TakeRequest
<1> HIDE DEF x
<1>3. c \in Co /\ x.at[c] = "free"
  BY <1>1, <1>2, NewCoIn
<1> HIDE DEF c
<1>4. /\ r \in LuaType /\ Alike(x, r) /\ r.id_co = x.id_co
      /\ r.at = [x.at EXCEPT ![c] = "run"] /\ r.run = c /\ r.mode = "run"
      /\ r.wakeup = x.wakeup /\ r.error = x.error /\ r.sleep = x.sleep
      /\ r.current = x.current /\ r.ref = x.ref /\ r.watching = x.watching
  BY <1>1, <1>3, RunIs
<1> HIDE DEF r
<1>5. /\ y \in LuaType /\ y.co_id = [r.co_id EXCEPT ![c] = m.k]
      /\ y.address = [r.address EXCEPT ![c] = m.from]
      /\ y.session = r.session /\ y.fork = r.fork /\ y.threads = r.threads
      /\ y.id_co = r.id_co /\ y.at = r.at /\ y.run = r.run /\ y.mode = r.mode
      /\ y.wakeup = r.wakeup /\ y.error = r.error /\ y.sleep = r.sleep
      /\ y.current = r.current /\ y.ref = r.ref /\ y.watching = r.watching
  BY <1>3, <1>4 DEF LuaType
<1> HIDE DEF y
<1>6. Shape(s, y)
  <2>1. Shape(s, r)
    <3>1. GoesOn(x, r, c)
      BY <1>4 DEF GoesOn
    <3> QED
      BY <1>1, <1>3, <1>4, <3>1, RunShape
  <2>2. \A b \in Co : y.co_id[b] # Nil => y.address[b] \in Service
    <3>1. /\ r.co_id \in [Co -> Session \cup {Nil}]
          /\ r.address \in [Co -> Service \cup {None}]
          /\ \A b \in Co : r.co_id[b] # Nil => r.address[b] \in Service
      BY <1>4, <2>1, Fields DEF Shape
    <3> HIDE DEF Nil
    <3> QED
      BY <1>3, <1>5, <3>1
  <2> QED
    BY <1>5, <2>1, <2>2 DEF Shape
<1>7. ASSUME Sound(x) PROVE Sound(y)
  <2>1. /\ y.session = x.session /\ y.fork = x.fork /\ y.threads = x.threads
        /\ y.at = [x.at EXCEPT ![c] = "run"] /\ y.run = c /\ y.mode = "run"
        /\ y.id_co = x.id_co /\ y.sleep = x.sleep /\ y.watching = x.watching
        /\ y.wakeup = x.wakeup /\ y.error = x.error
        /\ y.current = x.current /\ y.ref = x.ref
    BY <1>4, <1>5 DEF Alike
  <2>2. Once(y.fork) /\ \A b \in Co : Listed(y.fork, b) => Listed(x.fork, b) /\ b # c
    BY <1>1, <1>3, <1>7, <2>1 DEF Sound, Queues
  <2>3. x.mode # "run" /\ x.at[c] \in {"free", "fork"}
    BY <1>1, <1>3
  <2> QED
    BY <1>1, <1>3, <1>5, <1>7, <2>1, <2>2, <2>3, BeginSound
<1> QED
  BY <1>1, <1>2, <1>5, <1>6, <1>7, LocalStep DEF x

\* The errors that a message adds are of calls that wait for its source.
LEMMA ErrorSound ==
  ASSUME NEW x \in LuaType, NEW y \in LuaType, Sound(x), x.mode = "idle", y.mode = "chain",
         Once(y.error), \A j \in Session : Listed(y.error, j) => x.watching[j] # None,
         y.session = x.session, y.id_co = x.id_co, y.sleep = x.sleep, y.watching = x.watching,
         y.wakeup = x.wakeup, y.fork = x.fork, y.at = x.at, y.run = x.run,
         y.threads = x.threads, y.current = x.current, y.ref = x.ref
  PROVE  Sound(y)
<1>1. Parked(y) /\ Section(y)
  BY DEF Sound, Parked, Section
<1>2. Queues(y)
  BY DEF Sound, Queues
<1>3. Flow(y)
  BY DEF Sound, Flow
<1> QED
  BY <1>1, <1>2, <1>3 DEF Sound

\* An enumeration of a finite set of sessions names each once.
LEMMA Enumeration ==
  ASSUME NEW W, W \subseteq Session, NEW q \in [1 .. Cardinality(W) -> W],
         {q[i] : i \in DOMAIN q} = W
  PROVE  q \in Seq(Session) /\ Once(q) /\ \A j : Listed(q, j) => j \in W
<1> DEFINE n == Cardinality(W)
<1>1. IsFiniteSet(W) /\ n \in Nat
  BY SessionFinite, FS_Subset, FS_CardinalityType
<1>2. IsFiniteSet(1 .. n) /\ Cardinality(1 .. n) = n
  <2> HIDE DEF n
  <2>1. 1 \in Int /\ n \in Int /\ n >= 0
    BY <1>1
  <2>2. IsFiniteSet(1 .. n) /\ Cardinality(1 .. n) = IF 1 > n THEN 0 ELSE n - 1 + 1
    BY <2>1, FS_Interval
  <2> QED
    BY <2>1, <2>2
<1>3. q \in [1 .. n -> W] /\ \A t \in W : \E i \in 1 .. n : q[i] = t
  OBVIOUS
<1>4. Cardinality(1 .. n) = Cardinality(W)
  BY <1>2
<1> HIDE DEF n
<1>5. q \in Surjection(1 .. n, W)
  BY <1>3 DEF Surjection
<1>6. q \in Injection(1 .. n, W)
  BY <1>2, <1>4, <1>5, FS_SurjSameCardinalityImpliesInj
<1>7. DOMAIN q = 1 .. n /\ \A i, j \in 1 .. n : q[i] = q[j] => i = j
  BY <1>3, <1>6 DEF Injection, IsInjective
<1>8. q \in Seq(Session)
  BY <1>1, <1>3
<1> QED
  BY <1>3, <1>7, <1>8 DEF Once, Listed

\* An error reaches the call it is about, or every call of its source.
LEMMA TakeErrorStep ==
  ASSUME SessionsInv, NEW s \in Service, Take(s), NEW m, m.k \in Session \cup {0},
         m.from \in Service, TakeError(s, m)
  PROVE  SessionsInv'
<1> DEFINE x == lua[s]
<1>1. /\ x \in LuaType /\ Shape(s, x) /\ x.mode = "idle"
      /\ mail' \in [Service -> Seq(Messages)] /\ UNCHANGED <<life, timers>>
      /\ timers' \in [Service -> SUBSET Session]
  BY Here, TakeMail
<1>2. IF m.k # 0
      THEN Become(s, [x EXCEPT !.mode = "chain",
                               !.error = IF x.watching[m.k] # None THEN Append(@, m.k) ELSE @])
      ELSE \E q \in [1 .. Cardinality(Watched(s, x, m.from)) -> Watched(s, x, m.from)] :
             /\ {q[i] : i \in DOMAIN q} = Watched(s, x, m.from)
             /\ Become(s, [x EXCEPT !.mode = "chain", !.error = @ \o q,
                                    !.unresponse = {r \in @ : r.to # m.from}])
  BY DEF TakeError
<1> HIDE DEF x
<1>3. ASSUME NEW e \in Seq(Session), NEW u \in SUBSET [to : Service, k : Session],
             Become(s, [x EXCEPT !.mode = "chain", !.error = e, !.unresponse = u]),
             Sound(x) => Once(e) /\ \A j \in Session : Listed(e, j) => x.watching[j] # None
      PROVE  SessionsInv'
  <2> DEFINE y == [x EXCEPT !.mode = "chain", !.error = e, !.unresponse = u]
  <2>1. /\ y \in LuaType /\ y.mode = "chain" /\ y.error = e
        /\ y.session = x.session /\ y.id_co = x.id_co /\ y.sleep = x.sleep
        /\ y.watching = x.watching /\ y.wakeup = x.wakeup /\ y.fork = x.fork
        /\ y.at = x.at /\ y.run = x.run /\ y.threads = x.threads
        /\ y.current = x.current /\ y.ref = x.ref
        /\ y.co_id = x.co_id /\ y.address = x.address
    BY <1>1 DEF LuaType, Modes
  <2> HIDE DEF y
  <2>2. Shape(s, y)
    BY <1>1, <2>1 DEF Shape
  <2>3. Sound(x) => Sound(y)
    BY <1>1, <1>3, <2>1, ErrorSound
  <2> QED
    BY <1>1, <1>3, <2>1, <2>2, <2>3, LocalStep DEF x, y
<1>4. x.error \in Seq(Session) /\ x.unresponse \in SUBSET [to : Service, k : Session]
  BY <1>1, Fields
<1>5. Sound(x) => x.error = << >> /\ Queues(x)
  BY <1>1 DEF Sound, Flow
<1>6. CASE m.k # 0
  <2> DEFINE e == IF x.watching[m.k] # None THEN Append(x.error, m.k) ELSE x.error
  <2>1. Become(s, [x EXCEPT !.mode = "chain", !.error = e, !.unresponse = x.unresponse])
    <3>1. [x EXCEPT !.mode = "chain", !.error = e] =
            [x EXCEPT !.mode = "chain", !.error = e, !.unresponse = x.unresponse]
      BY <1>1 DEF LuaType
    <3> QED
      BY <1>2, <1>6, <3>1
  <2>2. m.k \in Session
    BY <1>6
  <2>3. /\ Append(x.error, m.k) \in Seq(Session)
        /\ \A d : Listed(Append(x.error, m.k), d) <=> Listed(x.error, d) \/ d = m.k
        /\ Once(x.error) /\ (~ Listed(x.error, m.k) \/ m.k = Nop) => Once(Append(x.error, m.k))
    BY <1>4, <2>2, QAppend
  <2>4. Sound(x) => Once(e) /\ \A j \in Session : Listed(e, j) => x.watching[j] # None
    BY <1>5, <2>3, QEmpty DEF Queues
  <2>5. e \in Seq(Session)
    BY <1>4, <2>3
  <2> HIDE DEF e
  <2> QED
    BY <1>3, <1>4, <2>1, <2>4, <2>5
<1>7. CASE m.k = 0
  <2> DEFINE W == Watched(s, x, m.from)
  <2>1. PICK q \in [1 .. Cardinality(W) -> W] :
             /\ {q[i] : i \in DOMAIN q} = W
             /\ Become(s, [x EXCEPT !.mode = "chain", !.error = @ \o q,
                                    !.unresponse = {r \in @ : r.to # m.from}])
    BY <1>2, <1>7
  <2>2. W \subseteq Session /\ \A j \in W : x.watching[j] # None
    BY Constants DEF Watched
  <2> HIDE DEF W
  <2>3. q \in Seq(Session) /\ Once(q) /\ \A j : Listed(q, j) => j \in W
    BY <2>1, <2>2, Enumeration
  <2> DEFINE e == x.error \o q
             u == {r \in x.unresponse : r.to # m.from}
  <2>4. e \in Seq(Session) /\ u \in SUBSET [to : Service, k : Session]
    BY <1>4, <2>3
  <2>5. Sound(x) => Once(e) /\ \A j \in Session : Listed(e, j) => x.watching[j] # None
    <3>1. << >> \o q = q
      BY <2>3
    <3> QED
      BY <1>5, <2>2, <2>3, <3>1
  <2>6. Become(s, [x EXCEPT !.mode = "chain", !.error = e, !.unresponse = u])
    BY <2>1
  <2> HIDE DEF e, u
  <2> QED
    BY <1>3, <2>4, <2>5, <2>6
<1> QED
  BY <1>6, <1>7

\* skynet.dispatch_message.
LEMMA TakeStep ==
  ASSUME SessionsInv, NEW s \in Service, Take(s)
  PROVE  SessionsInv'
<1> DEFINE m == Head(mail[s])
<1>1. m \in Messages
  BY TakeMail
<1>2. \/ m.t = "RESPONSE" /\ TakeResponse(s, m.k)
      \/ m.t = "REQUEST" /\ TakeRequest(s, m)
      \/ m.t = "ERROR" /\ TakeError(s, m)
  BY DEF Take
<1> HIDE DEF m
<1>3. /\ m.t # "ERROR" => m.k \in Session
      /\ m.t # "RESPONSE" => m.from \in Service
      /\ m.k \in Session \cup {0}
  BY <1>1 DEF Messages
<1> QED
  BY <1>2, <1>3, TakeResponseStep, TakeRequestStep, TakeErrorStep

\* The first of wakeup_queue waits, and sleep_session has its session.
LEMMA WakeupWaits ==
  ASSUME NEW x \in LuaType, Sound(x), x.wakeup # << >>
  PROVE  LET c == Head(x.wakeup)
         IN  /\ c \in Co /\ x.sleep[c] \in Session /\ x.id_co[x.sleep[c]] = c
             /\ x.at[c] \in {"sleep", "wait"} \/ (x.at[c] = "enter" /\ x.current = c /\ x.ref = 0)
             /\ Once(Tail(x.wakeup))
             /\ \A b : Listed(Tail(x.wakeup), b) <=> Listed(x.wakeup, b) /\ b # c
<1> DEFINE q == x.wakeup
<1>1. q \in Seq(Co) /\ Queues(x) /\ Parked(x) /\ Nop \notin Co /\ Once(q) /\ q # << >>
  BY Fields, Constants DEF Sound, Nop, Queues
<1>2. /\ Head(q) \in Co /\ Listed(q, Head(q))
      /\ \A d : Listed(Tail(q), d) => Listed(q, d)
      /\ \A d : Listed(q, d) /\ d # Head(q) => Listed(Tail(q), d)
      /\ Once(q) => Once(Tail(q)) /\ (Head(q) # Nop => ~ Listed(Tail(q), Head(q)))
  <2> HIDE DEF q
  <2> QED
    BY <1>1, QTail
<1> DEFINE c == Head(q)
<1>3. x.at[c] \in {"sleep", "wait"} \/ (x.at[c] = "enter" /\ x.current = c /\ x.ref = 0)
  <2>1. c \in Co /\ Listed(x.wakeup, c)
    BY <1>2
  <2> HIDE DEF c
  <2> QED
    BY <1>1, <2>1 DEF Queues
<1>4. x.sleep[c] \in Session /\ x.id_co[x.sleep[c]] = c
  <2>1. c \in Co
    BY <1>2
  <2>2. x.sleep[c] \in Session \cup {Nil}
    BY <2>1, Fields
  <2> HIDE DEF c
  <2> QED
    BY <1>1, <1>3, <2>1, <2>2 DEF Parked, Waits
<1>5. Once(Tail(q)) /\ \A b : Listed(Tail(q), b) <=> Listed(q, b) /\ b # c
  BY <1>1, <1>2
<1> QED
  BY <1>2, <1>3, <1>4, <1>5

\* The coroutine c that is taken from wakeup_queue and waits in session k is resumed.
LEMMA WakeupSound ==
  ASSUME NEW x \in LuaType, Sound(x), x.mode = "chain",
         NEW z \in LuaType, NEW c \in Co, NEW k \in Session, x.id_co[k] = c,
         x.at[c] \in {"sleep", "wait"} \/ (x.at[c] = "enter" /\ x.current = c /\ x.ref = 0),
         Alike(x, z), z.id_co = [x.id_co EXCEPT ![k] = Break],
         Once(z.wakeup), \A b : Listed(z.wakeup, b) <=> Listed(x.wakeup, b) /\ b # c,
         z.error = x.error, z.sleep = x.sleep, z.watching = x.watching, z.at = x.at,
         z.current = x.current, z.ref = x.ref, Woke(z, c, k) \in LuaType
  PROVE  Sound(Woke(z, c, k))
<1> DEFINE a == Awake(z, c)
<1>1. /\ a \in LuaType /\ Alike(z, a) /\ a.id_co = z.id_co
      /\ a.at = [z.at EXCEPT ![c] = "run"] /\ a.run = c /\ a.mode = "run"
      /\ a.wakeup = z.wakeup /\ a.error = z.error /\ a.sleep = [z.sleep EXCEPT ![c] = Nil]
      /\ a.current = z.current /\ a.ref = z.ref /\ a.watching = z.watching
  <2>1. Awoken(z, a, c)
    BY AwakeIs
  <2> QED
    BY <2>1 DEF Awoken
<1>4. ~ Listed(x.error, k) /\ Once(x.error)
  <2>1. Parked(x) /\ Queues(x)
    BY DEF Sound
  <2>2. x.watching[k] = None
    BY <2>1 DEF Parked
  <2> QED
    BY <2>1, <2>2 DEF Queues
<1>5. \A j : Listed(x.error, j) => Listed(x.error, j) /\ j # k
  BY <1>4
<1>6. \A v : [[x.id_co EXCEPT ![k] = Break] EXCEPT ![k] = v] = [x.id_co EXCEPT ![k] = v]
  BY Fields
<1> HIDE DEF a
<1>7. CASE x.at[c] = "sleep"
  <2>1. Woke(z, c, k) = a
    BY <1>7 DEF Woke, a
  <2>2. Resumes(x, a, c, k)
    BY <1>1, <1>4, <1>5, <1>7 DEF Resumes, Waits, Alike
  <2> QED
    BY <1>1, <2>1, <2>2, ResumeSound
<1>8. CASE x.at[c] = "wait"
  <2> DEFINE w == [a EXCEPT !.id_co[k] = Nil]
  <2>1. Woke(z, c, k) = w
    BY <1>8 DEF Woke, a
  <2>2. /\ w.id_co = [a.id_co EXCEPT ![k] = Nil] /\ w.session = a.session /\ w.fork = a.fork
        /\ w.threads = a.threads
        /\ w.at = a.at /\ w.run = a.run /\ w.mode = a.mode /\ w.wakeup = a.wakeup
        /\ w.error = a.error /\ w.sleep = a.sleep /\ w.current = a.current /\ w.ref = a.ref
        /\ w.watching = a.watching
    BY <1>1 DEF LuaType
  <2> HIDE DEF w
  <2>3. w.id_co = [x.id_co EXCEPT ![k] = Nil]
    BY <1>1, <1>6, <2>2
  <2>4. Resumes(x, w, c, k)
    BY <1>1, <1>4, <1>5, <1>8, <2>2, <2>3 DEF Resumes, Waits, Alike
  <2> QED
    BY <2>1, <2>4, ResumeSound
<1>9. CASE x.at[c] = "enter"
  <2> DEFINE w == [a EXCEPT !.id_co[k] = Nil, !.current = c, !.ref = 1]
  <2>1. Woke(z, c, k) = w
    BY <1>4, <1>9 DEF Woke, a
  <2>2. /\ w.id_co = [a.id_co EXCEPT ![k] = Nil] /\ w.session = a.session /\ w.fork = a.fork
        /\ w.threads = a.threads
        /\ w.at = a.at /\ w.run = a.run /\ w.mode = a.mode /\ w.wakeup = a.wakeup
        /\ w.error = a.error /\ w.sleep = a.sleep /\ w.current = c /\ w.ref = 1
        /\ w.watching = a.watching
    BY <1>1 DEF LuaType
  <2> HIDE DEF w
  <2>3. w.id_co = [x.id_co EXCEPT ![k] = Nil]
    BY <1>1, <1>6, <2>2
  <2>4. Resumes(x, w, c, k)
    BY <1>1, <1>4, <1>5, <1>9, <2>2, <2>3 DEF Resumes, Waits, Alike
  <2> QED
    BY <2>1, <2>4, ResumeSound
<1> QED
  BY <1>4, <1>7, <1>8, <1>9

\* The first of error_queue is a session whose call waits.
LEMMA ErrorWaits ==
  ASSUME NEW x \in LuaType, Sound(x), x.error # << >>
  PROVE  LET k == Head(x.error)
         IN  /\ x.id_co[k] \in Co /\ x.at[x.id_co[k]] = "call"
             /\ Once(Tail(x.error))
             /\ \A j : Listed(Tail(x.error), j) => Listed(x.error, j) /\ j # k
<1>1. x.error \in Seq(Session) /\ Queues(x) /\ Parked(x) /\ Nop \notin Session
  BY Fields, Constants DEF Sound, Nop
<1>2. /\ Head(x.error) \in Session /\ Listed(x.error, Head(x.error))
      /\ \A d : Listed(Tail(x.error), d) => Listed(x.error, d)
      /\ Once(x.error) => /\ Once(Tail(x.error))
                          /\ (Head(x.error) # Nop => ~ Listed(Tail(x.error), Head(x.error)))
  BY <1>1, QTail
<1>3. Once(x.error) /\ x.watching[Head(x.error)] # None
  BY <1>1, <1>2 DEF Queues
<1> QED
  BY <1>1, <1>2, <1>3 DEF Parked

\* dispatch_wakeup and dispatch_error_queue.
LEMMA ChainStep ==
  ASSUME SessionsInv, NEW s \in Service, Chain(s)
  PROVE  SessionsInv'
<1> DEFINE x == lua[s]
           c == Head(x.wakeup)
           k == x.sleep[c]
           y == [x EXCEPT !.wakeup = Tail(@)]
           z == [y EXCEPT !.id_co[k] = Break]
           j == Head(x.error)
           b == x.id_co[j]
           e == [x EXCEPT !.error = Tail(@), !.id_co[j] = Nil]
<1>1. /\ x \in LuaType /\ Shape(s, x) /\ Busy(x) /\ x.mode = "chain" /\ UNCHANGED life
      /\ mail' \in [Service -> Seq(Messages)] /\ timers' \in [Service -> SUBSET Session]
  BY Here DEF Chain, SessionsInv
<1>2. /\ x.wakeup # << >> /\ k = Nil => Become(s, y)
      /\ x.wakeup # << >> /\ k # Nil => Become(s, Woke(z, x.id_co[k], k))
      /\ x.wakeup = << >> /\ b \in Co /\ x.at[b] = "call"
           => Become(s, [Run(e, b) EXCEPT !.watching[j] = None])
      /\ x.wakeup = << >> /\ ~ (b \in Co /\ x.at[b] = "call") => Become(s, Woke(e, b, j))
  BY DEF Chain, Returned
<1> HIDE DEF x
<1>3. 1 \in Co
  BY Constants
<1>4. CASE x.wakeup # << >>
  <2>1. c \in Co /\ k \in Session \cup {Nil} /\ Tail(x.wakeup) \in Seq(Co)
    BY <1>1, <1>4, Fields
  <2>2. /\ y \in LuaType /\ Alike(x, y) /\ y.wakeup = Tail(x.wakeup) /\ y.id_co = x.id_co
        /\ y.error = x.error /\ y.sleep = x.sleep /\ y.watching = x.watching /\ y.at = x.at
        /\ y.run = x.run /\ y.mode = x.mode /\ y.current = x.current /\ y.ref = x.ref
    BY <1>1, <2>1 DEF LuaType, Alike
  <2>3. /\ Sound(x) => k # Nil /\ x.id_co[k] = c
        /\ Sound(x) => \/ x.at[c] \in {"sleep", "wait"}
                       \/ x.at[c] = "enter" /\ x.current = c /\ x.ref = 0
        /\ Sound(x) => /\ Once(Tail(x.wakeup))
                       /\ \A d : Listed(Tail(x.wakeup), d) <=> Listed(x.wakeup, d) /\ d # c
    BY <1>1, <1>4, WakeupWaits, Constants DEF Nil
  <2>4. CASE k = Nil
    <3> HIDE DEF y, k
    <3>1. Become(s, y) /\ ~ Sound(x)
      BY <1>2, <1>4, <2>3, <2>4
    <3>2. GoesOn(x, y, 1)
      BY <1>1, <2>2 DEF GoesOn
    <3>3. Shape(s, y)
      BY <1>1, <1>3, <2>2, <3>2, RunShape
    <3> QED
      BY <1>1, <2>2, <3>1, <3>3, LocalStep DEF x
  <2>5. CASE k # Nil
    <3>1. k \in Session
      BY <2>1, <2>5
    <3> DEFINE d == x.id_co[k]
    <3>2. d \in Co \cup {Nil, Break}
      BY <1>1, <3>1, Fields
    <3>3. Become(s, Woke(z, d, k))
      BY <1>2, <1>4, <2>5
    <3>4. Sound(x) => d = c
      BY <2>3
    <3> HIDE DEF c, k, y, d
    <3>6. /\ z \in LuaType /\ Alike(y, z) /\ z.wakeup = y.wakeup
          /\ z.id_co = [y.id_co EXCEPT ![k] = Break]
          /\ z.error = y.error /\ z.sleep = y.sleep /\ z.watching = y.watching /\ z.at = y.at
          /\ z.run = y.run /\ z.mode = y.mode /\ z.current = y.current /\ z.ref = y.ref
      BY <2>2, <3>1 DEF LuaType, Alike
    <3> HIDE DEF z
    <3>7. /\ Alike(x, z) /\ z.id_co = [x.id_co EXCEPT ![k] = Break]
          /\ z.wakeup = Tail(x.wakeup) /\ z.error = x.error /\ z.sleep = x.sleep
          /\ z.watching = x.watching /\ z.at = x.at /\ z.run = x.run /\ z.mode = x.mode
          /\ z.current = x.current /\ z.ref = x.ref
      BY <2>2, <3>6 DEF Alike
    <3>8. Shape(s, z)
      <4>1. GoesOn(x, z, 1)
        BY <1>1, <3>7 DEF GoesOn
      <4> QED
        BY <1>1, <1>3, <3>6, <3>7, <4>1, RunShape
    <3>9. Woke(z, d, k) \in LuaType /\ Shape(s, Woke(z, d, k))
      BY <1>1, <3>1, <3>2, <3>6, <3>7, <3>8, WokeShape
    <3>10. ASSUME Sound(x) PROVE Sound(Woke(z, d, k))
      <4>1. Woke(z, c, k) \in LuaType /\ d = c
        BY <3>4, <3>9, <3>10
      <4>2. Sound(Woke(z, c, k))
        BY <1>1, <2>1, <2>3, <3>1, <3>6, <3>7, <3>10, <4>1, WakeupSound
      <4> QED
        BY <4>1, <4>2
    <3> HIDE DEF Woke
    <3> QED
      BY <1>1, <3>3, <3>9, <3>10, LocalStep DEF x
  <2> QED
    BY <2>4, <2>5
<1>5. CASE x.wakeup = << >>
  <2>1. x.error # << >> /\ x.error \in Seq(Session)
    BY <1>1, <1>5, Fields DEF Busy
  <2>2. j \in Session /\ Tail(x.error) \in Seq(Session)
    BY <2>1
  <2>3. b \in Co \cup {Nil, Break}
    BY <1>1, <2>2, Fields
  <2>4. ASSUME Sound(x)
        PROVE  /\ b \in Co /\ x.at[b] = "call" /\ Once(Tail(x.error))
               /\ \A i : Listed(Tail(x.error), i) => Listed(x.error, i) /\ i # j
    BY <1>1, <2>1, <2>4, ErrorWaits
  <2>5. b = x.id_co[j]
    OBVIOUS
  <2> HIDE DEF j, b
  <2>6. /\ e \in LuaType /\ Alike(x, e) /\ e.wakeup = x.wakeup
        /\ e.id_co = [x.id_co EXCEPT ![j] = Nil] /\ e.error = Tail(x.error)
        /\ e.sleep = x.sleep /\ e.watching = x.watching /\ e.at = x.at
        /\ e.run = x.run /\ e.mode = x.mode /\ e.current = x.current /\ e.ref = x.ref
    BY <1>1, <2>2 DEF LuaType, Alike
  <2> HIDE DEF e
  <2>7. Shape(s, e)
    <3>1. GoesOn(x, e, 1)
      BY <1>1, <2>6 DEF GoesOn
    <3> QED
      BY <1>1, <1>3, <2>6, <3>1, RunShape
  <2>8. CASE b \in Co /\ x.at[b] = "call"
    <3> DEFINE w == [Run(e, b) EXCEPT !.watching[j] = None]
    <3>1. Become(s, w)
      BY <1>2, <1>5, <2>8
    <3>2. /\ w \in LuaType /\ Alike(e, w) /\ w.id_co = e.id_co
          /\ w.at = [e.at EXCEPT ![b] = "run"] /\ w.run = b /\ w.mode = "run"
          /\ w.wakeup = e.wakeup /\ w.error = e.error /\ w.sleep = e.sleep
          /\ w.current = e.current /\ w.ref = e.ref
          /\ w.watching = [e.watching EXCEPT ![j] = None]
      <4>1. e \in LuaType /\ b \in Co /\ j \in Session
        BY <2>2, <2>6, <2>8
      <4> QED
        BY <4>1, ReturnedIs
    <3> HIDE DEF w
    <3>3. Shape(s, w)
      <4>1. GoesOn(e, w, b)
        BY <3>2 DEF GoesOn
      <4> QED
        BY <1>1, <2>6, <2>7, <2>8, <3>2, <4>1, RunShape
    <3>4. ASSUME Sound(x) PROVE Sound(w)
      <4>1. Queues(x) /\ \A d : ~ Listed(x.wakeup, d)
        BY <1>5, <3>4, QEmpty DEF Sound
      <4>2. Once(x.wakeup)
        BY <4>1 DEF Queues
      <4>3. Resumes(x, w, b, j)
        BY <1>1, <2>4, <2>5, <2>6, <2>8, <3>2, <3>4, <4>1, <4>2 DEF Resumes, Waits, Alike
      <4> QED
        BY <1>1, <2>2, <2>8, <3>2, <3>4, <4>3, ResumeSound
    <3> QED
      BY <1>1, <3>1, <3>2, <3>3, <3>4, LocalStep DEF x
  <2>9. CASE ~ (b \in Co /\ x.at[b] = "call")
    <3>1. Become(s, Woke(e, b, j)) /\ ~ Sound(x)
      BY <1>2, <1>5, <2>4, <2>9
    <3>2. Woke(e, b, j) \in LuaType /\ Shape(s, Woke(e, b, j))
      BY <1>1, <2>2, <2>3, <2>6, <2>7, WokeShape
    <3> QED
      BY <1>1, <3>1, <3>2, LocalStep DEF x
  <2> QED
    BY <2>8, <2>9
<1> QED
  BY <1>4, <1>5

\* The loop over fork_queue.
LEMMA ForkLoopStep ==
  ASSUME SessionsInv, NEW s \in Service, ForkLoop(s)
  PROVE  SessionsInv'
<1> DEFINE x == lua[s]
           c == Head(x.fork)
           y == [x EXCEPT !.fork = Tail(@)]
<1>1. /\ x \in LuaType /\ Shape(s, x) /\ Busy(x) /\ x.mode = "fork" /\ UNCHANGED life
      /\ mail' \in [Service -> Seq(Messages)] /\ timers' \in [Service -> SUBSET Session]
  BY Here DEF ForkLoop, SessionsInv
<1>2. Become(s, IF c = Nop THEN [y EXCEPT !.mode = "chain"] ELSE Run(y, c))
  BY DEF ForkLoop
<1> HIDE DEF x
<1>3. x.fork # << >> /\ x.fork \in Seq(Co \cup {Nop}) /\ 1 \in Co /\ Nop \notin Co
  BY <1>1, Fields, Constants DEF Busy, Nop
<1>4. /\ c \in Co \cup {Nop} /\ Tail(x.fork) \in Seq(Co \cup {Nop}) /\ Listed(x.fork, c)
      /\ \A d : Listed(Tail(x.fork), d) => Listed(x.fork, d)
      /\ \A d : Listed(x.fork, d) /\ d # c => Listed(Tail(x.fork), d)
      /\ Once(x.fork) => Once(Tail(x.fork)) /\ (c # Nop => ~ Listed(Tail(x.fork), c))
  BY <1>3, QTail
<1>5. /\ y \in LuaType /\ y.fork = Tail(x.fork)
      /\ y.session = x.session /\ y.co_id = x.co_id /\ y.address = x.address
      /\ y.id_co = x.id_co /\ y.wakeup = x.wakeup /\ y.threads = x.threads
      /\ y.error = x.error /\ y.sleep = x.sleep /\ y.watching = x.watching /\ y.at = x.at
      /\ y.run = x.run /\ y.mode = x.mode /\ y.current = x.current /\ y.ref = x.ref
  BY <1>1, <1>4 DEF LuaType
<1> HIDE DEF c, y
<1>6. Shape(s, y)
  BY <1>1, <1>5 DEF Shape
<1>7. CASE c = Nop
  <2> DEFINE w == [y EXCEPT !.mode = "chain"]
  <2>1. /\ w \in LuaType /\ Alike(y, w) /\ w.fork = y.fork
        /\ w.id_co = y.id_co /\ w.wakeup = y.wakeup /\ w.threads = y.threads
        /\ w.error = y.error /\ w.sleep = y.sleep /\ w.watching = y.watching /\ w.at = y.at
        /\ w.run = y.run /\ w.mode = "chain" /\ w.current = y.current /\ w.ref = y.ref
    BY <1>5 DEF LuaType, Modes, Alike
  <2>2. Become(s, w)
    BY <1>2, <1>7
  <2> HIDE DEF w
  <2>3. Shape(s, w)
    <3>1. GoesOn(y, w, 1)
      BY <2>1 DEF GoesOn
    <3> QED
      BY <1>1, <1>3, <1>5, <1>6, <2>1, <3>1, RunShape
  <2>4. ASSUME Sound(x) PROVE Sound(w)
    <3>1. Parked(x) /\ Queues(x) /\ Section(x)
      BY <2>4 DEF Sound
    <3>2. Parked(w) /\ Section(w)
      BY <1>5, <2>1, <3>1 DEF Parked, Section, Alike
    <3>3. Queues(w)
      BY <1>4, <1>5, <2>1, <3>1 DEF Queues
    <3>4. Flow(w)
      BY <2>1 DEF Flow
    <3> QED
      BY <3>2, <3>3, <3>4 DEF Sound
  <2> QED
    BY <1>1, <2>1, <2>2, <2>3, <2>4, LocalStep DEF x
<1>8. CASE c # Nop
  <2> DEFINE w == Run(y, c)
  <2>0. c \in Co
    BY <1>4, <1>8
  <2>1. /\ w \in LuaType /\ Alike(y, w) /\ w.id_co = y.id_co
        /\ w.at = [y.at EXCEPT ![c] = "run"] /\ w.run = c /\ w.mode = "run"
        /\ w.wakeup = y.wakeup /\ w.error = y.error /\ w.sleep = y.sleep
        /\ w.current = y.current /\ w.ref = y.ref /\ w.watching = y.watching
    BY <1>5, <2>0, RunIs
  <2>2. Become(s, w)
    BY <1>2, <1>8
  <2> HIDE DEF w
  <2>3. Shape(s, w)
    <3>1. GoesOn(y, w, c)
      BY <2>1 DEF GoesOn
    <3> QED
      BY <1>1, <1>5, <1>6, <2>0, <2>1, <3>1, RunShape
  <2>4. ASSUME Sound(x) PROVE Sound(w)
    <3>1. Queues(x)
      BY <2>4 DEF Sound
    <3>2. /\ w.session = x.session /\ w.threads = x.threads /\ w.fork = Tail(x.fork)
          /\ w.at = [x.at EXCEPT ![c] = "run"] /\ w.run = c /\ w.mode = "run"
          /\ w.id_co = x.id_co /\ w.sleep = x.sleep /\ w.watching = x.watching
          /\ w.wakeup = x.wakeup /\ w.error = x.error
          /\ w.current = x.current /\ w.ref = x.ref
      BY <1>5, <2>1 DEF Alike
    <3>3. Once(w.fork) /\ \A b \in Co : Listed(w.fork, b) => Listed(x.fork, b) /\ b # c
      BY <1>4, <1>8, <3>1, <3>2 DEF Queues
    <3>4. x.mode # "run" /\ x.at[c] \in {"free", "fork"}
      BY <1>1, <1>4, <2>0, <3>1 DEF Queues
    <3> QED
      BY <1>1, <2>0, <2>1, <2>4, <3>2, <3>3, <3>4, BeginSound
  <2> QED
    BY <1>1, <2>1, <2>2, <2>3, <2>4, LocalStep DEF x
<1> QED
  BY <1>7, <1>8

-----------------------------------------------------------------------------
(* The theorems                                                             *)

\* A new service: only the main function waits, in session 1.
LEMMA NewSound == Sound(New) /\ Busy(New) /\ \A s \in Service : Shape(s, New)
<1> DEFINE x == New
<1>1. /\ x \in LuaType /\ x.session = 1 /\ x.run = Nil /\ x.mode = "idle"
      /\ \A k \in Session : x.id_co[k] = IF k = 1 THEN 1 ELSE Nil
      /\ \A c \in Co : x.at[c] = IF c = 1 THEN "start" ELSE "free"
      /\ \A c \in Co : x.co_id[c] = Nil /\ x.sleep[c] = Nil
      /\ \A k \in Session : x.watching[k] = None
      /\ x.wakeup = << >> /\ x.error = << >> /\ x.fork = << >> /\ x.threads = << >>
      /\ x.current = Nil /\ x.ref = 0
  BY NewIs
<1>2. /\ Co \subseteq Nat \ {0} /\ 1 \in Co /\ Session \subseteq Nat \ {0}
      /\ \A s \in Service : MaxSession[s] \in Nat \ {0}
  BY Constants
<1> HIDE DEF x
<1>3. Parked(x)
  BY <1>1, <1>2 DEF Parked, Waits, Nil
<1>4. Queues(x) /\ Section(x) /\ Flow(x) /\ Busy(x)
  BY <1>1, QEmpty DEF Queues, Section, Flow, Busy, Waits
<1>5. \A s \in Service : Shape(s, x)
  <2> TAKE s \in Service
  <2>1. x.session \in 1 .. MaxSession[s]
    BY <1>1, <1>2
  <2>2. /\ x.run # Nil <=> x.mode \in {"run", "dead"}
        /\ \A c \in Co : x.at[c] # "run" /\ x.co_id[c] = Nil
    BY <1>1
  <2> QED
    BY <2>1, <2>2 DEF Shape
<1> QED
  BY <1>3, <1>4, <1>5 DEF Sound, x

LEMMA SessionsInit == Init => SessionsInv
<1> SUFFICES ASSUME Init PROVE SessionsInv
  OBVIOUS
<1>1. New \in LuaType /\ Sound(New) /\ Busy(New) /\ \A s \in Service : Shape(s, New)
  BY NewIs, NewSound
<1>2. \A s \in Service : 1 \in Session
  BY Constants
<1>3. /\ lua = [s \in Service |-> New] /\ mail = [s \in Service |-> << >>]
      /\ life = [s \in Service |-> "up"] /\ timers = [s \in Service |-> {1}]
  BY DEF Init
<1>4. /\ mail \in [Service -> Seq(Messages)] /\ timers \in [Service -> SUBSET Session]
      /\ life \in [Service -> {"up", "exited", "freed"}] /\ lua \in [Service -> LuaType]
  BY <1>1, <1>2, <1>3
<1>5. \A s \in Service : lua[s] = New
  BY <1>3
<1> QED
  BY <1>1, <1>4, <1>5, Zenon DEF SessionsInv

LEMMA SessionsNext == SessionsInv /\ [Next]_vars => SessionsInv'
<1> SUFFICES ASSUME SessionsInv, [Next]_vars PROVE SessionsInv'
  OBVIOUS
<1>1. CASE UNCHANGED vars
  BY <1>1 DEF vars, SessionsInv
<1>2. CASE Next
  <2>1. PICK s \in Service :
          \/ Api(s) \/ Raise(s)
          \/ Take(s) \/ Chain(s) \/ ForkLoop(s) \/ Release(s) \/ Drop(s)
          \/ \E k \in Session : Timer(s, k)
    BY <1>2 DEF Next
  <2>2. CASE Api(s)
    BY <2>2, CallStep, SleepStep, WakeupStep, ForkStep, RetStep, RespondStep, EnterStep,
       LeaveStep, ReturnStep, ExitStep DEF Api
  <2> QED
    BY <2>1, <2>2, RaiseStep, TakeStep, ChainStep, ForkLoopStep, ReleaseStep, DropStep, TimerStep
<1> QED
  BY <1>1, <1>2

\* The tables of skynet.lua fit together in every reachable state: sessions,
\* sleepers, queues and the critical section of every service that is up, and
\* the types of every service and message (New, Settle and every action).
THEOREM SessionsSafe == Spec => []SessionsInv
  BY SessionsInit, SessionsNext, PTL DEF Spec

\* NothingLeft, for any number of services, coroutines and sessions: a callback
\* of skynet.lua ends only when no wakeup, error or fork waits, however many
\* coroutines raised errors in it (suspend, dispatch_message).
THEOREM NothingIsLeft == Spec => []NothingLeft
<1>1. SessionsInv => NothingLeft
  BY DEF SessionsInv, Sound, Flow, NothingLeft
<1> QED
  BY <1>1, SessionsSafe, PTL

\* Resumable, for any number of services, coroutines and sessions: what
\* dispatch_wakeup and dispatch_error_queue take from their queues is a
\* coroutine that waits, so no resume of theirs fails.
THEOREM AlwaysResumable == Spec => []Resumable
<1>1. ASSUME SessionsInv PROVE Resumable
  <2>1. \A s \in Service :
          /\ life[s] \in {"up", "exited", "freed"} /\ timers[s] \subseteq Session
          /\ lua[s] \in LuaType /\ Shape(s, lua[s]) /\ (life[s] = "up" => Sound(lua[s]))
    BY <1>1 DEF SessionsInv
  <2>2. TypeOK
    BY <2>1, Fields DEF TypeOK, Shape, Modes
  <2>3. ASSUME NEW s \in Service, life[s] = "up"
        PROVE  /\ lua[s].mode # "dead"
               /\ \A c \in Co : lua[s].sleep[c] # Nil
                    => /\ lua[s].id_co[lua[s].sleep[c]] = c
                       /\ lua[s].at[c] \in {"sleep", "wait", "enter"}
               /\ \A i \in DOMAIN lua[s].error : lua[s].id_co[lua[s].error[i]] \in Co
    <3> DEFINE x == lua[s]
    <3>1. x \in LuaType /\ Parked(x) /\ Queues(x) /\ Flow(x)
      BY <2>1, <2>3 DEF Sound
    <3> HIDE DEF x
    <3>2. \A i \in DOMAIN x.error : x.error[i] \in Session /\ Listed(x.error, x.error[i])
      BY <3>1, Fields DEF Listed
    <3>3. \A i \in DOMAIN x.error : x.id_co[x.error[i]] \in Co
      BY <3>1, <3>2 DEF Parked, Queues
    <3>4. /\ x.mode # "dead"
          /\ \A c \in Co : x.sleep[c] # Nil => /\ x.id_co[x.sleep[c]] = c
                                              /\ x.at[c] \in {"sleep", "wait", "enter"}
      BY <3>1 DEF Flow, Parked, Waits
    <3> QED
      BY <3>3, <3>4 DEF x
  <2> QED
    BY <2>2, <2>3 DEF Resumable
<1> QED
  BY <1>1, SessionsSafe, PTL

\* Handover, for any number of threads: skynet.queue never loses a thread that
\* waits for the critical section, and never gives it to one that is not woken
\* (xpcall_ret, and the assertion after skynet.wait).
THEOREM SectionHandedOver == Spec => []Handover
<1>1. SessionsInv => Handover
  <2> SUFFICES ASSUME SessionsInv, NEW s \in Service, life[s] = "up"
               PROVE  LET x == lua[s]
                          queued(c) == \E i \in DOMAIN x.threads : x.threads[i] = c
                          woken(c) == \E i \in DOMAIN x.wakeup : x.wakeup[i] = c
                      IN  /\ x.current # Nil /\ x.ref = 0
                               => x.at[x.current] = "enter" /\ woken(x.current)
                          /\ x.current # Nil => x.at[x.current] # "free"
                          /\ \A c \in Co : x.at[c] = "enter" => queued(c) \/ x.current = c
                          /\ x.threads # << >> => x.current # Nil
    BY DEF Handover
  <2> DEFINE x == lua[s]
  <2>1. x \in LuaType /\ Section(x)
    BY DEF SessionsInv, Sound
  <2> HIDE DEF x
  <2>2. x.ref \in Nat
    BY <2>1, Fields
  <2>3. /\ x.current # Nil /\ x.ref = 0 => x.at[x.current] = "enter" /\ Listed(x.wakeup, x.current)
        /\ x.current # Nil => x.at[x.current] # "free"
        /\ \A c \in Co : x.at[c] = "enter" => Listed(x.threads, c) \/ x.current = c
        /\ x.threads # << >> => x.current # Nil
    BY <2>1, <2>2 DEF Section
  <2> QED
    BY <2>3, Zenon DEF Listed, x
<1> QED
  BY <1>1, SessionsSafe, PTL

-------------------------------------------------------------------------------
(***************************************************************************)
(* A call returns what its callee answered to this very request, and no    *)
(* request is answered with a result and an error.  The invariant follows  *)
(* a request from the queue of the callee to the coroutine or the closure  *)
(* that owes the answer: it is in one of these places at most, and there   *)
(* only while it is not answered.  An answer in a queue was said, and what *)
(* it says is about the session it names.  Unlike SessionsInv this holds   *)
(* after skynet.exit too, where coroutines are closed and some are         *)
(* resumed in vain.                                                        *)
(***************************************************************************)


\* The parts of the invariant take the state as parameters: C is callee, A is
\* answers, L is life, q the queue of a service and x its Lua state.

\* Service d has answered session k of s.
Said(A, d, s, k, kind) == [to |-> s, k |-> k, kind |-> kind, from |-> d] \in A

\* d has the request of session k of s and has not answered it.
Open(C, A, d, s, k) ==
    C[s][k] = d /\ ~ Said(A, d, s, k, "RESPONSE") /\ ~ Said(A, d, s, k, "ERROR")

\* Session k of s fails rightly.
Broken(C, A, L, s, k) ==
    /\ C[s][k] # None
    /\ Said(A, C[s][k], s, k, "ERROR") \/ L[C[s][k]] # "up"

\* A coroutine that is to be resumed is resumed once, and is not one that may
\* be given away.
Placed(x) ==
    /\ x.mode = "run" => x.at[x.run] = "run"
    /\ x.mode = "dead" => /\ x.at[x.run] \notin {"free", "fork"}
                          /\ \A k \in Session : x.id_co[k] # x.run
    /\ \A k \in Session : x.id_co[k] \in Co =>
         k <= x.session /\ x.at[x.id_co[k]] \notin {"free", "fork", "run"}
    /\ \A j, k \in Session : x.id_co[j] \in Co /\ x.id_co[j] = x.id_co[k] => j = k
    /\ Once(x.fork) /\ \A c \in Co : Listed(x.fork, c) => x.at[c] = "fork"
    /\ \A c \in Co : x.at[c] \in {"free", "fork"} => x.co_id[c] = Nil

\* What s knows of its own calls; T is timers[s].
Calling(C, A, L, T, s, x) ==
    /\ L[s] = "freed" => x.mode = "idle"
    /\ \A k \in Session : C[s][k] # None /\ L[s] # "freed" => k <= x.session
    /\ \A k \in T : C[s][k] = None /\ k <= x.session
    /\ \A k \in Session : x.id_co[k] \in Co /\ x.at[x.id_co[k]] = "call" => C[s][k] # None
    /\ \A k \in Session : x.watching[k] # None => C[s][k] = x.watching[k]
    /\ \A k \in Session : Listed(x.error, k) => Broken(C, A, L, s, k)

\* A message in the queue of s, which has allocated n sessions.
Mailed(C, A, L, n, s, m) ==
    /\ m.t = "REQUEST" => Open(C, A, s, m.from, m.k)
    /\ m.t = "RESPONSE" /\ m.from = None => C[s][m.k] = None /\ (L[s] # "freed" => m.k <= n)
    /\ m.t = "RESPONSE" /\ m.from # None =>
         C[s][m.k] = m.from /\ Said(A, m.from, s, m.k, "RESPONSE")
    /\ m.t = "ERROR" /\ m.k # 0 => C[s][m.k] = m.from /\ Said(A, m.from, s, m.k, "ERROR")
    /\ m.t = "ERROR" /\ m.k = 0 => L[m.from] # "up"

Request(k, s) == Message("REQUEST", k, s)

\* No request is in a queue twice.
Single(q) == \A i, j \in DOMAIN q : q[i].t = "REQUEST" /\ q[i] = q[j] => i = j

\* Coroutine c of d owes an answer to session k of s.
Owes(C, A, q, d, x, c, s, k) ==
    /\ C[s][k] = d /\ ~ Said(A, d, s, k, "RESPONSE")
    /\ x.at[c] # "closed" => ~ Said(A, d, s, k, "ERROR")
    /\ [to |-> s, k |-> k] \notin x.unresponse
    /\ ~ Listed(q, Request(k, s))

\* The requests that coroutines and closures of d have to answer.
Owing(C, A, q, d, x) ==
    /\ \A c \in Co : x.co_id[c] # Nil => Owes(C, A, q, d, x, c, x.address[c], x.co_id[c])
    /\ \A b, c \in Co : x.co_id[b] # Nil /\ x.co_id[b] = x.co_id[c] /\ x.address[b] = x.address[c]
                        => b = c
    /\ \A r \in x.unresponse : Open(C, A, d, r.to, r.k) /\ ~ Listed(q, Request(r.k, r.to))

\* The history agrees: answers are of callees, once; outcomes are as answered.
Told(C, A, L, O) ==
    /\ A \subseteq [to : Service, k : Session, kind : {"RESPONSE", "ERROR"}, from : Service]
    /\ C \in [Service -> [Session -> Service \cup {None}]]
    /\ O \in [Service -> [Session -> {"-", "ok", "error"}]]
    /\ \A a \in A : C[a.to][a.k] = a.from
    /\ \A d, s \in Service, k \in Session :
         ~ (Said(A, d, s, k, "RESPONSE") /\ Said(A, d, s, k, "ERROR"))
    /\ \A s \in Service, k \in Session :
         /\ O[s][k] = "ok" => C[s][k] # None /\ Said(A, C[s][k], s, k, "RESPONSE")
         /\ O[s][k] = "error" => Broken(C, A, L, s, k)

AnswersInv ==
    /\ SessionsInv /\ Told(callee, answers, life, outcome)
    /\ \A s \in Service :
         /\ Placed(lua[s])
         /\ Calling(callee, answers, life, timers[s], s, lua[s])
         /\ Owing(callee, answers, mail[s], s, lua[s])
         /\ Single(mail[s])
         /\ \A i \in DOMAIN mail[s] :
              Mailed(callee, answers, life, lua[s].session, s, mail[s][i])

-----------------------------------------------------------------------------
(* A step of one service                                                    *)

\* z is y but for a loop that has ended.
Same(y, z) ==
    /\ z.session = y.session /\ z.id_co = y.id_co /\ z.co_id = y.co_id
    /\ z.address = y.address /\ z.unresponse = y.unresponse /\ z.error = y.error
    /\ z.fork = y.fork /\ z.watching = y.watching /\ z.at = y.at /\ z.run = y.run
    /\ z.mode = y.mode \/ z.mode \notin {"run", "dead"}
    /\ y.mode = "idle" => z.mode = "idle"

LEMMA SettleIs ==
  ASSUME NEW x \in LuaType
  PROVE  Same(x, Settle(x))
<1> DEFINE y == IF x.mode = "chain" /\ x.wakeup = << >> /\ x.error = << >>
                THEN [x EXCEPT !.mode = "fork"] ELSE x
           z == IF y.mode = "fork" /\ y.fork = << >> THEN [y EXCEPT !.mode = "idle"] ELSE y
<1>1. y \in LuaType /\ Same(x, y)
  BY DEF LuaType, Modes, Same
<1>2. Settle(x) = z
  BY DEF Settle
<1> HIDE DEF y
<1>3. Same(y, z)
  BY <1>1 DEF LuaType, Same
<1> HIDE DEF z
<1> QED
  BY <1>1, <1>2, <1>3 DEF Same

\* The Lua state of s becomes y, and the loop ends if there is nothing left.
LEMMA Becomes ==
  ASSUME SessionsInv, NEW s \in Service, NEW y \in LuaType, Become(s, y)
  PROVE  Same(y, lua'[s]) /\ \A u \in Service \ {s} : lua'[u] = lua[u]
<1>1. lua' = [lua EXCEPT ![s] = Settle(y)] /\ lua \in [Service -> LuaType]
  BY DEF Become, SessionsInv
<1> QED
  BY <1>1, SettleIs

\* What the invariant needs of a Lua state is not the mode of the loop.
LEMMA SameParts ==
  ASSUME NEW y, NEW z, Same(y, z), NEW C, NEW A, NEW L, NEW T, NEW q, NEW s
  PROVE  /\ Placed(y) => Placed(z)
         /\ Calling(C, A, L, T, s, y) => Calling(C, A, L, T, s, z)
         /\ Owing(C, A, q, s, y) => Owing(C, A, q, s, z)
<1>1. Placed(y) => Placed(z)
  BY DEF Same, Placed
<1>2. Calling(C, A, L, T, s, y) => Calling(C, A, L, T, s, z)
  BY DEF Same, Calling
<1>3. Owing(C, A, q, s, y) => Owing(C, A, q, s, z)
  BY DEF Same, Owing, Owes
<1> QED
  BY <1>1, <1>2, <1>3

\* What a step of s adds to the history: the answers N of s, the callee of a
\* new session of s, the end of s.
Adds(s, N) ==
    /\ \A u \in Service \ {s} : /\ lua'[u] = lua[u] /\ life'[u] = life[u]
                               /\ timers'[u] = timers[u]
    /\ life'[s] = "up" => life[s] = "up"
    /\ life[s] = "freed" => life'[s] = "freed"
    /\ life'[s] # "freed" => lua[s].session <= lua'[s].session
    /\ answers' = answers \cup N
    /\ N \subseteq [to : Service, k : Session, kind : {"RESPONSE", "ERROR"}, from : {s}]
    /\ callee' \in [Service -> [Session -> Service \cup {None}]]
    /\ \A u \in Service, k \in Session : callee'[u][k] # callee[u][k]
         => u = s /\ life[s] # "freed" /\ k > lua[s].session

\* What was known stays so.
LEMMA Stays ==
  ASSUME AnswersInv, NEW s \in Service, NEW N, Adds(s, N), NEW u \in Service, NEW k \in Session
  PROVE  /\ callee[u][k] \in Service \cup {None}
         /\ callee[u][k] # None => callee'[u][k] = callee[u][k]
         /\ \A d, kind : Said(answers, d, u, k, kind) => Said(answers', d, u, k, kind)
         /\ \A d, kind : d # s /\ Said(answers', d, u, k, kind) => Said(answers, d, u, k, kind)
         /\ \A d \in Service : life[d] # "up" => life'[d] # "up"
         /\ Broken(callee, answers, life, u, k) => Broken(callee', answers', life', u, k)
<1>1. callee[u][k] \in Service \cup {None}
  BY DEF AnswersInv, Told
<1>2. callee[u][k] # None => callee'[u][k] = callee[u][k]
  <2>1. ASSUME callee[u][k] # None, callee'[u][k] # callee[u][k] PROVE FALSE
    <3>1. u = s /\ life[s] # "freed" /\ k > lua[s].session
      BY <2>1 DEF Adds
    <3>2. k <= lua[s].session
      BY <2>1, <3>1 DEF AnswersInv, Calling
    <3>3. k \in Nat /\ lua[s].session \in Nat
      BY Constants, Here, Fields DEF AnswersInv
    <3> QED
      BY <3>1, <3>2, <3>3
  <2> QED
    BY <2>1
<1>3. \A d, kind : Said(answers, d, u, k, kind) => Said(answers', d, u, k, kind)
  BY DEF Adds, Said
<1>4. \A d, kind : d # s /\ Said(answers', d, u, k, kind) => Said(answers, d, u, k, kind)
  BY DEF Adds, Said
<1>5. \A d \in Service : life[d] # "up" => life'[d] # "up"
  BY DEF Adds
<1>6. Broken(callee, answers, life, u, k) => Broken(callee', answers', life', u, k)
  BY <1>1, <1>2, <1>3, <1>5 DEF Broken
<1> QED
  BY <1>1, <1>2, <1>3, <1>4, <1>5, <1>6

\* The answers N of s are of its own requests, and of one kind for each.
Rightly(s, N) ==
    /\ \A a \in N : callee[a.to][a.k] = s
    /\ \A a \in N : \A kind \in {"RESPONSE", "ERROR"} :
         Said(answers, s, a.to, a.k, kind) => a.kind = kind
    /\ \A a, b \in N : a.to = b.to /\ a.k = b.k => a.kind = b.kind

\* A call of s returned as it was answered, if one did.
Returns(s) ==
    /\ outcome' \in [Service -> [Session -> {"-", "ok", "error"}]]
    /\ \A u \in Service, k \in Session : outcome'[u][k] # outcome[u][k] =>
         \/ /\ outcome'[u][k] = "ok" /\ callee[u][k] # None
            /\ Said(answers, callee[u][k], u, k, "RESPONSE")
         \/ outcome'[u][k] = "error" /\ Broken(callee, answers, life, u, k)

\* The history goes on to agree.
LEMMA ToldStep ==
  ASSUME AnswersInv, NEW s \in Service, NEW N, Adds(s, N), Rightly(s, N), Returns(s)
  PROVE  Told(callee', answers', life', outcome')
<1> DEFINE Kinds == {"RESPONSE", "ERROR"}
<1>1. Told(callee, answers, life, outcome)
  BY DEF AnswersInv
<1>2. answers' \subseteq [to : Service, k : Session, kind : Kinds, from : Service]
  BY <1>1 DEF Told, Adds
<1>3. \A u \in Service, k \in Session : callee[u][k] # None => callee'[u][k] = callee[u][k]
  BY Stays
<1>4. ASSUME NEW a \in answers' PROVE callee'[a.to][a.k] = a.from
  <2>1. a.to \in Service /\ a.k \in Session /\ a.from \in Service
    BY <1>2
  <2>2. callee[a.to][a.k] = a.from
    BY <1>1 DEF Told, Rightly, Adds
  <2> QED
    BY <1>3, <2>1, <2>2, SessionsAssumption
<1>5. ASSUME NEW d \in Service, NEW u \in Service, NEW k \in Session,
             Said(answers', d, u, k, "RESPONSE"), Said(answers', d, u, k, "ERROR")
      PROVE  FALSE
  <2>1. ~ (Said(answers, d, u, k, "RESPONSE") /\ Said(answers, d, u, k, "ERROR"))
    BY <1>1 DEF Told
  <2>2. d = s
    BY <1>5, <2>1, Stays
  <2> DEFINE a == [to |-> u, k |-> k, kind |-> "RESPONSE", from |-> s]
             b == [to |-> u, k |-> k, kind |-> "ERROR", from |-> s]
  <2>3. /\ a \in answers \cup N /\ b \in answers \cup N
        /\ a \in answers <=> Said(answers, s, u, k, "RESPONSE")
        /\ b \in answers <=> Said(answers, s, u, k, "ERROR")
    BY <1>5, <2>2 DEF Said, Adds
  <2>4. /\ a.to = u /\ a.k = k /\ a.kind = "RESPONSE"
        /\ b.to = u /\ b.k = k /\ b.kind = "ERROR"
    OBVIOUS
  <2> HIDE DEF a, b
  <2>5. a \in answers => b \in N
    BY <2>1, <2>2, <2>3
  <2>6. b \in N => ~ Said(answers, s, u, k, "RESPONSE")
    BY <2>4 DEF Rightly
  <2>7. a \in N => ~ Said(answers, s, u, k, "ERROR")
    BY <2>4 DEF Rightly
  <2>8. ~ (a \in N /\ b \in N)
    BY <2>4 DEF Rightly
  <2> QED
    BY <2>3, <2>5, <2>6, <2>7, <2>8
<1>6. ASSUME NEW u \in Service, NEW k \in Session
      PROVE  /\ outcome'[u][k] = "ok" =>
                  callee'[u][k] # None /\ Said(answers', callee'[u][k], u, k, "RESPONSE")
             /\ outcome'[u][k] = "error" => Broken(callee', answers', life', u, k)
  <2>1. /\ outcome'[u][k] = "ok" =>
             callee[u][k] # None /\ Said(answers, callee[u][k], u, k, "RESPONSE")
        /\ outcome'[u][k] = "error" => Broken(callee, answers, life, u, k)
    BY <1>1 DEF Told, Returns
  <2>2. /\ callee[u][k] # None => callee'[u][k] = callee[u][k]
        /\ \A d, kind : Said(answers, d, u, k, kind) => Said(answers', d, u, k, kind)
        /\ Broken(callee, answers, life, u, k) => Broken(callee', answers', life', u, k)
    BY Stays
  <2> QED
    BY <2>1, <2>2
<1>7. /\ callee' \in [Service -> [Session -> Service \cup {None}]]
      /\ outcome' \in [Service -> [Session -> {"-", "ok", "error"}]]
  BY DEF Adds, Returns
<1> QED
  BY <1>2, <1>4, <1>5, <1>6, <1>7 DEF Told

\* Where a message of the queue of u comes from: it was there, or it is no
\* request and right, or it is the request of a new session.
Comes(u, m) ==
    \/ Listed(mail[u], m)
    \/ m.t # "REQUEST" /\ Mailed(callee', answers', life', lua'[u].session, u, m)
    \/ /\ m.t = "REQUEST" /\ callee[m.from][m.k] = None
       /\ Mailed(callee', answers', life', lua'[u].session, u, m)

\* None of the answers N is to a request that is still in queue q.
Unasked(q, N) == \A a \in N : ~ Listed(q, Request(a.k, a.to))

\* A message that stays in a queue stays right.
LEMMA MailStays ==
  ASSUME AnswersInv, SessionsInv', NEW s \in Service, NEW N, Adds(s, N), Unasked(mail[s], N),
         NEW u \in Service, NEW m, Listed(mail[u], m)
  PROVE  Mailed(callee', answers', life', lua'[u].session, u, m)
<1>1. m \in Messages /\ Mailed(callee, answers, life, lua[u].session, u, m)
  BY DEF AnswersInv, SessionsInv, Listed
<1>2. CASE m.t = "REQUEST"
  <2>1. m.from \in Service /\ m.k \in Session /\ Open(callee, answers, u, m.from, m.k)
    BY <1>1, <1>2 DEF Messages, Mailed
  <2>2. m = Request(m.k, m.from)
    BY <1>1, <1>2 DEF Messages, Request, Message
  <2>3. callee'[m.from][m.k] = u
    BY <2>1, Stays, SessionsAssumption DEF Open
  <2>4. ASSUME NEW kind \in {"RESPONSE", "ERROR"}, Said(answers', u, m.from, m.k, kind)
        PROVE  FALSE
    <3>1. ~ Said(answers, u, m.from, m.k, kind)
      BY <2>1 DEF Open
    <3>2. u = s
      BY <2>1, <2>4, <3>1, Stays
    <3> DEFINE a == [to |-> m.from, k |-> m.k, kind |-> kind, from |-> s]
    <3>3. a \in N /\ a.to = m.from /\ a.k = m.k
      BY <2>4, <3>1, <3>2 DEF Said, Adds
    <3> QED
      BY <2>2, <3>2, <3>3 DEF Unasked
  <2>5. Open(callee', answers', u, m.from, m.k)
    BY <2>3, <2>4 DEF Open
  <2> QED
    BY <1>2, <2>5 DEF Mailed
<1>3. CASE m.t # "REQUEST" /\ m.k # 0
  <2>1. m.k \in Session /\ m.t \in {"RESPONSE", "ERROR"} /\ m.from \in Service \cup {None}
    BY <1>1, <1>3 DEF Messages
  <2>2. /\ \A kind : Said(answers, m.from, u, m.k, kind) => Said(answers', m.from, u, m.k, kind)
        /\ callee[u][m.k] # None => callee'[u][m.k] = callee[u][m.k]
    BY <2>1, Stays
  <2>3. ASSUME m.t = "RESPONSE", m.from = None
        PROVE  callee'[u][m.k] = None /\ (life'[u] # "freed" => m.k <= lua'[u].session)
    <3>1. callee[u][m.k] = None /\ (life[u] # "freed" => m.k <= lua[u].session)
      BY <1>1, <2>3 DEF Mailed
    <3>2. life[u] = "freed" => life'[u] = "freed"
      BY DEF Adds
    <3>3. lua[u].session \in Nat /\ m.k \in Nat
      BY <2>1, Here, Fields, Constants DEF AnswersInv
    <3>4. /\ lua'[u].session \in Nat
          /\ life'[u] # "freed" => lua[u].session <= lua'[u].session
      <4>1. lua'[u].session \in Nat
        BY Fields DEF SessionsInv
      <4> QED
        BY <3>3, <4>1 DEF Adds
    <3>5. callee'[u][m.k] = callee[u][m.k]
      <4>1. ASSUME callee'[u][m.k] # callee[u][m.k]
            PROVE  u = s /\ life[s] # "freed" /\ m.k > lua[s].session
        BY <2>1, <4>1 DEF Adds
      <4> QED
        BY <3>1, <3>3, <4>1
    <3> QED
      BY <2>1, <3>1, <3>2, <3>3, <3>4, <3>5
  <2>4. ASSUME m.from # None
        PROVE  callee'[u][m.k] = m.from /\ Said(answers', m.from, u, m.k, m.t)
    BY <1>1, <1>3, <2>1, <2>2, <2>4 DEF Mailed
  <2>5. m.t = "ERROR" => m.from # None
    BY <1>1, SessionsAssumption DEF Messages
  <2> QED
    BY <1>3, <2>1, <2>3, <2>4, <2>5 DEF Mailed
<1>4. CASE m.t = "ERROR" /\ m.k = 0
  <2>1. m.from \in Service
    BY <1>1, <1>4, Constants DEF Messages
  <2>2. life'[m.from] # "up"
    BY <1>1, <1>4, <2>1 DEF Mailed, Adds
  <2> QED
    BY <1>4, <2>2 DEF Mailed
<1>5. m.t # "ERROR" => m.k # 0
  BY <1>1, Constants DEF Messages
<1>6. m.t \in {"REQUEST", "RESPONSE", "ERROR"}
  BY <1>1 DEF Messages
<1> QED
  BY <1>2, <1>3, <1>4, <1>5, <1>6

\* What s still owes after a step of it that adds answers N.
Remains(x, y, N) ==
    /\ \A c \in Co : y.co_id[c] # Nil =>
         /\ y.co_id[c] = x.co_id[c] /\ y.address[c] = x.address[c]
         /\ x.at[c] = "closed" => y.at[c] = "closed"
         /\ \A a \in N : a.to = y.address[c] /\ a.k = y.co_id[c]
                         => a.kind = "ERROR" /\ y.at[c] = "closed"
    /\ y.unresponse \subseteq x.unresponse
    /\ \A a \in N : [to |-> a.to, k |-> a.k] \notin y.unresponse

\* What s, or another service u, owes it has owed before.
LEMMA OwingStays ==
  ASSUME AnswersInv, NEW s \in Service, NEW N, Adds(s, N),
         NEW u \in Service, NEW y, Remains(lua[u], y, {a \in N : a.from = u}),
         \A i \in DOMAIN mail'[u] : Comes(u, mail'[u][i])
  PROVE  Owing(callee', answers', mail'[u], u, y)
<1> DEFINE x == lua[u]
           M == {a \in N : a.from = u}
<1>1. /\ x \in LuaType /\ Shape(u, x) /\ Owing(callee, answers, mail[u], u, x)
  BY Here DEF AnswersInv
<1>2. Remains(x, y, M)
  OBVIOUS
<1>3. \A a \in N : a.from = s
  BY DEF Adds
<1> HIDE DEF x
<1>4. ASSUME NEW v \in Service, NEW k \in Session, callee[v][k] = u
      PROVE  /\ callee'[v][k] = u
             /\ \A kind : Said(answers', u, v, k, kind) =>
                  \/ Said(answers, u, v, k, kind)
                  \/ \E a \in M : a.to = v /\ a.k = k /\ a.kind = kind
             /\ Listed(mail'[u], Request(k, v)) => Listed(mail[u], Request(k, v))
  <2>1. callee[v][k] # None
    BY <1>4, SessionsAssumption
  <2>2. callee'[v][k] = u
    BY <1>4, <2>1, Stays
  <2>3. ASSUME NEW kind, Said(answers', u, v, k, kind), ~ Said(answers, u, v, k, kind)
        PROVE  \E a \in M : a.to = v /\ a.k = k /\ a.kind = kind
    <3> DEFINE a == [to |-> v, k |-> k, kind |-> kind, from |-> u]
    <3>1. a \in N /\ a.to = v /\ a.k = k /\ a.kind = kind /\ a.from = u
      BY <2>3 DEF Said, Adds
    <3> QED
      BY <3>1
  <2> DEFINE m == Request(k, v)
  <2>4. m.t = "REQUEST" /\ m.k = k /\ m.from = v
    BY DEF Request, Message
  <2> HIDE DEF m
  <2>5. ASSUME Listed(mail'[u], m) PROVE Listed(mail[u], m)
    <3>1. Comes(u, m)
      BY <2>5 DEF Listed
    <3> QED
      BY <2>1, <2>4, <3>1 DEF Comes
  <2> QED
    BY <2>2, <2>3, <2>5 DEF m
<1> HIDE DEF M
<1>5. ASSUME NEW c \in Co, y.co_id[c] # Nil
      PROVE  Owes(callee', answers', mail'[u], u, y, c, y.address[c], y.co_id[c])
  <2> DEFINE v == y.address[c]
             k == y.co_id[c]
  <2>1. /\ v \in Service /\ k \in Session /\ v = x.address[c] /\ k = x.co_id[c]
        /\ Owes(callee, answers, mail[u], u, x, c, v, k)
    BY <1>1, <1>2, <1>5, Fields DEF Remains, Shape, Owing
  <2>2. /\ x.at[c] = "closed" => y.at[c] = "closed"
        /\ \A a \in M : a.to = v /\ a.k = k => a.kind = "ERROR" /\ y.at[c] = "closed"
        /\ y.unresponse \subseteq x.unresponse
    BY <1>2, <1>5 DEF Remains
  <2> HIDE DEF v, k
  <2>3. /\ callee'[v][k] = u
        /\ \A kind : Said(answers', u, v, k, kind) =>
             \/ Said(answers, u, v, k, kind)
             \/ \E a \in M : a.to = v /\ a.k = k /\ a.kind = kind
        /\ Listed(mail'[u], Request(k, v)) => Listed(mail[u], Request(k, v))
    BY <1>4, <2>1 DEF Owes
  <2>4. ~ Said(answers', u, v, k, "RESPONSE")
    BY <2>1, <2>2, <2>3 DEF Owes
  <2>5. y.at[c] # "closed" => ~ Said(answers', u, v, k, "ERROR")
    BY <2>1, <2>2, <2>3 DEF Owes
  <2>6. Owes(callee', answers', mail'[u], u, y, c, v, k)
    BY <2>1, <2>2, <2>3, <2>4, <2>5 DEF Owes
  <2> QED
    BY <2>6 DEF v, k
<1>6. ASSUME NEW r \in y.unresponse
      PROVE  Open(callee', answers', u, r.to, r.k) /\ ~ Listed(mail'[u], Request(r.k, r.to))
  <2>1. /\ r \in x.unresponse /\ r.to \in Service /\ r.k \in Session
        /\ r = [to |-> r.to, k |-> r.k]
    BY <1>1, <1>2, Fields DEF Remains
  <2>2. Open(callee, answers, u, r.to, r.k) /\ ~ Listed(mail[u], Request(r.k, r.to))
    BY <1>1, <2>1 DEF Owing
  <2>3. \A a \in M : ~ (a.to = r.to /\ a.k = r.k)
    BY <1>2, <2>1 DEF Remains
  <2> QED
    BY <1>4, <2>1, <2>2, <2>3 DEF Open
<1>7. \A b, c \in Co : y.co_id[b] # Nil /\ y.co_id[b] = y.co_id[c] /\ y.address[b] = y.address[c]
                       => b = c
  BY <1>1, <1>2 DEF Owing, Remains
<1> QED
  BY <1>5, <1>6, <1>7 DEF Owing

\* A step of s keeps the invariant if what s has and says is right.
LEMMA AnswersStep ==
  ASSUME AnswersInv, SessionsInv', NEW s \in Service, NEW N, Adds(s, N),
         Rightly(s, N), Returns(s), Unasked(mail[s], N),
         NEW y, Same(y, lua'[s]), Placed(y),
         Calling(callee', answers', life', timers'[s], s, y),
         Owing(callee', answers', mail'[s], s, y),
         \A u \in Service : Single(mail'[u]),
         \A u \in Service : \A i \in DOMAIN mail'[u] : Comes(u, mail'[u][i])
  PROVE  AnswersInv'
<1>1. \A u \in Service : /\ Placed(lua[u])
                        /\ Calling(callee, answers, life, timers[u], u, lua[u])
  BY DEF AnswersInv
<1>2. Told(callee', answers', life', outcome')
  BY ToldStep
<1>3. /\ Placed(lua'[s])
      /\ Calling(callee', answers', life', timers'[s], s, lua'[s])
      /\ Owing(callee', answers', mail'[s], s, lua'[s])
  BY SameParts
<1>4. ASSUME NEW u \in Service, u # s
      PROVE  /\ lua'[u] = lua[u] /\ life'[u] = life[u] /\ timers'[u] = timers[u]
             /\ \A k \in Session : callee'[u][k] = callee[u][k]
  BY <1>4 DEF Adds
<1>5. ASSUME NEW u \in Service, u # s
      PROVE  Calling(callee', answers', life', timers'[u], u, lua'[u])
  <2>1. \A k \in Session : Broken(callee, answers, life, u, k)
                           => Broken(callee', answers', life', u, k)
    BY Stays
  <2>2. timers[u] \subseteq Session
    BY DEF AnswersInv, SessionsInv
  <2> QED
    BY <1>1, <1>4, <1>5, <2>1, <2>2 DEF Calling
<1>6. ASSUME NEW u \in Service, u # s
      PROVE  Owing(callee', answers', mail'[u], u, lua'[u])
  <2>1. lua'[u] = lua[u]
    BY <1>4, <1>6
  <2>2. {a \in N : a.from = u} = {}
    BY <1>6 DEF Adds
  <2>3. Remains(lua[u], lua[u], {})
    BY DEF Remains
  <2> QED
    BY <2>1, <2>2, <2>3, OwingStays
<1>7. ASSUME NEW u \in Service, NEW i \in DOMAIN mail'[u]
      PROVE  Mailed(callee', answers', life', lua'[u].session, u, mail'[u][i])
  BY <1>7, MailStays DEF Comes
<1>8. ASSUME NEW u \in Service
      PROVE  /\ Placed(lua'[u])
             /\ Calling(callee', answers', life', timers'[u], u, lua'[u])
             /\ Owing(callee', answers', mail'[u], u, lua'[u])
  <2>1. CASE u = s
    BY <1>3, <2>1
  <2>2. CASE u # s
    BY <1>1, <1>4, <1>5, <1>6, <2>2
  <2> QED
    BY <2>1, <2>2
<1> HIDE DEF Placed, Calling, Owing, Mailed, Single, Told
<1> QED
  BY <1>2, <1>7, <1>8 DEF AnswersInv

\* The calls of y are calls of x, and sessions are not given back.
Calls0(x, y) ==
    /\ x.session <= y.session
    /\ \A k \in Session : y.id_co[k] \in Co /\ y.at[y.id_co[k]] = "call"
                          => x.id_co[k] \in Co /\ x.at[x.id_co[k]] = "call"
    /\ \A k \in Session : y.watching[k] # None => y.watching[k] = x.watching[k]

\* What s knows of its calls stays right if it makes no new call.
LEMMA CallingStays ==
  ASSUME AnswersInv, NEW s \in Service, NEW N, Adds(s, N), UNCHANGED callee,
         NEW y \in LuaType, Calls0(lua[s], y),
         life'[s] = "freed" => life[s] = "freed" /\ (lua[s].mode = "idle" => y.mode = "idle"),
         \A k \in timers'[s] : k \in timers[s] \/ (callee[s][k] = None /\ k <= y.session),
         \A k \in Session : Listed(y.error, k) =>
           Listed(lua[s].error, k) \/ Broken(callee, answers, life, s, k)
  PROVE  Calling(callee', answers', life', timers'[s], s, y)
<1> DEFINE x == lua[s]
<1>1. x \in LuaType /\ Calling(callee, answers, life, timers[s], s, x)
  BY Here DEF AnswersInv
<1>2. x.session \in Nat /\ y.session \in Nat /\ Session \subseteq Nat /\ timers[s] \subseteq Session
  BY <1>1, Fields, Constants DEF AnswersInv, SessionsInv
<1>3. Calls0(x, y)
  OBVIOUS
<1>4. /\ life'[s] = "freed" => life[s] = "freed" /\ (x.mode = "idle" => y.mode = "idle")
      /\ life[s] = "freed" => life'[s] = "freed"
      /\ \A k \in Session : Listed(y.error, k) =>
           Listed(x.error, k) \/ Broken(callee, answers, life, s, k)
  BY DEF Adds
<1> HIDE DEF x
<1>5. \A k \in Session : Listed(y.error, k) => Broken(callee', answers', life', s, k)
  BY <1>1, <1>4, Stays DEF Calling
<1>6. \A k \in timers'[s] : callee'[s][k] = None /\ k <= y.session
  <2> TAKE k \in timers'[s]
  <2>1. k \in timers[s] => callee[s][k] = None /\ k <= x.session /\ k \in Nat
    BY <1>1, <1>2 DEF Calling
  <2> QED
    BY <1>2, <1>3, <2>1 DEF Calls0
<1>7. /\ life'[s] = "freed" => y.mode = "idle"
      /\ \A k \in Session : callee'[s][k] # None /\ life'[s] # "freed" => k <= y.session
  BY <1>1, <1>2, <1>3, <1>4 DEF Calling, Calls0
<1>8. /\ \A k \in Session : y.id_co[k] \in Co /\ y.at[y.id_co[k]] = "call" => callee'[s][k] # None
      /\ \A k \in Session : y.watching[k] # None => callee'[s][k] = y.watching[k]
  BY <1>1, <1>3 DEF Calling, Calls0
<1> QED
  BY <1>5, <1>6, <1>7, <1>8 DEF Calling

-----------------------------------------------------------------------------
(* The queues                                                               *)

\* The first message is taken.
LEMMA SingleTail ==
  ASSUME NEW q \in Seq(Messages), q # << >>, Single(q)
  PROVE  /\ Single(Tail(q)) /\ Head(q) \in Messages /\ Listed(q, Head(q))
         /\ \A i \in DOMAIN Tail(q) : Listed(q, Tail(q)[i])
         /\ Head(q).t = "REQUEST" => ~ Listed(Tail(q), Head(q))
<1> DEFINE r == Tail(q)
<1>1. /\ DOMAIN r = 1 .. Len(q) - 1 /\ DOMAIN q = 1 .. Len(q)
      /\ Len(q) \in Nat \ {0} /\ Head(q) = q[1] /\ q[1] \in Messages
      /\ \A i \in 1 .. Len(q) - 1 : r[i] = q[i + 1]
  <2>1. Len(q) \in Nat \ {0} /\ DOMAIN q = 1 .. Len(q) /\ Head(q) = q[1] /\ q[1] \in Messages
    OBVIOUS
  <2>2. r \in Seq(Messages) /\ Len(r) = Len(q) - 1 /\ \A i \in 1 .. Len(q) - 1 : r[i] = q[i + 1]
    OBVIOUS
  <2>3. DOMAIN r = 1 .. Len(q) - 1
    BY <2>2
  <2> QED
    BY <2>1, <2>2, <2>3
<1> HIDE DEF r
<1>2. \A i \in 1 .. Len(q) - 1 : i + 1 \in 1 .. Len(q) /\ i + 1 # 1
  BY <1>1
<1>3. Single(r)
  <2> SUFFICES ASSUME NEW i \in DOMAIN r, NEW j \in DOMAIN r, r[i].t = "REQUEST", r[i] = r[j]
               PROVE  i = j
    BY DEF Single
  <2>1. q[i + 1] = q[j + 1] /\ q[i + 1].t = "REQUEST" /\ i + 1 \in DOMAIN q /\ j + 1 \in DOMAIN q
    BY <1>1, <1>2
  <2>2. i + 1 = j + 1
    BY <2>1 DEF Single
  <2> QED
    BY <1>1, <2>2
<1>4. \A i \in DOMAIN r : Listed(q, r[i])
  BY <1>1, <1>2 DEF Listed
<1>5. ASSUME q[1].t = "REQUEST", Listed(r, q[1]) PROVE FALSE
  <2>1. PICK i \in 1 .. Len(q) - 1 : q[i + 1] = q[1]
    BY <1>1, <1>5 DEF Listed
  <2>2. 1 \in DOMAIN q /\ i + 1 \in DOMAIN q /\ i + 1 # 1
    BY <1>1, <1>2
  <2> QED
    BY <1>5, <2>1, <2>2 DEF Single
<1>6. Listed(q, Head(q))
  BY <1>1 DEF Listed
<1> QED
  BY <1>1, <1>3, <1>4, <1>5, <1>6 DEF r

\* Messages are added; the requests among them are new.
LEMMA SingleConcat ==
  ASSUME NEW q \in Seq(Messages), NEW r \in Seq(Messages), Single(q), Single(r),
         \A i \in DOMAIN r : r[i].t = "REQUEST" => ~ Listed(q, r[i])
  PROVE  /\ Single(q \o r)
         /\ \A i \in DOMAIN (q \o r) : Listed(q, (q \o r)[i]) \/ Listed(r, (q \o r)[i])
<1> DEFINE p == q \o r
<1>1. /\ DOMAIN p = 1 .. Len(q) + Len(r) /\ Len(q) \in Nat /\ Len(r) \in Nat
      /\ DOMAIN q = 1 .. Len(q) /\ DOMAIN r = 1 .. Len(r)
  BY ConcatIs
<1>2. \A i \in DOMAIN p : \/ i \in DOMAIN q /\ p[i] = q[i]
                          \/ i - Len(q) \in DOMAIN r /\ p[i] = r[i - Len(q)]
  BY ConcatIs
<1> HIDE DEF p
<1>3. \A i \in DOMAIN p : Listed(q, p[i]) \/ Listed(r, p[i])
  BY <1>2 DEF Listed
<1>4. Single(p)
  <2> SUFFICES ASSUME NEW i \in DOMAIN p, NEW j \in DOMAIN p, p[i].t = "REQUEST", p[i] = p[j]
               PROVE  i = j
    BY DEF Single
  <2>1. CASE i \in DOMAIN q /\ p[i] = q[i] /\ j \in DOMAIN q /\ p[j] = q[j]
    BY <2>1 DEF Single
  <2>2. CASE /\ i - Len(q) \in DOMAIN r /\ p[i] = r[i - Len(q)]
             /\ j - Len(q) \in DOMAIN r /\ p[j] = r[j - Len(q)]
    <3>1. i - Len(q) = j - Len(q)
      BY <2>2 DEF Single
    <3> QED
      BY <1>1, <3>1
  <2>3. ASSUME NEW a \in DOMAIN q, NEW b \in DOMAIN r, q[a] = r[b], r[b].t = "REQUEST"
        PROVE  FALSE
    BY <2>3 DEF Listed
  <2> QED
    BY <1>2, <2>1, <2>2, <2>3
<1> QED
  BY <1>3, <1>4 DEF p

\* One that is no request is added.
LEMMA SingleAppend ==
  ASSUME NEW q \in Seq(Messages), NEW m \in Messages, Single(q), m.t # "REQUEST"
  PROVE  /\ Single(Append(q, m))
         /\ \A i \in DOMAIN Append(q, m) : Listed(q, Append(q, m)[i]) \/ Append(q, m)[i] = m
<1> DEFINE p == Append(q, m)
<1>1. /\ DOMAIN p = 1 .. Len(q) + 1 /\ Len(q) \in Nat /\ DOMAIN q = 1 .. Len(q)
      /\ p[Len(q) + 1] = m /\ \A i \in 1 .. Len(q) : p[i] = q[i]
  OBVIOUS
<1> HIDE DEF p
<1>2. \A i \in DOMAIN p : (i \in DOMAIN q /\ p[i] = q[i]) \/ (i = Len(q) + 1 /\ p[i] = m)
  BY <1>1
<1>3. \A i \in DOMAIN p : Listed(q, p[i]) \/ p[i] = m
  BY <1>2 DEF Listed
<1>4. Single(p)
  <2> SUFFICES ASSUME NEW i \in DOMAIN p, NEW j \in DOMAIN p, p[i].t = "REQUEST", p[i] = p[j]
               PROVE  i = j
    BY DEF Single
  <2> QED
    BY <1>2 DEF Single, Listed
<1> QED
  BY <1>3, <1>4 DEF p

\* Messages are taken or stay.
MailKept ==
    \A u \in Service : /\ Single(mail'[u])
                       /\ \A i \in DOMAIN mail'[u] : Listed(mail[u], mail'[u][i])

LEMMA MailSame ==
  ASSUME AnswersInv, UNCHANGED mail
  PROVE  MailKept
  BY DEF AnswersInv, MailKept, Listed

\* c.send of messages that are no requests.
LEMMA Sends ==
  ASSUME AnswersInv, NEW out \in [Service -> Seq(Messages)], Deliver(out),
         \A u \in Service : \A i \in DOMAIN out[u] : out[u][i].t # "REQUEST",
         NEW u \in Service
  PROVE  /\ Single(mail'[u])
         /\ \A i \in DOMAIN mail'[u] : \/ Listed(mail[u], mail'[u][i])
                                       \/ life[u] = "up" /\ Listed(out[u], mail'[u][i])
<1>1. mail[u] \in Seq(Messages) /\ out[u] \in Seq(Messages) /\ Single(mail[u])
  BY DEF AnswersInv, SessionsInv
<1>2. mail'[u] = IF life[u] = "up" THEN mail[u] \o out[u] ELSE mail[u]
  BY DEF Deliver
<1>3. \A i \in DOMAIN mail[u] : Listed(mail[u], mail[u][i])
  BY DEF Listed
<1>4. Single(out[u])
  BY DEF Single
<1> QED
  BY <1>1, <1>2, <1>3, <1>4, SingleConcat

\* One of them.
LEMMA SendsOne ==
  ASSUME AnswersInv, NEW d \in Service, NEW m \in Messages, m.t # "REQUEST", Deliver(To(d, m)),
         NEW u \in Service
  PROVE  /\ Single(mail'[u])
         /\ \A i \in DOMAIN mail'[u] : \/ Listed(mail[u], mail'[u][i])
                                       \/ u = d /\ life[u] = "up" /\ mail'[u][i] = m
<1> DEFINE out == To(d, m)
<1>1. /\ out \in [Service -> Seq(Messages)]
      /\ \A v \in Service : \A i \in DOMAIN out[v] : v = d /\ out[v][i] = m
  BY DEF To
<1> HIDE DEF out
<1>2. \A v : Listed(out[u], v) => u = d /\ v = m
  BY <1>1 DEF Listed
<1> QED
  BY <1>1, <1>2, Sends DEF out

\* No call returns.
LEMMA NoReturn ==
  ASSUME AnswersInv, UNCHANGED outcome, NEW s
  PROVE  Returns(s)
  BY DEF AnswersInv, Told, Returns

\* A step of a service that answers nothing and calls nobody.
LEMMA QuietStep ==
  ASSUME AnswersInv, SessionsInv', NEW s \in Service, NEW y \in LuaType, Become(s, y),
         UNCHANGED <<life, callee, answers>>, life[s] # "freed", MailKept, Returns(s),
         \A u \in Service \ {s} : timers'[u] = timers[u],
         \A k \in timers'[s] : k \in timers[s] \/ (callee[s][k] = None /\ k <= y.session),
         Placed(y), Calls0(lua[s], y),
         Remains(lua[s], y, {}) \/ Owing(callee, answers, mail'[s], s, y),
         \A k \in Session : Listed(y.error, k) =>
           Listed(lua[s].error, k) \/ Broken(callee, answers, life, s, k)
  PROVE  AnswersInv'
<1>1. Same(y, lua'[s]) /\ \A u \in Service \ {s} : lua'[u] = lua[u]
  BY Becomes DEF AnswersInv
<1>2. callee \in [Service -> [Session -> Service \cup {None}]]
  BY DEF AnswersInv, Told
<1>3. Adds(s, {})
  BY <1>1, <1>2 DEF Adds, Same, Calls0
<1>4. \A u \in Service : /\ Single(mail'[u])
                        /\ \A i \in DOMAIN mail'[u] : Comes(u, mail'[u][i])
  BY DEF MailKept, Comes
<1>5. Calling(callee', answers', life', timers'[s], s, y)
  BY <1>3, CallingStays
<1>6. Owing(callee', answers', mail'[s], s, y)
  <2>1. {a \in {} : a.from = s} = {}
    OBVIOUS
  <2>2. CASE Remains(lua[s], y, {})
    BY <1>3, <1>4, <2>1, <2>2, OwingStays
  <2>3. CASE Owing(callee, answers, mail'[s], s, y)
    BY <2>3
  <2> QED
    BY <2>2, <2>3
<1>7. Rightly(s, {}) /\ Unasked(mail[s], {})
  BY DEF Rightly, Unasked
<1> QED
  BY <1>1, <1>3, <1>4, <1>5, <1>6, <1>7, AnswersStep

-----------------------------------------------------------------------------
(* Turns of a coroutine                                                     *)

\* The requests of y are requests of x.
Requests(x, y) == y.co_id = x.co_id /\ y.address = x.address /\ y.unresponse = x.unresponse

\* The sessions of y that lead to coroutines are sessions of x.
Leads(x, y) == \A k \in Session : y.id_co[k] = x.id_co[k] \/ y.id_co[k] \notin Co

\* The coroutines in fork_queue were there.
Forked(x, y) == Once(y.fork) /\ \A c \in Co : Listed(y.fork, c) => Listed(x.fork, c)

\* No coroutine moves; sessions may be forgotten, requests answered.
LEMMA TurnSame ==
  ASSUME NEW x \in LuaType, NEW y \in LuaType, Placed(x), y.at = x.at, y.run = x.run,
         x.mode # "dead", y.mode = x.mode \/ y.mode \notin {"run", "dead"},
         Leads(x, y), Forked(x, y), x.session <= y.session,
         \A c \in Co : y.co_id[c] # Nil => y.co_id[c] = x.co_id[c]
  PROVE  /\ Placed(y) /\ (y.watching = x.watching => Calls0(x, y))
         /\ Requests(x, y) => Remains(x, y, {})
<1>1. x.session \in Nat /\ y.session \in Nat /\ Session \subseteq Nat
  BY Fields, Constants
<1>2. Placed(y)
  <2>1. y.mode # "dead" /\ (y.mode = "run" => y.at[y.run] = "run")
    BY DEF Placed
  <2>2. \A k \in Session : y.id_co[k] \in Co =>
          k <= y.session /\ y.at[y.id_co[k]] \notin {"free", "fork", "run"}
    BY <1>1 DEF Placed, Leads
  <2>3. \A j, k \in Session : y.id_co[j] \in Co /\ y.id_co[j] = y.id_co[k] => j = k
    BY DEF Placed, Leads
  <2>4. Once(y.fork) /\ \A c \in Co : Listed(y.fork, c) => y.at[c] = "fork"
    BY DEF Placed, Forked
  <2>5. \A c \in Co : y.at[c] \in {"free", "fork"} => y.co_id[c] = Nil
    BY DEF Placed
  <2> QED
    BY <2>1, <2>2, <2>3, <2>4, <2>5 DEF Placed
<1>3. y.watching = x.watching => Calls0(x, y)
  BY DEF Calls0, Leads
<1>4. Requests(x, y) => Remains(x, y, {})
  BY DEF Requests, Remains
<1> QED
  BY <1>2, <1>3, <1>4

\* The running coroutine waits in a new session.
LEMMA TurnPark ==
  ASSUME NEW x \in LuaType, NEW y \in LuaType, Placed(x), x.mode = "run", x.run \in Co,
         NEW k \in Session, k = x.session + 1, NEW place \in {"call"} \cup Waits,
         y.session = k, y.id_co = [x.id_co EXCEPT ![k] = x.run],
         y.at = [x.at EXCEPT ![x.run] = place], y.run = Nil, y.mode = "chain",
         y.fork = x.fork, Requests(x, y)
  PROVE  /\ Placed(y) /\ Remains(x, y, {})
         /\ y.watching = x.watching /\ place # "call" => Calls0(x, y)
<1> DEFINE c == x.run
<1>1. /\ \A j \in Session : y.id_co[j] = IF j = k THEN c ELSE x.id_co[j]
      /\ \A b \in Co : y.at[b] = IF b = c THEN place ELSE x.at[b]
      /\ place \notin {"free", "fork", "run", "closed"} /\ (place = "call" \/ place \in Waits)
      /\ x.session \in Nat /\ Session \subseteq Nat
  BY Fields, Constants DEF Waits
<1>2. x.at[c] = "run" /\ \A j \in Session : x.id_co[j] # c
  BY DEF Placed
<1>3. Placed(y)
  <2>1. \A j \in Session : y.id_co[j] \in Co =>
          j <= y.session /\ y.at[y.id_co[j]] \notin {"free", "fork", "run"}
    BY <1>1, <1>2 DEF Placed
  <2>2. \A i, j \in Session : y.id_co[i] \in Co /\ y.id_co[i] = y.id_co[j] => i = j
    BY <1>1, <1>2 DEF Placed
  <2>3. Once(y.fork) /\ \A b \in Co : Listed(y.fork, b) => y.at[b] = "fork"
    BY <1>1, <1>2 DEF Placed
  <2>4. \A b \in Co : y.at[b] \in {"free", "fork"} => y.co_id[b] = Nil
    BY <1>1, <1>2 DEF Placed, Requests
  <2> QED
    BY <2>1, <2>2, <2>3, <2>4 DEF Placed
<1>4. Remains(x, y, {})
  BY <1>1, <1>2 DEF Requests, Remains
<1>5. y.watching = x.watching /\ place # "call" => Calls0(x, y)
  BY <1>1, <1>2 DEF Calls0
<1> QED
  BY <1>3, <1>4, <1>5

\* A coroutine that waited goes on, or is closed and cannot.
LEMMA TurnResume ==
  ASSUME NEW x \in LuaType, NEW y \in LuaType, Placed(x), x.mode \notin {"run", "dead"},
         NEW c \in Co, x.at[c] \notin {"free", "fork"},
         Leads(x, y), \A k \in Session : y.id_co[k] # c,
         \/ x.at[c] # "closed" /\ y.at = [x.at EXCEPT ![c] = "run"] /\ y.mode = "run"
         \/ y.at = x.at /\ y.mode = "dead",
         y.run = c, y.session = x.session, y.fork = x.fork, Requests(x, y),
         \A k \in Session : y.watching[k] # None => y.watching[k] = x.watching[k]
  PROVE  Placed(y) /\ Calls0(x, y) /\ Remains(x, y, {})
<1>1. /\ \A b \in Co : y.at[b] = x.at[b] \/ (b = c /\ y.at[b] = "run" /\ x.at[c] # "closed")
      /\ y.mode = "run" => y.at[c] = "run"
      /\ y.at[c] \notin {"free", "fork"} /\ y.mode \in {"run", "dead"}
      /\ x.session \in Nat
  BY Fields
<1>2. Placed(y)
  BY <1>1 DEF Placed, Leads, Requests
<1>3. Calls0(x, y)
  <2>1. \A k \in Session : y.id_co[k] \in Co /\ y.at[y.id_co[k]] = "call"
                           => x.id_co[k] \in Co /\ x.at[x.id_co[k]] = "call"
    BY <1>1 DEF Leads
  <2> QED
    BY <1>1, <2>1 DEF Calls0
<1>4. Remains(x, y, {})
  BY <1>1 DEF Requests, Remains
<1> QED
  BY <1>2, <1>3, <1>4

\* A coroutine begins.
LEMMA TurnBegin ==
  ASSUME NEW x \in LuaType, NEW y \in LuaType, Placed(x), x.mode \notin {"run", "dead"},
         NEW c \in Co, x.at[c] \in {"free", "fork"},
         y.at = [x.at EXCEPT ![c] = "run"], y.mode = "run", y.run = c,
         y.id_co = x.id_co, y.session = x.session, y.watching = x.watching,
         Forked(x, y), ~ Listed(y.fork, c),
         \A b \in Co : b # c => y.co_id[b] = x.co_id[b] /\ y.address[b] = x.address[b]
  PROVE  Placed(y) /\ Calls0(x, y) /\ (Requests(x, y) => Remains(x, y, {}))
<1>1. /\ \A b \in Co : y.at[b] = IF b = c THEN "run" ELSE x.at[b]
      /\ \A k \in Session : x.id_co[k] # c
      /\ x.session \in Nat
  BY Fields DEF Placed
<1>2. Placed(y)
  BY <1>1 DEF Placed, Forked
<1>3. Calls0(x, y)
  BY <1>1 DEF Calls0
<1>4. Requests(x, y) => Remains(x, y, {})
  BY <1>1 DEF Requests, Remains
<1> QED
  BY <1>2, <1>3, <1>4

\* The coroutine ends; what it owed is dealt with.
LEMMA TurnEnd ==
  ASSUME NEW x \in LuaType, NEW y \in LuaType, Placed(x), x.mode \in {"run", "dead"},
         x.run \in Co, y.at = [x.at EXCEPT ![x.run] = "free"], y.mode \in {"chain", "fork"},
         y.run = Nil, y.id_co = x.id_co, y.session = x.session, y.watching = x.watching,
         y.fork = x.fork \/ y.fork = Append(x.fork, Nop),
         y.co_id = [x.co_id EXCEPT ![x.run] = Nil]
  PROVE  Placed(y) /\ Calls0(x, y)
<1> DEFINE c == x.run
<1>1. /\ \A b \in Co : y.at[b] = IF b = c THEN "free" ELSE x.at[b]
      /\ \A b \in Co : y.co_id[b] = IF b = c THEN Nil ELSE x.co_id[b]
      /\ x.session \in Nat /\ x.fork \in Seq(Co \cup {Nop}) /\ Nop \notin Co
  BY Fields, Constants DEF Nop
<1>2. /\ x.at[c] \notin {"free", "fork"} /\ \A k \in Session : x.id_co[k] # c
  BY DEF Placed
<1>3. Once(y.fork) /\ \A b \in Co : Listed(y.fork, b) => Listed(x.fork, b)
  <2>1. Once(x.fork)
    BY DEF Placed
  <2>2. /\ \A d : Listed(Append(x.fork, Nop), d) <=> Listed(x.fork, d) \/ d = Nop
        /\ Once(x.fork) => Once(Append(x.fork, Nop))
    BY <1>1, QAppend
  <2> QED
    BY <1>1, <2>1, <2>2
<1>4. Placed(y)
  BY <1>1, <1>2, <1>3 DEF Placed
<1>5. Calls0(x, y)
  BY <1>1, <1>2 DEF Calls0
<1> QED
  BY <1>4, <1>5

-----------------------------------------------------------------------------
(* What the running coroutine may call                                      *)

\* What is known of a service.
LEMMA Known ==
  ASSUME AnswersInv, NEW s \in Service
  PROVE  /\ lua[s] \in LuaType /\ Shape(s, lua[s]) /\ Busy(lua[s]) /\ Placed(lua[s])
         /\ lua[s].mode # "idle" => life[s] # "freed"
         /\ lua[s].mode \in {"run", "dead"} => lua[s].run \in Co
         /\ Calling(callee, answers, life, timers[s], s, lua[s])
         /\ Owing(callee, answers, mail[s], s, lua[s])
         /\ mail[s] \in Seq(Messages) /\ Single(mail[s])
<1>1. lua[s] \in LuaType /\ Shape(s, lua[s]) /\ Busy(lua[s])
  BY Here DEF AnswersInv
<1>2. /\ Placed(lua[s]) /\ Calling(callee, answers, life, timers[s], s, lua[s])
      /\ Owing(callee, answers, mail[s], s, lua[s])
      /\ mail[s] \in Seq(Messages) /\ Single(mail[s])
  BY DEF AnswersInv, SessionsInv
<1> QED
  BY <1>1, <1>2, RunningCo DEF Calling

\* A step of s that changes nothing but its Lua state.
LEMMA OwnStep ==
  ASSUME AnswersInv, SessionsInv', NEW s \in Service, NEW y \in LuaType, Become(s, y),
         UNCHANGED <<mail, life, timers, history>>, lua[s].mode # "idle",
         Placed(y), Calls0(lua[s], y), Remains(lua[s], y, {}), y.error = lua[s].error
  PROVE  AnswersInv'
<1>1. life[s] # "freed"
  BY Known
<1>2. UNCHANGED <<mail, life, timers, callee, answers, outcome>>
  BY DEF history
<1>3. MailKept /\ Returns(s)
  BY <1>2, MailSame, NoReturn
<1> QED
  BY <1>1, <1>2, <1>3, QuietStep

LEMMA SleepAnswers ==
  ASSUME AnswersInv, SessionsInv', NEW s \in Service, Sleep(s) \/ Wait(s)
  PROVE  AnswersInv'
<1> DEFINE x == lua[s]
           k == x.session + 1
<1>1. /\ x \in LuaType /\ Shape(s, x) /\ Placed(x) /\ x.run \in Co /\ life[s] # "freed"
      /\ x.mode = "run" /\ x.session < MaxSession[s] /\ x.session \in Nat
  BY Known, Fields DEF Sleep, Wait, Calls, Running
<1>2. PICK place \in {"sleep", "wait"} : Become(s, Suspended(x, place))
  BY DEF Sleep, Wait
<1> DEFINE y == Suspended(x, place)
<1>3. /\ UNCHANGED <<mail, life, callee, answers, outcome>>
      /\ \A u \in Service \ {s} : timers'[u] = timers[u]
      /\ \A j \in timers'[s] : j \in timers[s] \/ j = k
  BY DEF Sleep, Wait, history, AnswersInv, SessionsInv
<1>4. k \in Session => callee[s][k] = None
  <2>1. k \in Session /\ callee[s][k] # None => k <= x.session
    BY <1>1, Known DEF Calling
  <2> QED
    BY <1>1, <2>1
<1> HIDE DEF x
<1>5. /\ k \in 1 .. MaxSession[s] /\ k \in Session /\ k = x.session + 1
      /\ y \in LuaType /\ y.session = k /\ y.id_co = [x.id_co EXCEPT ![k] = x.run]
      /\ y.at = [x.at EXCEPT ![x.run] = place] /\ y.run = Nil /\ y.mode = "chain"
      /\ y.wakeup = x.wakeup /\ y.error = x.error /\ y.fork = x.fork
      /\ y.current = x.current /\ y.ref = x.ref
      /\ y.sleep = [x.sleep EXCEPT ![x.run] = k]
      /\ y.watching = x.watching /\ y.threads = x.threads
      /\ y.co_id = x.co_id /\ y.address = x.address /\ y.unresponse = x.unresponse
  <2>1. place \in Waits
    BY DEF Waits
  <2> QED
    BY <1>1, <2>1, SuspendedIs
<1> HIDE DEF y, k
<1>6. Placed(y) /\ Remains(x, y, {}) /\ Calls0(x, y)
  <2>1. place \in {"call"} \cup Waits /\ place # "call"
    BY DEF Waits
  <2>2. Requests(x, y)
    BY <1>5 DEF Requests
  <2> QED
    BY <1>1, <1>5, <2>1, <2>2, TurnPark
<1>7. \A j \in timers'[s] : j \in timers[s] \/ (callee[s][j] = None /\ j <= y.session)
  BY <1>3, <1>4, <1>5
<1>8. MailKept /\ Returns(s)
  BY <1>3, MailSame, NoReturn
<1> QED
  BY <1>1, <1>2, <1>3, <1>5, <1>6, <1>7, <1>8, QuietStep DEF x, y

\* A step of the running coroutine that goes on running.
LEMMA RunsOn ==
  ASSUME AnswersInv, SessionsInv', NEW s \in Service, NEW y \in LuaType, Become(s, y),
         UNCHANGED <<mail, life, timers, history>>, lua[s].mode = "run",
         y.at = lua[s].at, y.run = lua[s].run, y.mode = lua[s].mode,
         y.id_co = lua[s].id_co, y.fork = lua[s].fork, y.session = lua[s].session,
         y.watching = lua[s].watching, y.error = lua[s].error, Requests(lua[s], y)
  PROVE  AnswersInv'
<1> DEFINE x == lua[s]
<1>1. x \in LuaType /\ Placed(x) /\ x.session \in Nat
  BY Known, Fields
<1>2. Leads(x, y) /\ Forked(x, y)
  BY <1>1 DEF Leads, Forked, Placed
<1>3. /\ x.session <= y.session
      /\ \A c \in Co : y.co_id[c] # Nil => y.co_id[c] = x.co_id[c]
  BY <1>1 DEF Requests
<1>4. Placed(y) /\ Calls0(x, y) /\ Remains(x, y, {})
  BY <1>1, <1>2, <1>3, TurnSame
<1> QED
  BY <1>4, OwnStep

LEMMA EnterAnswers ==
  ASSUME AnswersInv, SessionsInv', NEW s \in Service, Enter(s)
  PROVE  AnswersInv'
<1> DEFINE x == lua[s]
<1>1. /\ x \in LuaType /\ Shape(s, x) /\ Placed(x) /\ x.mode = "run" /\ x.run \in Co
      /\ UNCHANGED <<mail, life, timers, history>>
  BY Known DEF Enter, Calls, Running
<1>2. CASE x.current \in {Nil, x.run}
  <2> DEFINE y == [x EXCEPT !.current = x.run, !.ref = @ + 1]
  <2>1. Become(s, y)
    BY <1>2 DEF Enter
  <2> HIDE DEF x
  <2>2. x.ref + 1 \in Nat
    BY <1>1, Fields
  <2>3. /\ y \in LuaType /\ y.at = x.at /\ y.run = x.run /\ y.mode = x.mode
        /\ y.id_co = x.id_co /\ y.fork = x.fork /\ y.session = x.session
        /\ y.watching = x.watching /\ y.error = x.error /\ Requests(x, y)
    BY <1>1, <2>2 DEF LuaType, Requests
  <2> HIDE DEF y
  <2> QED
    BY <1>1, <2>1, <2>3, RunsOn DEF x
<1>3. CASE x.current \notin {Nil, x.run}
  <2> DEFINE z == Suspended(x, "enter")
             y == [z EXCEPT !.threads = Append(@, x.run)]
             k == x.session + 1
  <2>1. Become(s, y) /\ x.session < MaxSession[s]
    BY <1>3 DEF Enter
  <2> HIDE DEF x
  <2>2. /\ k \in 1 .. MaxSession[s] /\ k \in Session /\ k = x.session + 1
        /\ z \in LuaType /\ z.session = k /\ z.id_co = [x.id_co EXCEPT ![k] = x.run]
        /\ z.at = [x.at EXCEPT ![x.run] = "enter"] /\ z.run = Nil /\ z.mode = "chain"
        /\ z.wakeup = x.wakeup /\ z.error = x.error /\ z.fork = x.fork
        /\ z.current = x.current /\ z.ref = x.ref
        /\ z.sleep = [x.sleep EXCEPT ![x.run] = k]
        /\ z.watching = x.watching /\ z.threads = x.threads
        /\ z.co_id = x.co_id /\ z.address = x.address /\ z.unresponse = x.unresponse
    BY <1>1, <2>1, SuspendedIs DEF Waits
  <2> HIDE DEF z, k
  <2>3. Append(x.threads, x.run) \in Seq(Co)
    BY <1>1, Fields
  <2>4. /\ y \in LuaType /\ y.session = z.session /\ y.id_co = z.id_co
        /\ y.error = z.error /\ y.fork = z.fork
        /\ y.watching = z.watching /\ y.at = z.at /\ y.run = z.run /\ y.mode = z.mode
        /\ y.co_id = z.co_id /\ y.address = z.address /\ y.unresponse = z.unresponse
    BY <2>2, <2>3 DEF LuaType
  <2> HIDE DEF y
  <2>5. Placed(y) /\ Remains(x, y, {}) /\ Calls0(x, y)
    <3>1. "enter" \in {"call"} \cup Waits /\ "enter" # "call"
      BY DEF Waits
    <3>2. /\ y.session = k /\ y.id_co = [x.id_co EXCEPT ![k] = x.run]
          /\ y.at = [x.at EXCEPT ![x.run] = "enter"] /\ y.run = Nil /\ y.mode = "chain"
          /\ y.fork = x.fork /\ y.watching = x.watching /\ Requests(x, y)
      BY <2>2, <2>4 DEF Requests
    <3> QED
      BY <1>1, <2>2, <2>4, <3>1, <3>2, TurnPark
  <2> QED
    BY <1>1, <2>1, <2>2, <2>4, <2>5, OwnStep DEF x
<1> QED
  BY <1>2, <1>3

LEMMA WakeupAnswers ==
  ASSUME AnswersInv, SessionsInv', NEW s \in Service, NEW c \in Co, Wakeup(s, c)
  PROVE  AnswersInv'
<1> DEFINE x == lua[s]
           y == [x EXCEPT !.wakeup = Append(@, c)]
<1>1. /\ x \in LuaType /\ x.mode = "run" /\ UNCHANGED <<mail, life, timers, history>>
      /\ Become(s, x) \/ Become(s, y)
  BY Known DEF Wakeup, Calls, Running, Woken
<1> HIDE DEF x
<1>2. Append(x.wakeup, c) \in Seq(Co)
  BY <1>1, Fields
<1>3. /\ y \in LuaType /\ y.at = x.at /\ y.run = x.run /\ y.mode = x.mode
      /\ y.id_co = x.id_co /\ y.fork = x.fork /\ y.session = x.session
      /\ y.watching = x.watching /\ y.error = x.error /\ Requests(x, y)
  BY <1>1, <1>2 DEF LuaType, Requests
<1> HIDE DEF y
<1>4. Requests(x, x)
  BY DEF Requests
<1> QED
  BY <1>1, <1>3, <1>4, RunsOn DEF x

LEMMA LeaveAnswers ==
  ASSUME AnswersInv, SessionsInv', NEW s \in Service, Leave(s)
  PROVE  AnswersInv'
<1> DEFINE x == lua[s]
           y == LeaveTo(x)
           h == Head(x.threads)
           free == [x EXCEPT !.ref = 0, !.current = Nil]
           less == [x EXCEPT !.ref = @ - 1]
           next == [x EXCEPT !.ref = 0, !.current = h, !.threads = Tail(@)]
           woke == [next EXCEPT !.wakeup = Append(@, h)]
           Like(z) == /\ z \in LuaType /\ z.at = x.at /\ z.run = x.run /\ z.mode = x.mode
                      /\ z.id_co = x.id_co /\ z.fork = x.fork /\ z.session = x.session
                      /\ z.watching = x.watching /\ z.error = x.error /\ Requests(x, z)
<1>1. /\ x \in LuaType /\ x.mode = "run" /\ x.ref > 0 /\ x.ref \in Nat
      /\ x.threads \in Seq(Co) /\ x.wakeup \in Seq(Co)
      /\ UNCHANGED <<mail, life, timers, history>> /\ Become(s, y)
  BY Known, Fields DEF Leave, Running, Inside
<1> HIDE DEF x
<1>2. \/ x.ref > 1 /\ y = less
      \/ y = free
      \/ x.threads # << >> /\ y \in {next, woke}
  BY DEF LeaveTo, Woken
<1> HIDE DEF y
<1>3. Like(free)
  BY <1>1 DEF LuaType, Requests
<1>4. ASSUME x.ref > 1 PROVE Like(less)
  <2>1. x.ref - 1 \in Nat
    BY <1>1, <1>4
  <2> QED
    BY <1>1, <2>1 DEF LuaType, Requests
<1>5. ASSUME x.threads # << >> PROVE Like(next) /\ Like(woke)
  <2>1. h \in Co /\ Tail(x.threads) \in Seq(Co)
    BY <1>1, <1>5
  <2> HIDE DEF h
  <2>2. Like(next) /\ next.wakeup = x.wakeup
    BY <1>1, <2>1 DEF LuaType, Requests
  <2> HIDE DEF next
  <2>3. Append(x.wakeup, h) \in Seq(Co)
    BY <1>1, <2>1
  <2>4. woke = [next EXCEPT !.wakeup = Append(x.wakeup, h)]
    BY <2>2
  <2>5. Like(woke)
    BY <2>2, <2>3, <2>4 DEF LuaType, Requests
  <2> QED
    BY <2>2, <2>5
<1> HIDE DEF free, less, next, woke
<1>6. Like(y)
  BY <1>2, <1>3, <1>4, <1>5
<1> QED
  BY <1>1, <1>6, RunsOn DEF x

LEMMA ForkAnswers ==
  ASSUME AnswersInv, SessionsInv', NEW s \in Service, Fork(s)
  PROVE  AnswersInv'
<1> DEFINE x == lua[s]
           c == NewCo(x)
           y == [x EXCEPT !.fork = Append(@, c), !.at[c] = "fork"]
<1>1. /\ x \in LuaType /\ Placed(x) /\ x.mode = "run" /\ x.run \in Co
      /\ c \in Co /\ x.at[c] = "free"
      /\ UNCHANGED <<mail, life, timers, history>> /\ Become(s, y)
  BY Known, NewCoIn DEF Fork, Calls, Running
<1> HIDE DEF x, c
<1>2. x.fork \in Seq(Co \cup {Nop}) /\ c \in Co \cup {Nop} /\ x.session \in Nat
  BY <1>1, Fields
<1>3. /\ Append(x.fork, c) \in Seq(Co \cup {Nop})
      /\ \A b : Listed(Append(x.fork, c), b) <=> Listed(x.fork, b) \/ b = c
      /\ Once(x.fork) /\ (~ Listed(x.fork, c) \/ c = Nop) => Once(Append(x.fork, c))
  BY <1>2, QAppend
<1>4. /\ y \in LuaType /\ y.session = x.session /\ y.id_co = x.id_co
      /\ y.fork = Append(x.fork, c) /\ y.error = x.error
      /\ y.watching = x.watching /\ y.at = [x.at EXCEPT ![c] = "fork"]
      /\ y.run = x.run /\ y.mode = x.mode /\ y.co_id = x.co_id
      /\ y.address = x.address /\ y.unresponse = x.unresponse
  BY <1>1, <1>3 DEF LuaType, Places
<1> HIDE DEF y
<1>5. \A b \in Co : y.at[b] = IF b = c THEN "fork" ELSE x.at[b]
  BY <1>1, <1>4, Fields
<1>6. ~ Listed(x.fork, c) /\ Once(x.fork) /\ \A k \in Session : x.id_co[k] # c
  BY <1>1 DEF Placed
<1>7. Placed(y)
  BY <1>1, <1>3, <1>4, <1>5, <1>6 DEF Placed
<1>8. Calls0(x, y) /\ Remains(x, y, {})
  BY <1>1, <1>2, <1>4, <1>5, <1>6 DEF Calls0, Remains
<1> QED
  BY <1>1, <1>4, <1>7, <1>8, OwnStep DEF x

LEMMA ReturnAnswers ==
  ASSUME AnswersInv, SessionsInv', NEW s \in Service, Return(s)
  PROVE  AnswersInv'
<1> DEFINE x == lua[s]
           y == Recycled(x)
<1>1. /\ x \in LuaType /\ Placed(x) /\ x.mode = "run" /\ x.run \in Co /\ life[s] # "freed"
      /\ UNCHANGED <<mail, life, timers, callee, answers, outcome>> /\ Become(s, y)
  BY Known DEF Return, Running
<1> HIDE DEF x
<1>2. /\ y \in LuaType /\ y.session = x.session /\ y.id_co = x.id_co
      /\ y.at = [x.at EXCEPT ![x.run] = "free"] /\ y.run = Nil /\ y.mode = "chain"
      /\ y.error = x.error /\ y.fork = x.fork /\ y.watching = x.watching
      /\ y.co_id = [x.co_id EXCEPT ![x.run] = Nil]
      /\ y.address = [x.address EXCEPT ![x.run] = None] /\ y.unresponse = x.unresponse
  <2>1. y = [x EXCEPT !.co_id = [x.co_id EXCEPT ![x.run] = Nil],
                      !.address = [x.address EXCEPT ![x.run] = None],
                      !.at = [x.at EXCEPT ![x.run] = "free"], !.run = Nil, !.mode = "chain"]
    BY DEF Recycled, Yield
  <2> HIDE DEF y
  <2>2. /\ [x.co_id EXCEPT ![x.run] = Nil] \in [Co -> Session \cup {Nil}]
        /\ [x.address EXCEPT ![x.run] = None] \in [Co -> Service \cup {None}]
        /\ [x.at EXCEPT ![x.run] = "free"] \in [Co -> Places]
    BY <1>1, Fields DEF Places
  <2> QED
    BY <1>1, <2>1, <2>2 DEF LuaType, Modes
<1> HIDE DEF y
<1>3. Placed(y) /\ Calls0(x, y)
  BY <1>1, <1>2, TurnEnd
<1>4. Remains(x, y, {})
  <2>1. \A b \in Co : y.co_id[b] # Nil => /\ b # x.run /\ y.co_id[b] = x.co_id[b]
                                          /\ y.address[b] = x.address[b] /\ y.at[b] = x.at[b]
    BY <1>1, <1>2, Fields
  <2> QED
    BY <1>2, <2>1 DEF Remains
<1>5. MailKept /\ Returns(s)
  BY <1>1, MailSame, NoReturn
<1> QED
  BY <1>1, <1>2, <1>3, <1>4, <1>5, QuietStep DEF x

\* c.send of a request of a new session.
LEMMA SendsRequest ==
  ASSUME AnswersInv, NEW d \in Service, life[d] = "up", NEW m \in Messages,
         ~ Listed(mail[d], m), Deliver(To(d, m)), NEW u \in Service
  PROVE  /\ Single(mail'[u])
         /\ \A i \in DOMAIN mail'[u] : Listed(mail[u], mail'[u][i]) \/ (u = d /\ mail'[u][i] = m)
<1> DEFINE r == IF u = d THEN <<m>> ELSE << >>
<1>1. mail[u] \in Seq(Messages) /\ Single(mail[u])
  BY DEF AnswersInv, SessionsInv
<1>2. mail'[u] = IF life[u] = "up" THEN mail[u] \o r ELSE mail[u]
  BY DEF Deliver, To
<1>3. r \in Seq(Messages) /\ DOMAIN r \subseteq {1} /\ \A i \in DOMAIN r : r[i] = m /\ u = d
  OBVIOUS
<1> HIDE DEF r
<1>4. \A i \in DOMAIN mail[u] : Listed(mail[u], mail[u][i])
  BY DEF Listed
<1>5. /\ Single(mail[u] \o r)
      /\ \A i \in DOMAIN (mail[u] \o r) :
           Listed(mail[u], (mail[u] \o r)[i]) \/ Listed(r, (mail[u] \o r)[i])
  <2>1. Single(r) /\ \A i \in DOMAIN r : r[i].t = "REQUEST" => ~ Listed(mail[u], r[i])
    BY <1>3 DEF Single
  <2> QED
    BY <1>1, <1>3, <2>1, SingleConcat
<1> QED
  BY <1>1, <1>2, <1>3, <1>4, <1>5 DEF Listed

\* The request is of a session that nobody knows yet.
LEMMA CallAnswers ==
  ASSUME AnswersInv, SessionsInv', NEW s \in Service, NEW d \in Service, NEW name \in BOOLEAN,
         Call(s, d, name)
  PROVE  AnswersInv'
<1> DEFINE x == lua[s]
           k == x.session + 1
<1>1. /\ x \in LuaType /\ Shape(s, x) /\ Placed(x) /\ x.mode = "run" /\ x.run \in Co
      /\ x.session \in Nat /\ life[s] # "freed"
      /\ Calling(callee, answers, life, timers[s], s, x)
  BY Known, Fields DEF Call, Calls, Running
<1>2. k \in Session /\ k \in Nat /\ k = x.session + 1
  BY <1>1, Constants DEF Call, Shape
<1>3. UNCHANGED <<life, timers, answers, outcome, lost>>
  BY DEF Call
<1>4. Returns(s)
  BY <1>3, NoReturn
<1>5. CASE life[d] = "up"
  <2> DEFINE w == Yield(x, "call")
             y == [w EXCEPT !.session = k, !.id_co[k] = x.run, !.watching[k] = d]
             m == Request(k, s)
  <2>0. /\ Become(s, y) /\ Deliver(To(d, m)) /\ callee' = [callee EXCEPT ![s][k] = d]
    BY <1>5 DEF Call, Request
  <2> HIDE DEF x, k
  <2>1. /\ w \in LuaType /\ w.session = x.session /\ w.id_co = x.id_co
        /\ w.at = [x.at EXCEPT ![x.run] = "call"] /\ w.run = Nil /\ w.mode = "chain"
        /\ w.error = x.error /\ w.fork = x.fork /\ w.watching = x.watching
        /\ w.co_id = x.co_id /\ w.address = x.address /\ w.unresponse = x.unresponse
    <3>1. "call" \in Places
      BY DEF Places
    <3> QED
      BY <1>1, <3>1, YieldIs
  <2> HIDE DEF w
  <2>2. /\ y \in LuaType /\ y.session = k /\ y.id_co = [x.id_co EXCEPT ![k] = x.run]
        /\ y.at = [x.at EXCEPT ![x.run] = "call"] /\ y.run = Nil /\ y.mode = "chain"
        /\ y.error = x.error /\ y.fork = x.fork /\ y.watching = [x.watching EXCEPT ![k] = d]
        /\ y.co_id = x.co_id /\ y.address = x.address /\ y.unresponse = x.unresponse
    <3> DEFINE f == [w.id_co EXCEPT ![k] = x.run]
               g == [w.watching EXCEPT ![k] = d]
    <3>1. f \in [Session -> Co \cup {Nil, Break}] /\ g \in [Session -> Service \cup {None}]
      BY <1>1, <1>2, <2>1 DEF LuaType
    <3>2. y = [w EXCEPT !.session = k, !.id_co = f, !.watching = g]
      BY <2>1 DEF LuaType
    <3>3. f = [x.id_co EXCEPT ![k] = x.run] /\ g = [x.watching EXCEPT ![k] = d]
      BY <2>1
    <3> HIDE DEF f, g, y
    <3>4. y \in LuaType /\ y.session = k /\ y.id_co = f /\ y.watching = g
      BY <1>2, <2>1, <3>1, <3>2 DEF LuaType
    <3>5. /\ y.at = w.at /\ y.run = w.run /\ y.mode = w.mode /\ y.error = w.error
          /\ y.fork = w.fork /\ y.co_id = w.co_id /\ y.address = w.address
          /\ y.unresponse = w.unresponse
      BY <2>1, <3>2 DEF LuaType
    <3> QED
      BY <2>1, <3>3, <3>4, <3>5
  <2> HIDE DEF y
  <2>3. /\ Placed(y) /\ Remains(x, y, {})
        /\ \A j \in Session : j # k /\ y.id_co[j] \in Co /\ y.at[y.id_co[j]] = "call"
                              => x.id_co[j] \in Co /\ x.at[x.id_co[j]] = "call"
    <3> DEFINE place == "call"
    <3>1. place \in {"call"} \cup Waits
      OBVIOUS
    <3>2. /\ y \in LuaType /\ y.session = k /\ y.id_co = [x.id_co EXCEPT ![k] = x.run]
          /\ y.at = [x.at EXCEPT ![x.run] = place] /\ y.run = Nil /\ y.mode = "chain"
          /\ y.fork = x.fork /\ Requests(x, y)
      BY <2>2 DEF Requests
    <3>3. x \in LuaType /\ Placed(x) /\ x.mode = "run" /\ x.run \in Co
      BY <1>1
    <3> HIDE DEF place
    <3>4. k \in Session /\ k = x.session + 1
      BY <1>2
    <3>5. Placed(y)
      BY <3>1, <3>2, <3>3, <3>4, TurnPark
    <3>6. Remains(x, y, {})
      BY <3>1, <3>2, <3>3, <3>4, TurnPark
    <3>7. \A j \in Session : j # k /\ y.id_co[j] \in Co /\ y.at[y.id_co[j]] = "call"
                              => x.id_co[j] \in Co /\ x.at[x.id_co[j]] = "call"
      <4>1. /\ \A j \in Session : y.id_co[j] = IF j = k THEN x.run ELSE x.id_co[j]
            /\ \A b \in Co : y.at[b] = IF b = x.run THEN "call" ELSE x.at[b]
        BY <2>2, <3>3, <3>4, Fields
      <4> QED
        BY <3>3, <4>1 DEF Placed
    <3> QED
      BY <3>5, <3>6, <3>7
  <2>4. /\ callee \in [Service -> [Session -> Service \cup {None}]]
        /\ \A a \in answers : callee[a.to][a.k] = a.from
    BY DEF AnswersInv, Told
  <2>5. /\ callee' \in [Service -> [Session -> Service \cup {None}]]
        /\ \A u \in Service, j \in Session :
             callee'[u][j] = IF u = s /\ j = k THEN d ELSE callee[u][j]
    BY <1>2, <2>0, <2>4
  <2>6. callee[s][k] = None /\ d # None
    BY <1>1, <1>2, SessionsAssumption DEF Calling
  <2>7. Same(y, lua'[s]) /\ \A u \in Service \ {s} : lua'[u] = lua[u]
    BY <2>0, <2>2, Becomes DEF AnswersInv
  <2>8. Adds(s, {})
    <3>1. x.session <= lua'[s].session /\ k > x.session
      BY <1>1, <1>2, <2>2, <2>7 DEF Same
    <3> QED
      BY <1>1, <1>2, <1>3, <2>5, <2>7, <3>1 DEF Adds, x
  <2>9. m \in Messages /\ m.t = "REQUEST" /\ m.k = k /\ m.from = s
    BY <1>2 DEF Request, Message, Messages
  <2>10. Mailed(callee', answers', life', lua'[d].session, d, m)
    <3>1. ASSUME NEW kind, Said(answers, d, s, k, kind) PROVE FALSE
      <4> DEFINE a == [to |-> s, k |-> k, kind |-> kind, from |-> d]
      <4>1. a \in answers /\ a.to = s /\ a.k = k /\ a.from = d
        BY <3>1 DEF Said
      <4> HIDE DEF a
      <4> QED
        BY <2>4, <2>6, <4>1
    <3>2. Open(callee', answers', d, s, k)
      BY <1>2, <1>3, <2>5, <3>1 DEF Open
    <3> QED
      BY <2>9, <3>2 DEF Mailed
  <2>11. ~ Listed(mail[d], m)
    <3>1. ASSUME Listed(mail[d], m) PROVE Mailed(callee, answers, life, lua[d].session, d, m)
      BY <3>1 DEF AnswersInv, Listed
    <3> QED
      BY <2>6, <2>9, <3>1 DEF Mailed, Open
  <2>12. \A u \in Service : /\ Single(mail'[u])
                           /\ \A i \in DOMAIN mail'[u] : Comes(u, mail'[u][i])
    <3> TAKE u \in Service
    <3>1. /\ Single(mail'[u])
          /\ \A i \in DOMAIN mail'[u] :
               Listed(mail[u], mail'[u][i]) \/ (u = d /\ mail'[u][i] = m)
      BY <1>5, <2>0, <2>9, <2>11, SendsRequest
    <3> QED
      BY <2>6, <2>9, <2>10, <3>1 DEF Comes
  <2> HIDE DEF m
  <2>13. Owing(callee', answers', mail'[s], s, y)
    <3>1. {a \in {} : a.from = s} = {}
      OBVIOUS
    <3> QED
      BY <2>3, <2>8, <2>12, <3>1, OwingStays DEF x
  <2>14. Calling(callee', answers', life', timers'[s], s, y)
    <3>1. \A j \in Session : /\ y.watching[j] = IF j = k THEN d ELSE x.watching[j]
                             /\ callee'[s][j] = IF j = k THEN d ELSE callee[s][j]
      BY <1>1, <1>2, <2>2, <2>5, Fields
    <3>2. Session \subseteq Nat /\ timers[s] \subseteq Session
      BY Constants DEF AnswersInv, SessionsInv
    <3>3. \A j \in Session : Listed(y.error, j) => Broken(callee', answers', life', s, j)
      BY <1>1, <2>2, <2>8, Stays DEF Calling
    <3>4. \A j \in Session : callee'[s][j] # None => j <= y.session
      BY <1>1, <1>2, <2>2, <3>1, <3>2 DEF Calling
    <3>5. \A j \in timers[s] : callee'[s][j] = None /\ j <= y.session
      <4> TAKE j \in timers[s]
      <4>1. callee[s][j] = None /\ j <= x.session /\ j \in Nat /\ j \in Session
        BY <1>1, <3>2 DEF Calling
      <4> QED
        BY <1>1, <1>2, <2>2, <3>1, <4>1
    <3>6. \A j \in Session : y.id_co[j] \in Co /\ y.at[y.id_co[j]] = "call" => callee'[s][j] # None
      BY <1>1, <2>3, <2>6, <3>1 DEF Calling
    <3>7. \A j \in Session : y.watching[j] # None => callee'[s][j] = y.watching[j]
      BY <1>1, <3>1 DEF Calling
    <3> QED
      BY <1>1, <1>3, <3>3, <3>4, <3>5, <3>6, <3>7 DEF Calling
  <2>15. Rightly(s, {}) /\ Unasked(mail[s], {})
    BY DEF Rightly, Unasked
  <2> QED
    BY <1>4, <2>3, <2>7, <2>8, <2>12, <2>13, <2>14, <2>15, AnswersStep
<1>6. CASE life[d] # "up"
  <2> DEFINE y == [x EXCEPT !.session = k]
  <2>1. Become(s, y) /\ UNCHANGED <<mail, callee>>
    BY <1>6 DEF Call
  <2> HIDE DEF x, k
  <2>2. /\ y \in LuaType /\ y.session = k /\ y.id_co = x.id_co
        /\ y.error = x.error /\ y.fork = x.fork /\ y.watching = x.watching
        /\ y.at = x.at /\ y.run = x.run /\ y.mode = x.mode /\ Requests(x, y)
    BY <1>1, <1>2 DEF LuaType, Requests
  <2> HIDE DEF y
  <2>3. Placed(y) /\ Calls0(x, y) /\ Remains(x, y, {})
    <3>1. /\ Leads(x, y) /\ Forked(x, y) /\ x.session <= y.session
          /\ \A c \in Co : y.co_id[c] # Nil => y.co_id[c] = x.co_id[c]
      BY <1>1, <1>2, <2>2 DEF Leads, Forked, Placed, Requests
    <3> QED
      BY <1>1, <2>2, <3>1, TurnSame
  <2>4. MailKept
    BY <2>1, MailSame
  <2> QED
    BY <1>1, <1>3, <1>4, <2>1, <2>2, <2>3, <2>4, QuietStep DEF x
<1> QED
  BY <1>5, <1>6

-----------------------------------------------------------------------------
(* Answers                                                                  *)

\* s answers a request of its own that it has not answered in another way.
LEMMA AnswerStep ==
  ASSUME AnswersInv, SessionsInv', NEW s \in Service, NEW y \in LuaType, Become(s, y),
         NEW v \in Service, NEW k \in Session, NEW kind \in {"RESPONSE", "ERROR"},
         Answer(s, v, k, kind), UNCHANGED <<life, timers, callee, outcome>>,
         lua[s].mode # "idle", callee[v][k] = s,
         \A other \in {"RESPONSE", "ERROR"} : Said(answers, s, v, k, other) => kind = other,
         ~ Listed(mail[s], Request(k, v)),
         Placed(y), Calls0(lua[s], y), y.error = lua[s].error,
         Remains(lua[s], y, {[to |-> v, k |-> k, kind |-> kind, from |-> s]})
  PROVE  AnswersInv'
<1> DEFINE a == [to |-> v, k |-> k, kind |-> kind, from |-> s]
           m == Message(kind, k, s)
<1>1. a.to = v /\ a.k = k /\ a.kind = kind /\ a.from = s
  OBVIOUS
<1>2. answers' = answers \cup {a} /\ Deliver(To(v, m))
  BY DEF Answer
<1>3. Said(answers', s, v, k, kind)
  BY <1>2 DEF Said
<1>4. Remains(lua[s], y, {a})
  OBVIOUS
<1>5. a \in [to : Service, k : Session, kind : {"RESPONSE", "ERROR"}, from : {s}]
  OBVIOUS
<1> HIDE DEF a
<1>6. m \in Messages /\ m.t = kind /\ m.t # "REQUEST" /\ m.k = k /\ m.from = s
  BY DEF Message, Messages
<1> HIDE DEF m
<1>7. Same(y, lua'[s]) /\ \A u \in Service \ {s} : lua'[u] = lua[u]
  BY Becomes DEF AnswersInv
<1>8. Adds(s, {a})
  <2>1. callee \in [Service -> [Session -> Service \cup {None}]]
    BY DEF AnswersInv, Told
  <2> QED
    BY <1>2, <1>5, <1>7, <2>1 DEF Adds, Same, Calls0
<1>9. Rightly(s, {a}) /\ Unasked(mail[s], {a}) /\ Returns(s)
  BY <1>1, NoReturn DEF Rightly, Unasked
<1>10. Mailed(callee', answers', life', lua'[v].session, v, m)
  <2>1. s # None /\ k # 0
    BY SessionsAssumption, Constants
  <2> QED
    BY <1>3, <1>6, <2>1 DEF Mailed
<1>11. \A u \in Service : /\ Single(mail'[u])
                         /\ \A i \in DOMAIN mail'[u] : Comes(u, mail'[u][i])
  <2> TAKE u \in Service
  <2>1. /\ Single(mail'[u])
        /\ \A i \in DOMAIN mail'[u] : \/ Listed(mail[u], mail'[u][i])
                                      \/ u = v /\ life[u] = "up" /\ mail'[u][i] = m
    BY <1>2, <1>6, SendsOne
  <2> QED
    BY <1>6, <1>10, <2>1 DEF Comes
<1>12. Calling(callee', answers', life', timers'[s], s, y)
  <2>1. life[s] # "freed"
    BY Known
  <2> QED
    BY <1>8, <2>1, CallingStays
<1>13. Owing(callee', answers', mail'[s], s, y)
  <2>1. {b \in {a} : b.from = s} = {a}
    BY <1>1
  <2> QED
    BY <1>4, <1>8, <1>11, <2>1, OwingStays
<1> QED
  BY <1>7, <1>8, <1>9, <1>11, <1>12, <1>13, AnswersStep

\* The running coroutine owes the answer alone.
LEMMA OwesAlone ==
  ASSUME AnswersInv, NEW s \in Service, NEW c \in Co, lua[s].co_id[c] # Nil
  PROVE  LET x == lua[s]
             v == x.address[c]
             k == x.co_id[c]
         IN  /\ v \in Service /\ k \in Session /\ Owes(callee, answers, mail[s], s, x, c, v, k)
             /\ \A b \in Co : b # c => ~ (x.co_id[b] = k /\ x.address[b] = v)
<1>1. /\ lua[s] \in LuaType /\ Shape(s, lua[s]) /\ Owing(callee, answers, mail[s], s, lua[s])
  BY Known
<1> QED
  BY <1>1, Fields DEF Owing, Shape

LEMMA RetAnswers ==
  ASSUME AnswersInv, SessionsInv', NEW s \in Service, Ret(s)
  PROVE  AnswersInv'
<1> DEFINE x == lua[s]
           c == x.run
           v == x.address[c]
           k == x.co_id[c]
           y == [x EXCEPT !.co_id[c] = Nil]
<1>1. /\ x \in LuaType /\ Placed(x) /\ x.mode = "run" /\ c \in Co /\ k # Nil
      /\ Become(s, y) /\ Answer(s, v, k, "RESPONSE")
      /\ UNCHANGED <<life, timers, callee, outcome>>
  BY Known DEF Ret, Running, Answered
<1>2. /\ v \in Service /\ k \in Session /\ Owes(callee, answers, mail[s], s, x, c, v, k)
      /\ \A b \in Co : b # c => ~ (x.co_id[b] = k /\ x.address[b] = v)
  BY <1>1, OwesAlone
<1>3. x.session \in Nat /\ x.at[c] = "run"
  BY <1>1, Fields DEF Placed
<1> HIDE DEF x, v, k
<1>4. /\ y \in LuaType /\ y.session = x.session /\ y.id_co = x.id_co /\ y.error = x.error
      /\ y.fork = x.fork /\ y.watching = x.watching /\ y.at = x.at /\ y.run = x.run
      /\ y.mode = x.mode /\ y.address = x.address /\ y.unresponse = x.unresponse
      /\ \A b \in Co : y.co_id[b] = IF b = c THEN Nil ELSE x.co_id[b]
  BY <1>1 DEF LuaType
<1> HIDE DEF y, c
<1>5. Placed(y) /\ Calls0(x, y)
  <2>1. /\ Leads(x, y) /\ Forked(x, y) /\ x.session <= y.session
        /\ \A b \in Co : y.co_id[b] # Nil => y.co_id[b] = x.co_id[b]
    BY <1>1, <1>3, <1>4 DEF Leads, Forked, Placed
  <2> QED
    BY <1>1, <1>4, <2>1, TurnSame
<1>6. Remains(x, y, {[to |-> v, k |-> k, kind |-> "RESPONSE", from |-> s]})
  BY <1>2, <1>4 DEF Remains, Owes
<1>7. \A other \in {"RESPONSE", "ERROR"} : ~ Said(answers, s, v, k, other)
  BY <1>2, <1>3 DEF Owes
<1>8. callee[v][k] = s /\ ~ Listed(mail[s], Request(k, v))
  BY <1>2 DEF Owes
<1> QED
  BY <1>1, <1>2, <1>4, <1>5, <1>6, <1>7, <1>8, AnswerStep DEF x

LEMMA RespondAnswers ==
  ASSUME AnswersInv, SessionsInv', NEW s \in Service, NEW r \in lua[s].unresponse,
         NEW kind \in {"RESPONSE", "ERROR"}, Respond(s, r, kind)
  PROVE  AnswersInv'
<1> DEFINE x == lua[s]
           y == [x EXCEPT !.unresponse = @ \ {r}]
           v == r.to
           k == r.k
<1>1. /\ x \in LuaType /\ Placed(x) /\ x.mode = "run" /\ r \in x.unresponse
      /\ Become(s, y) /\ Answer(s, v, k, kind)
      /\ UNCHANGED <<life, timers, callee, outcome>>
      /\ Owing(callee, answers, mail[s], s, x)
  BY Known DEF Respond, Running
<1> HIDE DEF x
<1>2. /\ v \in Service /\ k \in Session /\ r = [to |-> v, k |-> k]
      /\ x.session \in Nat
  BY <1>1, Fields
<1> HIDE DEF v, k
<1>3. /\ y \in LuaType /\ y.session = x.session /\ y.id_co = x.id_co /\ y.error = x.error
      /\ y.fork = x.fork /\ y.watching = x.watching /\ y.at = x.at /\ y.run = x.run
      /\ y.mode = x.mode /\ y.address = x.address /\ y.co_id = x.co_id
      /\ y.unresponse = x.unresponse \ {r}
  BY <1>1 DEF LuaType
<1> HIDE DEF y
<1>4. Placed(y) /\ Calls0(x, y)
  <2>1. /\ Leads(x, y) /\ Forked(x, y) /\ x.session <= y.session
        /\ \A b \in Co : y.co_id[b] # Nil => y.co_id[b] = x.co_id[b]
    BY <1>1, <1>2, <1>3 DEF Leads, Forked, Placed
  <2> QED
    BY <1>1, <1>3, <2>1, TurnSame
<1>5. Open(callee, answers, s, v, k) /\ ~ Listed(mail[s], Request(k, v))
  BY <1>1 DEF Owing, v, k
<1>6. Remains(x, y, {[to |-> v, k |-> k, kind |-> kind, from |-> s]})
  <2>1. \A c \in Co : x.co_id[c] # Nil => ~ (x.address[c] = v /\ x.co_id[c] = k)
    BY <1>1, <1>2 DEF Owing, Owes
  <2> QED
    BY <1>2, <1>3, <2>1 DEF Remains
<1>7. /\ \A other \in {"RESPONSE", "ERROR"} : ~ Said(answers, s, v, k, other)
      /\ callee[v][k] = s
  BY <1>5 DEF Open
<1>8. ~ Listed(mail[s], Request(k, v)) /\ Become(s, y) /\ Answer(s, v, k, kind)
  BY <1>1, <1>5
<1>9. UNCHANGED <<life, timers, callee, outcome>> /\ lua[s].mode # "idle"
  BY <1>1 DEF x
<1>10. Calls0(lua[s], y) /\ y.error = lua[s].error /\ Placed(y) /\ y \in LuaType
  BY <1>3, <1>4 DEF x
<1>11. Remains(lua[s], y, {[to |-> v, k |-> k, kind |-> kind, from |-> s]})
  BY <1>6 DEF x
<1> QED
  BY <1>2, <1>7, <1>8, <1>9, <1>10, <1>11, AnswerStep

\* The debt moves from the coroutine to a closure.
LEMMA ResponseAnswers ==
  ASSUME AnswersInv, SessionsInv', NEW s \in Service, Response(s)
  PROVE  AnswersInv'
<1> DEFINE x == lua[s]
           c == x.run
           v == x.address[c]
           k == x.co_id[c]
           r == [to |-> v, k |-> k]
           w == [x EXCEPT !.co_id[c] = Nil]
           y == [w EXCEPT !.unresponse = @ \cup {r}]
<1>1. /\ x \in LuaType /\ Placed(x) /\ x.mode = "run" /\ c \in Co /\ k # Nil
      /\ life[s] # "freed" /\ Owing(callee, answers, mail[s], s, x) /\ Become(s, y)
      /\ UNCHANGED <<mail, life, timers, history>>
  BY Known DEF Response, Calls, Running, Answered
<1>2. /\ v \in Service /\ k \in Session /\ Owes(callee, answers, mail[s], s, x, c, v, k)
      /\ \A b \in Co : b # c => ~ (x.co_id[b] = k /\ x.address[b] = v)
  BY <1>1, OwesAlone
<1>3. x.session \in Nat /\ x.at[c] = "run"
  BY <1>1, Fields DEF Placed
<1>4. r \in [to : Service, k : Session] /\ r.to = v /\ r.k = k
  BY <1>2
<1> HIDE DEF x, v, k
<1>5. /\ w \in LuaType /\ w.session = x.session /\ w.id_co = x.id_co /\ w.error = x.error
      /\ w.fork = x.fork /\ w.watching = x.watching /\ w.at = x.at /\ w.run = x.run
      /\ w.mode = x.mode /\ w.address = x.address /\ w.unresponse = x.unresponse
      /\ \A b \in Co : w.co_id[b] = IF b = c THEN Nil ELSE x.co_id[b]
  BY <1>1 DEF LuaType
<1> HIDE DEF w, c
<1>6. /\ y \in LuaType /\ y.session = w.session /\ y.id_co = w.id_co /\ y.error = w.error
      /\ y.fork = w.fork /\ y.watching = w.watching /\ y.at = w.at /\ y.run = w.run
      /\ y.mode = w.mode /\ y.address = w.address /\ y.co_id = w.co_id
      /\ y.unresponse = w.unresponse \cup {r}
  <2>1. w.unresponse \cup {r} \in SUBSET [to : Service, k : Session]
    BY <1>4, <1>5, Fields
  <2> QED
    BY <1>5, <2>1 DEF LuaType
<1> HIDE DEF y
<1>7. Placed(y) /\ Calls0(x, y)
  <2>1. /\ Leads(x, y) /\ Forked(x, y) /\ x.session <= y.session
        /\ \A b \in Co : y.co_id[b] # Nil => y.co_id[b] = x.co_id[b]
    BY <1>1, <1>3, <1>5, <1>6 DEF Leads, Forked, Placed
  <2> QED
    BY <1>1, <1>5, <1>6, <2>1, TurnSame
<1>8. UNCHANGED <<mail, life, timers, callee, answers, outcome>>
  BY <1>1 DEF history
<1>9. Owing(callee, answers, mail'[s], s, y)
  <2>1. ASSUME NEW b \in Co, y.co_id[b] # Nil
        PROVE  /\ b # c /\ y.co_id[b] = x.co_id[b] /\ y.address[b] = x.address[b]
               /\ Owes(callee, answers, mail[s], s, y, b, y.address[b], y.co_id[b])
    <3>1. b # c /\ y.co_id[b] = x.co_id[b] /\ y.address[b] = x.address[b] /\ y.at[b] = x.at[b]
      BY <1>5, <1>6, <2>1
    <3>2. Owes(callee, answers, mail[s], s, x, b, y.address[b], y.co_id[b])
      BY <1>1, <2>1, <3>1 DEF Owing
    <3>3. [to |-> y.address[b], k |-> y.co_id[b]] # r
      <4>1. ~ (y.co_id[b] = k /\ y.address[b] = v)
        BY <1>2, <3>1
      <4> QED
        BY <4>1
    <3> HIDE DEF r
    <3>4. [to |-> y.address[b], k |-> y.co_id[b]] \notin y.unresponse
      BY <1>5, <1>6, <3>2, <3>3 DEF Owes
    <3> QED
      BY <3>1, <3>2, <3>4 DEF Owes
  <2>2. \A a, b \in Co : y.co_id[b] # Nil /\ y.co_id[b] = y.co_id[a] /\ y.address[b] = y.address[a]
                         => b = a
    BY <1>1, <2>1 DEF Owing
  <2>3. Open(callee, answers, s, v, k) /\ ~ Listed(mail[s], Request(k, v))
    BY <1>2, <1>3 DEF Owes, Open
  <2> HIDE DEF r
  <2>4. \A a \in y.unresponse : /\ Open(callee, answers, s, a.to, a.k)
                               /\ ~ Listed(mail[s], Request(a.k, a.to))
    BY <1>1, <1>4, <1>5, <1>6, <2>3 DEF Owing
  <2>5. Owing(callee, answers, mail[s], s, y)
    BY <2>1, <2>2, <2>4 DEF Owing
  <2> QED
    BY <1>8, <2>5
<1>10. MailKept /\ Returns(s)
  BY <1>8, MailSame, NoReturn
<1> QED
  BY <1>1, <1>5, <1>6, <1>7, <1>8, <1>9, <1>10, QuietStep DEF x

\* A coroutine that was closed by skynet.exit may have told its error already.
LEMMA RaiseAnswers ==
  ASSUME AnswersInv, SessionsInv', NEW s \in Service, Raise(s)
  PROVE  AnswersInv'
<1> DEFINE x == lua[s]
           c == x.run
           y == Failed(x, c)
<1>1. /\ x \in LuaType /\ Placed(x) /\ x.mode \in {"run", "dead"} /\ c \in Co
      /\ UNCHANGED <<life, timers, callee, outcome, byname, lost>> /\ Become(s, y)
  BY Known DEF Raise, Running
<1>2. x.mode # "idle"
  BY <1>1
<1> HIDE DEF x, c
<1>3. x.fork \in Seq(Co \cup {Nop}) /\ Append(x.fork, Nop) \in Seq(Co \cup {Nop})
  BY <1>1, Fields
<1>4. /\ y \in LuaType /\ y.session = x.session /\ y.id_co = x.id_co
      /\ y.at = [x.at EXCEPT ![c] = "free"] /\ y.run = Nil /\ y.mode = "fork"
      /\ y.error = x.error /\ y.fork = Append(x.fork, Nop) /\ y.watching = x.watching
      /\ y.co_id = [x.co_id EXCEPT ![c] = Nil] /\ y.address = [x.address EXCEPT ![c] = None]
      /\ y.unresponse = x.unresponse
  <2>1. y = [x EXCEPT !.co_id = [x.co_id EXCEPT ![c] = Nil],
                      !.address = [x.address EXCEPT ![c] = None],
                      !.at = [x.at EXCEPT ![c] = "free"], !.run = Nil,
                      !.mode = "fork", !.fork = Append(x.fork, Nop)]
    BY DEF Failed
  <2> HIDE DEF y
  <2>2. /\ [x.co_id EXCEPT ![c] = Nil] \in [Co -> Session \cup {Nil}]
        /\ [x.address EXCEPT ![c] = None] \in [Co -> Service \cup {None}]
        /\ [x.at EXCEPT ![c] = "free"] \in [Co -> Places]
    BY <1>1, Fields DEF Places
  <2> QED
    BY <1>1, <1>3, <2>1, <2>2 DEF LuaType, Modes
<1> HIDE DEF y
<1>5. Placed(y) /\ Calls0(x, y)
  BY <1>1, <1>4, TurnEnd DEF c
<1>6. /\ \A b \in Co : y.co_id[b] # Nil => /\ b # c /\ y.co_id[b] = x.co_id[b]
                                          /\ y.address[b] = x.address[b] /\ y.at[b] = x.at[b]
  BY <1>1, <1>4, Fields
<1>7. CASE x.co_id[c] # Nil
  <2> DEFINE v == x.address[c]
             k == x.co_id[c]
  <2>1. Answer(s, v, k, "ERROR")
    BY <1>7 DEF Raise, x, c
  <2>2. /\ v \in Service /\ k \in Session /\ Owes(callee, answers, mail[s], s, x, c, v, k)
        /\ \A b \in Co : b # c => ~ (x.co_id[b] = k /\ x.address[b] = v)
    BY <1>1, <1>7, OwesAlone DEF x, c
  <2> HIDE DEF v, k
  <2>3. Remains(x, y, {[to |-> v, k |-> k, kind |-> "ERROR", from |-> s]})
    BY <1>4, <1>6, <2>2 DEF Remains, Owes
  <2>4. \A other \in {"RESPONSE", "ERROR"} : Said(answers, s, v, k, other) => "ERROR" = other
    BY <2>2 DEF Owes
  <2>5. callee[v][k] = s /\ ~ Listed(mail[s], Request(k, v))
    BY <2>2 DEF Owes
  <2> QED
    BY <1>1, <1>2, <1>4, <1>5, <2>1, <2>2, <2>3, <2>4, <2>5, AnswerStep DEF x
<1>8. CASE x.co_id[c] = Nil
  <2>1. UNCHANGED <<mail, answers>>
    BY <1>8 DEF Raise, x, c
  <2>2. UNCHANGED <<mail, life, timers, history>>
    BY <1>1, <2>1 DEF history
  <2>3. Remains(x, y, {})
    BY <1>4, <1>6 DEF Remains
  <2> QED
    BY <1>1, <1>2, <1>4, <1>5, <2>2, <2>3, OwnStep DEF x
<1> QED
  BY <1>7, <1>8

-----------------------------------------------------------------------------
(* skynet.exit, the timer, and what becomes of the messages of a dead service *)

\* What skynet.exit sends to d: errors of requests that are owed, and one for
\* every session that waits for d.
LEMMA ReportIs ==
  ASSUME NEW s \in Service, NEW d \in Service, NEW x \in LuaType, Shape(s, x),
         NEW i \in DOMAIN Report(s, x, d)
  PROVE  LET m == Report(s, x, d)[i]
         IN  /\ m.t = "ERROR" /\ m.from = s
             /\ m.k = 0 \/ \E r \in Owed(x) : r.to = d /\ r.k = m.k
<1> DEFINE ks == {r.k : r \in {r \in Owed(x) : r.to = d}}
           n == Cardinality(ks)
           pick(j) == CHOOSE k \in ks : Cardinality({l \in ks : l < k}) = j - 1
           q == [j \in 1 .. n |-> Message("ERROR", pick(j), s)]
           e == Downs(s, x, d)
<1>1. Owed(x) \subseteq [to : Service, k : Session]
  BY Fields DEF Owed, Shape
<1>2. IsFiniteSet(ks) /\ ks \subseteq Session /\ ks \subseteq Nat
  <2>1. ks \subseteq Session
    BY <1>1
  <2> QED
    BY <2>1, SessionFinite, FS_Subset, Constants
<1>3. n \in Nat
  BY <1>2, FS_CardinalityType
<1>4. Report(s, x, d) = q \o e
  BY DEF Report
<1>5. \A k \in ks : \E r \in Owed(x) : r.to = d /\ r.k = k
  OBVIOUS
<1> HIDE DEF ks
<1>6. ASSUME NEW j \in 1 .. n PROVE pick(j) \in ks
  <2>1. \E k \in ks : Cardinality({l \in ks : l < k}) = j - 1
    BY <1>2, RankExists DEF Rank
  <2> QED
    BY <2>1
<1> HIDE DEF pick
<1>7. /\ q \in Seq(Messages) /\ DOMAIN q = 1 .. n
      /\ \A j \in DOMAIN q : q[j].t = "ERROR" /\ q[j].from = s /\ q[j].k \in ks
  <2>1. \A j \in 1 .. n : /\ Message("ERROR", pick(j), s) \in Messages
                          /\ Message("ERROR", pick(j), s).t = "ERROR"
                          /\ Message("ERROR", pick(j), s).from = s
                          /\ Message("ERROR", pick(j), s).k \in ks
    BY <1>2, <1>6 DEF Message, Messages
  <2> HIDE DEF n
  <2> QED
    BY <1>3, <2>1
<1>8. /\ e \in Seq(Messages)
      /\ \A j \in DOMAIN e : e[j].t = "ERROR" /\ e[j].from = s /\ e[j].k = 0
  BY DownsAre
<1> HIDE DEF q, e
<1>9. \/ i \in DOMAIN q /\ (q \o e)[i] = q[i]
      \/ i - Len(q) \in DOMAIN e /\ (q \o e)[i] = e[i - Len(q)]
  <2>1. i \in DOMAIN (q \o e)
    BY <1>4
  <2> QED
    BY <1>7, <1>8, <2>1, ConcatIs
<1>10. CASE i \in DOMAIN q /\ (q \o e)[i] = q[i]
  BY <1>4, <1>5, <1>7, <1>10
<1>11. CASE i - Len(q) \in DOMAIN e /\ (q \o e)[i] = e[i - Len(q)]
  BY <1>4, <1>8, <1>11
<1> QED
  BY <1>9, <1>10, <1>11

\* Nothing that s owes was answered with a result, or is still in its queue.
LEMMA OwedIs ==
  ASSUME AnswersInv, NEW s \in Service, NEW r \in Owed(lua[s])
  PROVE  /\ r \in [to : Service, k : Session]
         /\ callee[r.to][r.k] = s /\ ~ Said(answers, s, r.to, r.k, "RESPONSE")
         /\ ~ Listed(mail[s], Request(r.k, r.to))
<1> DEFINE x == lua[s]
<1>1. x \in LuaType /\ Owing(callee, answers, mail[s], s, x)
  BY Known
<1>2. CASE r \in x.unresponse
  BY <1>1, <1>2, Fields DEF Owing, Open
<1>3. ASSUME NEW c \in Co, x.co_id[c] # Nil, r = [to |-> x.address[c], k |-> x.co_id[c]]
      PROVE  /\ r \in [to : Service, k : Session]
             /\ callee[r.to][r.k] = s /\ ~ Said(answers, s, r.to, r.k, "RESPONSE")
             /\ ~ Listed(mail[s], Request(r.k, r.to))
  <2>1. /\ x.address[c] \in Service /\ x.co_id[c] \in Session
        /\ Owes(callee, answers, mail[s], s, x, c, x.address[c], x.co_id[c])
    BY <1>3, OwesAlone
  <2>2. r.to = x.address[c] /\ r.k = x.co_id[c]
    BY <1>3
  <2> QED
    BY <1>3, <2>1, <2>2 DEF Owes
<1> QED
  BY <1>2, <1>3 DEF Owed

LEMMA ExitAnswers ==
  ASSUME AnswersInv, SessionsInv', NEW s \in Service, Exit(s)
  PROVE  AnswersInv'
<1> DEFINE x == lua[s]
           y == Shut(x)
           out == [d \in Service |-> Report(s, x, d)]
           N == {[to |-> r.to, k |-> r.k, kind |-> "ERROR", from |-> s] : r \in Owed(x)}
<1>1. /\ x \in LuaType /\ Shape(s, x) /\ Placed(x) /\ x.mode = "run" /\ x.session \in Nat
  BY Known, Fields DEF Exit, Calls, Running
<1>2. /\ UNCHANGED <<timers, callee, outcome>> /\ Become(s, y)
      /\ Deliver(out) /\ life' = [life EXCEPT ![s] = "exited"]
      /\ life[s] = "up" /\ answers' = answers \cup N
  BY DEF Exit
<1>3. \A a \in N : /\ a \in [to : Service, k : Session, kind : {"RESPONSE", "ERROR"}, from : {s}]
                  /\ a.kind = "ERROR" /\ callee[a.to][a.k] = s
                  /\ ~ Said(answers, s, a.to, a.k, "RESPONSE")
                  /\ ~ Listed(mail[s], Request(a.k, a.to))
  BY OwedIs
<1>4. \A r \in Owed(x) : [to |-> r.to, k |-> r.k, kind |-> "ERROR", from |-> s] \in N
  OBVIOUS
<1>5. /\ out \in [Service -> Seq(Messages)]
      /\ \A u \in Service : out[u] = Report(s, x, u)
  BY <1>1, ReportTyped
<1> HIDE DEF N, out
<1>6. \A u \in Service : \A i \in DOMAIN out[u] :
        /\ out[u][i].t = "ERROR" /\ out[u][i].from = s
        /\ out[u][i].k = 0 \/ \E r \in Owed(x) : r.to = u /\ r.k = out[u][i].k
  BY <1>1, <1>5, ReportIs
<1> HIDE DEF x
<1> DEFINE closed == [c \in Co |-> IF x.at[c] \in {"free", "fork"} THEN "free" ELSE "closed"]
<1>7. y = [x EXCEPT !.fork = << >>, !.unresponse = {}, !.run = Nil, !.mode = "fork",
                    !.at = closed]
  BY DEF Shut
<1>8. closed \in [Co -> Places]
  BY DEF Places
<1> HIDE DEF y, closed
<1>9. /\ y \in LuaType /\ y.session = x.session /\ y.at = closed /\ y.run = Nil
      /\ y.mode = "fork" /\ y.co_id = x.co_id /\ y.address = x.address
      /\ y.id_co = x.id_co /\ y.fork = << >> /\ y.unresponse = {} /\ y.error = x.error
      /\ y.watching = x.watching
  <2>1. /\ << >> \in Seq(Co \cup {Nop}) /\ {} \in SUBSET [to : Service, k : Session]
        /\ Nil \in Co \cup {Nil} /\ "fork" \in Modes
    BY DEF Modes
  <2> QED
    BY <1>1, <1>7, <1>8, <2>1 DEF LuaType
<1>10. \A c \in Co : y.at[c] = IF x.at[c] \in {"free", "fork"} THEN "free" ELSE "closed"
  BY <1>9 DEF closed
<1>11. Placed(y)
  BY <1>1, <1>9, <1>10, QEmpty DEF Placed
<1>12. Calls0(x, y)
  BY <1>1, <1>9, <1>10 DEF Calls0
<1>13. Remains(x, y, N)
  BY <1>1, <1>3, <1>9, <1>10 DEF Remains, Placed
<1>14. Same(y, lua'[s]) /\ \A u \in Service \ {s} : lua'[u] = lua[u]
  BY <1>2, <1>9, Becomes DEF AnswersInv
<1>15. life'[s] = "exited" /\ \A u \in Service \ {s} : life'[u] = life[u]
  BY <1>2 DEF AnswersInv, SessionsInv
<1>16. Adds(s, N)
  <2>1. callee \in [Service -> [Session -> Service \cup {None}]]
    BY DEF AnswersInv, Told
  <2>2. lua[s].session <= lua'[s].session
    BY <1>1, <1>9, <1>14 DEF Same, x
  <2> QED
    BY <1>2, <1>3, <1>14, <1>15, <2>1, <2>2 DEF Adds
<1>17. Rightly(s, N) /\ Unasked(mail[s], N) /\ Returns(s)
  BY <1>2, <1>3, NoReturn DEF Rightly, Unasked
<1>18. ASSUME NEW u \in Service, NEW m, Listed(out[u], m)
       PROVE  m.t # "REQUEST" /\ Mailed(callee', answers', life', lua'[u].session, u, m)
  <2>1. /\ m.t = "ERROR" /\ m.from = s
        /\ m.k = 0 \/ \E r \in Owed(x) : r.to = u /\ r.k = m.k
    BY <1>6, <1>18 DEF Listed
  <2>2. CASE m.k = 0
    BY <1>15, <2>1, <2>2 DEF Mailed
  <2>3. ASSUME NEW r \in Owed(x), r.to = u, r.k = m.k
        PROVE  callee'[u][m.k] = s /\ Said(answers', s, u, m.k, "ERROR")
    BY <1>2, <1>4, <2>3, OwedIs DEF Said, x
  <2> QED
    BY <2>1, <2>2, <2>3 DEF Mailed
<1>19. \A u \in Service : /\ Single(mail'[u])
                         /\ \A i \in DOMAIN mail'[u] : Comes(u, mail'[u][i])
  <2> TAKE u \in Service
  <2>1. /\ Single(mail'[u])
        /\ \A i \in DOMAIN mail'[u] : \/ Listed(mail[u], mail'[u][i])
                                      \/ life[u] = "up" /\ Listed(out[u], mail'[u][i])
    BY <1>2, <1>5, <1>6, Sends
  <2> QED
    BY <1>18, <2>1 DEF Comes
<1>20. Calling(callee', answers', life', timers'[s], s, y)
  BY <1>2, <1>9, <1>12, <1>15, <1>16, CallingStays DEF x
<1>21. Owing(callee', answers', mail'[s], s, y)
  <2>1. {a \in N : a.from = s} = N
    BY <1>3
  <2> QED
    BY <1>13, <1>16, <1>19, <2>1, OwingStays DEF x
<1> QED
  BY <1>11, <1>14, <1>16, <1>17, <1>19, <1>20, <1>21, AnswersStep

LEMMA ReleaseAnswers ==
  ASSUME AnswersInv, SessionsInv', NEW s \in Service, Release(s)
  PROVE  AnswersInv'
<1> DEFINE y == [New EXCEPT !.at = [c \in Co |-> "free"], !.id_co = [k \in Session |-> Nil]]
<1>1. /\ Become(s, y) /\ timers' = [timers EXCEPT ![s] = {}]
      /\ life' = [life EXCEPT ![s] = "freed"] /\ UNCHANGED <<mail, callee, answers, outcome>>
      /\ life \in [Service -> {"up", "exited", "freed"}] /\ timers \in [Service -> SUBSET Session]
  BY DEF Release, history, AnswersInv, SessionsInv
<1>2. /\ y \in LuaType /\ y.mode = "idle" /\ y.at = [c \in Co |-> "free"]
      /\ y.co_id = [c \in Co |-> Nil] /\ y.id_co = [k \in Session |-> Nil]
      /\ y.fork = << >> /\ y.error = << >> /\ y.unresponse = {}
      /\ y.watching = [k \in Session |-> None]
  <2>1. [c \in Co |-> "free"] \in [Co -> Places]
    BY DEF Places
  <2>2. [k \in Session |-> Nil] \in [Session -> Co \cup {Nil, Break}]
    OBVIOUS
  <2>3. New.unresponse = {}
    BY DEF New
  <2> QED
    BY <2>1, <2>2, <2>3, NewIs DEF LuaType
<1> HIDE DEF y
<1>3. /\ life'[s] = "freed" /\ timers'[s] = {}
      /\ \A u \in Service \ {s} : life'[u] = life[u] /\ timers'[u] = timers[u]
  BY <1>1
<1>4. Same(y, lua'[s]) /\ \A u \in Service \ {s} : lua'[u] = lua[u]
  BY <1>1, <1>2, Becomes DEF AnswersInv
<1>5. Adds(s, {})
  <2>1. callee \in [Service -> [Session -> Service \cup {None}]]
    BY DEF AnswersInv, Told
  <2> QED
    BY <1>1, <1>3, <1>4, <2>1 DEF Adds
<1>6. Rightly(s, {}) /\ Unasked(mail[s], {}) /\ Returns(s)
  BY <1>1, NoReturn DEF Rightly, Unasked
<1>7. /\ \A k \in Session : y.id_co[k] \notin Co /\ y.watching[k] = None
      /\ \A c \in Co : y.co_id[c] = Nil
  BY <1>2, Constants DEF Nil
<1>8. Placed(y)
  BY <1>2, <1>7, QEmpty DEF Placed
<1>9. Calling(callee', answers', life', timers'[s], s, y)
  BY <1>2, <1>3, <1>7, QEmpty DEF Calling
<1>10. Owing(callee', answers', mail'[s], s, y)
  BY <1>2, <1>7 DEF Owing
<1>11. \A u \in Service : /\ Single(mail'[u])
                         /\ \A i \in DOMAIN mail'[u] : Comes(u, mail'[u][i])
  BY <1>1, MailSame DEF MailKept, Comes
<1> QED
  BY <1>4, <1>5, <1>6, <1>8, <1>9, <1>10, <1>11, AnswersStep

\* A step that sends what is no request, and changes no Lua state.
LEMMA MailAnswers ==
  ASSUME AnswersInv, SessionsInv', NEW s \in Service,
         UNCHANGED <<lua, life, callee, answers, outcome>>,
         \A u \in Service \ {s} : timers'[u] = timers[u], timers'[s] \subseteq timers[s],
         \A u \in Service : /\ Single(mail'[u])
                            /\ \A i \in DOMAIN mail'[u] : Comes(u, mail'[u][i])
  PROVE  AnswersInv'
<1> DEFINE y == lua[s]
<1>1. /\ y \in LuaType /\ Placed(y) /\ y.session \in Nat
      /\ Calling(callee, answers, life, timers[s], s, y)
  BY Known, Fields
<1>2. UNCHANGED <<callee, answers, outcome>>
  OBVIOUS
<1>3. Same(y, lua'[s])
  BY DEF Same
<1>4. Adds(s, {})
  <2>1. callee \in [Service -> [Session -> Service \cup {None}]]
    BY DEF AnswersInv, Told
  <2> QED
    BY <1>1, <1>2, <2>1 DEF Adds
<1>5. Rightly(s, {}) /\ Unasked(mail[s], {}) /\ Returns(s)
  BY <1>2, NoReturn DEF Rightly, Unasked
<1>6. Calling(callee', answers', life', timers'[s], s, y)
  <2>1. Calls0(y, y)
    BY <1>1 DEF Calls0
  <2> QED
    BY <1>1, <1>2, <1>4, <2>1, CallingStays
<1>7. Owing(callee', answers', mail'[s], s, y)
  <2>1. Remains(y, y, {}) /\ {a \in {} : a.from = s} = {}
    BY DEF Remains
  <2> QED
    BY <1>4, <2>1, OwingStays
<1> HIDE DEF y
<1> QED
  BY <1>1, <1>3, <1>4, <1>5, <1>6, <1>7, AnswersStep

LEMMA TimerAnswers ==
  ASSUME AnswersInv, SessionsInv', NEW s \in Service, NEW k \in Session, Timer(s, k)
  PROVE  AnswersInv'
<1> DEFINE m == Message("RESPONSE", k, None)
<1>1. /\ k \in timers[s] /\ timers' = [timers EXCEPT ![s] = @ \ {k}]
      /\ Deliver(To(s, m)) /\ UNCHANGED <<lua, life, history>>
      /\ timers \in [Service -> SUBSET Session]
  BY DEF Timer, AnswersInv, SessionsInv
<1>2. m \in Messages /\ m.t = "RESPONSE" /\ m.k = k /\ m.from = None
  BY DEF Message, Messages
<1> HIDE DEF m
<1>3. Mailed(callee', answers', life', lua'[s].session, s, m)
  <2>1. callee[s][k] = None /\ k <= lua[s].session
    BY <1>1, Known DEF Calling
  <2>2. callee' = callee
    BY <1>1 DEF history
  <2> QED
    BY <1>1, <1>2, <2>1, <2>2 DEF Mailed
<1>4. \A u \in Service : /\ Single(mail'[u])
                        /\ \A i \in DOMAIN mail'[u] : Comes(u, mail'[u][i])
  <2> TAKE u \in Service
  <2>1. /\ Single(mail'[u])
        /\ \A i \in DOMAIN mail'[u] : \/ Listed(mail[u], mail'[u][i])
                                      \/ u = s /\ life[u] = "up" /\ mail'[u][i] = m
    BY <1>1, <1>2, SendsOne
  <2> QED
    BY <1>2, <1>3, <2>1 DEF Comes
<1> QED
  BY <1>1, <1>4, MailAnswers DEF history

LEMMA DropAnswers ==
  ASSUME AnswersInv, SessionsInv', NEW s \in Service, Drop(s)
  PROVE  AnswersInv'
<1> DEFINE h == Head(mail[s])
           m == Message("ERROR", 0, s)
<1>1. /\ UNCHANGED <<lua, life, timers, callee, answers, outcome>> /\ life[s] = "freed"
      /\ mail \in [Service -> Seq(Messages)] /\ mail[s] # << >>
      /\ mail' = [d \in Service |->
                    IF d = s THEN Tail(mail[s])
                    ELSE IF d = h.from /\ life[d] = "up" THEN Append(mail[d], m) ELSE mail[d]]
  BY DEF Drop, AnswersInv, SessionsInv
<1>2. m \in Messages /\ m.t = "ERROR" /\ m.k = 0 /\ m.from = s
  BY DEF Message, Messages
<1> HIDE DEF m, h
<1>3. \A u \in Service : Mailed(callee', answers', life', lua'[u].session, u, m)
  BY <1>1, <1>2 DEF Mailed
<1>4. \A u \in Service : /\ Single(mail'[u])
                        /\ \A i \in DOMAIN mail'[u] : Comes(u, mail'[u][i])
  <2> TAKE u \in Service
  <2>1. mail[u] \in Seq(Messages) /\ Single(mail[u])
    BY Known
  <2>2. CASE mail'[u] = Tail(mail[s]) /\ u = s
    BY <1>1, <2>1, <2>2, SingleTail DEF Comes
  <2>3. CASE mail'[u] = Append(mail[u], m)
    <3>1. /\ Single(mail'[u])
          /\ \A i \in DOMAIN mail'[u] : Listed(mail[u], mail'[u][i]) \/ mail'[u][i] = m
      BY <1>2, <2>1, <2>3, SingleAppend
    <3> QED
      BY <1>2, <1>3, <3>1 DEF Comes
  <2>4. CASE mail'[u] = mail[u]
    BY <2>1, <2>4 DEF Comes, Listed
  <2> QED
    BY <1>1, <2>2, <2>3, <2>4
<1> QED
  BY <1>1, <1>4, MailAnswers

-----------------------------------------------------------------------------
(* The callback                                                             *)

\* The first message leaves the queue.
LEMMA Taken ==
  ASSUME AnswersInv, NEW s \in Service, Take(s)
  PROVE  LET m == Head(mail[s])
         IN  /\ m \in Messages /\ Listed(mail[s], m) /\ MailKept
             /\ Mailed(callee, answers, life, lua[s].session, s, m)
             /\ m.t = "REQUEST" => ~ Listed(mail'[s], m)
             /\ UNCHANGED <<life, timers, callee, answers>>
             /\ life[s] # "freed" /\ lua[s].mode = "idle"
<1> DEFINE q == mail[s]
<1>1. /\ q \in Seq(Messages) /\ Single(q) /\ q # << >>
      /\ mail' = [mail EXCEPT ![s] = Tail(q)] /\ mail \in [Service -> Seq(Messages)]
      /\ UNCHANGED <<life, timers, callee, answers>>
      /\ life[s] # "freed" /\ lua[s].mode = "idle"
  BY Known DEF Take, AnswersInv, SessionsInv
<1>2. mail'[s] = Tail(q) /\ \A u \in Service \ {s} : mail'[u] = mail[u]
  BY <1>1
<1>3. \A u \in Service : Single(mail[u]) /\ \A i \in DOMAIN mail[u] : Listed(mail[u], mail[u][i])
  BY DEF AnswersInv, Listed
<1>4. \A i \in DOMAIN q : Mailed(callee, answers, life, lua[s].session, s, q[i])
  BY DEF AnswersInv
<1>5. /\ Single(Tail(q)) /\ Head(q) \in Messages /\ Listed(q, Head(q))
      /\ \A i \in DOMAIN Tail(q) : Listed(q, Tail(q)[i])
      /\ Head(q).t = "REQUEST" => ~ Listed(Tail(q), Head(q))
  <2> HIDE DEF q
  <2> QED
    BY <1>1, SingleTail
<1>6. MailKept
  BY <1>2, <1>3, <1>5 DEF MailKept
<1>7. Mailed(callee, answers, life, lua[s].session, s, Head(q))
  BY <1>4, <1>5 DEF Listed
<1> QED
  BY <1>1, <1>2, <1>5, <1>6, <1>7

\* y is x with the coroutine c, which waited in session k, resumed or in vain.
Resumed(x, y, c, k, v) ==
    /\ x.mode \notin {"run", "dead"} /\ x.id_co[k] = c
    /\ v \in {Nil, Break} /\ y.id_co = [x.id_co EXCEPT ![k] = v]
    /\ \/ x.at[c] # "closed" /\ y.at = [x.at EXCEPT ![c] = "run"] /\ y.mode = "run"
       \/ y.at = x.at /\ y.mode = "dead"
    /\ y.run = c /\ Alike(x, y)
    /\ y.watching \in {x.watching, [x.watching EXCEPT ![k] = None]}
    /\ \A j \in Session : Listed(y.error, j) => Listed(x.error, j)

LEMMA ResumeAnswers ==
  ASSUME AnswersInv, SessionsInv', NEW s \in Service, NEW y \in LuaType, Become(s, y),
         UNCHANGED <<life, timers, callee, answers>>, life[s] # "freed", MailKept, Returns(s),
         NEW c \in Co, NEW k \in Session, NEW v, Resumed(lua[s], y, c, k, v)
  PROVE  AnswersInv'
<1> DEFINE x == lua[s]
<1>1. x \in LuaType /\ Placed(x)
  BY Known
<1>2. /\ x.mode \notin {"run", "dead"} /\ x.id_co[k] = c /\ y.id_co = [x.id_co EXCEPT ![k] = v]
      /\ \/ x.at[c] # "closed" /\ y.at = [x.at EXCEPT ![c] = "run"] /\ y.mode = "run"
         \/ y.at = x.at /\ y.mode = "dead"
      /\ Alike(x, y) /\ y.watching \in {x.watching, [x.watching EXCEPT ![k] = None]}
      /\ y.run = c /\ v \in {Nil, Break}
      /\ \A j \in Session : Listed(y.error, j) => Listed(x.error, j)
  BY DEF Resumed
<1> HIDE DEF x
<1>3. Nil \notin Co /\ Break \notin Co
  BY Constants DEF Nil, Break
<1>4. \A j \in Session : y.id_co[j] = IF j = k THEN v ELSE x.id_co[j]
  BY <1>1, <1>2, Fields
<1>5. Leads(x, y) /\ \A j \in Session : y.id_co[j] # c
  BY <1>1, <1>2, <1>3, <1>4 DEF Leads, Placed
<1>6. x.at[c] \notin {"free", "fork"}
  BY <1>1, <1>2 DEF Placed
<1>7. \A j \in Session : y.watching[j] # None => y.watching[j] = x.watching[j]
  BY <1>1, <1>2, Fields
<1>8. y.session = x.session /\ y.fork = x.fork /\ Requests(x, y)
  BY <1>2 DEF Alike, Requests
<1>9. Placed(y) /\ Calls0(x, y) /\ Remains(x, y, {})
  BY <1>1, <1>2, <1>5, <1>6, <1>7, <1>8, TurnResume
<1> QED
  BY <1>2, <1>9, QuietStep DEF x

\* No coroutine is resumed.
LEMMA IdleAnswers ==
  ASSUME AnswersInv, SessionsInv', NEW s \in Service, NEW y \in LuaType, Become(s, y),
         UNCHANGED <<life, timers, callee, answers>>, life[s] # "freed", MailKept, Returns(s),
         lua[s].mode \notin {"run", "dead"}, y.mode \notin {"run", "dead"},
         Leads(lua[s], y), y.at = lua[s].at, y.run = lua[s].run, y.session = lua[s].session,
         Forked(lua[s], y), y.co_id = lua[s].co_id, y.address = lua[s].address,
         y.unresponse \subseteq lua[s].unresponse, y.watching = lua[s].watching,
         \A j \in Session : Listed(y.error, j) =>
           Listed(lua[s].error, j) \/ Broken(callee, answers, life, s, j)
  PROVE  AnswersInv'
<1> DEFINE x == lua[s]
<1>1. x \in LuaType /\ Placed(x) /\ x.session \in Nat
  BY Known, Fields
<1>2. /\ x.mode \notin {"run", "dead"} /\ y.at = x.at /\ y.run = x.run /\ y.session = x.session
      /\ Leads(x, y) /\ Forked(x, y) /\ y.co_id = x.co_id /\ y.address = x.address
      /\ y.unresponse \subseteq x.unresponse /\ y.watching = x.watching
  OBVIOUS
<1> HIDE DEF x
<1>3. Placed(y) /\ Calls0(x, y)
  <2>1. x.mode # "dead" /\ x.session <= y.session
    BY <1>1, <1>2
  <2> QED
    BY <1>1, <1>2, <2>1, TurnSame
<1>4. Remains(x, y, {})
  BY <1>2 DEF Remains
<1> QED
  BY <1>3, <1>4, QuietStep DEF x

\* A call returns in session k.
LEMMA Outcomes ==
  ASSUME AnswersInv, NEW s \in Service, NEW k \in Session, NEW how,
         outcome' = [outcome EXCEPT ![s][k] = how],
         \/ /\ how = "ok" /\ callee[s][k] # None
            /\ Said(answers, callee[s][k], s, k, "RESPONSE")
         \/ how = "error" /\ Broken(callee, answers, life, s, k)
  PROVE  Returns(s)
<1>1. outcome \in [Service -> [Session -> {"-", "ok", "error"}]]
  BY DEF AnswersInv, Told
<1>2. /\ outcome' \in [Service -> [Session -> {"-", "ok", "error"}]]
      /\ \A u \in Service, j \in Session :
           outcome'[u][j] = IF u = s /\ j = k THEN how ELSE outcome[u][j]
  BY <1>1
<1> QED
  BY <1>2 DEF Returns

\* A call that gets a response gets the answer of its callee: the timer does
\* not answer the session of a call.
LEMMA TakeResponseAnswers ==
  ASSUME AnswersInv, SessionsInv', NEW s \in Service, Take(s), Head(mail[s]).t = "RESPONSE",
         TakeResponse(s, Head(mail[s]).k)
  PROVE  AnswersInv'
<1> DEFINE m == Head(mail[s])
           k == m.k
           x == lua[s]
           c == x.id_co[k]
           z == [x EXCEPT !.id_co[k] = Nil]
<1>1. /\ m \in Messages /\ Mailed(callee, answers, life, x.session, s, m) /\ m.t = "RESPONSE"
      /\ UNCHANGED <<life, timers, callee, answers>> /\ MailKept
      /\ life[s] # "freed" /\ x.mode = "idle"
      /\ x \in LuaType /\ Placed(x) /\ Calling(callee, answers, life, timers[s], s, x)
  BY Taken, Known
<1>2. \/ c \in {Break, Nil} /\ Become(s, z) /\ UNCHANGED outcome
      \/ c \in Co /\ z.at[c] = "closed" /\ Become(s, Dead(z, c)) /\ UNCHANGED outcome
      \/ c \in Co /\ z.at[c] = "start" /\ Become(s, Run(z, c)) /\ UNCHANGED outcome
      \/ c \in Co /\ z.at[c] = "sleep" /\ Become(s, Awake(z, c)) /\ UNCHANGED outcome
      \/ c \in Co /\ z.at[c] = "call" /\ Become(s, [Run(z, c) EXCEPT !.watching[k] = None])
         /\ outcome' = [outcome EXCEPT ![s][k] = "ok"]
  BY DEF TakeResponse, Returned
<1>3. k \in Session /\ (m.from = None \/ m.from \in Service)
  BY <1>1 DEF Messages
<1>4. c \in Co /\ x.at[c] = "call"
      => callee[s][k] # None /\ Said(answers, callee[s][k], s, k, "RESPONSE")
  BY <1>1, <1>3 DEF Calling, Mailed
<1> HIDE DEF m, k, x
<1>5. /\ z \in LuaType /\ Alike(x, z) /\ z.id_co = [x.id_co EXCEPT ![k] = Nil]
      /\ z.at = x.at /\ z.run = x.run /\ z.mode = x.mode
      /\ z.error = x.error /\ z.watching = x.watching
  BY <1>1 DEF LuaType, Alike
<1>6. c = x.id_co[k]
  OBVIOUS
<1> HIDE DEF z, c
<1>7. UNCHANGED outcome => Returns(s)
  BY NoReturn
<1>8. Nil \in {Nil, Break}
  OBVIOUS
<1>9. CASE Become(s, z) /\ UNCHANGED outcome
  <2>1. Nil \notin Co
    BY Constants DEF Nil
  <2>2. Leads(x, z) /\ Forked(x, z)
    BY <1>1, <1>3, <1>5, <2>1, Fields DEF Leads, Forked, Placed, Alike
  <2>3. /\ x.mode \notin {"run", "dead"} /\ z.mode \notin {"run", "dead"}
        /\ z.session = x.session /\ z.co_id = x.co_id /\ z.address = x.address
        /\ z.unresponse \subseteq x.unresponse
    BY <1>1, <1>5 DEF Alike
  <2>4. UNCHANGED <<life, timers, callee, answers>> /\ life[s] # "freed" /\ MailKept /\ Returns(s)
    BY <1>1, <1>7, <1>9
  <2> QED
    BY <1>5, <1>9, <2>2, <2>3, <2>4, IdleAnswers DEF x
<1>10. ASSUME NEW y \in LuaType, Become(s, y), Returns(s), c \in Co, y.run = c,
              \/ x.at[c] # "closed" /\ y.at = [x.at EXCEPT ![c] = "run"] /\ y.mode = "run"
              \/ y.at = x.at /\ y.mode = "dead",
              Alike(z, y), y.id_co = z.id_co, y.error = z.error,
              y.watching \in {z.watching, [z.watching EXCEPT ![k] = None]}
       PROVE  AnswersInv'
  <2>1. /\ Alike(x, y) /\ y.id_co = [x.id_co EXCEPT ![k] = Nil] /\ y.error = x.error
        /\ y.watching \in {x.watching, [x.watching EXCEPT ![k] = None]}
    BY <1>5, <1>10 DEF Alike
  <2>2. x.mode \notin {"run", "dead"} /\ x.id_co[k] = c
    BY <1>1, <1>6
  <2>3. Resumed(x, y, c, k, Nil)
    BY <1>8, <1>10, <2>1, <2>2 DEF Resumed
  <2>4. UNCHANGED <<life, timers, callee, answers>> /\ life[s] # "freed" /\ MailKept
    BY <1>1
  <2> QED
    BY <1>3, <1>10, <2>3, <2>4, ResumeAnswers DEF x
<1>11. CASE c \in Co /\ z.at[c] = "closed" /\ Become(s, Dead(z, c)) /\ UNCHANGED outcome
  <2> DEFINE y == [z EXCEPT !.run = c, !.mode = "dead"]
  <2>1. Become(s, y)
    BY <1>11 DEF Dead
  <2>2. /\ y \in LuaType /\ Alike(z, y) /\ y.at = z.at /\ y.run = c /\ y.mode = "dead"
        /\ y.id_co = z.id_co /\ y.error = z.error /\ y.watching = z.watching
    BY <1>5, <1>11 DEF LuaType, Alike, Modes
  <2> HIDE DEF y
  <2> QED
    BY <1>5, <1>7, <1>10, <1>11, <2>1, <2>2
<1>12. CASE c \in Co /\ z.at[c] = "start" /\ Become(s, Run(z, c)) /\ UNCHANGED outcome
  <2> DEFINE y == Run(z, c)
  <2>1. /\ y \in LuaType /\ Alike(z, y) /\ y.id_co = z.id_co
        /\ y.at = [z.at EXCEPT ![c] = "run"] /\ y.run = c /\ y.mode = "run"
        /\ y.error = z.error /\ y.watching = z.watching
    BY <1>5, <1>12, RunIs
  <2>2. Become(s, y)
    BY <1>12
  <2> HIDE DEF y
  <2> QED
    BY <1>5, <1>7, <1>10, <1>12, <2>1, <2>2
<1>13. CASE c \in Co /\ z.at[c] = "sleep" /\ Become(s, Awake(z, c)) /\ UNCHANGED outcome
  <2> DEFINE y == Awake(z, c)
  <2>1. /\ y \in LuaType /\ Alike(z, y) /\ y.id_co = z.id_co
        /\ y.at = [z.at EXCEPT ![c] = "run"] /\ y.run = c /\ y.mode = "run"
        /\ y.error = z.error /\ y.watching = z.watching
    BY <1>5, <1>13, AwakeIs DEF Awoken
  <2>2. Become(s, y)
    BY <1>13
  <2> HIDE DEF y
  <2> QED
    BY <1>5, <1>7, <1>10, <1>13, <2>1, <2>2
<1>14. CASE c \in Co /\ z.at[c] = "call" /\ Become(s, [Run(z, c) EXCEPT !.watching[k] = None])
            /\ outcome' = [outcome EXCEPT ![s][k] = "ok"]
  <2> DEFINE y == [Run(z, c) EXCEPT !.watching[k] = None]
  <2>1. /\ y \in LuaType /\ Alike(z, y) /\ y.id_co = z.id_co
        /\ y.at = [z.at EXCEPT ![c] = "run"] /\ y.run = c /\ y.mode = "run"
        /\ y.wakeup = z.wakeup /\ y.error = z.error /\ y.sleep = z.sleep
        /\ y.current = z.current /\ y.ref = z.ref
        /\ y.watching = [z.watching EXCEPT ![k] = None]
    <3>1. z \in LuaType /\ c \in Co /\ k \in Session
      BY <1>3, <1>5, <1>14
    <3> QED
      BY <3>1, ReturnedIs
  <2>2. Become(s, y)
    BY <1>14
  <2>3. Returns(s)
    BY <1>3, <1>4, <1>5, <1>14, Outcomes
  <2> HIDE DEF y
  <2> QED
    BY <1>5, <1>10, <1>14, <2>1, <2>2, <2>3
<1> QED
  BY <1>2, <1>9, <1>11, <1>12, <1>13, <1>14

\* A request that is taken is owed by the coroutine that is made for it.
LEMMA TakeRequestAnswers ==
  ASSUME AnswersInv, SessionsInv', NEW s \in Service, Take(s), Head(mail[s]).t = "REQUEST",
         TakeRequest(s, Head(mail[s])), UNCHANGED outcome
  PROVE  AnswersInv'
<1> DEFINE m == Head(mail[s])
           x == lua[s]
           c == NewCo(x)
           r == Run(x, c)
           y == [r EXCEPT !.co_id[c] = m.k, !.address[c] = m.from]
           q == mail[s]
           p == mail'[s]
<1>1. /\ m \in Messages /\ Mailed(callee, answers, life, x.session, s, m) /\ m.t = "REQUEST"
      /\ Listed(q, m) /\ ~ Listed(p, m)
      /\ UNCHANGED <<life, timers, callee, answers>> /\ MailKept
      /\ life[s] # "freed" /\ x.mode = "idle"
      /\ x \in LuaType /\ Placed(x) /\ Owing(callee, answers, q, s, x)
  BY Taken, Known
<1>2. Become(s, y) /\ Free(x) # {}
  BY DEF TakeRequest
<1>3. \A v : Listed(p, v) => Listed(q, v)
  BY <1>1 DEF MailKept, Listed
<1> HIDE DEF x, m, q, p
<1>4. /\ m.k \in Session /\ m.from \in Service /\ m = Request(m.k, m.from)
      /\ Open(callee, answers, s, m.from, m.k)
  BY <1>1 DEF Messages, Mailed, Request, Message
<1>5. c \in Co /\ x.at[c] = "free"
  BY <1>1, <1>2, NewCoIn
<1> HIDE DEF c
<1>6. /\ r \in LuaType /\ Alike(x, r) /\ r.id_co = x.id_co
      /\ r.at = [x.at EXCEPT ![c] = "run"] /\ r.run = c /\ r.mode = "run"
      /\ r.error = x.error /\ r.watching = x.watching
  BY <1>1, <1>5, RunIs
<1> HIDE DEF r
<1>7. /\ y \in LuaType /\ y.co_id = [r.co_id EXCEPT ![c] = m.k]
      /\ y.address = [r.address EXCEPT ![c] = m.from]
      /\ y.session = r.session /\ y.fork = r.fork /\ y.id_co = r.id_co /\ y.at = r.at
      /\ y.run = r.run /\ y.mode = r.mode /\ y.error = r.error /\ y.watching = r.watching
      /\ y.unresponse = r.unresponse
  BY <1>4, <1>5, <1>6 DEF LuaType
<1> HIDE DEF y
<1>8. /\ y.at = [x.at EXCEPT ![c] = "run"] /\ y.run = c /\ y.mode = "run"
      /\ y.id_co = x.id_co /\ y.session = x.session /\ y.watching = x.watching
      /\ y.fork = x.fork /\ y.error = x.error /\ y.unresponse = x.unresponse
  BY <1>6, <1>7 DEF Alike
<1>9. /\ y.co_id[c] = m.k /\ y.address[c] = m.from /\ y.at[c] = "run"
      /\ \A b \in Co : b # c => /\ y.co_id[b] = x.co_id[b] /\ y.address[b] = x.address[b]
                                /\ y.at[b] = x.at[b]
  <2>1. /\ x.co_id = r.co_id /\ x.address = r.address
    BY <1>6 DEF Alike
  <2> QED
    BY <1>1, <1>4, <1>5, <1>7, <1>8, <2>1, Fields
<1>10. Placed(y) /\ Calls0(x, y)
  <2>1. Forked(x, y) /\ ~ Listed(y.fork, c)
    BY <1>1, <1>5, <1>8 DEF Forked, Placed
  <2>2. x.mode \notin {"run", "dead"} /\ x.at[c] \in {"free", "fork"}
    BY <1>1, <1>5
  <2> QED
    BY <1>1, <1>5, <1>7, <1>8, <1>9, <2>1, <2>2, TurnBegin
<1>11. Owing(callee, answers, p, s, y)
  <2>1. ASSUME NEW b \in Co, y.co_id[b] # Nil
        PROVE  Owes(callee, answers, p, s, y, b, y.address[b], y.co_id[b])
    <3>1. CASE b = c
      <4>1. [to |-> m.from, k |-> m.k] \notin y.unresponse
        <5> SUFFICES ASSUME [to |-> m.from, k |-> m.k] \in x.unresponse PROVE FALSE
          BY <1>8
        <5>1. ~ Listed(q, Request(m.k, m.from))
          BY <1>1 DEF Owing
        <5> QED
          BY <1>1, <1>4, <5>1
      <4> QED
        BY <1>1, <1>4, <1>9, <3>1, <4>1 DEF Owes, Open
    <3>2. CASE b # c
      BY <1>1, <1>3, <1>8, <1>9, <2>1, <3>2 DEF Owing, Owes
    <3> QED
      BY <3>1, <3>2
  <2>2. ASSUME NEW a \in Co, NEW b \in Co, y.co_id[a] # Nil, y.co_id[a] = y.co_id[b],
               y.address[a] = y.address[b]
        PROVE  a = b
    <3>1. ASSUME NEW d \in Co, d # c, x.co_id[d] # Nil
          PROVE  ~ (x.co_id[d] = m.k /\ x.address[d] = m.from)
      <4>1. ~ Listed(q, Request(x.co_id[d], x.address[d]))
        BY <1>1, <3>1 DEF Owing, Owes
      <4> QED
        BY <1>1, <1>4, <4>1
    <3> QED
      BY <1>1, <1>9, <2>2, <3>1 DEF Owing
  <2>3. \A o \in y.unresponse : /\ Open(callee, answers, s, o.to, o.k)
                                /\ ~ Listed(p, Request(o.k, o.to))
    BY <1>1, <1>3, <1>8 DEF Owing
  <2> QED
    BY <2>1, <2>2, <2>3 DEF Owing
<1>12. UNCHANGED timers /\ Returns(s)
  BY <1>1, NoReturn
<1> QED
  BY <1>1, <1>2, <1>7, <1>8, <1>10, <1>11, <1>12, QuietStep DEF x, p, y

\* The errors that a message adds are of calls that fail rightly.
LEMMA TakeErrorAnswers ==
  ASSUME AnswersInv, SessionsInv', NEW s \in Service, Take(s), Head(mail[s]).t = "ERROR",
         TakeError(s, Head(mail[s])), UNCHANGED outcome
  PROVE  AnswersInv'
<1> DEFINE m == Head(mail[s])
           x == lua[s]
<1>1. /\ m \in Messages /\ Mailed(callee, answers, life, x.session, s, m) /\ m.t = "ERROR"
      /\ UNCHANGED <<life, timers, callee, answers>> /\ MailKept
      /\ life[s] # "freed" /\ x.mode = "idle"
      /\ x \in LuaType /\ Placed(x) /\ Calling(callee, answers, life, timers[s], s, x)
  BY Taken, Known
<1>2. IF m.k # 0
      THEN Become(s, [x EXCEPT !.mode = "chain",
                               !.error = IF x.watching[m.k] # None THEN Append(@, m.k) ELSE @])
      ELSE \E q \in [1 .. Cardinality(Watched(s, x, m.from)) -> Watched(s, x, m.from)] :
             /\ {q[i] : i \in DOMAIN q} = Watched(s, x, m.from)
             /\ Become(s, [x EXCEPT !.mode = "chain", !.error = @ \o q,
                                    !.unresponse = {r \in @ : r.to # m.from}])
  BY DEF TakeError
<1> HIDE DEF x, m
<1>3. m.from \in Service /\ m.k \in Session \cup {0} /\ None \notin Service
  BY <1>1, Constants DEF Messages
<1>4. x.error \in Seq(Session) /\ x.unresponse \in SUBSET [to : Service, k : Session]
  BY <1>1, Fields
<1>5. ASSUME NEW e \in Seq(Session), NEW u \in SUBSET [to : Service, k : Session],
             u \subseteq x.unresponse,
             Become(s, [x EXCEPT !.mode = "chain", !.error = e, !.unresponse = u]),
             \A j \in Session : Listed(e, j) =>
               Listed(x.error, j) \/ Broken(callee, answers, life, s, j)
      PROVE  AnswersInv'
  <2> DEFINE y == [x EXCEPT !.mode = "chain", !.error = e, !.unresponse = u]
  <2>1. /\ y \in LuaType /\ y.mode = "chain" /\ y.error = e /\ y.unresponse = u
        /\ y.session = x.session /\ y.id_co = x.id_co /\ y.watching = x.watching
        /\ y.fork = x.fork /\ y.at = x.at /\ y.run = x.run
        /\ y.co_id = x.co_id /\ y.address = x.address
    BY <1>1, <1>4 DEF LuaType, Modes
  <2>2. Become(s, y)
    BY <1>5
  <2> HIDE DEF y
  <2>3. /\ x.mode \notin {"run", "dead"} /\ y.mode \notin {"run", "dead"}
        /\ Leads(x, y) /\ Forked(x, y) /\ y.unresponse \subseteq x.unresponse
    BY <1>1, <1>5, <2>1 DEF Leads, Forked, Placed
  <2>4. \A j \in Session : Listed(y.error, j) =>
          Listed(x.error, j) \/ Broken(callee, answers, life, s, j)
    BY <1>5, <2>1
  <2>5. UNCHANGED <<life, timers, callee, answers>> /\ life[s] # "freed" /\ MailKept /\ Returns(s)
    BY <1>1, NoReturn
  <2> QED
    BY <2>1, <2>2, <2>3, <2>4, <2>5, IdleAnswers DEF x
<1>6. CASE m.k # 0
  <2> DEFINE e == IF x.watching[m.k] # None THEN Append(x.error, m.k) ELSE x.error
  <2>1. Become(s, [x EXCEPT !.mode = "chain", !.error = e, !.unresponse = x.unresponse])
    <3>1. [x EXCEPT !.mode = "chain", !.error = e] =
            [x EXCEPT !.mode = "chain", !.error = e, !.unresponse = x.unresponse]
      BY <1>1 DEF LuaType
    <3> QED
      BY <1>2, <1>6, <3>1
  <2>2. m.k \in Session
    BY <1>3, <1>6
  <2>3. /\ Append(x.error, m.k) \in Seq(Session)
        /\ \A d : Listed(Append(x.error, m.k), d) <=> Listed(x.error, d) \/ d = m.k
    BY <1>4, <2>2, QAppend
  <2>4. Broken(callee, answers, life, s, m.k)
    BY <1>1, <1>3, <1>6 DEF Mailed, Broken
  <2>5. e \in Seq(Session) /\ \A j \in Session : Listed(e, j) => Listed(x.error, j) \/ j = m.k
    BY <1>4, <2>3
  <2> HIDE DEF e
  <2>6. \A j \in Session : Listed(e, j) =>
          Listed(x.error, j) \/ Broken(callee, answers, life, s, j)
    BY <2>4, <2>5
  <2>7. x.unresponse \subseteq x.unresponse
    OBVIOUS
  <2> QED
    BY <1>4, <1>5, <2>1, <2>5, <2>6, <2>7
<1>7. CASE m.k = 0
  <2> DEFINE W == Watched(s, x, m.from)
  <2>1. PICK q \in [1 .. Cardinality(W) -> W] :
             /\ {q[i] : i \in DOMAIN q} = W
             /\ Become(s, [x EXCEPT !.mode = "chain", !.error = @ \o q,
                                    !.unresponse = {r \in @ : r.to # m.from}])
    BY <1>2, <1>7
  <2>2. W \subseteq Session /\ \A j \in W : x.watching[j] = m.from
    BY DEF Watched
  <2> HIDE DEF W
  <2>3. q \in Seq(Session) /\ Once(q) /\ \A j : Listed(q, j) => j \in W
    BY <2>1, <2>2, Enumeration
  <2> DEFINE e == x.error \o q
             u == {r \in x.unresponse : r.to # m.from}
  <2>4. /\ e \in Seq(Session) /\ u \in SUBSET [to : Service, k : Session]
        /\ u \subseteq x.unresponse
    BY <1>4, <2>3
  <2>5. \A j : Listed(e, j) => Listed(x.error, j) \/ Listed(q, j)
    <3>1. \A i \in DOMAIN e : \/ i \in DOMAIN x.error /\ e[i] = x.error[i]
                              \/ i - Len(x.error) \in DOMAIN q /\ e[i] = q[i - Len(x.error)]
      BY <1>4, <2>3, ConcatIs
    <3> HIDE DEF e
    <3> QED
      BY <3>1 DEF Listed
  <2>6. \A j \in W : Broken(callee, answers, life, s, j)
    <3> TAKE j \in W
    <3>1. callee[s][j] = m.from
      BY <1>1, <1>3, <2>2 DEF Calling
    <3>2. life[m.from] # "up"
      BY <1>1, <1>7 DEF Mailed
    <3> QED
      BY <1>3, <3>1, <3>2 DEF Broken
  <2>7. Become(s, [x EXCEPT !.mode = "chain", !.error = e, !.unresponse = u])
    BY <2>1
  <2> HIDE DEF e, u
  <2>8. \A j \in Session : Listed(e, j) =>
          Listed(x.error, j) \/ Broken(callee, answers, life, s, j)
    BY <2>3, <2>5, <2>6
  <2> QED
    BY <1>5, <2>4, <2>7, <2>8
<1> QED
  BY <1>6, <1>7

\* skynet.dispatch_message.
LEMMA TakeAnswers ==
  ASSUME AnswersInv, SessionsInv', NEW s \in Service, Take(s)
  PROVE  AnswersInv'
<1> DEFINE m == Head(mail[s])
<1>1. \/ m.t = "RESPONSE" /\ TakeResponse(s, m.k)
      \/ m.t = "REQUEST" /\ TakeRequest(s, m) /\ UNCHANGED outcome
      \/ m.t = "ERROR" /\ TakeError(s, m) /\ UNCHANGED outcome
  BY DEF Take
<1> QED
  BY <1>1, TakeResponseAnswers, TakeRequestAnswers, TakeErrorAnswers

\* dispatch_wakeup or dispatch_error_queue resumes what waited in session k.
LEMMA WokeAnswers ==
  ASSUME AnswersInv, SessionsInv', NEW s \in Service, lua[s].mode = "chain",
         UNCHANGED <<life, timers, callee, answers>>, life[s] # "freed", MailKept, Returns(s),
         NEW k \in Session, NEW c, lua[s].id_co[k] = c,
         NEW z \in LuaType, Become(s, Woke(z, c, k)), Alike(lua[s], z),
         NEW v \in {Nil, Break}, z.id_co = [lua[s].id_co EXCEPT ![k] = v],
         z.at = lua[s].at, z.run = lua[s].run, z.watching = lua[s].watching,
         \A j \in Session : Listed(z.error, j) => Listed(lua[s].error, j)
  PROVE  AnswersInv'
<1> DEFINE x == lua[s]
           w == Awake(z, c)
<1>1. x \in LuaType /\ Placed(x)
  BY Known
<1>2. /\ x.mode \notin {"run", "dead"} /\ x.id_co[k] = c /\ Alike(x, z)
      /\ z.id_co = [x.id_co EXCEPT ![k] = v] /\ z.at = x.at /\ z.run = x.run
      /\ z.watching = x.watching
      /\ \A j \in Session : Listed(z.error, j) => Listed(x.error, j)
  OBVIOUS
<1> HIDE DEF x
<1>3. UNCHANGED <<life, timers, callee, answers>> /\ life[s] # "freed" /\ MailKept /\ Returns(s)
  OBVIOUS
<1>4. CASE c \notin Co
  <2> DEFINE y == [z EXCEPT !.mode = "fork"]
  <2>1. Become(s, y)
    BY <1>4 DEF Woke
  <2>2. /\ y \in LuaType /\ Alike(z, y) /\ y.at = z.at /\ y.run = z.run /\ y.mode = "fork"
        /\ y.id_co = z.id_co /\ y.watching = z.watching /\ y.error = z.error
    BY DEF LuaType, Modes, Alike
  <2> HIDE DEF y
  <2>3. Nil \notin Co /\ Break \notin Co
    BY Constants DEF Nil, Break
  <2>4. /\ y.mode \notin {"run", "dead"} /\ y.at = x.at /\ y.run = x.run
        /\ y.session = x.session /\ y.co_id = x.co_id /\ y.address = x.address
        /\ y.unresponse \subseteq x.unresponse /\ y.watching = x.watching /\ y.fork = x.fork
    BY <1>2, <2>2 DEF Alike
  <2>5. Leads(x, y) /\ Forked(x, y)
    BY <1>1, <1>2, <2>2, <2>3, <2>4, Fields DEF Leads, Forked, Placed
  <2>6. \A j \in Session : Listed(y.error, j) =>
          Listed(x.error, j) \/ Broken(callee, answers, life, s, j)
    BY <1>2, <2>2
  <2> QED
    BY <1>2, <1>3, <2>1, <2>2, <2>4, <2>5, <2>6, IdleAnswers DEF x
<1>5. CASE c \in Co
  <2>1. ASSUME NEW y \in LuaType, Become(s, y), NEW n, Resumed(x, y, c, k, n)
        PROVE  AnswersInv'
    BY <1>3, <1>5, <2>1, ResumeAnswers DEF x
  <2>2. /\ w \in LuaType /\ Alike(z, w) /\ w.id_co = z.id_co
        /\ w.at = [z.at EXCEPT ![c] = "run"] /\ w.run = c /\ w.mode = "run"
        /\ w.error = z.error /\ w.watching = z.watching
    BY <1>5, AwakeIs DEF Awoken
  <2>3. \/ z.at[c] # "closed" /\ Woke(z, c, k) = w
        \/ z.at[c] # "closed" /\ Woke(z, c, k) = [w EXCEPT !.id_co[k] = Nil]
        \/ /\ z.at[c] # "closed"
           /\ Woke(z, c, k) = [w EXCEPT !.id_co[k] = Nil, !.current = c, !.ref = 1]
        \/ Woke(z, c, k) = [z EXCEPT !.run = c, !.mode = "dead"]
    BY <1>5 DEF Woke, Dead
  <2> HIDE DEF w
  <2>4. CASE z.at[c] # "closed" /\ Woke(z, c, k) = w
    <3>1. Resumed(x, w, c, k, v)
      BY <1>2, <2>2, <2>4 DEF Resumed, Alike
    <3>2. Become(s, w)
      BY <2>4
    <3> QED
      BY <2>1, <2>2, <3>1, <3>2
  <2>5. ASSUME NEW y \in LuaType, Become(s, y), z.at[c] # "closed", Alike(w, y),
               y.at = w.at, y.run = w.run, y.mode = w.mode, y.error = w.error,
               y.watching = w.watching, y.id_co = [w.id_co EXCEPT ![k] = Nil]
        PROVE  AnswersInv'
    <3>1. y.id_co = [x.id_co EXCEPT ![k] = Nil]
      BY <1>1, <1>2, <2>2, <2>5, Fields
    <3> DEFINE n == Nil
    <3>2. n \in {Nil, Break} /\ y.id_co = [x.id_co EXCEPT ![k] = n]
      BY <3>1
    <3> HIDE DEF n
    <3>3. Resumed(x, y, c, k, n)
      BY <1>2, <2>2, <2>5, <3>2 DEF Resumed, Alike
    <3> QED
      BY <2>1, <2>5, <3>3
  <2>6. CASE z.at[c] # "closed" /\ Woke(z, c, k) = [w EXCEPT !.id_co[k] = Nil]
    <3> DEFINE y == [w EXCEPT !.id_co[k] = Nil]
    <3>1. /\ y \in LuaType /\ Alike(w, y) /\ y.at = w.at /\ y.run = w.run /\ y.mode = w.mode
          /\ y.error = w.error /\ y.watching = w.watching
          /\ y.id_co = [w.id_co EXCEPT ![k] = Nil]
      BY <2>2 DEF LuaType, Alike
    <3>2. Become(s, y)
      BY <2>6
    <3> HIDE DEF y
    <3> QED
      BY <2>5, <2>6, <3>1, <3>2
  <2>7. CASE /\ z.at[c] # "closed"
             /\ Woke(z, c, k) = [w EXCEPT !.id_co[k] = Nil, !.current = c, !.ref = 1]
    <3> DEFINE y == [w EXCEPT !.id_co[k] = Nil, !.current = c, !.ref = 1]
    <3>1. /\ y \in LuaType /\ Alike(w, y) /\ y.at = w.at /\ y.run = w.run /\ y.mode = w.mode
          /\ y.error = w.error /\ y.watching = w.watching
          /\ y.id_co = [w.id_co EXCEPT ![k] = Nil]
      BY <1>5, <2>2 DEF LuaType, Alike
    <3>2. Become(s, y)
      BY <2>7
    <3> HIDE DEF y
    <3> QED
      BY <2>5, <2>7, <3>1, <3>2
  <2>8. CASE Woke(z, c, k) = [z EXCEPT !.run = c, !.mode = "dead"]
    <3> DEFINE y == [z EXCEPT !.run = c, !.mode = "dead"]
    <3>1. /\ y \in LuaType /\ Alike(z, y) /\ y.at = z.at /\ y.run = c /\ y.mode = "dead"
          /\ y.error = z.error /\ y.watching = z.watching /\ y.id_co = z.id_co
      BY <1>5 DEF LuaType, Alike, Modes
    <3>2. Become(s, y)
      BY <2>8
    <3> HIDE DEF y
    <3>3. Resumed(x, y, c, k, v)
      BY <1>2, <3>1 DEF Resumed, Alike
    <3> QED
      BY <2>1, <3>1, <3>2, <3>3
  <2> QED
    BY <2>3, <2>4, <2>6, <2>7, <2>8
<1> QED
  BY <1>4, <1>5

\* dispatch_wakeup and dispatch_error_queue: a call fails that an error is queued for.
LEMMA ChainAnswers ==
  ASSUME AnswersInv, SessionsInv', NEW s \in Service, Chain(s)
  PROVE  AnswersInv'
<1> DEFINE x == lua[s]
           c == Head(x.wakeup)
           k == x.sleep[c]
           y == [x EXCEPT !.wakeup = Tail(@)]
           z == [y EXCEPT !.id_co[k] = Break]
           j == Head(x.error)
           b == x.id_co[j]
           e == [x EXCEPT !.error = Tail(@), !.id_co[j] = Nil]
<1>1. /\ x \in LuaType /\ Busy(x) /\ Placed(x) /\ x.mode = "chain" /\ life[s] # "freed"
      /\ Calling(callee, answers, life, timers[s], s, x)
      /\ UNCHANGED <<life, timers, callee, answers>> /\ MailKept
  BY Known, MailSame DEF Chain
<1>2. /\ x.wakeup # << >> /\ k = Nil => Become(s, y) /\ UNCHANGED outcome
      /\ x.wakeup # << >> /\ k # Nil => Become(s, Woke(z, x.id_co[k], k)) /\ UNCHANGED outcome
      /\ x.wakeup = << >> /\ b \in Co /\ x.at[b] = "call"
           => /\ Become(s, [Run(e, b) EXCEPT !.watching[j] = None])
              /\ outcome' = [outcome EXCEPT ![s][j] = "error"]
      /\ x.wakeup = << >> /\ ~ (b \in Co /\ x.at[b] = "call")
           => Become(s, Woke(e, b, j)) /\ UNCHANGED outcome
  BY DEF Chain, Returned
<1> HIDE DEF x
<1>3. UNCHANGED outcome => Returns(s)
  BY NoReturn
<1>4. CASE x.wakeup # << >>
  <2>1. c \in Co /\ k \in Session \cup {Nil} /\ Tail(x.wakeup) \in Seq(Co)
    BY <1>1, <1>4, Fields
  <2>2. /\ y \in LuaType /\ Alike(x, y) /\ y.id_co = x.id_co
        /\ y.error = x.error /\ y.watching = x.watching /\ y.at = x.at
        /\ y.run = x.run /\ y.mode = x.mode
    BY <1>1, <2>1 DEF LuaType, Alike
  <2>3. CASE k = Nil
    <3> HIDE DEF y, k
    <3>1. Become(s, y) /\ Returns(s)
      BY <1>2, <1>3, <1>4, <2>3
    <3>2. /\ x.mode \notin {"run", "dead"} /\ y.mode \notin {"run", "dead"}
          /\ y.session = x.session /\ y.co_id = x.co_id /\ y.address = x.address
          /\ y.unresponse \subseteq x.unresponse
          /\ Leads(x, y) /\ Forked(x, y)
      BY <1>1, <2>2 DEF Alike, Leads, Forked, Placed
    <3> QED
      BY <1>1, <2>2, <3>1, <3>2, IdleAnswers DEF x
  <2>4. CASE k # Nil
    <3>1. k \in Session
      BY <2>1, <2>4
    <3> DEFINE d == x.id_co[k]
               v == Break
    <3>2. Become(s, Woke(z, d, k)) /\ Returns(s) /\ x.id_co[k] = d /\ v \in {Nil, Break}
      BY <1>2, <1>3, <1>4, <2>4
    <3> HIDE DEF c, k, y, d
    <3>3. /\ z \in LuaType /\ Alike(y, z) /\ z.id_co = [y.id_co EXCEPT ![k] = v]
          /\ z.error = y.error /\ z.watching = y.watching /\ z.at = y.at /\ z.run = y.run
      BY <2>2, <3>1 DEF LuaType, Alike
    <3> HIDE DEF z, v
    <3>4. /\ Alike(x, z) /\ z.id_co = [x.id_co EXCEPT ![k] = v]
          /\ z.watching = x.watching /\ z.at = x.at /\ z.run = x.run
          /\ \A i \in Session : Listed(z.error, i) => Listed(x.error, i)
      BY <2>2, <3>3 DEF Alike
    <3> HIDE DEF Woke
    <3> QED
      BY <1>1, <3>1, <3>2, <3>3, <3>4, WokeAnswers DEF x
  <2> QED
    BY <2>3, <2>4
<1>5. CASE x.wakeup = << >>
  <2>1. x.error # << >> /\ x.error \in Seq(Session)
    BY <1>1, <1>5, Fields DEF Busy
  <2>2. /\ j \in Session /\ Tail(x.error) \in Seq(Session) /\ Listed(x.error, j)
        /\ \A d : Listed(Tail(x.error), d) => Listed(x.error, d)
    BY <2>1, QTail
  <2>3. b = x.id_co[j]
    OBVIOUS
  <2> DEFINE v == Nil
  <2>4. v \in {Nil, Break}
    OBVIOUS
  <2> HIDE DEF j, b
  <2>5. /\ e \in LuaType /\ Alike(x, e) /\ e.id_co = [x.id_co EXCEPT ![j] = v]
        /\ e.error = Tail(x.error) /\ e.watching = x.watching /\ e.at = x.at /\ e.run = x.run
    BY <1>1, <2>2 DEF LuaType, Alike
  <2> HIDE DEF e, v
  <2>6. \A i \in Session : Listed(e.error, i) => Listed(x.error, i)
    BY <2>2, <2>5
  <2>7. CASE b \in Co /\ x.at[b] = "call"
    <3> DEFINE w == [Run(e, b) EXCEPT !.watching[j] = None]
    <3>1. Become(s, w) /\ outcome' = [outcome EXCEPT ![s][j] = "error"]
      BY <1>2, <1>5, <2>7
    <3>2. Broken(callee, answers, life, s, j)
      BY <1>1, <2>2 DEF Calling
    <3>3. Returns(s)
      <4> DEFINE how == "error"
      <4>1. outcome' = [outcome EXCEPT ![s][j] = how] /\ how = "error"
        BY <3>1
      <4> HIDE DEF how
      <4> QED
        BY <2>2, <3>2, <4>1, Outcomes
    <3>4. /\ w \in LuaType /\ Alike(e, w) /\ w.id_co = e.id_co
          /\ w.at = [e.at EXCEPT ![b] = "run"] /\ w.run = b /\ w.mode = "run"
          /\ w.error = e.error /\ w.watching = [e.watching EXCEPT ![j] = None]
      <4>1. e \in LuaType /\ b \in Co /\ j \in Session
        BY <2>2, <2>5, <2>7
      <4> QED
        BY <4>1, ReturnedIs
    <3> HIDE DEF w
    <3>5. Resumed(x, w, b, j, v)
      <4>1. x.mode \notin {"run", "dead"} /\ x.at[b] # "closed" /\ Alike(x, w)
        BY <1>1, <2>5, <2>7, <3>4 DEF Alike
      <4> QED
        BY <2>3, <2>4, <2>5, <2>6, <3>4, <4>1 DEF Resumed
    <3> QED
      BY <1>1, <2>2, <2>7, <3>1, <3>3, <3>4, <3>5, ResumeAnswers DEF x
  <2>8. CASE ~ (b \in Co /\ x.at[b] = "call")
    <3>1. Become(s, Woke(e, b, j)) /\ Returns(s)
      BY <1>2, <1>3, <1>5, <2>8
    <3> HIDE DEF Woke
    <3> QED
      BY <1>1, <2>2, <2>3, <2>4, <2>5, <2>6, <3>1, WokeAnswers DEF x
  <2> QED
    BY <2>7, <2>8
<1> QED
  BY <1>4, <1>5

\* The loop over fork_queue.
LEMMA ForkLoopAnswers ==
  ASSUME AnswersInv, SessionsInv', NEW s \in Service, ForkLoop(s)
  PROVE  AnswersInv'
<1> DEFINE x == lua[s]
           c == Head(x.fork)
           y == [x EXCEPT !.fork = Tail(@)]
<1>1. /\ x \in LuaType /\ Busy(x) /\ Placed(x) /\ x.mode = "fork" /\ life[s] # "freed"
      /\ UNCHANGED <<mail, life, timers, history>>
  BY Known DEF ForkLoop
<1>2. Become(s, IF c = Nop THEN [y EXCEPT !.mode = "chain"] ELSE Run(y, c))
  BY DEF ForkLoop
<1> HIDE DEF x
<1>3. x.fork # << >> /\ x.fork \in Seq(Co \cup {Nop}) /\ Nop \notin Co
  BY <1>1, Fields, Constants DEF Busy, Nop
<1>4. /\ c \in Co \cup {Nop} /\ Tail(x.fork) \in Seq(Co \cup {Nop}) /\ Listed(x.fork, c)
      /\ \A d : Listed(Tail(x.fork), d) => Listed(x.fork, d)
      /\ Once(x.fork) => Once(Tail(x.fork)) /\ (c # Nop => ~ Listed(Tail(x.fork), c))
  BY <1>3, QTail
<1>5. /\ y \in LuaType /\ y.fork = Tail(x.fork)
      /\ y.session = x.session /\ y.co_id = x.co_id /\ y.address = x.address
      /\ y.unresponse = x.unresponse /\ y.id_co = x.id_co
      /\ y.error = x.error /\ y.watching = x.watching /\ y.at = x.at
      /\ y.run = x.run /\ y.mode = x.mode
  BY <1>1, <1>4 DEF LuaType
<1> HIDE DEF c, y
<1>6. Once(x.fork) /\ \A d \in Co : Listed(x.fork, d) => x.at[d] = "fork"
  BY <1>1 DEF Placed
<1>7. CASE c = Nop
  <2> DEFINE w == [y EXCEPT !.mode = "chain"]
  <2>1. /\ w \in LuaType /\ Alike(y, w) /\ w.id_co = y.id_co /\ w.error = y.error
        /\ w.watching = y.watching /\ w.at = y.at /\ w.run = y.run /\ w.mode = "chain"
    BY <1>5 DEF LuaType, Modes, Alike
  <2>2. Become(s, w)
    BY <1>2, <1>7
  <2> HIDE DEF w
  <2>3. /\ w.at = x.at /\ w.run = x.run /\ x.mode # "dead" /\ w.mode \notin {"run", "dead"}
        /\ w.session = x.session /\ w.watching = x.watching /\ w.error = x.error
        /\ w.fork = Tail(x.fork) /\ w.id_co = x.id_co /\ Requests(x, w)
    BY <1>1, <1>5, <2>1 DEF Alike, Requests
  <2>4. Leads(x, w) /\ Forked(x, w)
    BY <1>4, <1>6, <2>3 DEF Leads, Forked
  <2>5. x.session <= w.session /\ \A d \in Co : w.co_id[d] # Nil => w.co_id[d] = x.co_id[d]
    BY <1>1, <2>3, Fields DEF Requests
  <2>6. Placed(w) /\ Calls0(x, w) /\ Remains(x, w, {})
    BY <1>1, <2>1, <2>3, <2>4, <2>5, TurnSame
  <2>7. x.mode # "idle"
    BY <1>1
  <2> QED
    BY <1>1, <2>1, <2>2, <2>3, <2>6, <2>7, OwnStep DEF x
<1>8. CASE c # Nop
  <2> DEFINE w == Run(y, c)
  <2>0. c \in Co
    BY <1>4, <1>8
  <2>1. /\ w \in LuaType /\ Alike(y, w) /\ w.id_co = y.id_co
        /\ w.at = [y.at EXCEPT ![c] = "run"] /\ w.run = c /\ w.mode = "run"
        /\ w.error = y.error /\ w.watching = y.watching
    BY <1>5, <2>0, RunIs
  <2>2. Become(s, w)
    BY <1>2, <1>8
  <2> HIDE DEF w
  <2>3. /\ w.at = [x.at EXCEPT ![c] = "run"] /\ w.session = x.session
        /\ w.watching = x.watching /\ w.error = x.error /\ w.fork = Tail(x.fork)
        /\ w.id_co = x.id_co /\ Requests(x, w)
        /\ \A d \in Co : d # c => w.co_id[d] = x.co_id[d] /\ w.address[d] = x.address[d]
    BY <1>5, <2>1 DEF Alike, Requests
  <2>4. Forked(x, w) /\ ~ Listed(w.fork, c)
    BY <1>4, <1>6, <1>8, <2>3 DEF Forked
  <2>5. x.mode \notin {"run", "dead"} /\ x.at[c] \in {"free", "fork"} /\ x.mode # "idle"
    BY <1>1, <1>4, <1>6, <2>0
  <2>6. Placed(w) /\ Calls0(x, w) /\ Remains(x, w, {})
    BY <1>1, <2>0, <2>1, <2>3, <2>4, <2>5, TurnBegin
  <2> QED
    BY <1>1, <2>1, <2>2, <2>3, <2>5, <2>6, OwnStep DEF x
<1> QED
  BY <1>7, <1>8

-----------------------------------------------------------------------------
(* The theorems                                                             *)

LEMMA AnswersInit == Init => AnswersInv
<1> SUFFICES ASSUME Init PROVE AnswersInv
  OBVIOUS
<1> DEFINE x == New
<1>1. /\ x \in LuaType /\ x.session = 1 /\ x.run = Nil /\ x.mode = "idle"
      /\ \A k \in Session : x.id_co[k] = IF k = 1 THEN 1 ELSE Nil
      /\ \A c \in Co : x.at[c] = IF c = 1 THEN "start" ELSE "free"
      /\ \A c \in Co : x.co_id[c] = Nil
      /\ \A k \in Session : x.watching[k] = None
      /\ x.error = << >> /\ x.fork = << >>
  BY NewIs
<1>2. x.unresponse = {}
  BY DEF New
<1>3. /\ \A s \in Service : lua[s] = x /\ mail[s] = << >> /\ timers[s] = {1} /\ life[s] = "up"
      /\ callee = [s \in Service |-> [k \in Session |-> None]] /\ answers = {}
      /\ outcome = [s \in Service |-> [k \in Session |-> "-"]]
  BY DEF Init
<1> HIDE DEF x
<1>4. /\ Co \subseteq Nat \ {0} /\ 1 \in Co /\ Session \subseteq Nat \ {0}
      /\ \A s \in Service : 1 \in Session
  BY Constants
<1>5. Placed(x)
  BY <1>1, <1>4, QEmpty DEF Placed, Nil
<1>6. Told(callee, answers, life, outcome)
  BY <1>3 DEF Told, Said
<1>7. ASSUME NEW s \in Service
      PROVE  /\ Calling(callee, answers, life, timers[s], s, lua[s])
             /\ Owing(callee, answers, mail[s], s, lua[s])
             /\ Single(mail[s]) /\ DOMAIN mail[s] = {}
  <2>1. \A k \in Session : callee[s][k] = None
    BY <1>3
  <2>2. /\ lua[s] = x /\ mail[s] = << >> /\ timers[s] = {1} /\ life[s] = "up"
        /\ \A k \in Session : ~ Listed(x.error, k)
    BY <1>1, <1>3, QEmpty
  <2>3. Calling(callee, answers, life, timers[s], s, x)
    <3>1. \A k \in timers[s] : callee[s][k] = None /\ k <= x.session
      BY <1>1, <1>4, <2>1, <2>2
    <3>2. \A k \in Session : ~ (x.id_co[k] \in Co /\ x.at[x.id_co[k]] = "call")
      BY <1>1, <1>4
    <3> QED
      BY <1>1, <2>1, <2>2, <3>1, <3>2 DEF Calling
  <2>4. Owing(callee, answers, mail[s], s, x)
    BY <1>1, <1>2 DEF Owing
  <2>5. Single(mail[s]) /\ DOMAIN mail[s] = {}
    BY <2>2 DEF Single
  <2> QED
    BY <2>2, <2>3, <2>4, <2>5
<1> QED
  BY <1>3, <1>5, <1>6, <1>7, SessionsInit DEF AnswersInv

LEMMA AnswersNext == AnswersInv /\ [Next]_vars => AnswersInv'
<1> SUFFICES ASSUME AnswersInv, [Next]_vars PROVE AnswersInv'
  OBVIOUS
<1>1. SessionsInv'
  BY SessionsNext DEF AnswersInv
<1>2. CASE UNCHANGED vars
  BY <1>1, <1>2 DEF vars, history, AnswersInv
<1>3. CASE Next
  <2>1. PICK s \in Service :
          \/ Api(s) \/ Raise(s)
          \/ Take(s) \/ Chain(s) \/ ForkLoop(s) \/ Release(s) \/ Drop(s)
          \/ \E k \in Session : Timer(s, k)
    BY <1>3 DEF Next
  <2>2. CASE Api(s)
    BY <1>1, <2>2, CallAnswers, SleepAnswers, WakeupAnswers, ForkAnswers, RetAnswers,
       ResponseAnswers, RespondAnswers, EnterAnswers, LeaveAnswers, ReturnAnswers, ExitAnswers
       DEF Api
  <2> QED
    BY <1>1, <2>1, <2>2, RaiseAnswers, TakeAnswers, ChainAnswers, ForkLoopAnswers,
       ReleaseAnswers, DropAnswers, TimerAnswers
<1> QED
  BY <1>2, <1>3

\* In every reachable state of any number of services a request is in one place
\* at most until it is answered: the queue of its callee, session_coroutine_id
\* of one coroutine there, or the closures of skynet.response; sessions of
\* calls and of timers are apart, and every answer that is queued was given
\* (raw_dispatch_message, skynet.ret, skynet.response, suspend, skynet.exit).
THEOREM AnswersSafe == Spec => []AnswersInv
  BY AnswersInit, AnswersNext, PTL DEF Spec

\* TrueOutcome, for any number of services, coroutines and sessions: a
\* skynet.call returns a result only if its callee answered this session with
\* one, fails only if the callee sent an error for it or is gone, and no request
\* is answered both ways, though coroutines, closures, suspend and skynet.exit
\* all answer and the timer answers sessions of its own.
THEOREM TrueOutcomes == Spec => []TrueOutcome
<1>1. AnswersInv => TrueOutcome
  <2> SUFFICES ASSUME AnswersInv, NEW s \in Service, NEW k \in Session
               PROVE  LET d == callee[s][k]
                      IN  /\ outcome[s][k] = "ok" => Said(answers, d, s, k, "RESPONSE")
                          /\ outcome[s][k] = "error" =>
                               Said(answers, d, s, k, "ERROR") \/ life[d] # "up"
                          /\ ~ (Said(answers, d, s, k, "RESPONSE") /\ Said(answers, d, s, k, "ERROR"))
    BY DEF TrueOutcome, Said
  <2> DEFINE d == callee[s][k]
  <2>1. Told(callee, answers, life, outcome)
    BY DEF AnswersInv
  <2>2. Said(answers, d, s, k, "RESPONSE") => d \in Service
    BY <2>1 DEF Told, Said
  <2> QED
    BY <2>1, <2>2 DEF Told, Broken
<1> QED
  BY <1>1, AnswersSafe, PTL

-----------------------------------------------------------------------------
(***************************************************************************)
(* No call is forgotten.  AnswersInv has a request in one place at most;   *)
(* here it is in one place at least, or its answer is, until the call      *)
(* returns.                                                                *)
(***************************************************************************)

\* Service a still has the request of session k of s, or has answered it; or
\* nobody waits any more, or it is lost.
Kept(a, s, k) ==
    \/ life[a] = "up" /\ Pending(lua[a], s, k)
    \/ InMail(s, k, a)
    \/ life[s] # "up"
    \/ [to |-> s, k |-> k] \in lost

\* A message that is no request is an answer to session k of s, as InMail says.
Reaches(m, s, k) == m.k = k \/ (m.k = 0 /\ [to |-> s, k |-> k] \notin byname)

\* A message m that a takes has its effect.
Handled(a, m) ==
    /\ \A s \in Service, k \in Session : m = Request(k, s) => Kept(a, s, k)'
    /\ \A k \in Session :
         /\ life'[a] = "up" /\ m.t # "REQUEST" /\ Reaches(m, a, k)
         /\ lua'[a].watching[k] # None /\ m.from = lua'[a].watching[k]
         => Listed(lua'[a].error, k)

\* A step of service a.
LEMMA WayStep ==
  ASSUME SessionsInv, SessionsInv', NoOrphanCall, lost \subseteq lost', NEW a \in Service,
         \A u \in Service \ {a} : lua'[u] = lua[u] /\ life'[u] = life[u],
         life'[a] = "up" => life[a] = "up",
         \A u \in Service \ {a} : \A m : Listed(mail[u], m) => Listed(mail'[u], m),
         \A m : Listed(mail[a], m) => Listed(mail'[a], m) \/ Handled(a, m),
         \A k \in Session : lua'[a].watching[k] # None /\ life'[a] = "up" =>
           \/ lua'[a].watching[k] = lua[a].watching[k]
           \/ Listed(mail'[lua'[a].watching[k]], Request(k, a)),
         \A k \in Session : Listed(lua[a].error, k) /\ life'[a] = "up" =>
           Listed(lua'[a].error, k) \/ lua'[a].watching[k] = None,
         \A s \in Service, k \in Session :
           life[a] = "up" /\ Pending(lua[a], s, k) => Kept(a, s, k)',
         \A s \in Service, k \in Session : [to |-> s, k |-> k] \in byname' =>
           [to |-> s, k |-> k] \in byname \/ lua[s].watching[k] = None
  PROVE  NoOrphanCall'
<1> SUFFICES ASSUME NEW s \in Service, NEW k \in Session, NEW d \in Service,
                    life'[s] = "up", lua'[s].watching[k] = d, [to |-> s, k |-> k] \notin lost'
             PROVE  OnItsWay(s, k, d)'
  <2>1. \A s \in Service, k \in Session : lua'[s].watching[k] \in Service \cup {None}
    BY DEF SessionsInv, LuaType
  <2> QED
    BY <2>1 DEF NoOrphanCall, OnItsWay, InMail
<1>1. d # None
  BY SessionsAssumption
<1>2. lua[s].watching[k] = d \/ Listed(mail'[d], Request(k, s))
  <2>1. CASE s = a
    BY <1>1, <2>1
  <2>2. CASE s # a
    BY <2>2
  <2> QED
    BY <2>1, <2>2
<1>3. ASSUME Listed(mail'[d], Request(k, s)) PROVE OnItsWay(s, k, d)'
  BY <1>3 DEF OnItsWay, Listed, Request
<1>4. ASSUME Kept(a, s, k)', a = d PROVE OnItsWay(s, k, d)'
  BY <1>4 DEF OnItsWay, Kept
<1>5. ASSUME Listed(lua'[s].error, k) PROVE OnItsWay(s, k, d)'
  BY <1>5 DEF OnItsWay, Listed
<1>6. ASSUME NEW m, Listed(mail'[s], m), Reaches(m, s, k)', m.t # "REQUEST", m.from = d
      PROVE  OnItsWay(s, k, d)'
  <2>1. InMail(s, k, d)'
    BY <1>6 DEF InMail, Listed, Reaches
  <2> QED
    BY <2>1 DEF OnItsWay
<1>7. CASE lua[s].watching[k] = d
  <2>1. life[s] = "up" /\ [to |-> s, k |-> k] \notin lost
    OBVIOUS
  <2>2. OnItsWay(s, k, d)
    BY <1>1, <1>7, <2>1 DEF NoOrphanCall
  <2>3. \/ Listed(mail[d], Request(k, s))
        \/ life[d] = "up" /\ Pending(lua[d], s, k)
        \/ InMail(s, k, d)
        \/ Listed(lua[s].error, k)
    BY <2>2 DEF OnItsWay, Listed, Request
  <2>4. CASE Listed(mail[d], Request(k, s))
    <3>1. CASE d = a
      <4>1. Listed(mail'[d], Request(k, s)) \/ Kept(a, s, k)'
        BY <2>4, <3>1 DEF Handled
      <4> QED
        BY <1>3, <1>4, <3>1, <4>1
    <3>2. CASE d # a
      BY <1>3, <2>4, <3>2
    <3> QED
      BY <3>1, <3>2
  <2>5. CASE life[d] = "up" /\ Pending(lua[d], s, k)
    <3>1. CASE d = a
      BY <1>4, <2>5, <3>1
    <3>2. CASE d # a
      <4>1. lua'[d] = lua[d] /\ life'[d] = "up"
        BY <2>5, <3>2
      <4>2. Pending(lua'[d], s, k)
        BY <2>5, <4>1
      <4> QED
        BY <4>1, <4>2 DEF OnItsWay
    <3> QED
      BY <3>1, <3>2
  <2>6. CASE InMail(s, k, d)
    <3>1. PICK m : Listed(mail[s], m) /\ Reaches(m, s, k) /\ m.t # "REQUEST" /\ m.from = d
      BY <2>6 DEF InMail, Listed, Reaches
    <3>4. Reaches(m, s, k)'
      BY <1>1, <1>7, <3>1 DEF Reaches
    <3>2. CASE s = a
      <4>1. Listed(mail'[s], m) \/ Listed(lua'[s].error, k)
        BY <1>1, <3>1, <3>2 DEF Handled
      <4> QED
        BY <1>5, <1>6, <3>1, <3>4, <4>1
    <3>3. CASE s # a
      BY <1>6, <3>1, <3>3, <3>4
    <3> QED
      BY <3>2, <3>3
  <2>7. CASE Listed(lua[s].error, k)
    <3>1. Listed(lua'[s].error, k)
      <4>1. CASE s = a
        BY <1>1, <2>7, <4>1
      <4>2. CASE s # a
        BY <2>7, <4>2
      <4> QED
        BY <4>1, <4>2
    <3> QED
      BY <1>5, <3>1
  <2> QED
    BY <2>3, <2>4, <2>5, <2>6, <2>7
<1> QED
  BY <1>2, <1>3, <1>7

\* No message is lost.
MailGrows == \A u \in Service : \A m : Listed(mail[u], m) => Listed(mail'[u], m)

\* A concatenation has what its parts have.
LEMMA ConcatHas ==
  ASSUME NEW S, NEW q \in Seq(S), NEW r \in Seq(S)
  PROVE  \A d : Listed(q, d) \/ Listed(r, d) => Listed(q \o r, d)
<1>1. /\ \A i \in DOMAIN q : i \in DOMAIN (q \o r) /\ (q \o r)[i] = q[i]
      /\ \A i \in DOMAIN r : Len(q) + i \in DOMAIN (q \o r) /\ (q \o r)[Len(q) + i] = r[i]
  OBVIOUS
<1> QED
  BY <1>1 DEF Listed

\* Messages that are delivered are added.
LEMMA Arrives ==
  ASSUME SessionsInv, NEW out \in [Service -> Seq(Messages)], Deliver(out)
  PROVE  /\ MailGrows
         /\ \A u \in Service : life[u] = "up" =>
              \A m : Listed(out[u], m) => Listed(mail'[u], m)
<1> SUFFICES ASSUME NEW u \in Service, NEW m
             PROVE  /\ Listed(mail[u], m) => Listed(mail'[u], m)
                    /\ life[u] = "up" /\ Listed(out[u], m) => Listed(mail'[u], m)
  BY DEF MailGrows
<1> DEFINE q == mail[u]
           r == out[u]
<1>1. /\ q \in Seq(Messages) /\ r \in Seq(Messages)
      /\ mail'[u] = IF life[u] = "up" THEN q \o r ELSE q
  BY DEF SessionsInv, Deliver
<1> HIDE DEF q, r
<1>2. Listed(q, m) \/ Listed(r, m) => Listed(q \o r, m)
  BY <1>1, ConcatHas
<1> QED
  BY <1>1, <1>2 DEF q, r

\* One message.
LEMMA ArrivesOne ==
  ASSUME SessionsInv, NEW d \in Service, NEW m \in Messages, Deliver(To(d, m))
  PROVE  MailGrows /\ (life[d] = "up" => Listed(mail'[d], m))
<1>1. To(d, m) \in [Service -> Seq(Messages)]
  BY DEF To
<1>2. To(d, m)[d] = <<m>>
  BY DEF To
<1>3. Listed(<<m>>, m)
  BY DEF Listed
<1> QED
  BY <1>1, <1>2, <1>3, Arrives

\* A step of a that loses no message and leaves its own calls alone.
LEMMA QuietWay ==
  ASSUME AnswersInv, SessionsInv', NoOrphanCall, NEW a \in Service, NEW y \in LuaType,
         Become(a, y), UNCHANGED <<life, byname>>, lost \subseteq lost', MailGrows,
         y.watching = lua[a].watching, y.error = lua[a].error,
         \A s \in Service, k \in Session : Pending(lua[a], s, k) =>
           \/ Pending(y, s, k) \/ InMail(s, k, a)'
           \/ life[s] # "up" \/ [to |-> s, k |-> k] \in lost'
  PROVE  NoOrphanCall'
<1>1. SessionsInv
  BY DEF AnswersInv
<1>2. Same(y, lua'[a]) /\ \A u \in Service \ {a} : lua'[u] = lua[u]
  BY <1>1, Becomes
<1>3. lua'[a].watching = lua[a].watching /\ lua'[a].error = lua[a].error
  BY <1>2 DEF Same
<1>4. ASSUME NEW s \in Service, NEW k \in Session, life[a] = "up", Pending(lua[a], s, k)
      PROVE  Kept(a, s, k)'
  <2>1. Pending(y, s, k) => Pending(lua'[a], s, k)
    BY <1>2 DEF Same, Pending
  <2>2. \/ Pending(lua'[a], s, k) \/ InMail(s, k, a)'
        \/ life[s] # "up" \/ [to |-> s, k |-> k] \in lost'
    BY <1>4, <2>1
  <2> QED
    BY <1>4, <2>2 DEF Kept
<1> QED
  BY <1>1, <1>2, <1>3, <1>4, WayStep DEF MailGrows

\* The requests a has to answer stay what they are.
LEMMA OwnWay ==
  ASSUME AnswersInv, SessionsInv', NoOrphanCall, NEW a \in Service, NEW y \in LuaType,
         Become(a, y), UNCHANGED <<mail, life, byname, lost>>,
         y.watching = lua[a].watching, y.error = lua[a].error, Requests(lua[a], y)
  PROVE  NoOrphanCall'
<1>1. MailGrows
  BY DEF MailGrows
<1>2. \A s \in Service, k \in Session : Pending(lua[a], s, k) => Pending(y, s, k)
  BY DEF Pending, Requests
<1> QED
  BY <1>1, <1>2, QuietWay

LEMMA SleepWay ==
  ASSUME AnswersInv, SessionsInv', NoOrphanCall, NEW s \in Service, Sleep(s) \/ Wait(s)
  PROVE  NoOrphanCall'
<1> DEFINE x == lua[s]
<1>1. /\ x \in LuaType /\ Shape(s, x) /\ x.mode = "run" /\ x.session < MaxSession[s]
      /\ UNCHANGED <<mail, life, byname, lost>>
  BY Known DEF Sleep, Wait, Calls, Running, history
<1>2. PICK place \in {"sleep", "wait"} : Become(s, Suspended(x, place))
  BY DEF Sleep, Wait
<1> DEFINE y == Suspended(x, place)
<1>3. place \in Waits
  BY DEF Waits
<1> DEFINE k == x.session + 1
<1> HIDE DEF x
<1>4. /\ k \in 1 .. MaxSession[s] /\ k \in Session
      /\ y \in LuaType /\ y.session = k /\ y.id_co = [x.id_co EXCEPT ![k] = x.run]
      /\ y.at = [x.at EXCEPT ![x.run] = place] /\ y.run = Nil /\ y.mode = "chain"
      /\ y.wakeup = x.wakeup /\ y.error = x.error /\ y.fork = x.fork
      /\ y.current = x.current /\ y.ref = x.ref
      /\ y.sleep = [x.sleep EXCEPT ![x.run] = k]
      /\ y.watching = x.watching /\ y.threads = x.threads
      /\ y.co_id = x.co_id /\ y.address = x.address
      /\ y.unresponse = x.unresponse
  BY <1>1, <1>3, SuspendedIs
<1> HIDE DEF y
<1>5. Requests(x, y)
  BY <1>4 DEF Requests
<1> QED
  BY <1>1, <1>2, <1>4, <1>5, OwnWay DEF x, y

LEMMA EnterWay ==
  ASSUME AnswersInv, SessionsInv', NoOrphanCall, NEW s \in Service, Enter(s)
  PROVE  NoOrphanCall'
<1> DEFINE x == lua[s]
<1>1. x \in LuaType /\ Shape(s, x) /\ x.mode = "run" /\ x.run \in Co /\ UNCHANGED <<mail, life, byname, lost>>
  BY Known DEF Enter, Calls, Running, history
<1>2. CASE x.current \in {Nil, x.run}
  <2> DEFINE y == [x EXCEPT !.current = x.run, !.ref = @ + 1]
  <2>1. Become(s, y)
    BY <1>2 DEF Enter
  <2> HIDE DEF x
  <2>2. x.ref + 1 \in Nat
    BY <1>1, Fields
  <2>3. /\ y \in LuaType /\ y.watching = x.watching /\ y.error = x.error
        /\ y.co_id = x.co_id /\ y.address = x.address /\ y.unresponse = x.unresponse
    BY <1>1, <2>2 DEF LuaType
  <2> HIDE DEF y
  <2>4. Requests(x, y)
    BY <2>3 DEF Requests
  <2> QED
    BY <1>1, <2>1, <2>3, <2>4, OwnWay DEF x
<1>3. CASE x.current \notin {Nil, x.run}
  <2> DEFINE z == Suspended(x, "enter")
             y == [z EXCEPT !.threads = Append(@, x.run)]
  <2>1. Become(s, y) /\ x.session < MaxSession[s]
    BY <1>3 DEF Enter
  <2> HIDE DEF x
  <2>2. /\ z \in LuaType /\ z.watching = x.watching /\ z.error = x.error
        /\ z.co_id = x.co_id /\ z.address = x.address /\ z.unresponse = x.unresponse
        /\ z.threads = x.threads
    BY <1>1, <2>1, SuspendedIs DEF Waits
  <2> HIDE DEF z
  <2>3. Append(z.threads, x.run) \in Seq(Co)
    BY <1>1, <2>2, Fields
  <2>4. /\ y \in LuaType /\ y.watching = z.watching /\ y.error = z.error
        /\ y.co_id = z.co_id /\ y.address = z.address /\ y.unresponse = z.unresponse
    BY <2>2, <2>3 DEF LuaType
  <2> HIDE DEF y
  <2>5. y.watching = x.watching /\ y.error = x.error /\ Requests(x, y)
    BY <2>2, <2>4 DEF Requests
  <2> QED
    BY <1>1, <2>1, <2>4, <2>5, OwnWay DEF x
<1> QED
  BY <1>2, <1>3

LEMMA WakeupWay ==
  ASSUME AnswersInv, SessionsInv', NoOrphanCall, NEW s \in Service, NEW c \in Co, Wakeup(s, c)
  PROVE  NoOrphanCall'
<1> DEFINE x == lua[s]
           y == [x EXCEPT !.wakeup = Append(@, c)]
<1>1. x \in LuaType /\ UNCHANGED <<mail, life, byname, lost>>
  BY Known DEF Wakeup, history
<1>2. Become(s, x) \/ Become(s, y)
  BY DEF Wakeup, Woken
<1> HIDE DEF x
<1>3. Append(x.wakeup, c) \in Seq(Co)
  BY <1>1, Fields
<1>4. /\ y \in LuaType /\ y.watching = x.watching /\ y.error = x.error
      /\ y.co_id = x.co_id /\ y.address = x.address /\ y.unresponse = x.unresponse
  BY <1>1, <1>3 DEF LuaType
<1> HIDE DEF y
<1>5. Requests(x, x) /\ Requests(x, y)
  BY <1>4 DEF Requests
<1> QED
  BY <1>1, <1>2, <1>4, <1>5, OwnWay DEF x

LEMMA ForkWay ==
  ASSUME AnswersInv, SessionsInv', NoOrphanCall, NEW s \in Service, Fork(s)
  PROVE  NoOrphanCall'
<1> DEFINE x == lua[s]
           c == NewCo(x)
           y == [x EXCEPT !.fork = Append(@, c), !.at[c] = "fork"]
<1>1. x \in LuaType /\ UNCHANGED <<mail, life, byname, lost>> /\ Become(s, y) /\ c \in Co
  BY Known, NewCoIn DEF Fork, history
<1> HIDE DEF x, c
<1>2. Append(x.fork, c) \in Seq(Co \cup {Nop})
  BY <1>1, Fields
<1>3. /\ y \in LuaType /\ y.watching = x.watching /\ y.error = x.error
      /\ y.co_id = x.co_id /\ y.address = x.address /\ y.unresponse = x.unresponse
  BY <1>1, <1>2 DEF LuaType, Places
<1> HIDE DEF y
<1>4. Requests(x, y)
  BY <1>3 DEF Requests
<1> QED
  BY <1>1, <1>3, <1>4, OwnWay DEF x

LEMMA LeaveWay ==
  ASSUME AnswersInv, SessionsInv', NoOrphanCall, NEW s \in Service, Leave(s)
  PROVE  NoOrphanCall'
<1> DEFINE x == lua[s]
           y == LeaveTo(x)
           h == Head(x.threads)
           free == [x EXCEPT !.ref = 0, !.current = Nil]
           less == [x EXCEPT !.ref = @ - 1]
           next == [x EXCEPT !.ref = 0, !.current = h, !.threads = Tail(@)]
           woke == [next EXCEPT !.wakeup = Append(@, h)]
           Like(z) == /\ z \in LuaType /\ z.watching = x.watching /\ z.error = x.error
                      /\ Requests(x, z)
<1>1. /\ x \in LuaType /\ x.ref \in Nat /\ x.threads \in Seq(Co) /\ x.wakeup \in Seq(Co)
      /\ UNCHANGED <<mail, life, byname, lost>> /\ Become(s, y)
  BY Known, Fields DEF Leave, history
<1> HIDE DEF x
<1>2. \/ x.ref > 1 /\ y = less
      \/ y = free
      \/ x.threads # << >> /\ y \in {next, woke}
  BY DEF LeaveTo, Woken
<1> HIDE DEF y
<1>3. Like(free)
  BY <1>1 DEF LuaType, Requests
<1>4. ASSUME x.ref > 1 PROVE Like(less)
  <2>1. x.ref - 1 \in Nat
    BY <1>1, <1>4
  <2> QED
    BY <1>1, <2>1 DEF LuaType, Requests
<1>5. ASSUME x.threads # << >> PROVE Like(next) /\ Like(woke)
  <2>1. h \in Co /\ Tail(x.threads) \in Seq(Co)
    BY <1>1, <1>5
  <2> HIDE DEF h
  <2>2. Like(next) /\ next.wakeup = x.wakeup
    BY <1>1, <2>1 DEF LuaType, Requests
  <2> HIDE DEF next
  <2>3. Append(x.wakeup, h) \in Seq(Co)
    BY <1>1, <2>1
  <2>4. woke = [next EXCEPT !.wakeup = Append(x.wakeup, h)]
    BY <2>2
  <2>5. Like(woke)
    BY <2>2, <2>3, <2>4 DEF LuaType, Requests
  <2> QED
    BY <2>2, <2>5
<1> HIDE DEF free, less, next, woke
<1>6. Like(y)
  BY <1>2, <1>3, <1>4, <1>5
<1> QED
  BY <1>1, <1>6, OwnWay DEF x

LEMMA ForkLoopWay ==
  ASSUME AnswersInv, SessionsInv', NoOrphanCall, NEW s \in Service, ForkLoop(s)
  PROVE  NoOrphanCall'
<1> DEFINE x == lua[s]
           c == Head(x.fork)
           y == [x EXCEPT !.fork = Tail(@)]
           z == [y EXCEPT !.mode = "chain"]
<1>1. /\ x \in LuaType /\ Busy(x) /\ x.mode = "fork" /\ UNCHANGED <<mail, life, byname, lost>>
      /\ Become(s, IF c = Nop THEN z ELSE Run(y, c))
  BY Known DEF ForkLoop, history
<1> HIDE DEF x
<1>2. c \in Co \cup {Nop} /\ Tail(x.fork) \in Seq(Co \cup {Nop})
  BY <1>1, Fields DEF Busy
<1>3. /\ y \in LuaType /\ y.watching = x.watching /\ y.error = x.error
      /\ y.co_id = x.co_id /\ y.address = x.address /\ y.unresponse = x.unresponse
  BY <1>1, <1>2 DEF LuaType
<1> HIDE DEF c, y
<1>4. CASE c = Nop
  <2>1. /\ z \in LuaType /\ z.watching = y.watching /\ z.error = y.error
        /\ z.co_id = y.co_id /\ z.address = y.address /\ z.unresponse = y.unresponse
    BY <1>3 DEF LuaType, Modes
  <2> HIDE DEF z
  <2>2. z.watching = x.watching /\ z.error = x.error /\ Requests(x, z) /\ Become(s, z)
    BY <1>1, <1>3, <1>4, <2>1 DEF Requests
  <2> QED
    BY <1>1, <2>1, <2>2, OwnWay DEF x
<1>5. CASE c # Nop
  <2> DEFINE w == Run(y, c)
  <2>1. w \in LuaType /\ Alike(y, w) /\ w.watching = y.watching /\ w.error = y.error
    BY <1>2, <1>3, <1>5, RunIs
  <2>2. Become(s, w)
    BY <1>1, <1>5
  <2> HIDE DEF w
  <2>3. w.watching = x.watching /\ w.error = x.error /\ Requests(x, w)
    BY <1>3, <2>1 DEF Requests, Alike
  <2> QED
    BY <1>1, <2>1, <2>2, <2>3, OwnWay DEF x
<1> QED
  BY <1>4, <1>5

\* A coroutine ends; the request that it has not answered is lost.
LEMMA ReturnWay ==
  ASSUME AnswersInv, SessionsInv', NoOrphanCall, NEW s \in Service, Return(s)
  PROVE  NoOrphanCall'
<1> DEFINE x == lua[s]
           c == x.run
           y == Recycled(x)
<1>1. /\ x \in LuaType /\ c \in Co /\ UNCHANGED <<mail, life, byname>> /\ Become(s, y)
      /\ lost' = IF x.co_id[c] = Nil THEN lost
                 ELSE lost \cup {[to |-> x.address[c], k |-> x.co_id[c]]}
  BY Known DEF Return, Running
<1> HIDE DEF x, c
<1>2. /\ y \in LuaType /\ y.watching = x.watching /\ y.error = x.error
      /\ y.unresponse = x.unresponse
      /\ \A b \in Co : b # c => y.co_id[b] = x.co_id[b] /\ y.address[b] = x.address[b]
  <2>1. y = [x EXCEPT !.co_id = [x.co_id EXCEPT ![c] = Nil],
                      !.address = [x.address EXCEPT ![c] = None],
                      !.at = [x.at EXCEPT ![c] = "free"], !.run = Nil, !.mode = "chain"]
    BY DEF Recycled, Yield, c
  <2> HIDE DEF y
  <2>2. /\ [x.co_id EXCEPT ![c] = Nil] \in [Co -> Session \cup {Nil}]
        /\ [x.address EXCEPT ![c] = None] \in [Co -> Service \cup {None}]
        /\ [x.at EXCEPT ![c] = "free"] \in [Co -> Places]
    BY <1>1, Fields DEF Places
  <2>3. /\ y \in LuaType /\ y.watching = x.watching /\ y.error = x.error
        /\ y.unresponse = x.unresponse /\ y.co_id = [x.co_id EXCEPT ![c] = Nil]
        /\ y.address = [x.address EXCEPT ![c] = None]
    BY <1>1, <2>1, <2>2 DEF LuaType, Modes
  <2> QED
    BY <1>1, <2>3, Fields
<1> HIDE DEF y
<1>3. ASSUME NEW v \in Service, NEW k \in Session, Pending(x, v, k)
      PROVE  Pending(y, v, k) \/ [to |-> v, k |-> k] \in lost'
  <2>1. Pending(y, v, k) \/ (v = x.address[c] /\ k = x.co_id[c])
    BY <1>2, <1>3 DEF Pending
  <2>2. k # Nil
    BY Constants DEF Nil
  <2> QED
    BY <1>1, <2>1, <2>2
<1>4. MailGrows /\ lost \subseteq lost'
  BY <1>1 DEF MailGrows
<1> QED
  BY <1>1, <1>2, <1>3, <1>4, QuietWay DEF x

\* Session k of v is answered by s.
LEMMA AnswerWay ==
  ASSUME AnswersInv, SessionsInv', NoOrphanCall, NEW s \in Service, NEW y \in LuaType,
         Become(s, y), UNCHANGED <<life, byname, lost>>, NEW v \in Service, NEW k \in Session,
         NEW kind \in {"RESPONSE", "ERROR"}, Answer(s, v, k, kind),
         y.watching = lua[s].watching, y.error = lua[s].error,
         \A u \in Service, j \in Session : Pending(lua[s], u, j) =>
           Pending(y, u, j) \/ (u = v /\ j = k)
  PROVE  NoOrphanCall'
<1> DEFINE m == Message(kind, k, s)
<1>1. m \in Messages /\ m.t = kind /\ m.k = k /\ m.from = s
  BY DEF Message, Messages
<1>2. Deliver(To(v, m))
  BY DEF Answer
<1> HIDE DEF m
<1>3. MailGrows /\ (life[v] = "up" => Listed(mail'[v], m))
  BY <1>1, <1>2, ArrivesOne DEF AnswersInv
<1>4. life[v] = "up" => InMail(v, k, s)'
  BY <1>1, <1>3 DEF InMail, Listed
<1> QED
  BY <1>3, <1>4, QuietWay

LEMMA RetWay ==
  ASSUME AnswersInv, SessionsInv', NoOrphanCall, NEW s \in Service, Ret(s)
  PROVE  NoOrphanCall'
<1> DEFINE x == lua[s]
           c == x.run
           v == x.address[c]
           k == x.co_id[c]
           y == [x EXCEPT !.co_id[c] = Nil]
<1>1. /\ x \in LuaType /\ c \in Co /\ k # Nil /\ Become(s, y) /\ Answer(s, v, k, "RESPONSE")
      /\ UNCHANGED <<life, byname, lost>>
  BY Known DEF Ret, Running, Answered
<1>2. v \in Service /\ k \in Session
  BY <1>1, OwesAlone
<1> HIDE DEF x
<1>3. /\ y \in LuaType /\ y.watching = x.watching /\ y.error = x.error
      /\ y.address = x.address /\ y.unresponse = x.unresponse
      /\ \A b \in Co : y.co_id[b] = IF b = c THEN Nil ELSE x.co_id[b]
  BY <1>1 DEF LuaType
<1> HIDE DEF y
<1>4. \A u \in Service, j \in Session : Pending(x, u, j) => Pending(y, u, j) \/ (u = v /\ j = k)
  BY <1>3 DEF Pending
<1> HIDE DEF v, k
<1> QED
  BY <1>1, <1>2, <1>3, <1>4, AnswerWay DEF x

LEMMA RespondWay ==
  ASSUME AnswersInv, SessionsInv', NoOrphanCall, NEW s \in Service, NEW r \in lua[s].unresponse,
         NEW kind \in {"RESPONSE", "ERROR"}, Respond(s, r, kind)
  PROVE  NoOrphanCall'
<1> DEFINE x == lua[s]
           y == [x EXCEPT !.unresponse = @ \ {r}]
<1>1. /\ x \in LuaType /\ Become(s, y) /\ Answer(s, r.to, r.k, kind) /\ UNCHANGED <<life, byname, lost>>
  BY Known DEF Respond
<1>2. r \in [to : Service, k : Session]
  BY <1>1, Fields
<1> HIDE DEF x
<1>3. /\ y \in LuaType /\ y.watching = x.watching /\ y.error = x.error
      /\ y.address = x.address /\ y.co_id = x.co_id /\ y.unresponse = x.unresponse \ {r}
  BY <1>1 DEF LuaType
<1> HIDE DEF y
<1>4. r.to \in Service /\ r.k \in Session
  BY <1>2
<1>5. \A u \in Service, j \in Session :
        Pending(x, u, j) => Pending(y, u, j) \/ (u = r.to /\ j = r.k)
  BY <1>2, <1>3 DEF Pending
<1> QED
  BY <1>1, <1>3, <1>4, <1>5, AnswerWay DEF x

LEMMA ResponseWay ==
  ASSUME AnswersInv, SessionsInv', NoOrphanCall, NEW s \in Service, Response(s)
  PROVE  NoOrphanCall'
<1> DEFINE x == lua[s]
           c == x.run
           r == [to |-> x.address[c], k |-> x.co_id[c]]
           w == [x EXCEPT !.co_id[c] = Nil]
           y == [w EXCEPT !.unresponse = @ \cup {r}]
<1>1. /\ x \in LuaType /\ c \in Co /\ x.co_id[c] # Nil /\ Become(s, y)
      /\ UNCHANGED <<mail, life, byname, lost>>
  BY Known DEF Response, Calls, Running, Answered, history
<1>2. x.address[c] \in Service /\ x.co_id[c] \in Session
  BY <1>1, OwesAlone
<1>3. r \in [to : Service, k : Session]
  BY <1>2
<1> HIDE DEF x
<1>4. /\ w \in LuaType /\ w.watching = x.watching /\ w.error = x.error
      /\ w.address = x.address /\ w.unresponse = x.unresponse
      /\ \A b \in Co : w.co_id[b] = IF b = c THEN Nil ELSE x.co_id[b]
  BY <1>1 DEF LuaType
<1>5. w.unresponse \cup {r} \in SUBSET [to : Service, k : Session]
  BY <1>3, <1>4, Fields
<1> HIDE DEF w, r
<1>6. /\ y \in LuaType /\ y.watching = w.watching /\ y.error = w.error
      /\ y.address = w.address /\ y.co_id = w.co_id /\ y.unresponse = w.unresponse \cup {r}
  BY <1>4, <1>5 DEF LuaType
<1> HIDE DEF y
<1>7. \A u \in Service, j \in Session : Pending(x, u, j) => Pending(y, u, j)
  BY <1>4, <1>6 DEF Pending, r
<1>8. MailGrows
  BY <1>1 DEF MailGrows
<1>9. y.watching = x.watching /\ y.error = x.error
  BY <1>4, <1>6
<1> QED
  BY <1>1, <1>6, <1>7, <1>8, <1>9, QuietWay DEF x

LEMMA RaiseWay ==
  ASSUME AnswersInv, SessionsInv', NoOrphanCall, NEW s \in Service, Raise(s)
  PROVE  NoOrphanCall'
<1> DEFINE x == lua[s]
           c == x.run
           y == Failed(x, c)
<1>1. /\ x \in LuaType /\ c \in Co /\ Become(s, y) /\ UNCHANGED <<life, byname, lost>>
      /\ IF x.co_id[c] # Nil THEN Answer(s, x.address[c], x.co_id[c], "ERROR")
         ELSE UNCHANGED mail
  BY Known DEF Raise, Running
<1>2. x.co_id[c] # Nil => x.address[c] \in Service /\ x.co_id[c] \in Session
  BY <1>1, OwesAlone
<1> HIDE DEF x, c
<1>3. /\ y \in LuaType /\ y.watching = x.watching /\ y.error = x.error
      /\ y.unresponse = x.unresponse
      /\ \A b \in Co : b # c => y.co_id[b] = x.co_id[b] /\ y.address[b] = x.address[b]
  <2>1. y = [x EXCEPT !.co_id = [x.co_id EXCEPT ![c] = Nil],
                      !.address = [x.address EXCEPT ![c] = None],
                      !.at = [x.at EXCEPT ![c] = "free"], !.run = Nil,
                      !.mode = "fork", !.fork = Append(x.fork, Nop)]
    BY DEF Failed
  <2> HIDE DEF y
  <2>2. /\ [x.co_id EXCEPT ![c] = Nil] \in [Co -> Session \cup {Nil}]
        /\ [x.address EXCEPT ![c] = None] \in [Co -> Service \cup {None}]
        /\ [x.at EXCEPT ![c] = "free"] \in [Co -> Places]
        /\ Append(x.fork, Nop) \in Seq(Co \cup {Nop})
    BY <1>1, Fields DEF Places
  <2>3. /\ y \in LuaType /\ y.watching = x.watching /\ y.error = x.error
        /\ y.unresponse = x.unresponse /\ y.co_id = [x.co_id EXCEPT ![c] = Nil]
        /\ y.address = [x.address EXCEPT ![c] = None]
    BY <1>1, <2>1, <2>2 DEF LuaType, Modes
  <2> QED
    BY <1>1, <2>3, Fields
<1> HIDE DEF y
<1>4. \A u \in Service, j \in Session :
        Pending(x, u, j) => Pending(y, u, j) \/ (u = x.address[c] /\ j = x.co_id[c])
  BY <1>3 DEF Pending
<1>5. CASE x.co_id[c] # Nil
  BY <1>1, <1>2, <1>3, <1>4, <1>5, AnswerWay DEF x
<1>6. CASE x.co_id[c] = Nil
  <2>1. MailGrows
    BY <1>1, <1>6 DEF MailGrows
  <2>2. \A j \in Session : j # Nil
    BY Constants DEF Nil
  <2>3. \A u \in Service, j \in Session : Pending(x, u, j) => Pending(y, u, j)
    BY <1>4, <1>6, <2>2
  <2> QED
    BY <1>1, <1>3, <2>1, <2>3, QuietWay DEF x
<1> QED
  BY <1>5, <1>6

\* The request of a call is in the queue of its callee.
LEMMA CallWay ==
  ASSUME AnswersInv, SessionsInv', NoOrphanCall, NEW s \in Service, NEW d \in Service,
         NEW name \in BOOLEAN, Call(s, d, name)
  PROVE  NoOrphanCall'
<1> DEFINE x == lua[s]
           k == x.session + 1
<1>1. x \in LuaType /\ x.run \in Co /\ x.session \in Nat /\ UNCHANGED <<life, lost>>
  BY Known, Fields DEF Call, Calls, Running
<1>2. k \in Nat /\ k \in Session
  <2>1. k \in 1 .. MaxSession[s]
    BY <1>1, Constants DEF Call
  <2> QED
    BY <1>1, <2>1, Constants
<1>3. CASE life[d] = "up"
  <2> DEFINE y == [Yield(x, "call") EXCEPT !.session = k, !.id_co[k] = x.run, !.watching[k] = d]
             m == Request(k, s)
  <2>1. /\ Become(s, y) /\ Deliver(To(d, m))
        /\ byname' \subseteq byname \cup {[to |-> s, k |-> k]}
    BY <1>3 DEF Call, Request
  <2>10. x.watching[k] = None
    <3>1. k <= x.session \/ callee[s][k] = None
      BY <1>2, Known DEF Call, Calls, Running, Calling
    <3>2. callee[s][k] = None
      BY <1>1, <1>2, <3>1
    <3> QED
      BY <1>2, <3>2, Known DEF Calling
  <2> HIDE DEF x, k
  <2>2. /\ y \in LuaType /\ y.error = x.error /\ y.watching = [x.watching EXCEPT ![k] = d]
        /\ y.co_id = x.co_id /\ y.address = x.address /\ y.unresponse = x.unresponse
    BY <1>1, <1>2 DEF LuaType, Yield, Places, Modes
  <2> HIDE DEF y
  <2>3. m \in Messages
    BY <1>2 DEF Request, Message, Messages
  <2>4. MailGrows /\ Listed(mail'[d], m)
    BY <1>3, <2>1, <2>3, ArrivesOne DEF AnswersInv
  <2>5. Same(y, lua'[s]) /\ \A u \in Service \ {s} : lua'[u] = lua[u]
    BY <2>1, <2>2, Becomes DEF AnswersInv
  <2>6. lua'[s].error = x.error /\ lua'[s].watching = [x.watching EXCEPT ![k] = d]
    BY <2>2, <2>5 DEF Same
  <2>7. ASSUME NEW j \in Session, lua'[s].watching[j] # None
        PROVE  \/ lua'[s].watching[j] = x.watching[j]
               \/ Listed(mail'[lua'[s].watching[j]], Request(j, s))
    <3>1. lua'[s].watching[j] = IF j = k THEN d ELSE x.watching[j]
      BY <1>1, <2>6, Fields
    <3> QED
      BY <2>4, <3>1
  <2>8. ASSUME NEW u \in Service, NEW j \in Session, life[s] = "up", Pending(x, u, j)
        PROVE  Kept(s, u, j)'
    <3>1. Pending(lua'[s], u, j)
      BY <2>2, <2>5, <2>8 DEF Same, Pending
    <3> QED
      BY <1>1, <2>8, <3>1 DEF Kept
  <2>9. SessionsInv
    BY DEF AnswersInv
  <2>11. \A u \in Service, j \in Session : [to |-> u, k |-> j] \in byname' =>
           [to |-> u, k |-> j] \in byname \/ lua[u].watching[j] = None
    BY <2>1, <2>10 DEF x
  <2> QED
    BY <1>1, <2>4, <2>5, <2>6, <2>7, <2>8, <2>9, <2>11, WayStep DEF MailGrows, x
<1>4. CASE life[d] # "up"
  <2> DEFINE y == [x EXCEPT !.session = k]
  <2>1. Become(s, y) /\ UNCHANGED <<mail, byname>>
    BY <1>4 DEF Call
  <2> HIDE DEF x, k
  <2>2. /\ y \in LuaType /\ y.error = x.error /\ y.watching = x.watching
        /\ y.co_id = x.co_id /\ y.address = x.address /\ y.unresponse = x.unresponse
    BY <1>1, <1>2 DEF LuaType
  <2> HIDE DEF y
  <2>3. Requests(x, y)
    BY <2>2 DEF Requests
  <2> QED
    BY <1>1, <2>1, <2>2, <2>3, OwnWay DEF x
<1> QED
  BY <1>3, <1>4

\* A service that is not up owes nothing that NoOrphanCall counts on.
LEMMA DownWay ==
  ASSUME SessionsInv, SessionsInv', NoOrphanCall, NEW a \in Service, lost \subseteq lost',
         life[a] # "up", life'[a] # "up", MailGrows, UNCHANGED byname,
         \A u \in Service \ {a} : lua'[u] = lua[u] /\ life'[u] = life[u]
  PROVE  NoOrphanCall'
  BY WayStep DEF MailGrows

LEMMA ReleaseWay ==
  ASSUME AnswersInv, SessionsInv', NoOrphanCall, NEW s \in Service, Release(s)
  PROVE  NoOrphanCall'
<1>1. /\ SessionsInv /\ life \in [Service -> {"up", "exited", "freed"}]
      /\ life[s] = "exited" /\ life' = [life EXCEPT ![s] = "freed"]
      /\ UNCHANGED <<mail, byname, lost>> /\ lua \in [Service -> LuaType]
  BY DEF Release, history, AnswersInv, SessionsInv
<1>2. /\ life[s] # "up" /\ life'[s] # "up" /\ MailGrows /\ lost \subseteq lost'
      /\ \A u \in Service \ {s} : life'[u] = life[u]
  BY <1>1 DEF MailGrows
<1>3. \A u \in Service \ {s} : lua'[u] = lua[u]
  BY <1>1 DEF Release, Become
<1> QED
  BY <1>1, <1>2, <1>3, DownWay

LEMMA TimerWay ==
  ASSUME AnswersInv, SessionsInv', NoOrphanCall, NEW s \in Service, NEW k \in Session, Timer(s, k)
  PROVE  NoOrphanCall'
<1> DEFINE m == Message("RESPONSE", k, None)
<1>1. SessionsInv /\ UNCHANGED <<lua, life, byname, lost>> /\ Deliver(To(s, m))
  BY DEF Timer, history, AnswersInv
<1>2. m \in Messages
  BY DEF Message, Messages
<1> HIDE DEF m
<1>3. MailGrows
  BY <1>1, <1>2, ArrivesOne
<1>4. ASSUME NEW u \in Service, NEW j \in Session, life[s] = "up", Pending(lua[s], u, j)
      PROVE  Kept(s, u, j)'
  BY <1>1, <1>4 DEF Kept
<1> QED
  BY <1>1, <1>3, <1>4, WayStep DEF MailGrows

\* drop_message tells the source of each request, which fails a call by handle.
LEMMA DropWay ==
  ASSUME AnswersInv, SessionsInv', NoOrphanCall, NEW s \in Service, Drop(s)
  PROVE  NoOrphanCall'
<1> DEFINE h == Head(mail[s])
           m == Message("ERROR", 0, s)
<1>1. /\ UNCHANGED <<lua, life, byname>> /\ life[s] = "freed" /\ SessionsInv
      /\ lost' = IF h.t = "REQUEST" THEN lost \cup ({[to |-> h.from, k |-> h.k]} \cap byname)
                 ELSE lost
      /\ mail \in [Service -> Seq(Messages)] /\ mail[s] # << >>
      /\ mail' = [d \in Service |->
                    IF d = s THEN Tail(mail[s])
                    ELSE IF d = h.from /\ life[d] = "up" THEN Append(mail[d], m) ELSE mail[d]]
  BY DEF Drop, AnswersInv, SessionsInv
<1>2. m \in Messages /\ m.t = "ERROR" /\ m.k = 0 /\ m.from = s
  BY DEF Message, Messages
<1>3. /\ \A n : Listed(mail[s], n) /\ n # h => Listed(Tail(mail[s]), n)
  BY <1>1, QTail
<1> HIDE DEF m, h
<1>4. mail'[s] = Tail(mail[s])
  BY <1>1
<1>5. ASSUME NEW u \in Service \ {s}
      PROVE  /\ \A n : Listed(mail[u], n) => Listed(mail'[u], n)
             /\ u = h.from /\ life[u] = "up" => Listed(mail'[u], m)
  <2>1. mail[u] \in Seq(Messages)
    BY <1>1
  <2>2. \A n : Listed(Append(mail[u], m), n) <=> Listed(mail[u], n) \/ n = m
    BY <1>2, <2>1, QAppend
  <2>3. mail'[u] = IF u = h.from /\ life[u] = "up" THEN Append(mail[u], m) ELSE mail[u]
    BY <1>1
  <2> QED
    BY <2>2, <2>3
<1>6. Handled(s, h)
  <2>1. ASSUME NEW u \in Service, NEW k \in Session, h = Request(k, u)
        PROVE  Kept(s, u, k)'
    <3>1. h.from = u /\ h.k = k /\ h.t = "REQUEST"
      BY <2>1 DEF Request, Message
    <3>4. CASE [to |-> u, k |-> k] \in byname
      BY <1>1, <3>1, <3>4 DEF Kept
    <3>2. CASE life[u] = "up" /\ [to |-> u, k |-> k] \notin byname
      <4>1. u \in Service \ {s}
        BY <1>1, <3>2
      <4>2. Listed(mail'[u], m)
        BY <1>5, <3>1, <3>2, <4>1
      <4>3. InMail(u, k, s)'
        BY <1>1, <1>2, <3>2, <4>2 DEF InMail, Listed
      <4> QED
        BY <4>3 DEF Kept
    <3>3. CASE life[u] # "up"
      BY <1>1, <3>3 DEF Kept
    <3> QED
      BY <3>2, <3>3, <3>4
  <2>2. life'[s] # "up"
    BY <1>1
  <2> QED
    BY <2>1, <2>2 DEF Handled
<1>7. \A n : Listed(mail[s], n) => Listed(mail'[s], n) \/ Handled(s, n)
  BY <1>3, <1>4, <1>6
<1>8. life[s] # "up" /\ life'[s] # "up"
  BY <1>1
<1> QED
  BY <1>1, <1>5, <1>7, <1>8, WayStep

\* Numbers of the same rank are equal.
LEMMA RankUnique ==
  ASSUME NEW S, S \subseteq Nat, IsFiniteSet(S), NEW k \in S, NEW j \in S, Rank(S, k) = Rank(S, j)
  PROVE  k = j
<1>1. ASSUME NEW a \in S, NEW b \in S, a < b PROVE Rank(S, a) # Rank(S, b)
  <2> DEFINE A == {i \in S : i < a}
             B == {i \in S : i < b}
  <2>1. IsFiniteSet(B)
    BY FS_Subset
  <2>2. A \subseteq B
    <3>1. \A i \in S : i < a => i < b
      BY <1>1
    <3> QED
      BY <3>1
  <2>3. a \in B /\ a \notin A
    BY <1>1
  <2>4. Cardinality(A) = Cardinality(B) => A = B
    BY <2>1, <2>2, FS_Subset
  <2> QED
    BY <2>3, <2>4 DEF Rank
<1>2. k \in Nat /\ j \in Nat
  OBVIOUS
<1> QED
  BY <1>1, <1>2

\* skynet.exit tells every request it owes.
LEMMA ReportAll ==
  ASSUME NEW s \in Service, NEW d \in Service, NEW x \in LuaType, Shape(s, x),
         NEW k \in Session, [to |-> d, k |-> k] \in Owed(x)
  PROVE  Listed(Report(s, x, d), Message("ERROR", k, s))
<1> DEFINE ks == {r.k : r \in {r \in Owed(x) : r.to = d}}
           n == Cardinality(ks)
           pick(j) == CHOOSE l \in ks : Cardinality({i \in ks : i < l}) = j - 1
           q == [j \in 1 .. n |-> Message("ERROR", pick(j), s)]
           e == Downs(s, x, d)
<1>1. Owed(x) \subseteq [to : Service, k : Session]
  BY Fields DEF Owed, Shape
<1>2. IsFiniteSet(ks) /\ ks \subseteq Nat
  <2>1. ks \subseteq Session
    BY <1>1
  <2> QED
    BY <2>1, SessionFinite, FS_Subset, Constants
<1>3. k \in ks
  <2>1. [to |-> d, k |-> k].to = d /\ [to |-> d, k |-> k].k = k
    OBVIOUS
  <2> QED
    BY <2>1
<1>4. Report(s, x, d) = q \o e
  BY DEF Report
<1> HIDE DEF ks
<1>5. n \in Nat
  BY <1>2, FS_CardinalityType
<1> DEFINE L == {i \in ks : i < k}
           j == Cardinality(L) + 1
<1>6. j \in 1 .. n
  <2>1. IsFiniteSet(L) /\ Cardinality(L) \in Nat /\ Cardinality(L) <= n /\ Cardinality(L) # n
    <3>1. k \notin L
      BY <1>2, <1>3
    <3>2. IsFiniteSet(L) /\ Cardinality(L) <= n /\ (Cardinality(L) = n => L = ks)
      BY <1>2, FS_Subset
    <3> QED
      BY <1>3, <3>1, <3>2, FS_CardinalityType
  <2> HIDE DEF L, n
  <2> QED
    BY <1>5, <2>1
<1>7. pick(j) = k
  <2>1. Cardinality(L) = j - 1
    <3>1. Cardinality(L) \in Nat
      BY <1>2, FS_Subset, FS_CardinalityType
    <3> HIDE DEF L
    <3> QED
      BY <3>1
  <2>2. pick(j) \in ks /\ Cardinality({i \in ks : i < pick(j)}) = j - 1
    <3>1. k \in ks /\ Cardinality({i \in ks : i < k}) = j - 1
      BY <1>3, <2>1
    <3> HIDE DEF j, L
    <3> QED
      BY <3>1
  <2>3. Rank(ks, pick(j)) = Rank(ks, k)
    BY <2>1, <2>2 DEF Rank
  <2> HIDE DEF pick, j
  <2> QED
    BY <1>2, <1>3, <2>2, <2>3, RankUnique
<1> HIDE DEF pick, j
<1>8. \A l \in Session \cup {0} : Message("ERROR", l, s) \in Messages
  BY DEF Message, Messages
<1>9. q \in Seq(Messages) /\ DOMAIN q = 1 .. n /\ q[j] = Message("ERROR", k, s)
  <2>1. ASSUME NEW i \in 1 .. n PROVE Message("ERROR", pick(i), s) \in Messages
    <3>1. \E l \in ks : Cardinality({h \in ks : h < l}) = i - 1
      BY <1>2, RankExists DEF Rank
    <3>2. pick(i) \in ks
      BY <3>1 DEF pick
    <3>3. ks \subseteq Session
      BY <1>1 DEF ks
    <3> QED
      BY <1>8, <3>2, <3>3
  <2> HIDE DEF n
  <2> QED
    BY <1>5, <1>6, <1>7, <2>1
<1>10. e \in Seq(Messages)
  BY DownsAre
<1> HIDE DEF q, e, n
<1>11. Listed(q, Message("ERROR", k, s))
  BY <1>6, <1>9 DEF Listed
<1> QED
  BY <1>4, <1>9, <1>10, <1>11, ConcatHas

LEMMA ExitWay ==
  ASSUME AnswersInv, SessionsInv', NoOrphanCall, NEW s \in Service, Exit(s)
  PROVE  NoOrphanCall'
<1> DEFINE x == lua[s]
           out == [d \in Service |-> Report(s, x, d)]
<1>1. /\ x \in LuaType /\ Shape(s, x) /\ SessionsInv /\ lua \in [Service -> LuaType]
      /\ life \in [Service -> {"up", "exited", "freed"}]
  BY Known DEF AnswersInv, SessionsInv
<1>2. /\ UNCHANGED <<byname, lost>> /\ Become(s, Shut(x)) /\ Deliver(out)
      /\ life' = [life EXCEPT ![s] = "exited"]
  BY DEF Exit
<1>3. life'[s] # "up" /\ \A u \in Service \ {s} : life'[u] = life[u]
  BY <1>1, <1>2
<1>4. \A u \in Service \ {s} : lua'[u] = lua[u]
  BY <1>1, <1>2 DEF Become
<1>5. out \in [Service -> Seq(Messages)] /\ \A u \in Service : out[u] = Report(s, x, u)
  BY <1>1, ReportTyped
<1> HIDE DEF out
<1>6. /\ MailGrows
      /\ \A u \in Service : life[u] = "up" => \A m : Listed(out[u], m) => Listed(mail'[u], m)
  BY <1>1, <1>2, <1>5, Arrives
<1>7. ASSUME NEW u \in Service, NEW k \in Session, Pending(x, u, k)
      PROVE  Kept(s, u, k)'
  <2> DEFINE m == Message("ERROR", k, s)
  <2>1. [to |-> u, k |-> k] \in Owed(x)
    <3>1. k # Nil
      BY Constants DEF Nil
    <3>2. ASSUME NEW c \in Co, x.address[c] = u, x.co_id[c] = k
          PROVE  [to |-> u, k |-> k] \in Owed(x)
      BY <3>1, <3>2 DEF Owed
    <3>3. [to |-> u, k |-> k] \in x.unresponse => [to |-> u, k |-> k] \in Owed(x)
      BY DEF Owed
    <3> QED
      BY <1>7, <3>2, <3>3 DEF Pending
  <2>2. Listed(out[u], m)
    BY <1>1, <1>5, <2>1, ReportAll
  <2>3. m.t = "ERROR" /\ m.k = k /\ m.from = s
    BY DEF Message
  <2> HIDE DEF m
  <2>4. CASE life[u] = "up"
    <3>1. Listed(mail'[u], m)
      BY <1>6, <2>2, <2>4
    <3>2. InMail(u, k, s)'
      BY <2>3, <3>1 DEF InMail, Listed
    <3> QED
      BY <3>2 DEF Kept
  <2>5. CASE life[u] # "up"
    <3>1. life'[u] # "up"
      BY <1>3, <2>5
    <3> QED
      BY <3>1 DEF Kept
  <2> QED
    BY <2>4, <2>5
<1> HIDE DEF x
<1> QED
  BY <1>1, <1>2, <1>3, <1>4, <1>6, <1>7, WayStep DEF MailGrows, x

\* A service takes the first message of its queue.
LEMMA TakenWay ==
  ASSUME AnswersInv, SessionsInv', NoOrphanCall, NEW s \in Service, Take(s), lost \subseteq lost',
         NEW y \in LuaType, Become(s, y), Handled(s, Head(mail[s])),
         \A k \in Session : y.watching[k] = lua[s].watching[k] \/ y.watching[k] = None,
         \A k \in Session : Listed(lua[s].error, k) => Listed(y.error, k),
         \A u \in Service, k \in Session : life[s] = "up" /\ Pending(lua[s], u, k) =>
           Pending(y, u, k) \/ life[u] # "up"
  PROVE  NoOrphanCall'
<1>1. /\ SessionsInv /\ mail[s] # << >> /\ mail \in [Service -> Seq(Messages)]
      /\ mail' = [mail EXCEPT ![s] = Tail(@)] /\ UNCHANGED <<life, byname>>
  BY DEF Take, AnswersInv, SessionsInv
<1>2. Same(y, lua'[s]) /\ \A u \in Service \ {s} : lua'[u] = lua[u]
  BY <1>1, Becomes
<1>3. lua'[s].watching = y.watching /\ lua'[s].error = y.error
  BY <1>2 DEF Same
<1>4. \A m : Listed(mail[s], m) => Listed(mail'[s], m) \/ Handled(s, m)
  <2>1. mail[s] \in Seq(Messages) /\ mail'[s] = Tail(mail[s])
    BY <1>1
  <2>2. \A m : Listed(mail[s], m) /\ m # Head(mail[s]) => Listed(Tail(mail[s]), m)
    BY <1>1, <2>1, QTail
  <2> QED
    BY <2>1, <2>2
<1>5. \A u \in Service \ {s} : mail'[u] = mail[u]
  BY <1>1
<1>6. ASSUME NEW u \in Service, NEW k \in Session, life[s] = "up", Pending(lua[s], u, k)
      PROVE  Kept(s, u, k)'
  <2>1. Pending(y, u, k) => Pending(lua'[s], u, k)
    BY <1>2 DEF Same, Pending
  <2> QED
    BY <1>1, <1>6, <2>1 DEF Kept
<1>7. \A k \in Session : lua'[s].watching[k] # None =>
        \/ lua'[s].watching[k] = lua[s].watching[k]
        \/ Listed(mail'[lua'[s].watching[k]], Request(k, s))
  BY <1>3
<1>8. \A k \in Session : Listed(lua[s].error, k) =>
        Listed(lua'[s].error, k) \/ lua'[s].watching[k] = None
  BY <1>3
<1>9. /\ \A u \in Service \ {s} : life'[u] = life[u]
      /\ \A u \in Service \ {s} : \A m : Listed(mail[u], m) => Listed(mail'[u], m)
      /\ life'[s] = "up" => life[s] = "up"
  BY <1>1, <1>5
<1> QED
  BY <1>1, <1>2, <1>4, <1>6, <1>7, <1>8, <1>9, WayStep

\* An answer is taken: the call returns.
LEMMA TakeResponseWay ==
  ASSUME AnswersInv, SessionsInv', NoOrphanCall, NEW s \in Service, Take(s),
         Head(mail[s]).t = "RESPONSE", TakeResponse(s, Head(mail[s]).k), UNCHANGED lost
  PROVE  NoOrphanCall'
<1> DEFINE m == Head(mail[s])
           k == m.k
           x == lua[s]
           c == x.id_co[k]
           z == [x EXCEPT !.id_co[k] = Nil]
<1>1. /\ m \in Messages /\ m.t = "RESPONSE" /\ x \in LuaType /\ UNCHANGED life
      /\ (life[s] = "up" => Sound(x))
  BY Taken, Known, Here DEF AnswersInv
<1>2. \/ c \in {Break, Nil} /\ Become(s, z)
      \/ c \in Co /\ z.at[c] = "closed" /\ Become(s, Dead(z, c))
      \/ c \in Co /\ z.at[c] = "start" /\ Become(s, Run(z, c))
      \/ c \in Co /\ z.at[c] = "sleep" /\ Become(s, Awake(z, c))
      \/ c \in Co /\ z.at[c] = "call" /\ Become(s, [Run(z, c) EXCEPT !.watching[k] = None])
  BY DEF TakeResponse, Returned
<1>3. k \in Session /\ \A j \in Session : j # 0
  BY <1>1, Constants DEF Messages
<1>4. k = m.k /\ c = x.id_co[k]
  OBVIOUS
<1> HIDE DEF m, k, x
<1>5. /\ z \in LuaType /\ Alike(x, z) /\ z.at = x.at
      /\ z.error = x.error /\ z.watching = x.watching
  BY <1>1 DEF LuaType, Alike
<1> HIDE DEF z, c
<1>6. life[s] = "up" /\ x.watching[k] # None => c \in Co /\ x.at[c] = "call"
  BY <1>1, <1>3, <1>4 DEF Sound, Parked
<1>7. Nil \notin Co /\ Break \notin Co
  BY Constants DEF Nil, Break
<1>8. ASSUME NEW y \in LuaType, Become(s, y), Alike(z, y), y.error = z.error,
             y.watching \in {z.watching, [z.watching EXCEPT ![k] = None]},
             c \in Co /\ x.at[c] = "call" => y.watching = [z.watching EXCEPT ![k] = None]
      PROVE  NoOrphanCall'
  <2>1. x.watching \in [Session -> Service \cup {None}]
    BY <1>1, Fields
  <2>2. \A j \in Session : y.watching[j] = x.watching[j] \/ y.watching[j] = None
    BY <1>5, <1>8, <2>1
  <2>3. life[s] = "up" => y.watching[k] = None
    BY <1>3, <1>5, <1>6, <1>8, <2>1
  <2>4. lua'[s].watching = y.watching
    BY <1>8, Becomes DEF AnswersInv, Same
  <2>5. Handled(s, m)
    <3>1. \A u \in Service, j \in Session : m # Request(j, u)
      BY <1>1 DEF Request, Message
    <3>2. \A j \in Session : Reaches(m, s, j) => j = k
      BY <1>3, <1>4 DEF Reaches
    <3> QED
      BY <1>1, <2>3, <2>4, <3>1, <3>2 DEF Handled
  <2>6. Requests(x, y) /\ y.error = x.error
    BY <1>5, <1>8 DEF Alike, Requests
  <2>7. \A u \in Service, j \in Session : Pending(x, u, j) => Pending(y, u, j)
    BY <2>6 DEF Requests, Pending
  <2> QED
    BY <1>8, <2>2, <2>5, <2>6, <2>7, TakenWay DEF x, m
<1>9. CASE c \in {Break, Nil} /\ Become(s, z)
  <2>1. Alike(z, z)
    BY DEF Alike
  <2> QED
    BY <1>5, <1>7, <1>8, <1>9, <2>1
<1>10. CASE c \in Co /\ z.at[c] = "closed" /\ Become(s, Dead(z, c))
  <2> DEFINE y == [z EXCEPT !.run = c, !.mode = "dead"]
  <2>1. Become(s, y)
    BY <1>10 DEF Dead
  <2>2. y \in LuaType /\ Alike(z, y) /\ y.error = z.error /\ y.watching = z.watching
    BY <1>5, <1>10 DEF LuaType, Alike, Modes
  <2> HIDE DEF y
  <2> QED
    BY <1>5, <1>8, <1>10, <2>1, <2>2
<1>11. CASE c \in Co /\ z.at[c] = "start" /\ Become(s, Run(z, c))
  <2> DEFINE y == Run(z, c)
  <2>1. y \in LuaType /\ Alike(z, y) /\ y.error = z.error /\ y.watching = z.watching
    BY <1>5, <1>11, RunIs
  <2>2. Become(s, y)
    BY <1>11
  <2> HIDE DEF y
  <2> QED
    BY <1>5, <1>8, <1>11, <2>1, <2>2
<1>12. CASE c \in Co /\ z.at[c] = "sleep" /\ Become(s, Awake(z, c))
  <2> DEFINE y == Awake(z, c)
  <2>1. y \in LuaType /\ Alike(z, y) /\ y.error = z.error /\ y.watching = z.watching
    BY <1>5, <1>12, AwakeIs DEF Awoken
  <2>2. Become(s, y)
    BY <1>12
  <2> HIDE DEF y
  <2> QED
    BY <1>5, <1>8, <1>12, <2>1, <2>2
<1>13. CASE c \in Co /\ z.at[c] = "call" /\ Become(s, [Run(z, c) EXCEPT !.watching[k] = None])
  <2> DEFINE y == [Run(z, c) EXCEPT !.watching[k] = None]
  <2>1. /\ y \in LuaType /\ Alike(z, y) /\ y.id_co = z.id_co
        /\ y.at = [z.at EXCEPT ![c] = "run"] /\ y.run = c /\ y.mode = "run"
        /\ y.wakeup = z.wakeup /\ y.error = z.error /\ y.sleep = z.sleep
        /\ y.current = z.current /\ y.ref = z.ref
        /\ y.watching = [z.watching EXCEPT ![k] = None]
    <3>1. z \in LuaType /\ c \in Co /\ k \in Session
      BY <1>3, <1>5, <1>13
    <3> QED
      BY <3>1, ReturnedIs
  <2>2. Become(s, y)
    BY <1>13
  <2> HIDE DEF y
  <2> QED
    BY <1>8, <1>13, <2>1, <2>2
<1> QED
  BY <1>2, <1>9, <1>10, <1>11, <1>12, <1>13

\* A request is taken: its coroutine owes the answer, or it is lost.
LEMMA TakeRequestWay ==
  ASSUME AnswersInv, SessionsInv', NoOrphanCall, NEW s \in Service, Take(s),
         Head(mail[s]).t = "REQUEST", TakeRequest(s, Head(mail[s]))
  PROVE  NoOrphanCall'
<1> DEFINE m == Head(mail[s])
           x == lua[s]
           c == NewCo(x)
           r == Run(x, c)
           y == [r EXCEPT !.co_id[c] = m.k, !.address[c] = m.from]
<1>1. /\ m \in Messages /\ m.t = "REQUEST" /\ x \in LuaType /\ Placed(x) /\ UNCHANGED life
  BY Taken, Known
<1>2. /\ Become(s, y) /\ Free(x) # {}
      /\ lost' = IF life[s] = "up" THEN lost ELSE lost \cup {[to |-> m.from, k |-> m.k]}
  BY DEF TakeRequest
<1> HIDE DEF x, m
<1>3. m.k \in Session /\ m.from \in Service /\ m = Request(m.k, m.from)
  BY <1>1 DEF Messages, Request, Message
<1>4. c \in Co /\ x.at[c] = "free"
  BY <1>1, <1>2, NewCoIn
<1>5. x.co_id[c] = Nil
  BY <1>1, <1>4 DEF Placed
<1> HIDE DEF c
<1>6. r \in LuaType /\ Alike(x, r) /\ r.error = x.error /\ r.watching = x.watching
  BY <1>1, <1>4, RunIs
<1> HIDE DEF r
<1>7. /\ y \in LuaType /\ y.co_id = [r.co_id EXCEPT ![c] = m.k]
      /\ y.address = [r.address EXCEPT ![c] = m.from]
      /\ y.error = r.error /\ y.watching = r.watching /\ y.unresponse = r.unresponse
  BY <1>3, <1>4, <1>6 DEF LuaType
<1> HIDE DEF y
<1>8. /\ y.co_id[c] = m.k /\ y.address[c] = m.from /\ y.unresponse = x.unresponse
      /\ \A b \in Co : b # c => y.co_id[b] = x.co_id[b] /\ y.address[b] = x.address[b]
  <2>1. x.co_id = r.co_id /\ x.address = r.address /\ x.unresponse = r.unresponse
    BY <1>6 DEF Alike
  <2> QED
    BY <1>1, <1>3, <1>4, <1>7, <2>1, Fields
<1>9. \A u \in Service, k \in Session : Pending(x, u, k) => Pending(y, u, k)
  <2>1. \A k \in Session : k # Nil
    BY Constants DEF Nil
  <2> QED
    BY <1>5, <1>8, <2>1 DEF Pending
<1>10. Pending(y, m.from, m.k)
  BY <1>4, <1>8 DEF Pending
<1>11. Same(y, lua'[s])
  BY <1>2, <1>7, Becomes DEF AnswersInv
<1>12. Handled(s, m)
  <2>1. ASSUME NEW u \in Service, NEW k \in Session, m = Request(k, u)
        PROVE  Kept(s, u, k)'
    <3>1. u = m.from /\ k = m.k
      BY <2>1 DEF Request, Message
    <3>2. CASE life[s] = "up"
      <4>1. Pending(lua'[s], u, k)
        BY <1>10, <1>11, <3>1 DEF Same, Pending
      <4> QED
        BY <1>1, <3>2, <4>1 DEF Kept
    <3>3. CASE life[s] # "up"
      BY <1>2, <3>1, <3>3 DEF Kept
    <3> QED
      BY <3>2, <3>3
  <2> QED
    BY <1>1, <2>1 DEF Handled
<1>13. lost \subseteq lost'
  BY <1>2
<1>14. y.watching = x.watching /\ y.error = x.error
  BY <1>6, <1>7
<1> HIDE DEF y
<1> QED
  BY <1>2, <1>7, <1>9, <1>12, <1>13, <1>14, TakenWay DEF x, m

\* An error is taken: the calls that wait for its source are to fail.
LEMMA TakeErrorWay ==
  ASSUME AnswersInv, SessionsInv', NoOrphanCall, NEW s \in Service, Take(s),
         Head(mail[s]).t = "ERROR", TakeError(s, Head(mail[s])), UNCHANGED lost
  PROVE  NoOrphanCall'
<1> DEFINE m == Head(mail[s])
           x == lua[s]
<1>1. /\ m \in Messages /\ Mailed(callee, answers, life, x.session, s, m) /\ m.t = "ERROR"
      /\ UNCHANGED life /\ x \in LuaType
  BY Taken, Known
<1>2. IF m.k # 0
      THEN Become(s, [x EXCEPT !.mode = "chain",
                               !.error = IF x.watching[m.k] # None THEN Append(@, m.k) ELSE @])
      ELSE \E q \in [1 .. Cardinality(Watched(s, x, m.from)) -> Watched(s, x, m.from)] :
             /\ {q[i] : i \in DOMAIN q} = Watched(s, x, m.from)
             /\ Become(s, [x EXCEPT !.mode = "chain", !.error = @ \o q,
                                    !.unresponse = {r \in @ : r.to # m.from}])
  BY DEF TakeError
<1> HIDE DEF x, m
<1>3. m.from \in Service /\ m.k \in Session \cup {0} /\ \A k \in Session : k # 0
  BY <1>1, Constants DEF Messages
<1>4. x.error \in Seq(Session) /\ x.unresponse \in SUBSET [to : Service, k : Session]
  BY <1>1, Fields
<1>5. ASSUME NEW e \in Seq(Session), NEW w \in SUBSET [to : Service, k : Session],
             Become(s, [x EXCEPT !.mode = "chain", !.error = e, !.unresponse = w]),
             \A r \in x.unresponse : r \in w \/ life[r.to] # "up",
             \A k \in Session : Listed(x.error, k) => Listed(e, k),
             \A k \in Session : /\ Reaches(m, s, k) /\ x.watching[k] # None
                                /\ x.watching[k] = m.from
                                => Listed(e, k)
      PROVE  NoOrphanCall'
  <2> DEFINE y == [x EXCEPT !.mode = "chain", !.error = e, !.unresponse = w]
  <2>1. /\ y \in LuaType /\ y.error = e /\ y.unresponse = w /\ y.watching = x.watching
        /\ y.co_id = x.co_id /\ y.address = x.address
    BY <1>1, <1>4 DEF LuaType, Modes
  <2>2. Become(s, y)
    BY <1>5
  <2> HIDE DEF y
  <2>3. lua'[s].watching = x.watching /\ lua'[s].error = e
    BY <2>1, <2>2, Becomes DEF AnswersInv, Same
  <2>4. Handled(s, m)
    <3>1. \A u \in Service, k \in Session : m # Request(k, u)
      BY <1>1 DEF Request, Message
    <3> QED
      BY <1>5, <2>3, <3>1 DEF Handled
  <2>5. ASSUME NEW u \in Service, NEW k \in Session, Pending(x, u, k)
        PROVE  Pending(y, u, k) \/ life[u] # "up"
    <3>1. CASE [to |-> u, k |-> k] \in x.unresponse
      BY <1>5, <2>1, <3>1 DEF Pending
    <3>2. CASE [to |-> u, k |-> k] \notin x.unresponse
      BY <2>1, <2>5, <3>2 DEF Pending
    <3> QED
      BY <3>1, <3>2
  <2> QED
    BY <1>5, <2>1, <2>2, <2>4, <2>5, TakenWay DEF x, m
<1>6. CASE m.k # 0
  <2> DEFINE e == IF x.watching[m.k] # None THEN Append(x.error, m.k) ELSE x.error
  <2>1. Become(s, [x EXCEPT !.mode = "chain", !.error = e, !.unresponse = x.unresponse])
    <3>1. [x EXCEPT !.mode = "chain", !.error = e] =
            [x EXCEPT !.mode = "chain", !.error = e, !.unresponse = x.unresponse]
      BY <1>1 DEF LuaType
    <3> QED
      BY <1>2, <1>6, <3>1
  <2>2. m.k \in Session
    BY <1>3, <1>6
  <2>3. /\ Append(x.error, m.k) \in Seq(Session)
        /\ \A d : Listed(Append(x.error, m.k), d) <=> Listed(x.error, d) \/ d = m.k
    BY <1>4, <2>2, QAppend
  <2>4. /\ e \in Seq(Session) /\ \A k \in Session : Listed(x.error, k) => Listed(e, k)
        /\ x.watching[m.k] # None => Listed(e, m.k)
    BY <1>4, <2>3
  <2> HIDE DEF e
  <2>5. \A k \in Session : Reaches(m, s, k) => k = m.k
    BY <1>6 DEF Reaches
  <2>6. \A k \in Session : Reaches(m, s, k) /\ x.watching[k] # None /\ x.watching[k] = m.from
                           => Listed(e, k)
    BY <2>4, <2>5
  <2> QED
    BY <1>4, <1>5, <2>1, <2>4, <2>6
<1>7. CASE m.k = 0
  <2> DEFINE W == Watched(s, x, m.from)
  <2>1. PICK q \in [1 .. Cardinality(W) -> W] :
             /\ {q[i] : i \in DOMAIN q} = W
             /\ Become(s, [x EXCEPT !.mode = "chain", !.error = @ \o q,
                                    !.unresponse = {r \in @ : r.to # m.from}])
    BY <1>2, <1>7
  <2>2. /\ W \subseteq Session
        /\ \A k \in Session : Reaches(m, s, k) /\ x.watching[k] = m.from => k \in W
    BY <1>3, <1>7 DEF Watched, Reaches
  <2> HIDE DEF W
  <2>3. q \in Seq(Session)
    BY <2>1, <2>2, Enumeration
  <2>4. \A k \in W : Listed(q, k)
    BY <2>1 DEF Listed
  <2> DEFINE e == x.error \o q
             w == {r \in x.unresponse : r.to # m.from}
  <2>5. e \in Seq(Session) /\ w \in SUBSET [to : Service, k : Session]
    BY <1>4, <2>3
  <2>6. \A k : Listed(x.error, k) \/ Listed(q, k) => Listed(e, k)
    BY <1>4, <2>3, ConcatHas
  <2>7. Become(s, [x EXCEPT !.mode = "chain", !.error = e, !.unresponse = w])
    BY <2>1
  <2>8. \A r \in x.unresponse : r \in w \/ life[r.to] # "up"
    BY <1>1, <1>7 DEF Mailed
  <2> HIDE DEF e, w
  <2>9. /\ \A k \in Session : Listed(x.error, k) => Listed(e, k)
        /\ \A k \in Session : Reaches(m, s, k) /\ x.watching[k] = m.from => Listed(e, k)
    BY <2>2, <2>4, <2>6
  <2> QED
    BY <1>5, <2>5, <2>7, <2>8, <2>9
<1> QED
  BY <1>6, <1>7

\* skynet.dispatch_message.
LEMMA TakeWay ==
  ASSUME AnswersInv, SessionsInv', NoOrphanCall, NEW s \in Service, Take(s)
  PROVE  NoOrphanCall'
<1> DEFINE m == Head(mail[s])
<1>1. \/ m.t = "RESPONSE" /\ TakeResponse(s, m.k) /\ UNCHANGED lost
      \/ m.t = "REQUEST" /\ TakeRequest(s, m)
      \/ m.t = "ERROR" /\ TakeError(s, m) /\ UNCHANGED lost
  BY DEF Take
<1> QED
  BY <1>1, TakeResponseWay, TakeRequestWay, TakeErrorWay

\* What is woken owes what it owed.
LEMMA WokeKeeps ==
  ASSUME NEW s \in Service, NEW x \in LuaType, Shape(s, x), x.mode = "chain",
         NEW c \in Co \cup {Nil, Break}, NEW k \in Session
  PROVE  LET y == Woke(x, c, k)
         IN  y \in LuaType /\ y.watching = x.watching /\ y.error = x.error /\ Requests(x, y)
<1> DEFINE w == Awake(x, c)
           Like(y) == y.watching = x.watching /\ y.error = x.error /\ Requests(x, y)
<1>1. Woke(x, c, k) \in LuaType
  BY WokeShape
<1>2. CASE c \notin Co
  <2>1. Woke(x, c, k) = [x EXCEPT !.mode = "fork"]
    BY <1>2 DEF Woke
  <2>2. Like([x EXCEPT !.mode = "fork"])
    BY DEF LuaType, Requests
  <2> QED
    BY <1>1, <2>1, <2>2
<1>3. CASE c \in Co
  <2>1. w \in LuaType /\ Like(w)
    BY <1>3, AwakeIs DEF Awoken, Alike, Requests
  <2>2. \/ Woke(x, c, k) = w
        \/ Woke(x, c, k) = [w EXCEPT !.id_co[k] = Nil]
        \/ Woke(x, c, k) = [w EXCEPT !.id_co[k] = Nil, !.current = c, !.ref = 1]
        \/ Woke(x, c, k) = [x EXCEPT !.run = c, !.mode = "dead"]
    BY <1>3 DEF Woke, Dead
  <2> HIDE DEF w
  <2>3. /\ Like([w EXCEPT !.id_co[k] = Nil])
        /\ Like([w EXCEPT !.id_co[k] = Nil, !.current = c, !.ref = 1])
    BY <2>1 DEF LuaType, Requests
  <2>4. Like([x EXCEPT !.run = c, !.mode = "dead"])
    BY DEF LuaType, Requests
  <2>5. Like(Woke(x, c, k))
    BY <2>1, <2>2, <2>3, <2>4
  <2> QED
    BY <1>1, <2>5
<1> QED
  BY <1>2, <1>3

\* A wakeup changes nothing of a call; an error ends one.
LEMMA ChainWay ==
  ASSUME AnswersInv, SessionsInv', NoOrphanCall, NEW s \in Service, Chain(s)
  PROVE  NoOrphanCall'
<1> DEFINE x == lua[s]
           c == Head(x.wakeup)
           k == x.sleep[c]
           y == [x EXCEPT !.wakeup = Tail(@)]
           z == [y EXCEPT !.id_co[k] = Break]
           j == Head(x.error)
           b == x.id_co[j]
           e == [x EXCEPT !.error = Tail(@), !.id_co[j] = Nil]
<1>1. /\ x \in LuaType /\ Shape(s, x) /\ Busy(x) /\ x.mode = "chain" /\ SessionsInv
      /\ (life[s] = "up" => Sound(x)) /\ UNCHANGED <<mail, life, byname, lost>>
  BY Known, Here DEF Chain, AnswersInv
<1>2. /\ x.wakeup # << >> /\ k = Nil => Become(s, y)
      /\ x.wakeup # << >> /\ k # Nil => Become(s, Woke(z, x.id_co[k], k))
      /\ x.wakeup = << >> /\ b \in Co /\ x.at[b] = "call"
           => Become(s, [Run(e, b) EXCEPT !.watching[j] = None])
      /\ \A u \in Service \ {s} : lua'[u] = lua[u]
  <2>1. \A u \in Service \ {s} : lua'[u] = lua[u]
    <3>1. \E v : Become(s, v)
      BY DEF Chain, Returned
    <3> QED
      BY <3>1 DEF Become, AnswersInv, SessionsInv
  <2> QED
    BY <2>1 DEF Chain, Returned
<1> HIDE DEF x
<1>3. CASE x.wakeup # << >>
  <2>1. c \in Co /\ k \in Session \cup {Nil} /\ Tail(x.wakeup) \in Seq(Co)
    BY <1>1, <1>3, Fields
  <2>2. /\ y \in LuaType /\ y.watching = x.watching /\ y.error = x.error /\ Requests(x, y)
        /\ y.session = x.session /\ y.id_co = x.id_co /\ y.at = x.at /\ y.run = x.run
        /\ y.mode = x.mode
    BY <1>1, <2>1 DEF LuaType, Requests
  <2>3. CASE k = Nil
    <3> HIDE DEF y, k
    <3>1. Become(s, y)
      BY <1>2, <1>3, <2>3
    <3> QED
      BY <1>1, <2>2, <3>1, OwnWay DEF x
  <2>4. CASE k # Nil
    <3>1. k \in Session
      BY <2>1, <2>4
    <3> DEFINE d == x.id_co[k]
    <3>2. Become(s, Woke(z, d, k)) /\ d \in Co \cup {Nil, Break}
      BY <1>1, <1>2, <1>3, <2>4, <3>1, Fields
    <3> HIDE DEF c, k, y, d
    <3>3. /\ z \in LuaType /\ z.watching = y.watching /\ z.error = y.error /\ Requests(y, z)
          /\ z.session = y.session /\ z.at = y.at /\ z.run = y.run /\ z.mode = y.mode
      BY <2>2, <3>1 DEF LuaType, Requests
    <3> HIDE DEF z
    <3>4. Shape(s, z) /\ z.mode = "chain"
      BY <1>1, <2>2, <3>3 DEF Shape, Requests
    <3> DEFINE w == Woke(z, d, k)
    <3>5. w \in LuaType /\ w.watching = z.watching /\ w.error = z.error /\ Requests(z, w)
      BY <3>1, <3>2, <3>3, <3>4, WokeKeeps
    <3>6. Become(s, w)
      BY <3>2
    <3> HIDE DEF w
    <3>7. w.watching = x.watching /\ w.error = x.error /\ Requests(x, w)
      BY <2>2, <3>3, <3>5 DEF Requests
    <3> QED
      BY <1>1, <3>5, <3>6, <3>7, OwnWay DEF x
  <2> QED
    BY <2>3, <2>4
<1>4. CASE x.wakeup = << >>
  <2>1. MailGrows /\ lost \subseteq lost'
    BY <1>1 DEF MailGrows
  <2>2. CASE life[s] # "up"
    BY <1>1, <1>2, <2>1, <2>2, DownWay
  <2>3. CASE life[s] = "up"
    <3>1. x.error # << >> /\ x.error \in Seq(Session)
      BY <1>1, <1>4, Fields DEF Busy
    <3>2. b \in Co /\ x.at[b] = "call"
      BY <1>1, <2>3, <3>1, ErrorWaits
    <3>3. /\ j \in Session /\ Tail(x.error) \in Seq(Session)
          /\ \A d : Listed(x.error, d) /\ d # j => Listed(Tail(x.error), d)
      BY <3>1, QTail
    <3> DEFINE w == [Run(e, b) EXCEPT !.watching[j] = None]
    <3>4. Become(s, w)
      BY <1>2, <1>4, <3>2
    <3> HIDE DEF j, b
    <3>5. /\ e \in LuaType /\ Requests(x, e) /\ e.error = Tail(x.error)
          /\ e.watching = x.watching
      BY <1>1, <3>3 DEF LuaType, Requests
    <3> HIDE DEF e
    <3>6. /\ w \in LuaType /\ Requests(x, w) /\ w.error = Tail(x.error)
          /\ w.watching = [x.watching EXCEPT ![j] = None]
      <4>1. /\ w \in LuaType /\ Alike(e, w) /\ w.id_co = e.id_co
            /\ w.at = [e.at EXCEPT ![b] = "run"] /\ w.run = b /\ w.mode = "run"
            /\ w.wakeup = e.wakeup /\ w.error = e.error /\ w.sleep = e.sleep
            /\ w.current = e.current /\ w.ref = e.ref
            /\ w.watching = [e.watching EXCEPT ![j] = None]
        <5>1. e \in LuaType /\ b \in Co /\ j \in Session
          BY <3>2, <3>3, <3>5
        <5> QED
          BY <5>1, ReturnedIs
      <4> HIDE DEF w
      <4> QED
        BY <3>5, <4>1 DEF Alike, Requests
    <3> HIDE DEF w
    <3>7. Same(w, lua'[s])
      BY <1>1, <3>4, <3>6, Becomes
    <3>8. \A i \in Session : lua'[s].watching[i] = IF i = j THEN None ELSE x.watching[i]
      <4>1. x.watching \in [Session -> Service \cup {None}]
        BY <1>1, Fields
      <4> QED
        BY <3>6, <3>7, <4>1 DEF Same
    <3>9. \A i \in Session : Listed(x.error, i) => Listed(lua'[s].error, i) \/ i = j
      BY <3>3, <3>6, <3>7 DEF Same
    <3>10. ASSUME NEW u \in Service, NEW i \in Session, Pending(x, u, i)
           PROVE  Kept(s, u, i)'
      <4>1. Pending(lua'[s], u, i)
        BY <3>6, <3>7, <3>10 DEF Same, Pending, Requests
      <4> QED
        BY <1>1, <2>3, <4>1 DEF Kept
    <3>11. \A i \in Session : lua'[s].watching[i] # None => lua'[s].watching[i] = x.watching[i]
      BY <3>8
    <3>12. \A i \in Session : Listed(x.error, i) =>
             Listed(lua'[s].error, i) \/ lua'[s].watching[i] = None
      BY <3>8, <3>9
    <3> QED
      BY <1>1, <1>2, <2>1, <3>10, <3>11, <3>12, WayStep DEF MailGrows, x
  <2> QED
    BY <2>2, <2>3
<1> QED
  BY <1>3, <1>4

LEMMA NoOrphanInit == Init => NoOrphanCall
<1> SUFFICES ASSUME Init PROVE NoOrphanCall
  OBVIOUS
<1>1. \A s \in Service, k \in Session : lua[s].watching[k] = None
  BY DEF Init, New
<1> QED
  BY <1>1 DEF NoOrphanCall

LEMMA NoOrphanNext == AnswersInv /\ NoOrphanCall /\ [Next]_vars => NoOrphanCall'
<1> SUFFICES ASSUME AnswersInv, NoOrphanCall, [Next]_vars PROVE NoOrphanCall'
  OBVIOUS
<1>1. SessionsInv'
  BY SessionsNext DEF AnswersInv
<1>2. CASE UNCHANGED vars
  BY <1>2 DEF vars, history, NoOrphanCall, OnItsWay, InMail
<1>3. CASE Next
  <2>1. PICK s \in Service :
          \/ Api(s) \/ Raise(s)
          \/ Take(s) \/ Chain(s) \/ ForkLoop(s) \/ Release(s) \/ Drop(s)
          \/ \E k \in Session : Timer(s, k)
    BY <1>3 DEF Next
  <2>2. CASE Api(s)
    BY <1>1, <2>2, CallWay, SleepWay, WakeupWay, ForkWay, RetWay, ResponseWay, RespondWay,
       EnterWay, LeaveWay, ReturnWay, ExitWay DEF Api
  <2> QED
    BY <1>1, <2>1, <2>2, RaiseWay, TakeWay, ChainWay, ForkLoopWay, ReleaseWay, DropWay, TimerWay
<1> QED
  BY <1>2, <1>3

\* NoOrphanCall, for any number of services, coroutines and sessions: a
\* coroutine that waits in skynet.call of a service that is up has its request
\* queued at the callee, or a coroutine or a closure of skynet.response there
\* owes the answer, or an answer or an error is queued for it or in
\* error_queue, though callees raise errors, exit (skynet.exit, cleanup of
\* their queues by drop_message) and answer in any order.  A call by name is
\* not answered by an error of session 0.  The requests in lost are excepted:
\* the callee took it after its exit, its handler returned without an answer,
\* or it was sent by name and dropped.
THEOREM NoCallForgotten == Spec => []NoOrphanCall
  BY AnswersSafe, NoOrphanInit, NoOrphanNext, PTL DEF Spec
===============================================================================
