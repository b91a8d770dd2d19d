------------------------- MODULE HandleStorage_proofs -------------------------
(***************************************************************************)
(* The handle table keeps every context at the hash of its handle, through *)
(* any number of launches, kills and doublings of the table, as long as no *)
(* two launches are between skynet_handle_register and the assignment of   *)
(* ctx->handle at the same time.  (They may be, see the run handle_race;   *)
(* the rehash then reads a handle of 0.)  From this follows that           *)
(* skynet_handle_retireall misses nobody: a context that moves when the    *)
(* table is doubled moves to a later slot.                                 *)
(* The second part shows that names are found whatever overlaps.           *)
(***************************************************************************)
EXTENDS HandleStorage, SequenceTheorems, WellFoundedInduction, TLAPS

\* register is not called while another launch is between its register and
\* the assignment of its handle.
Serial == registers' # registers => \A u \in Launcher : pc[u] # "store"

\* The context with handle h is at its place.
At(sl, size, hd, h) == sl[h % size] # None /\ hd[sl[h % size]] = h

\* Every context is in one slot, that of its handle.
TableOK(sl, size, hd) ==
    /\ size \in Nat \ {0}
    /\ sl \in [0 .. size - 1 -> Context \cup {None}]
    /\ \A k \in 0 .. size - 1 :
         sl[k] # None /\ hd[sl[k]] # 0 => hd[sl[k]] % size = k
    /\ \A j, k \in 0 .. size - 1 : sl[j] = sl[k] /\ sl[j] # None => j = k

\* A context without handle is one that a launcher is about to give its handle.
Launching ==
    /\ \A k \in 0 .. slot_size - 1 :
         slot[k] # None /\ handle[slot[k]] = 0
         => \E t \in Launcher : pc[t] = "store" /\ arg[t] = slot[k]
    /\ \A t \in Launcher :
         /\ pc[t] \in {"idle", "store"}
         /\ pc[t] = "store" => /\ arg[t] \in Context /\ handle[arg[t]] = 0 /\ ret[t] # 0
                               /\ slot[ret[t] % slot_size] = arg[t]
    /\ \A t, u \in Launcher : pc[t] = "store" /\ pc[u] = "store" => t = u

\* A pass that has retired nothing so far has all that is due still before it.
Aborting ==
    \A t \in Aborter :
      /\ pc[t] # "store" /\ (pc[t] = "retire" => seen[t] # 0)
      /\ \A h \in due[t] :
           /\ At(slot, slot_size, handle, h)
           /\ pc[t] \in {"read", "retire"} /\ cnt[t] = 0 => h % slot_size >= idx[t]
           /\ pc[t] = "retire" /\ cnt[t] = 0 /\ h % slot_size = idx[t] => h = seen[t]
      /\ pc[t] = "done" => due[t] = {}

HandleInv ==
    /\ TypeOK
    /\ TableOK(slot, slot_size, handle)
    /\ Launching
    /\ Aborting
    /\ NoSlotTaken

-----------------------------------------------------------------------------
(* Arithmetic                                                               *)

\* The constants, as the proofs use them.
LEMMA Constants ==
  /\ None \notin Context /\ HandleMask \in Nat \ {0} /\ MaxRegister \in Nat
  /\ \A t \in Launcher : t \notin Aborter
  BY HandleAssumption

\* The index of a slot.
LEMMA ModIn ==
  ASSUME NEW h \in Nat, NEW s \in Nat \ {0}
  PROVE  h % s \in 0 .. s - 1
  OBVIOUS

\* Doubling the table moves a context not at all, or by the old size.
LEMMA ModDouble ==
  ASSUME NEW h \in Nat, NEW s \in Nat \ {0}
  PROVE  h % (2 * s) \in {h % s, (h % s) + s}
<1>1. ASSUME NEW d \in Nat \ {0}
      PROVE  h = (d * (h \div d)) + (h % d) /\ h % d \in 0 .. d - 1 /\ h \div d \in Nat
  OBVIOUS
<1> DEFINE q == h \div s
           p == h \div (2 * s)
           x == h % s
           y == h % (2 * s)
<1>2. 2 * s \in Nat \ {0}
  OBVIOUS
<1>3. /\ h = (s * q) + x /\ x \in 0 .. s - 1 /\ q \in Nat
      /\ h = ((2 * s) * p) + y /\ y \in 0 .. (2 * s) - 1 /\ p \in Nat
  BY <1>1, <1>2, Zenon
<1> HIDE DEF q, p, x, y
<1>4. s * (q - 2 * p) = y - x /\ q - 2 * p \in Int /\ y - x \in -s + 1 .. 2 * s - 1
  BY <1>3
<1>5. q - 2 * p < 2
  BY <1>4
<1>6. q - 2 * p > -1
  BY <1>4
<1>7. q - 2 * p \in {0, 1}
  BY <1>4, <1>5, <1>6
<1> QED
  BY <1>3, <1>4, <1>7 DEF x, y

\* Contexts in different slots stay in different slots.
LEMMA ModSplit ==
  ASSUME NEW g \in Nat, NEW h \in Nat, NEW s \in Nat \ {0}, g % (2 * s) = h % (2 * s)
  PROVE  g % s = h % s
<1>1. g % (2 * s) \in {g % s, (g % s) + s} /\ h % (2 * s) \in {h % s, (h % s) + s}
  BY ModDouble
<1>2. g % s \in 0 .. s - 1 /\ h % s \in 0 .. s - 1
  BY ModIn
<1> DEFINE a == g % s
           b == h % s
           c == g % (2 * s)
           d == h % (2 * s)
<1> HIDE DEF a, b, c, d
<1>3. c \in {a, a + s} /\ d \in {b, b + s} /\ a \in 0 .. s - 1 /\ b \in 0 .. s - 1 /\ c = d
  BY <1>1, <1>2 DEF a, b, c, d
<1>4. a = b
  BY <1>3
<1> QED
  BY <1>4 DEF a, b

\* A set of numbers has a least one.
LEMMA Least ==
  ASSUME NEW S, S \subseteq Nat, S # {}
  PROVE  \E c \in S : \A d \in S : c <= d
<1>1. PICK c \in S : \A d \in S : ~ (<<d, c>> \in OpToRel(<, Nat))
  BY NatLessThanWellFounded, WFMin
<1>2. \A d \in S : c <= d
  <2> TAKE d \in S
  <2>1. c \in Nat /\ d \in Nat
    OBVIOUS
  <2>2. ~ (d < c)
    BY <1>1, <2>1 DEF OpToRel
  <2> QED
    BY <2>1, <2>2
<1> QED
  BY <1>2

\* The first free probe is one of them.
LEMMA FirstIn ==
  ASSUME NEW S, S \subseteq Nat, S # {}
  PROVE  First(S) \in S
  BY Least DEF First

-----------------------------------------------------------------------------
(* Finding and registering                                                  *)

\* What grab and retire find.
LEMMA FoundIs ==
  ASSUME HandleInv, NEW h \in 1 .. HandleMask
  PROVE  /\ h % slot_size \in 0 .. slot_size - 1
         /\ Found(h) # None <=> At(slot, slot_size, handle, h)
<1>1. h \in Nat /\ slot_size \in Nat \ {0}
  BY Constants DEF HandleInv, TypeOK
<1> QED
  BY <1>1, ModIn DEF Found, At

\* Handle h and its slot in the table sl go to context c.
Took(t, c, sl, size, h) ==
    /\ h % size \in 0 .. size - 1 /\ sl[h % size] = None
    /\ slot' = [sl EXCEPT ![h % size] = c]
    /\ slot_size' = size
    /\ handle_index' = h + 1
    /\ ret' = [ret EXCEPT ![t] = h]

\* The loop of register over the slots takes a free one.
LEMMA TakeIs ==
  ASSUME TypeOK, NEW t \in Launcher, NEW c, NEW size \in Nat \ {0}, NEW sl,
         FreeProbes(sl, size) # {}, TakeSlot(t, c, sl, size)
  PROVE  \E h \in 1 .. HandleMask : Took(t, c, sl, size, h)
<1> DEFINE k == First(FreeProbes(sl, size))
           h == Probe(k)
<1>1. k \in FreeProbes(sl, size)
  <2>1. FreeProbes(sl, size) \subseteq Nat
    BY DEF FreeProbes
  <2> QED
    BY <2>1, FirstIn
<1>2. k \in Nat /\ sl[h % size] = None
  BY <1>1 DEF FreeProbes
<1>3. h \in 1 .. HandleMask
  <2> HIDE DEF k
  <2>1. HandleMask \in Nat \ {0} /\ handle_index + k - 1 \in Nat
    BY <1>2, Constants DEF TypeOK
  <2>2. (handle_index + k - 1) % HandleMask \in 0 .. HandleMask - 1
    BY <2>1, ModIn
  <2> QED
    BY <2>1, <2>2 DEF Probe
<1>4. h \in Nat
  BY <1>3, Constants
<1>5. h % size \in 0 .. size - 1
  <2> HIDE DEF h
  <2> QED
    BY <1>4, ModIn
<1>6. /\ slot' = [sl EXCEPT ![h % size] = c] /\ slot_size' = size
      /\ handle_index' = h + 1 /\ ret' = [ret EXCEPT ![t] = h]
  BY DEF TakeSlot
<1> HIDE DEF h
<1> QED
  BY <1>2, <1>3, <1>5, <1>6 DEF Took

\* When register is called every context in the table has its handle.
LEMMA NoneStoring ==
  ASSUME HandleInv, Serial, NEW t \in Launcher, NEW c \in Context, Enter(t, c)
  PROVE  /\ \A u \in Launcher : pc[u] # "store"
         /\ \A k \in 0 .. slot_size - 1 :
              slot[k] # None => slot[k] \in Context /\ handle[slot[k]] # 0
<1>1. registers' = registers + 1 /\ registers \in Nat
  BY Constants DEF HandleInv, TypeOK, Enter
<1>2. \A u \in Launcher : pc[u] # "store"
  BY <1>1 DEF Serial
<1>3. slot \in [0 .. slot_size - 1 -> Context \cup {None}] /\ Launching
  BY DEF HandleInv, TableOK
<1> QED
  BY <1>2, <1>3 DEF Launching

\* The table into which a launcher puts its context: the table as it is, or
\* the doubled one.
Prepared(sl, size) ==
    /\ TableOK(sl, size, handle)
    /\ \A k \in 0 .. size - 1 : sl[k] # None =>
         \E j \in 0 .. slot_size - 1 : slot[j] = sl[k]
    /\ \A h \in 1 .. HandleMask : At(slot, slot_size, handle, h) =>
         At(sl, size, handle, h) /\ h % size >= h % slot_size

\* A launch that is alone keeps the invariant.
LEMMA RegisterKeeps ==
  ASSUME HandleInv, Serial, NEW t \in Launcher, NEW c \in Context, NEW size, NEW sl,
         Enter(t, c), Prepared(sl, size), FreeProbes(sl, size) # {},
         TakeSlot(t, c, sl, size), Leave(t, c)
  PROVE  HandleInv'
<1>1. /\ TypeOK /\ TableOK(slot, slot_size, handle) /\ Launching /\ Aborting /\ NoSlotTaken
      /\ TableOK(sl, size, handle) /\ size \in Nat \ {0} /\ slot_size \in Nat \ {0}
      /\ sl \in [0 .. size - 1 -> Context \cup {None}] /\ None \notin Context
      /\ DOMAIN slot = 0 .. slot_size - 1
  BY Constants DEF HandleInv, Prepared, TableOK
<1>2. /\ pc[t] = "idle" /\ pc' = [pc EXCEPT ![t] = "store"] /\ t \in Thread
      /\ arg' = [arg EXCEPT ![t] = c] /\ handle' = [handle EXCEPT ![c] = 0]
      /\ registers' = registers + 1 /\ registers < MaxRegister
      /\ UNCHANGED <<bound, idx, cnt, seen, due, fault>>
      /\ \A k \in 0 .. slot_size - 1 : slot[k] # c
  BY <1>1 DEF Enter, Leave, names, Thread
<1>0. PICK h \in 1 .. HandleMask : Took(t, c, sl, size, h)
  <2>1. TypeOK /\ size \in Nat \ {0}
    BY <1>1
  <2> QED
    BY <2>1, TakeIs
<1>3. /\ h % size \in 0 .. size - 1 /\ sl[h % size] = None
      /\ slot' = [sl EXCEPT ![h % size] = c]
      /\ slot_size' = size
      /\ handle_index' = h + 1
      /\ ret' = [ret EXCEPT ![t] = h]
  BY <1>0 DEF Took
<1> DEFINE p == h % size
<1>4. /\ slot' \in [0 .. size - 1 -> Context \cup {None}] /\ slot'[p] = c
      /\ \A k \in 0 .. size - 1 : k # p => slot'[k] = sl[k]
  BY <1>1, <1>3
<1>5. \A k \in 0 .. size - 1 : sl[k] # c
  BY <1>1, <1>2 DEF Prepared
<1>6. /\ handle' \in [Context -> 0 .. HandleMask] /\ handle'[c] = 0
      /\ \A d \in Context : d # c => handle'[d] = handle[d]
  BY <1>1, <1>2, Constants DEF TypeOK
<1>7. TypeOK'
  <2>1. handle_index' \in 1 .. HandleMask + 1 /\ registers' \in 0 .. MaxRegister
    BY <1>1, <1>2, <1>3, Constants DEF TypeOK
  <2>2. /\ pc' \in [Thread -> {"idle", "store", "pass", "read", "retire", "done"}]
        /\ arg' \in [Thread -> Context \cup {None}]
    BY <1>1, <1>2 DEF TypeOK
  <2>3. ret' \in [Thread -> 0 .. HandleMask]
    BY <1>1, <1>2, <1>3, Constants DEF TypeOK
  <2> QED
    BY <1>1, <1>2, <1>3, <1>4, <1>6, <2>1, <2>2, <2>3 DEF TypeOK
<1>8. \A u \in Launcher : u # t => pc'[u] = pc[u] /\ pc[u] # "store"
  BY <1>1, <1>2, NoneStoring DEF TypeOK, Thread
<1>9. \A k \in 0 .. size - 1 : sl[k] # None => sl[k] \in Context /\ handle[sl[k]] # 0
  BY NoneStoring DEF Prepared
<1>10. TableOK(slot', slot_size', handle')
  <2>1. ASSUME NEW k \in 0 .. size - 1, slot'[k] # None, handle'[slot'[k]] # 0
        PROVE  handle'[slot'[k]] % size = k
    <3>1. k # p /\ slot'[k] = sl[k]
      BY <2>1, <1>4, <1>6
    <3>2. handle'[sl[k]] = handle[sl[k]]
      BY <2>1, <3>1, <1>5, <1>6, <1>9
    <3> QED
      BY <2>1, <3>1, <3>2, <1>1 DEF TableOK
  <2>2. ASSUME NEW j \in 0 .. size - 1, NEW k \in 0 .. size - 1, slot'[j] = slot'[k],
               slot'[j] # None
        PROVE  j = k
    BY <2>2, <1>1, <1>4, <1>5 DEF TableOK
  <2> QED
    BY <1>1, <1>3, <1>4, <2>1, <2>2 DEF TableOK
<1>11. Launching'
  <2>1. ASSUME NEW k \in 0 .. size - 1, slot'[k] # None, handle'[slot'[k]] = 0
        PROVE  pc'[t] = "store" /\ arg'[t] = slot'[k]
    <3>1. k = p
      BY <2>1, <1>4, <1>5, <1>6, <1>9
    <3> QED
      BY <3>1, <1>1, <1>2, <1>4 DEF TypeOK
  <2>2. ASSUME NEW u \in Launcher
        PROVE  /\ pc'[u] \in {"idle", "store"}
               /\ pc'[u] = "store" => /\ arg'[u] \in Context /\ handle'[arg'[u]] = 0
                                      /\ ret'[u] # 0 /\ slot'[ret'[u] % size] = arg'[u]
    <3>1. CASE u = t
      <4>1. pc'[t] = "store" /\ arg'[t] = c /\ ret'[t] = h
        BY <1>1, <1>2, <1>3 DEF TypeOK
      <4>2. h # 0
        OBVIOUS
      <4> QED
        BY <3>1, <4>1, <4>2, <1>4, <1>6
    <3>2. CASE u # t
      BY <3>2, <1>1, <1>8 DEF Launching
    <3> QED
      BY <3>1, <3>2
  <2> QED
    BY <1>3, <1>8, <2>1, <2>2 DEF Launching
<1>12. Aborting'
  <2> SUFFICES ASSUME NEW u \in Aborter
               PROVE  /\ pc'[u] # "store" /\ (pc'[u] = "retire" => seen'[u] # 0)
                      /\ \A g \in due'[u] :
                           /\ At(slot', slot_size', handle', g)
                           /\ pc'[u] \in {"read", "retire"} /\ cnt'[u] = 0 => g % slot_size' >= idx'[u]
                           /\ pc'[u] = "retire" /\ cnt'[u] = 0 /\ g % slot_size' = idx'[u]
                              => g = seen'[u]
                      /\ pc'[u] = "done" => due'[u] = {}
    BY DEF Aborting
  <2>1. pc'[u] = pc[u] /\ u \in Thread
    BY <1>1, <1>2, Constants DEF TypeOK, Thread
  <2>2. ASSUME NEW g \in due[u]
        PROVE  /\ At(slot', slot_size', handle', g)
               /\ pc[u] \in {"read", "retire"} /\ cnt[u] = 0 => g % size >= idx[u]
               /\ pc[u] = "retire" /\ cnt[u] = 0 /\ g % size = idx[u] => g = seen[u]
    <3>1. g \in 1 .. HandleMask /\ g \in Nat /\ idx[u] \in Nat
      BY <1>1, <2>1, Constants DEF TypeOK
    <3>2. /\ At(slot, slot_size, handle, g)
          /\ pc[u] \in {"read", "retire"} /\ cnt[u] = 0 => g % slot_size >= idx[u]
          /\ pc[u] = "retire" /\ cnt[u] = 0 /\ g % slot_size = idx[u] => g = seen[u]
      BY <1>1 DEF Aborting
    <3>3. At(sl, size, handle, g) /\ g % size >= g % slot_size
      BY <3>1, <3>2 DEF Prepared
    <3>4. g % size \in 0 .. size - 1 /\ g % slot_size \in 0 .. slot_size - 1
      BY <3>1, <1>1, ModIn
    <3>5. At(slot', slot_size', handle', g)
      <4>1. sl[g % size] # None /\ handle[sl[g % size]] = g
        BY <3>3 DEF At
      <4>2. slot'[g % size] = sl[g % size]
        BY <4>1, <3>4, <1>3, <1>4
      <4>3. handle'[sl[g % size]] = handle[sl[g % size]]
        BY <4>1, <3>4, <1>5, <1>6, <1>9
      <4> QED
        BY <4>1, <4>2, <4>3, <1>3 DEF At
    <3>6. /\ pc[u] \in {"read", "retire"} /\ cnt[u] = 0 => g % size >= idx[u]
          /\ pc[u] = "retire" /\ cnt[u] = 0 /\ g % size = idx[u] => g = seen[u]
      <4> DEFINE a == g % size
                 b == g % slot_size
      <4> HIDE DEF a, b
      <4>1. a \in Nat /\ b \in Nat /\ a >= b
        BY <3>3, <3>4 DEF a, b
      <4>2. /\ pc[u] \in {"read", "retire"} /\ cnt[u] = 0 => b >= idx[u]
            /\ pc[u] = "retire" /\ cnt[u] = 0 /\ b = idx[u] => g = seen[u]
        BY <3>2 DEF b
      <4>3. /\ pc[u] \in {"read", "retire"} /\ cnt[u] = 0 => a >= idx[u]
            /\ pc[u] = "retire" /\ cnt[u] = 0 /\ a = idx[u] => g = seen[u]
        BY <4>1, <4>2, <3>1
      <4> QED
        BY <4>3 DEF a
    <3> QED
      BY <3>5, <3>6
  <2> QED
    BY <1>1, <1>2, <1>3, <2>1, <2>2 DEF Aborting
<1> QED
  BY <1>1, <1>2, <1>7, <1>10, <1>11, <1>12 DEF HandleInv, NoSlotTaken

\* The table that is not full is prepared.
LEMMA SamePrepared ==
  ASSUME HandleInv
  PROVE  Prepared(slot, slot_size)
<1>1. TableOK(slot, slot_size, handle) /\ slot_size \in Nat \ {0}
  BY DEF HandleInv, TableOK
<1>2. \A h \in 1 .. HandleMask : h % slot_size >= h % slot_size
  <2>1. \A h \in 1 .. HandleMask : h \in Nat
    BY Constants
  <2>2. \A h \in 1 .. HandleMask : h % slot_size \in 0 .. slot_size - 1
    BY <1>1, <2>1, ModIn
  <2>3. \A x \in 0 .. slot_size - 1 : x >= x
    BY <1>1
  <2> QED
    BY <2>2, <2>3, Zenon
<1> QED
  BY <1>1, <1>2 DEF Prepared

\* The slot a context gets when a table of s slots is doubled.
Place(j, s) == handle[slot[j]] % (2 * s)

\* Where the contexts are in a full table, and where they go.
LEMMA FullTable ==
  ASSUME HandleInv,
         \A k \in 0 .. slot_size - 1 : slot[k] \in Context /\ handle[slot[k]] # 0
  PROVE  /\ \A j \in 0 .. slot_size - 1 :
              /\ handle[slot[j]] \in 1 .. HandleMask /\ handle[slot[j]] % slot_size = j
              /\ Place(j, slot_size) \in 0 .. 2 * slot_size - 1
         /\ \A j, k \in 0 .. slot_size - 1 : Place(j, slot_size) = Place(k, slot_size) => j = k
<1>1. slot_size \in Nat \ {0} /\ 2 * slot_size \in Nat \ {0} /\ None \notin Context
  BY Constants DEF HandleInv, TypeOK
<1>2. \A j \in 0 .. slot_size - 1 :
        /\ handle[slot[j]] \in 1 .. HandleMask /\ handle[slot[j]] \in Nat
        /\ handle[slot[j]] % slot_size = j
  <2>1. handle \in [Context -> 0 .. HandleMask] /\ TableOK(slot, slot_size, handle)
    BY DEF HandleInv, TypeOK
  <2>2. \A j \in 0 .. slot_size - 1 : handle[slot[j]] \in 1 .. HandleMask /\ handle[slot[j]] \in Nat
    BY <2>1, Constants
  <2>3. \A j \in 0 .. slot_size - 1 : handle[slot[j]] % slot_size = j
    BY <1>1, <2>1 DEF TableOK
  <2> QED
    BY <2>2, <2>3
<1>3. \A j \in 0 .. slot_size - 1 : Place(j, slot_size) \in 0 .. 2 * slot_size - 1
  BY <1>1, <1>2, ModIn DEF Place
<1>4. ASSUME NEW j \in 0 .. slot_size - 1, NEW k \in 0 .. slot_size - 1,
             Place(j, slot_size) = Place(k, slot_size)
      PROVE  j = k
  <2>1. handle[slot[j]] % slot_size = handle[slot[k]] % slot_size
    BY <1>1, <1>2, <1>4, ModSplit DEF Place
  <2> QED
    BY <1>2, <2>1
<1> QED
  BY <1>2, <1>3, <1>4

\* assert(new_slot[hash] == NULL) holds, and the doubled table is prepared.
LEMMA RehashPrepared ==
  ASSUME HandleInv,
         \A k \in 0 .. slot_size - 1 : slot[k] \in Context /\ handle[slot[k]] # 0
  PROVE  Prepared(Rehash(slot_size), 2 * slot_size)
<1> DEFINE s == slot_size
           R == Rehash(s)
<1>1. /\ s \in Nat \ {0} /\ 2 * s \in Nat \ {0} /\ None \notin Context
      /\ \A j, k \in 0 .. s - 1 : slot[j] = slot[k] => j = k
  BY Constants DEF HandleInv, TypeOK, TableOK
<1>2. /\ \A j \in 0 .. s - 1 : /\ handle[slot[j]] \in 1 .. HandleMask
                               /\ handle[slot[j]] % s = j /\ Place(j, s) \in 0 .. 2 * s - 1
      /\ \A j, k \in 0 .. s - 1 : Place(j, s) = Place(k, s) => j = k
  BY FullTable
<1>3. R = [k \in 0 .. 2 * s - 1 |->
             IF \E j \in 0 .. s - 1 : Place(j, s) = k
             THEN slot[CHOOSE j \in 0 .. s - 1 : Place(j, s) = k]
             ELSE None]
  BY DEF Rehash, Place
<1> HIDE DEF R
<1>4. ASSUME NEW j \in 0 .. s - 1
      PROVE  R[Place(j, s)] = slot[j]
  <2> DEFINE i == CHOOSE i \in 0 .. s - 1 : Place(i, s) = Place(j, s)
  <2>1. i \in 0 .. s - 1 /\ Place(i, s) = Place(j, s)
    BY Zenon
  <2>2. i = j
    BY <1>2, <2>1
  <2>3. R[Place(j, s)] = slot[i]
    BY <1>2, <1>3
  <2> QED
    BY <2>2, <2>3
<1>5. ASSUME NEW k \in 0 .. 2 * s - 1, R[k] # None
      PROVE  \E j \in 0 .. s - 1 : Place(j, s) = k /\ R[k] = slot[j]
  <2>1. PICK j \in 0 .. s - 1 : Place(j, s) = k
    BY <1>3, <1>5
  <2> QED
    BY <2>1, <1>4
<1>6. R \in [0 .. 2 * s - 1 -> Context \cup {None}]
  <2>1. \A k \in 0 .. 2 * s - 1 : R[k] \in Context \cup {None}
    BY <1>5
  <2> QED
    BY <1>3, <2>1
<1>7. TableOK(R, 2 * s, handle)
  <2>1. ASSUME NEW k \in 0 .. 2 * s - 1, R[k] # None
        PROVE  handle[R[k]] % (2 * s) = k
    BY <2>1, <1>5 DEF Place
  <2>2. ASSUME NEW i \in 0 .. 2 * s - 1, NEW k \in 0 .. 2 * s - 1, R[i] = R[k], R[i] # None
        PROVE  i = k
    BY <2>2, <1>1, <1>5
  <2> QED
    BY <1>1, <1>6, <2>1, <2>2 DEF TableOK
<1>8. ASSUME NEW h \in 1 .. HandleMask, At(slot, s, handle, h)
      PROVE  At(R, 2 * s, handle, h) /\ h % (2 * s) >= h % s
  <2>1. h \in Nat
    BY Constants
  <2>2. h % s \in 0 .. s - 1 /\ h % (2 * s) \in {h % s, (h % s) + s}
    BY <1>1, <2>1, ModIn, ModDouble
  <2>3. handle[slot[h % s]] = h
    BY <1>8 DEF At
  <2>4. Place(h % s, s) = h % (2 * s)
    BY <2>3 DEF Place
  <2>5. R[h % (2 * s)] = slot[h % s]
    BY <1>4, <2>2, <2>4
  <2>6. h % (2 * s) >= h % s
    <3> DEFINE a == h % s
               b == h % (2 * s)
    <3> HIDE DEF a, b
    <3>1. a \in 0 .. s - 1 /\ b \in {a, a + s}
      BY <2>2 DEF a, b
    <3>2. b >= a
      BY <1>1, <3>1
    <3> QED
      BY <3>2 DEF a, b
  <2> QED
    BY <2>2, <2>3, <2>5, <2>6, <1>1 DEF At
<1>9. \A k \in 0 .. 2 * s - 1 : R[k] # None => \E j \in 0 .. s - 1 : slot[j] = R[k]
  BY <1>5
<1>10. \A h \in 1 .. HandleMask : At(slot, s, handle, h) =>
         At(R, 2 * s, handle, h) /\ h % (2 * s) >= h % s
  BY <1>8
<1>11. Prepared(R, 2 * s)
  BY <1>7, <1>9, <1>10, Zenon DEF Prepared
<1> QED
  BY <1>11 DEF R

-----------------------------------------------------------------------------
(* The steps                                                                *)

\* skynet_context_new up to the end of register.
LEMMA RegisterStep ==
  ASSUME HandleInv, Serial, NEW t \in Launcher, NEW c \in Context,
         Register(t, c) \/ RegisterGrow(t, c) \/ RegisterFault(t, c)
  PROVE  HandleInv'
<1>0. Enter(t, c)
  BY DEF Register, RegisterGrow, RegisterFault
<1>1. \A k \in 0 .. slot_size - 1 : slot[k] # None => slot[k] \in Context /\ handle[slot[k]] # 0
  BY <1>0, NoneStoring
<1>2. CASE Register(t, c)
  <2>1. Prepared(slot, slot_size)
    BY SamePrepared
  <2>2. FreeProbes(slot, slot_size) # {} /\ TakeSlot(t, c, slot, slot_size) /\ Leave(t, c)
    BY <1>2 DEF Register
  <2> QED
    BY <1>0, <2>1, <2>2, RegisterKeeps
<1>3. ASSUME FreeProbes(slot, slot_size) = {}, GrowFault(slot_size) \in {"none", "slot_taken"}
      PROVE  \A k \in 0 .. slot_size - 1 : slot[k] \in Context /\ handle[slot[k]] # 0
  <2>1. \A k \in 0 .. slot_size - 1 : slot[k] # None
    BY <1>3 DEF GrowFault
  <2> QED
    BY <1>1, <2>1
<1>4. CASE RegisterGrow(t, c)
  <2>1. /\ FreeProbes(slot, slot_size) = {} /\ GrowFault(slot_size) = "none"
        /\ TakeSlot(t, c, Rehash(slot_size), 2 * slot_size) /\ Leave(t, c)
    BY <1>4 DEF RegisterGrow
  <2>2. \A k \in 0 .. slot_size - 1 : slot[k] \in Context /\ handle[slot[k]] # 0
    BY <1>3, <2>1
  <2>3. Prepared(Rehash(slot_size), 2 * slot_size)
    BY <2>2, RehashPrepared
  <2>4. FreeProbes(Rehash(slot_size), 2 * slot_size) # {}
    BY <2>1 DEF GrowFault
  <2> QED
    BY <1>0, <2>1, <2>3, <2>4, RegisterKeeps
<1>5. CASE RegisterFault(t, c)
  <2>1. /\ FreeProbes(slot, slot_size) = {} /\ fault' = GrowFault(slot_size)
        /\ registers' = registers + 1 /\ registers < MaxRegister
        /\ UNCHANGED <<table, names, locals, pc>>
    BY <1>5 DEF RegisterFault, Enter
  <2>2. GrowFault(slot_size) # "slot_taken"
    <3> SUFFICES ASSUME GrowFault(slot_size) = "slot_taken" PROVE FALSE
      OBVIOUS
    <3>1. \A k \in 0 .. slot_size - 1 : slot[k] \in Context /\ handle[slot[k]] # 0
      BY <1>3, <2>1
    <3>2. \A j, k \in 0 .. slot_size - 1 : Place(j, slot_size) = Place(k, slot_size) => j = k
      BY <3>1, FullTable
    <3>3. \E j, k \in 0 .. slot_size - 1 : j # k /\ Place(j, slot_size) = Place(k, slot_size)
      BY DEF GrowFault, Place
    <3> QED
      BY <3>2, <3>3
  <2>3. GrowFault(slot_size) \in {"none", "handles_exhausted", "null_context", "slot_taken"}
    BY DEF GrowFault
  <2>4. registers' \in 0 .. MaxRegister
    BY <2>1, Constants DEF HandleInv, TypeOK
  <2>5. TypeOK'
    BY <2>1, <2>3, <2>4 DEF HandleInv, TypeOK, table, names, locals
  <2>6. TableOK(slot', slot_size', handle') /\ Launching' /\ Aborting'
    BY <2>1 DEF HandleInv, Launching, Aborting, table, names, locals
  <2> QED
    BY <2>1, <2>2, <2>5, <2>6 DEF HandleInv, NoSlotTaken
<1> QED
  BY <1>2, <1>4, <1>5

\* ctx->handle gets its value.
LEMMA StoreStep ==
  ASSUME HandleInv, NEW t \in Launcher, StoreHandle(t)
  PROVE  HandleInv'
<1>1. /\ TypeOK /\ TableOK(slot, slot_size, handle) /\ Launching /\ Aborting /\ NoSlotTaken
      /\ slot_size \in Nat \ {0} /\ None \notin Context
      /\ slot \in [0 .. slot_size - 1 -> Context \cup {None}]
  BY Constants DEF HandleInv, TableOK
<1> DEFINE c == arg[t]
           p == ret[t] % slot_size
<1>2. /\ pc[t] = "store" /\ handle' = [handle EXCEPT ![c] = ret[t]]
      /\ arg' = [arg EXCEPT ![t] = None] /\ pc' = [pc EXCEPT ![t] = "idle"]
      /\ UNCHANGED <<slot_size, slot, handle_index, bound, ret, idx, cnt, seen, due, registers,
                     fault>>
  BY DEF StoreHandle, names
<1>3. c \in Context /\ handle[c] = 0 /\ ret[t] # 0 /\ slot[p] = c /\ t \in Thread
  BY <1>1, <1>2 DEF Launching, Thread
<1>4. ret[t] \in Nat /\ p \in 0 .. slot_size - 1 /\ ret[t] \in 0 .. HandleMask
  <2>1. ret[t] \in Nat /\ ret[t] \in 0 .. HandleMask
    BY <1>1, <1>3, Constants DEF TypeOK
  <2> QED
    BY <1>1, <2>1, ModIn
<1>5. /\ handle' \in [Context -> 0 .. HandleMask] /\ handle'[c] = ret[t]
      /\ \A d \in Context : d # c => handle'[d] = handle[d]
  BY <1>1, <1>2, <1>3, <1>4 DEF TypeOK
<1>6. TypeOK'
  <2>1. /\ arg' \in [Thread -> Context \cup {None}]
        /\ pc' \in [Thread -> {"idle", "store", "pass", "read", "retire", "done"}]
    BY <1>1, <1>2 DEF TypeOK
  <2> QED
    BY <1>1, <1>2, <1>5, <2>1 DEF TypeOK
<1> HIDE DEF p, c
<1>7. \A k \in 0 .. slot_size - 1 : slot[k] = c => k = p
  BY <1>1, <1>3, <1>4 DEF TableOK
<1>8. TableOK(slot', slot_size', handle')
  <2>1. ASSUME NEW k \in 0 .. slot_size - 1, slot[k] # None, handle'[slot[k]] # 0
        PROVE  handle'[slot[k]] % slot_size = k
    <3>1. CASE slot[k] = c
      BY <3>1, <1>5, <1>7 DEF p
    <3>2. CASE slot[k] # c
      BY <2>1, <3>2, <1>1, <1>5 DEF TableOK
    <3> QED
      BY <3>1, <3>2
  <2> QED
    BY <1>1, <1>2, <2>1 DEF TableOK
<1>9. \A u \in Launcher : u # t => pc'[u] = pc[u] /\ arg'[u] = arg[u]
  BY <1>1, <1>2 DEF TypeOK, Thread
<1>10. pc'[t] = "idle"
  BY <1>1, <1>2, <1>3 DEF TypeOK
<1>11. Launching'
  <2>1. ASSUME NEW k \in 0 .. slot_size - 1, slot[k] # None, handle'[slot[k]] = 0
        PROVE  \E u \in Launcher : pc'[u] = "store" /\ arg'[u] = slot[k]
    <3>1. slot[k] # c /\ handle[slot[k]] = 0
      BY <2>1, <1>1, <1>3, <1>5
    <3>2. PICK u \in Launcher : pc[u] = "store" /\ arg[u] = slot[k]
      BY <2>1, <3>1, <1>1 DEF Launching
    <3>3. u # t
      BY <3>1, <3>2 DEF c
    <3> QED
      BY <3>2, <3>3, <1>9
  <2>2. ASSUME NEW u \in Launcher
        PROVE  /\ pc'[u] \in {"idle", "store"}
               /\ pc'[u] = "store" => /\ arg'[u] \in Context /\ handle'[arg'[u]] = 0
                                      /\ ret[u] # 0 /\ slot[ret[u] % slot_size] = arg'[u]
    <3>1. CASE u = t
      BY <3>1, <1>10
    <3>2. CASE u # t
      <4>1. pc'[u] = pc[u] /\ arg'[u] = arg[u]
        BY <3>2, <1>9
      <4>2. pc[u] \in {"idle", "store"}
        BY <1>1 DEF Launching
      <4>3. ASSUME pc[u] = "store"
            PROVE  /\ arg[u] \in Context /\ handle'[arg[u]] = 0
                   /\ ret[u] # 0 /\ slot[ret[u] % slot_size] = arg[u]
        <5>1. /\ arg[u] \in Context /\ handle[arg[u]] = 0
              /\ ret[u] # 0 /\ slot[ret[u] % slot_size] = arg[u]
          BY <4>3, <1>1 DEF Launching
        <5>2. FALSE
          BY <3>2, <4>3, <1>1, <1>2 DEF Launching
        <5> QED
          BY <5>2
      <4> QED
        BY <4>1, <4>2, <4>3
    <3> QED
      BY <3>1, <3>2
  <2>3. \A u, v \in Launcher : pc'[u] = "store" /\ pc'[v] = "store" => u = v
    BY <1>1, <1>9, <1>10 DEF Launching
  <2> QED
    BY <1>2, <2>1, <2>2, <2>3 DEF Launching
<1>12. Aborting'
  <2>1. ASSUME NEW u \in Aborter
        PROVE  pc'[u] = pc[u]
    BY <1>1, <1>2, Constants DEF TypeOK, Thread
  <2>2. ASSUME NEW u \in Aborter, NEW h \in due[u]
        PROVE  At(slot, slot_size, handle', h)
    <3>1. h \in 1 .. HandleMask /\ h # 0 /\ h \in Nat
      BY <1>1, Constants DEF TypeOK, Thread
    <3>2. At(slot, slot_size, handle, h)
      BY <1>1 DEF Aborting
    <3>3. h % slot_size \in 0 .. slot_size - 1
      BY <1>1, <3>1, ModIn
    <3>4. slot[h % slot_size] \in Context /\ slot[h % slot_size] # c
      BY <1>1, <1>3, <3>1, <3>2, <3>3 DEF At
    <3> QED
      BY <3>2, <3>4, <1>5 DEF At
  <2> QED
    BY <1>1, <1>2, <2>1, <2>2 DEF Aborting
<1> QED
  BY <1>1, <1>2, <1>6, <1>8, <1>11, <1>12 DEF HandleInv, NoSlotTaken

\* The slot of a valid handle is cleared: the others keep their places.
LEMMA RemoveKeeps ==
  ASSUME HandleInv, NEW h \in 1 .. HandleMask, At(slot, slot_size, handle, h), Remove(h),
         UNCHANGED <<slot_size, handle, arg, ret>>,
         \A t \in Launcher : pc'[t] = pc[t]
  PROVE  /\ slot' \in [0 .. slot_size - 1 -> Context \cup {None}]
         /\ bound' \in [Name -> 0 .. HandleMask] /\ due' \in [Thread -> SUBSET (1 .. HandleMask)]
         /\ TableOK(slot', slot_size', handle') /\ Launching'
         /\ \A t \in Aborter : due'[t] \subseteq due[t] /\ h \notin due'[t]
         /\ \A t \in Aborter : \A g \in due'[t] : At(slot', slot_size', handle', g)
<1>1. /\ TypeOK /\ TableOK(slot, slot_size, handle) /\ Launching /\ Aborting
      /\ slot_size \in Nat \ {0} /\ None \notin Context /\ h # 0 /\ h \in Nat
      /\ slot \in [0 .. slot_size - 1 -> Context \cup {None}]
  BY Constants DEF HandleInv, TableOK
<1> DEFINE p == h % slot_size
<1>2. p \in 0 .. slot_size - 1 /\ slot[p] # None /\ handle[slot[p]] = h
  BY <1>1, ModIn DEF At
<1>3. slot' = [slot EXCEPT ![p] = None]
  BY DEF Remove
<1> HIDE DEF p
<1>4. /\ slot' \in [0 .. slot_size - 1 -> Context \cup {None}]
      /\ slot'[p] = None /\ \A k \in 0 .. slot_size - 1 : k # p => slot'[k] = slot[k]
  BY <1>1, <1>2, <1>3
<1>5. bound' \in [Name -> 0 .. HandleMask]
  <2>1. bound' = [m \in Name |-> IF bound[m] = h THEN 0 ELSE bound[m]]
    BY DEF Remove
  <2> QED
    BY <1>1, <2>1, Constants DEF TypeOK
<1>6. due' \in [Thread -> SUBSET (1 .. HandleMask)] /\ \A t \in Thread : due'[t] = due[t] \ {h}
  <2>1. due' = [t \in Thread |-> due[t] \ {h}]
    BY DEF Remove
  <2>2. \A t \in Thread : due[t] \ {h} \in SUBSET (1 .. HandleMask)
    BY <1>1 DEF TypeOK
  <2> QED
    BY <2>1, <2>2
<1>7. TableOK(slot', slot_size', handle')
  <2>1. ASSUME NEW k \in 0 .. slot_size - 1, slot'[k] # None
        PROVE  k # p /\ slot'[k] = slot[k]
    BY <2>1, <1>4
  <2> QED
    BY <1>1, <1>4, <2>1 DEF TableOK
<1>8. Launching'
  <2>1. ASSUME NEW k \in 0 .. slot_size - 1, slot'[k] # None, handle[slot'[k]] = 0
        PROVE  \E t \in Launcher : pc'[t] = "store" /\ arg[t] = slot'[k]
    <3>1. slot'[k] = slot[k]
      BY <2>1, <1>4
    <3> QED
      BY <2>1, <3>1, <1>1 DEF Launching
  <2>2. ASSUME NEW t \in Launcher
        PROVE  /\ pc'[t] \in {"idle", "store"}
               /\ pc'[t] = "store" => /\ arg[t] \in Context /\ handle[arg[t]] = 0
                                      /\ ret[t] # 0 /\ slot'[ret[t] % slot_size] = arg[t]
    <3>1. pc[t] \in {"idle", "store"} /\ pc'[t] = pc[t]
      BY <1>1 DEF Launching
    <3>2. ASSUME pc[t] = "store"
          PROVE  /\ arg[t] \in Context /\ handle[arg[t]] = 0
                 /\ ret[t] # 0 /\ slot'[ret[t] % slot_size] = arg[t]
      <4>1. /\ arg[t] \in Context /\ handle[arg[t]] = 0
            /\ ret[t] # 0 /\ slot[ret[t] % slot_size] = arg[t]
        BY <3>2, <1>1 DEF Launching
      <4>2. ret[t] \in Nat
        BY <1>1, Constants DEF TypeOK, Thread
      <4>3. ret[t] % slot_size \in 0 .. slot_size - 1
        BY <1>1, <4>2, ModIn
      <4>4. ret[t] % slot_size # p
        BY <4>1, <1>1, <1>2
      <4> QED
        BY <4>1, <4>3, <4>4, <1>4
    <3> QED
      BY <3>1, <3>2
  <2>3. \A t, u \in Launcher : pc'[t] = "store" /\ pc'[u] = "store" => t = u
    BY <1>1 DEF Launching
  <2> QED
    BY <2>1, <2>2, <2>3 DEF Launching
<1>9. ASSUME NEW t \in Aborter, NEW g \in due'[t]
      PROVE  At(slot', slot_size', handle', g)
  <2>1. g \in due[t] /\ g # h /\ g \in Nat
    BY <1>1, <1>6, Constants DEF Thread, TypeOK
  <2>2. At(slot, slot_size, handle, g)
    BY <1>1, <2>1 DEF Aborting
  <2>3. g % slot_size \in 0 .. slot_size - 1
    BY <1>1, <2>1, ModIn
  <2>4. g % slot_size # p
    BY <1>2, <2>1, <2>2 DEF At
  <2> QED
    BY <1>4, <2>2, <2>3, <2>4 DEF At
<1> QED
  BY <1>4, <1>5, <1>6, <1>7, <1>8, <1>9 DEF Thread

\* KILL and EXIT.
LEMMA RetireStep ==
  ASSUME HandleInv, NEW h \in Given, Retire(h)
  PROVE  HandleInv'
<1>1. TypeOK /\ Aborting /\ NoSlotTaken
  BY DEF HandleInv
<1>2. h \in 1 .. HandleMask
  BY <1>1, Constants DEF TypeOK, Given
<1>3. /\ Found(h) # None /\ Remove(h)
      /\ UNCHANGED <<slot_size, handle_index, handle, arg, ret, idx, cnt, seen, pc, registers, fault>>
  BY DEF Retire
<1>4. At(slot, slot_size, handle, h)
  BY <1>2, <1>3, FoundIs
<1>5. /\ slot' \in [0 .. slot_size - 1 -> Context \cup {None}]
      /\ bound' \in [Name -> 0 .. HandleMask] /\ due' \in [Thread -> SUBSET (1 .. HandleMask)]
      /\ TableOK(slot', slot_size', handle') /\ Launching'
      /\ \A t \in Aborter : due'[t] \subseteq due[t] /\ h \notin due'[t]
      /\ \A t \in Aborter : \A g \in due'[t] : At(slot', slot_size', handle', g)
  BY <1>2, <1>3, <1>4, RemoveKeeps
<1>6. TypeOK'
  BY <1>1, <1>3, <1>5 DEF TypeOK
<1>7. Aborting'
  BY <1>1, <1>3, <1>5 DEF Aborting
<1> QED
  BY <1>1, <1>3, <1>5, <1>6, <1>7 DEF HandleInv, NoSlotTaken

\* A step of retireall that leaves the table alone.
LEMMA AborterStep ==
  ASSUME HandleInv, NEW t \in Aborter,
         UNCHANGED <<table, names, arg, ret, registers, fault>>,
         idx' \in [Thread -> Nat], cnt' \in [Thread -> Nat], seen' \in [Thread -> 0 .. HandleMask],
         due' \in [Thread -> SUBSET (1 .. HandleMask)],
         pc' \in [Thread -> {"idle", "store", "pass", "read", "retire", "done"}],
         \A u \in Thread : u # t =>
           pc'[u] = pc[u] /\ idx'[u] = idx[u] /\ cnt'[u] = cnt[u] /\ seen'[u] = seen[u]
             /\ due'[u] = due[u],
         pc'[t] # "store", pc'[t] = "done" => due'[t] = {}, pc'[t] = "retire" => seen'[t] # 0,
         \A h \in due'[t] :
           /\ At(slot, slot_size, handle, h)
           /\ pc'[t] \in {"read", "retire"} /\ cnt'[t] = 0 => h % slot_size >= idx'[t]
           /\ pc'[t] = "retire" /\ cnt'[t] = 0 /\ h % slot_size = idx'[t] => h = seen'[t]
  PROVE  HandleInv'
<1>1. TypeOK /\ TableOK(slot, slot_size, handle) /\ Launching /\ Aborting /\ NoSlotTaken
  BY DEF HandleInv
<1>2. TypeOK'
  BY <1>1 DEF TypeOK, table, names
<1>3. \A u \in Launcher : u \in Thread /\ u # t
  BY Constants DEF Thread
<1>4. \A u \in Launcher : pc'[u] = pc[u]
  BY <1>3
<1>5. Launching'
  BY <1>1, <1>4 DEF Launching, table
<1>6. Aborting'
  <2> SUFFICES ASSUME NEW u \in Aborter
               PROVE  /\ pc'[u] # "store" /\ (pc'[u] = "retire" => seen'[u] # 0)
                      /\ \A h \in due'[u] :
                           /\ At(slot', slot_size', handle', h)
                           /\ pc'[u] \in {"read", "retire"} /\ cnt'[u] = 0 => h % slot_size' >= idx'[u]
                           /\ pc'[u] = "retire" /\ cnt'[u] = 0 /\ h % slot_size' = idx'[u]
                              => h = seen'[u]
                      /\ pc'[u] = "done" => due'[u] = {}
    BY DEF Aborting
  <2>1. CASE u = t
    BY <2>1 DEF table
  <2>2. CASE u # t
    <3>1. u \in Thread
      BY DEF Thread
    <3> QED
      BY <1>1, <2>2, <3>1 DEF Aborting, table
  <2> QED
    BY <2>1, <2>2
<1> QED
  BY <1>1, <1>2, <1>5, <1>6 DEF HandleInv, NoSlotTaken, table

\* retireall begins a pass, or looks at the next slot, or ends a pass.
LEMMA ScanStep ==
  ASSUME HandleInv, NEW t \in Aborter, Pass(t) \/ Read(t) \/ PassEnd(t)
  PROVE  HandleInv'
<1>1. /\ TypeOK /\ TableOK(slot, slot_size, handle) /\ Aborting /\ t \in Thread
      /\ slot_size \in Nat \ {0} /\ slot \in [0 .. slot_size - 1 -> Context \cup {None}]
      /\ idx[t] \in Nat /\ cnt[t] \in Nat
  BY DEF HandleInv, TypeOK, Thread
<1>2. \A h \in due[t] :
        /\ h \in 1 .. HandleMask /\ h # 0 /\ h % slot_size \in 0 .. slot_size - 1
        /\ slot[h % slot_size] # None /\ handle[slot[h % slot_size]] = h
        /\ pc[t] = "read" /\ cnt[t] = 0 => h % slot_size >= idx[t]
  <2> TAKE h \in due[t]
  <2>1. h \in 1 .. HandleMask /\ h # 0 /\ h \in Nat
    BY <1>1, Constants DEF TypeOK
  <2>2. h % slot_size \in 0 .. slot_size - 1
    BY <1>1, <2>1, ModIn
  <2> QED
    BY <1>1, <2>1, <2>2 DEF Aborting, At
<1>3. CASE Pass(t)
  <2>1. /\ idx' = [idx EXCEPT ![t] = 0] /\ cnt' = [cnt EXCEPT ![t] = 0]
        /\ due' = [due EXCEPT ![t] = {h \in 1 .. HandleMask : Found(h) # None}]
        /\ pc' = [pc EXCEPT ![t] = "read"]
        /\ UNCHANGED <<table, names, arg, ret, seen, registers, fault>>
    BY <1>3 DEF Pass
  <2>2. \A h \in {h \in 1 .. HandleMask : Found(h) # None} :
          At(slot, slot_size, handle, h) /\ h % slot_size >= 0
    <3> TAKE h \in {h \in 1 .. HandleMask : Found(h) # None}
    <3>1. h % slot_size \in 0 .. slot_size - 1 /\ At(slot, slot_size, handle, h)
      BY FoundIs
    <3> QED
      BY <3>1, <1>1
  <2>3. /\ idx' \in [Thread -> Nat] /\ cnt' \in [Thread -> Nat]
        /\ seen' \in [Thread -> 0 .. HandleMask]
        /\ due' \in [Thread -> SUBSET (1 .. HandleMask)]
        /\ pc' \in [Thread -> {"idle", "store", "pass", "read", "retire", "done"}]
    BY <1>1, <2>1 DEF TypeOK
  <2>4. /\ pc'[t] = "read" /\ idx'[t] = 0
        /\ due'[t] = {h \in 1 .. HandleMask : Found(h) # None}
        /\ \A u \in Thread : u # t =>
             pc'[u] = pc[u] /\ idx'[u] = idx[u] /\ cnt'[u] = cnt[u] /\ seen'[u] = seen[u]
               /\ due'[u] = due[u]
    BY <1>1, <2>1 DEF TypeOK
  <2> QED
    BY <2>1, <2>2, <2>3, <2>4, AborterStep
<1>4. CASE Read(t)
  <2> DEFINE c == slot[idx[t]]
  <2>1. /\ pc[t] = "read" /\ idx[t] < slot_size
        /\ UNCHANGED <<table, names, arg, ret, cnt, due, registers, fault>>
    BY <1>4 DEF Read
  <2>2. CASE c # None /\ handle[c] # 0
    <3>1. /\ seen' = [seen EXCEPT ![t] = handle[c]] /\ pc' = [pc EXCEPT ![t] = "retire"]
          /\ idx' = idx
      BY <1>4, <2>2 DEF Read
    <3>2. handle[c] \in 0 .. HandleMask
      <4>1. c \in Context
        BY <1>1, <2>1, <2>2
      <4> QED
        BY <1>1, <4>1 DEF TypeOK
    <3>3. /\ idx' \in [Thread -> Nat] /\ cnt' \in [Thread -> Nat]
          /\ seen' \in [Thread -> 0 .. HandleMask]
          /\ due' \in [Thread -> SUBSET (1 .. HandleMask)]
          /\ pc' \in [Thread -> {"idle", "store", "pass", "read", "retire", "done"}]
      BY <1>1, <2>1, <3>1, <3>2 DEF TypeOK
    <3>4. /\ pc'[t] = "retire" /\ seen'[t] = handle[c]
          /\ \A u \in Thread : u # t =>
               pc'[u] = pc[u] /\ idx'[u] = idx[u] /\ cnt'[u] = cnt[u] /\ seen'[u] = seen[u]
                 /\ due'[u] = due[u]
      BY <1>1, <2>1, <3>1 DEF TypeOK
    <3>5. \A h \in due[t] :
            /\ At(slot, slot_size, handle, h)
            /\ cnt[t] = 0 => h % slot_size >= idx[t]
            /\ h % slot_size = idx[t] => h = handle[c]
      BY <1>2, <2>1 DEF At
    <3> QED
      BY <2>1, <2>2, <3>1, <3>3, <3>4, <3>5, AborterStep
  <2>3. CASE ~(c # None /\ handle[c] # 0)
    <3>1. idx' = [idx EXCEPT ![t] = @ + 1] /\ UNCHANGED <<seen, pc>>
      BY <1>4, <2>3 DEF Read
    <3>2. /\ idx' \in [Thread -> Nat] /\ cnt' \in [Thread -> Nat]
          /\ seen' \in [Thread -> 0 .. HandleMask]
          /\ due' \in [Thread -> SUBSET (1 .. HandleMask)]
          /\ pc' \in [Thread -> {"idle", "store", "pass", "read", "retire", "done"}]
      BY <1>1, <2>1, <3>1 DEF TypeOK
    <3>3. /\ idx'[t] = idx[t] + 1
          /\ \A u \in Thread : u # t =>
               pc'[u] = pc[u] /\ idx'[u] = idx[u] /\ cnt'[u] = cnt[u] /\ seen'[u] = seen[u]
                 /\ due'[u] = due[u]
      BY <1>1, <2>1, <3>1 DEF TypeOK
    <3>4. \A h \in due[t] :
            /\ At(slot, slot_size, handle, h)
            /\ cnt[t] = 0 => h % slot_size >= idx[t] + 1
      <4> TAKE h \in due[t]
      <4>1. h % slot_size # idx[t]
        BY <1>2, <2>3
      <4> DEFINE a == h % slot_size
      <4>2. a \in Nat /\ a # idx[t] /\ (cnt[t] = 0 => a >= idx[t])
        BY <1>1, <1>2, <2>1, <4>1
      <4> HIDE DEF a
      <4>3. cnt[t] = 0 => a >= idx[t] + 1
        BY <1>1, <4>2
      <4> QED
        BY <1>2, <4>3 DEF a, At
    <3> QED
      BY <2>1, <3>1, <3>2, <3>3, <3>4, AborterStep
  <2> QED
    BY <2>2, <2>3
<1>5. CASE PassEnd(t)
  <2>1. /\ pc[t] = "read" /\ idx[t] >= slot_size
        /\ pc' = [pc EXCEPT ![t] = IF cnt[t] = 0 THEN "done" ELSE "pass"]
        /\ UNCHANGED <<table, names, locals, registers, fault>>
    BY <1>5 DEF PassEnd
  <2>2. cnt[t] = 0 => due[t] = {}
    <3> SUFFICES ASSUME cnt[t] = 0, NEW h \in due[t] PROVE FALSE
      OBVIOUS
    <3> DEFINE a == h % slot_size
    <3>1. a \in 0 .. slot_size - 1 /\ a >= idx[t]
      BY <1>2, <2>1
    <3> HIDE DEF a
    <3> QED
      BY <1>1, <2>1, <3>1
  <2>3. /\ pc'[t] = IF cnt[t] = 0 THEN "done" ELSE "pass"
        /\ pc' \in [Thread -> {"idle", "store", "pass", "read", "retire", "done"}]
        /\ \A u \in Thread : u # t => pc'[u] = pc[u]
    BY <1>1, <2>1 DEF TypeOK
  <2>4. /\ UNCHANGED <<idx, cnt, seen, due, arg, ret>>
        /\ idx' \in [Thread -> Nat] /\ cnt' \in [Thread -> Nat]
        /\ seen' \in [Thread -> 0 .. HandleMask]
        /\ due' \in [Thread -> SUBSET (1 .. HandleMask)]
    BY <1>1, <2>1 DEF TypeOK, locals
  <2>5. \A h \in due[t] : At(slot, slot_size, handle, h)
    BY <1>1 DEF Aborting
  <2>6. /\ pc'[t] \notin {"read", "retire", "store"} /\ (pc'[t] = "done" => due[t] = {})
    BY <2>2, <2>3
  <2> QED
    BY <2>1, <2>3, <2>4, <2>5, <2>6, AborterStep
<1> QED
  BY <1>3, <1>4, <1>5

\* retireall retires the handle it has read, if it is still there.
LEMMA RetireSeenStep ==
  ASSUME HandleInv, NEW t \in Aborter, RetireSeen(t)
  PROVE  HandleInv'
<1>1. /\ TypeOK /\ TableOK(slot, slot_size, handle) /\ Aborting /\ t \in Thread
      /\ slot_size \in Nat \ {0} /\ idx[t] \in Nat /\ cnt[t] \in Nat /\ NoSlotTaken
  BY DEF HandleInv, TypeOK, Thread
<1>2. /\ pc[t] = "retire" /\ idx' = [idx EXCEPT ![t] = @ + 1]
      /\ pc' = [pc EXCEPT ![t] = "read"]
      /\ UNCHANGED <<slot_size, handle_index, handle, arg, ret, seen, registers, fault>>
  BY DEF RetireSeen
<1>3. seen[t] \in 1 .. HandleMask
  BY <1>1, <1>2, Constants DEF TypeOK, Aborting
<1>4. /\ idx' \in [Thread -> Nat] /\ seen' \in [Thread -> 0 .. HandleMask]
      /\ pc' \in [Thread -> {"idle", "store", "pass", "read", "retire", "done"}]
      /\ pc'[t] = "read" /\ idx'[t] = idx[t] + 1
      /\ \A u \in Thread : u # t => pc'[u] = pc[u] /\ idx'[u] = idx[u] /\ seen'[u] = seen[u]
  BY <1>1, <1>2 DEF TypeOK
<1>5. CASE Found(seen[t]) # None
  <2>1. Remove(seen[t]) /\ cnt' = [cnt EXCEPT ![t] = @ + 1]
    BY <1>5 DEF RetireSeen
  <2>2. At(slot, slot_size, handle, seen[t])
    BY <1>3, <1>5, FoundIs
  <2>3. \A u \in Launcher : u \in Thread /\ u # t
    BY Constants DEF Thread
  <2>4. \A u \in Launcher : pc'[u] = pc[u]
    BY <1>4, <2>3
  <2>5. /\ slot' \in [0 .. slot_size - 1 -> Context \cup {None}]
        /\ bound' \in [Name -> 0 .. HandleMask] /\ due' \in [Thread -> SUBSET (1 .. HandleMask)]
        /\ TableOK(slot', slot_size', handle') /\ Launching'
        /\ \A u \in Aborter : due'[u] \subseteq due[u]
        /\ \A u \in Aborter : \A g \in due'[u] : At(slot', slot_size', handle', g)
    BY <1>2, <1>3, <2>1, <2>2, <2>4, RemoveKeeps
  <2>6. /\ cnt' \in [Thread -> Nat] /\ cnt'[t] # 0
        /\ \A u \in Thread : u # t => cnt'[u] = cnt[u]
    BY <1>1, <2>1 DEF TypeOK
  <2>7. TypeOK'
    BY <1>1, <1>2, <1>4, <2>5, <2>6 DEF TypeOK
  <2>8. Aborting'
    <3> SUFFICES ASSUME NEW u \in Aborter
                 PROVE  /\ pc'[u] # "store" /\ (pc'[u] = "retire" => seen'[u] # 0)
                        /\ \A h \in due'[u] :
                             /\ At(slot', slot_size', handle', h)
                             /\ pc'[u] \in {"read", "retire"} /\ cnt'[u] = 0
                                => h % slot_size' >= idx'[u]
                             /\ pc'[u] = "retire" /\ cnt'[u] = 0 /\ h % slot_size' = idx'[u]
                                => h = seen'[u]
                        /\ pc'[u] = "done" => due'[u] = {}
      BY DEF Aborting
    <3>1. CASE u = t
      BY <3>1, <1>4, <2>5, <2>6
    <3>2. CASE u # t
      <4>1. u \in Thread
        BY DEF Thread
      <4>2. /\ pc'[u] = pc[u] /\ idx'[u] = idx[u] /\ seen'[u] = seen[u] /\ cnt'[u] = cnt[u]
            /\ slot_size' = slot_size /\ due'[u] \subseteq due[u]
            /\ \A g \in due'[u] : At(slot', slot_size', handle', g)
        BY <3>2, <4>1, <1>2, <1>4, <2>5, <2>6
      <4>3. /\ pc[u] # "store" /\ (pc[u] = "retire" => seen[u] # 0)
            /\ \A h \in due[u] :
                 /\ pc[u] \in {"read", "retire"} /\ cnt[u] = 0 => h % slot_size >= idx[u]
                 /\ pc[u] = "retire" /\ cnt[u] = 0 /\ h % slot_size = idx[u] => h = seen[u]
            /\ pc[u] = "done" => due[u] = {}
        BY <1>1, Zenon DEF Aborting
      <4> QED
        BY <4>2, <4>3
    <3> QED
      BY <3>1, <3>2
  <2> QED
    BY <1>1, <1>2, <2>5, <2>7, <2>8 DEF HandleInv, NoSlotTaken
<1>6. CASE Found(seen[t]) = None
  <2>1. UNCHANGED <<slot, names, cnt, due>>
    BY <1>6 DEF RetireSeen
  <2>2. \A h \in due[t] :
          /\ At(slot, slot_size, handle, h)
          /\ cnt[t] = 0 => h % slot_size >= idx[t] + 1
    <3> TAKE h \in due[t]
    <3>1. h \in 1 .. HandleMask /\ h \in Nat /\ At(slot, slot_size, handle, h)
      BY <1>1, Constants DEF TypeOK, Aborting
    <3>2. h # seen[t]
      BY <3>1, <1>6, FoundIs
    <3> DEFINE a == h % slot_size
    <3>3. a \in 0 .. slot_size - 1
      BY <1>1, <3>1, ModIn
    <3>4. cnt[t] = 0 => a >= idx[t] /\ (a = idx[t] => h = seen[t])
      BY <1>1, <1>2 DEF Aborting
    <3> HIDE DEF a
    <3>5. cnt[t] = 0 => a >= idx[t] + 1
      BY <1>1, <3>2, <3>3, <3>4
    <3> QED
      BY <3>1, <3>5 DEF a
  <2>3. /\ UNCHANGED <<table, names, arg, ret, registers, fault>>
        /\ cnt' \in [Thread -> Nat] /\ due' \in [Thread -> SUBSET (1 .. HandleMask)]
        /\ cnt' = cnt /\ due' = due
    BY <1>1, <1>2, <2>1 DEF TypeOK, table
  <2> QED
    BY <1>4, <2>2, <2>3, AborterStep
<1> QED
  BY <1>5, <1>6

\* REG and NAME do not touch the table.
LEMMA NameStep ==
  ASSUME HandleInv, NEW h \in Given, NEW m \in Name, NameHandle(h, m)
  PROVE  HandleInv'
<1>1. bound' = [bound EXCEPT ![m] = h] /\ UNCHANGED <<table, locals, pc, registers, fault>>
  BY DEF NameHandle
<1>2. bound' \in [Name -> 0 .. HandleMask]
  BY <1>1 DEF HandleInv, TypeOK, Given
<1>3. TypeOK'
  BY <1>1, <1>2 DEF HandleInv, TypeOK, table, locals
<1> QED
  BY <1>1, <1>3 DEF HandleInv, Launching, Aborting, NoSlotTaken, table, locals

-----------------------------------------------------------------------------
(* The theorems                                                             *)

\* skynet_handle_init.
LEMMA HandleInit == Init => HandleInv
<1> SUFFICES ASSUME Init PROVE HandleInv
  OBVIOUS
<1>1. SlotSize \in Nat \ {0} /\ HandleMask \in Nat \ {0} /\ MaxRegister \in Nat
  BY HandleAssumption
<1>2. TypeOK
  BY <1>1 DEF Init, TypeOK
<1>3. \A k \in 0 .. slot_size - 1 : slot[k] = None
  BY DEF Init
<1>4. TableOK(slot, slot_size, handle)
  BY <1>2, <1>3 DEF TypeOK, TableOK
<1>5. Launching
  BY <1>3 DEF Init, Launching, Thread
<1>6. Aborting
  BY DEF Init, Aborting, Thread
<1> QED
  BY <1>2, <1>4, <1>5, <1>6 DEF Init, HandleInv, NoSlotTaken

\* Every step keeps the invariant, if launches are serial.
LEMMA HandleNext == HandleInv /\ [Next]_vars /\ [Serial]_vars => HandleInv'
<1> SUFFICES ASSUME HandleInv, [Next]_vars, [Serial]_vars PROVE HandleInv'
  OBVIOUS
<1>1. CASE UNCHANGED vars
  <2>1. UNCHANGED <<slot_size, slot, handle_index, handle, bound, arg, ret, idx, cnt, seen, due,
                    pc, registers, fault>>
    BY <1>1 DEF vars, table, names, locals
  <2> QED
    BY <2>1 DEF HandleInv, TypeOK, Launching, Aborting, NoSlotTaken
<1>2. CASE Next /\ Serial
  <2>1. ASSUME NEW t \in Launcher, NEW c \in Context,
               Register(t, c) \/ RegisterGrow(t, c) \/ RegisterFault(t, c)
        PROVE  HandleInv'
    BY <1>2, <2>1, RegisterStep
  <2>2. ASSUME NEW t \in Launcher, StoreHandle(t)
        PROVE  HandleInv'
    BY <2>2, StoreStep
  <2>3. ASSUME NEW t \in Aborter, Pass(t) \/ Read(t) \/ RetireSeen(t) \/ PassEnd(t)
        PROVE  HandleInv'
    BY <2>3, ScanStep, RetireSeenStep
  <2>4. ASSUME NEW h \in Given, Retire(h)
        PROVE  HandleInv'
    BY <2>4, RetireStep
  <2>5. ASSUME NEW h \in Given, NEW m \in Name, NameHandle(h, m)
        PROVE  HandleInv'
    BY <2>5, NameStep
  <2> QED
    BY <1>2, <2>1, <2>2, <2>3, <2>4, <2>5 DEF Next
<1> QED
  BY <1>1, <1>2

\* What the invariant says of the table: a stored handle finds its context,
\* and a handle on its way is nobody else's.
LEMMA InvReachable == HandleInv => Reachable
<1> SUFFICES ASSUME HandleInv PROVE Reachable
  OBVIOUS
<1>1. TypeOK /\ TableOK(slot, slot_size, handle) /\ Launching /\ DOMAIN slot = 0 .. slot_size - 1
  BY DEF HandleInv, TypeOK
<1>2. ASSUME NEW c \in InTable, handle[c] # 0
      PROVE  /\ slot[handle[c] % slot_size] = c /\ c # None
             /\ handle[c] % slot_size \in 0 .. slot_size - 1
  <2>1. PICK k \in 0 .. slot_size - 1 : slot[k] = c /\ c # None
    BY <1>1 DEF InTable
  <2>2. handle[c] % slot_size = k
    BY <1>1, <1>2, <2>1 DEF TableOK
  <2> QED
    BY <2>1, <2>2
<1>3. ASSUME NEW c \in InTable, handle[c] # 0
      PROVE  Found(handle[c]) = c
  BY <1>2, <1>3 DEF Found
<1>4. ASSUME NEW t \in Launcher, pc[t] = "store"
      PROVE  /\ slot[ret[t] % slot_size] = arg[t]
             /\ \A c \in InTable : handle[c] # ret[t]
  <2>1. /\ slot[ret[t] % slot_size] = arg[t] /\ handle[arg[t]] = 0 /\ ret[t] # 0
    BY <1>1, <1>4 DEF Launching
  <2>2. ASSUME NEW c \in InTable, handle[c] = ret[t]
        PROVE  FALSE
    BY <1>2, <2>1, <2>2
  <2> QED
    BY <2>1, <2>2
<1>5. PromiseKept
  BY <1>4 DEF PromiseKept
<1>6. \A j, k \in DOMAIN slot : slot[j] = slot[k] /\ slot[j] # None => j = k
  BY <1>1 DEF TableOK
<1> QED
  BY <1>1, <1>3, <1>5, <1>6 DEF Reachable

\* What it says of the rest.
LEMMA InvRest == HandleInv => NoSlotTaken /\ AbortComplete
  BY DEF HandleInv, Aborting, AbortComplete

\* With serial launches every context in the table is at the hash of its
\* handle, and all that a pass of retireall still has to retire lies before
\* it: the inductive invariant.
THEOREM TableSound == Spec /\ [][Serial]_vars => []HandleInv
  BY HandleInit, HandleNext, PTL DEF Spec

\* skynet_handle_register and skynet_handle_grab: with serial launches, a
\* handle that is given out finds its context for as long as it is in the
\* table, across every doubling.
THEOREM HandlesReach == Spec /\ [][Serial]_vars => []Reachable
  BY TableSound, InvReachable, PTL

\* assert(new_slot[hash] == NULL) in skynet_handle_register holds, with serial
\* launches.
THEOREM GrowthKeepsApart == Spec /\ [][Serial]_vars => []NoSlotTaken
  BY TableSound, InvRest, PTL

\* skynet_handle_retireall: with serial launches, all that was valid when the
\* last pass began is retired when it returns, although kills, launches and
\* doublings of the table go on between its steps.
THEOREM AbortMissesNobody == Spec /\ [][Serial]_vars => []AbortComplete
  BY TableSound, InvRest, PTL

\* A node where one thread at a time launches services, as when they are all
\* started by the launcher service, whose callbacks never overlap, has the
\* three properties.
THEOREM OneLauncher ==
  ASSUME \A t, u \in Launcher : t = u
  PROVE  Spec => [](Reachable /\ NoSlotTaken /\ AbortComplete)
<1>1. [Next]_vars => [Serial]_vars
  <2> SUFFICES ASSUME Next, registers' # registers, NEW u \in Launcher
               PROVE  pc[u] # "store"
    BY DEF Serial
  <2>1. \E t \in Launcher, c \in Context : Enter(t, c)
    BY DEF Next, Register, RegisterGrow, RegisterFault, StoreHandle, Pass, Read, RetireSeen,
           PassEnd, Retire, NameHandle
  <2> QED
    BY <2>1 DEF Enter
<1>2. Spec => [][Serial]_vars
  BY <1>1, PTL DEF Spec
<1>3. Spec => []HandleInv
  BY <1>2, TableSound, PTL
<1> QED
  BY <1>3, InvReachable, InvRest, PTL

-----------------------------------------------------------------------------
(***************************************************************************)
(* The names.  s->name is sorted and holds what is bound; the binary       *)
(* search, and the loop that squeezes names out, are recursive functions:  *)
(* each is shown to exist, and what it computes by its least               *)
(* counterexample.  Launches need not be serial here.                      *)
(***************************************************************************)

Entry == [name : Name, handle : 1 .. HandleMask]

Sorted(q) == \A i, j \in DOMAIN q : i < j => q[i].name < q[j].name

Lists(q, r) == \E i \in DOMAIN q : q[i] = r

\* What a search of name m from position b to e is to return.
Good(m, b, e, s) ==
    /\ s \in [found : BOOLEAN, at : Int]
    /\ s.found => s.at \in b .. e /\ name[s.at + 1].name = m
    /\ ~ s.found => /\ s.at \in b .. e + 1
                    /\ \A i \in b .. s.at - 1 : name[i + 1].name < m
                    /\ \A i \in s.at .. e : name[i + 1].name > m

\* The entries of a sorted array, by position.
LEMMA Entries ==
  ASSUME name \in Seq(Entry), Sorted(name)
  PROVE  /\ Len(name) \in Nat
         /\ \A i \in 0 .. Len(name) - 1 : name[i + 1].name \in Int
         /\ \A i, j \in 0 .. Len(name) - 1 : i < j => name[i + 1].name < name[j + 1].name
<1>1. Len(name) \in Nat /\ DOMAIN name = 1 .. Len(name)
  OBVIOUS
<1>2. \A i \in 1 .. Len(name) : name[i].name \in Int
  <2> TAKE i \in 1 .. Len(name)
  <2>1. name[i] \in Entry
    OBVIOUS
  <2>2. name[i].name \in Name
    BY <2>1 DEF Entry
  <2>3. Name \subseteq Nat
    BY HandleAssumption
  <2>4. name[i].name \in Nat
    BY <2>2, <2>3
  <2> QED
    BY <2>4
<1>3. \A i \in 0 .. Len(name) - 1 : i + 1 \in 1 .. Len(name)
  BY <1>1
<1> QED
  BY <1>1, <1>2, <1>3 DEF Sorted

\* A search has one result,
LEMMA GoodOne ==
  ASSUME name \in Seq(Entry), Sorted(name), NEW m \in Int,
         NEW b \in 0 .. Len(name), NEW e \in -1 .. Len(name) - 1,
         NEW s, Good(m, b, e, s), NEW t, Good(m, b, e, t)
  PROVE  s = t
<1> DEFINE at(i) == name[i + 1].name
           n == Len(name)
<1>1. /\ n \in Nat /\ \A i \in 0 .. n - 1 : at(i) \in Int
      /\ \A i, j \in 0 .. n - 1 : i < j => at(i) < at(j)
  BY Entries
<1>2. s \in [found : BOOLEAN, at : Int] /\ t \in [found : BOOLEAN, at : Int]
  BY DEF Good
<1>3. \A u \in {s, t} :
        /\ u.at \in Int
        /\ u.found => u.at \in b .. e /\ at(u.at) = m
        /\ ~ u.found => /\ u.at \in b .. e + 1
                        /\ \A i \in b .. u.at - 1 : at(i) < m
                        /\ \A i \in u.at .. e : at(i) > m
  BY DEF Good
<1> HIDE DEF at, n
<1>4. b \in Int /\ e \in Int /\ b >= 0 /\ e <= n - 1
  BY <1>1 DEF n
<1>5. CASE s.found /\ t.found
  <2>1. s.at \in 0 .. n - 1 /\ t.at \in 0 .. n - 1 /\ at(s.at) = m /\ at(t.at) = m
    BY <1>1, <1>3, <1>4, <1>5
  <2>2. s.at = t.at
    BY <1>1, <2>1
  <2> QED
    BY <1>2, <1>5, <2>2
<1>6. ASSUME NEW u \in {s, t}, NEW v \in {s, t}, u.found, ~ v.found PROVE FALSE
  <2>1. u.at \in b .. e /\ at(u.at) = m /\ v.at \in b .. e + 1
    BY <1>3, <1>6
  <2>2. u.at \in b .. v.at - 1 \/ u.at \in v.at .. e
    BY <1>4, <2>1
  <2>3. at(u.at) < m \/ at(u.at) > m
    BY <1>3, <1>6, <2>2
  <2> QED
    BY <2>1, <2>3
<1>7. ASSUME NEW u \in {s, t}, NEW v \in {s, t}, ~ u.found, ~ v.found, u.at < v.at PROVE FALSE
  <2>1. u.at \in b .. e + 1 /\ v.at \in b .. e + 1
    BY <1>3, <1>7
  <2>2. u.at \in b .. v.at - 1 /\ u.at \in u.at .. e /\ u.at \in 0 .. n - 1
    BY <1>1, <1>4, <1>7, <2>1
  <2>3. at(u.at) < m /\ at(u.at) > m /\ at(u.at) \in Int
    BY <1>1, <1>3, <1>7, <2>2
  <2> QED
    BY <2>3
<1>8. CASE ~ s.found /\ ~ t.found
  <2>1. s.at = t.at
    BY <1>3, <1>7, <1>8
  <2> QED
    BY <1>2, <1>8, <2>1
<1> QED
  BY <1>5, <1>6, <1>8

\* and has one.
LEMMA GoodSome ==
  ASSUME name \in Seq(Entry), Sorted(name), NEW m \in Int,
         NEW b \in 0 .. Len(name), NEW e \in -1 .. Len(name) - 1, b <= e + 1
  PROVE  \E s : Good(m, b, e, s)
<1> DEFINE at(i) == name[i + 1].name
           n == Len(name)
<1>1. /\ n \in Nat /\ \A i \in 0 .. n - 1 : at(i) \in Int
      /\ \A i, j \in 0 .. n - 1 : i < j => at(i) < at(j)
  BY Entries
<1>2. CASE \E i \in b .. e : at(i) = m
  <2>1. PICK i \in b .. e : at(i) = m
    BY <1>2
  <2>2. Good(m, b, e, [found |-> TRUE, at |-> i])
    BY <2>1 DEF Good
  <2> QED
    BY <2>2
<1>3. CASE ~ \E i \in b .. e : at(i) = m
  <2> DEFINE S == {i \in b .. e : at(i) > m} \cup {e + 1}
  <2>1. S \subseteq Nat /\ S # {}
    BY <1>1
  <2> HIDE DEF S
  <2>2. PICK a \in S : \A i \in S : a <= i
    BY <2>1, Least
  <2>3. a \in b .. e + 1 /\ a \in Int
    BY <1>1, <2>2 DEF S
  <2>4. ASSUME NEW i \in b .. a - 1 PROVE at(i) < m
    <3>1. i \in b .. e /\ i \in 0 .. n - 1 /\ i < a
      BY <1>1, <2>3, <2>4
    <3>2. ~ (at(i) > m)
      BY <2>2, <2>3, <3>1 DEF S
    <3> QED
      BY <1>1, <1>3, <3>1, <3>2
  <2>5. ASSUME NEW i \in a .. e PROVE at(i) > m
    <3>1. a \in b .. e /\ at(a) > m
      BY <2>2, <2>3, <2>5 DEF S
    <3>2. a \in 0 .. n - 1 /\ i \in 0 .. n - 1 /\ (a < i \/ a = i)
      BY <1>1, <2>3, <2>5, <3>1
    <3> QED
      BY <1>1, <3>1, <3>2
  <2>6. Good(m, b, e, [found |-> FALSE, at |-> a])
    BY <2>3, <2>4, <2>5 DEF Good
  <2> QED
    BY <2>6
<1> QED
  BY <1>2, <1>3

\* One half is enough.
LEMMA GoodHalf ==
  ASSUME name \in Seq(Entry), Sorted(name), NEW m \in Int,
         NEW b \in 0 .. Len(name), NEW e \in -1 .. Len(name) - 1, NEW c \in b .. e, NEW s,
         \/ name[c + 1].name < m /\ Good(m, c + 1, e, s)
         \/ name[c + 1].name > m /\ Good(m, b, c - 1, s)
  PROVE  Good(m, b, e, s)
<1> DEFINE at(i) == name[i + 1].name
           n == Len(name)
<1>1. /\ n \in Nat /\ \A i \in 0 .. n - 1 : at(i) \in Int
      /\ \A i, j \in 0 .. n - 1 : i < j => at(i) < at(j)
  BY Entries
<1>2. s \in [found : BOOLEAN, at : Int] /\ s.at \in Int
  BY DEF Good
<1>3. c \in 0 .. n - 1 /\ b \in Int /\ e \in Int /\ b >= 0 /\ e <= n - 1
  BY <1>1
<1>4. CASE at(c) < m /\ Good(m, c + 1, e, s)
  <2>1. ASSUME NEW i \in b .. c PROVE at(i) < m
    <3> HIDE DEF at, n
    <3>1. i \in 0 .. n - 1 /\ (i < c \/ i = c)
      BY <1>1, <1>3, <2>1
    <3>2. at(i) \in Int /\ at(c) \in Int /\ at(c) < m /\ (i < c => at(i) < at(c))
      BY <1>1, <1>3, <1>4, <3>1
    <3> QED
      BY <3>1, <3>2
  <2>2. /\ s.found => s.at \in c + 1 .. e /\ at(s.at) = m
        /\ ~ s.found => /\ s.at \in c + 1 .. e + 1
                        /\ \A i \in c + 1 .. s.at - 1 : at(i) < m
                        /\ \A i \in s.at .. e : at(i) > m
    BY <1>4 DEF Good
  <2> HIDE DEF at
  <2>3. /\ s.found => s.at \in b .. e /\ at(s.at) = m
        /\ ~ s.found => /\ s.at \in b .. e + 1
                        /\ \A i \in b .. s.at - 1 : at(i) < m
                        /\ \A i \in s.at .. e : at(i) > m
    BY <1>2, <1>3, <2>1, <2>2
  <2> QED
    BY <1>2, <2>3 DEF Good, at
<1>5. CASE at(c) > m /\ Good(m, b, c - 1, s)
  <2>1. ASSUME NEW i \in c .. e PROVE at(i) > m
    <3> HIDE DEF at, n
    <3>1. i \in 0 .. n - 1 /\ (c < i \/ i = c)
      BY <1>1, <1>3, <2>1
    <3>2. at(i) \in Int /\ at(c) \in Int /\ at(c) > m /\ (c < i => at(c) < at(i))
      BY <1>1, <1>3, <1>5, <3>1
    <3> QED
      BY <3>1, <3>2
  <2>2. /\ s.found => s.at \in b .. c - 1 /\ at(s.at) = m
        /\ ~ s.found => /\ s.at \in b .. c
                        /\ \A i \in b .. s.at - 1 : at(i) < m
                        /\ \A i \in s.at .. c - 1 : at(i) > m
    BY <1>3, <1>5 DEF Good
  <2> HIDE DEF at
  <2>3. /\ s.found => s.at \in b .. e /\ at(s.at) = m
        /\ ~ s.found => /\ s.at \in b .. e + 1
                        /\ \A i \in b .. s.at - 1 : at(i) < m
                        /\ \A i \in s.at .. e : at(i) > m
    BY <1>2, <1>3, <2>1, <2>2
  <2> QED
    BY <1>2, <2>3 DEF Good, at
<1> QED
  BY <1>4, <1>5

\* One step of the loop of skynet_handle_findname and _insert_name, where f
\* has the results of the steps that follow.
Step(f, m, b, e) ==
    LET mid == (b + e) \div 2
        r == name[mid + 1]
    IN  IF b > e THEN [found |-> FALSE, at |-> b]
        ELSE IF r.name = m THEN [found |-> TRUE, at |-> mid]
        ELSE IF r.name < m THEN f[<<mid + 1, e>>] ELSE f[<<b, mid - 1>>]

\* The binary search finds a name that is there, and the place of one that is not.
LEMMA Searched ==
  ASSUME name \in Seq(Entry), Sorted(name), NEW m \in Int
  PROVE  Good(m, 0, Len(name) - 1, Search(m))
<1> DEFINE n == Len(name)
           B == 0 .. n
           E == -1 .. n - 1
           F == CHOOSE f : f = [p \in B \X E |-> Step(f, m, p[1], p[2])]
           none(b) == [found |-> FALSE, at |-> b]
           pick(b, e) == CHOOSE s : Good(m, b, e, s)
           w == [p \in B \X E |-> IF p[1] > p[2] THEN none(p[1]) ELSE pick(p[1], p[2])]
<1>1. Search(m) = F[<<0, n - 1>>]
  BY DEF Search, Step
<1>2. n \in Nat /\ \A i \in 0 .. n - 1 : name[i + 1].name \in Int
  BY Entries
<1>3. ASSUME NEW b \in B, NEW e \in E, b <= e + 1 PROVE Good(m, b, e, pick(b, e))
  BY <1>3, GoodSome
<1>4. ASSUME NEW b \in B, NEW e \in E, b = e + 1 PROVE Good(m, b, e, none(b))
  BY <1>2, <1>4 DEF Good
<1>5. ASSUME NEW b \in B, NEW e \in E, b <= e, NEW mid, mid = (b + e) \div 2
      PROVE  /\ mid \in b .. e /\ mid \in 0 .. n - 1
             /\ mid + 1 \in B /\ mid - 1 \in E /\ mid + 1 <= e + 1 /\ b <= (mid - 1) + 1
             /\ (e + 1) - (mid + 1) < (e + 1) - b /\ mid - b < (e + 1) - b
  BY <1>2, <1>5
<1> HIDE DEF n, pick, none, B, E
<1>6. ASSUME NEW b \in B, NEW e \in E PROVE w[<<b, e>>] = IF b > e THEN none(b) ELSE pick(b, e)
  OBVIOUS
<1> HIDE DEF w
<1>7. ASSUME NEW b \in B, NEW e \in E, b <= e + 1 PROVE Good(m, b, e, w[<<b, e>>])
  BY <1>2, <1>3, <1>4, <1>6, <1>7 DEF B, E
<1>8. ASSUME NEW b \in B, NEW e \in E PROVE w[<<b, e>>] = Step(w, m, b, e)
  <2> DEFINE mid == (b + e) \div 2
             at == name[mid + 1].name
  <2>1. CASE b > e
    BY <1>6, <2>1 DEF Step, none
  <2>2. CASE b <= e
    <3>1. /\ mid \in b .. e /\ mid \in 0 .. n - 1 /\ mid + 1 \in B /\ mid - 1 \in E
          /\ mid + 1 <= e + 1 /\ b <= (mid - 1) + 1 /\ ~ (b > e) /\ b <= e + 1
      BY <1>2, <1>5, <2>2 DEF B, E
    <3>2. Good(m, b, e, w[<<b, e>>])
      BY <1>7, <3>1
    <3>3. Step(w, m, b, e) = IF at = m THEN [found |-> TRUE, at |-> mid]
                             ELSE IF at < m THEN w[<<mid + 1, e>>] ELSE w[<<b, mid - 1>>]
      BY <3>1 DEF Step
    <3>4. at \in Int
      BY <1>2, <3>1
    <3> HIDE DEF mid
    <3>5. CASE at = m
      <4>1. Good(m, b, e, [found |-> TRUE, at |-> mid])
        BY <3>1, <3>5 DEF Good
      <4> QED
        BY <3>2, <3>3, <3>5, <4>1, GoodOne DEF B, E, n
    <3>6. CASE at < m
      <4>1. Good(m, mid + 1, e, w[<<mid + 1, e>>])
        BY <1>7, <3>1
      <4>2. Good(m, b, e, w[<<mid + 1, e>>])
        BY <3>1, <3>6, <4>1, GoodHalf DEF B, E, n
      <4> QED
        BY <3>2, <3>3, <3>4, <3>6, <4>2, GoodOne DEF B, E, n
    <3>7. CASE at > m
      <4>1. Good(m, b, mid - 1, w[<<b, mid - 1>>])
        BY <1>7, <3>1
      <4>2. Good(m, b, e, w[<<b, mid - 1>>])
        BY <3>1, <3>7, <4>1, GoodHalf DEF B, E, n
      <4> QED
        BY <3>2, <3>3, <3>4, <3>7, <4>2, GoodOne DEF B, E, n
    <3> QED
      BY <3>4, <3>5, <3>6, <3>7
  <2> QED
    BY <1>2, <2>1, <2>2 DEF B, E
<1>9. w = [p \in B \X E |-> Step(w, m, p[1], p[2])]
  <2>1. \A p \in B \X E : p[1] \in B /\ p[2] \in E /\ p = <<p[1], p[2]>>
    OBVIOUS
  <2>2. \A p \in B \X E : w[p] = Step(w, m, p[1], p[2])
    BY <1>8, <2>1
  <2>3. w = [p \in B \X E |-> w[p]]
    BY DEF w
  <2> HIDE DEF Step
  <2> QED
    BY <2>2, <2>3
<1>10. F = [p \in B \X E |-> Step(F, m, p[1], p[2])]
  BY <1>9
<1> HIDE DEF F
<1>11. \A b \in B, e \in E : F[<<b, e>>] = Step(F, m, b, e)
  BY <1>10
<1>12. \A b \in B, e \in E : b <= e + 1 => Good(m, b, e, F[<<b, e>>])
  <2> DEFINE Bad == {d \in Nat : \E b \in B, e \in E : /\ b <= e + 1 /\ d = (e + 1) - b
                                                      /\ ~ Good(m, b, e, F[<<b, e>>])}
  <2> SUFFICES ASSUME Bad # {} PROVE FALSE
    <3>1. ASSUME NEW b \in B, NEW e \in E, b <= e + 1 PROVE (e + 1) - b \in Nat
      BY <1>2, <3>1 DEF B, E
    <3> QED
      BY <3>1
  <2>1. PICK d \in Bad : \A j \in Bad : d <= j
    BY Least
  <2>2. PICK b \in B, e \in E : b <= e + 1 /\ d = (e + 1) - b /\ ~ Good(m, b, e, F[<<b, e>>])
    BY <2>1
  <2>3. ASSUME NEW a \in B, NEW c \in E, a <= c + 1, (c + 1) - a < d
        PROVE  Good(m, a, c, F[<<a, c>>])
    <3>1. (c + 1) - a \in Nat /\ d \in Nat
      BY <1>2, <2>1, <2>3 DEF B, E
    <3>2. (c + 1) - a \notin Bad
      <4>1. \A j \in Bad : j \in Nat /\ d <= j
        BY <2>1
      <4> HIDE DEF Bad
      <4> QED
        BY <2>3, <3>1, <4>1
    <3> QED
      BY <2>3, <3>1, <3>2
  <2> HIDE DEF Bad
  <2> DEFINE mid == (b + e) \div 2
             at == name[mid + 1].name
  <2>4. CASE b > e
    <3>1. b = e + 1
      BY <1>2, <2>2, <2>4 DEF B, E
    <3>2. F[<<b, e>>] = Step(F, m, b, e)
      BY <1>11
    <3>3. F[<<b, e>>] = none(b)
      BY <2>4, <3>2 DEF Step, none
    <3> QED
      BY <1>4, <2>2, <3>1, <3>3
  <2>5. CASE b <= e
    <3>1. /\ mid \in b .. e /\ mid \in 0 .. n - 1 /\ mid + 1 \in B /\ mid - 1 \in E
          /\ mid + 1 <= e + 1 /\ b <= (mid - 1) + 1 /\ ~ (b > e)
          /\ (e + 1) - (mid + 1) < d /\ ((mid - 1) + 1) - b < d
      BY <1>2, <1>5, <2>2, <2>5 DEF B, E
    <3>2. F[<<b, e>>] = IF at = m THEN [found |-> TRUE, at |-> mid]
                    ELSE IF at < m THEN F[<<mid + 1, e>>] ELSE F[<<b, mid - 1>>]
      BY <1>11, <3>1 DEF Step
    <3>3. at \in Int
      BY <1>2, <3>1
    <3> HIDE DEF mid
    <3>4. CASE at = m
      BY <2>2, <3>1, <3>2, <3>4 DEF Good
    <3>5. CASE at < m
      <4>1. Good(m, mid + 1, e, F[<<mid + 1, e>>])
        BY <2>3, <3>1
      <4>2. Good(m, b, e, F[<<mid + 1, e>>])
        BY <3>1, <3>5, <4>1, GoodHalf DEF B, E, n
      <4> QED
        BY <2>2, <3>2, <3>3, <3>5, <4>2
    <3>6. CASE at > m
      <4>1. Good(m, b, mid - 1, F[<<b, mid - 1>>])
        BY <2>3, <3>1
      <4>2. Good(m, b, e, F[<<b, mid - 1>>])
        BY <3>1, <3>6, <4>1, GoodHalf DEF B, E, n
      <4> QED
        BY <2>2, <3>2, <3>3, <3>6, <4>2
    <3> QED
      BY <3>3, <3>4, <3>5, <3>6
  <2> QED
    BY <1>2, <2>4, <2>5 DEF B, E
<1>13. 0 \in B /\ n - 1 \in E /\ 0 <= (n - 1) + 1
  BY <1>2 DEF B, E
<1> QED
  BY <1>1, <1>12, <1>13 DEF n

\* The loop that squeezes names out keeps the others, in order.
LEMMA SqueezedIs ==
  ASSUME name \in Seq(Entry), Sorted(name), NEW h
  PROVE  /\ Squeezed(h) \in Seq(Entry) /\ Sorted(Squeezed(h))
         /\ \A r : Lists(Squeezed(h), r) <=> Lists(name, r) /\ r.handle # h
<1> DEFINE n == Len(name)
           N == 0 .. n
           next(f, i) == IF i = 0 THEN << >>
                         ELSE IF name[i].handle = h THEN f[i - 1] ELSE Append(f[i - 1], name[i])
           Is(f, k) == f = [i \in 0 .. k |-> next(f, i)]
           F == CHOOSE f : f = [i \in N |-> next(f, i)]
<1>1. Squeezed(h) = F[n]
  BY DEF Squeezed
<1>2. n \in Nat /\ \A i \in 1 .. n : name[i] \in Entry
  OBVIOUS
<1> HIDE DEF n
<1>3. ASSUME NEW k \in Nat PROVE \E f : Is(f, k)
  <2> DEFINE Bad == {j \in Nat : ~ \E f : Is(f, j)}
  <2> SUFFICES ASSUME Bad # {} PROVE FALSE
    OBVIOUS
  <2>1. PICK j \in Bad : \A i \in Bad : j <= i
    BY Least
  <2>2. j # 0
    <3> DEFINE g == [i \in 0 .. 0 |-> << >>]
    <3>1. Is(g, 0)
      OBVIOUS
    <3> HIDE DEF g, Is
    <3> QED
      BY <2>1, <3>1
  <2>3. j \in Nat /\ j - 1 \in Nat /\ j - 1 \notin Bad
    <3>1. j \in Nat /\ j - 1 \in Nat
      BY <2>1, <2>2
    <3>2. \A i \in Bad : j <= i
      BY <2>1
    <3> HIDE DEF Bad
    <3> QED
      BY <3>1, <3>2
  <2>4. PICK f : Is(f, j - 1)
    <3> HIDE DEF Is
    <3> QED
      BY <2>3
  <2> DEFINE g == [i \in 0 .. j |-> IF i < j THEN f[i] ELSE next(f, j)]
  <2>5. \A i \in 0 .. j - 1 : f[i] = next(f, i)
    <3> HIDE DEF next
    <3> QED
      BY <2>4
  <2>6. \A i \in 0 .. j : g[i] = IF i < j THEN f[i] ELSE next(f, j)
    <3> HIDE DEF next
    <3> QED
      OBVIOUS
  <2> HIDE DEF g
  <2>7. \A i \in 0 .. j : next(g, i) = next(f, i)
    <3> TAKE i \in 0 .. j
    <3>1. i # 0 => g[i - 1] = f[i - 1]
      <4>1. i # 0 => i - 1 \in 0 .. j /\ i - 1 < j
        BY <2>3
      <4> HIDE DEF next
      <4> QED
        BY <2>6, <4>1
    <3> QED
      BY <3>1
  <2>8. \A i \in 0 .. j : g[i] = next(g, i)
    <3> TAKE i \in 0 .. j
    <3>1. i \in 0 .. j - 1 \/ i = j
      BY <2>3
    <3>2. ~ (j < j) /\ \A a \in 0 .. j - 1 : a < j
      BY <2>3
    <3> HIDE DEF next
    <3> QED
      BY <2>5, <2>6, <2>7, <3>1, <3>2
  <2>9. Is(g, j)
    <3>1. g = [i \in 0 .. j |-> g[i]]
      BY DEF g
    <3> HIDE DEF next
    <3> QED
      BY <2>8, <3>1
  <2> HIDE DEF Is
  <2> QED
    BY <2>1, <2>9
<1>4. F = [i \in N |-> next(F, i)]
  <2>1. \E f : f = [i \in N |-> next(f, i)]
    BY <1>2, <1>3
  <2> QED
    BY <2>1
<1> HIDE DEF F
<1>5. \A i \in N : F[i] = next(F, i)
  <2> HIDE DEF next
  <2> QED
    BY <1>4
<1> DEFINE Kept(i) == /\ F[i] \in Seq(Entry) /\ Sorted(F[i])
                      /\ \A r : Lists(F[i], r) <=>
                           \E k \in 1 .. i : name[k] = r /\ r.handle # h
<1>6. Kept(0)
  <2>1. F[0] = << >>
    BY <1>2, <1>5
  <2> QED
    BY <2>1 DEF Sorted, Lists
<1>7. ASSUME NEW i \in 1 .. n, Kept(i - 1) PROVE Kept(i)
  <2>1. /\ i \in N /\ i - 1 \in Nat /\ i \in Nat /\ i # 0
        /\ \A k : k \in 1 .. i <=> k \in 1 .. i - 1 \/ k = i
    BY <1>2, <1>7
  <2>2. F[i] = IF name[i].handle = h THEN F[i - 1] ELSE Append(F[i - 1], name[i])
    BY <1>5, <2>1
  <2> DEFINE q == F[i - 1]
             e == name[i]
  <2>3. /\ q \in Seq(Entry) /\ Sorted(q) /\ e \in Entry
        /\ \A r : Lists(q, r) <=> \E k \in 1 .. i - 1 : name[k] = r /\ r.handle # h
    BY <1>2, <1>7
  <2>4. CASE e.handle = h
    <3>1. F[i] = q
      BY <2>2, <2>4
    <3>2. \A r : Lists(q, r) <=> \E k \in 1 .. i : name[k] = r /\ r.handle # h
      <4>1. \A r : (\E k \in 1 .. i : name[k] = r /\ r.handle # h) <=>
                   (\E k \in 1 .. i - 1 : name[k] = r /\ r.handle # h)
        BY <2>1, <2>4
      <4> HIDE DEF q
      <4> QED
        BY <2>3, <4>1
    <3> HIDE DEF q
    <3> QED
      BY <2>3, <3>1, <3>2
  <2>5. CASE e.handle # h
    <3> DEFINE p == Append(q, e)
    <3>1. F[i] = p
      BY <2>2, <2>5
    <3> HIDE DEF q
    <3>2. /\ p \in Seq(Entry) /\ Len(q) \in Nat /\ DOMAIN q = 1 .. Len(q)
          /\ DOMAIN p = 1 .. Len(q) + 1
          /\ p[Len(q) + 1] = e /\ \A k \in 1 .. Len(q) : p[k] = q[k]
      BY <2>3
    <3> HIDE DEF p
    <3>3. \A r : Lists(p, r) <=> Lists(q, r) \/ r = e
      <4>1. \A k : k \in 1 .. Len(q) + 1 <=> k \in 1 .. Len(q) \/ k = Len(q) + 1
        BY <3>2
      <4> QED
        BY <3>2, <4>1 DEF Lists
    <3>4. \A r : Lists(p, r) <=> \E k \in 1 .. i : name[k] = r /\ r.handle # h
      <4> TAKE r
      <4>1. (\E k \in 1 .. i : name[k] = r /\ r.handle # h) <=>
              \/ \E k \in 1 .. i - 1 : name[k] = r /\ r.handle # h
              \/ r = e
        BY <2>1, <2>5
      <4> QED
        BY <2>3, <3>3, <4>1
    <3>5. \A k \in 1 .. Len(q) : q[k].name < e.name
      <4> TAKE k \in 1 .. Len(q)
      <4>1. Lists(q, q[k])
        BY <3>2 DEF Lists
      <4>2. PICK j \in 1 .. i - 1 : name[j] = q[k]
        BY <2>3, <4>1
      <4>3. j \in 1 .. n /\ j < i /\ DOMAIN name = 1 .. n
        BY <1>2, <2>1 DEF n
      <4> QED
        BY <4>2, <4>3 DEF Sorted
    <3>6. Sorted(p)
      <4> SUFFICES ASSUME NEW k \in 1 .. Len(q) + 1, NEW j \in 1 .. Len(q) + 1, k < j
                   PROVE  p[k].name < p[j].name
        BY <3>2 DEF Sorted
      <4>1. k \in 1 .. Len(q) /\ (j \in 1 .. Len(q) \/ j = Len(q) + 1)
        BY <3>2
      <4> HIDE DEF e
      <4>2. CASE j \in 1 .. Len(q)
        BY <2>3, <3>2, <4>1, <4>2 DEF Sorted
      <4>3. CASE j = Len(q) + 1
        BY <3>2, <3>5, <4>1, <4>3
      <4> QED
        BY <4>1, <4>2, <4>3
    <3> QED
      BY <3>1, <3>2, <3>4, <3>6
  <2> QED
    BY <2>4, <2>5
<1>8. \A i \in N : Kept(i)
  <2> HIDE DEF Kept
  <2> DEFINE Bad == {i \in Nat : i \in N /\ ~ Kept(i)}
  <2> SUFFICES ASSUME Bad # {} PROVE FALSE
    BY <1>2
  <2>1. PICK j \in Bad : \A i \in Bad : j <= i
    BY Least
  <2>2. j # 0 /\ j \in Nat /\ j \in N /\ ~ Kept(j)
    BY <1>6, <2>1
  <2>3. j \in 1 .. n /\ j - 1 \in N /\ j - 1 \in Nat /\ ~ (j <= j - 1)
    BY <1>2, <2>2
  <2>4. Kept(j - 1)
    BY <2>1, <2>3
  <2> QED
    BY <1>7, <2>2, <2>3, <2>4
<1>9. Kept(n)
  <2> HIDE DEF Kept
  <2> QED
    BY <1>2, <1>8
<1>10. DOMAIN name = 1 .. n
  BY DEF n
<1> QED
  BY <1>1, <1>9, <1>10 DEF Lists

\* _insert_name_before the place that the search found.
LEMMA InsertIs ==
  ASSUME name \in Seq(Entry), Sorted(name), NEW m \in Name, NEW h \in 1 .. HandleMask,
         ~ Search(m).found
  PROVE  LET p == Insert(m, h, Search(m).at)
         IN  /\ p \in Seq(Entry) /\ Sorted(p)
             /\ \A r : Lists(p, r) <=> Lists(name, r) \/ r = [name |-> m, handle |-> h]
             /\ \A i \in DOMAIN name : name[i].name # m
<1> DEFINE n == Len(name)
           a == Search(m).at
           e == [name |-> m, handle |-> h]
           u == SubSeq(name, 1, a)
           v == SubSeq(name, a + 1, n)
           p == u \o <<e>> \o v
<1>1. m \in Int
  BY HandleAssumption
<1>2. Good(m, 0, n - 1, Search(m))
  BY <1>1, Searched
<1>3. /\ n \in Nat /\ DOMAIN name = 1 .. n /\ \A i \in 1 .. n : name[i] \in Entry
      /\ \A i \in 1 .. n : name[i].name \in Int
      /\ \A i, j \in 1 .. n : i < j => name[i].name < name[j].name
  <2>1. Name \subseteq Nat
    BY HandleAssumption
  <2>2. n \in Nat /\ DOMAIN name = 1 .. n /\ \A i \in 1 .. n : name[i] \in Entry
    OBVIOUS
  <2>3. \A r \in Entry : r.name \in Int
    <3>1. \A r \in Entry : r.name \in Name
      BY DEF Entry
    <3>2. \A x \in Name : x \in Int
      BY <2>1
    <3> QED
      BY <3>1, <3>2
  <2> QED
    BY <2>2, <2>3 DEF Sorted
<1>4. a \in 0 .. n
  BY <1>2, <1>3 DEF Good
<1>5. /\ \A i \in 1 .. a : name[i].name < m
      /\ \A i \in a + 1 .. n : name[i].name > m
  <2>1. /\ \A i \in 0 .. a - 1 : name[i + 1].name < m
        /\ \A i \in a .. n - 1 : name[i + 1].name > m
    BY <1>2 DEF Good
  <2> HIDE DEF n, a
  <2>2. ASSUME NEW i \in 1 .. a PROVE name[i].name < m
    <3>1. i - 1 \in 0 .. a - 1 /\ (i - 1) + 1 = i
      BY <1>3, <1>4
    <3> QED
      BY <2>1, <3>1
  <2>3. ASSUME NEW i \in a + 1 .. n PROVE name[i].name > m
    <3>1. i - 1 \in a .. n - 1 /\ (i - 1) + 1 = i
      BY <1>3, <1>4
    <3> QED
      BY <2>1, <3>1
  <2> QED
    BY <2>2, <2>3
<1>6. Insert(m, h, a) = p
  BY DEF Insert
<1>7. e \in Entry /\ e.name = m
  BY DEF Entry
<1> HIDE DEF a, e
<1>8. /\ u \in Seq(Entry) /\ Len(u) = a /\ \A i \in 1 .. a : u[i] = name[i]
      /\ v \in Seq(Entry) /\ Len(v) = n - a /\ \A i \in 1 .. n - a : v[i] = name[a + i]
  <2>1. \A i \in 1 .. a : i \in 1 .. n
    BY <1>3, <1>4
  <2>2. \A i \in 1 .. n - a : a + i \in 1 .. n /\ (a + 1) + i - 1 = a + i
    BY <1>3, <1>4
  <2>3. u \in Seq(Entry) /\ Len(u) = a /\ \A i \in 1 .. a : u[i] = name[i]
    BY <1>3, <1>4, <2>1
  <2>4. v \in Seq(Entry)
    BY <1>3, <1>4, <2>2
  <2>5. Len(v) = n - a
    <3> HIDE DEF n
    <3>1. a + 1 \in Int /\ n \in Int /\ \A i \in a + 1 .. n : name[i] \in Entry
      BY <1>3, <1>4
    <3>2. Len(v) = IF a + 1 <= n THEN n - (a + 1) + 1 ELSE 0
      BY <3>1, SubSeqProperties
    <3> QED
      BY <1>3, <1>4, <3>2
  <2>6. \A i \in 1 .. n - a : v[i] = name[a + i]
    BY <1>3, <1>4, <2>2
  <2> QED
    BY <2>3, <2>4, <2>5, <2>6
<1> HIDE DEF u, v, n
<1>9. /\ p \in Seq(Entry) /\ DOMAIN p = 1 .. n + 1
      /\ \A i \in 1 .. n + 1 : p[i] = IF i <= a THEN name[i]
                                      ELSE IF i = a + 1 THEN e ELSE name[i - 1]
  <2> DEFINE w == u \o <<e>>
  <2>1. /\ w \in Seq(Entry) /\ Len(w) = a + 1
        /\ \A i \in 1 .. a + 1 : w[i] = IF i <= a THEN u[i] ELSE e
    BY <1>3, <1>4, <1>7, <1>8
  <2> HIDE DEF w
  <2>2. /\ w \o v \in Seq(Entry) /\ Len(w \o v) = n + 1
        /\ \A i \in 1 .. n + 1 : (w \o v)[i] = IF i <= a + 1 THEN w[i] ELSE v[i - (a + 1)]
    BY <1>3, <1>4, <1>8, <2>1
  <2>3. DOMAIN (w \o v) = 1 .. n + 1
    BY <2>2
  <2>4. ASSUME NEW i \in 1 .. n + 1
        PROVE  (w \o v)[i] = IF i <= a THEN name[i] ELSE IF i = a + 1 THEN e ELSE name[i - 1]
    <3>1. CASE i <= a
      <4>1. i \in 1 .. a /\ i \in 1 .. a + 1 /\ i <= a + 1
        BY <1>3, <1>4, <3>1
      <4> QED
        BY <1>8, <2>1, <2>2, <3>1, <4>1
    <3>2. CASE i = a + 1
      <4>1. i \in 1 .. a + 1 /\ i <= a + 1 /\ ~ (i <= a)
        BY <1>3, <1>4, <3>2
      <4> QED
        BY <2>1, <2>2, <3>2, <4>1
    <3>3. CASE i > a + 1
      <4>1. i - (a + 1) \in 1 .. n - a /\ ~ (i <= a + 1) /\ ~ (i <= a) /\ i # a + 1
        BY <1>3, <1>4, <3>3
      <4>2. (w \o v)[i] = name[a + (i - (a + 1))]
        BY <1>8, <2>2, <4>1
      <4>3. a + (i - (a + 1)) = i - 1
        BY <1>4
      <4> QED
        BY <4>1, <4>2, <4>3
    <3>4. i <= a \/ i = a + 1 \/ i > a + 1
      BY <1>3, <1>4
    <3> QED
      BY <3>1, <3>2, <3>3, <3>4
  <2>5. p = w \o v
    BY DEF w
  <2> HIDE DEF p
  <2> QED
    BY <2>2, <2>3, <2>4, <2>5
<1> HIDE DEF p
<1>10. Sorted(p)
  <2> SUFFICES ASSUME NEW i \in 1 .. n + 1, NEW j \in 1 .. n + 1, i < j
               PROVE  p[i].name < p[j].name
    BY <1>9 DEF Sorted
  <2>1. CASE j <= a
    <3>1. i \in 1 .. a /\ j \in 1 .. a /\ i \in 1 .. n /\ j \in 1 .. n /\ i <= a
      BY <1>3, <1>4, <2>1
    <3> QED
      BY <1>3, <1>9, <2>1, <3>1
  <2>2. CASE j = a + 1
    <3>1. i \in 1 .. a /\ i <= a /\ ~ (j <= a)
      BY <1>3, <1>4, <2>2
    <3> QED
      BY <1>5, <1>7, <1>9, <2>2, <3>1
  <2>3. CASE j > a + 1
    <3>1. j - 1 \in a + 1 .. n /\ j - 1 \in 1 .. n /\ ~ (j <= a) /\ j # a + 1
      BY <1>3, <1>4, <2>3
    <3>2. p[j] = name[j - 1] /\ name[j - 1].name > m /\ name[j - 1].name \in Int
      BY <1>3, <1>5, <1>9, <3>1
    <3>3. CASE i <= a
      <4>1. i \in 1 .. a /\ i \in 1 .. n /\ i < j - 1
        BY <1>3, <1>4, <2>3, <3>3
      <4> QED
        BY <1>3, <1>9, <3>1, <3>2, <3>3, <4>1
    <3>4. CASE i = a + 1
      <4>1. p[i] = e
        BY <1>3, <1>4, <1>9, <3>4
      <4> QED
        BY <1>1, <1>7, <3>2, <4>1
    <3>5. CASE i > a + 1
      <4>1. i - 1 \in 1 .. n /\ i - 1 < j - 1 /\ ~ (i <= a) /\ i # a + 1
        BY <1>3, <1>4, <3>5
      <4> QED
        BY <1>3, <1>9, <3>1, <3>2, <4>1
    <3> QED
      BY <1>4, <3>3, <3>4, <3>5
  <2> QED
    BY <1>4, <2>1, <2>2, <2>3
<1>11. ASSUME NEW r PROVE Lists(p, r) <=> Lists(name, r) \/ r = e
  <2>1. ASSUME NEW i \in 1 .. n + 1, p[i] = r PROVE Lists(name, r) \/ r = e
    <3>1. (i <= a => i \in 1 .. n) /\ (~ (i <= a) /\ i # a + 1 => i - 1 \in 1 .. n)
      BY <1>3, <1>4
    <3> QED
      BY <1>3, <1>9, <2>1, <3>1 DEF Lists
  <2>2. ASSUME NEW i \in 1 .. n, name[i] = r PROVE Lists(p, r)
    <3>1. CASE i <= a
      <4>1. i \in 1 .. n + 1
        BY <1>3
      <4> QED
        BY <1>9, <2>2, <3>1, <4>1 DEF Lists
    <3>2. CASE i > a
      <4>1. i + 1 \in 1 .. n + 1 /\ ~ (i + 1 <= a) /\ i + 1 # a + 1 /\ (i + 1) - 1 = i
        BY <1>3, <1>4, <3>2
      <4> QED
        BY <1>9, <2>2, <4>1 DEF Lists
    <3> QED
      BY <1>4, <3>1, <3>2
  <2>3. Lists(p, e)
    <3>1. a + 1 \in 1 .. n + 1 /\ ~ (a + 1 <= a)
      BY <1>3, <1>4
    <3> QED
      BY <1>9, <3>1 DEF Lists
  <2> QED
    BY <1>3, <1>9, <2>1, <2>2, <2>3 DEF Lists
<1>12. ASSUME NEW i \in 1 .. n PROVE name[i].name # m
  <2>1. i \in 1 .. a \/ i \in a + 1 .. n
    BY <1>3, <1>4
  <2> QED
    BY <1>1, <1>3, <1>5, <2>1
<1> QED
  BY <1>3, <1>6, <1>9, <1>10, <1>11, <1>12 DEF a, e

\* The sorted array holds just what is bound.  No assumption on launches.
NamesInv ==
    /\ name \in Seq(Entry) /\ Sorted(name)
    /\ bound \in [Name -> 0 .. HandleMask]
    /\ \A r \in Entry : Lists(name, r) <=> bound[r.name] = r.handle
    /\ handle \in [Context -> 0 .. HandleMask]
    /\ ret \in [Thread -> 0 .. HandleMask]
    /\ handle_index \in Nat \ {0}

\* The names of a handle go.
LEMMA RemoveNames ==
  ASSUME NamesInv, NEW h, Remove(h)
  PROVE  /\ name' \in Seq(Entry) /\ Sorted(name)' /\ bound' \in [Name -> 0 .. HandleMask]
         /\ \A r \in Entry : Lists(name', r) <=> bound'[r.name] = r.handle
<1>1. /\ name' \in Seq(Entry) /\ Sorted(name)'
      /\ \A r : Lists(name', r) <=> Lists(name, r) /\ r.handle # h
  BY SqueezedIs DEF NamesInv, Remove, Sorted
<1>2. bound' = [m \in Name |-> IF bound[m] = h THEN 0 ELSE bound[m]]
  BY DEF Remove
<1>3. bound' \in [Name -> 0 .. HandleMask]
  <2>1. 0 \in 0 .. HandleMask
    BY Constants
  <2> QED
    BY <1>2, <2>1 DEF NamesInv
<1>4. ASSUME NEW r \in Entry PROVE Lists(name', r) <=> bound'[r.name] = r.handle
  <2>1. r.name \in Name /\ r.handle # 0
    BY Constants DEF Entry
  <2>2. bound'[r.name] = IF bound[r.name] = h THEN 0 ELSE bound[r.name]
    BY <1>2, <2>1
  <2>3. Lists(name, r) <=> bound[r.name] = r.handle
    BY DEF NamesInv
  <2> QED
    BY <1>1, <2>1, <2>2, <2>3
<1> QED
  BY <1>1, <1>3, <1>4

LEMMA NameNames ==
  ASSUME NamesInv, NEW h \in Given, NEW m \in Name, NameHandle(h, m)
  PROVE  NamesInv'
<1> DEFINE e == [name |-> m, handle |-> h]
<1>1. h \in 1 .. HandleMask
  BY Constants DEF Given, NamesInv
<1>2. /\ name' = Insert(m, h, Search(m).at) /\ ~ Search(m).found
      /\ bound' = [bound EXCEPT ![m] = h] /\ UNCHANGED <<handle, ret, handle_index>>
  BY DEF NameHandle, table, locals
<1>3. /\ name' \in Seq(Entry) /\ Sorted(name')
      /\ \A r : Lists(name', r) <=> Lists(name, r) \/ r = e
      /\ \A i \in DOMAIN name : name[i].name # m
  BY <1>1, <1>2, InsertIs DEF NamesInv
<1>4. bound' \in [Name -> 0 .. HandleMask]
  <2>1. h \in 0 .. HandleMask
    BY <1>1, Constants
  <2> QED
    BY <1>2, <2>1 DEF NamesInv
<1>5. ASSUME NEW r \in Entry PROVE Lists(name', r) <=> bound'[r.name] = r.handle
  <2>1. r.name \in Name /\ (r = e <=> r.name = m /\ r.handle = h)
    BY DEF Entry
  <2>2. bound'[r.name] = IF r.name = m THEN h ELSE bound[r.name]
    BY <1>2, <2>1 DEF NamesInv
  <2>3. Lists(name, r) <=> bound[r.name] = r.handle
    BY DEF NamesInv
  <2>4. r.name = m => ~ Lists(name, r)
    BY <1>3 DEF Lists
  <2> HIDE DEF e
  <2> QED
    BY <1>3, <2>1, <2>2, <2>3, <2>4
<1>6. Sorted(name)'
  BY <1>3 DEF Sorted
<1> QED
  BY <1>2, <1>3, <1>4, <1>5, <1>6 DEF NamesInv, Lists

\* A handle that register gives out is a number.
LEMMA ProbeIn ==
  ASSUME NamesInv, NEW sl, NEW size, FreeProbes(sl, size) # {}
  PROVE  Probe(First(FreeProbes(sl, size))) \in 1 .. HandleMask
<1> DEFINE k == First(FreeProbes(sl, size))
<1>1. FreeProbes(sl, size) \subseteq Nat
  BY DEF FreeProbes
<1>2. k \in Nat
  BY <1>1, FirstIn
<1> HIDE DEF k
<1>3. HandleMask \in Nat \ {0} /\ handle_index + k - 1 \in Nat
  BY <1>2, Constants DEF NamesInv
<1>4. (handle_index + k - 1) % HandleMask \in 0 .. HandleMask - 1
  BY <1>3, ModIn
<1>5. Probe(k) \in 1 .. HandleMask
  BY <1>3, <1>4 DEF Probe
<1> QED
  BY <1>5 DEF k

LEMMA RegisterNames ==
  ASSUME NamesInv, NEW t \in Launcher, NEW c \in Context, Register(t, c) \/ RegisterGrow(t, c)
  PROVE  NamesInv'
<1>1. /\ UNCHANGED <<name, bound>> /\ handle' = [handle EXCEPT ![c] = 0]
      /\ \E sl, size : FreeProbes(sl, size) # {} /\ TakeSlot(t, c, sl, size)
  <2>1. GrowFault(slot_size) = "none" => FreeProbes(Rehash(slot_size), 2 * slot_size) # {}
    BY DEF GrowFault
  <2> QED
    BY <2>1 DEF Register, RegisterGrow, Leave, names
<1>2. PICK h \in 1 .. HandleMask : handle_index' = h + 1 /\ ret' = [ret EXCEPT ![t] = h]
  BY <1>1, ProbeIn DEF TakeSlot
<1>3. handle' \in [Context -> 0 .. HandleMask]
  BY <1>1, Constants DEF NamesInv
<1>4. ret' \in [Thread -> 0 .. HandleMask] /\ handle_index' \in Nat \ {0}
  <2>1. h \in 0 .. HandleMask /\ h + 1 \in Nat \ {0}
    BY Constants
  <2> QED
    BY <1>2, <2>1 DEF NamesInv
<1> QED
  BY <1>1, <1>3, <1>4 DEF NamesInv, Sorted, Lists

LEMMA NamesNext == NamesInv /\ [Next]_vars => NamesInv'
<1> SUFFICES ASSUME NamesInv, [Next]_vars PROVE NamesInv'
  OBVIOUS
<1>1. ASSUME UNCHANGED <<name, bound, handle, ret, handle_index>> PROVE NamesInv'
  BY <1>1 DEF NamesInv, Sorted, Lists
<1>2. CASE UNCHANGED vars
  BY <1>1, <1>2 DEF vars, table, names, locals
<1>3. ASSUME NEW t \in Launcher, NEW c \in Context,
             Register(t, c) \/ RegisterGrow(t, c) \/ RegisterFault(t, c)
      PROVE  NamesInv'
  <2>1. CASE RegisterFault(t, c)
    BY <1>1, <2>1 DEF RegisterFault, table, names, locals
  <2> QED
    BY <1>3, <2>1, RegisterNames
<1>4. ASSUME NEW t \in Launcher, StoreHandle(t) PROVE NamesInv'
  <2>1. /\ UNCHANGED <<name, bound, ret, handle_index>>
        /\ handle' = [handle EXCEPT ![arg[t]] = ret[t]] /\ ret[t] \in 0 .. HandleMask
    BY <1>4 DEF StoreHandle, names, NamesInv, Thread
  <2>2. handle' \in [Context -> 0 .. HandleMask]
    BY <2>1 DEF NamesInv
  <2> QED
    BY <2>1, <2>2 DEF NamesInv, Sorted, Lists
<1>5. ASSUME NEW h, Remove(h), UNCHANGED <<handle, ret, handle_index>> PROVE NamesInv'
  BY <1>5, RemoveNames DEF NamesInv, Lists
<1>6. ASSUME NEW t \in Aborter, Pass(t) \/ Read(t) \/ RetireSeen(t) \/ PassEnd(t)
      PROVE  NamesInv'
  <2>1. CASE RetireSeen(t)
    <3>1. UNCHANGED <<handle, ret, handle_index>> /\ (Remove(seen[t]) \/ UNCHANGED <<name, bound>>)
      BY <2>1 DEF RetireSeen, names
    <3> QED
      BY <1>1, <1>5, <3>1
  <2>2. CASE Pass(t) \/ Read(t) \/ PassEnd(t)
    BY <1>1, <2>2 DEF Pass, Read, PassEnd, table, names, locals
  <2> QED
    BY <1>6, <2>1, <2>2
<1>7. ASSUME NEW h \in Given, Retire(h) PROVE NamesInv'
  BY <1>5, <1>7 DEF Retire
<1> QED
  BY <1>2, <1>3, <1>4, <1>6, <1>7, NameNames DEF Next

LEMMA NamesInit == Init => NamesInv
<1> SUFFICES ASSUME Init PROVE NamesInv
  OBVIOUS
<1>1. name = << >> /\ handle_index = 1 /\ 0 \in 0 .. HandleMask
  BY Constants DEF Init
<1>2. name \in Seq(Entry) /\ Sorted(name) /\ \A r : ~ Lists(name, r)
  BY <1>1 DEF Sorted, Lists
<1>3. /\ bound \in [Name -> 0 .. HandleMask] /\ handle \in [Context -> 0 .. HandleMask]
      /\ ret \in [Thread -> 0 .. HandleMask]
  BY <1>1 DEF Init
<1>4. \A r \in Entry : bound[r.name] # r.handle
  BY Constants DEF Init, Entry
<1> QED
  BY <1>1, <1>2, <1>3, <1>4 DEF NamesInv

LEMMA NamesMap == NamesInv => NamesAreMap
<1> SUFFICES ASSUME NamesInv, NEW m \in Name PROVE findname(m) = bound[m]
  BY DEF NamesInv, NamesAreMap, Entry
<1> DEFINE s == Search(m)
           n == Len(name)
<1>1. m \in Int /\ name \in Seq(Entry) /\ Sorted(name)
  BY HandleAssumption DEF NamesInv
<1>2. Good(m, 0, n - 1, s)
  BY <1>1, Searched
<1>3. n \in Nat /\ DOMAIN name = 1 .. n /\ \A i \in 1 .. n : name[i] \in Entry
  BY <1>1
<1>4. findname(m) = IF s.found THEN name[s.at + 1].handle ELSE 0
  BY DEF findname
<1> HIDE DEF s, n
<1>5. CASE s.found
  <2> DEFINE r == name[s.at + 1]
  <2>1. s.at + 1 \in 1 .. n /\ r.name = m
    BY <1>2, <1>3, <1>5 DEF Good
  <2>2. r \in Entry /\ Lists(name, r)
    BY <1>3, <2>1 DEF Lists
  <2> HIDE DEF r
  <2>3. bound[m] = r.handle
    BY <2>1, <2>2 DEF NamesInv
  <2> QED
    BY <1>4, <1>5, <2>3 DEF r
<1>6. CASE ~ s.found
  <2> SUFFICES ASSUME bound[m] # 0 PROVE FALSE
    BY <1>4, <1>6
  <2> DEFINE r == [name |-> m, handle |-> bound[m]]
  <2>1. bound[m] \in 1 .. HandleMask
    BY Constants DEF NamesInv
  <2>2. r \in Entry /\ r.name = m /\ r.handle = bound[m]
    BY <2>1 DEF Entry
  <2> HIDE DEF r
  <2>3. PICK i \in 1 .. n : name[i] = r
    BY <1>3, <2>2 DEF NamesInv, Lists
  <2>4. /\ i - 1 \in 0 .. s.at - 1 \/ i - 1 \in s.at .. n - 1
        /\ (i - 1) + 1 = i
    BY <1>2, <1>3, <1>6 DEF Good
  <2>5. name[i].name < m \/ name[i].name > m
    BY <1>2, <1>6, <2>4 DEF Good
  <2> QED
    BY <1>1, <2>2, <2>3, <2>5
<1> QED
  BY <1>5, <1>6

\* NamesAreMap, for every number of names, handles and threads and however
\* launches overlap: the array that _insert_name_before keeps sorted, that
\* skynet_handle_retire squeezes and that skynet_handle_findname and
\* _insert_name search by halves is the map from names to handles.
THEOREM NamesFound == Spec => []NamesAreMap
  BY NamesInit, NamesNext, NamesMap, PTL DEF Spec
===============================================================================
