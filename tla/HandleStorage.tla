---------------------------- MODULE HandleStorage ----------------------------
(***************************************************************************)
(* The handle table and the name table of a node:                          *)
(*   skynet-src/skynet_handle.c   register, retire, retireall, grab,       *)
(*                                findname, namehandle                     *)
(*   skynet-src/skynet_server.c   the use of register in                   *)
(*                                skynet_context_new                       *)
(*                                                                         *)
(* Each critical section of the rwlock is one action.  skynet_context_new  *)
(* stores the new handle into ctx->handle only after the lock is gone, so  *)
(* between Register and StoreHandle the table holds a context whose handle *)
(* reads 0.  The harbor bits of a handle are left out (they are constant), *)
(* a name is a number, ordered as strcmp orders names, and name_cap, the   *)
(* room for the sorted array, is left out.                                 *)
(***************************************************************************)
EXTENDS Integers, Sequences, FiniteSets

CONSTANTS
    Context,     \* skynet_context memory blocks
    Launcher,    \* threads that call skynet_context_new
    Aborter,     \* threads that run ABORT (skynet_handle_retireall)
    Name,        \* local names
    SlotSize,    \* DEFAULT_SLOT_SIZE
    HandleMask,  \* HANDLE_MASK
    MaxRegister, \* bound: calls of skynet_handle_register
    None         \* the null pointer

ASSUME HandleAssumption ==
    /\ None \notin Context
    /\ SlotSize \in Nat \ {0}
    /\ HandleMask \in Nat /\ HandleMask >= SlotSize
    /\ MaxRegister \in Nat
    /\ Name \subseteq Nat
    /\ Launcher \cap Aborter = {}

Thread == Launcher \cup Aborter

VARIABLES
    slot_size,     \* s->slot_size
    slot,          \* s->slot
    handle_index,  \* s->handle_index
    handle,        \* ctx->handle of each context
    name,          \* s->name, a sorted sequence of [name, handle]
    pc, arg, ret,  \* skynet_context_new of each launcher: its context, its handle
    idx, cnt, seen,\* the locals i, n and handle of retireall
    registers,     \* calls of register so far
    fault,         \* the first failed assertion or null dereference
    bound,         \* history: name -> handle as a map, 0 for no binding
    due            \* history: handles valid when the current pass of retireall began and
                   \* not retired since

table  == <<slot_size, slot, handle_index, handle>>
names  == <<name, bound>>
locals == <<arg, ret, idx, cnt, seen, due>>
vars   == <<table, names, locals, pc, registers, fault>>

Init ==
    /\ slot_size = SlotSize
    /\ slot = [k \in 0 .. SlotSize - 1 |-> None]
    /\ handle_index = 1
    /\ handle = [c \in Context |-> 0]
    /\ name = << >>
    /\ pc = [t \in Thread |-> "idle"]
    /\ arg = [t \in Thread |-> None]
    /\ ret = [t \in Thread |-> 0]
    /\ idx = [t \in Thread |-> 0]
    /\ cnt = [t \in Thread |-> 0]
    /\ seen = [t \in Thread |-> 0]
    /\ due = [t \in Thread |-> {}]
    /\ registers = 0
    /\ fault = "none"
    /\ bound = [m \in Name |-> 0]

-----------------------------------------------------------------------------
(* skynet_handle_register, in skynet_context_new                            *)

\* The k-th handle the loop tries: 0 is reserved, so HANDLE_MASK wraps to 1.
Probe(k) == ((handle_index + k - 1) % HandleMask) + 1

FreeProbes(sl, size) == {k \in 0 .. size - 1 : sl[Probe(k) % size] = None}

First(S) == CHOOSE k \in S : \A j \in S : k <= j

\* The first free slot is taken and handle_index moves behind it.
TakeSlot(t, c, sl, size) ==
    LET h == Probe(First(FreeProbes(sl, size)))
    IN  /\ slot' = [sl EXCEPT ![h % size] = c]
        /\ slot_size' = size
        /\ handle_index' = h + 1
        /\ ret' = [ret EXCEPT ![t] = h]

\* skynet_context_new allocates c with handle 0 and registers it.
Enter(t, c) ==
    /\ fault = "none"
    /\ pc[t] = "idle" /\ t \in Launcher
    /\ c \notin {arg[u] : u \in Launcher}
    /\ \A k \in DOMAIN slot : slot[k] # c
    /\ registers < MaxRegister
    /\ registers' = registers + 1

Leave(t, c) ==
    /\ handle' = [handle EXCEPT ![c] = 0]
    /\ arg' = [arg EXCEPT ![t] = c]
    /\ pc' = [pc EXCEPT ![t] = "store"]
    /\ UNCHANGED <<names, idx, cnt, seen, due, fault>>

Register(t, c) ==
    /\ Enter(t, c)
    /\ FreeProbes(slot, slot_size) # {}
    /\ TakeSlot(t, c, slot, slot_size)
    /\ Leave(t, c)

\* Mutant: the rehash keeps every context at its old index.
RehashInPlace(size) ==
    [k \in 0 .. 2 * size - 1 |-> IF k < size THEN slot[k] ELSE None]

\* The table of twice the size, every context at the hash of its handle.
Rehash(size) ==
    [k \in 0 .. 2 * size - 1 |->
       IF \E j \in 0 .. size - 1 : handle[slot[j]] % (2 * size) = k
       THEN slot[CHOOSE j \in 0 .. size - 1 : handle[slot[j]] % (2 * size) = k]
       ELSE None]

\* The two assertions of the growing loop and its s->slot[i], which must not
\* be NULL; if no handle fits in the new table either, which is half empty,
\* the loop goes on to double that one.
GrowFault(size) ==
    IF 2 * size - 1 > HandleMask THEN "handles_exhausted"
    ELSE IF \E j \in 0 .. size - 1 : slot[j] = None THEN "null_context"
    ELSE IF \E j, k \in 0 .. size - 1 :
              j # k /\ handle[slot[j]] % (2 * size) = handle[slot[k]] % (2 * size)
         THEN "slot_taken"
    ELSE IF FreeProbes(Rehash(size), 2 * size) # {} THEN "none"
    ELSE IF 4 * size - 1 > HandleMask THEN "handles_exhausted" ELSE "null_context"

RegisterGrow(t, c) ==
    /\ Enter(t, c)
    /\ FreeProbes(slot, slot_size) = {}
    /\ GrowFault(slot_size) = "none"
    /\ TakeSlot(t, c, Rehash(slot_size), 2 * slot_size)
    /\ Leave(t, c)

\* The process is aborted.
RegisterFault(t, c) ==
    /\ Enter(t, c)
    /\ FreeProbes(slot, slot_size) = {}
    /\ GrowFault(slot_size) # "none"
    /\ fault' = GrowFault(slot_size)
    /\ UNCHANGED <<table, names, locals, pc>>

\* Mutant: the returned handle is not stored in the context.
StoreHandleLost(t) ==
    /\ pc[t] = "store"
    /\ arg' = [arg EXCEPT ![t] = None]
    /\ pc' = [pc EXCEPT ![t] = "idle"]
    /\ UNCHANGED <<table, names, ret, idx, cnt, seen, due, registers, fault>>

\* ctx->handle = the return value of skynet_handle_register.
StoreHandle(t) ==
    /\ pc[t] = "store"
    /\ handle' = [handle EXCEPT ![arg[t]] = ret[t]]
    /\ arg' = [arg EXCEPT ![t] = None]
    /\ pc' = [pc EXCEPT ![t] = "idle"]
    /\ UNCHANGED <<slot_size, slot, handle_index, names, ret, idx, cnt, seen, due,
                   registers, fault>>

-----------------------------------------------------------------------------
(* skynet_handle_grab, skynet_handle_retire, skynet_handle_retireall        *)

\* The context skynet_handle_grab(h) returns, or None.
Found(h) ==
    LET c == slot[h % slot_size]
    IN  IF c # None /\ handle[c] = h THEN c ELSE None

\* The loop over s->name that squeezes the names of a handle out.
Squeezed(h) ==
    LET kept[i \in 0 .. Len(name)] ==
          IF i = 0 THEN << >>
          ELSE IF name[i].handle = h THEN kept[i - 1] ELSE Append(kept[i - 1], name[i])
    IN  kept[Len(name)]

\* The slot is cleared and the names of the handle are squeezed out.
Remove(h) ==
    /\ slot' = [slot EXCEPT ![h % slot_size] = None]
    /\ name' = Squeezed(h)
    /\ bound' = [m \in Name |-> IF bound[m] = h THEN 0 ELSE bound[m]]
    /\ due' = [t \in Thread |-> due[t] \ {h}]

\* KILL, EXIT and a failed launch; retiring a handle nobody has is a no-op.
Retire(h) ==
    /\ fault = "none"
    /\ Found(h) # None
    /\ Remove(h)
    /\ UNCHANGED <<slot_size, handle_index, handle, arg, ret, idx, cnt, seen, pc, registers,
                   fault>>

\* retireall: a pass over the table begins.
Pass(t) ==
    /\ t \in Aborter
    /\ pc[t] \in {"idle", "pass"}
    /\ fault = "none"
    /\ idx' = [idx EXCEPT ![t] = 0]
    /\ cnt' = [cnt EXCEPT ![t] = 0]
    /\ due' = [due EXCEPT ![t] = {h \in 1 .. HandleMask : Found(h) # None}]
    /\ pc' = [pc EXCEPT ![t] = "read"]
    /\ UNCHANGED <<table, names, arg, ret, seen, registers, fault>>

\* Mutant: a slot with no handle in it ends the pass.
ReadStop(t) ==
    /\ pc[t] = "read"
    /\ idx[t] < slot_size
    /\ LET c == slot[idx[t]]
       IN  IF c # None /\ handle[c] # 0
           THEN /\ seen' = [seen EXCEPT ![t] = handle[c]]
                /\ pc' = [pc EXCEPT ![t] = "retire"]
                /\ UNCHANGED idx
           ELSE /\ idx' = [idx EXCEPT ![t] = slot_size]
                /\ UNCHANGED <<seen, pc>>
    /\ UNCHANGED <<table, names, arg, ret, cnt, due, registers, fault>>

\* One slot is read under the read lock.
Read(t) ==
    /\ pc[t] = "read"
    /\ idx[t] < slot_size
    /\ LET c == slot[idx[t]]
       IN  IF c # None /\ handle[c] # 0
           THEN /\ seen' = [seen EXCEPT ![t] = handle[c]]
                /\ pc' = [pc EXCEPT ![t] = "retire"]
                /\ UNCHANGED idx
           ELSE /\ idx' = [idx EXCEPT ![t] = @ + 1]
                /\ UNCHANGED <<seen, pc>>
    /\ UNCHANGED <<table, names, arg, ret, cnt, due, registers, fault>>

\* The handle read before is retired, if it still is in the table.
RetireSeen(t) ==
    /\ pc[t] = "retire"
    /\ IF Found(seen[t]) # None
       THEN Remove(seen[t]) /\ cnt' = [cnt EXCEPT ![t] = @ + 1]
       ELSE UNCHANGED <<slot, names, cnt, due>>
    /\ idx' = [idx EXCEPT ![t] = @ + 1]
    /\ pc' = [pc EXCEPT ![t] = "read"]
    /\ UNCHANGED <<slot_size, handle_index, handle, arg, ret, seen, registers, fault>>

\* Mutant: another pass is due though the last one retired nothing.
PassEndAgain(t) ==
    /\ pc[t] = "read"
    /\ idx[t] >= slot_size
    /\ pc' = [pc EXCEPT ![t] = "pass"]
    /\ UNCHANGED <<table, names, locals, registers, fault>>

\* The end of a pass: one that retired nothing is the last.
PassEnd(t) ==
    /\ pc[t] = "read"
    /\ idx[t] >= slot_size
    /\ pc' = [pc EXCEPT ![t] = IF cnt[t] = 0 THEN "done" ELSE "pass"]
    /\ UNCHANGED <<table, names, locals, registers, fault>>

-----------------------------------------------------------------------------
(* skynet_handle_findname and skynet_handle_namehandle                      *)

\* The binary search over s->name: the position of m, or where it belongs.
Search(m) ==
    LET look[p \in (0 .. Len(name)) \X (-1 .. Len(name) - 1)] ==
          LET b == p[1]
              e == p[2]
              mid == (b + e) \div 2
              r == name[mid + 1]
          IN  IF b > e THEN [found |-> FALSE, at |-> b]
              ELSE IF r.name = m THEN [found |-> TRUE, at |-> mid]
              ELSE IF r.name < m THEN look[<<mid + 1, e>>] ELSE look[<<b, mid - 1>>]
    IN  look[<<0, Len(name) - 1>>]

findname(m) ==
    LET s == Search(m) IN IF s.found THEN name[s.at + 1].handle ELSE 0

\* Mutant: the new name goes behind the place the search found.
InsertBehind(m, h, at) ==
    IF at < Len(name)
    THEN SubSeq(name, 1, at + 1) \o << [name |-> m, handle |-> h] >>
           \o SubSeq(name, at + 2, Len(name))
    ELSE Append(name, [name |-> m, handle |-> h])

\* _insert_name_before.
Insert(m, h, at) ==
    SubSeq(name, 1, at) \o << [name |-> m, handle |-> h] >>
      \o SubSeq(name, at + 1, Len(name))

\* REG and NAME.  h is any handle that was ever given out: a service that was
\* just killed may still be in the callback that names it.
NameHandle(h, m) ==
    /\ fault = "none"
    /\ ~ Search(m).found
    /\ name' = Insert(m, h, Search(m).at)
    /\ bound' = [bound EXCEPT ![m] = h]
    /\ UNCHANGED <<table, locals, pc, registers, fault>>

-----------------------------------------------------------------------------
Given == {handle[c] : c \in Context} \ {0}

AbortStep(t) ==
    (Pass(t) /\ pc[t] = "pass") \/ Read(t) \/ RetireSeen(t) \/ PassEnd(t)

Next ==
    \/ \E t \in Launcher, c \in Context :
         Register(t, c) \/ RegisterGrow(t, c) \/ RegisterFault(t, c)
    \/ \E t \in Launcher : StoreHandle(t)
    \/ \E t \in Aborter :
         Pass(t) \/ Read(t) \/ RetireSeen(t) \/ PassEnd(t)
    \/ \E h \in Given : Retire(h) \/ \E m \in Name : NameHandle(h, m)

Spec == Init /\ [][Next]_vars

\* Once called, retireall runs on; threads finish registering.
FairSpec ==
    /\ Spec
    /\ \A t \in Aborter : WF_vars(AbortStep(t))
    /\ \A t \in Launcher : WF_vars(StoreHandle(t))

-----------------------------------------------------------------------------
(* Properties                                                               *)

TypeOK ==
    /\ slot_size \in Nat \ {0}
    /\ slot \in [0 .. slot_size - 1 -> Context \cup {None}]
    /\ handle_index \in 1 .. HandleMask + 1
    /\ handle \in [Context -> 0 .. HandleMask]
    /\ pc \in [Thread -> {"idle", "store", "pass", "read", "retire", "done"}]
    /\ arg \in [Thread -> Context \cup {None}]
    /\ ret \in [Thread -> 0 .. HandleMask]
    /\ idx \in [Thread -> Nat]
    /\ cnt \in [Thread -> Nat]
    /\ seen \in [Thread -> 0 .. HandleMask]
    /\ due \in [Thread -> SUBSET (1 .. HandleMask)]
    /\ registers \in 0 .. MaxRegister
    /\ fault \in {"none", "handles_exhausted", "null_context", "slot_taken"}
    /\ bound \in [Name -> 0 .. HandleMask]

InTable == {slot[k] : k \in DOMAIN slot} \ {None}

\* A handle on its way into ctx->handle belongs to no other context, and its
\* slot still is the one taken for it.
PromiseKept ==
    \A t \in Launcher : pc[t] = "store" =>
        /\ slot[ret[t] % slot_size] = arg[t]
        /\ \A c \in InTable : handle[c] # ret[t]

\* A context in the table whose handle is stored is found under it, so no
\* other context has the same handle, and messages, KILL and ABORT reach it;
\* one whose handle is still to be stored will be: the growth of the table
\* loses and confuses nobody.
Reachable ==
    /\ TypeOK
    /\ PromiseKept
    /\ \A c \in InTable : handle[c] # 0 => Found(handle[c]) = c
    /\ \A j, k \in DOMAIN slot : slot[j] = slot[k] /\ slot[j] # None => j = k

\* assert(new_slot[hash] == NULL) in skynet_handle_register: when the table
\* grows, no two contexts fall into one slot.
NoSlotTaken == fault # "slot_taken"

\* The sorted array with its binary search is a map: findname returns the
\* handle a name was bound to, whatever was inserted and removed since.
NamesAreMap ==
    /\ name \in Seq([name : Name, handle : 1 .. HandleMask])
    /\ \A m \in Name : findname(m) = bound[m]

\* When skynet_handle_retireall returns, every handle that was valid when its
\* last pass began has been retired, although contexts come, go and move to
\* other slots while it runs.
AbortComplete == \A t \in Aborter : pc[t] = "done" => due[t] = {}

\* skynet_handle_retireall returns (launches are bounded), unless a failed
\* assertion stops the process.
AbortReturns == \A t \in Aborter : pc[t] = "read" ~> pc[t] = "done" \/ fault # "none"
=============================================================================
