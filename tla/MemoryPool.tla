----------------------------- MODULE MemoryPool -----------------------------
(***************************************************************************)
(* The slab pools of sai::memory (GpuPool and PinnedPool, which differ in  *)
(* the CUDA calls of construction only): Acquire and Release over the      *)
(* lock-free free list of free_list.h, reference counts shared by the      *)
(* PooledPtr handles of a slab, and the separate counter behind            *)
(* AvailableSlabCount.  One action per access to shared memory.            *)
(***************************************************************************)
EXTENDS Integers, Sequences, FiniteSets

CONSTANTS
    Slabs,        \* the nodes: Create builds one per slab
    InitialList,  \* the free list Create links: every slab once
    Handles,      \* PooledPtr objects of the program
    Users,        \* threads of the program
    Nil,          \* nullptr
    Word,         \* the number of values of std::size_t
    MaxTag        \* bound: head updates after which no Acquire starts

ASSUME PoolAssumption ==
    /\ InitialList \in Seq(Slabs)
    /\ \A s \in Slabs : \E i \in DOMAIN InitialList : InitialList[i] = s
    /\ \A i, j \in DOMAIN InitialList : InitialList[i] = InitialList[j] => i = j
    /\ Nil \notin Slabs /\ IsFiniteSet(Handles) /\ IsFiniteSet(Users)
    /\ Word \in Nat /\ Word > Len(InitialList)
    /\ MaxTag \in Nat

VARIABLES
    head,      \* free_list_head_: [ptr, tag]
    next,      \* Node::next
    ref,       \* Node::ref_count
    avail,     \* available_count_
    handle,    \* handle -> the slab it refers to, or Nil for an empty handle
    pc,        \* thread -> the next access of its call
    old,       \* thread -> old_head of its compare-exchange loop
    nxt,       \* thread -> old_head.pointer->next, as read for the exchange
    node,      \* thread -> the node it has popped or is about to push
    stack      \* history: the free list as a sequence, changed with head

vars == <<head, next, ref, avail, handle, pc, old, nxt, node, stack>>
listVars == <<head, next, stack>>
localVars == <<old, nxt, node>>

First(list) == IF list = <<>> THEN Nil ELSE list[1]

\* Create: the slabs chained in order, every reference count zero.
Init ==
    /\ stack = InitialList
    /\ head = [ptr |-> First(InitialList), tag |-> 0]
    /\ next = [s \in Slabs |->
                 LET i == CHOOSE i \in DOMAIN InitialList : InitialList[i] = s
                 IN  IF i = Len(InitialList) THEN Nil ELSE InitialList[i + 1]]
    /\ ref = [s \in Slabs |-> 0]
    /\ avail = Len(InitialList)
    /\ handle = [h \in Handles |-> Nil]
    /\ pc = [t \in Users |-> "idle"]
    /\ old = [t \in Users |-> [ptr |-> Nil, tag |-> 0]]
    /\ nxt = [t \in Users |-> Nil]
    /\ node = [t \in Users |-> Nil]

GoTo(t, label) == pc' = [pc EXCEPT ![t] = label]

-----------------------------------------------------------------------------
(* Acquire.  A request larger than a slab returns before it touches the     *)
(* pool.                                                                    *)

\* PopFreeList loads head; an empty list ends the call with PoolExhausted.
AcquireLoad(t) ==
    /\ pc[t] = "idle"
    /\ head.tag < MaxTag
    /\ head.ptr # Nil
    /\ old' = [old EXCEPT ![t] = head]
    /\ GoTo(t, "popNext")
    /\ UNCHANGED <<listVars, ref, avail, handle, nxt, node>>

\* The read of old_head.pointer->next: by now the node may have been popped and
\* be in use, or back on the list with another successor.
PopReadNext(t) ==
    /\ pc[t] = "popNext"
    /\ nxt' = [nxt EXCEPT ![t] = next[old[t].ptr]]
    /\ GoTo(t, "popCas")
    /\ UNCHANGED <<listVars, ref, avail, handle, old, node>>

\* Variant of PopCas: a head without a tag.
PopCasNoTag(t) ==
    /\ pc[t] = "popCas"
    /\ \/ /\ head.ptr = old[t].ptr
          /\ head' = [ptr |-> nxt[t], tag |-> head.tag + 1]
          /\ stack' = Tail(stack)
          /\ node' = [node EXCEPT ![t] = old[t].ptr]
          /\ GoTo(t, "sub")
          /\ UNCHANGED old
       \/ /\ head.ptr # old[t].ptr
          /\ old' = [old EXCEPT ![t] = head]
          /\ GoTo(t, IF head.ptr = Nil THEN "idle" ELSE "popNext")
          /\ UNCHANGED <<head, stack, node>>
    /\ UNCHANGED <<next, ref, avail, handle, nxt>>

\* compare_exchange_weak: pointer and tag must both match.  A failure, spurious
\* or not, reloads old_head and goes round the loop or finds the list empty.
PopCas(t) ==
    /\ pc[t] = "popCas"
    /\ \/ /\ head = old[t]
          /\ head' = [ptr |-> nxt[t], tag |-> head.tag + 1]
          /\ stack' = Tail(stack)
          /\ node' = [node EXCEPT ![t] = old[t].ptr]
          /\ GoTo(t, "sub")
          /\ UNCHANGED old
       \/ /\ old' = [old EXCEPT ![t] = head]
          /\ GoTo(t, IF head.ptr = Nil THEN "idle" ELSE "popNext")
          /\ UNCHANGED <<head, stack, node>>
    /\ UNCHANGED <<next, ref, avail, handle, nxt>>

\* available_count_.fetch_sub(1), in std::size_t arithmetic.
AcquireCount(t) ==
    /\ pc[t] = "sub"
    /\ avail' = (avail + Word - 1) % Word
    /\ GoTo(t, "setRef")
    /\ UNCHANGED <<listVars, ref, handle, localVars>>

\* ref_count.store(1), and the handle goes to the caller.
AcquireReturn(t, h) ==
    /\ pc[t] = "setRef"
    /\ handle[h] = Nil
    /\ ref' = [ref EXCEPT ![node[t]] = 1]
    /\ handle' = [handle EXCEPT ![h] = node[t]]
    /\ node' = [node EXCEPT ![t] = Nil]
    /\ GoTo(t, "idle")
    /\ UNCHANGED <<listVars, avail, old, nxt>>

-----------------------------------------------------------------------------
(* Handles                                                                  *)

\* Copy construction: the source handle stays alive while the count goes up.
CopyHandle(h, g) ==
    /\ handle[h] # Nil /\ handle[g] = Nil
    /\ ref' = [ref EXCEPT ![handle[h]] = @ + 1]
    /\ handle' = [handle EXCEPT ![g] = handle[h]]
    /\ UNCHANGED <<listVars, avail, pc, localVars>>

\* Move construction: the count does not change.
MoveHandle(h, g) ==
    /\ handle[h] # Nil /\ handle[g] = Nil
    /\ handle' = [handle EXCEPT ![g] = handle[h], ![h] = Nil]
    /\ UNCHANGED <<listVars, ref, avail, pc, localVars>>

\* Variant of DropReference: the last reference is recognised by a count of
\* zero read before the decrement.
DropReferenceLate(t, h) ==
    /\ pc[t] = "idle"
    /\ handle[h] # Nil
    /\ ref' = [ref EXCEPT ![handle[h]] = @ - 1]
    /\ handle' = [handle EXCEPT ![h] = Nil]
    /\ \/ /\ ref[handle[h]] <= 2
          /\ node' = [node EXCEPT ![t] = handle[h]]
          /\ GoTo(t, "pushLoad")
       \/ /\ ref[handle[h]] > 2
          /\ UNCHANGED <<node, pc>>
    /\ UNCHANGED <<listVars, avail, old, nxt>>

\* Release, or a handle's destructor or assignment, drops the reference with
\* fetch_sub and clears the handle; the last one goes on to push the slab.
DropReference(t, h) ==
    /\ pc[t] = "idle"
    /\ handle[h] # Nil
    /\ ref' = [ref EXCEPT ![handle[h]] = @ - 1]
    /\ handle' = [handle EXCEPT ![h] = Nil]
    /\ \/ /\ ref[handle[h]] = 1
          /\ node' = [node EXCEPT ![t] = handle[h]]
          /\ GoTo(t, "pushLoad")
       \/ /\ ref[handle[h]] # 1
          /\ UNCHANGED <<node, pc>>
    /\ UNCHANGED <<listVars, avail, old, nxt>>

-----------------------------------------------------------------------------
(* The second half of Release: PushFreeList and the counter                 *)

PushLoad(t) ==
    /\ pc[t] = "pushLoad"
    /\ old' = [old EXCEPT ![t] = head]
    /\ GoTo(t, "pushLink")
    /\ UNCHANGED <<listVars, ref, avail, handle, nxt, node>>

PushLink(t) ==
    /\ pc[t] = "pushLink"
    /\ next' = [next EXCEPT ![node[t]] = old[t].ptr]
    /\ GoTo(t, "pushCas")
    /\ UNCHANGED <<head, stack, ref, avail, handle, localVars>>

PushCas(t) ==
    /\ pc[t] = "pushCas"
    /\ \/ /\ head = old[t]
          /\ head' = [ptr |-> node[t], tag |-> head.tag + 1]
          /\ stack' = <<node[t]>> \o stack
          /\ node' = [node EXCEPT ![t] = Nil]
          /\ GoTo(t, "add")
          /\ UNCHANGED old
       \/ /\ old' = [old EXCEPT ![t] = head]
          /\ GoTo(t, "pushLink")
          /\ UNCHANGED <<head, stack, node>>
    /\ UNCHANGED <<next, ref, avail, handle, nxt>>

\* Variant of ReleaseCount: the counter is left alone.
ReleaseNoCount(t) ==
    /\ pc[t] = "add"
    /\ GoTo(t, "idle")
    /\ UNCHANGED <<listVars, ref, avail, handle, localVars>>

ReleaseCount(t) ==
    /\ pc[t] = "add"
    /\ avail' = (avail + 1) % Word
    /\ GoTo(t, "idle")
    /\ UNCHANGED <<listVars, ref, handle, localVars>>

-----------------------------------------------------------------------------
Step(t) == \/ AcquireLoad(t) \/ PopReadNext(t) \/ PopCas(t) \/ AcquireCount(t)
           \/ PushLoad(t) \/ PushLink(t) \/ PushCas(t) \/ ReleaseCount(t)
           \/ \E h \in Handles : AcquireReturn(t, h) \/ DropReference(t, h)

Next == \/ \E t \in Users : Step(t)
        \/ \E h, g \in Handles : CopyHandle(h, g) \/ MoveHandle(h, g)

Spec == Init /\ [][Next]_vars

-----------------------------------------------------------------------------
(* Properties                                                               *)

Ptr == Slabs \cup {Nil}

TypeOK ==
    /\ head \in [ptr : Ptr, tag : Nat]
    /\ next \in [Slabs -> Ptr]
    /\ ref \in [Slabs -> Int]
    /\ avail \in 0 .. Word - 1
    /\ handle \in [Handles -> Ptr]
    /\ pc \in [Users -> {"idle", "popNext", "popCas", "sub", "setRef",
                           "pushLoad", "pushLink", "pushCas", "add"}]
    /\ old \in [Users -> [ptr : Ptr, tag : Nat]]
    /\ nxt \in [Users -> Ptr]
    /\ node \in [Users -> Ptr]
    /\ stack \in Seq(Slabs)

OnList(s) == \E i \in DOMAIN stack : stack[i] = s
Held(s) == \E h \in Handles : handle[h] = s
InTransit(s) == \E t \in Users : node[t] = s

\* "a node is always either on the free list or held by some PooledPtr"
\* (gpu_pool.h:62), or on its way between the two in one thread's hands: never
\* in two of these places, never twice on the list, never lost.  In particular
\* no two Acquire calls hand out the same slab.
OnePlace ==
    /\ \A s \in Slabs : \/ OnList(s) /\ ~Held(s) /\ ~InTransit(s)
                        \/ ~OnList(s) /\ Held(s) /\ ~InTransit(s)
                        \/ ~OnList(s) /\ ~Held(s) /\ InTransit(s)
    /\ \A t, u \in Users : node[t] # Nil /\ node[t] = node[u] => t = u
    /\ \A i, j \in DOMAIN stack : stack[i] = stack[j] => i = j

\* The links agree with the list: head and every next pointer of a free slab
\* lead to the slab that is really below it, although a popping thread reads
\* next before it knows that the node is still on the list.
ListLinked ==
    /\ head.ptr = First(stack)
    /\ \A i \in DOMAIN stack :
          next[stack[i]] = IF i = Len(stack) THEN Nil ELSE stack[i + 1]

\* What a compare-exchange relies on: while head has not changed since a thread
\* loaded it, the successor the thread read is still the right one.
TagProtects ==
    \A t \in Users :
        /\ pc[t] \in {"popNext", "popCas", "pushLink", "pushCas"} => old[t].tag <= head.tag
        /\ pc[t] \in {"popNext", "popCas", "pushLink", "pushCas"} /\ old[t].tag = head.tag
              => old[t].ptr = head.ptr
        /\ pc[t] = "popCas" /\ old[t] = head => nxt[t] = next[head.ptr]
        /\ pc[t] \in {"popNext", "popCas"} => old[t].ptr # Nil
        /\ pc[t] = "pushCas" => next[node[t]] = old[t].ptr

NodeInv == \A t \in Users :
              node[t] # Nil <=> pc[t] \in {"sub", "setRef", "pushLoad", "pushLink", "pushCas"}

\* The free list, the links and the loops' locals fit together.
PoolInv == TypeOK /\ OnePlace /\ ListLinked /\ TagProtects /\ NodeInv

\* A slab's reference count is the number of handles that refer to it, so it
\* goes back to the pool when the last of them goes and not before.
RefCountsHandles ==
    \A s \in Slabs : Held(s) => ref[s] = Cardinality({h \in Handles : handle[h] = s})

\* AvailableSlabCount lags behind the list by exactly the calls between their
\* list operation and their counter operation.  (It can wrap around below zero
\* when an Acquire pops a slab whose Release has not counted it yet.)
AvailAccounting ==
    avail = (Len(stack) + Word
             + Cardinality({t \in Users : pc[t] = "sub"})
             - Cardinality({t \in Users : pc[t] = "add"})) % Word

\* The two counters of the pool: a slab goes back with its last handle, and
\* AvailableSlabCount, which is no part of the free list's exchanges, never
\* drifts from it.
SlabsAccounted == RefCountsHandles /\ AvailAccounting
=============================================================================
