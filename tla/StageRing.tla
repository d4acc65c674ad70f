----------------------------- MODULE StageRing -----------------------------
(***************************************************************************)
(* detail::RingBuffer<T> of include/sai/pipeline/stage_queue.h, one action *)
(* per access to shared memory: the loads and the compare-exchanges of     *)
(* head_, the load and the store of tail_, the move into and out of a      *)
(* slot.  A frame is the number of the TryPush that was accepted with it.  *)
(*                                                                         *)
(* Threads in Locked make their calls while holding StageQueue::mutex_     *)
(* (PushBlocking, PopBlockingWithStop ...); the others call TryPush or     *)
(* TryPop without it, as Pipeline::Drain does.                             *)
(*                                                                         *)
(* The accesses interleave sequentially consistently.  The orders in the   *)
(* code are weaker, but every slot is handed over through a release store  *)
(* and an acquire load of the same index.                                  *)
(***************************************************************************)
EXTENDS Integers, Sequences

CONSTANTS
    Capacity,      \* logical_capacity_
    Policy,        \* policy_: "Block", "DropOldest" or "Degrade"
    Producers,     \* threads that call TryPush
    Consumers,     \* threads that call TryPop
    Locked,        \* the threads that hold StageQueue::mutex_ across the call
    NoThread,      \* nobody: the mutex is free
    SpuriousCas,   \* compare_exchange_weak may fail though the value matches
    MaxPush        \* bound: frames accepted in a behaviour

Threads == Producers \cup Consumers

ASSUME ConstantsAssumption ==
    /\ Capacity \in Nat \ {0}
    /\ Policy \in {"Block", "DropOldest", "Degrade"}
    /\ Producers \cap Consumers = {}
    /\ Locked \subseteq Threads
    /\ NoThread \notin Threads
    /\ SpuriousCas \in BOOLEAN
    /\ MaxPush \in Nat

VARIABLES
    head, tail,    \* head_ and tail_
    buffer,        \* the Capacity + 1 slots; Null is a moved-from unique_ptr
    dropped,       \* dropped_count_
    mutex,         \* the thread that holds StageQueue::mutex_, or NoThread
    pc,            \* per thread, the next access of its call ("idle": no call)
    idx,           \* per thread, current_tail in TryPush and h in TryPop
    old,           \* per producer, h of the DropOldest branch
    dpc, dtail,    \* a Depth() call: "idle" or "head", and the t it loaded
    \* history
    pushed,        \* frames accepted: stores of tail_
    removed,       \* advances of head_
    rcvd,          \* frames TryPop returned, in order of return
    dpushed,       \* pushed when Depth() loaded tail_
    dzero          \* the value of dpushed of the last Depth() that returned 0

ringVars == <<head, tail, buffer, dropped>>
depthVars == <<dpc, dtail, dpushed, dzero>>
vars == <<ringVars, mutex, pc, idx, old, depthVars, pushed, removed, rcvd>>

Null == 0
Slots == 0 .. Capacity

\* (i + 1) % (logical_capacity_ + 1)
NextSlot(i) == (i + 1) % (Capacity + 1)

\* Variant of DepthOf: the wrap computed modulo the logical capacity.
DepthOfModCapacity(t, h) == (t + Capacity - h) % Capacity

\* The arithmetic of Depth(), on the indices it loaded.
DepthOf(t, h) == IF t >= h THEN t - h ELSE (Capacity + 1) - h + t

Init ==
    /\ head = 0 /\ tail = 0
    /\ buffer = [s \in Slots |-> Null]
    /\ dropped = 0
    /\ mutex = NoThread
    /\ pc = [t \in Threads |-> "idle"]
    /\ idx = [t \in Threads |-> 0]
    /\ old = [p \in Producers |-> 0]
    /\ dpc = "idle" /\ dtail = 0
    /\ pushed = 0 /\ removed = 0 /\ rcvd = <<>>
    /\ dpushed = 0 /\ dzero = 0

-----------------------------------------------------------------------------
(* The mutex around a call.                                                *)

\* mutex_ is locked for the call by the threads that lock it.
Enter(t) == /\ pc[t] = "idle"
            /\ t \in Locked => mutex = NoThread
            /\ mutex' = IF t \in Locked THEN t ELSE mutex

GoTo(t, label) == pc' = [pc EXCEPT ![t] = label]

Return(t) == /\ GoTo(t, "idle")
             /\ mutex' = IF t \in Locked THEN NoThread ELSE mutex

-----------------------------------------------------------------------------
(* TryPush                                                                 *)

PushLoadTail(p) ==
    /\ pushed < MaxPush
    /\ Enter(p)
    /\ idx' = [idx EXCEPT ![p] = tail]
    /\ GoTo(p, "loadHead")
    /\ UNCHANGED <<ringVars, old, depthVars, pushed, removed, rcvd>>

\* Variant of PushLoadHead: no full test.
PushLoadHeadNoTest(p) ==
    /\ pc[p] = "loadHead"
    /\ GoTo(p, "write")
    /\ UNCHANGED <<ringVars, mutex, idx, old, depthVars, pushed, removed, rcvd>>

\* The full test.  Block and Degrade return false; DropOldest makes room.
PushLoadHead(p) ==
    /\ pc[p] = "loadHead"
    /\ \/ /\ NextSlot(idx[p]) # head
          /\ GoTo(p, "write")
          /\ UNCHANGED mutex
       \/ /\ NextSlot(idx[p]) = head
          /\ Policy = "DropOldest"
          /\ GoTo(p, "reload")
          /\ UNCHANGED mutex
       \/ /\ NextSlot(idx[p]) = head
          /\ Policy # "DropOldest"
          /\ Return(p)
    /\ UNCHANGED <<ringVars, idx, old, depthVars, pushed, removed, rcvd>>

PushReload(p) ==
    /\ pc[p] = "reload"
    /\ old' = [old EXCEPT ![p] = head]
    /\ GoTo(p, "drop")
    /\ UNCHANGED <<ringVars, mutex, idx, depthVars, pushed, removed, rcvd>>

\* Variant of PushDrop: no drop, the compare-exchange is left out.
PushDropNothing(p) ==
    /\ pc[p] = "drop"
    /\ GoTo(p, "write")
    /\ UNCHANGED <<ringVars, mutex, idx, old, depthVars, pushed, removed, rcvd>>

\* compare_exchange_weak on head_: whatever it returns, the frame is written.
PushDrop(p) ==
    /\ pc[p] = "drop"
    /\ \/ /\ head = old[p]
          /\ head' = NextSlot(head)
          /\ dropped' = dropped + 1
          /\ removed' = removed + 1
       \/ /\ head # old[p] \/ SpuriousCas
          /\ UNCHANGED <<head, dropped, removed>>
    /\ GoTo(p, "write")
    /\ UNCHANGED <<tail, buffer, mutex, idx, old, depthVars, pushed, rcvd>>

PushWrite(p) ==
    /\ pc[p] = "write"
    /\ buffer' = [buffer EXCEPT ![idx[p]] = pushed + 1]
    /\ GoTo(p, "store")
    /\ UNCHANGED <<head, tail, dropped, mutex, idx, old, depthVars, pushed, removed, rcvd>>

PushStore(p) ==
    /\ pc[p] = "store"
    /\ tail' = NextSlot(idx[p])
    /\ pushed' = pushed + 1
    /\ Return(p)
    /\ UNCHANGED <<head, buffer, dropped, idx, old, depthVars, removed, rcvd>>

-----------------------------------------------------------------------------
(* TryPop                                                                  *)

PopLoadHead(c) ==
    /\ Enter(c)
    /\ idx' = [idx EXCEPT ![c] = head]
    /\ GoTo(c, "loadTail")
    /\ UNCHANGED <<ringVars, old, depthVars, pushed, removed, rcvd>>

\* The empty test; on empty, return nullptr.
PopLoadTail(c) ==
    /\ pc[c] = "loadTail"
    /\ \/ /\ idx[c] = tail
          /\ Return(c)
       \/ /\ idx[c] # tail
          /\ GoTo(c, "cas")
          /\ UNCHANGED mutex
    /\ UNCHANGED <<ringVars, idx, old, depthVars, pushed, removed, rcvd>>

\* A failed compare-exchange reloads h and goes round the loop.
PopCas(c) ==
    /\ pc[c] = "cas"
    /\ \/ /\ head = idx[c]
          /\ head' = NextSlot(head)
          /\ removed' = removed + 1
          /\ GoTo(c, "move")
          /\ UNCHANGED idx
       \/ /\ head # idx[c] \/ SpuriousCas
          /\ idx' = [idx EXCEPT ![c] = head]
          /\ GoTo(c, "loadTail")
          /\ UNCHANGED <<head, removed>>
    /\ UNCHANGED <<tail, buffer, dropped, mutex, old, depthVars, pushed, rcvd>>

PopMove(c) ==
    /\ pc[c] = "move"
    /\ rcvd' = Append(rcvd, buffer[idx[c]])
    /\ buffer' = [buffer EXCEPT ![idx[c]] = Null]
    /\ Return(c)
    /\ UNCHANGED <<head, tail, dropped, idx, old, depthVars, pushed, removed>>

-----------------------------------------------------------------------------
(* Depth(): tail_ first, then head_, without the mutex.                    *)

DepthLoadTail ==
    /\ dpc = "idle"
    /\ dtail' = tail
    /\ dpushed' = pushed
    /\ dpc' = "head"
    /\ UNCHANGED <<ringVars, mutex, pc, idx, old, pushed, removed, rcvd, dzero>>

DepthLoadHead ==
    /\ dpc = "head"
    /\ dzero' = IF DepthOf(dtail, head) = 0 THEN dpushed ELSE dzero
    /\ dpc' = "idle"
    /\ UNCHANGED <<ringVars, mutex, pc, idx, old, dtail, dpushed, pushed, removed, rcvd>>

-----------------------------------------------------------------------------
\* Room is found at once, or made by dropping the oldest frame.
FindRoom(p) == /\ pc[p] \in {"loadHead", "reload", "drop"}
               /\ PushLoadHead(p) \/ PushReload(p) \/ PushDrop(p)

Push(p) == PushLoadTail(p) \/ FindRoom(p) \/ PushWrite(p) \/ PushStore(p)

Pop(c) == PopLoadHead(c) \/ PopLoadTail(c) \/ PopCas(c) \/ PopMove(c)

Next == \/ \E p \in Producers : Push(p)
        \/ \E c \in Consumers : Pop(c)
        \/ DepthLoadTail
        \/ DepthLoadHead

Spec == Init /\ [][Next]_vars

-----------------------------------------------------------------------------
(* Properties                                                              *)

TypeOK ==
    /\ head \in Slots /\ tail \in Slots
    /\ buffer \in [Slots -> Nat]
    /\ dropped \in Nat
    /\ mutex \in Threads \cup {NoThread}
    /\ pc \in [Threads -> {"idle", "loadHead", "reload", "drop", "write", "store",
                           "loadTail", "cas", "move"}]
    /\ idx \in [Threads -> Slots]
    /\ old \in [Producers -> Slots]
    /\ dpc \in {"idle", "head"} /\ dtail \in Slots
    /\ pushed \in Nat /\ removed \in Nat
    /\ rcvd \in Seq(Nat)
    /\ dpushed \in Nat /\ dzero \in Nat

\* No thread moves a frame into a slot while another thread is still moving a
\* frame out of it or into it: the unique_ptr of a slot is never touched by two
\* threads at once, although TryPop reads the slot after it has advanced head_.
NoSlotRace ==
    \A t, u \in Threads :
        /\ t # u
        /\ pc[t] \in {"write", "store"}
        /\ pc[u] \in {"write", "store", "move"}
        => idx[t] # idx[u]

\* TryPush never assigns over a slot that still owns a frame: that frame would
\* be destroyed without being delivered or counted in dropped_count_.
NoFrameOverwritten ==
    \A p \in Producers : pc[p] = "write" => buffer[idx[p]] = Null

\* TryPop returns the accepted frames in order, each once, and never the null
\* of a slot somebody else emptied.
FifoDelivery == \A i \in DOMAIN rcvd : rcvd[i] = i

\* Depth() is not a snapshot: head_ may have caught up with a tail_ that has
\* moved on.  Still, when it returns 0, every frame that had been accepted when
\* the call began has left the ring; Pipeline::Drain relies on this.
EmptyReadMeansServed == dzero <= removed

-----------------------------------------------------------------------------
(* The inductive invariant behind the three properties above, for a ring    *)
(* whose two sides are each exclusive.                                      *)

\* The header's obligation on callers: at most one thread per side, or a mutex
\* around that side; and no second writer of head_.
ExclusiveSides ==
    /\ Policy # "DropOldest"
    /\ \A t, u \in Producers : t # u => {t, u} \subseteq Locked
    /\ \A t, u \in Consumers : t # u => {t, u} \subseteq Locked

PcInv ==
    /\ \A p \in Producers : pc[p] \in {"idle", "loadHead", "write", "store"}
    /\ \A c \in Consumers : pc[c] \in {"idle", "loadTail", "cas", "move"}

MutexInv == \A t \in Locked : pc[t] # "idle" <=> mutex = t

\* What the locals of a call in progress know about the shared indices.
IndexInv ==
    /\ \A p \in Producers : pc[p] # "idle" => idx[p] = tail
    /\ \A p \in Producers : pc[p] \in {"write", "store"} => NextSlot(tail) # head
    /\ \A c \in Consumers : pc[c] \in {"loadTail", "cas"} => idx[c] = head
    /\ \A c \in Consumers : pc[c] = "cas" => head # tail
    /\ \A c \in Consumers : pc[c] = "move" => NextSlot(idx[c]) = head

CountInv == pushed = removed + DepthOf(tail, head)

\* The slot s is the k-th from head_, k = DepthOf(s, head): a live slot holds
\* the frame of that rank, the slot of a call in progress its frame.
LiveInv ==
    /\ \A s \in Slots : DepthOf(s, head) < DepthOf(tail, head)
                          => buffer[s] = removed + DepthOf(s, head) + 1
    /\ \A c \in Consumers : pc[c] = "move" => buffer[idx[c]] = removed
    /\ \A p \in Producers : pc[p] = "store" => buffer[tail] = pushed + 1

\* Any other slot is empty.
BufferInv ==
    /\ LiveInv
    /\ \A s \in Slots :
          /\ DepthOf(s, head) >= DepthOf(tail, head)
          /\ \A c \in Consumers : pc[c] = "move" => idx[c] # s
          /\ \A p \in Producers : pc[p] = "store" => tail # s
          => buffer[s] = Null

HandInv ==
    /\ \A c \in Consumers : pc[c] = "move" => removed = Len(rcvd) + 1
    /\ (\A c \in Consumers : pc[c] # "move") => removed = Len(rcvd)

DepthInv ==
    /\ dzero <= removed
    /\ dpc = "head" => /\ dpushed <= pushed
                       /\ removed <= dpushed => dpushed = removed + DepthOf(dtail, head)

\* Everything a step of the ring relies on: the locals agree with the shared
\* indices, the counters with the occupancy, and each slot with its rank.
RingInv == /\ TypeOK /\ PcInv /\ MutexInv /\ IndexInv /\ CountInv
           /\ BufferInv /\ HandInv /\ FifoDelivery /\ DepthInv

-----------------------------------------------------------------------------
(* The inductive invariant of a ring whose calls all hold mutex_, frames    *)
(* dropped or not.                                                          *)

\* One call at a time, with a compare-exchange that does drop the frame: one
\* that fails on a matching value leaves TryPush no room to write.
OneCallAtATime == /\ Threads \subseteq Locked
                  /\ Policy = "DropOldest" => ~ SpuriousCas

\* A producer that found the ring full reads the head_ it is about to advance,
\* and has room when it writes.
LockedIndexInv ==
    /\ \A p \in Producers : pc[p] \notin {"loadTail", "cas", "move"}
    /\ \A c \in Consumers : pc[c] \in {"idle", "loadTail", "cas", "move"}
    /\ \A p \in Producers : pc[p] # "idle" => idx[p] = tail
    /\ \A p \in Producers : pc[p] \in {"reload", "drop"} => /\ Policy = "DropOldest"
                                                             /\ NextSlot(tail) = head
    /\ \A p \in Producers : pc[p] = "drop" => old[p] = head
    /\ \A p \in Producers : pc[p] \in {"write", "store"} => NextSlot(tail) # head
    /\ \A c \in Consumers : pc[c] \in {"loadTail", "cas"} => idx[c] = head
    /\ \A c \in Consumers : pc[c] = "cas" => head # tail

\* dropped_count_ accounts for every frame that left the ring and was not
\* delivered.
AccountInv ==
    /\ \A c \in Consumers : pc[c] = "move" => removed = Len(rcvd) + dropped + 1
    /\ (\A c \in Consumers : pc[c] # "move") => removed = Len(rcvd) + dropped

LockedInv == /\ TypeOK /\ MutexInv /\ LockedIndexInv /\ CountInv
             /\ LiveInv /\ AccountInv /\ DepthInv

-----------------------------------------------------------------------------
\* DropOldest, stage_queue.h:46-47 and :55: "we have space either way", "Now we
\* have space - write at tail".  When TryPush is about to write, advancing
\* tail_ does not make it collide with head_.
SpaceBeforeWrite ==
    \A p \in Producers : pc[p] \in {"write", "store"} => NextSlot(idx[p]) # head

(* The ring implements the bounded FIFO.  A pop takes effect when head_     *)
(* advances, a push when tail_ does.                                        *)
Contents == [i \in 1 .. DepthOf(tail, head) |-> buffer[(head + i - 1) % (Capacity + 1)]]

InHand == LET movers == {c \in Consumers : pc[c] = "move"}
          IN  IF movers = {} THEN <<>>
              ELSE <<buffer[idx[CHOOSE c \in movers : TRUE]]>>

Fifo == INSTANCE BoundedFifo WITH queue <- Contents,
                                  taken <- rcvd \o InHand,
                                  discarded <- dropped,
                                  MayDrop <- Policy = "DropOldest"

\* Every step of the ring is a step of the bounded FIFO queue, or changes
\* nothing in it.
RefinesFifo == Fifo!Spec
=============================================================================
