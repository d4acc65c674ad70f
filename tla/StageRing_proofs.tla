-------------------------- MODULE StageRing_proofs --------------------------
(***************************************************************************)
(* Proofs about StageRing for every capacity, every number of threads and  *)
(* every number of frames, when each side of the ring is exclusive.        *)
(***************************************************************************)
EXTENDS StageRing, TLAPS

USE ConstantsAssumption DEF Threads

-----------------------------------------------------------------------------
(* Arithmetic of the slots, without the remainder.                         *)

\* The successor of a slot, by cases instead of by remainder.
LEMMA NextSlotCases ==
    \A i \in Slots : /\ NextSlot(i) \in Slots
                     /\ NextSlot(i) = IF i = Capacity THEN 0 ELSE i + 1
  BY DEF NextSlot, Slots

\* The distance from one slot to another stays below the number of slots.
LEMMA DepthRange ==
    \A t, h \in Slots : DepthOf(t, h) \in 0 .. Capacity
  BY DEF DepthOf, Slots

\* At most one call is in progress on an exclusive side.
LEMMA OneCallPerSide ==
    ASSUME ExclusiveSides, MutexInv
    PROVE  /\ \A t, u \in Producers : pc[t] # "idle" /\ pc[u] # "idle" => t = u
           /\ \A t, u \in Consumers : pc[t] # "idle" /\ pc[u] # "idle" => t = u
  BY DEF ExclusiveSides, MutexInv

\* Entering TryPush: the loaded index is tail_, which nobody else writes.
LEMMA PushLoadTailInv ==
    ASSUME ExclusiveSides, RingInv, NEW p \in Producers, PushLoadTail(p)
    PROVE  RingInv'
<1> USE DEF RingInv, PushLoadTail, Enter, GoTo, ringVars, depthVars
<1>1. TypeOK'
  BY DEF TypeOK
<1>2. PcInv'
  BY DEF TypeOK, PcInv
<1>3. MutexInv'
  BY DEF TypeOK, MutexInv
<1>4. IndexInv'
  BY DEF TypeOK, PcInv, IndexInv
<1>5. CountInv'
  BY DEF CountInv
<1>6. BufferInv'
  BY DEF TypeOK, PcInv, BufferInv, LiveInv
<1>7. HandInv'
  BY DEF TypeOK, HandInv
<1>8. FifoDelivery'
  BY DEF FifoDelivery
<1>9. DepthInv'
  BY DEF DepthInv
<1> QED BY <1>1, <1>2, <1>3, <1>4, <1>5, <1>6, <1>7, <1>8, <1>9

\* The full test: a call that goes on to write has found room.
LEMMA PushLoadHeadInv ==
    ASSUME ExclusiveSides, RingInv, NEW p \in Producers, PushLoadHead(p)
    PROVE  RingInv'
<1> USE DEF RingInv, ringVars, depthVars
<1>0. /\ pc[p] = "loadHead" /\ p \notin Consumers
      /\ \/ /\ NextSlot(idx[p]) # head
            /\ pc' = [pc EXCEPT ![p] = "write"]
            /\ mutex' = mutex
         \/ /\ pc' = [pc EXCEPT ![p] = "idle"]
            /\ mutex' = IF p \in Locked THEN NoThread ELSE mutex
      /\ UNCHANGED <<ringVars, idx, old, depthVars, pushed, removed, rcvd>>
  BY DEF PushLoadHead, Return, GoTo, ExclusiveSides
<1>1. TypeOK'
  BY <1>0 DEF TypeOK
<1>2. PcInv'
  BY <1>0 DEF TypeOK, PcInv
<1>3. MutexInv'
  BY <1>0, SMTT(60) DEF TypeOK, MutexInv
<1>4. IndexInv'
  BY <1>0, SMTT(60) DEF TypeOK, PcInv, IndexInv
<1>5. CountInv'
  BY <1>0 DEF CountInv
<1>6. BufferInv'
  BY <1>0, ZenonT(60) DEF TypeOK, PcInv, BufferInv, LiveInv
<1>7. HandInv'
  BY <1>0, SMTT(60) DEF TypeOK, HandInv
<1>8. FifoDelivery'
  BY <1>0 DEF FifoDelivery
<1>9. DepthInv'
  BY <1>0 DEF DepthInv
<1> QED BY <1>1, <1>2, <1>3, <1>4, <1>5, <1>6, <1>7, <1>8, <1>9

\* The write goes to the slot at tail_, which no other call uses.
LEMMA PushWriteInv ==
    ASSUME ExclusiveSides, RingInv, NEW p \in Producers, PushWrite(p)
    PROVE  RingInv'
<1> USE DEF RingInv, PushWrite, GoTo, depthVars
<1>1. TypeOK'
  BY DEF TypeOK
<1>2. PcInv'
  BY DEF TypeOK, PcInv
<1>3. MutexInv'
  BY DEF TypeOK, MutexInv
<1>4. IndexInv'
  BY DEF TypeOK, IndexInv
<1>5. CountInv'
  BY DEF CountInv
<1>6. BufferInv'
  <2>1. idx[p] = tail /\ tail \in Slots /\ p \notin Consumers
    BY DEF TypeOK, IndexInv
  <2>2. \A c \in Consumers : pc[c] = "move" => idx[c] # tail
    BY DEF IndexInv
  <2>3. ~ DepthOf(tail, head) < DepthOf(tail, head)
    <3>1. DepthOf(tail, head) \in 0 .. Capacity
      BY DepthRange DEF TypeOK
    <3> QED BY <3>1
  <2>4. buffer' = [buffer EXCEPT ![tail] = pushed + 1] /\ pc' = [pc EXCEPT ![p] = "store"]
    BY <2>1
  <2> QED BY <2>1, <2>2, <2>3, <2>4 DEF TypeOK, PcInv, BufferInv, LiveInv
<1>7. HandInv'
  BY DEF TypeOK, HandInv
<1>8. FifoDelivery'
  BY DEF FifoDelivery
<1>9. DepthInv'
  BY DEF DepthInv
<1> QED BY <1>1, <1>2, <1>3, <1>4, <1>5, <1>6, <1>7, <1>8, <1>9

\* Publishing the frame: the slot at tail_ becomes the last live slot.
LEMMA PushStoreInv ==
    ASSUME ExclusiveSides, RingInv, NEW p \in Producers, PushStore(p)
    PROVE  RingInv'
<1> USE DEF RingInv, PushStore, Return, GoTo, depthVars
<1>0. /\ idx[p] = tail /\ tail' = NextSlot(tail) /\ head' = head
      /\ tail \in Slots /\ head \in Slots /\ NextSlot(tail) \in Slots
      /\ NextSlot(tail) # head
  BY NextSlotCases DEF TypeOK, IndexInv
<1>a. DepthOf(NextSlot(tail), head) = DepthOf(tail, head) + 1
  BY <1>0, NextSlotCases DEF DepthOf, Slots
<1>1. TypeOK'
  BY <1>0 DEF TypeOK
<1>2. PcInv'
  BY DEF TypeOK, PcInv
<1>3. MutexInv'
  BY DEF TypeOK, MutexInv
<1>4. IndexInv'
  <2>1. /\ pc[p] = "store" /\ pc'[p] = "idle" /\ idx' = idx
        /\ \A t \in Producers \cup Consumers : t # p => pc'[t] = pc[t]
    BY DEF TypeOK, Threads
  <2>2. \A q \in Producers : q # p => pc'[q] = "idle"
    BY <2>1, OneCallPerSide
  <2>3. \A c \in Consumers : pc'[c] = pc[c] \/ pc'[c] = "idle"
    BY <2>1
  <2>4. \A c \in Consumers : pc[c] = "cas" => head # tail'
    BY <1>0
  <2> QED BY <1>0, <2>1, <2>2, <2>3, <2>4 DEF IndexInv
<1>5. CountInv'
  <2>1. DepthOf(tail, head) \in Nat /\ pushed' = pushed + 1 /\ removed' = removed
    BY <1>0, DepthRange
  <2>2. removed \in Nat /\ pushed \in Nat /\ pushed = removed + DepthOf(tail, head)
    BY DEF TypeOK, CountInv
  <2>3. DepthOf(tail', head') = DepthOf(tail, head) + 1
    BY <1>0, <1>a
  <2> QED BY <2>1, <2>2, <2>3 DEF CountInv
<1>6. BufferInv'
  <2>1. \A s \in Slots : /\ DepthOf(s, head) \in 0 .. Capacity
                         /\ DepthOf(s, head) = DepthOf(tail, head) => s = tail
    BY <1>0 DEF DepthOf, Slots
  <2>2. buffer[tail] = pushed + 1 /\ pushed = removed + DepthOf(tail, head)
    BY DEF CountInv, BufferInv, LiveInv
  <2>3. \A q \in Producers : pc[q] = "store" => q = p
    BY OneCallPerSide
  <2>4. /\ pc' = [pc EXCEPT ![p] = "idle"] /\ p \notin Consumers
        /\ UNCHANGED <<buffer, idx, head, removed>> /\ pushed' = pushed + 1
    OBVIOUS
  <2>5. DepthOf(tail, head) \in 0 .. Capacity /\ removed \in Nat
    BY <2>1, <1>0 DEF TypeOK
  <2>6. \A s \in Slots : DepthOf(s, head) < DepthOf(tail, head) + 1
                         => buffer[s] = removed + DepthOf(s, head) + 1
    BY <2>1, <2>2, <2>5 DEF BufferInv, LiveInv
  <2>7. \A s \in Slots :
          /\ DepthOf(s, head) >= DepthOf(tail, head) + 1
          /\ \A c \in Consumers : pc[c] = "move" => idx[c] # s
          => buffer[s] = Null
    <3> SUFFICES ASSUME NEW s \in Slots, DepthOf(s, head) >= DepthOf(tail, head) + 1,
                        \A c \in Consumers : pc[c] = "move" => idx[c] # s
                 PROVE  buffer[s] = Null
      OBVIOUS
    <3>1. s # tail /\ DepthOf(s, head) >= DepthOf(tail, head)
      BY <2>1, <2>5
    <3> QED BY <3>1 DEF BufferInv, LiveInv
  <2> QED BY <2>3, <2>4, <2>6, <2>7, <1>0, <1>a DEF TypeOK, PcInv, BufferInv, LiveInv
<1>7. HandInv'
  BY DEF TypeOK, HandInv
<1>8. FifoDelivery'
  BY DEF FifoDelivery
<1>9. DepthInv'
  BY DEF TypeOK, DepthInv
<1> QED BY <1>1, <1>2, <1>3, <1>4, <1>5, <1>6, <1>7, <1>8, <1>9

\* Entering TryPop: only this call advances head_.
LEMMA PopLoadHeadInv ==
    ASSUME ExclusiveSides, RingInv, NEW c \in Consumers, PopLoadHead(c)
    PROVE  RingInv'
<1> USE DEF RingInv, PopLoadHead, Enter, GoTo, ringVars, depthVars
<1>1. TypeOK'
  BY DEF TypeOK
<1>2. PcInv'
  BY DEF TypeOK, PcInv
<1>3. MutexInv'
  BY DEF TypeOK, MutexInv
<1>4. IndexInv'
  BY DEF TypeOK, PcInv, IndexInv
<1>5. CountInv'
  BY DEF CountInv
<1>6. BufferInv'
  BY DEF TypeOK, PcInv, BufferInv, LiveInv
<1>7. HandInv'
  BY DEF TypeOK, HandInv
<1>8. FifoDelivery'
  BY DEF FifoDelivery
<1>9. DepthInv'
  BY DEF DepthInv
<1> QED BY <1>1, <1>2, <1>3, <1>4, <1>5, <1>6, <1>7, <1>8, <1>9

\* The empty test: a call that goes on has found a frame at head_.
LEMMA PopLoadTailInv ==
    ASSUME ExclusiveSides, RingInv, NEW c \in Consumers, PopLoadTail(c)
    PROVE  RingInv'
<1> USE DEF RingInv, PopLoadTail, Return, GoTo, ringVars, depthVars
<1>1. TypeOK'
  BY DEF TypeOK
<1>2. PcInv'
  BY DEF TypeOK, PcInv
<1>3. MutexInv'
  BY DEF TypeOK, MutexInv
<1>4. IndexInv'
  BY DEF TypeOK, PcInv, IndexInv
<1>5. CountInv'
  BY DEF CountInv
<1>6. BufferInv'
  BY ZenonT(60) DEF TypeOK, PcInv, BufferInv, LiveInv
<1>7. HandInv'
  BY DEF TypeOK, HandInv
<1>8. FifoDelivery'
  BY DEF FifoDelivery
<1>9. DepthInv'
  BY DEF DepthInv
<1> QED BY <1>1, <1>2, <1>3, <1>4, <1>5, <1>6, <1>7, <1>8, <1>9

\* Advancing head_: the first live slot becomes the slot in hand.
LEMMA PopCasInv ==
    ASSUME ExclusiveSides, RingInv, NEW c \in Consumers, PopCas(c)
    PROVE  RingInv'
<1> USE DEF RingInv, depthVars
<1>0. /\ c \notin Producers /\ pc[c] = "cas" /\ idx[c] = head /\ head # tail
      /\ tail \in Slots /\ head \in Slots /\ NextSlot(head) \in Slots
      /\ \/ /\ head' = NextSlot(head) /\ removed' = removed + 1 /\ idx' = idx
            /\ pc' = [pc EXCEPT ![c] = "move"]
         \/ /\ head' = head /\ removed' = removed
            /\ idx' = [idx EXCEPT ![c] = head]
            /\ pc' = [pc EXCEPT ![c] = "loadTail"]
      /\ UNCHANGED <<tail, buffer, dropped, mutex, old, depthVars, pushed, rcvd>>
  BY NextSlotCases DEF TypeOK, IndexInv, PopCas, GoTo
<1>a. \A s \in Slots : /\ DepthOf(s, head) \in 0 .. Capacity
                       /\ DepthOf(s, head) = 0 <=> s = head
                       /\ s # head => DepthOf(s, NextSlot(head)) = DepthOf(s, head) - 1
  BY <1>0, NextSlotCases DEF DepthOf, Slots
<1>b. DepthOf(head, NextSlot(head)) = Capacity
  BY <1>0, NextSlotCases DEF DepthOf, Slots
<1>1. TypeOK'
  <2>1. head' \in Slots /\ removed' \in Nat
    BY <1>0 DEF TypeOK
  <2>2. idx' \in [Threads -> Slots]
    BY <1>0 DEF TypeOK
  <2>3. pc' \in [Threads -> {"idle", "loadHead", "reload", "drop", "write", "store",
                           "loadTail", "cas", "move"}]
    BY <1>0 DEF TypeOK
  <2> QED BY <1>0, <2>1, <2>2, <2>3 DEF TypeOK
<1>2. PcInv'
  BY <1>0 DEF TypeOK, PcInv
<1>3. MutexInv'
  BY <1>0, SMTT(60) DEF TypeOK, MutexInv
<1>4. IndexInv'
  <2>1. \A d \in Consumers : pc[d] # "idle" => d = c
    BY <1>0, OneCallPerSide DEF PopCas
  <2>2. CASE head' = head /\ pc' = [pc EXCEPT ![c] = "loadTail"] /\ idx' = [idx EXCEPT ![c] = head]
    BY <1>0, <2>2 DEF TypeOK, PcInv, IndexInv
  <2>3. CASE head' = NextSlot(head) /\ pc' = [pc EXCEPT ![c] = "move"] /\ idx' = idx
    <3>1. NextSlot(tail) # NextSlot(head)
      BY <1>0, NextSlotCases DEF Slots
    <3> QED BY <1>0, <2>1, <2>3, <3>1 DEF TypeOK, PcInv, IndexInv
  <2> QED BY <1>0, <2>2, <2>3
<1>5. CountInv'
  BY <1>0, <1>a, SMTT(60) DEF TypeOK, CountInv
<1>6. BufferInv'
  <2>1. CASE head' = head /\ pc' = [pc EXCEPT ![c] = "loadTail"] /\ idx' = [idx EXCEPT ![c] = head]
    BY <1>0, <2>1, ZenonT(60) DEF TypeOK, PcInv, BufferInv, LiveInv, PopCas
  <2>2. CASE /\ head' = NextSlot(head) /\ removed' = removed + 1 /\ idx' = idx
             /\ pc' = [pc EXCEPT ![c] = "move"]
    <3>1. \A d \in Consumers : pc'[d] = "move" => d = c
      BY <1>0, <2>2, OneCallPerSide DEF TypeOK, PopCas
    <3>2. /\ DepthOf(tail, head) \in 1 .. Capacity /\ removed \in Nat
          /\ DepthOf(tail, head') = DepthOf(tail, head) - 1
      BY <1>0, <1>a, <2>2, SMTT(60) DEF TypeOK
    <3>3. buffer[head] = removed + 1
      <4>1. DepthOf(head, head) = 0
        BY <1>0 DEF DepthOf, Slots
      <4> QED BY <1>0, <3>2, <4>1 DEF BufferInv, LiveInv
    <3>4. \A s \in Slots : DepthOf(s, head') < DepthOf(tail, head')
                           => buffer[s] = removed' + DepthOf(s, head') + 1
      <4> SUFFICES ASSUME NEW s \in Slots, DepthOf(s, head') < DepthOf(tail, head')
                   PROVE  buffer[s] = removed' + DepthOf(s, head') + 1
        OBVIOUS
      <4>1. s # head
        BY <1>0, <1>b, <2>2, <3>2
      <4>2. DepthOf(s, head') = DepthOf(s, head) - 1 /\ DepthOf(s, head) \in 0 .. Capacity
        BY <1>a, <2>2, <4>1
      <4> QED BY <2>2, <3>2, <4>2 DEF BufferInv, LiveInv
    <3>5. \A s \in Slots : /\ DepthOf(s, head') >= DepthOf(tail, head')
                           /\ s # head
                           /\ \A p \in Producers : pc[p] = "store" => tail # s
                           => buffer[s] = Null
      <4> SUFFICES ASSUME NEW s \in Slots, DepthOf(s, head') >= DepthOf(tail, head'), s # head,
                          \A p \in Producers : pc[p] = "store" => tail # s
                   PROVE  buffer[s] = Null
        OBVIOUS
      <4>1. DepthOf(s, head') = DepthOf(s, head) - 1 /\ DepthOf(s, head) \in 0 .. Capacity
        BY <1>a, <2>2
      <4>2. DepthOf(s, head) >= DepthOf(tail, head)
        BY <3>2, <4>1
      <4>3. \A d \in Consumers : pc[d] # "move"
        BY OneCallPerSide DEF PopCas
      <4> QED BY <4>2, <4>3 DEF BufferInv, LiveInv
    <3> QED BY <1>0, <2>2, <3>1, <3>3, <3>4, <3>5 DEF TypeOK, PcInv, BufferInv, LiveInv
  <2> QED BY <1>0, <2>1, <2>2
<1>7. HandInv'
  BY <1>0, OneCallPerSide, ZenonT(60) DEF TypeOK, PcInv, HandInv, PopCas
<1>8. FifoDelivery'
  BY <1>0 DEF FifoDelivery
<1>9. DepthInv'
  <2>1. /\ dtail \in Slots /\ removed \in Nat /\ dpushed \in Nat /\ dzero \in Nat
        /\ dpc' = dpc /\ dtail' = dtail /\ dpushed' = dpushed /\ dzero' = dzero /\ pushed' = pushed
    BY <1>0 DEF TypeOK
  <2>2. DepthOf(dtail, head) \in Nat /\ (DepthOf(dtail, head) = 0 <=> dtail = head)
        /\ (dtail # head => DepthOf(dtail, NextSlot(head)) = DepthOf(dtail, head) - 1)
    BY <2>1, <1>a
  <2>3. CASE head' = head /\ removed' = removed
    BY <2>1, <2>3 DEF DepthInv
  <2>4. CASE head' = NextSlot(head) /\ removed' = removed + 1
    BY <2>1, <2>2, <2>4 DEF DepthInv
  <2> QED BY <1>0, <2>3, <2>4
<1> QED BY <1>1, <1>2, <1>3, <1>4, <1>5, <1>6, <1>7, <1>8, <1>9

\* Moving the frame out: it is the next one in order.
LEMMA PopMoveInv ==
    ASSUME ExclusiveSides, RingInv, NEW c \in Consumers, PopMove(c)
    PROVE  RingInv'
<1> USE DEF RingInv, PopMove, Return, GoTo, depthVars
<1>0. /\ c \notin Producers /\ idx[c] \in Slots /\ NextSlot(idx[c]) = head
      /\ buffer[idx[c]] = removed /\ removed = Len(rcvd) + 1
      /\ \A d \in Consumers : pc[d] # "idle" => d = c
  BY OneCallPerSide DEF TypeOK, IndexInv, BufferInv, LiveInv, HandInv
<1>1. TypeOK'
  BY <1>0 DEF TypeOK, Null
<1>2. PcInv'
  BY DEF TypeOK, PcInv
<1>3. MutexInv'
  BY DEF TypeOK, MutexInv
<1>4. IndexInv'
  BY DEF TypeOK, PcInv, IndexInv
<1>5. CountInv'
  BY DEF CountInv
<1>6. BufferInv'
  <2>0. head = IF idx[c] = Capacity THEN 0 ELSE idx[c] + 1
    BY <1>0, NextSlotCases
  <2>1. DepthOf(idx[c], head) = Capacity
    BY <1>0, <2>0, SMTT(60) DEF DepthOf, Slots
  <2>2. DepthOf(tail, head) \in 0 .. Capacity
    BY DepthRange DEF TypeOK
  <2>3. ~ DepthOf(idx[c], head) < DepthOf(tail, head)
    BY <2>1, <2>2
  <2>4. \A p \in Producers : pc[p] = "store" => tail # idx[c]
    BY <1>0 DEF IndexInv
  <2>5. \A d \in Consumers : pc'[d] # "move"
    BY <1>0 DEF TypeOK
  <2> QED BY <1>0, <2>3, <2>4, <2>5, SMTT(60) DEF TypeOK, BufferInv, LiveInv
<1>7. HandInv'
  <2>1. \A d \in Consumers : pc'[d] # "move"
    BY <1>0 DEF TypeOK
  <2>2. Len(rcvd') = Len(rcvd) + 1
    BY <1>0 DEF TypeOK
  <2> QED BY <1>0, <2>1, <2>2 DEF HandInv
<1>8. FifoDelivery'
  BY SMTT(60) DEF TypeOK, BufferInv, LiveInv, HandInv, FifoDelivery
<1>9. DepthInv'
  BY DEF DepthInv
<1> QED BY <1>1, <1>2, <1>3, <1>4, <1>5, <1>6, <1>7, <1>8, <1>9

\* Depth() loads tail_: what it must still see leave is what is in the ring now.
LEMMA DepthLoadTailInv ==
    ASSUME ExclusiveSides, RingInv, DepthLoadTail
    PROVE  RingInv'
<1> USE DEF RingInv, DepthLoadTail, ringVars
<1>1. TypeOK'
  BY DEF TypeOK
<1>2. PcInv'
  BY DEF PcInv
<1>3. MutexInv'
  BY DEF MutexInv
<1>4. IndexInv'
  BY DEF IndexInv
<1>5. CountInv'
  BY DEF CountInv
<1>6. BufferInv'
  BY DEF BufferInv, LiveInv
<1>7. HandInv'
  BY DEF HandInv
<1>8. FifoDelivery'
  BY DEF FifoDelivery
<1>9. DepthInv'
  BY DEF TypeOK, CountInv, DepthInv, DepthOf
<1> QED BY <1>1, <1>2, <1>3, <1>4, <1>5, <1>6, <1>7, <1>8, <1>9

\* Depth() loads head_: a zero means head_ has passed the loaded tail_.
LEMMA DepthLoadHeadInv ==
    ASSUME ExclusiveSides, RingInv, DepthLoadHead
    PROVE  RingInv'
<1> USE DEF RingInv, DepthLoadHead, ringVars
<1>1. TypeOK'
  BY DEF TypeOK
<1>2. PcInv'
  BY DEF PcInv
<1>3. MutexInv'
  BY DEF MutexInv
<1>4. IndexInv'
  BY DEF IndexInv
<1>5. CountInv'
  BY DEF CountInv
<1>6. BufferInv'
  BY DEF BufferInv, LiveInv
<1>7. HandInv'
  BY DEF HandInv
<1>8. FifoDelivery'
  BY DEF FifoDelivery
<1>9. DepthInv'
  BY DEF TypeOK, CountInv, DepthInv, DepthOf
<1> QED BY <1>1, <1>2, <1>3, <1>4, <1>5, <1>6, <1>7, <1>8, <1>9

-----------------------------------------------------------------------------
\* The invariant holds initially.
LEMMA InitRingInv == Init => RingInv
<1> SUFFICES ASSUME Init PROVE RingInv
  OBVIOUS
<1>1. 0 \in Slots /\ DepthOf(0, 0) = 0
  BY DEF Slots, DepthOf
<1>2. \A s \in Slots : DepthOf(s, 0) \in Nat
  BY DEF Slots, DepthOf
<1>3. TypeOK
  BY <1>1 DEF Init, TypeOK, Null
<1>4. PcInv /\ MutexInv /\ IndexInv /\ HandInv /\ FifoDelivery
  BY DEF Init, PcInv, MutexInv, IndexInv, HandInv, FifoDelivery
<1>5. CountInv /\ BufferInv /\ DepthInv
  BY <1>1, <1>2 DEF Init, CountInv, BufferInv, LiveInv, DepthInv, Null
<1> QED BY <1>3, <1>4, <1>5 DEF RingInv

\* No step of a ring with exclusive sides breaks it.
LEMMA NextRingInv ==
    ASSUME ExclusiveSides, RingInv, [Next]_vars
    PROVE  RingInv'
<1>1. CASE \E p \in Producers : Push(p)
  <2> PICK p \in Producers : Push(p)
    BY <1>1
  <2>1. ~ PushReload(p) /\ ~ PushDrop(p)
    BY DEF PushReload, PushDrop, RingInv, PcInv
  <2> QED BY <2>1, PushLoadTailInv, PushLoadHeadInv, PushWriteInv, PushStoreInv DEF Push, FindRoom
<1>2. CASE \E c \in Consumers : Pop(c)
  BY <1>2, PopLoadHeadInv, PopLoadTailInv, PopCasInv, PopMoveInv DEF Pop
<1>3. CASE DepthLoadTail \/ DepthLoadHead
  BY <1>3, DepthLoadTailInv, DepthLoadHeadInv
<1>4. CASE UNCHANGED vars
  BY <1>4 DEF vars, ringVars, depthVars, RingInv, TypeOK, PcInv, MutexInv, IndexInv, CountInv,
              BufferInv, LiveInv, HandInv, FifoDelivery, DepthInv
<1> QED BY <1>1, <1>2, <1>3, <1>4 DEF Next

\* RingInv holds in every reachable state of a ring with exclusive sides,
\* whatever its capacity and the number of threads.
THEOREM RingInvariant ==
    ASSUME ExclusiveSides
    PROVE  Spec => []RingInv
<1>1. Init => RingInv
  BY InitRingInv
<1>2. RingInv /\ [Next]_vars => RingInv'
  BY NextRingInv
<1> QED BY <1>1, <1>2, PTL DEF Spec

\* TryPop delivers every accepted frame once and in order (stage_queue.h,
\* TryPush and TryPop), for every capacity.
THEOREM RingFifo ==
    ASSUME ExclusiveSides
    PROVE  Spec => []FifoDelivery
<1>1. RingInv => FifoDelivery
  BY DEF RingInv
<1> QED BY <1>1, RingInvariant, PTL

\* The slot of a unique_ptr is never touched by two threads at once, and a
\* write never destroys a frame: the one-slot gap is enough.
THEOREM RingNoRace ==
    ASSUME ExclusiveSides
    PROVE  Spec => [](NoSlotRace /\ NoFrameOverwritten)
<1>1. ASSUME RingInv PROVE NoSlotRace /\ NoFrameOverwritten
  <2> USE <1>1 DEF RingInv
  <2>1. \A p \in Producers, c \in Consumers :
            pc[p] \in {"write", "store"} /\ pc[c] = "move" => idx[p] # idx[c]
    BY DEF IndexInv
  <2>2. \A p, q \in Producers :
            pc[p] \in {"write", "store"} /\ pc[q] \in {"write", "store"} => p = q
    BY OneCallPerSide
  <2>3. NoSlotRace
    BY <2>1, <2>2 DEF PcInv, NoSlotRace
  <2>4. ASSUME NEW p \in Producers, pc[p] = "write" PROVE buffer[idx[p]] = Null
    <3>1. idx[p] = tail /\ tail \in Slots
      BY <2>4 DEF TypeOK, IndexInv
    <3>2. DepthOf(tail, head) >= DepthOf(tail, head)
      <4>1. DepthOf(tail, head) \in 0 .. Capacity
        BY DepthRange DEF TypeOK
      <4> QED BY <4>1
    <3>3. \A c \in Consumers : pc[c] = "move" => idx[c] # tail
      BY <2>1, <2>4, <3>1
    <3>4. \A q \in Producers : pc[q] # "store"
      BY <2>2, <2>4
    <3> QED BY <3>1, <3>2, <3>3, <3>4 DEF BufferInv, LiveInv
  <2> QED BY <2>3, <2>4 DEF NoFrameOverwritten
<1> QED BY <1>1, RingInvariant, PTL

\* When Depth() reads zero, every frame accepted before the call has left the
\* ring, although its two loads are not a snapshot.
THEOREM RingEmptyRead ==
    ASSUME ExclusiveSides
    PROVE  Spec => []EmptyReadMeansServed
<1>1. RingInv => EmptyReadMeansServed
  BY DEF RingInv, DepthInv, EmptyReadMeansServed
<1> QED BY <1>1, RingInvariant, PTL

-----------------------------------------------------------------------------
(* StageRing implements BoundedFifo.  The abstract state is a function of two
   counters, by RingInv: the queue is the frames of ranks removed + 1 to pushed,
   and those of ranks 1 to removed have been taken. *)

Ranks(first, n) == [i \in 1 .. n |-> first + i - 1]

-----------------------------------------------------------------------------
(* Arithmetic of the slots                                                 *)

\* The remainder by cases.
LEMMA RemainderCases ==
    ASSUME NEW m \in Nat \ {0}, NEW x \in Nat, x < m + m
    PROVE  x % m = IF x < m THEN x ELSE x - m
  OBVIOUS

\* The slot k places after another one is at distance k from it.
LEMMA SlotAtDistance ==
    ASSUME NEW h \in Slots, NEW k \in 0 .. Capacity
    PROVE  /\ (h + k) % (Capacity + 1) \in Slots
           /\ DepthOf((h + k) % (Capacity + 1), h) = k
<1> DEFINE m == Capacity + 1
           x == h + k
<1>1. /\ m \in Nat \ {0} /\ x \in Nat /\ x < m + m
      /\ h \in 0 .. Capacity /\ k \in 0 .. Capacity /\ m = Capacity + 1 /\ x = h + k
  BY DEF Slots
<1> HIDE DEF m, x
<1>2. x % m = IF x < m THEN x ELSE x - m
  BY <1>1, RemainderCases
<1>3. x % m \in Slots /\ DepthOf(x % m, h) = k
  BY <1>1, <1>2 DEF Slots, DepthOf
<1> QED BY <1>3 DEF m, x

\* Advancing tail_ adds one to the distance unless the ring is full.
LEMMA RoomForOne ==
    ASSUME NEW t \in Slots, NEW h \in Slots, NextSlot(t) # h
    PROVE  DepthOf(t, h) < Capacity
  BY NextSlotCases DEF DepthOf, Slots

\* One slot short of head_ the ring is full.
LEMMA FullDistance ==
    ASSUME NEW t \in Slots, NEW h \in Slots, NextSlot(t) = h
    PROVE  DepthOf(t, h) = Capacity
  BY NextSlotCases DEF DepthOf, Slots

-----------------------------------------------------------------------------
(* The abstract state                                                      *)

\* The frames between head_ and tail_ are the ranks removed + 1 to pushed.
LEMMA ContentsAreRanks ==
    ASSUME TypeOK, CountInv, LiveInv
    PROVE  /\ pushed - removed \in 0 .. Capacity
           /\ Contents = Ranks(removed + 1, pushed - removed)
<1> USE DEF TypeOK
<1>1. DepthOf(tail, head) \in 0 .. Capacity
  BY DepthRange
<1>2. pushed - removed = DepthOf(tail, head)
  BY <1>1 DEF CountInv
<1>3. ASSUME NEW i \in 1 .. DepthOf(tail, head)
      PROVE  buffer[(head + i - 1) % (Capacity + 1)] = removed + i
  <2>1. i - 1 \in 0 .. Capacity /\ i - 1 < DepthOf(tail, head)
    BY <1>1, <1>3
  <2> DEFINE s == (head + (i - 1)) % (Capacity + 1)
  <2>2. s \in Slots /\ DepthOf(s, head) = i - 1
    BY <2>1, SlotAtDistance
  <2>3. buffer[s] = removed + DepthOf(s, head) + 1
    BY <2>1, <2>2 DEF LiveInv
  <2>4. head + i - 1 = head + (i - 1)
    BY DEF Slots
  <2> QED BY <2>2, <2>3, <2>4
<1> QED BY <1>1, <1>2, <1>3, SMTT(60) DEF Contents, Ranks

\* What has been taken, the frame a consumer is moving included, is the ranks
\* 1 to removed.
LEMMA TakenAreRanks ==
    ASSUME ExclusiveSides, RingInv
    PROVE  rcvd \o InHand = Ranks(1, removed)
<1> USE DEF RingInv, TypeOK
<1> DEFINE movers == {c \in Consumers : pc[c] = "move"}
<1>0. \A i \in 1 .. Len(rcvd) : rcvd[i] = i
  BY DEF FifoDelivery
<1>1. CASE movers = {}
  <2>1. InHand = <<>>
    BY <1>1 DEF InHand
  <2>2. removed = Len(rcvd)
    BY <1>1 DEF HandInv
  <2>3. rcvd \o <<>> = rcvd
    OBVIOUS
  <2> QED BY <1>0, <2>1, <2>2, <2>3 DEF Ranks
<1>2. CASE movers # {}
  <2> DEFINE c == CHOOSE m \in movers : TRUE
  <2>1. c \in Consumers /\ pc[c] = "move"
    BY <1>2
  <2>2. InHand = <<buffer[idx[c]]>>
    BY <1>2 DEF InHand
  <2>3. buffer[idx[c]] = removed
    BY <2>1 DEF BufferInv, LiveInv
  <2>4. removed = Len(rcvd) + 1
    BY <2>1 DEF HandInv
  <2> HIDE DEF c
  <2>5. rcvd \o InHand = Append(rcvd, removed)
    BY <2>2, <2>3
  <2>6. rcvd \in Seq(Nat) /\ removed \in Nat
    OBVIOUS
  <2> QED BY <1>0, <2>4, <2>5, <2>6, SMTT(60) DEF Ranks
<1> QED BY <1>1, <1>2

-----------------------------------------------------------------------------
(* Steps                                                                   *)

\* Every step accepts one frame into a ring with room, removes one frame from a
\* ring that is not empty, or does neither; nothing is dropped.
LEMMA StepByCounters ==
    ASSUME ExclusiveSides, RingInv, [Next]_vars
    PROVE  /\ dropped' = dropped
           /\ \/ pushed' = pushed + 1 /\ removed' = removed /\ pushed - removed < Capacity
              \/ pushed' = pushed /\ removed' = removed + 1 /\ pushed - removed > 0
              \/ pushed' = pushed /\ removed' = removed
<1> USE DEF RingInv, TypeOK, ringVars, depthVars
<1>0. DepthOf(tail, head) \in 0 .. Capacity /\ pushed - removed = DepthOf(tail, head)
  BY DepthRange, SMTT(60) DEF CountInv
<1>1. ASSUME NEW p \in Producers, Push(p)
      PROVE  /\ dropped' = dropped /\ removed' = removed
             /\ \/ pushed' = pushed
                \/ pushed' = pushed + 1 /\ pushed - removed < Capacity
  <2>1. CASE PushLoadTail(p)
    BY <2>1 DEF PushLoadTail
  <2>2. CASE FindRoom(p)
    <3>1. PushLoadHead(p)
      BY <2>2 DEF FindRoom, PushReload, PushDrop, PcInv
    <3> QED BY <3>1 DEF PushLoadHead
  <2>3. CASE PushWrite(p)
    BY <2>3 DEF PushWrite
  <2>4. CASE PushStore(p)
    <3>1. NextSlot(tail) # head
      BY <2>4 DEF PushStore, IndexInv
    <3>2. DepthOf(tail, head) < Capacity
      BY <3>1, RoomForOne
    <3> QED BY <1>0, <2>4, <3>2 DEF PushStore
  <2> QED BY <1>1, <2>1, <2>2, <2>3, <2>4 DEF Push
<1>2. ASSUME NEW c \in Consumers, Pop(c)
      PROVE  /\ dropped' = dropped /\ pushed' = pushed
             /\ \/ removed' = removed
                \/ removed' = removed + 1 /\ pushed - removed > 0
  <2>1. CASE PopCas(c) /\ head = idx[c]
    <3>1. head # tail
      BY <2>1 DEF PopCas, IndexInv
    <3>2. DepthOf(tail, head) > 0
      BY <3>1 DEF DepthOf, Slots
    <3> QED BY <1>0, <2>1, <3>2 DEF PopCas
  <2>2. CASE PopCas(c) /\ head # idx[c]
    BY <2>2 DEF PopCas
  <2>3. CASE PopLoadHead(c) \/ PopLoadTail(c) \/ PopMove(c)
    BY <2>3 DEF PopLoadHead, PopLoadTail, PopMove
  <2> QED BY <1>2, <2>1, <2>2, <2>3 DEF Pop
<1>3. CASE DepthLoadTail \/ DepthLoadHead \/ UNCHANGED vars
  BY <1>3 DEF DepthLoadTail, DepthLoadHead, vars
<1> QED BY <1>1, <1>2, <1>3 DEF Next

\* Accepting a frame is the abstract queue's Enqueue.
LEMMA EnqueueByCounters ==
    ASSUME NEW a \in Nat, NEW b \in Nat, a - b \in 0 .. Capacity, a - b < Capacity
    PROVE  /\ Len(Ranks(b + 1, a - b)) < Capacity
           /\ Ranks(b + 1, a + 1 - b) = Append(Ranks(b + 1, a - b), a + 1)
<1> DEFINE q == Ranks(b + 1, a - b)
<1>1. q \in Seq(Nat) /\ Len(q) = a - b /\ \A i \in 1 .. a - b : q[i] = b + i
  BY DEF Ranks
<1> HIDE DEF q
<1>2. /\ Append(q, a + 1) \in Seq(Nat) /\ Len(Append(q, a + 1)) = a + 1 - b
      /\ \A i \in 1 .. a + 1 - b : Append(q, a + 1)[i] = b + i
  BY <1>1
<1>3. Ranks(b + 1, a + 1 - b) = Append(q, a + 1)
  BY <1>2 DEF Ranks
<1> QED BY <1>1, <1>3 DEF q

\* Removing a frame is the abstract queue's Dequeue.
LEMMA DequeueByCounters ==
    ASSUME NEW a \in Nat, NEW b \in Nat, a - b \in 0 .. Capacity, a - b > 0
    PROVE  /\ Ranks(b + 1, a - b) # <<>>
           /\ Ranks(b + 2, a - (b + 1)) = Tail(Ranks(b + 1, a - b))
           /\ Ranks(1, b + 1) = Append(Ranks(1, b), Head(Ranks(b + 1, a - b)))
<1> DEFINE q == Ranks(b + 1, a - b)
           t == Ranks(1, b)
<1>1. q \in Seq(Nat) /\ Len(q) = a - b /\ \A i \in 1 .. a - b : q[i] = b + i
  BY DEF Ranks
<1>2. t \in Seq(Nat) /\ Len(t) = b /\ \A i \in 1 .. b : t[i] = i
  BY DEF Ranks
<1> HIDE DEF q, t
<1>3. q # <<>> /\ Head(q) = b + 1
  BY <1>1
<1>4. /\ Tail(q) \in Seq(Nat) /\ Len(Tail(q)) = a - (b + 1)
      /\ \A i \in 1 .. a - (b + 1) : Tail(q)[i] = b + 1 + i
  BY <1>1, <1>3
<1>5. Ranks(b + 2, a - (b + 1)) = Tail(q)
  <2>1. \A s \in Seq(Nat) : s = [i \in 1 .. Len(s) |-> s[i]]
    OBVIOUS
  <2>2. Tail(q) = [i \in 1 .. a - (b + 1) |-> Tail(q)[i]]
    BY <1>4, <2>1
  <2>3. \A i \in 1 .. a - (b + 1) : Tail(q)[i] = b + 2 + i - 1
    BY <1>4
  <2>4. Tail(q) = [i \in 1 .. a - (b + 1) |-> b + 2 + i - 1]
    BY <2>2, <2>3
  <2> QED BY <2>4 DEF Ranks
<1>6. /\ Append(t, b + 1) \in Seq(Nat) /\ Len(Append(t, b + 1)) = b + 1
      /\ \A i \in 1 .. b + 1 : Append(t, b + 1)[i] = i
  BY <1>2
<1>7. Ranks(1, b + 1) = Append(t, b + 1)
  BY <1>6 DEF Ranks
<1> QED BY <1>3, <1>5, <1>7 DEF q, t

\* The mapped state, as a function of the counters.
AbstractState == /\ pushed \in Nat /\ removed \in Nat /\ pushed - removed \in 0 .. Capacity
                 /\ Contents = Ranks(removed + 1, pushed - removed)
                 /\ rcvd \o InHand = Ranks(1, removed)

\* Every step of the ring is a step of the queue, or changes nothing in it.
LEMMA StepRefines ==
    ASSUME ExclusiveSides, RingInv, AbstractState, AbstractState', [Next]_vars
    PROVE  [Fifo!Next]_(Fifo!vars)
<1> USE DEF AbstractState
<1>0. dropped' = dropped
  BY StepByCounters
<1>1. CASE pushed' = pushed + 1 /\ removed' = removed /\ pushed - removed < Capacity
  <2>1. /\ Len(Ranks(removed + 1, pushed - removed)) < Capacity
        /\ Ranks(removed + 1, pushed + 1 - removed)
             = Append(Ranks(removed + 1, pushed - removed), pushed + 1)
    BY <1>1, EnqueueByCounters
  <2>2. Contents' = Ranks(removed + 1, pushed + 1 - removed)
    BY <1>1
  <2>3. (rcvd \o InHand)' = rcvd \o InHand
    BY <1>1
  <2> QED BY <1>0, <1>1, <2>1, <2>2, <2>3 DEF Fifo!Next, Fifo!Enqueue
<1>2. CASE pushed' = pushed /\ removed' = removed + 1 /\ pushed - removed > 0
  <2>1. /\ Ranks(removed + 1, pushed - removed) # <<>>
        /\ Ranks(removed + 2, pushed - (removed + 1)) = Tail(Ranks(removed + 1, pushed - removed))
        /\ Ranks(1, removed + 1) = Append(Ranks(1, removed), Head(Ranks(removed + 1, pushed - removed)))
    BY <1>2, DequeueByCounters
  <2>2. removed' + 1 = removed + 2
    BY <1>2
  <2>3. Contents' = Ranks(removed + 2, pushed - (removed + 1))
    BY <1>2, <2>2
  <2>4. (rcvd \o InHand)' = Ranks(1, removed + 1)
    BY <1>2
  <2> QED BY <1>0, <1>2, <2>1, <2>3, <2>4 DEF Fifo!Next, Fifo!Dequeue
<1>3. CASE pushed' = pushed /\ removed' = removed
  BY <1>0, <1>3 DEF Fifo!vars
<1> QED BY <1>1, <1>2, <1>3, StepByCounters

\* An empty ring is the empty queue.
LEMMA InitRefines ==
    ASSUME Init PROVE Fifo!Init
<1>1. DepthOf(tail, head) = 0
  BY DEF Init, DepthOf
<1>2. Contents = <<>>
  BY <1>1 DEF Contents
<1>3. {c \in Consumers : pc[c] = "move"} = {}
  BY DEF Init, Threads
<1>4. InHand = <<>>
  BY <1>3 DEF InHand
<1>5. rcvd \o InHand = <<>>
  BY <1>4 DEF Init
<1> QED BY <1>2, <1>5 DEF Init, Fifo!Init

-----------------------------------------------------------------------------
\* A ring whose sides are exclusive, as StageQueue's blocking calls make them,
\* is a bounded FIFO queue: no frame lost, doubled or overtaken, never more
\* than Capacity of them, whatever the interleaving of the calls' accesses.
THEOREM RingRefinesFifo ==
    ASSUME ExclusiveSides
    PROVE  Spec => RefinesFifo
<1>1. Init => Fifo!Init
  BY InitRefines
<1>2. RingInv => AbstractState
  BY ContentsAreRanks, TakenAreRanks DEF RingInv, BufferInv, TypeOK, AbstractState
<1>3. RingInv' => AbstractState'
  BY <1>2, PTL
<1>4. RingInv /\ RingInv' /\ [Next]_vars => [Fifo!Next]_(Fifo!vars)
  BY <1>2, <1>3, StepRefines
<1> QED BY <1>1, <1>4, RingInvariant, PTL DEF Spec, RefinesFifo, Fifo!Spec

-----------------------------------------------------------------------------
(* Every call under mutex_, frames dropped when the ring is full.          *)

\* While one call is in progress no other is.
LEMMA OneCall ==
    ASSUME OneCallAtATime, MutexInv, NEW t \in Threads, pc[t] # "idle"
    PROVE  mutex = t /\ \A u \in Threads : u # t => pc[u] = "idle"
  BY DEF OneCallAtATime, MutexInv

\* A call begins when none is in progress.
LEMMA NoCall ==
    ASSUME OneCallAtATime, MutexInv, NEW t \in Threads, Enter(t)
    PROVE  mutex' = t /\ \A u \in Threads : pc[u] = "idle"
  BY DEF OneCallAtATime, MutexInv, Enter

\* Advancing head_ past a live frame, whoever does it: the counts, the ranks of
\* the frames that stay and what Depth() relies on are kept.
LEMMA HeadAdvances ==
    ASSUME TypeOK, CountInv, LiveInv, DepthInv, head # tail,
           head' = NextSlot(head), removed' = removed + 1,
           UNCHANGED <<tail, buffer, pushed, depthVars>>
    PROVE  /\ head' \in Slots /\ removed' \in Nat
           /\ buffer[head] = removed + 1
           /\ pushed - removed \in 1 .. Capacity
           /\ CountInv' /\ DepthInv'
           /\ \A s \in Slots : DepthOf(s, head') < DepthOf(tail, head')
                                 => buffer[s] = removed' + DepthOf(s, head') + 1
<1> USE DEF depthVars
<1>1. /\ tail \in Slots /\ head \in Slots /\ NextSlot(head) \in Slots
      /\ removed \in Nat /\ pushed \in Nat
      /\ dtail \in Slots /\ dpushed \in Nat /\ dzero \in Nat
  BY NextSlotCases DEF TypeOK
<1>2. \A s \in Slots : /\ DepthOf(s, head) \in 0 .. Capacity
                       /\ DepthOf(s, head) = 0 <=> s = head
                       /\ s # head => DepthOf(s, NextSlot(head)) = DepthOf(s, head) - 1
  BY <1>1, NextSlotCases DEF DepthOf, Slots
<1>3. DepthOf(head, NextSlot(head)) = Capacity
  BY <1>1, NextSlotCases DEF DepthOf, Slots
<1>4. /\ DepthOf(tail, head) \in 1 .. Capacity
      /\ DepthOf(tail, head') = DepthOf(tail, head) - 1
  BY <1>1, <1>2
<1>5. buffer[head] = removed + 1
  BY <1>1, <1>2, <1>4 DEF LiveInv
<1>6. CountInv' /\ pushed - removed \in 1 .. Capacity
  BY <1>1, <1>4 DEF CountInv
<1>7. DepthInv'
  <2>1. DepthOf(dtail, head) \in Nat /\ (DepthOf(dtail, head) = 0 <=> dtail = head)
        /\ (dtail # head => DepthOf(dtail, head') = DepthOf(dtail, head) - 1)
    BY <1>1, <1>2
  <2> QED BY <1>1, <2>1, SMTT(60) DEF DepthInv
<1>8. ASSUME NEW s \in Slots, DepthOf(s, head') < DepthOf(tail, head')
      PROVE  buffer[s] = removed' + DepthOf(s, head') + 1
  <2>1. s # head
    BY <1>3, <1>4, <1>8
  <2>2. DepthOf(s, head') = DepthOf(s, head) - 1 /\ DepthOf(s, head) \in 0 .. Capacity
    BY <1>2, <2>1
  <2> QED BY <1>1, <1>4, <1>8, <2>2 DEF LiveInv
<1> QED BY <1>1, <1>5, <1>6, <1>7, <1>8

\* Steps that enter or leave a call, or go on in it, without touching the ring.
LEMMA LockedEnterInv ==
    ASSUME OneCallAtATime, LockedInv, NEW t \in Threads,
           (PushLoadTail(t) /\ t \in Producers) \/ (PopLoadHead(t) /\ t \in Consumers)
    PROVE  LockedInv'
<1> USE DEF LockedInv
<1>0. /\ Enter(t) /\ t \in Threads
      /\ \/ t \in Producers /\ pc' = [pc EXCEPT ![t] = "loadHead"] /\ idx' = [idx EXCEPT ![t] = tail]
         \/ t \in Consumers /\ pc' = [pc EXCEPT ![t] = "loadTail"] /\ idx' = [idx EXCEPT ![t] = head]
      /\ UNCHANGED <<head, tail, buffer, dropped, old, depthVars, pushed, removed, rcvd>>
  BY DEF PushLoadTail, PopLoadHead, ringVars, GoTo
<1>1. mutex' = t /\ \A u \in Threads : pc[u] = "idle"
  BY <1>0, NoCall
<1>2. TypeOK'
  <2>1. pc' \in [Threads -> {"idle", "loadHead", "reload", "drop", "write", "store",
                            "loadTail", "cas", "move"}]
    BY <1>0 DEF TypeOK
  <2>2. idx' \in [Threads -> Slots]
    BY <1>0, SMTT(60) DEF TypeOK
  <2> QED BY <1>0, <1>1, <2>1, <2>2 DEF TypeOK, depthVars
<1>3. MutexInv'
  BY <1>0, <1>1 DEF TypeOK, MutexInv
<1>4. \A u \in Threads : u # t => pc'[u] = "idle"
  BY <1>0, <1>1 DEF TypeOK
<1>5. pc'[t] = (IF t \in Producers THEN "loadHead" ELSE "loadTail")
      /\ idx'[t] = (IF t \in Producers THEN tail ELSE head)
  BY <1>0 DEF TypeOK
<1>6. LockedIndexInv'
  BY <1>0, <1>4, <1>5 DEF LockedIndexInv
<1>7. CountInv' /\ DepthInv'
  BY <1>0 DEF CountInv, DepthInv, depthVars
<1>8. LiveInv'
  BY <1>0, <1>4, <1>5 DEF LiveInv
<1>9. AccountInv'
  BY <1>0, <1>1, <1>4, <1>5 DEF AccountInv
<1> QED BY <1>2, <1>3, <1>6, <1>7, <1>8, <1>9


\* The two tests: a producer that goes on has room or is to make some, a
\* consumer that goes on has found a frame; the others return.
LEMMA LockedTestInv ==
    ASSUME OneCallAtATime, LockedInv, NEW t \in Threads,
           (PushLoadHead(t) /\ t \in Producers) \/ (PopLoadTail(t) /\ t \in Consumers)
    PROVE  LockedInv'
<1> USE DEF LockedInv
<1> DEFINE goesOn(label) == pc' = [pc EXCEPT ![t] = label] /\ mutex' = mutex
<1>0. /\ pc[t] \in {"loadHead", "loadTail"}
      /\ UNCHANGED <<head, tail, buffer, dropped, idx, old, depthVars, pushed, removed, rcvd>>
      /\ \/ t \in Producers /\ NextSlot(idx[t]) # head /\ goesOn("write")
         \/ t \in Producers /\ NextSlot(idx[t]) = head /\ Policy = "DropOldest" /\ goesOn("reload")
         \/ t \in Consumers /\ idx[t] # tail /\ goesOn("cas")
         \/ pc' = [pc EXCEPT ![t] = "idle"] /\ mutex' = NoThread
  BY DEF PushLoadHead, PopLoadTail, ringVars, GoTo, Return, OneCallAtATime
<1>1. mutex = t /\ \A u \in Threads : u # t => pc[u] = "idle"
  BY <1>0, OneCall
<1>2. TypeOK'
  BY <1>0 DEF TypeOK, depthVars
<1>3. \A u \in Threads : u # t => pc'[u] = "idle"
  BY <1>0, <1>1 DEF TypeOK
<1>4. \/ pc'[t] = "idle" /\ mutex' = NoThread
      \/ t \in Producers /\ NextSlot(idx[t]) # head /\ pc'[t] = "write" /\ mutex' = t
      \/ /\ t \in Producers /\ NextSlot(idx[t]) = head /\ Policy = "DropOldest"
         /\ pc'[t] = "reload" /\ mutex' = t
      \/ t \in Consumers /\ idx[t] # tail /\ pc'[t] = "cas" /\ mutex' = t
  BY <1>0, <1>1 DEF TypeOK
<1> HIDE DEF goesOn
<1>5. MutexInv'
  BY <1>3, <1>4 DEF MutexInv, OneCallAtATime
<1>6. LockedIndexInv'
  BY <1>0, <1>3, <1>4 DEF LockedIndexInv
<1>7. CountInv' /\ DepthInv'
  BY <1>0 DEF CountInv, DepthInv, depthVars
<1>8. LiveInv'
  BY <1>0, <1>3, <1>4 DEF LiveInv
<1>9. AccountInv'
  <2>1. \A c \in Consumers : pc[c] # "move" /\ pc'[c] # "move"
    BY <1>0, <1>1, <1>3, <1>4
  <2> QED BY <1>0, <2>1 DEF AccountInv
<1> QED BY <1>2, <1>5, <1>6, <1>7, <1>8, <1>9

\* The DropOldest branch reads head_ again.
LEMMA LockedReloadInv ==
    ASSUME OneCallAtATime, LockedInv, NEW p \in Producers, PushReload(p)
    PROVE  LockedInv'
<1> USE DEF LockedInv, PushReload, GoTo, ringVars, depthVars
<1>1. \A u \in Threads : u # p => pc[u] = "idle" /\ pc'[u] = "idle"
  BY OneCall DEF TypeOK
<1>2. pc[p] = "reload" /\ pc'[p] = "drop" /\ old'[p] = head
  BY DEF TypeOK
<1>3. TypeOK'
  BY DEF TypeOK
<1>4. MutexInv'
  BY <1>1, <1>2 DEF MutexInv
<1>5. LockedIndexInv'
  BY <1>1, <1>2 DEF LockedIndexInv
<1>6. CountInv' /\ DepthInv'
  BY DEF CountInv, DepthInv
<1>7. LiveInv'
  BY <1>1, <1>2 DEF LiveInv
<1>8. AccountInv'
  BY <1>1, <1>2 DEF AccountInv
<1> QED BY <1>3, <1>4, <1>5, <1>6, <1>7, <1>8

\* What the drop does: it succeeds, since nobody else has moved head_, and it
\* leaves room for the write.
LEMMA DropSucceeds ==
    ASSUME OneCallAtATime, LockedInv, NEW p \in Producers, PushDrop(p)
    PROVE  /\ pc[p] = "drop" /\ Policy = "DropOldest"
           /\ head # tail /\ NextSlot(tail) = head
           /\ head' = NextSlot(head) /\ dropped' = dropped + 1 /\ removed' = removed + 1
           /\ pc' = [pc EXCEPT ![p] = "write"]
           /\ UNCHANGED <<tail, buffer, mutex, idx, old, depthVars, pushed, rcvd>>
<1> USE DEF LockedInv, PushDrop, GoTo
<1>1. Policy = "DropOldest" /\ NextSlot(tail) = head /\ old[p] = head
  BY DEF LockedIndexInv
<1>2. head # tail
  <2>1. head \in Slots /\ tail \in Slots
    BY DEF TypeOK
  <2> HIDE DEF LockedInv
  <2> QED BY <1>1, <2>1, NextSlotCases DEF Slots
<1>3. ~ SpuriousCas
  BY <1>1 DEF OneCallAtATime
<1> QED BY <1>1, <1>2, <1>3

\* Dropping the oldest frame makes the ring one short of full.
LEMMA LockedDropInv ==
    ASSUME OneCallAtATime, LockedInv, NEW p \in Producers, PushDrop(p)
    PROVE  LockedInv'
<1> USE DEF LockedInv
<1>0. /\ pc[p] = "drop" /\ NextSlot(tail) = head /\ head # tail
      /\ head' = NextSlot(head) /\ dropped' = dropped + 1 /\ removed' = removed + 1
      /\ pc' = [pc EXCEPT ![p] = "write"]
      /\ UNCHANGED <<tail, buffer, mutex, idx, old, depthVars, pushed, rcvd>>
  BY DropSucceeds
<1>1. \A u \in Threads : u # p => pc[u] = "idle" /\ pc'[u] = "idle"
  BY <1>0, OneCall DEF TypeOK
<1>2. pc'[p] = "write"
  BY <1>0 DEF TypeOK
<1>3. /\ head' \in Slots /\ removed' \in Nat /\ CountInv' /\ DepthInv'
      /\ \A s \in Slots : DepthOf(s, head') < DepthOf(tail, head')
                            => buffer[s] = removed' + DepthOf(s, head') + 1
  BY <1>0, HeadAdvances
<1>4. TypeOK'
  BY <1>0, <1>3 DEF TypeOK, depthVars
<1>5. MutexInv'
  BY <1>0, <1>1, <1>2 DEF MutexInv
<1>6. LockedIndexInv'
  <2>1. head \in Slots
    BY DEF TypeOK
  <2>2. NextSlot(head) # head
    BY <2>1, NextSlotCases DEF Slots
  <2> QED BY <1>0, <1>1, <1>2, <2>2 DEF LockedIndexInv
<1>7. LiveInv'
  BY <1>0, <1>1, <1>2, <1>3 DEF LiveInv
<1>8. AccountInv'
  <2>1. \A c \in Consumers : pc[c] # "move" /\ pc'[c] # "move"
    BY <1>0, <1>1, <1>2
  <2>2. removed \in Nat /\ dropped \in Nat /\ Len(rcvd) \in Nat
    BY DEF TypeOK
  <2> QED BY <1>0, <2>1, <2>2 DEF AccountInv
<1> QED BY <1>3, <1>4, <1>5, <1>6, <1>7, <1>8


\* The write goes to the slot at tail_, which holds no live frame.
LEMMA LockedWriteInv ==
    ASSUME OneCallAtATime, LockedInv, NEW p \in Producers, PushWrite(p)
    PROVE  LockedInv'
<1> USE DEF LockedInv
<1>0. /\ pc[p] = "write" /\ idx[p] = tail /\ pushed + 1 \in Nat
      /\ buffer' = [buffer EXCEPT ![tail] = pushed + 1]
      /\ pc' = [pc EXCEPT ![p] = "store"]
      /\ UNCHANGED <<head, tail, dropped, mutex, idx, old, depthVars, pushed, removed, rcvd>>
  <2>1. pushed + 1 \in Nat
    BY DEF TypeOK
  <2>2. pc[p] = "write" /\ idx[p] = tail
    BY DEF PushWrite, LockedIndexInv
  <2> HIDE DEF LockedInv
  <2> QED BY <2>1, <2>2 DEF PushWrite, GoTo
<1>1. \A u \in Threads : u # p => pc[u] = "idle" /\ pc'[u] = "idle"
  BY <1>0, OneCall DEF TypeOK
<1>2. pc'[p] = "store"
  BY <1>0 DEF TypeOK
<1>3. TypeOK'
  BY <1>0 DEF TypeOK, depthVars
<1>4. MutexInv'
  BY <1>0, <1>1, <1>2 DEF MutexInv
<1>5. LockedIndexInv'
  BY <1>0, <1>1, <1>2 DEF LockedIndexInv
<1>6. CountInv' /\ DepthInv'
  BY <1>0 DEF CountInv, DepthInv, depthVars
<1>7. LiveInv'
  <2>1. buffer \in [Slots -> Nat] /\ tail \in Slots /\ DepthOf(tail, head) \in 0 .. Capacity
    BY DepthRange DEF TypeOK
  <2>2. ~ DepthOf(tail, head) < DepthOf(tail, head)
    BY <2>1
  <2>3. buffer'[tail] = pushed + 1 /\ \A s \in Slots : s # tail => buffer'[s] = buffer[s]
    BY <1>0, <2>1
  <2> QED BY <1>0, <1>1, <1>2, <2>2, <2>3 DEF LiveInv
<1>8. AccountInv'
  BY <1>0, <1>1, <1>2 DEF AccountInv
<1> QED BY <1>3, <1>4, <1>5, <1>6, <1>7, <1>8

\* The store of tail_ makes the frame the last live one.
LEMMA LockedStoreInv ==
    ASSUME OneCallAtATime, LockedInv, NEW p \in Producers, PushStore(p)
    PROVE  LockedInv'
<1> USE DEF LockedInv
<1>0. /\ pc[p] = "store" /\ NextSlot(tail) # head
      /\ tail' = NextSlot(tail) /\ pushed' = pushed + 1
      /\ pc' = [pc EXCEPT ![p] = "idle"] /\ mutex' = NoThread
      /\ UNCHANGED <<head, buffer, dropped, idx, old, depthVars, removed, rcvd>>
  BY DEF PushStore, Return, GoTo, LockedIndexInv, OneCallAtATime
<1>1. /\ \A u \in Threads : pc'[u] = "idle"
      /\ \A u \in Threads : u # p => pc[u] = "idle"
  BY <1>0, OneCall DEF TypeOK
<1>a. /\ tail \in Slots /\ head \in Slots /\ NextSlot(tail) \in Slots
      /\ removed \in Nat /\ pushed \in Nat
  BY NextSlotCases DEF TypeOK
<1>b. /\ DepthOf(NextSlot(tail), head) = DepthOf(tail, head) + 1
      /\ DepthOf(tail, head) \in 0 .. Capacity
      /\ \A s \in Slots : /\ DepthOf(s, head) \in 0 .. Capacity
                          /\ DepthOf(s, head) = DepthOf(tail, head) => s = tail
  <2> HIDE DEF LockedInv
  <2> QED BY <1>0, <1>a, NextSlotCases DEF DepthOf, Slots
<1>2. TypeOK'
  BY <1>0, <1>a DEF TypeOK, depthVars
<1>3. MutexInv'
  BY <1>0, <1>1 DEF MutexInv, OneCallAtATime
<1>4. LockedIndexInv'
  BY <1>0, <1>1 DEF LockedIndexInv
<1>5. CountInv'
  BY <1>0, <1>a, <1>b DEF CountInv
<1>6. DepthInv'
  BY <1>0, <1>a DEF TypeOK, DepthInv, depthVars
<1>7. LiveInv'
  <2>1. buffer[tail] = removed + DepthOf(tail, head) + 1
    BY <1>0, <1>a, <1>b DEF CountInv, LiveInv
  <2>2. ASSUME NEW s \in Slots, DepthOf(s, head) < DepthOf(tail, head) + 1
        PROVE  buffer[s] = removed + DepthOf(s, head) + 1
    BY <1>b, <2>1, <2>2 DEF LiveInv
  <2> QED BY <1>0, <1>1, <1>b, <2>2 DEF LiveInv
<1>8. AccountInv'
  BY <1>0, <1>1 DEF AccountInv
<1> QED BY <1>2, <1>3, <1>4, <1>5, <1>6, <1>7, <1>8

\* A pop takes the frame at head_, which cannot have moved.
LEMMA LockedPopCasInv ==
    ASSUME OneCallAtATime, LockedInv, NEW c \in Consumers, PopCas(c)
    PROVE  LockedInv'
<1> USE DEF LockedInv
<1>0. /\ pc[c] = "cas" /\ idx[c] = head /\ head # tail
      /\ \/ /\ head' = NextSlot(head) /\ removed' = removed + 1 /\ idx' = idx
            /\ pc' = [pc EXCEPT ![c] = "move"]
         \/ /\ head' = head /\ removed' = removed
            /\ idx' = [idx EXCEPT ![c] = head]
            /\ pc' = [pc EXCEPT ![c] = "loadTail"]
      /\ UNCHANGED <<tail, buffer, dropped, mutex, old, depthVars, pushed, rcvd>>
  BY DEF LockedIndexInv, PopCas, GoTo
<1>1. \A u \in Threads : u # c => pc[u] = "idle" /\ pc'[u] = "idle"
  BY <1>0, OneCall DEF TypeOK
<1>a. head \in Slots /\ removed \in Nat /\ dropped \in Nat /\ Len(rcvd) \in Nat
  BY DEF TypeOK
<1>2. CASE /\ head' = NextSlot(head) /\ removed' = removed + 1 /\ idx' = idx
           /\ pc' = [pc EXCEPT ![c] = "move"]
  <2>1. pc'[c] = "move" /\ idx'[c] = head
    BY <1>0, <1>2 DEF TypeOK
  <2>2. /\ head' \in Slots /\ removed' \in Nat /\ CountInv' /\ DepthInv'
        /\ buffer[head] = removed + 1
        /\ \A s \in Slots : DepthOf(s, head') < DepthOf(tail, head')
                              => buffer[s] = removed' + DepthOf(s, head') + 1
    BY <1>0, <1>2, HeadAdvances
  <2>3. TypeOK'
    BY <1>0, <1>2, <2>2 DEF TypeOK, depthVars
  <2>4. MutexInv'
    BY <1>0, <1>1, <2>1 DEF MutexInv
  <2>5. LockedIndexInv'
    BY <1>0, <1>1, <2>1 DEF LockedIndexInv
  <2>6. LiveInv'
    BY <1>0, <1>1, <1>2, <2>1, <2>2 DEF LiveInv
  <2>7. AccountInv'
    BY <1>0, <1>1, <1>2, <1>a, <2>1 DEF AccountInv
  <2> QED BY <2>2, <2>3, <2>4, <2>5, <2>6, <2>7
<1>3. CASE /\ head' = head /\ removed' = removed
           /\ idx' = [idx EXCEPT ![c] = head]
           /\ pc' = [pc EXCEPT ![c] = "loadTail"]
  <2>1. pc'[c] = "loadTail" /\ idx' = idx
    BY <1>0, <1>3 DEF TypeOK
  <2>2. TypeOK'
    BY <1>0, <1>3 DEF TypeOK, depthVars
  <2>3. MutexInv'
    BY <1>0, <1>1, <2>1 DEF MutexInv
  <2>4. LockedIndexInv'
    BY <1>0, <1>1, <1>3, <2>1 DEF LockedIndexInv
  <2>5. CountInv' /\ DepthInv'
    BY <1>0, <1>3 DEF CountInv, DepthInv, depthVars
  <2>6. LiveInv'
    BY <1>0, <1>1, <1>3, <2>1 DEF LiveInv
  <2>7. AccountInv'
    BY <1>0, <1>1, <1>3, <2>1 DEF AccountInv
  <2> QED BY <2>2, <2>3, <2>4, <2>5, <2>6, <2>7
<1> QED BY <1>0, <1>2, <1>3

\* The frame is moved out of a slot that is not live any more.
LEMMA LockedPopMoveInv ==
    ASSUME OneCallAtATime, LockedInv, NEW c \in Consumers, PopMove(c)
    PROVE  LockedInv'
<1> USE DEF LockedInv
<1>0. /\ pc[c] = "move" /\ idx[c] \in Slots
      /\ rcvd' = Append(rcvd, buffer[idx[c]])
      /\ buffer' = [buffer EXCEPT ![idx[c]] = Null]
      /\ pc' = [pc EXCEPT ![c] = "idle"] /\ mutex' = NoThread
      /\ UNCHANGED <<head, tail, dropped, idx, old, depthVars, pushed, removed>>
  BY DEF PopMove, Return, GoTo, OneCallAtATime, TypeOK
<1>1. /\ \A u \in Threads : pc'[u] = "idle"
      /\ \A u \in Threads : u # c => pc[u] = "idle"
  BY <1>0, OneCall DEF TypeOK
<1>2. TypeOK'
  BY <1>0 DEF TypeOK, depthVars, Null
<1>3. MutexInv'
  BY <1>0, <1>1 DEF MutexInv, OneCallAtATime
<1>4. LockedIndexInv'
  BY <1>0, <1>1 DEF LockedIndexInv
<1>5. CountInv' /\ DepthInv'
  BY <1>0 DEF CountInv, DepthInv, depthVars
<1>6. LiveInv'
  <2>1. ASSUME NEW s \in Slots, DepthOf(s, head) < DepthOf(tail, head)
        PROVE  s # idx[c]
    \* buffer[idx[c]] = removed, and a live slot holds a greater rank
    <3>1. buffer[s] = removed + DepthOf(s, head) + 1 /\ buffer[idx[c]] = removed
      BY <1>0, <2>1 DEF LiveInv
    <3>2. removed \in Nat /\ DepthOf(s, head) \in 0 .. Capacity
      BY DepthRange DEF TypeOK
    <3> QED BY <3>1, <3>2
  <2>2. \A s \in Slots : s # idx[c] => buffer'[s] = buffer[s]
    BY <1>0 DEF TypeOK
  <2> QED BY <1>0, <1>1, <2>1, <2>2 DEF LiveInv
<1>7. AccountInv'
  <2>1. Len(rcvd') = Len(rcvd) + 1 /\ Len(rcvd) \in Nat /\ dropped \in Nat
    BY <1>0 DEF TypeOK
  <2>2. removed = Len(rcvd) + dropped + 1
    BY <1>0 DEF AccountInv
  <2> QED BY <1>0, <1>1, <2>1, <2>2 DEF AccountInv
<1> QED BY <1>2, <1>3, <1>4, <1>5, <1>6, <1>7


\* Depth() runs without the mutex and writes nothing that a call reads.
LEMMA LockedDepthInv ==
    ASSUME LockedInv, DepthLoadTail \/ DepthLoadHead
    PROVE  LockedInv'
<1> USE DEF LockedInv
<1>1. UNCHANGED <<ringVars, mutex, pc, idx, old, pushed, removed, rcvd>>
  BY DEF DepthLoadTail, DepthLoadHead
<1>2. TypeOK'
  BY <1>1 DEF TypeOK, ringVars, DepthLoadTail, DepthLoadHead
<1>3. MutexInv' /\ LockedIndexInv' /\ CountInv' /\ AccountInv'
  BY <1>1 DEF ringVars, MutexInv, LockedIndexInv, CountInv, AccountInv
<1>4. LiveInv'
  BY <1>1 DEF ringVars, LiveInv
<1>5. DepthInv'
  <2>1. /\ tail \in Slots /\ head \in Slots /\ dtail \in Slots
        /\ pushed \in Nat /\ removed \in Nat /\ dpushed \in Nat
    BY DEF TypeOK
  <2>2. DepthOf(tail, head) \in 0 .. Capacity /\ DepthOf(dtail, head) \in 0 .. Capacity
    BY <2>1, DepthRange
  <2>3. CASE DepthLoadTail
    BY <1>1, <2>1, <2>2, <2>3 DEF DepthLoadTail, CountInv, DepthInv, ringVars
  <2>4. CASE DepthLoadHead
    BY <1>1, <2>1, <2>2, <2>4 DEF DepthLoadHead, DepthInv, ringVars
  <2> QED BY <2>3, <2>4
<1> QED BY <1>2, <1>3, <1>4, <1>5

\* An empty ring satisfies the invariant.
LEMMA InitLockedInv == Init => LockedInv
<1> SUFFICES ASSUME Init PROVE LockedInv
  OBVIOUS
<1>1. 0 \in Slots /\ DepthOf(0, 0) = 0 /\ \A s \in Slots : DepthOf(s, 0) \in Nat
  BY DEF Slots, DepthOf
<1>2. TypeOK
  BY <1>1 DEF Init, TypeOK, Null
<1>3. MutexInv /\ LockedIndexInv /\ AccountInv
  BY DEF Init, MutexInv, LockedIndexInv, AccountInv
<1>4. CountInv /\ LiveInv /\ DepthInv
  BY <1>1 DEF Init, CountInv, LiveInv, DepthInv
<1> QED BY <1>2, <1>3, <1>4 DEF LockedInv

\* No step breaks it.
LEMMA NextLockedInv ==
    ASSUME OneCallAtATime, LockedInv, [Next]_vars
    PROVE  LockedInv'
<1>1. ASSUME NEW p \in Producers, Push(p) PROVE LockedInv'
  <2>0. p \in Threads
    OBVIOUS
  <2>1. CASE PushLoadTail(p)
    BY <2>0, <2>1, LockedEnterInv
  <2>2. CASE PushLoadHead(p)
    BY <2>0, <2>2, LockedTestInv
  <2>3. CASE PushReload(p) \/ PushDrop(p) \/ PushWrite(p) \/ PushStore(p)
    BY <2>3, LockedReloadInv, LockedDropInv, LockedWriteInv, LockedStoreInv
  <2> QED BY <1>1, <2>1, <2>2, <2>3 DEF Push, FindRoom
<1>2. ASSUME NEW c \in Consumers, Pop(c) PROVE LockedInv'
  <2>1. CASE PopLoadHead(c)
    BY <2>1, LockedEnterInv
  <2>2. CASE PopLoadTail(c)
    BY <2>2, LockedTestInv
  <2>3. CASE PopCas(c) \/ PopMove(c)
    BY <2>3, LockedPopCasInv, LockedPopMoveInv
  <2> QED BY <1>2, <2>1, <2>2, <2>3 DEF Pop
<1>3. CASE DepthLoadTail \/ DepthLoadHead
  BY <1>3, LockedDepthInv
<1>4. CASE UNCHANGED vars
  BY <1>4 DEF vars, ringVars, depthVars, LockedInv, TypeOK, MutexInv, LockedIndexInv, CountInv,
              LiveInv, AccountInv, DepthInv
<1> QED BY <1>1, <1>2, <1>3, <1>4 DEF Next

\* LockedInv holds in every reachable state of a ring whose calls hold mutex_,
\* whatever its policy, its capacity and the number of threads: in particular
\* TryPush has room whenever it writes (stage_queue.h, "we have space either
\* way"), and dropped_count_ counts exactly the frames that were not delivered.
THEOREM LockedRing ==
    ASSUME OneCallAtATime
    PROVE  Spec => [](LockedInv /\ SpaceBeforeWrite /\ EmptyReadMeansServed)
<1>1. Init => LockedInv
  BY InitLockedInv
<1>2. LockedInv /\ [Next]_vars => LockedInv'
  BY NextLockedInv
<1>3. LockedInv => SpaceBeforeWrite /\ EmptyReadMeansServed
  BY DEF LockedInv, LockedIndexInv, DepthInv, SpaceBeforeWrite, EmptyReadMeansServed
<1> QED BY <1>1, <1>2, <1>3, PTL DEF Spec

-----------------------------------------------------------------------------
(* The ring under mutex_ implements BoundedFifo with Discard.              *)

\* The frames handed out, the one a consumer is moving included.
Taken == rcvd \o InHand

\* With no consumer between its compare-exchange and its move.
AtRest == \A c \in Consumers : pc[c] # "move"

LEMMA TakenAtRest ==
    TypeOK /\ AtRest => Taken = rcvd
<1> SUFFICES ASSUME TypeOK, AtRest PROVE Taken = rcvd
  OBVIOUS
<1>1. {c \in Consumers : pc[c] = "move"} = {}
  BY DEF AtRest
<1>2. InHand = <<>>
  BY <1>1 DEF InHand
<1>3. rcvd \in Seq(Nat)
  BY DEF TypeOK
<1> QED BY <1>2, <1>3 DEF Taken

LEMMA TakenAtRestNext ==
    (TypeOK /\ AtRest => Taken = rcvd)'
  BY TakenAtRest, PTL

\* With one.
OnlyMover(c) == pc[c] = "move" /\ \A d \in Consumers : d # c => pc[d] # "move"

LEMMA TakenWithMover ==
    ASSUME NEW c \in Consumers
    PROVE  TypeOK /\ OnlyMover(c) => Taken = Append(rcvd, buffer[idx[c]])
<1> SUFFICES ASSUME TypeOK, OnlyMover(c) PROVE Taken = Append(rcvd, buffer[idx[c]])
  OBVIOUS
<1>1. {d \in Consumers : pc[d] = "move"} = {c}
  BY DEF OnlyMover
<1>2. (CHOOSE d \in {c} : TRUE) = c
  OBVIOUS
<1>3. InHand = <<buffer[idx[c]]>>
  BY <1>1, <1>2 DEF InHand
<1>4. rcvd \in Seq(Nat)
  BY DEF TypeOK
<1> QED BY <1>3, <1>4 DEF Taken

LEMMA TakenWithMoverNext ==
    ASSUME NEW c \in Consumers
    PROVE  (TypeOK /\ OnlyMover(c) => Taken = Append(rcvd, buffer[idx[c]]))'
<1>1. TypeOK /\ OnlyMover(c) => Taken = Append(rcvd, buffer[idx[c]])
  BY TakenWithMover
<1> QED BY <1>1, PTL

\* Every step accepts a frame into a ring with room, takes the oldest frame,
\* drops it from a full ring, or does none of these.
LEMMA LockedStep ==
    ASSUME OneCallAtATime, LockedInv, LockedInv', [Next]_vars
    PROVE  \/ /\ pushed' = pushed + 1 /\ removed' = removed /\ pushed - removed < Capacity
              /\ Taken' = Taken /\ dropped' = dropped
           \/ /\ pushed' = pushed /\ removed' = removed + 1 /\ pushed - removed > 0
              /\ Taken' = Append(Taken, removed + 1) /\ dropped' = dropped
           \/ /\ pushed' = pushed /\ removed' = removed + 1 /\ pushed - removed = Capacity
              /\ Policy = "DropOldest"
              /\ Taken' = Taken /\ dropped' = dropped + 1
           \/ pushed' = pushed /\ removed' = removed /\ Taken' = Taken /\ dropped' = dropped
<1> USE DEF LockedInv
<1>0. /\ DepthOf(tail, head) \in 0 .. Capacity /\ pushed - removed = DepthOf(tail, head)
      /\ tail \in Slots /\ head \in Slots
  <2>1. DepthOf(tail, head) \in 0 .. Capacity /\ pushed \in Nat /\ removed \in Nat
    BY DepthRange DEF TypeOK
  <2>2. pushed = removed + DepthOf(tail, head)
    BY DEF CountInv
  <2> QED BY <2>1, <2>2, SMTT(60) DEF TypeOK
<1>1. TypeOK /\ TypeOK'
  OBVIOUS
<1>2. UNCHANGED rcvd /\ AtRest /\ AtRest' => Taken' = Taken
  BY <1>1, TakenAtRest, TakenAtRestNext
<1>3. ASSUME NEW p \in Producers, Push(p)
      PROVE  AtRest /\ AtRest'
  <2>1. pc[p] # "idle" \/ Enter(p)
    BY <1>3 DEF Push, FindRoom, PushLoadTail, PushWrite, PushStore
  <2>2. \A u \in Threads : u # p => pc[u] = "idle"
    BY <2>1, OneCall, NoCall
  <2>3. \A u \in Threads : u # p => pc'[u] = pc[u]
    BY <1>3 DEF Push, FindRoom, PushLoadTail, PushLoadHead, PushReload, PushDrop, PushWrite,
               PushStore, Return, GoTo, TypeOK
  <2> HIDE DEF LockedInv
  <2> QED BY <2>2, <2>3 DEF AtRest
<1>4. ASSUME NEW c \in Consumers, PopLoadHead(c) \/ PopLoadTail(c)
      PROVE  AtRest /\ AtRest'
  <2>1. pc[c] = "loadTail" \/ Enter(c)
    BY <1>4 DEF PopLoadHead, PopLoadTail
  <2>2. \A u \in Threads : u # c => pc[u] = "idle"
    BY <2>1, OneCall, NoCall
  <2>3. /\ \A u \in Threads : u # c => pc'[u] = pc[u]
        /\ pc[c] # "move" /\ pc'[c] # "move"
    BY <1>4, <2>1 DEF PopLoadHead, PopLoadTail, Enter, Return, GoTo, TypeOK
  <2> HIDE DEF LockedInv
  <2> QED BY <2>2, <2>3 DEF AtRest
<1>5. CASE \E p \in Producers : Push(p)
  <2> PICK p \in Producers : Push(p)
    BY <1>5
  <2>0. AtRest /\ AtRest'
    BY <1>3
  <2>1. CASE PushLoadTail(p) \/ PushLoadHead(p) \/ PushReload(p) \/ PushWrite(p)
    BY <1>2, <2>0, <2>1 DEF PushLoadTail, PushLoadHead, PushReload, PushWrite, ringVars
  <2>2. CASE PushDrop(p)
    <3>1. /\ Policy = "DropOldest" /\ NextSlot(tail) = head
          /\ dropped' = dropped + 1 /\ removed' = removed + 1 /\ pushed' = pushed /\ rcvd' = rcvd
      BY <2>2, DropSucceeds
    <3>2. DepthOf(tail, head) = Capacity
      BY <1>0, <3>1, FullDistance
    <3> QED BY <1>0, <1>2, <2>0, <3>1, <3>2
  <2>3. CASE PushStore(p)
    <3>1. NextSlot(tail) # head
      BY <2>3 DEF PushStore, LockedIndexInv
    <3>2. DepthOf(tail, head) < Capacity
      BY <1>0, <3>1, RoomForOne
    <3> QED BY <1>0, <1>2, <2>0, <2>3, <3>2 DEF PushStore
  <2> QED BY <2>1, <2>2, <2>3 DEF Push, FindRoom
<1>6. CASE \E c \in Consumers : Pop(c)
  <2> PICK c \in Consumers : Pop(c)
    BY <1>6
  <2>1. CASE PopLoadHead(c) \/ PopLoadTail(c)
    BY <1>2, <1>4, <2>1 DEF PopLoadHead, PopLoadTail, ringVars
  <2>2. CASE PopCas(c)
    <3>0. /\ pc[c] = "cas" /\ idx[c] = head /\ head # tail
          /\ \A u \in Threads : u # c => pc[u] = "idle" /\ pc'[u] = "idle"
      BY <2>2, OneCall, SMTT(60) DEF PopCas, LockedIndexInv, GoTo, TypeOK
    <3>1. AtRest
      BY <3>0 DEF AtRest
    <3>2. CASE head' = NextSlot(head) /\ removed' = removed + 1 /\ idx' = idx /\ pc'[c] = "move"
      <4>1. buffer[head] = removed + 1 /\ pushed - removed \in 1 .. Capacity
        BY <2>2, <3>0, <3>2, HeadAdvances DEF PopCas
      <4>2. OnlyMover(c)'
        BY <3>0, <3>2 DEF OnlyMover
      <4>3. Taken' = Append(rcvd', buffer'[idx'[c]])
        BY <1>1, <4>2, TakenWithMoverNext
      <4>4. Taken = rcvd
        BY <1>1, <3>1, TakenAtRest
      <4>5. Taken' = Append(Taken, removed + 1)
        BY <2>2, <3>0, <3>2, <4>1, <4>3, <4>4 DEF PopCas
      <4> QED BY <2>2, <3>2, <4>1, <4>5 DEF PopCas
    <3>3. CASE head' = head /\ removed' = removed /\ pc'[c] = "loadTail"
      <4>1. AtRest'
        BY <3>0, <3>3 DEF AtRest
      <4> QED BY <1>2, <2>2, <3>1, <3>3, <4>1 DEF PopCas
    <3> QED BY <2>2, <3>0, <3>2, <3>3 DEF PopCas, GoTo, TypeOK
  <2>3. CASE PopMove(c)
    <3>0. /\ pc[c] = "move" /\ pc'[c] = "idle"
          /\ \A u \in Threads : u # c => pc[u] = "idle" /\ pc'[u] = "idle"
      BY <2>3, OneCall DEF PopMove, Return, GoTo, TypeOK
    <3>1. OnlyMover(c) /\ AtRest'
      BY <3>0 DEF OnlyMover, AtRest
    <3>2. Taken = Append(rcvd, buffer[idx[c]]) /\ Taken' = rcvd'
      BY <1>1, <3>1, TakenWithMover, TakenAtRestNext
    <3> QED BY <2>3, <3>2 DEF PopMove
  <2> QED BY <2>1, <2>2, <2>3 DEF Pop
<1>7. CASE DepthLoadTail \/ DepthLoadHead \/ UNCHANGED vars
  <2> HIDE DEF LockedInv
  <2>1. UNCHANGED <<buffer, pc, idx, rcvd>>
    BY <1>7 DEF DepthLoadTail, DepthLoadHead, vars, ringVars
  <2>2. Taken' = Taken
    BY <2>1 DEF Taken, InHand
  <2> QED BY <1>7, <2>2 DEF DepthLoadTail, DepthLoadHead, vars, ringVars
<1> QED BY <1>5, <1>6, <1>7 DEF Next

\* The mapped queue, as a function of the counters.
LockedState == /\ pushed \in Nat /\ removed \in Nat /\ pushed - removed \in 0 .. Capacity
               /\ Contents = Ranks(removed + 1, pushed - removed)

\* Every step of the ring is a step of the queue, or changes nothing in it.
LEMMA LockedStepRefines ==
    ASSUME OneCallAtATime, LockedInv, LockedInv', LockedState, LockedState', [Next]_vars
    PROVE  [Fifo!Next]_(Fifo!vars)
<1> USE DEF LockedState
<1>1. CASE /\ pushed' = pushed + 1 /\ removed' = removed /\ pushed - removed < Capacity
           /\ Taken' = Taken /\ dropped' = dropped
  <2>1. /\ Len(Ranks(removed + 1, pushed - removed)) < Capacity
        /\ Ranks(removed + 1, pushed + 1 - removed)
             = Append(Ranks(removed + 1, pushed - removed), pushed + 1)
    BY <1>1, EnqueueByCounters
  <2>2. Contents' = Ranks(removed + 1, pushed + 1 - removed)
    BY <1>1
  <2> QED BY <1>1, <2>1, <2>2 DEF Taken, Fifo!Next, Fifo!Enqueue
<1>2. CASE /\ pushed' = pushed /\ removed' = removed + 1 /\ pushed - removed > 0
           /\ \/ Taken' = Append(Taken, removed + 1) /\ dropped' = dropped
              \/ /\ Taken' = Taken /\ dropped' = dropped + 1
                 /\ pushed - removed = Capacity /\ Policy = "DropOldest"
  <2>1. /\ Ranks(removed + 1, pushed - removed) # <<>>
        /\ Ranks(removed + 2, pushed - (removed + 1)) = Tail(Ranks(removed + 1, pushed - removed))
    BY <1>2, DequeueByCounters
  <2>a. /\ Head(Ranks(removed + 1, pushed - removed)) = removed + 1
        /\ Len(Ranks(removed + 1, pushed - removed)) = pushed - removed
    <3>1. pushed - removed \in Nat /\ removed \in Nat /\ pushed - removed > 0
      BY <1>2
    <3> QED BY <3>1 DEF Ranks
  <2>2. removed' + 1 = removed + 2
    BY <1>2
  <2>3. Contents' = Tail(Contents)
    BY <1>2, <2>1, <2>2
  <2> QED BY <1>2, <2>1, <2>a, <2>3 DEF Taken, Fifo!Next, Fifo!Dequeue, Fifo!Discard
<1>3. CASE pushed' = pushed /\ removed' = removed /\ Taken' = Taken /\ dropped' = dropped
  BY <1>3 DEF Taken, Fifo!vars
<1> QED BY <1>1, <1>2, <1>3, LockedStep

\* A ring whose calls hold mutex_ is a bounded FIFO queue that, under
\* DropOldest, discards its oldest frame and only when it is full: no frame is
\* doubled, overtaken, or lost without being counted in dropped_count_,
\* although TryPush gives up on its compare-exchange after one attempt.
THEOREM LockedRingRefinesFifo ==
    ASSUME OneCallAtATime
    PROVE  Spec => RefinesFifo
<1>1. Init => Fifo!Init
  BY InitRefines
<1>2. LockedInv => LockedState
  BY ContentsAreRanks DEF LockedInv, TypeOK, LockedState
<1>3. LockedInv' => LockedState'
  BY <1>2, PTL
<1>4. LockedInv /\ LockedInv' /\ [Next]_vars => [Fifo!Next]_(Fifo!vars)
  BY <1>2, <1>3, LockedStepRefines
<1>5. LockedInv /\ [Next]_vars => LockedInv'
  BY NextLockedInv
<1> QED BY <1>1, <1>4, <1>5, InitLockedInv, PTL DEF Spec, RefinesFifo, Fifo!Spec
=============================================================================
