----------------------------- MODULE Gpu_proofs -----------------------------
(***************************************************************************)
(* Proofs about the memory, the streams and the engine of the GPU.         *)
(*                                                                         *)
(*   MemoryPool    the module itself, for any slabs, threads and handles: a*)
(*                 slab is in one place only, the free list's links are    *)
(*                 right, and a reference count is the number of handles   *)
(*   GpuStreams    any coroutines, any number of copies and any pool of    *)
(*                 fewer than 2 ^ 16 slabs, as long as the transfers       *)
(*                 succeed.  The error of a transfer that fails races with *)
(*                 the thread that issued it and may resume the coroutine a*)
(*                 second time: see the README.                            *)
(*   Inference     one worker's features (FeaturesAreOfFrame)              *)
(***************************************************************************)
EXTENDS MemoryPool, Numbers, FiniteSetTheorems, FunctionTheorems

USE PoolAssumption

HandlesOf(s) == {h \in Handles : handle[h] = s}

\* A count is exact for the slabs that are held: RefCountsHandles with a name
\* for the set, and what DropReference decides on.
CountInv == \A s \in Slabs : Held(s) => ref[s] = Cardinality(HandlesOf(s))

IInv == PoolInv /\ CountInv

-----------------------------------------------------------------------------
(* The free list as a sequence                                             *)

\* Popping: what is left is the rest, in order.
LEMMA TailFacts ==
    ASSUME NEW q \in Seq(Slabs), q # <<>>
    PROVE  /\ Tail(q) \in Seq(Slabs) /\ Len(Tail(q)) = Len(q) - 1 /\ Len(q) \in Nat
           /\ \A i \in 1 .. Len(q) - 1 : Tail(q)[i] = q[i + 1]
           /\ DOMAIN q = 1 .. Len(q) /\ DOMAIN Tail(q) = 1 .. Len(q) - 1
           /\ Len(q) >= 1 /\ q[1] \in Slabs
           /\ Len(q) = 1 => Tail(q) = <<>>
           /\ Len(q) # 1 => Tail(q) # <<>> /\ Tail(q)[1] = q[2]
           /\ \A i \in 1 .. Len(q) - 1 : i = Len(Tail(q)) <=> i + 1 = Len(q)
<1>1. /\ Tail(q) \in Seq(Slabs) /\ Len(Tail(q)) = Len(q) - 1 /\ Len(q) \in Nat
      /\ \A i \in 1 .. Len(q) - 1 : Tail(q)[i] = q[i + 1]
      /\ DOMAIN q = 1 .. Len(q) /\ DOMAIN Tail(q) = 1 .. Len(q) - 1
      /\ Len(q) >= 1 /\ q[1] \in Slabs
  OBVIOUS
<1>2. ASSUME NEW r \in Seq(Slabs) PROVE r = <<>> <=> Len(r) = 0
  OBVIOUS
<1>3. Len(q) = 1 <=> Tail(q) = <<>>
  <2>1. Tail(q) = <<>> <=> Len(Tail(q)) = 0
    BY <1>1, <1>2
  <2>2. Len(q) = 1 <=> Len(Tail(q)) = 0
    BY <1>1
  <2> QED BY <2>1, <2>2
<1>5. Len(q) # 1 => Tail(q)[1] = q[2]
  <2>1. Len(q) # 1 => 1 \in 1 .. Len(q) - 1 /\ 1 + 1 = 2
    BY <1>1
  <2> QED BY <1>1, <2>1
<1>4. \A i \in 1 .. Len(q) - 1 : i = Len(Tail(q)) <=> i + 1 = Len(q)
  BY <1>1
<1> QED BY <1>1, <1>3, <1>4, <1>5

\* Pushing: the slab comes before the others.
LEMMA ConsFacts ==
    ASSUME NEW q \in Seq(Slabs), NEW s \in Slabs
    PROVE  /\ <<s>> \o q \in Seq(Slabs) /\ Len(<<s>> \o q) = Len(q) + 1 /\ Len(q) \in Nat
           /\ (<<s>> \o q)[1] = s
           /\ \A i \in 1 .. Len(q) : (<<s>> \o q)[i + 1] = q[i]
           /\ DOMAIN q = 1 .. Len(q) /\ DOMAIN (<<s>> \o q) = 1 .. Len(q) + 1
  OBVIOUS

\* Create's list satisfies the invariant.
LEMMA InitIInv ==
    ASSUME Init PROVE IInv
<1> USE DEF Init
<1>1. \A i \in DOMAIN InitialList : InitialList[i] \in Slabs
  OBVIOUS
<1>2. First(InitialList) \in Slabs \cup {Nil}
  BY <1>1 DEF First
<1>3. ASSUME NEW s \in Slabs
      PROVE  /\ next[s] \in Slabs \cup {Nil}
             /\ \A i \in DOMAIN InitialList : InitialList[i] = s =>
                  next[s] = IF i = Len(InitialList) THEN Nil ELSE InitialList[i + 1]
  <2> DEFINE k == CHOOSE i \in DOMAIN InitialList : InitialList[i] = s
  <2>1. k \in DOMAIN InitialList /\ InitialList[k] = s
    OBVIOUS
  <2>2. next[s] = IF k = Len(InitialList) THEN Nil ELSE InitialList[k + 1]
    OBVIOUS
  <2> HIDE DEF k
  <2>3. \A i \in DOMAIN InitialList : InitialList[i] = s => i = k
    BY <2>1
  <2>4. k # Len(InitialList) => k + 1 \in DOMAIN InitialList
    BY <2>1
  <2> QED BY <1>1, <2>1, <2>2, <2>3, <2>4
<1>4. TypeOK
  BY <1>2, <1>3 DEF TypeOK, Ptr
<1>5. OnePlace
  BY DEF OnePlace, OnList, Held, InTransit
<1>6. ListLinked
  BY <1>1, <1>3 DEF ListLinked
<1>7. TagProtects /\ NodeInv /\ CountInv
  BY DEF TagProtects, NodeInv, CountInv, Held
<1> QED BY <1>4, <1>5, <1>6, <1>7 DEF IInv, PoolInv

-----------------------------------------------------------------------------
(* Steps of a thread's own locals                                          *)

\* The load of head, and the reads that follow it.
LEMMA LocalStepInv ==
    ASSUME IInv, NEW t \in Users, AcquireLoad(t) \/ PopReadNext(t) \/ PushLoad(t)
    PROVE  IInv'
<1> USE DEF IInv, PoolInv, listVars, GoTo
<1>0. UNCHANGED <<head, next, stack, ref, avail, handle, node>>
  BY DEF AcquireLoad, PopReadNext, PushLoad
<1>1. TypeOK'
  <2>1. CASE AcquireLoad(t)
    BY <1>0, <2>1 DEF TypeOK, AcquireLoad
  <2>2. CASE PopReadNext(t)
    <3>1. old[t].ptr \in Slabs
      BY <2>2 DEF TypeOK, Ptr, TagProtects, PopReadNext
    <3>2. next[old[t].ptr] \in Ptr
      BY <3>1 DEF TypeOK
    <3> QED BY <1>0, <2>2, <3>2, SMTT(60) DEF TypeOK, PopReadNext
  <2>3. CASE PushLoad(t)
    BY <1>0, <2>3 DEF TypeOK, PushLoad
  <2> QED BY <2>1, <2>2, <2>3
<1>2. OnePlace' /\ ListLinked' /\ CountInv'
  BY <1>0 DEF OnePlace, ListLinked, CountInv, OnList, Held, InTransit, HandlesOf
<1>3. TagProtects'
  <2>1. CASE AcquireLoad(t)
    BY <1>0, <2>1 DEF TypeOK, TagProtects, AcquireLoad
  <2>2. CASE PopReadNext(t)
    BY <1>0, <2>2, SMTT(60) DEF TypeOK, TagProtects, PopReadNext
  <2>3. CASE PushLoad(t)
    BY <1>0, <2>3 DEF TypeOK, TagProtects, PushLoad
  <2> QED BY <2>1, <2>2, <2>3
<1>4. NodeInv'
  <2>1. \E to \in {"popNext", "popCas", "pushLink"} :
           /\ pc' = [pc EXCEPT ![t] = to]
           /\ to = "pushLink" <=> pc[t] = "pushLoad"
           /\ pc[t] \in {"idle", "popNext", "pushLoad"}
    BY DEF AcquireLoad, PopReadNext, PushLoad
  <2>2. \A u \in Users : u # t => pc'[u] = pc[u]
    BY <2>1 DEF TypeOK
  <2>3. /\ pc'[t] \in {"popNext", "popCas", "pushLink"}
        /\ pc'[t] = "pushLink" <=> pc[t] = "pushLoad"
        /\ pc[t] \in {"idle", "popNext", "pushLoad"}
    BY <2>1 DEF TypeOK
  <2> QED BY <1>0, <2>2, <2>3 DEF NodeInv
<1> QED BY <1>1, <1>2, <1>3, <1>4

\* The counter steps touch neither the list nor the handles.
LEMMA CountStepInv ==
    ASSUME IInv, NEW t \in Users, AcquireCount(t) \/ ReleaseCount(t)
    PROVE  IInv'
<1> USE DEF IInv, PoolInv, listVars, localVars, GoTo
<1>0. UNCHANGED <<head, next, stack, ref, handle, old, nxt, node>>
  BY DEF AcquireCount, ReleaseCount
<1>1. avail' \in 0 .. Word - 1
  BY DEF TypeOK, AcquireCount, ReleaseCount
<1>2. TypeOK'
  BY <1>0, <1>1 DEF TypeOK, AcquireCount, ReleaseCount
<1>3. OnePlace' /\ ListLinked' /\ CountInv'
  BY <1>0 DEF OnePlace, ListLinked, CountInv, OnList, Held, InTransit, HandlesOf
<1>4. TagProtects'
  <2>1. CASE AcquireCount(t)
    BY <1>0, <2>1 DEF TypeOK, TagProtects, AcquireCount
  <2>2. CASE ReleaseCount(t)
    BY <1>0, <2>2 DEF TypeOK, TagProtects, ReleaseCount
  <2> QED BY <2>1, <2>2
<1>5. NodeInv'
  BY <1>0, ZenonT(60) DEF TypeOK, NodeInv, AcquireCount, ReleaseCount
<1> QED BY <1>2, <1>3, <1>4, <1>5

\* The link of a slab that is about to be pushed is nobody else's: it is not on
\* the list, and no other thread holds it.
LEMMA PushLinkInv ==
    ASSUME IInv, NEW t \in Users, PushLink(t)
    PROVE  IInv'
<1> USE DEF IInv, PoolInv, localVars, GoTo, PushLink
<1>0. node[t] \in Slabs /\ old[t].ptr \in Ptr
  BY DEF TypeOK, Ptr, NodeInv
<1>1. ~OnList(node[t])
  BY <1>0 DEF OnePlace, InTransit
<1>2. TypeOK'
  BY <1>0 DEF TypeOK
<1>3. OnePlace' /\ CountInv' /\ NodeInv'
  <2>1. OnePlace' /\ CountInv'
    BY SMTT(60) DEF OnePlace, CountInv, OnList, Held, InTransit, HandlesOf
  <2>2. NodeInv'
    BY DEF TypeOK, NodeInv
  <2> QED BY <2>1, <2>2
<1>4. \A s \in Slabs : s # node[t] => next'[s] = next[s]
  BY DEF TypeOK
<1>5. \A i \in DOMAIN stack : stack[i] \in Slabs /\ stack[i] # node[t]
  BY <1>1 DEF OnList, TypeOK
<1>6. ListLinked'
  BY <1>4, <1>5 DEF ListLinked
<1>7. ASSUME NEW u \in Users, pc[u] = "popCas", old[u] = head
      PROVE  next'[head.ptr] = next[head.ptr]
  <2>1. head.ptr \in Slabs /\ head.ptr = First(stack)
    BY <1>7 DEF TypeOK, Ptr, TagProtects, ListLinked
  <2>2. stack # <<>>
    BY <2>1 DEF First
  <2>3. head.ptr = stack[1] /\ 1 \in DOMAIN stack
    BY <2>1, <2>2, TailFacts DEF First, TypeOK
  <2> QED BY <1>4, <1>5, <2>1, <2>3
<1>8. ASSUME NEW u \in Users, u # t, pc[u] = "pushCas"
      PROVE  next'[node[u]] = next[node[u]]
  <2>1. node[u] \in Slabs /\ node[u] # node[t]
    BY <1>0, <1>8 DEF TypeOK, Ptr, NodeInv, OnePlace
  <2> QED BY <1>4, <2>1
<1>9. next'[node[t]] = old[t].ptr
  BY <1>0 DEF TypeOK
<1>10. TagProtects'
  BY <1>7, <1>8, <1>9, SMTT(60) DEF TypeOK, TagProtects
<1> QED BY <1>2, <1>3, <1>6, <1>10

-----------------------------------------------------------------------------
(* The exchanges of head                                                   *)

\* A pop whose tag still matches takes the top slab and leaves the rest linked.
LEMMA PopCasInv ==
    ASSUME IInv, NEW t \in Users, PopCas(t)
    PROVE  IInv'
<1> USE DEF IInv, PoolInv, GoTo, PopCas
<1>1. CASE /\ old' = [old EXCEPT ![t] = head]
           /\ pc' = [pc EXCEPT ![t] = IF head.ptr = Nil THEN "idle" ELSE "popNext"]
           /\ UNCHANGED <<head, stack, node>>
  <2>1. TypeOK'
    BY <1>1 DEF TypeOK
  <2>2. OnePlace' /\ ListLinked' /\ CountInv'
    BY <1>1 DEF OnePlace, ListLinked, CountInv, OnList, Held, InTransit, HandlesOf
  <2>3. TagProtects'
    BY <1>1 DEF TypeOK, TagProtects
  <2>4. NodeInv'
    BY <1>1 DEF TypeOK, NodeInv
  <2> QED BY <2>1, <2>2, <2>3, <2>4
<1>2. CASE /\ head = old[t]
           /\ head' = [ptr |-> nxt[t], tag |-> head.tag + 1]
           /\ stack' = Tail(stack)
           /\ node' = [node EXCEPT ![t] = old[t].ptr]
           /\ pc' = [pc EXCEPT ![t] = "sub"]
           /\ UNCHANGED old
  <2> DEFINE s == head.ptr
  <2>1. s \in Slabs /\ s = First(stack) /\ nxt[t] = next[s]
    BY <1>2 DEF TypeOK, Ptr, TagProtects, ListLinked
  <2>2. stack # <<>> /\ stack \in Seq(Slabs)
    BY <2>1 DEF First, TypeOK
  <2>3. s = stack[1] /\ 1 \in DOMAIN stack
    BY <2>1, <2>2, TailFacts DEF First
  <2>4. OnList(s) /\ ~Held(s) /\ ~InTransit(s)
    BY <2>1, <2>3 DEF OnePlace, OnList
  <2>5. node' = [node EXCEPT ![t] = s] /\ node[t] = Nil
    BY <1>2 DEF NodeInv
  <2>6. \A r \in Slabs : OnList(r)' <=> OnList(r) /\ r # s
    <3>1. \A i, j \in DOMAIN stack : stack[i] = stack[j] => i = j
      BY DEF OnePlace
    <3>2. ASSUME NEW r \in Slabs, NEW i \in DOMAIN Tail(stack), Tail(stack)[i] = r
          PROVE  OnList(r) /\ r # s
      <4>1. i + 1 \in DOMAIN stack /\ stack[i + 1] = r /\ i + 1 # 1
        BY <2>2, <3>2, TailFacts, SMTT(60)
      <4> QED BY <2>3, <3>1, <4>1 DEF OnList
    <3>3. ASSUME NEW r \in Slabs, NEW i \in DOMAIN stack, stack[i] = r, r # s
          PROVE  \E j \in DOMAIN Tail(stack) : Tail(stack)[j] = r
      <4>1. i # 1 /\ i - 1 \in DOMAIN Tail(stack) /\ Tail(stack)[i - 1] = r
        BY <2>2, <2>3, <3>3, TailFacts, SMTT(60)
      <4> QED BY <4>1
    <3> QED BY <1>2, <3>2, <3>3 DEF OnList
  <2>7. \A r \in Slabs : /\ Held(r)' <=> Held(r)
                         /\ InTransit(r)' <=> InTransit(r) \/ r = s
    <3>1. \A u \in Users : node'[u] = IF u = t THEN s ELSE node[u]
      BY <2>5 DEF TypeOK
    <3>2. handle' = handle /\ node[t] \notin Slabs
      BY <2>5, PoolAssumption
    <3> QED BY <3>1, <3>2, SMTT(60) DEF Held, InTransit
  <2>8. TypeOK'
    <3>1. Tail(stack) \in Seq(Slabs) /\ stack' = Tail(stack)
      BY <1>2, <2>2, TailFacts
    <3>2. head' \in [ptr : Ptr, tag : Nat] /\ UNCHANGED <<next, ref, avail, handle, old, nxt>>
      BY <1>2 DEF TypeOK
    <3>3. node' \in [Users -> Ptr] /\ pc' = [pc EXCEPT ![t] = "sub"]
      BY <1>2, <2>1, <2>5 DEF TypeOK, Ptr
    <3> QED BY <3>1, <3>2, <3>3, ZenonT(60) DEF TypeOK
  <2>9. \A u, v \in Users : node'[u] # Nil /\ node'[u] = node'[v] => u = v
    BY <2>1, <2>4, <2>5, SMTT(60) DEF OnePlace, InTransit, TypeOK
  <2>10. \A i, j \in DOMAIN Tail(stack) : Tail(stack)[i] = Tail(stack)[j] => i = j
    <3>1. \A i \in DOMAIN Tail(stack) :
             /\ i \in Int /\ i + 1 \in DOMAIN stack /\ Tail(stack)[i] = stack[i + 1]
      BY <2>2, TailFacts
    <3>2. \A i, j \in DOMAIN stack : stack[i] = stack[j] => i = j
      BY DEF OnePlace
    <3> QED BY <3>1, <3>2, SMTT(60)
  <2>11. OnePlace'
    BY <1>2, <2>4, <2>6, <2>7, <2>9, <2>10 DEF OnePlace
  <2>12. next[s] = IF Len(stack) = 1 THEN Nil ELSE stack[2]
    <3>1. next[stack[1]] = IF 1 = Len(stack) THEN Nil ELSE stack[1 + 1]
      BY <2>3 DEF ListLinked
    <3>2. 1 + 1 = 2
      OBVIOUS
    <3> QED BY <2>3, <3>1, <3>2
  <2>13. First(Tail(stack)) = next[s]
    <3>1. CASE Len(stack) = 1
      <4>1. Tail(stack) = <<>>
        BY <2>2, <3>1, TailFacts
      <4> QED BY <2>12, <3>1, <4>1 DEF First
    <3>2. CASE Len(stack) # 1
      <4>1. Tail(stack) # <<>> /\ Tail(stack)[1] = stack[2]
        BY <2>2, <3>2, TailFacts
      <4> QED BY <2>12, <3>2, <4>1 DEF First
    <3> QED BY <3>1, <3>2
  <2>14. \A i \in DOMAIN Tail(stack) :
           next[Tail(stack)[i]] = IF i = Len(Tail(stack)) THEN Nil ELSE Tail(stack)[i + 1]
    <3> SUFFICES ASSUME NEW i \in DOMAIN Tail(stack)
                 PROVE  next[Tail(stack)[i]] = IF i = Len(Tail(stack)) THEN Nil ELSE Tail(stack)[i + 1]
      OBVIOUS
    <3>1. i \in 1 .. Len(stack) - 1 /\ i + 1 \in DOMAIN stack
      BY <2>2, TailFacts
    <3>2. next[stack[i + 1]] = IF i + 1 = Len(stack) THEN Nil ELSE stack[(i + 1) + 1]
      BY <3>1 DEF ListLinked
    <3>3. Tail(stack)[i] = stack[i + 1] /\ (i = Len(Tail(stack)) <=> i + 1 = Len(stack))
      BY <2>2, <3>1, TailFacts
    <3>4. i # Len(Tail(stack)) => Tail(stack)[i + 1] = stack[(i + 1) + 1]
      BY <2>2, <3>1, TailFacts, SMTT(60)
    <3> QED BY <3>2, <3>3, <3>4
  <2>15. ListLinked'
    BY <1>2, <2>1, <2>13, <2>14, SMTT(60) DEF ListLinked
  <2>16. TagProtects'
    BY <1>2 DEF TypeOK, TagProtects
  <2>17. NodeInv'
    BY <1>2, <2>1 DEF TypeOK, NodeInv
  <2>18. CountInv'
    BY <2>7 DEF CountInv, HandlesOf
  <2> QED BY <2>8, <2>11, <2>15, <2>16, <2>17, <2>18
<1> QED BY <1>1, <1>2

\* A push whose tag still matches puts the slab on top of the list it read.
LEMMA PushCasInv ==
    ASSUME IInv, NEW t \in Users, PushCas(t)
    PROVE  IInv'
<1> USE DEF IInv, PoolInv, GoTo, PushCas
<1>1. CASE /\ old' = [old EXCEPT ![t] = head]
           /\ pc' = [pc EXCEPT ![t] = "pushLink"]
           /\ UNCHANGED <<head, stack, node>>
  <2>1. TypeOK'
    BY <1>1 DEF TypeOK
  <2>2. OnePlace' /\ ListLinked' /\ CountInv'
    BY <1>1, SMTT(60) DEF OnePlace, ListLinked, CountInv, OnList, Held, InTransit, HandlesOf
  <2>3. TagProtects'
    BY <1>1 DEF TypeOK, TagProtects
  <2>4. NodeInv'
    BY <1>1 DEF TypeOK, NodeInv
  <2> QED BY <2>1, <2>2, <2>3, <2>4
<1>2. CASE /\ head = old[t]
           /\ head' = [ptr |-> node[t], tag |-> head.tag + 1]
           /\ stack' = <<node[t]>> \o stack
           /\ node' = [node EXCEPT ![t] = Nil]
           /\ pc' = [pc EXCEPT ![t] = "add"]
           /\ UNCHANGED old
  <2> DEFINE s == node[t]
  <2>1. s \in Slabs /\ next[s] = head.ptr /\ stack \in Seq(Slabs)
    BY <1>2 DEF TypeOK, Ptr, NodeInv, TagProtects
  <2>2. ~OnList(s) /\ ~Held(s) /\ InTransit(s) /\ (\A u \in Users : node[u] = s => u = t)
    BY <2>1 DEF OnePlace, InTransit
  <2> HIDE DEF s
  <2>3. node' = [node EXCEPT ![t] = Nil] /\ stack' = <<s>> \o stack
    BY <1>2 DEF s
  <2>4. \A r \in Slabs : OnList(r)' <=> OnList(r) \/ r = s
    <3>1. ASSUME NEW r \in Slabs, NEW i \in DOMAIN (<<s>> \o stack), (<<s>> \o stack)[i] = r
          PROVE  OnList(r) \/ r = s
      <4>1. CASE i = 1
        BY <2>1, <3>1, <4>1, ConsFacts
      <4>2. CASE i # 1
        <5>1. i - 1 \in DOMAIN stack /\ stack[i - 1] = r
          BY <2>1, <3>1, <4>2, ConsFacts, SMTT(60)
        <5> QED BY <5>1 DEF OnList
      <4> QED BY <4>1, <4>2
    <3>2. ASSUME NEW r \in Slabs, OnList(r) \/ r = s
          PROVE  \E i \in DOMAIN (<<s>> \o stack) : (<<s>> \o stack)[i] = r
      <4>1. CASE r = s
        <5>1. 1 \in DOMAIN (<<s>> \o stack) /\ (<<s>> \o stack)[1] = s
          BY <2>1, ConsFacts
        <5> QED BY <4>1, <5>1
      <4>2. CASE OnList(r)
        <5>1. PICK i \in DOMAIN stack : stack[i] = r
          BY <4>2 DEF OnList
        <5>2. i + 1 \in DOMAIN (<<s>> \o stack) /\ (<<s>> \o stack)[i + 1] = r
          BY <2>1, <5>1, ConsFacts, SMTT(60)
        <5> QED BY <5>2
      <4> QED BY <3>2, <4>1, <4>2
    <3> QED BY <2>3, <3>1, <3>2 DEF OnList
  <2>5. \A r \in Slabs : /\ Held(r)' <=> Held(r)
                         /\ InTransit(r)' <=> InTransit(r) /\ r # s
    <3>1. \A u \in Users : node'[u] = IF u = t THEN Nil ELSE node[u]
      BY <2>3 DEF TypeOK
    <3>2. handle' = handle /\ node[t] = s /\ Nil \notin Slabs
      BY PoolAssumption DEF s
    <3> QED BY <2>2, <3>1, <3>2, SMTT(60) DEF Held, InTransit
  <2>6. TypeOK'
    <3>1. stack' \in Seq(Slabs)
      BY <2>1, <2>3, ConsFacts
    <3>2. head' \in [ptr : Ptr, tag : Nat] /\ UNCHANGED <<next, ref, avail, handle, old, nxt>>
      BY <1>2, <2>1, SMTT(60) DEF TypeOK, Ptr, s
    <3>3. node' \in [Users -> Ptr] /\ pc' = [pc EXCEPT ![t] = "add"]
      BY <1>2, <2>3 DEF TypeOK, Ptr
    <3> QED BY <3>1, <3>2, <3>3, ZenonT(60) DEF TypeOK
  <2>7. \A u, v \in Users : node'[u] # Nil /\ node'[u] = node'[v] => u = v
    BY <2>3 DEF OnePlace, TypeOK
  <2>8. \A i \in DOMAIN stack : stack[i] # s
    BY <2>2 DEF OnList
  <2>9. \A i, j \in DOMAIN (<<s>> \o stack) : (<<s>> \o stack)[i] = (<<s>> \o stack)[j] => i = j
    <3>1. \A i \in DOMAIN (<<s>> \o stack) :
            i # 1 => i - 1 \in DOMAIN stack /\ (<<s>> \o stack)[i] = stack[i - 1]
      BY <2>1, ConsFacts, SMTT(60)
    <3>2. (<<s>> \o stack)[1] = s /\ DOMAIN (<<s>> \o stack) \subseteq Nat
      BY <2>1, ConsFacts
    <3> QED BY <2>8, <3>1, <3>2 DEF OnePlace
  <2>10. OnePlace'
    BY <2>2, <2>3, <2>4, <2>5, <2>7, <2>9 DEF OnePlace
  <2>11. First(<<s>> \o stack) = s
    BY <2>1, ConsFacts DEF First
  <2>12. next[s] = IF Len(stack) = 0 THEN Nil ELSE stack[1]
    BY <2>1 DEF ListLinked, First
  <2>13. \A i \in DOMAIN (<<s>> \o stack) :
           next[(<<s>> \o stack)[i]] = IF i = Len(<<s>> \o stack) THEN Nil ELSE (<<s>> \o stack)[i + 1]
    <3>1. ASSUME NEW i \in DOMAIN stack
          PROVE  next[(<<s>> \o stack)[i + 1]]
                   = IF i + 1 = Len(<<s>> \o stack) THEN Nil ELSE (<<s>> \o stack)[i + 2]
      <4>1. next[stack[i]] = IF i = Len(stack) THEN Nil ELSE stack[i + 1]
        BY DEF ListLinked
      <4>2. (<<s>> \o stack)[i + 1] = stack[i] /\ (i + 1 = Len(<<s>> \o stack) <=> i = Len(stack))
        BY <2>1, ConsFacts, SMTT(60)
      <4>3. i # Len(stack) => (<<s>> \o stack)[i + 2] = stack[i + 1]
        <5>1. i # Len(stack) => i + 1 \in 1 .. Len(stack) /\ (i + 1) + 1 = i + 2
          BY <2>1, ConsFacts, SMTT(60)
        <5>2. \A k \in 1 .. Len(stack) : (<<s>> \o stack)[k + 1] = stack[k]
          BY <2>1, ConsFacts
        <5> QED BY <5>1, <5>2, ZenonT(30)
      <4> QED BY <4>1, <4>2, <4>3
    <3>2. next[(<<s>> \o stack)[1]] = IF 1 = Len(<<s>> \o stack) THEN Nil ELSE (<<s>> \o stack)[2]
      <4>1. Len(stack) # 0 => 1 \in 1 .. Len(stack) /\ 1 + 1 = 2
        BY <2>1, ConsFacts
      <4> QED BY <2>1, <2>12, <4>1, ConsFacts
    <3>3. \A i \in DOMAIN (<<s>> \o stack) :
            i # 1 => i - 1 \in DOMAIN stack /\ (i - 1) + 1 = i /\ (i - 1) + 2 = i + 1
      BY <2>1, ConsFacts, SMTT(60)
    <3> QED BY <3>1, <3>2, <3>3, SMTT(60)
  <2>14. ListLinked'
    BY <1>2, <2>3, <2>11, <2>13 DEF ListLinked, s
  <2>15. TagProtects'
    BY <1>2 DEF TypeOK, TagProtects
  <2>16. NodeInv'
    BY <1>2 DEF TypeOK, NodeInv
  <2>17. CountInv'
    BY <2>5 DEF CountInv, HandlesOf
  <2> QED BY <2>6, <2>10, <2>14, <2>15, <2>16, <2>17
<1> QED BY <1>1, <1>2
-----------------------------------------------------------------------------
(* Handles                                                                 *)

\* Acquire hands the slab it holds to an empty handle with a count of one.
LEMMA AcquireReturnInv ==
    ASSUME IInv, NEW t \in Users, NEW h \in Handles, AcquireReturn(t, h)
    PROVE  IInv'
<1> USE DEF IInv, PoolInv, GoTo, AcquireReturn, listVars
<1> SUFFICES ASSUME NEW s \in Slabs, s = node[t] PROVE IInv'
  BY SMTT(60) DEF TypeOK, Ptr, NodeInv
<1>1. s \in Slabs /\ ~OnList(s) /\ ~Held(s) /\ \A u \in Users : node[u] = s => u = t
  BY DEF TypeOK, Ptr, NodeInv, OnePlace, InTransit
<1>2. handle' = [handle EXCEPT ![h] = s] /\ ref' = [ref EXCEPT ![s] = 1]
  OBVIOUS
<1>3. TypeOK'
  BY <1>1, <1>2, SMTT(60) DEF TypeOK, Ptr
<1>4. \A r \in Slabs : /\ Held(r)' <=> Held(r) \/ r = s
                       /\ InTransit(r)' <=> InTransit(r) /\ r # s
                       /\ OnList(r)' <=> OnList(r)
  <2>1. \A u \in Users : node'[u] = IF u = t THEN Nil ELSE node[u]
    BY DEF TypeOK
  <2>2. \A g \in Handles : handle'[g] = IF g = h THEN s ELSE handle[g]
    BY <1>2 DEF TypeOK
  <2> QED BY <1>1, <2>1, <2>2 DEF Held, InTransit, OnList
<1>5. \A u, v \in Users : node'[u] # Nil /\ node'[u] = node'[v] => u = v
  BY DEF OnePlace, TypeOK
<1>6. OnePlace'
  BY <1>1, <1>4, <1>5 DEF OnePlace
<1>7. ListLinked' /\ TagProtects' /\ NodeInv'
  <2>1. ListLinked'
    BY DEF ListLinked
  <2>2. TagProtects'
    BY SMTT(60) DEF TypeOK, TagProtects
  <2>3. NodeInv'
    BY SMTT(60) DEF TypeOK, NodeInv
  <2> QED BY <2>1, <2>2, <2>3
<1>8. CountInv'
  <2>1. HandlesOf(s)' = {h}
    BY <1>1, <1>2 DEF HandlesOf, Held, TypeOK
  <2>2. Cardinality(HandlesOf(s)') = ref'[s]
    BY <1>1, <1>2, <2>1, FS_Singleton, ZenonT(60) DEF TypeOK
  <2>3. ASSUME NEW r \in Slabs, r # s, Held(r)' PROVE Cardinality(HandlesOf(r)') = ref'[r]
    <3>1. HandlesOf(r)' = HandlesOf(r)
      BY <1>2, <2>3 DEF HandlesOf, TypeOK
    <3>2. Held(r) /\ ref'[r] = ref[r]
      BY <1>2, <1>4, <2>3 DEF TypeOK
    <3> QED BY <3>1, <3>2 DEF CountInv
  <2> QED BY <2>2, <2>3 DEF CountInv
<1> QED BY <1>3, <1>6, <1>7, <1>8

\* The handles of a slab are finitely many, and some exist if it is held.
LEMMA HandlesFinite ==
    ASSUME TypeOK, NEW s \in Slabs
    PROVE  /\ IsFiniteSet(HandlesOf(s)) /\ Cardinality(HandlesOf(s)) \in Nat
           /\ Held(s) <=> HandlesOf(s) # {}
           /\ Cardinality(HandlesOf(s)) = 1 =>
                \A g, h \in Handles : handle[g] = s /\ handle[h] = s => g = h
<1>1. IsFiniteSet(HandlesOf(s))
  BY FS_Subset DEF HandlesOf
<1>2. Cardinality(HandlesOf(s)) \in Nat
  BY <1>1, FS_CardinalityType
<1>3. Held(s) <=> HandlesOf(s) # {}
  BY DEF Held, HandlesOf
<1>4. ASSUME Cardinality(HandlesOf(s)) = 1, NEW g \in Handles, NEW h \in Handles,
             handle[g] = s, handle[h] = s
      PROVE  g = h
  <2>1. PICK x : HandlesOf(s) = {x}
    BY <1>1, <1>4, FS_Singleton
  <2> QED BY <1>4, <2>1 DEF HandlesOf
<1> QED BY <1>1, <1>2, <1>3, <1>4

\* A copy adds a handle and counts it; a move replaces one by another.
LEMMA CopyMoveInv ==
    ASSUME IInv, NEW h \in Handles, NEW g \in Handles, CopyHandle(h, g) \/ MoveHandle(h, g)
    PROVE  IInv'
<1> USE DEF IInv, PoolInv, listVars, localVars
<1> SUFFICES ASSUME NEW s \in Slabs, s = handle[h] PROVE IInv'
  BY ZenonT(60) DEF CopyHandle, MoveHandle, TypeOK, Ptr
<1>0. /\ UNCHANGED <<head, next, stack, avail, pc, old, nxt, node>>
      /\ s \in Slabs /\ handle[g] = Nil /\ g # h /\ Held(s)
  BY DEF CopyHandle, MoveHandle, TypeOK, Ptr, Held
<1>1. TypeOK'
  <2>1. CASE CopyHandle(h, g)
    BY <1>0, <2>1, SMTT(60) DEF TypeOK, CopyHandle
  <2>2. CASE MoveHandle(h, g)
    BY <1>0, <2>2, ZenonT(60) DEF TypeOK, MoveHandle, Ptr
  <2> QED BY <2>1, <2>2
<1>2. \A r \in Slabs : HandlesOf(r)' = IF r # s THEN HandlesOf(r)
                                       ELSE IF CopyHandle(h, g) THEN HandlesOf(r) \cup {g}
                                       ELSE (HandlesOf(r) \ {h}) \cup {g}
  <2>1. CASE CopyHandle(h, g)
    BY <1>0, <2>1, SMTT(60) DEF TypeOK, CopyHandle, HandlesOf
  <2>2. CASE ~CopyHandle(h, g)
    BY <1>0, <2>2, SMTT(60) DEF TypeOK, MoveHandle, HandlesOf
  <2> QED BY <2>1, <2>2
<1>3. \A r \in Slabs : Held(r)' <=> Held(r)
  <2>1. \A r \in Slabs : Held(r)' <=> HandlesOf(r)' # {}
    BY DEF Held, HandlesOf
  <2>2. \A r \in Slabs : Held(r) <=> HandlesOf(r) # {}
    BY DEF Held, HandlesOf
  <2> QED BY <1>0, <1>2, <2>1, <2>2
<1>4. OnePlace' /\ ListLinked'
  BY <1>0, <1>3 DEF OnePlace, ListLinked, OnList, InTransit
<1>5. TagProtects' /\ NodeInv'
  BY <1>0 DEF TagProtects, NodeInv
<1>6. CountInv'
  <2>1. ASSUME NEW r \in Slabs, Held(r)', r # s PROVE ref'[r] = Cardinality(HandlesOf(r)')
    <3>1. Held(r) /\ ref'[r] = ref[r] /\ HandlesOf(r)' = HandlesOf(r)
      BY <1>2, <1>3, <2>1, SMTT(60) DEF CopyHandle, MoveHandle, TypeOK
    <3> QED BY <3>1 DEF CountInv
  <2>2. ref[s] = Cardinality(HandlesOf(s)) /\ IsFiniteSet(HandlesOf(s))
    BY <1>0, HandlesFinite DEF CountInv
  <2>3. g \notin HandlesOf(s) /\ h \in HandlesOf(s)
    BY <1>0 DEF HandlesOf
  <2>4. CASE CopyHandle(h, g)
    <3>1. ref'[s] = ref[s] + 1
      BY <1>0, <2>4 DEF CopyHandle, TypeOK
    <3>2. HandlesOf(s)' = HandlesOf(s) \cup {g}
      BY <1>0, <1>2, <2>4
    <3>3. Cardinality(HandlesOf(s) \cup {g}) = Cardinality(HandlesOf(s)) + 1
      BY <2>2, <2>3, FS_AddElement
    <3> QED BY <2>1, <2>2, <3>1, <3>2, <3>3 DEF CountInv
  <2>5. CASE ~CopyHandle(h, g)
    <3>1. ref'[s] = ref[s]
      BY <2>5 DEF MoveHandle
    <3>2. HandlesOf(s)' = (HandlesOf(s) \ {h}) \cup {g}
      BY <1>0, <1>2, <2>5
    <3>3. IsFiniteSet(HandlesOf(s) \ {h}) /\ Cardinality(HandlesOf(s) \ {h}) = Cardinality(HandlesOf(s)) - 1
      BY <2>2, <2>3, FS_RemoveElement
    <3>4. Cardinality(HandlesOf(s)') = Cardinality(HandlesOf(s)) - 1 + 1
      BY <2>3, <3>2, <3>3, FS_AddElement, ZenonT(60)
    <3>5. Cardinality(HandlesOf(s)) \in Nat
      BY <2>2, FS_CardinalityType
    <3> QED BY <2>1, <2>2, <3>1, <3>4, <3>5 DEF CountInv
  <2> QED BY <2>4, <2>5
<1> QED BY <1>1, <1>4, <1>5, <1>6

\* Dropping the last reference, and only the last, takes the slab from the
\* handles into the hands of the thread that will push it.
LEMMA DropReferenceInv ==
    ASSUME IInv, NEW t \in Users, NEW h \in Handles, DropReference(t, h)
    PROVE  IInv'
<1> USE DEF IInv, PoolInv, listVars, GoTo, DropReference
<1> SUFFICES ASSUME NEW s \in Slabs, s = handle[h] PROVE IInv'
  BY SMTT(60) DEF TypeOK, Ptr
<1>0. /\ s \in Slabs /\ Held(s) /\ ~OnList(s) /\ ~InTransit(s) /\ node[t] = Nil /\ pc[t] = "idle"
      /\ ref[s] = Cardinality(HandlesOf(s))
  BY DEF TypeOK, Ptr, Held, OnePlace, NodeInv, CountInv
<1>1. /\ handle' = [handle EXCEPT ![h] = Nil] /\ ref' = [ref EXCEPT ![s] = @ - 1]
      /\ UNCHANGED <<head, next, stack, avail, old, nxt>>
      /\ \/ ref[s] = 1 /\ node' = [node EXCEPT ![t] = s] /\ pc' = [pc EXCEPT ![t] = "pushLoad"]
         \/ ref[s] # 1 /\ UNCHANGED <<node, pc>>
  OBVIOUS
<1>2. handle[h] = s
  OBVIOUS
<1> HIDE DEF DropReference
<1>3. TypeOK'
  <2>1. ref' \in [Slabs -> Int] /\ handle' \in [Handles -> Ptr]
    BY <1>0, <1>1, SMTT(60) DEF TypeOK, Ptr
  <2>2. CASE UNCHANGED <<node, pc>>
    BY <1>1, <2>1, <2>2 DEF TypeOK
  <2>3. CASE node' = [node EXCEPT ![t] = s] /\ pc' = [pc EXCEPT ![t] = "pushLoad"]
    BY <1>0, <1>1, <2>1, <2>3 DEF TypeOK, Ptr
  <2> QED BY <1>1, <2>2, <2>3
<1>4. \A r \in Slabs : HandlesOf(r)' = IF r = s THEN HandlesOf(s) \ {h} ELSE HandlesOf(r)
  BY <1>0, <1>1, <1>2, SMTT(60) DEF HandlesOf, TypeOK
<1>5. /\ IsFiniteSet(HandlesOf(s)) /\ Cardinality(HandlesOf(s)) \in Nat
      /\ Cardinality(HandlesOf(s) \ {h}) = Cardinality(HandlesOf(s)) - 1
      /\ IsFiniteSet(HandlesOf(s) \ {h})
  <2>1. IsFiniteSet(HandlesOf(s)) /\ Cardinality(HandlesOf(s)) \in Nat
    BY <1>0, HandlesFinite
  <2>2. h \in HandlesOf(s)
    BY <1>2 DEF HandlesOf
  <2> QED BY <2>1, <2>2, FS_RemoveElement
<1>6. /\ \A r \in Slabs : r # s => (Held(r)' <=> Held(r))
      /\ Held(s)' <=> ref[s] # 1
  <2>1. \A r \in Slabs : /\ Held(r)' <=> HandlesOf(r)' # {}
                         /\ Held(r) <=> HandlesOf(r) # {}
    BY DEF Held, HandlesOf
  <2>2. HandlesOf(s) \ {h} = {} <=> Cardinality(HandlesOf(s)) - 1 = 0
    BY <1>5, FS_EmptySet
  <2>3. HandlesOf(s) \ {h} = {} <=> ref[s] = 1
    BY <1>0, <1>5, <2>2
  <2> QED BY <1>0, <1>4, <2>1, <2>3
<1>7. /\ \A r \in Slabs : r # s => (InTransit(r)' <=> InTransit(r))
      /\ InTransit(s)' <=> ref[s] = 1
      /\ \A r \in Slabs : OnList(r)' <=> OnList(r)
  BY <1>0, <1>1, SMTT(60) DEF InTransit, OnList, TypeOK
<1>8. \A u, v \in Users : node'[u] # Nil /\ node'[u] = node'[v] => u = v
  <2>1. \A u, v \in Users : node[u] # Nil /\ node[u] = node[v] => u = v
    BY DEF OnePlace
  <2>2. CASE UNCHANGED node
    BY <2>1, <2>2
  <2>3. CASE node' = [node EXCEPT ![t] = s]
    <3>1. \A u \in Users : node[u] # s /\ node'[u] = IF u = t THEN s ELSE node[u]
      BY <1>0, <2>3 DEF InTransit, TypeOK
    <3> QED BY <2>1, <3>1
  <2> QED BY <1>1, <2>2, <2>3
<1>9. OnePlace'
  BY <1>0, <1>1, <1>6, <1>7, <1>8, SMTT(60) DEF OnePlace
<1>10. ListLinked'
  BY <1>1 DEF ListLinked
<1>11. TagProtects'
  BY <1>0, <1>1, SMTT(60) DEF TypeOK, TagProtects
<1>12. NodeInv'
  BY <1>0, <1>1, SMTT(60) DEF TypeOK, Ptr, NodeInv
<1>13. CountInv'
  <2>1. ASSUME NEW r \in Slabs, Held(r)', r # s PROVE ref'[r] = Cardinality(HandlesOf(r)')
    BY <1>1, <1>4, <1>6, <2>1 DEF CountInv, TypeOK
  <2>2. ref'[s] = Cardinality(HandlesOf(s)')
    BY <1>0, <1>1, <1>4, <1>5 DEF TypeOK
  <2> QED BY <2>1, <2>2 DEF CountInv
<1> QED BY <1>3, <1>9, <1>10, <1>11, <1>12, <1>13

-----------------------------------------------------------------------------
\* No step breaks the invariant.
LEMMA NextIInv ==
    ASSUME IInv, [Next]_vars PROVE IInv'
<1>1. ASSUME NEW t \in Users, Step(t) PROVE IInv'
  BY <1>1, LocalStepInv, CountStepInv, PushLinkInv, PopCasInv, PushCasInv, AcquireReturnInv,
     DropReferenceInv DEF Step
<1>2. CASE \E h, g \in Handles : CopyHandle(h, g) \/ MoveHandle(h, g)
  BY <1>2, CopyMoveInv
<1>3. CASE UNCHANGED vars
  <2> USE <1>3 DEF vars, IInv, PoolInv
  <2>1. TypeOK' /\ NodeInv'
    BY DEF TypeOK, NodeInv
  <2>2. OnePlace' /\ ListLinked'
    BY DEF OnePlace, ListLinked, OnList, Held, InTransit
  <2>3. TagProtects'
    BY DEF TagProtects
  <2>4. CountInv'
    BY DEF CountInv, Held, HandlesOf
  <2> QED BY <2>1, <2>2, <2>3, <2>4
<1> QED BY <1>1, <1>2, <1>3 DEF Next

\* The free list, the links and the locals of the exchange loops fit together
\* and no slab is lost or in two places, whatever the threads do
\* (free_list.h, gpu_pool.cpp): the tag makes the exchanges safe.
THEOREM PoolSafe == Spec => []PoolInv
<1>1. Init => IInv
  BY InitIInv
<1>2. IInv /\ [Next]_vars => IInv'
  BY NextIInv
<1>3. IInv => PoolInv
  BY DEF IInv
<1> QED BY <1>1, <1>2, <1>3, PTL DEF Spec

\* A held slab's count is the number of its handles, so that Release pushes it
\* back with the last of them and not before (pooled_ptr.h).
THEOREM CountsExact == Spec => []RefCountsHandles
<1>1. Init => IInv
  BY InitIInv
<1>2. IInv /\ [Next]_vars => IInv'
  BY NextIInv
<1>3. IInv => RefCountsHandles
  BY DEF IInv, CountInv, RefCountsHandles, HandlesOf
<1> QED BY <1>1, <1>2, <1>3, PTL DEF Spec

-----------------------------------------------------------------------------
(* The counter behind AvailableSlabCount                                    *)

\* Division with remainder, and its uniqueness.
LEMMA Remainder ==
    ASSUME NEW x \in Int
    PROVE  x % Word \in 0 .. Word - 1 /\ x \div Word \in Int /\ x = (x \div Word) * Word + (x % Word)
<1>1. Word \in Nat \ {0}
  OBVIOUS
<1> QED BY <1>1, Z3

LEMMA RemainderUnique ==
    ASSUME NEW q \in Int, NEW r \in 0 .. Word - 1
    PROVE  (q * Word + r) % Word = r
<1>1. Word \in Nat \ {0}
  OBVIOUS
<1> QED BY <1>1, Z3

\* Arithmetic modulo the word's size: an argument's remainder will do.
LEMMA RemainderOfSum ==
    ASSUME NEW x \in Int, NEW k \in Int
    PROVE  ((x % Word) + k) % Word = (x + k) % Word
<1> DEFINE q == x \div Word
           r == x % Word
           p == (r + k) \div Word
           s == (r + k) % Word
<1>1. r \in 0 .. Word - 1 /\ q \in Int /\ x = q * Word + r
  BY Remainder
<1>a. r \in Int /\ Word \in Int
  BY <1>1
<1> HIDE DEF q, r
<1>2. s \in 0 .. Word - 1 /\ p \in Int /\ r + k = p * Word + s
  <2>1. r + k \in Int
    BY <1>a
  <2> QED BY <2>1, Remainder
<1> HIDE DEF p, s
<1> DEFINE u == q + p
<1>3. x + k = u * Word + s /\ u \in Int
  BY <1>1, <1>2
<1> HIDE DEF u
<1>4. (x + k) % Word = s
  BY <1>2, <1>3, RemainderUnique
<1> QED BY <1>4 DEF r, s

\* A whole word more makes no difference.
LEMMA RemainderOfWord ==
    ASSUME NEW x \in Int
    PROVE  (x + Word) % Word = x % Word
<1> DEFINE q == x \div Word
           r == x % Word
<1>1. r \in 0 .. Word - 1 /\ q \in Int /\ x = q * Word + r
  BY Remainder
<1> HIDE DEF q, r
<1>2. x + Word = (q + 1) * Word + r
  BY <1>1
<1>3. (x + Word) % Word = r
  BY <1>1, <1>2, RemainderUnique
<1> QED BY <1>3 DEF r

ThreadsAt(label) == {t \in Users : pc[t] = label}

\* One thread more at the label it goes to, one less at the one it leaves.
LEMMA ThreadsMove ==
    ASSUME TypeOK, NEW t \in Users, NEW to, pc' = [pc EXCEPT ![t] = to], NEW label
    PROVE  /\ Cardinality(ThreadsAt(label)) \in Nat
           /\ Cardinality(ThreadsAt(label)') = Cardinality(ThreadsAt(label))
                 + (IF to = label THEN 1 ELSE 0) - (IF pc[t] = label THEN 1 ELSE 0)
<1> DEFINE S == ThreadsAt(label)
           T == ThreadsAt(label)'
<1>1. \A u : u \in S <=> u \in Users /\ pc[u] = label
  BY DEF ThreadsAt
<1>2. \A u : u \in T <=> u \in Users /\ (IF u = t THEN to = label ELSE pc[u] = label)
  BY DEF ThreadsAt, TypeOK
<1>3. IsFiniteSet(S) /\ IsFiniteSet(T)
  BY <1>1, <1>2, FS_Subset DEF ThreadsAt
<1>4. Cardinality(S) \in Nat /\ Cardinality(T) \in Nat
  BY <1>3, FS_CardinalityType
<1> HIDE DEF S, T
<1>5. CASE to = label /\ pc[t] # label
  <2>1. T = S \cup {t} /\ t \notin S
    BY <1>1, <1>2, <1>5
  <2>2. Cardinality(T) = Cardinality(S) + 1
    BY <1>3, <2>1, FS_AddElement
  <2> QED BY <1>4, <1>5, <2>2 DEF S, T
<1>6. CASE to # label /\ pc[t] = label
  <2>1. S = T \cup {t} /\ t \notin T
    BY <1>1, <1>2, <1>6
  <2>2. Cardinality(S) = Cardinality(T) + 1
    BY <1>3, <2>1, FS_AddElement
  <2> QED BY <1>4, <1>6, <2>2 DEF S, T
<1>7. CASE (to = label) <=> (pc[t] = label)
  <2>1. \A u : u \in S <=> u \in T
    BY <1>1, <1>2, <1>7, ZenonT(60)
  <2>2. S = T
    BY <2>1
  <2> QED BY <1>4, <1>7, <2>2 DEF S, T
<1> QED BY <1>5, <1>6, <1>7

\* The slabs that the counter stands for: those on the list, and those that a
\* call has popped but not yet counted, less those it has pushed but not counted.
Counted == Len(stack) + Cardinality(ThreadsAt("sub")) - Cardinality(ThreadsAt("add"))

\* The counter's property, with the parts named.
LEMMA AsCounted ==
    ASSUME NEW n \in Nat, NEW a \in Nat, NEW b \in Nat
    PROVE  (n + Word + a - b) % Word = (n + a - b) % Word
<1> DEFINE x == n + a - b
<1>1. x \in Int /\ n + Word + a - b = x + Word
  OBVIOUS
<1> HIDE DEF x
<1>2. (x + Word) % Word = x % Word
  BY <1>1, RemainderOfWord
<1> QED BY <1>1, <1>2 DEF x

AvailInv == avail = Counted % Word

LEMMA AvailInvMeans ==
    ASSUME TypeOK, AvailInv
    PROVE  AvailAccounting
<1>1. Len(stack) \in Nat /\ Cardinality(ThreadsAt("sub")) \in Nat /\ Cardinality(ThreadsAt("add")) \in Nat
  <2>1. IsFiniteSet(ThreadsAt("sub")) /\ IsFiniteSet(ThreadsAt("add"))
    BY FS_Subset DEF ThreadsAt
  <2> QED BY <2>1, FS_CardinalityType DEF TypeOK
<1> QED BY <1>1, AsCounted, ZenonT(60) DEF AvailAccounting, AvailInv, Counted, ThreadsAt

\* Every step moves the counter as it moves what it stands for.
LEMMA StepCounted ==
    ASSUME IInv, AvailInv, NEW t \in Users, Step(t)
    PROVE  AvailInv'
<1> DEFINE n == Len(stack)
           a == Cardinality(ThreadsAt("sub"))
           b == Cardinality(ThreadsAt("add"))
<1>0. TypeOK /\ n \in Nat /\ Word \in Nat \ {0}
  BY DEF IInv, PoolInv, TypeOK
<1>1. a \in Nat /\ b \in Nat
  <2>1. IsFiniteSet(ThreadsAt("sub")) /\ IsFiniteSet(ThreadsAt("add"))
    BY FS_Subset DEF ThreadsAt
  <2> QED BY <2>1, FS_CardinalityType
<1>2. avail = (n + a - b) % Word
  BY DEF AvailInv, Counted
<1>3. AvailInv' <=> avail' = (n' + a' - b') % Word
  BY DEF AvailInv, Counted
<1>4. ASSUME NEW to, pc' = [pc EXCEPT ![t] = to]
      PROVE  /\ a' = a + (IF to = "sub" THEN 1 ELSE 0) - (IF pc[t] = "sub" THEN 1 ELSE 0)
             /\ b' = b + (IF to = "add" THEN 1 ELSE 0) - (IF pc[t] = "add" THEN 1 ELSE 0)
  BY <1>0, <1>4, ThreadsMove, ZenonT(60)
<1>5. UNCHANGED pc => a' = a /\ b' = b
  BY DEF ThreadsAt
<1> HIDE DEF n, a, b
<1>12. ASSUME NEW to, pc' = [pc EXCEPT ![t] = to], to \notin {"sub", "add"}, pc[t] \notin {"sub", "add"}
       PROVE  a' = a /\ b' = b
  <2>1. /\ a' = a + (IF to = "sub" THEN 1 ELSE 0) - (IF pc[t] = "sub" THEN 1 ELSE 0)
        /\ b' = b + (IF to = "add" THEN 1 ELSE 0) - (IF pc[t] = "add" THEN 1 ELSE 0)
    BY <1>4, <1>12, Zenon
  <2> QED BY <1>1, <1>12, <2>1
<1>6. CASE n' + a' - b' = n + a - b /\ avail' = avail
  BY <1>2, <1>3, <1>6
<1>7. CASE AcquireCount(t)
  <2>1. a' = a - 1 /\ b' = b /\ n' = n
    <3>1. pc[t] = "sub" /\ pc' = [pc EXCEPT ![t] = "setRef"] /\ n' = n
      BY <1>7 DEF AcquireCount, GoTo, listVars, n
    <3>2. /\ a' = a + (IF "setRef" = "sub" THEN 1 ELSE 0) - (IF pc[t] = "sub" THEN 1 ELSE 0)
          /\ b' = b + (IF "setRef" = "add" THEN 1 ELSE 0) - (IF pc[t] = "add" THEN 1 ELSE 0)
      BY <1>4, <3>1, Zenon
    <3> QED BY <1>1, <3>1, <3>2
  <2> DEFINE x == n + a - b
  <2>2. x \in Int /\ x + (Word - 1) = (x - 1) + Word /\ Word - 1 \in Int /\ x - 1 \in Int /\ n' + a' - b' = x - 1
    BY <1>0, <1>1, <2>1
  <2>3. avail' = ((x % Word) + (Word - 1)) % Word
    <3>1. avail \in Int /\ avail' = (avail + Word - 1) % Word
      BY <1>0, <1>7 DEF AcquireCount, TypeOK
    <3>2. avail + Word - 1 = avail + (Word - 1)
      BY <1>0, <3>1
    <3> QED BY <1>2, <3>1, <3>2
  <2> HIDE DEF x
  <2>4. avail' = (x + (Word - 1)) % Word
    BY <2>2, <2>3, RemainderOfSum
  <2>5. ((x - 1) + Word) % Word = (x - 1) % Word
    BY <2>2, RemainderOfWord
  <2> QED BY <1>3, <2>2, <2>4, <2>5
<1>8. CASE ReleaseCount(t)
  <2>1. a' = a /\ b' = b - 1 /\ n' = n
    <3>1. pc[t] = "add" /\ pc' = [pc EXCEPT ![t] = "idle"] /\ n' = n
      BY <1>8 DEF ReleaseCount, GoTo, listVars, n
    <3>2. /\ a' = a + (IF "idle" = "sub" THEN 1 ELSE 0) - (IF pc[t] = "sub" THEN 1 ELSE 0)
          /\ b' = b + (IF "idle" = "add" THEN 1 ELSE 0) - (IF pc[t] = "add" THEN 1 ELSE 0)
      BY <1>4, <3>1, Zenon
    <3> QED BY <1>1, <3>1, <3>2
  <2> DEFINE x == n + a - b
  <2>2. x \in Int /\ n' + a' - b' = x + 1
    BY <1>0, <1>1, <2>1
  <2>3. avail' = ((x % Word) + 1) % Word
    BY <1>2, <1>8 DEF ReleaseCount
  <2> HIDE DEF x
  <2>4. avail' = (x + 1) % Word
    BY <2>2, <2>3, RemainderOfSum
  <2> QED BY <1>3, <2>2, <2>4
<1>9. CASE PopCas(t)
  <2>1. CASE stack' = stack
    <3>1. \E to : /\ pc' = [pc EXCEPT ![t] = to] /\ to \notin {"sub", "add"} /\ pc[t] \notin {"sub", "add"}
                 /\ avail' = avail
      <4>1. stack # <<>> => Tail(stack) # stack
        <5>1. stack # <<>> => Len(Tail(stack)) = Len(stack) - 1 /\ Len(stack) \in Nat
          BY <1>0, TailFacts DEF TypeOK
        <5> QED BY <5>1
      <4>2. head = old[t] /\ pc[t] = "popCas" => stack # <<>>
        BY DEF IInv, PoolInv, TagProtects, ListLinked, First
      <4>3. ~(head = old[t] /\ stack' = Tail(stack)) /\ pc[t] = "popCas" /\ avail' = avail
        BY <1>9, <2>1, <4>1, <4>2 DEF PopCas
      <4>4. pc' = [pc EXCEPT ![t] = IF head.ptr = Nil THEN "idle" ELSE "popNext"]
        BY <1>9, <4>3 DEF PopCas, GoTo
      <4>5. CASE head.ptr = Nil
        <5>1. pc' = [pc EXCEPT ![t] = "idle"]
          BY <4>4, <4>5
        <5>2. "idle" \notin {"sub", "add"} /\ pc[t] \notin {"sub", "add"}
          BY <4>3
        <5> QED BY <4>3, <5>1, <5>2, Zenon
      <4>6. CASE head.ptr # Nil
        <5>1. pc' = [pc EXCEPT ![t] = "popNext"]
          BY <4>4, <4>6
        <5>2. "popNext" \notin {"sub", "add"} /\ pc[t] \notin {"sub", "add"}
          BY <4>3
        <5> QED BY <4>3, <5>1, <5>2, Zenon
      <4> QED BY <4>5, <4>6
    <3>2. a' = a /\ b' = b
      BY <1>12, <3>1, Zenon
    <3> QED BY <1>6, <2>1, <3>1, <3>2 DEF n
  <2>2. CASE stack' # stack
    <3>1. /\ pc' = [pc EXCEPT ![t] = "sub"] /\ pc[t] = "popCas" /\ avail' = avail
          /\ stack' = Tail(stack) /\ head = old[t]
      BY <1>9, <2>2 DEF PopCas, GoTo
    <3>2. stack # <<>>
      BY <3>1 DEF IInv, PoolInv, TagProtects, ListLinked, First
    <3>3. n' = n - 1
      BY <1>0, <3>1, <3>2, TailFacts DEF TypeOK, n
    <3>4. a' = a + 1 /\ b' = b
      <4>1. /\ a' = a + (IF "sub" = "sub" THEN 1 ELSE 0) - (IF pc[t] = "sub" THEN 1 ELSE 0)
            /\ b' = b + (IF "sub" = "add" THEN 1 ELSE 0) - (IF pc[t] = "add" THEN 1 ELSE 0)
        BY <1>4, <3>1, Zenon
      <4> QED BY <1>1, <3>1, <4>1
    <3> QED BY <1>0, <1>1, <1>6, <3>1, <3>3, <3>4
  <2> QED BY <2>1, <2>2
<1>10. CASE PushCas(t)
  <2>1. CASE stack' = stack
    <3>1. /\ pc' = [pc EXCEPT ![t] = "pushLink"] /\ "pushLink" \notin {"sub", "add"} /\ pc[t] \notin {"sub", "add"}
          /\ avail' = avail
      <4>1. pc[t] = "pushCas" => <<node[t]>> \o stack # stack
        <5>1. pc[t] = "pushCas" => node[t] \in Slabs
          BY <1>0 DEF IInv, PoolInv, NodeInv, TypeOK, Ptr
        <5>2. pc[t] = "pushCas" => Len(<<node[t]>> \o stack) = Len(stack) + 1 /\ Len(stack) \in Nat
          BY <1>0, <5>1, ConsFacts DEF TypeOK
        <5> QED BY <5>2
      <4> QED BY <1>10, <2>1, <4>1 DEF PushCas, GoTo
    <3>2. a' = a /\ b' = b
      BY <1>12, <3>1, Zenon
    <3> QED BY <1>6, <2>1, <3>1, <3>2 DEF n
  <2>2. CASE stack' # stack
    <3>1. /\ pc' = [pc EXCEPT ![t] = "add"] /\ pc[t] = "pushCas" /\ avail' = avail
          /\ stack' = <<node[t]>> \o stack
      BY <1>10, <2>2 DEF PushCas, GoTo
    <3>2. node[t] \in Slabs
      BY <1>0, <3>1 DEF IInv, PoolInv, NodeInv, TypeOK, Ptr
    <3>3. n' = n + 1
      BY <1>0, <3>1, <3>2, ConsFacts DEF TypeOK, n
    <3>4. a' = a /\ b' = b + 1
      <4>1. /\ a' = a + (IF "add" = "sub" THEN 1 ELSE 0) - (IF pc[t] = "sub" THEN 1 ELSE 0)
            /\ b' = b + (IF "add" = "add" THEN 1 ELSE 0) - (IF pc[t] = "add" THEN 1 ELSE 0)
        BY <1>4, <3>1, Zenon
      <4> QED BY <1>1, <3>1, <4>1
    <3> QED BY <1>0, <1>1, <1>6, <3>1, <3>3, <3>4
  <2> QED BY <2>1, <2>2
<1>11. CASE \/ AcquireLoad(t) \/ PopReadNext(t) \/ PushLoad(t) \/ PushLink(t)
            \/ \E h \in Handles : AcquireReturn(t, h) \/ DropReference(t, h)
  <2>1. n' = n /\ avail' = avail /\ pc[t] \notin {"sub", "add"}
    BY <1>11 DEF AcquireLoad, PopReadNext, PushLoad, PushLink, AcquireReturn, DropReference, listVars, n
  <2>2. \/ UNCHANGED pc
        \/ \E to \in {"popNext", "popCas", "pushLink", "pushCas", "idle", "pushLoad"} : pc' = [pc EXCEPT ![t] = to]
    BY <1>11 DEF AcquireLoad, PopReadNext, PushLoad, PushLink, AcquireReturn, DropReference, GoTo
  <2>3. CASE UNCHANGED pc
    BY <1>5, <1>6, <2>1, <2>3
  <2>4. ASSUME NEW to \in {"popNext", "popCas", "pushLink", "pushCas", "idle", "pushLoad"},
               pc' = [pc EXCEPT ![t] = to]
        PROVE  AvailInv'
    <3>1. to \notin {"sub", "add"}
      OBVIOUS
    <3>2. a' = a /\ b' = b
      BY <1>12, <2>1, <2>4, <3>1, Zenon
    <3> QED BY <1>6, <2>1, <3>2
  <2> QED BY <2>2, <2>3, <2>4
<1> QED BY <1>7, <1>8, <1>9, <1>10, <1>11 DEF Step

\* A slab's count is the number of its handles, and available_count_ stands for the
\* slabs of the free list, in the arithmetic of std::size_t: it lags behind the list
\* by the calls between their exchange of head and their fetch_add or fetch_sub, and
\* never drifts from it, however many threads Acquire and Release
\* (pinned_pool.cpp, gpu_pool.cpp).
THEOREM CountersExact == Spec => []SlabsAccounted
<1>1. Init => IInv /\ AvailInv
  <2> SUFFICES ASSUME Init PROVE IInv /\ AvailInv
    OBVIOUS
  <2>1. IInv
    BY InitIInv
  <2>2. ThreadsAt("sub") = {} /\ ThreadsAt("add") = {}
    BY DEF Init, ThreadsAt
  <2>3. Counted = Len(InitialList) /\ avail = Len(InitialList)
    <3>1. Len(InitialList) \in Nat /\ Cardinality({}) = 0
      BY FS_EmptySet
    <3>2. Counted = Len(InitialList) + Cardinality({}) - Cardinality({})
      BY <2>2, Zenon DEF Init, Counted
    <3> QED BY <3>1, <3>2 DEF Init
  <2>4. Len(InitialList) % Word = Len(InitialList)
    <3>1. 0 * Word + Len(InitialList) = Len(InitialList) /\ Len(InitialList) \in 0 .. Word - 1
      OBVIOUS
    <3> QED BY <3>1, RemainderUnique
  <2> QED BY <2>1, <2>3, <2>4 DEF AvailInv
<1>2. IInv /\ AvailInv /\ [Next]_vars => (IInv /\ AvailInv)'
  <2> SUFFICES ASSUME IInv, AvailInv, [Next]_vars PROVE IInv' /\ AvailInv'
    OBVIOUS
  <2>1. IInv'
    BY NextIInv
  <2>2. CASE UNCHANGED <<avail, stack, pc>>
    <3>1. ThreadsAt("sub")' = ThreadsAt("sub") /\ ThreadsAt("add")' = ThreadsAt("add")
      BY <2>2 DEF ThreadsAt
    <3>2. Counted' = Counted
      BY <2>2, <3>1, Zenon DEF Counted
    <3> QED BY <2>1, <2>2, <3>2, Zenon DEF AvailInv
  <2>3. ASSUME NEW t \in Users, Step(t) PROVE AvailInv'
    BY <2>3, StepCounted
  <2>4. (\E h, g \in Handles : CopyHandle(h, g) \/ MoveHandle(h, g)) => UNCHANGED <<avail, stack, pc>>
    BY DEF CopyHandle, MoveHandle, listVars
  <2>5. UNCHANGED vars => UNCHANGED <<avail, stack, pc>>
    BY DEF vars
  <2> QED BY <2>1, <2>2, <2>3, <2>4, <2>5 DEF Next
<1>3. IInv /\ AvailInv => SlabsAccounted
  BY AvailInvMeans DEF IInv, PoolInv, SlabsAccounted, CountInv, RefCountsHandles, HandlesOf
<1> QED BY <1>1, <1>2, <1>3, PTL DEF Spec

HIDE PoolAssumption

-----------------------------------------------------------------------------
(* GpuStreams: one completion for a copy, whatever the order of the threads. *)
CONSTANTS Callers, Copies, Depth, CopyFails
VARIABLES copy, launcher, status, outcome, report, driver, slot, ring, advanced,
          rejected, gpu, stop, started, slabs

Gpu == INSTANCE GpuStreams WITH Slabs <- Depth

LEMMA GpuCardinality == \A T : Gpu!Cardinality(T) = Cardinality(T)
  BY DEF Gpu!Cardinality, Cardinality, Gpu!IsFiniteSet, IsFiniteSet

\* The instances the theorems are about.
TransfersSucceed ==
    /\ IsFiniteSet(Callers) /\ Gpu!NoCaller \notin Callers
    /\ Copies \in Nat /\ Depth \in Nat \ {0} /\ Depth < 65536
    /\ CopyFails = FALSE

Cells == 0 .. (Gpu!Capacity - 1)

GpuTypes ==
    /\ copy \in [Callers -> {"idle", "launched", "inflight"}]
    /\ launcher \in [Callers -> {"none", "registered", "stored"}]
    /\ status \in [Callers -> {"ok"}] /\ outcome \in [Callers -> {"ok"}]
    /\ report \in [Callers -> {<<"ok", "ok">>}]
    /\ driver \in [Callers -> {"none", "copying", "push", "claimed", "published"}]
    /\ slot \in [Callers -> Nat]
    /\ ring \in [seq : [Cells -> Nat], enq : Nat, deq : Nat, data : [Cells -> Callers \cup {Gpu!NoCaller}]]
    /\ started \in 0 .. Copies /\ slabs \in Nat /\ rejected = FALSE

\* A driver thread serves a copy in flight, and only one that was registered.
Served == \A c \in Callers :
    /\ driver[c] \in {"copying", "push", "claimed"} => copy[c] = "inflight"
    /\ copy[c] = "launched" => driver[c] = "none"

\* The cells by the positions they stand for: the free ones follow enqueue_pos_,
\* the occupied ones lie between the two, and a sequence number one above its
\* position says that there is an event.
Window ==
    /\ ring.deq <= ring.enq
    /\ \A p \in ring.enq .. ring.deq + Gpu!Capacity - 1 :
          ring.seq[Gpu!Cell(p)] = p /\ ring.data[Gpu!Cell(p)] = Gpu!NoCaller
    /\ \A p \in ring.deq .. ring.enq - 1 :
          ring.seq[Gpu!Cell(p)] = p + 1 => ring.data[Gpu!Cell(p)] \in Callers

\* A claimed position is occupied, not yet published, and one thread's.
Claims ==
    /\ \A c \in Callers : driver[c] = "claimed" =>
          /\ ring.deq <= slot[c] /\ slot[c] < ring.enq
          /\ ring.seq[Gpu!Cell(slot[c])] = slot[c] /\ ring.data[Gpu!Cell(slot[c])] = Gpu!NoCaller
    /\ \A c, d \in Callers : driver[c] = "claimed" /\ driver[d] = "claimed" /\ slot[c] = slot[d] => c = d

\* An event is that of a copy whose driver thread has published it, there is one
\* for every such copy, and never two.
Events ==
    /\ \A i \in Cells : ring.data[i] \in Callers =>
          copy[ring.data[i]] = "inflight" /\ driver[ring.data[i]] \in {"published", "none"}
    /\ \A i, j \in Cells : ring.data[i] \in Callers /\ ring.data[i] = ring.data[j] => i = j
    /\ \A c \in Callers : copy[c] = "inflight" /\ driver[c] \in {"published", "none"} =>
          \E i \in Cells : ring.data[i] = c

\* The copies that hold a slab, and those of them that hold a position.
Active == {c \in Callers : copy[c] # "idle"}
Holding == {c \in Callers : copy[c] = "inflight" /\ driver[c] \notin {"copying", "push"}}

Counts == /\ ring.enq = ring.deq + Cardinality(Holding)
          /\ slabs = Depth - Cardinality(Active)

GpuIInv == GpuTypes /\ Served /\ Window /\ Claims /\ Events /\ Counts

-----------------------------------------------------------------------------
(* The cells of the ring                                                    *)

\* Init's doubling ends with a cell more than there are slabs.
LEMMA RingFits ==
    ASSUME TransfersSucceed
    PROVE  Gpu!Capacity \in Nat \ {0} /\ Gpu!Capacity > Depth /\ Depth \in Nat
<1> DEFINE n == Depth + 1
           P(c) == c >= n /\ \A d \in Gpu!RingSizes : d >= n => c <= d
<1>1. n \in Nat /\ n <= 65536
  BY DEF TransfersSucceed
<1>2. \E c \in Gpu!RingSizes : P(c)
  <2> HIDE DEF n, P
  <2>1. CASE n <= 16
    BY <1>1, <2>1 DEF Gpu!RingSizes, P
  <2>2. CASE n > 16 /\ n <= 256
    BY <1>1, <2>2 DEF Gpu!RingSizes, P
  <2>3. CASE n > 256 /\ n <= 4096
    BY <1>1, <2>3 DEF Gpu!RingSizes, P
  <2>4. CASE n > 4096
    BY <1>1, <2>4 DEF Gpu!RingSizes, P
  <2>5. n <= 16 \/ (n > 16 /\ n <= 256) \/ (n > 256 /\ n <= 4096) \/ n > 4096
    BY <1>1
  <2> QED BY <2>1, <2>2, <2>3, <2>4, <2>5
<1>3. Gpu!Capacity = CHOOSE c \in Gpu!RingSizes : P(c)
  BY DEF Gpu!Capacity, Gpu!CapacityFor
<1>4. Gpu!Capacity \in Gpu!RingSizes /\ P(Gpu!Capacity)
  BY <1>2, <1>3, Zenon
<1>5. Gpu!RingSizes \subseteq Nat
  BY DEF Gpu!RingSizes
<1>6. Depth \in Nat
  BY DEF TransfersSucceed
<1>7. Gpu!Capacity \in Nat /\ Gpu!Capacity >= Depth + 1
  BY <1>4, <1>5, Zenon
<1> HIDE DEF P, n
<1> QED BY <1>6, <1>7

\* Positions less than a round apart have different cells, and a round later the
\* same cell comes up again.
LEMMA CellFacts ==
    ASSUME TransfersSucceed
    PROVE  /\ \A p \in Nat : Gpu!Cell(p) \in Cells
           /\ \A p \in Cells : Gpu!Cell(p) = p
           /\ \A p \in Nat : Gpu!Cell(p + Gpu!Capacity) = Gpu!Cell(p)
           /\ \A p, q \in Nat : p < q /\ q - p < Gpu!Capacity => Gpu!Cell(p) # Gpu!Cell(q)
<1> DEFINE W == Gpu!Capacity
<1>1. W \in Nat \ {0}
  BY RingFits
<1> HIDE DEF W
<1>2. \A x \in Nat : x % W \in 0 .. W - 1 /\ x \div W \in Int /\ x = (x \div W) * W + (x % W)
  BY <1>1, Z3
<1>3. \A k \in Int, r \in 0 .. W - 1 : (k * W + r) % W = r
  BY <1>1, Z3
<1>4. ASSUME NEW x \in Nat
      PROVE  (x + W) % W = x % W
  <2> DEFINE k == x \div W
             r == x % W
  <2>1. r \in 0 .. W - 1 /\ k \in Int /\ x = k * W + r
    BY <1>2
  <2> HIDE DEF k, r
  <2>2. x + W = (k + 1) * W + r
    BY <1>1, <2>1
  <2>3. (x + W) % W = r
    BY <1>3, <2>1, <2>2
  <2> QED BY <2>3 DEF r
<1>5. ASSUME NEW x \in Nat, NEW y \in Nat, x < y, y - x < W, x % W = y % W
      PROVE  FALSE
  <2> DEFINE k == x \div W
             l == y \div W
             r == x % W
  <2>1. r \in 0 .. W - 1 /\ k \in Int /\ x = k * W + r /\ l \in Int /\ y = l * W + r
    BY <1>2, <1>5
  <2> HIDE DEF k, l, r
  <2>2. (l - k) * W = y - x
    BY <1>1, <2>1
  <2>3. CASE l - k >= 1
    <3>1. (l - k) * W >= W
      BY <1>1, <2>1, <2>3
    <3> QED BY <1>1, <1>5, <2>2, <3>1
  <2>4. CASE l - k <= 0
    <3>1. (l - k) * W <= 0
      BY <1>1, <2>1, <2>4
    <3> QED BY <1>5, <2>2, <3>1
  <2> QED BY <2>1, <2>3, <2>4
<1>6. ASSUME NEW r \in 0 .. W - 1
      PROVE  r % W = r
  <2>1. 0 * W + r = r
    BY <1>1
  <2> QED BY <1>3, <2>1
<1> QED BY <1>2, <1>4, <1>5, <1>6 DEF Gpu!Cell, Cells, W

\* Two positions of one round are the same if their cells are.
LEMMA CellsApart ==
    ASSUME TransfersSucceed, NEW p \in Nat, NEW q \in Nat, Gpu!Cell(p) = Gpu!Cell(q),
           p - q < Gpu!Capacity, q - p < Gpu!Capacity
    PROVE  p = q
<1>1. Gpu!Capacity \in Nat
  BY RingFits
<1>2. ~(p < q) /\ ~(q < p)
  BY CellFacts
<1> QED BY <1>2

-----------------------------------------------------------------------------
(* Counting                                                                 *)

\* The two sets that Counts is about are finite, the second a part of the first.
LEMMA FiniteCounts ==
    ASSUME TransfersSucceed
    PROVE  /\ IsFiniteSet(Active) /\ IsFiniteSet(Holding)
           /\ Cardinality(Active) \in Nat /\ Cardinality(Holding) \in Nat
           /\ Cardinality(Holding) <= Cardinality(Active)
<1>1. IsFiniteSet(Callers)
  BY DEF TransfersSucceed
<1>2. Active \subseteq Callers /\ Holding \subseteq Active
  BY DEF Active, Holding
<1>3. IsFiniteSet(Active)
  BY <1>1, <1>2, FS_Subset
<1>4. IsFiniteSet(Holding) /\ Cardinality(Holding) <= Cardinality(Active)
  BY <1>2, <1>3, FS_Subset
<1> QED BY <1>3, <1>4, FS_CardinalityType

\* At most SlabCount() positions are occupied.
LEMMA RoomLeft ==
    ASSUME TransfersSucceed, GpuTypes, Window, Counts
    PROVE  /\ ring.enq \in Nat /\ ring.deq \in Nat /\ ring.deq <= ring.enq
           /\ ring.enq - ring.deq <= Depth /\ ring.enq < ring.deq + Gpu!Capacity
<1>1. ring.enq \in Nat /\ ring.deq \in Nat /\ slabs \in Nat
  BY DEF GpuTypes
<1>2. ring.enq = ring.deq + Cardinality(Holding) /\ slabs = Depth - Cardinality(Active)
  BY DEF Counts
<1> QED BY <1>1, <1>2, FiniteCounts, RingFits DEF Window

\* The invariant and what it is for.
LEMMA GpuInvMeans ==
    ASSUME TransfersSucceed, GpuIInv
    PROVE  Gpu!GpuInv
<1>0. GpuTypes /\ Served /\ Window /\ Claims /\ Events /\ Counts /\ Gpu!NoCaller \notin Callers
  BY DEF GpuIInv, TransfersSucceed
<1>1. ASSUME NEW c \in Callers
      PROVE  Gpu!EventsOf(c) = IF copy[c] = "inflight" THEN 1 ELSE 0
  <2> DEFINE E == {i \in Gpu!QueuedEvents : ring.data[i] = c}
  <2>1. \A i : i \in E <=> i \in Cells /\ ring.data[i] = c
    BY <1>0 DEF Gpu!QueuedEvents, GpuTypes
  <2>2. Gpu!EventsOf(c) = Cardinality(E) + (IF driver[c] \in {"copying", "push", "claimed"} THEN 1 ELSE 0)
    BY GpuCardinality DEF Gpu!EventsOf
  <2> HIDE DEF E
  <2>3. CASE copy[c] = "inflight" /\ driver[c] \in {"published", "none"}
    <3>1. PICK i \in Cells : ring.data[i] = c
      BY <1>0, <2>3 DEF Events
    <3>2. \A j \in E : j = i
      BY <1>0, <2>1, <3>1 DEF Events
    <3>3. E = {i}
      BY <2>1, <3>1, <3>2
    <3>4. Cardinality(E) = 1
      BY <3>3, FS_Singleton
    <3> QED BY <2>2, <2>3, <3>4
  <2>4. CASE ~(copy[c] = "inflight" /\ driver[c] \in {"published", "none"})
    <3>1. E = {}
      BY <1>0, <2>1, <2>4 DEF Events
    <3>2. Cardinality(E) = 0
      BY <3>1, FS_EmptySet
    <3>3. copy[c] = "inflight" <=> driver[c] \in {"copying", "push", "claimed"}
      BY <1>0, <2>4 DEF Served, GpuTypes
    <3> QED BY <2>2, <3>2, <3>3
  <2> QED BY <2>3, <2>4
<1>2. slabs = Depth - Gpu!Cardinality({c \in Callers : copy[c] # "idle"})
  BY <1>0, GpuCardinality DEF Counts, Active
<1>3. ring.deq <= ring.enq /\ ring.enq - ring.deq <= Depth
  BY <1>0, RoomLeft
<1>4. copy \in [Callers -> {"idle", "launched", "inflight"}] /\ started \in 0 .. Copies /\ ~rejected
  BY <1>0 DEF GpuTypes
<1> QED BY <1>1, <1>2, <1>3, <1>4, Zenon DEF Gpu!GpuInv

-----------------------------------------------------------------------------
(* The first state                                                          *)

LEMMA GpuInitInv ==
    ASSUME TransfersSucceed, Gpu!GpuInit
    PROVE  GpuIInv
<1> USE DEF Gpu!GpuInit
<1>a. Gpu!NoCaller \notin Callers /\ Copies \in Nat
  BY DEF TransfersSucceed
<1>0. Gpu!NoCaller \notin Callers /\ Copies \in Nat /\ Depth \in Nat /\ Gpu!Capacity \in Nat \ {0}
  BY <1>a, RingFits
<1>1. GpuTypes
  BY <1>0 DEF GpuTypes, Cells
<1>2. Served /\ Claims
  BY DEF Served, Claims
<1>3. Window
  <2>1. ring.enq = 0 /\ ring.deq = 0 /\ ring.deq + Gpu!Capacity - 1 = Gpu!Capacity - 1 /\ ring.deq .. ring.enq - 1 = {}
    BY <1>0
  <2>2. ASSUME NEW p \in 0 .. Gpu!Capacity - 1
        PROVE  ring.seq[Gpu!Cell(p)] = p /\ ring.data[Gpu!Cell(p)] = Gpu!NoCaller
    <3>1. Gpu!Cell(p) \in Cells /\ p \in Nat
      BY <1>0, CellFacts
    <3>2. Gpu!Cell(p) = p
      BY CellFacts DEF Cells
    <3> QED BY <3>1, <3>2 DEF Cells
  <2> HIDE DEF Gpu!GpuInit
  <2> QED BY <2>1, <2>2 DEF Window
<1>4. Events
  BY <1>0 DEF Events, Cells
<1>5. Counts
  <2>1. Active = {} /\ Holding = {}
    BY DEF Active, Holding
  <2>2. Cardinality(Active) = 0 /\ Cardinality(Holding) = 0
    BY <2>1, FS_EmptySet
  <2> QED BY <1>0, <2>2 DEF Counts
<1> QED BY <1>1, <1>2, <1>3, <1>4, <1>5 DEF GpuIInv

-----------------------------------------------------------------------------
(* The coroutines                                                           *)

\* A step that leaves the ring and the driver threads alone.
LEMMA RingUntouched ==
    ASSUME UNCHANGED <<ring, driver, slot>>
    PROVE  (Window => Window') /\ (Claims => Claims')
  BY DEF Window, Claims

\* One more copy holds a slab, or one less.
LEMMA ActiveMoves ==
    ASSUME TransfersSucceed, GpuTypes, NEW c \in Callers, NEW to, copy' = [copy EXCEPT ![c] = to]
    PROVE  Cardinality(Active') = Cardinality(Active)
              + (IF to = "idle" THEN 0 ELSE 1) - (IF copy[c] = "idle" THEN 0 ELSE 1)
<1>1. IsFiniteSet(Active) /\ Cardinality(Active) \in Nat
  BY FiniteCounts
<1>2. \A d : d \in Active' <=> d \in Callers /\ (IF d = c THEN to # "idle" ELSE copy[d] # "idle")
  BY DEF Active, GpuTypes
<1>3. \A d : d \in Active <=> d \in Callers /\ copy[d] # "idle"
  BY DEF Active
<1>4. CASE to = "idle" /\ copy[c] # "idle"
  <2>1. Active' = Active \ {c} /\ c \in Active
    BY <1>2, <1>3, <1>4
  <2>2. Cardinality(Active') = Cardinality(Active) - 1
    BY <1>1, <2>1, FS_RemoveElement
  <2> QED BY <1>1, <1>4, <2>2
<1>5. CASE to # "idle" /\ copy[c] = "idle"
  <2>1. Active' = Active \cup {c} /\ c \notin Active
    BY <1>2, <1>3, <1>5
  <2>2. Cardinality(Active') = Cardinality(Active) + 1
    BY <1>1, <2>1, FS_AddElement
  <2> QED BY <1>1, <1>5, <2>2
<1>6. CASE (to = "idle") <=> (copy[c] = "idle")
  <2>1. Active' = Active
    BY <1>2, <1>3, <1>6
  <2>2. Cardinality(Active') = Cardinality(Active)
    BY <2>1
  <2> QED BY <1>1, <1>6, <2>2
<1> QED BY <1>4, <1>5, <1>6

LEMMA EnqueueInv ==
    ASSUME TransfersSucceed, GpuIInv, NEW c \in Callers, Gpu!Enqueue(c)
    PROVE  GpuIInv'
<1>0. GpuTypes /\ Served /\ Window /\ Claims /\ Events /\ Counts
  BY DEF GpuIInv
<1>a. Depth \in Nat /\ Cardinality(Active) \in Nat /\ Cardinality(Holding) \in Nat
  BY RingFits, FiniteCounts
<1>b. Copies \in Nat
  BY DEF TransfersSucceed
<1>1. GpuTypes'
  BY <1>0, <1>b DEF Gpu!Enqueue, GpuTypes, Gpu!driverVars, Gpu!threadVars
<1>2. Served'
  BY <1>0 DEF Gpu!Enqueue, GpuTypes, Served, Gpu!driverVars
<1>3. Window' /\ Claims'
  BY <1>0, RingUntouched DEF Gpu!Enqueue, Gpu!driverVars
<1>4. Events'
  BY <1>0 DEF Gpu!Enqueue, GpuTypes, Events, Gpu!driverVars
<1>5. Counts'
  <2>1. Holding' = Holding
    BY <1>0 DEF Gpu!Enqueue, GpuTypes, Holding, Gpu!driverVars
  <2>2. copy' = [copy EXCEPT ![c] = "launched"] /\ copy[c] = "idle" /\ slabs' = slabs - 1 /\ ring' = ring
    BY DEF Gpu!Enqueue, Gpu!driverVars
  <2>3. Cardinality(Active') = Cardinality(Active) + (IF "launched" = "idle" THEN 0 ELSE 1)
                                  - (IF copy[c] = "idle" THEN 0 ELSE 1)
    BY <1>0, <2>2, ActiveMoves, Zenon
  <2> QED BY <1>0, <1>a, <2>1, <2>2, <2>3 DEF Counts, GpuTypes
<1> QED BY <1>1, <1>2, <1>3, <1>4, <1>5 DEF GpuIInv

\* Registered, the copy is the driver's; not registered, it ends at once.
LEMMA AddCallbackInv ==
    ASSUME TransfersSucceed, GpuIInv, NEW c \in Callers, Gpu!AddCallback(c)
    PROVE  GpuIInv'
<1>0. GpuTypes /\ Served /\ Window /\ Claims /\ Events /\ Counts
  BY DEF GpuIInv
<1>a. Depth \in Nat /\ Cardinality(Active) \in Nat /\ Cardinality(Holding) \in Nat
  BY RingFits, FiniteCounts
<1>b. copy[c] = "launched" /\ driver[c] = "none" /\ UNCHANGED <<ring, slot>>
  BY <1>0 DEF Gpu!AddCallback, Served
<1>c. /\ driver' = driver \/ driver' = [driver EXCEPT ![c] = "copying"]
      /\ \E to \in {"inflight", "idle"} : copy' = [copy EXCEPT ![c] = to]
  BY DEF Gpu!AddCallback, Gpu!Finish
<1>d. /\ copy' \in [Callers -> {"idle", "launched", "inflight"}]
      /\ driver' \in [Callers -> {"none", "copying", "push", "claimed", "published"}]
      /\ \A d \in Callers : d # c => copy'[d] = copy[d] /\ driver'[d] = driver[d]
      /\ ~(copy'[c] = "inflight" /\ driver'[c] \in {"published", "none"})
  BY <1>0, ZenonT(60) DEF Gpu!AddCallback, Gpu!Finish, GpuTypes
<1>1. GpuTypes'
  <2>1. status[c] = "ok" /\ outcome[c] = "ok" /\ <<status[c], outcome[c]>> = <<"ok", "ok">>
    BY <1>0 DEF GpuTypes
  <2>2. report' = report \/ report' = [report EXCEPT ![c] = <<"ok", "ok">>]
    BY <2>1 DEF Gpu!AddCallback, Gpu!Finish
  <2>3. report' \in [Callers -> {<<"ok", "ok">>}]
    BY <1>0, <2>2 DEF GpuTypes
  <2>4. slabs' \in Nat /\ launcher' \in [Callers -> {"none", "registered", "stored"}]
        /\ UNCHANGED <<status, outcome, started, rejected>>
    BY <1>0, SMTT(60) DEF Gpu!AddCallback, Gpu!Finish, GpuTypes
  <2> QED BY <1>0, <1>b, <1>d, <2>3, <2>4 DEF GpuTypes
<1>2. Served'
  BY <1>0, <1>b DEF Gpu!AddCallback, Gpu!Finish, GpuTypes, Served
<1>3. Window'
  BY <1>0, <1>b DEF Window
<1>4. Claims'
  <2>1. \A d \in Callers : driver'[d] = "claimed" <=> driver[d] = "claimed"
    BY <1>0, <1>b, <1>c DEF GpuTypes
  <2> QED BY <1>0, <1>b, <2>1 DEF Claims
<1>5. Events'
  <2>1. \A i \in Cells : ring.data[i] # c
    BY <1>0, <1>b DEF Events
  <2> QED BY <1>0, <1>b, <1>d, <2>1 DEF Events
<1>6. Counts'
  <2>1. Holding' = Holding
    BY <1>0, <1>b DEF Gpu!AddCallback, Gpu!Finish, GpuTypes, Holding
  <2>2. CASE copy' = [copy EXCEPT ![c] = "inflight"] /\ slabs' = slabs
    <3>1. Cardinality(Active') = Cardinality(Active) + (IF "inflight" = "idle" THEN 0 ELSE 1)
                                    - (IF copy[c] = "idle" THEN 0 ELSE 1)
      BY <1>0, <2>2, ActiveMoves, Zenon
    <3> QED BY <1>0, <1>a, <1>b, <2>1, <2>2, <3>1 DEF Counts, GpuTypes
  <2>3. CASE copy' = [copy EXCEPT ![c] = "idle"] /\ slabs' = slabs + 1
    <3>1. Cardinality(Active') = Cardinality(Active) + (IF "idle" = "idle" THEN 0 ELSE 1)
                                    - (IF copy[c] = "idle" THEN 0 ELSE 1)
      BY <1>0, <2>3, ActiveMoves, Zenon
    <3> QED BY <1>0, <1>a, <1>b, <2>1, <2>3, <3>1 DEF Counts, GpuTypes
  <2> QED BY <2>2, <2>3 DEF Gpu!AddCallback, Gpu!Finish
<1> QED BY <1>1, <1>2, <1>3, <1>4, <1>5, <1>6 DEF GpuIInv

\* The status stored is a success, so that the test never resumes the coroutine.
LEMMA StatusInv ==
    ASSUME TransfersSucceed, GpuIInv, NEW c \in Callers, Gpu!StoreStatus(c) \/ Gpu!TestStatus(c)
    PROVE  GpuIInv'
<1>0. GpuTypes /\ Served /\ Window /\ Claims /\ Events /\ Counts
  BY DEF GpuIInv
<1>1. GpuTypes' /\ UNCHANGED <<copy, slabs, driver, slot, ring>>
  BY <1>0, ZenonT(60) DEF Gpu!StoreStatus, Gpu!TestStatus, GpuTypes, Gpu!driverVars
<1> QED BY <1>0, <1>1 DEF GpuIInv, Served, Window, Claims, Events, Counts, Active, Holding

-----------------------------------------------------------------------------
(* The driver threads                                                       *)

\* A transfer that succeeds has a status of its own: nothing else changes.
LEMMA OnStreamDoneInv ==
    ASSUME TransfersSucceed, GpuIInv, NEW c \in Callers, Gpu!OnStreamDone(c)
    PROVE  GpuIInv'
<1>0. GpuTypes /\ Served /\ Window /\ Claims /\ Events /\ Counts
  BY DEF GpuIInv
<1>1. /\ driver[c] = "copying" /\ driver' = [driver EXCEPT ![c] = "push"] /\ copy[c] = "inflight"
      /\ UNCHANGED <<copy, launcher, report, started, slabs, slot, ring, rejected>>
  BY <1>0 DEF Gpu!OnStreamDone, Served
<1>2. GpuTypes'
  <2>1. PICK result \in IF CopyFails THEN {"ok", "error"} ELSE {"ok"} :
             outcome' = [outcome EXCEPT ![c] = result] /\ status' = [status EXCEPT ![c] = result]
    BY DEF Gpu!OnStreamDone
  <2>2. result = "ok"
    BY <2>1 DEF TransfersSucceed
  <2> QED BY <1>0, <1>1, <2>1, <2>2 DEF GpuTypes
<1>3. Served'
  BY <1>0, <1>1 DEF GpuTypes, Served
<1>4. Window'
  BY <1>0, <1>1 DEF Window
<1>5. Claims'
  BY <1>0, <1>1 DEF GpuTypes, Claims
<1>6. Events'
  BY <1>0, <1>1 DEF GpuTypes, Events
<1>7. Counts'
  <2>1. Holding' = Holding /\ Active' = Active
    BY <1>0, <1>1 DEF GpuTypes, Holding, Active
  <2> QED BY <1>0, <1>1, <2>1 DEF Counts
<1> QED BY <1>2, <1>3, <1>4, <1>5, <1>6, <1>7 DEF GpuIInv

\* There is room, so that the next position is claimed and no event rejected.
LEMMA ClaimInv ==
    ASSUME TransfersSucceed, GpuIInv, NEW c \in Callers, Gpu!Claim(c)
    PROVE  GpuIInv'
<1>0. GpuTypes /\ Served /\ Window /\ Claims /\ Events /\ Counts
  BY DEF GpuIInv
<1> DEFINE e == ring.enq
           d == ring.deq
           W == Gpu!Capacity
<1>a. e \in Nat /\ d \in Nat /\ d <= e /\ e < d + W /\ W \in Nat \ {0}
  BY <1>0, RoomLeft, RingFits
<1>b. ring.seq[Gpu!Cell(e)] = e /\ ring.data[Gpu!Cell(e)] = Gpu!NoCaller
  BY <1>0, <1>a DEF Window
<1>c. /\ driver[c] = "push" /\ driver' = [driver EXCEPT ![c] = "claimed"] /\ copy[c] = "inflight"
      /\ slot' = [slot EXCEPT ![c] = e] /\ ring' = [ring EXCEPT !.enq = e + 1]
      /\ UNCHANGED <<Gpu!copyVars, rejected>>
  <2>1. ~(ring.seq[Gpu!Cell(ring.enq)] < ring.enq)
    BY <1>a, <1>b
  <2> QED BY <1>0, <2>1 DEF Gpu!Claim, Served
<1>d. /\ ring'.enq = e + 1 /\ ring'.deq = d /\ ring'.seq = ring.seq /\ ring'.data = ring.data
      /\ ring' \in [seq : [Cells -> Nat], enq : Nat, deq : Nat, data : [Cells -> Callers \cup {Gpu!NoCaller}]]
  BY <1>0, <1>a, <1>c, SMTT(60) DEF GpuTypes
<1> HIDE DEF e, d, W
<1>1. GpuTypes'
  BY <1>0, <1>a, <1>c, <1>d DEF GpuTypes, Gpu!copyVars
<1>2. Served'
  BY <1>0, <1>c DEF GpuTypes, Served, Gpu!copyVars
<1>3. Window'
  <2>1. \A p \in e + 1 .. d + W - 1 : ring.seq[Gpu!Cell(p)] = p /\ ring.data[Gpu!Cell(p)] = Gpu!NoCaller
    BY <1>0, <1>a DEF Window, e, d, W
  <2>2. ASSUME NEW p \in d .. e, ring.seq[Gpu!Cell(p)] = p + 1
        PROVE  ring.data[Gpu!Cell(p)] \in Callers
    <3>1. p # e
      BY <1>a, <1>b, <2>2
    <3>2. p \in ring.deq .. ring.enq - 1
      BY <1>a, <3>1 DEF e, d
    <3> QED BY <1>0, <2>2, <3>2 DEF Window
  <2>3. (e + 1) - 1 = e /\ d <= e + 1
    BY <1>a
  <2> QED BY <1>d, <2>1, <2>2, <2>3 DEF Window, W
<1>4. Claims'
  <2>1. \A f \in Callers : f # c /\ driver'[f] = "claimed" => driver[f] = "claimed" /\ slot'[f] = slot[f] /\ slot[f] \in Nat
                                                                  /\ d <= slot[f] /\ slot[f] < e
    BY <1>0, <1>c DEF GpuTypes, Claims, d, e
  <2>2. slot'[c] = e
    BY <1>0, <1>c DEF GpuTypes
  <2>3. \A f \in Callers : driver'[f] = "claimed" =>
           /\ d <= slot'[f] /\ slot'[f] < e + 1
           /\ ring.seq[Gpu!Cell(slot'[f])] = slot'[f] /\ ring.data[Gpu!Cell(slot'[f])] = Gpu!NoCaller
    <3>1. ASSUME NEW f \in Callers, driver'[f] = "claimed"
          PROVE  /\ d <= slot'[f] /\ slot'[f] < e + 1
                 /\ ring.seq[Gpu!Cell(slot'[f])] = slot'[f] /\ ring.data[Gpu!Cell(slot'[f])] = Gpu!NoCaller
      <4>1. CASE f = c
        BY <1>a, <1>b, <2>2, <4>1 DEF e
      <4>2. CASE f # c
        BY <1>0, <1>a, <2>1, <3>1, <4>2 DEF Claims
      <4> QED BY <4>1, <4>2
    <3> QED BY <3>1
  <2>4. \A f, g \in Callers : driver'[f] = "claimed" /\ driver'[g] = "claimed" /\ slot'[f] = slot'[g] => f = g
    <3>1. ASSUME NEW f \in Callers, NEW g \in Callers, driver'[f] = "claimed", driver'[g] = "claimed",
                 slot'[f] = slot'[g], f # g
          PROVE  FALSE
      <4>1. CASE f # c /\ g # c
        BY <1>0, <2>1, <3>1, <4>1 DEF Claims
      <4>2. CASE f = c \/ g = c
        BY <1>a, <2>1, <2>2, <3>1, <4>2
      <4> QED BY <4>1, <4>2
    <3> QED BY <3>1
  <2> QED BY <1>d, <2>3, <2>4 DEF Claims
<1>5. Events'
  BY <1>0, <1>c, <1>d DEF GpuTypes, Events, Gpu!copyVars
<1>6. Counts'
  <2>1. Active' = Active /\ slabs' = slabs
    BY <1>c DEF Active, Gpu!copyVars
  <2>2. Holding' = Holding \cup {c} /\ c \notin Holding
    BY <1>0, <1>c DEF GpuTypes, Holding, Gpu!copyVars
  <2>3. Cardinality(Holding') = Cardinality(Holding) + 1 /\ Cardinality(Holding) \in Nat
    BY <2>2, FiniteCounts, FS_AddElement
  <2>4. e = d + Cardinality(Holding) /\ slabs = Depth - Cardinality(Active)
    BY <1>0 DEF Counts, e, d
  <2> QED BY <1>a, <1>d, <2>1, <2>3, <2>4 DEF Counts
<1> QED BY <1>1, <1>2, <1>3, <1>4, <1>5, <1>6 DEF GpuIInv

\* The event goes to the cell of the claimed position, which no other position
\* between dequeue_pos_ and a round further has.
LEMMA PublishInv ==
    ASSUME TransfersSucceed, GpuIInv, NEW c \in Callers, Gpu!Publish(c)
    PROVE  GpuIInv'
<1>0. GpuTypes /\ Served /\ Window /\ Claims /\ Events /\ Counts /\ Gpu!NoCaller \notin Callers
  BY DEF GpuIInv, TransfersSucceed
<1> DEFINE e == ring.enq
           d == ring.deq
           W == Gpu!Capacity
           p0 == slot[c]
           k == Gpu!Cell(p0)
<1>a. e \in Nat /\ d \in Nat /\ d <= e /\ e < d + W /\ W \in Nat \ {0}
  BY <1>0, RoomLeft, RingFits
<1>b. /\ driver[c] = "claimed" /\ driver' = [driver EXCEPT ![c] = "published"] /\ copy[c] = "inflight"
      /\ ring' = [ring EXCEPT !.data[k] = c, !.seq[k] = p0 + 1]
      /\ UNCHANGED <<slot, rejected, Gpu!copyVars>>
  BY <1>0 DEF Gpu!Publish, Served
<1>c. p0 \in Nat /\ d <= p0 /\ p0 < e /\ ring.seq[k] = p0 /\ ring.data[k] = Gpu!NoCaller
  BY <1>0, <1>b DEF Claims, GpuTypes
<1>d. k \in Cells
  BY <1>c, CellFacts
<1>e. \A p \in d .. d + W - 1 : p # p0 => Gpu!Cell(p) # k
  <2>1. ASSUME NEW p \in d .. d + W - 1, Gpu!Cell(p) = k
        PROVE  p = p0
    <3>1. p \in Nat /\ p - p0 < Gpu!Capacity /\ p0 - p < Gpu!Capacity
      BY <1>a, <1>c
    <3> QED BY <1>c, <2>1, <3>1, CellsApart
  <2> QED BY <2>1
<1> HIDE DEF k
<1>f. /\ ring'.enq = e /\ ring'.deq = d
      /\ ring' \in [seq : [Cells -> Nat], enq : Nat, deq : Nat, data : [Cells -> Callers \cup {Gpu!NoCaller}]]
      /\ ring'.seq[k] = p0 + 1 /\ ring'.data[k] = c
      /\ \A i \in Cells : i # k => ring'.seq[i] = ring.seq[i] /\ ring'.data[i] = ring.data[i]
  <2> HIDE DEF e, d, p0
  <2>1. ring \in [seq : [Cells -> Nat], enq : Nat, deq : Nat, data : [Cells -> Callers \cup {Gpu!NoCaller}]]
    BY <1>0 DEF GpuTypes
  <2>2. /\ ring'.enq = ring.enq /\ ring'.deq = ring.deq
        /\ ring'.seq = [ring.seq EXCEPT ![k] = p0 + 1] /\ ring'.data = [ring.data EXCEPT ![k] = c]
        /\ ring' = [seq |-> ring'.seq, enq |-> ring'.enq, deq |-> ring'.deq, data |-> ring'.data]
    BY <1>b, <2>1
  <2>3. ring'.seq \in [Cells -> Nat] /\ ring'.data \in [Cells -> Callers \cup {Gpu!NoCaller}]
    <3>1. ring.seq \in [Cells -> Nat] /\ ring.data \in [Cells -> Callers \cup {Gpu!NoCaller}] /\ p0 + 1 \in Nat
      BY <1>c, <2>1
    <3>2. [ring.seq EXCEPT ![k] = p0 + 1] \in [Cells -> Nat]
      BY <3>1
    <3>3. [ring.data EXCEPT ![k] = c] \in [Cells -> Callers \cup {Gpu!NoCaller}]
      BY <3>1
    <3> QED BY <2>2, <3>2, <3>3
  <2>4. ring' \in [seq : [Cells -> Nat], enq : Nat, deq : Nat, data : [Cells -> Callers \cup {Gpu!NoCaller}]]
    BY <2>1, <2>2, <2>3
  <2>5. ring'.enq = e /\ ring'.deq = d
    BY <2>2 DEF e, d
  <2> QED BY <1>d, <2>1, <2>2, <2>4, <2>5
<1>g. \A p \in d .. d + W - 1 : p # p0 =>
         ring'.seq[Gpu!Cell(p)] = ring.seq[Gpu!Cell(p)] /\ ring'.data[Gpu!Cell(p)] = ring.data[Gpu!Cell(p)]
  <2>1. \A p \in d .. d + W - 1 : Gpu!Cell(p) \in Cells
    BY <1>a, CellFacts
  <2> QED BY <1>e, <1>f, <2>1
<1>h. k = Gpu!Cell(p0)
  BY DEF k
<1> HIDE DEF e, d, W, p0
<1>1. GpuTypes'
  BY <1>0, <1>b, <1>f DEF GpuTypes, Gpu!copyVars
<1>2. Served'
  BY <1>0, <1>b DEF GpuTypes, Served, Gpu!copyVars
<1>3. Window'
  <2>1. ASSUME NEW p \in e .. d + W - 1
        PROVE  ring'.seq[Gpu!Cell(p)] = p /\ ring'.data[Gpu!Cell(p)] = Gpu!NoCaller
    <3>1. p \in d .. d + W - 1 /\ p # p0
      BY <1>a, <1>c
    <3>2. ring.seq[Gpu!Cell(p)] = p /\ ring.data[Gpu!Cell(p)] = Gpu!NoCaller
      BY <1>0 DEF Window, e, d, W
    <3> QED BY <1>g, <3>1, <3>2
  <2>2. ASSUME NEW p \in d .. e - 1, ring'.seq[Gpu!Cell(p)] = p + 1
        PROVE  ring'.data[Gpu!Cell(p)] \in Callers
    <3>1. CASE p = p0
      BY <1>f, <1>h, <3>1
    <3>2. CASE p # p0
      <4>1. p \in d .. d + W - 1 /\ p \in ring.deq .. ring.enq - 1
        BY <1>a DEF e, d
      <4> QED BY <1>0, <1>g, <2>2, <3>2, <4>1 DEF Window
    <3> QED BY <3>1, <3>2
  <2> QED BY <1>a, <1>f, <2>1, <2>2 DEF Window, W
<1>4. Claims'
  <2>1. ASSUME NEW f \in Callers, driver'[f] = "claimed"
        PROVE  /\ driver[f] = "claimed" /\ d <= slot'[f] /\ slot'[f] < e /\ slot'[f] = slot[f]
               /\ ring'.seq[Gpu!Cell(slot'[f])] = slot'[f] /\ ring'.data[Gpu!Cell(slot'[f])] = Gpu!NoCaller
    <3>1. f # c /\ driver[f] = "claimed" /\ slot'[f] = slot[f] /\ slot[f] \in Nat
      BY <1>0, <1>b, <2>1 DEF GpuTypes
    <3>2. /\ d <= slot[f] /\ slot[f] < e /\ ring.seq[Gpu!Cell(slot[f])] = slot[f]
          /\ ring.data[Gpu!Cell(slot[f])] = Gpu!NoCaller /\ slot[f] # p0
      BY <1>0, <1>b, <3>1 DEF Claims, e, d, p0
    <3>3. slot[f] \in d .. d + W - 1
      BY <1>a, <3>1, <3>2
    <3> QED BY <1>g, <3>1, <3>2, <3>3
  <2>2. \A f, g \in Callers : driver'[f] = "claimed" /\ driver'[g] = "claimed" /\ slot'[f] = slot'[g] => f = g
    BY <1>0, <2>1 DEF Claims
  <2> QED BY <1>f, <2>1, <2>2 DEF Claims
<1>5. Events'
  <2>1. \A i \in Cells : ring.data[i] # c
    BY <1>0, <1>b DEF Events
  <2>2. \A f \in Callers : copy'[f] = copy[f] /\ (f # c => driver'[f] = driver[f])
    BY <1>0, <1>b DEF GpuTypes, Gpu!copyVars
  <2>3. driver'[c] = "published" /\ copy[c] = "inflight"
    BY <1>0, <1>b DEF GpuTypes
  <2>4. ASSUME NEW i \in Cells, ring'.data[i] \in Callers
        PROVE  copy'[ring'.data[i]] = "inflight" /\ driver'[ring'.data[i]] \in {"published", "none"}
    <3>1. CASE i = k
      BY <1>f, <2>2, <2>3, <3>1
    <3>2. CASE i # k
      <4>1. ring'.data[i] = ring.data[i] /\ ring.data[i] # c
        BY <1>f, <2>1, <3>2
      <4>2. copy[ring.data[i]] = "inflight" /\ driver[ring.data[i]] \in {"published", "none"}
        BY <1>0, <2>4, <4>1 DEF Events
      <4> QED BY <2>2, <2>4, <4>1, <4>2
    <3> QED BY <3>1, <3>2
  <2>5. \A i, j \in Cells : ring'.data[i] \in Callers /\ ring'.data[i] = ring'.data[j] => i = j
    <3>1. ASSUME NEW i \in Cells, NEW j \in Cells, ring'.data[i] \in Callers, ring'.data[i] = ring'.data[j]
          PROVE  i = j
      BY <1>0, <1>f, <2>1, <3>1 DEF Events
    <3> QED BY <3>1
  <2>6. ASSUME NEW f \in Callers, copy'[f] = "inflight", driver'[f] \in {"published", "none"}
        PROVE  \E i \in Cells : ring'.data[i] = f
    <3>1. CASE f = c
      BY <1>d, <1>f, <3>1
    <3>2. CASE f # c
      <4>1. PICK i \in Cells : ring.data[i] = f
        BY <1>0, <2>2, <2>6, <3>2 DEF Events
      <4>2. i # k
        BY <1>0, <1>c, <4>1
      <4> QED BY <1>f, <4>1, <4>2
    <3> QED BY <3>1, <3>2
  <2> QED BY <2>4, <2>5, <2>6 DEF Events
<1>6. Counts'
  <2>1. Active' = Active /\ Holding' = Holding /\ slabs' = slabs
    BY <1>0, <1>b DEF GpuTypes, Active, Holding, Gpu!copyVars
  <2>2. e = d + Cardinality(Holding) /\ slabs = Depth - Cardinality(Active)
    BY <1>0 DEF Counts, e, d
  <2> QED BY <1>f, <2>1, <2>2 DEF Counts
<1> QED BY <1>1, <1>2, <1>3, <1>4, <1>5, <1>6 DEF GpuIInv

\* The ticket says nothing about the ring.
LEMMA AdvanceInv ==
    ASSUME TransfersSucceed, GpuIInv, NEW c \in Callers, Gpu!Advance(c)
    PROVE  GpuIInv'
<1>0. GpuTypes /\ Served /\ Window /\ Claims /\ Events /\ Counts
  BY DEF GpuIInv
<1>1. /\ driver[c] = "published" /\ driver' = [driver EXCEPT ![c] = "none"]
      /\ UNCHANGED <<slot, ring, rejected, Gpu!copyVars>>
  BY DEF Gpu!Advance
<1>2. GpuTypes' /\ Served'
  BY <1>0, <1>1 DEF GpuTypes, Served, Gpu!copyVars
<1>3. Window' /\ Claims'
  BY <1>0, <1>1 DEF GpuTypes, Window, Claims
<1>4. Events'
  BY <1>0, <1>1 DEF GpuTypes, Events, Gpu!copyVars
<1>5. Counts'
  <2>1. Active' = Active /\ Holding' = Holding
    BY <1>0, <1>1 DEF GpuTypes, Active, Holding, Gpu!copyVars
  <2> QED BY <1>0, <1>1, <2>1 DEF Counts, Gpu!copyVars
<1> QED BY <1>2, <1>3, <1>4, <1>5 DEF GpuIInv

-----------------------------------------------------------------------------
(* The GPU callback thread                                                  *)

\* The oldest event leaves its cell to the position of the next round, and the
\* coroutine that it names is the one that ends.
LEMMA PopResumeInv ==
    ASSUME TransfersSucceed, GpuIInv, Gpu!PopResume
    PROVE  GpuIInv'
<1>0. GpuTypes /\ Served /\ Window /\ Claims /\ Events /\ Counts /\ Gpu!NoCaller \notin Callers
  BY DEF GpuIInv, TransfersSucceed
<1> DEFINE e == ring.enq
           d == ring.deq
           W == Gpu!Capacity
           k == Gpu!Cell(d)
           c == ring.data[k]
<1>a. e \in Nat /\ d \in Nat /\ d <= e /\ e < d + W /\ W \in Nat \ {0} /\ d + W \in Nat
  BY <1>0, RoomLeft, RingFits
<1>b. k \in Cells /\ k = Gpu!Cell(d) /\ Gpu!Cell(d + W) = k
  BY <1>a, CellFacts
<1>c. ring.seq[k] = d + 1
  BY DEF Gpu!PopResume, Gpu!Ready
<1>d. d < e /\ c \in Callers
  <2>1. d # e
    <3>1. d = e => d \in ring.enq .. ring.deq + Gpu!Capacity - 1
      BY <1>a
    <3> QED BY <1>0, <1>a, <1>c, <3>1 DEF Window
  <2>2. d \in ring.deq .. ring.enq - 1
    BY <1>a, <2>1
  <2> QED BY <1>0, <1>a, <1>c, <2>1, <2>2 DEF Window
<1>e. /\ ring' = [ring EXCEPT !.seq[k] = d + W, !.deq = d + 1, !.data[k] = Gpu!NoCaller]
      /\ copy' = [copy EXCEPT ![c] = "idle"] /\ slabs' = slabs + 1
      /\ report' = [report EXCEPT ![c] = <<status[c], outcome[c]>>]
      /\ UNCHANGED <<launcher, status, outcome, started, driver, slot, rejected>>
  BY DEF Gpu!PopResume, Gpu!Finish, Gpu!Popped
<1>f. copy[c] = "inflight" /\ driver[c] \in {"published", "none"} /\ \A i \in Cells : ring.data[i] = c => i = k
  BY <1>0, <1>b, <1>d DEF Events
<1>g. \A p \in d .. d + W - 1 : p # d => Gpu!Cell(p) # k
  <2>1. ASSUME NEW p \in d .. d + W - 1, Gpu!Cell(p) = k
        PROVE  p = d
    <3>1. p \in Nat /\ p - d < Gpu!Capacity /\ d - p < Gpu!Capacity
      BY <1>a
    <3> QED BY <1>a, <2>1, <3>1, CellsApart
  <2> QED BY <2>1
<1> HIDE DEF k, c
<1>h. /\ ring'.enq = e /\ ring'.deq = d + 1
      /\ ring' \in [seq : [Cells -> Nat], enq : Nat, deq : Nat, data : [Cells -> Callers \cup {Gpu!NoCaller}]]
      /\ ring'.seq[k] = d + W /\ ring'.data[k] = Gpu!NoCaller
      /\ \A i \in Cells : i # k => ring'.seq[i] = ring.seq[i] /\ ring'.data[i] = ring.data[i]
  <2>a. d = ring.deq
    OBVIOUS
  <2> HIDE DEF e, d, W
  <2>1. ring \in [seq : [Cells -> Nat], enq : Nat, deq : Nat, data : [Cells -> Callers \cup {Gpu!NoCaller}]]
    BY <1>0 DEF GpuTypes
  <2>2. /\ ring'.enq = ring.enq /\ ring'.deq = d + 1
        /\ ring'.seq = [ring.seq EXCEPT ![k] = d + W] /\ ring'.data = [ring.data EXCEPT ![k] = Gpu!NoCaller]
        /\ ring' = [seq |-> ring'.seq, enq |-> ring'.enq, deq |-> ring'.deq, data |-> ring'.data]
    BY <1>e, <2>1
  <2>3. ring'.seq \in [Cells -> Nat] /\ ring'.data \in [Cells -> Callers \cup {Gpu!NoCaller}]
    <3>1. ring.seq \in [Cells -> Nat] /\ ring.data \in [Cells -> Callers \cup {Gpu!NoCaller}] /\ d + W \in Nat
      BY <1>a, <2>1
    <3>2. [ring.seq EXCEPT ![k] = d + W] \in [Cells -> Nat]
      BY <3>1
    <3>3. [ring.data EXCEPT ![k] = Gpu!NoCaller] \in [Cells -> Callers \cup {Gpu!NoCaller}]
      BY <3>1
    <3> QED BY <2>2, <3>2, <3>3
  <2>4. ring' \in [seq : [Cells -> Nat], enq : Nat, deq : Nat, data : [Cells -> Callers \cup {Gpu!NoCaller}]]
    BY <1>a, <2>1, <2>2, <2>3
  <2>5. ring'.enq = e
    BY <2>2 DEF e
  <2> QED BY <1>b, <2>1, <2>2, <2>4, <2>5
<1>i. \A p \in d .. d + W - 1 : p # d =>
         ring'.seq[Gpu!Cell(p)] = ring.seq[Gpu!Cell(p)] /\ ring'.data[Gpu!Cell(p)] = ring.data[Gpu!Cell(p)]
  <2>1. \A p \in d .. d + W - 1 : Gpu!Cell(p) \in Cells
    BY <1>a, CellFacts
  <2> QED BY <1>g, <1>h, <2>1
<1> HIDE DEF e, d, W
<1>j. /\ copy' \in [Callers -> {"idle", "launched", "inflight"}] /\ copy'[c] = "idle"
      /\ \A f \in Callers : f # c => copy'[f] = copy[f]
  BY <1>0, <1>d, <1>e DEF GpuTypes
<1>1. GpuTypes'
  <2>1. status[c] = "ok" /\ outcome[c] = "ok" /\ <<status[c], outcome[c]>> = <<"ok", "ok">>
    BY <1>0, <1>d DEF GpuTypes
  <2>2. report' \in [Callers -> {<<"ok", "ok">>}]
    BY <1>0, <1>e, <2>1 DEF GpuTypes
  <2>3. slabs' \in Nat
    BY <1>0, <1>e DEF GpuTypes
  <2> QED BY <1>0, <1>e, <1>h, <1>j, <2>2, <2>3 DEF GpuTypes
<1>2. Served'
  BY <1>0, <1>d, <1>e, <1>f, <1>j DEF Served
<1>3. Window'
  <2>1. ASSUME NEW p \in e .. (d + 1) + W - 1
        PROVE  ring'.seq[Gpu!Cell(p)] = p /\ ring'.data[Gpu!Cell(p)] = Gpu!NoCaller
    <3>1. CASE p = d + W
      BY <1>b, <1>h, <3>1
    <3>2. CASE p # d + W
      <4>1. p \in d .. d + W - 1 /\ p # d /\ p \in e .. d + W - 1
        BY <1>a, <1>d, <3>2
      <4>2. ring.seq[Gpu!Cell(p)] = p /\ ring.data[Gpu!Cell(p)] = Gpu!NoCaller
        BY <1>0, <4>1 DEF Window, e, d, W
      <4> QED BY <1>i, <4>1, <4>2
    <3> QED BY <3>1, <3>2
  <2>2. ASSUME NEW p \in d + 1 .. e - 1, ring'.seq[Gpu!Cell(p)] = p + 1
        PROVE  ring'.data[Gpu!Cell(p)] \in Callers
    <3>1. p \in d .. d + W - 1 /\ p # d /\ p \in d .. e - 1
      BY <1>a
    <3>2. \A q \in d .. e - 1 : ring.seq[Gpu!Cell(q)] = q + 1 => ring.data[Gpu!Cell(q)] \in Callers
      BY <1>0 DEF Window, e, d
    <3> QED BY <1>i, <2>2, <3>1, <3>2
  <2>3. d + 1 <= e
    BY <1>a, <1>d
  <2> QED BY <1>h, <2>1, <2>2, <2>3 DEF Window, W
<1>4. Claims'
  <2>1. ASSUME NEW f \in Callers, driver[f] = "claimed"
        PROVE  /\ d + 1 <= slot[f] /\ slot[f] < e
               /\ ring'.seq[Gpu!Cell(slot[f])] = slot[f] /\ ring'.data[Gpu!Cell(slot[f])] = Gpu!NoCaller
    <3>1. /\ slot[f] \in Nat /\ d <= slot[f] /\ slot[f] < e /\ ring.seq[Gpu!Cell(slot[f])] = slot[f]
          /\ ring.data[Gpu!Cell(slot[f])] = Gpu!NoCaller
      BY <1>0, <2>1 DEF Claims, GpuTypes, e, d
    <3>2. slot[f] # d
      BY <1>0, <1>b, <1>d, <3>1 DEF c
    <3>3. slot[f] \in d .. d + W - 1
      BY <1>a, <3>1
    <3> QED BY <1>a, <1>i, <3>1, <3>2, <3>3
  <2> QED BY <1>0, <1>e, <1>h, <2>1 DEF Claims
<1>5. Events'
  <2>1. ASSUME NEW i \in Cells, ring'.data[i] \in Callers
        PROVE  i # k /\ ring'.data[i] = ring.data[i] /\ ring.data[i] # c
    <3>1. i # k
      BY <1>0, <1>h, <2>1
    <3> QED BY <1>f, <1>h, <3>1
  <2>2. \A i \in Cells : ring'.data[i] \in Callers =>
           copy'[ring'.data[i]] = "inflight" /\ driver'[ring'.data[i]] \in {"published", "none"}
    BY <1>0, <1>e, <1>j, <2>1 DEF Events
  <2>3. \A i, j \in Cells : ring'.data[i] \in Callers /\ ring'.data[i] = ring'.data[j] => i = j
    BY <1>0, <2>1 DEF Events
  <2>4. ASSUME NEW f \in Callers, copy'[f] = "inflight", driver'[f] \in {"published", "none"}
        PROVE  \E i \in Cells : ring'.data[i] = f
    <3>1. f # c /\ copy[f] = "inflight" /\ driver[f] \in {"published", "none"}
      BY <1>e, <1>j, <2>4
    <3>2. PICK i \in Cells : ring.data[i] = f
      BY <1>0, <3>1 DEF Events
    <3>3. i # k
      BY <3>1, <3>2 DEF c
    <3> QED BY <1>h, <3>2, <3>3
  <2> QED BY <2>2, <2>3, <2>4 DEF Events
<1>6. Counts'
  <2>1. e = d + Cardinality(Holding) /\ slabs = Depth - Cardinality(Active)
    BY <1>0 DEF Counts, e, d
  <2>2. Cardinality(Holding') = Cardinality(Holding) - 1 /\ Cardinality(Holding) \in Nat
    <3>1. Holding' = Holding \ {c} /\ c \in Holding
      BY <1>0, <1>d, <1>e, <1>f, <1>j DEF Holding
    <3> QED BY <3>1, FiniteCounts, FS_RemoveElement
  <2>3. Cardinality(Active') = Cardinality(Active) - 1 /\ Cardinality(Active) \in Nat
    <3>1. Active' = Active \ {c} /\ c \in Active
      BY <1>0, <1>d, <1>f, <1>j DEF Active
    <3> QED BY <3>1, FiniteCounts, FS_RemoveElement
  <2>4. Depth \in Nat
    BY RingFits
  <2>5. ring'.enq = ring'.deq + Cardinality(Holding')
    BY <1>a, <1>h, <2>1, <2>2
  <2>6. slabs' = Depth - Cardinality(Active')
    BY <1>e, <2>1, <2>3, <2>4
  <2> QED BY <2>5, <2>6 DEF Counts
<1> QED BY <1>1, <1>2, <1>3, <1>4, <1>5, <1>6 DEF GpuIInv

LEMMA GpuNextInv ==
    ASSUME TransfersSucceed, GpuIInv, [Gpu!GpuNext]_(Gpu!gpuVars)
    PROVE  GpuIInv'
<1>1. ASSUME UNCHANGED <<Gpu!copyVars, driver, slot, ring, rejected>>
      PROVE  GpuIInv'
  BY <1>1 DEF Gpu!copyVars, GpuIInv, GpuTypes, Served, Window, Claims, Events, Counts, Active, Holding
<1>2. ASSUME NEW c \in Callers, Gpu!Enqueue(c) \/ Gpu!CallerStep(c) \/ Gpu!DriverStep(c)
      PROVE  GpuIInv'
  BY <1>2, EnqueueInv, AddCallbackInv, StatusInv, OnStreamDoneInv, ClaimInv, PublishInv, AdvanceInv
     DEF Gpu!CallerStep, Gpu!DriverStep
<1>3. CASE Gpu!ThreadStep \/ Gpu!Destroy
  <2>1. CASE Gpu!PopResume
    BY <2>1, PopResumeInv
  <2>2. CASE Gpu!Loop \/ Gpu!PopEmpty \/ Gpu!Wait \/ Gpu!Destroy
    <3>1. UNCHANGED <<Gpu!copyVars, driver, slot, ring, rejected>>
      BY <2>2 DEF Gpu!Loop, Gpu!PopEmpty, Gpu!Wait, Gpu!Destroy, Gpu!driverVars
    <3> QED BY <1>1, <3>1
  <2> QED BY <1>3, <2>1, <2>2 DEF Gpu!ThreadStep
<1>4. CASE UNCHANGED Gpu!gpuVars
  BY <1>1, <1>4 DEF Gpu!gpuVars, Gpu!driverVars
<1> QED BY <1>2, <1>3, <1>4 DEF Gpu!GpuNext

-----------------------------------------------------------------------------
\* "the completion callback is the ONLY caller allowed to resume" and "a queue sized
\* past that can never reject a driver push" (gpu_stream_queue.h:13,
\* gpu_stream_queue.cpp:127-129): every suspended copy has one completion on its
\* way, every slab one holder, and the ring always a free cell, for any number of
\* coroutines and driver threads and through every round of the ring.
THEOREM OneCompletionPerCopy ==
    ASSUME TransfersSucceed
    PROVE  Gpu!GpuSpec => []Gpu!GpuInv
<1>1. Gpu!GpuInit => GpuIInv
  BY GpuInitInv
<1>2. GpuIInv /\ [Gpu!GpuNext]_(Gpu!gpuVars) => GpuIInv'
  BY GpuNextInv
<1>3. GpuIInv => Gpu!GpuInv
  BY GpuInvMeans
<1> QED BY <1>1, <1>2, <1>3, PTL DEF Gpu!GpuSpec

-----------------------------------------------------------------------------
(* Inference: one worker about the engine, which a reload leaves its gaps.  *)
CONSTANTS Workers, Pages, MaxFrames, MaxReloads
VARIABLES engine, cuda, free, inferring, reload, taken

Inf == INSTANCE Inference WITH Slabs <- Pages, Gaps <- TRUE, worker <- inferring

\* One worker, and a name for no address.
InferAssumption == (\A v, w \in Workers : v = w) /\ Inf!None \notin Pages

Addrs == [in : Pages \cup {Inf!None}, out : Inf!Outs \cup {Inf!None}]
Ops == [src : Inf!Memory, dst : Inf!Memory]
WorkerSteps == {"idle", "stream", "create", "input", "output", "alloc", "infer", "copy", "sync", "download", "done"}

EngineType == /\ engine \in [bound : Addrs, current : Nat, contexts : Seq(Addrs)]
              /\ engine.current \in 1 .. Len(engine.contexts)
              /\ reload = <<>> \/ \E a \in Addrs : reload = <<a>>
CudaType == /\ cuda \in [stream : Nat, queues : Seq(Seq(Ops)), mem : [Inf!Memory -> Nat], made : SUBSET Inf!Outs]
            /\ taken \in Nat
WorkRecords == [pc : WorkerSteps, frame : Nat, slab : Pages \cup {Inf!None}, copy : Pages \cup {Inf!None},
          stream : Nat, data : Nat]
WorkerType == /\ inferring \in [Workers -> WorkRecords]
              /\ free \subseteq Pages

\* The output buffer is bound once: a context has it, or was made before it.
OneOutput == /\ \A i \in 1 .. Len(engine.contexts) : engine.contexts[i].out \in {Inf!None, engine.bound.out}
             /\ \A a \in Addrs : reload = <<a>> => a.out \in {Inf!None, engine.bound.out}

\* One stream, made for the first frame.
OneStream == Len(cuda.queues) = cuda.stream /\ cuda.stream \in {0, 1}

Dst(w) == IF inferring[w].copy = Inf!None THEN <<"host", w>> ELSE inferring[w].copy
RunOp(w) == [src |-> inferring[w].slab, dst |-> engine.bound.out]
CopyOp(w) == [src |-> engine.bound.out, dst |-> Dst(w)]
Busy == {"stream", "create", "input", "output", "alloc", "infer", "copy", "sync", "download"}

\* Where the frame, or its features, are, step by step: in the slab, in the output
\* buffer, and at the copy's destination, with what is still queued between them.
Where(w) ==
  LET f == inferring[w].frame  at == inferring[w].pc  mem == cuda.mem  q == cuda.queues IN
  /\ at \in Busy => inferring[w].slab \in Pages \ free /\ inferring[w].data = 0
  /\ at \in {"create"} => cuda.stream = 0
  /\ at \in {"input", "output", "alloc", "infer", "copy", "sync", "download"} => inferring[w].stream = 1 /\ cuda.stream = 1
  /\ at \in {"stream", "create", "input", "output", "alloc", "infer", "download"} => \A s \in 1 .. cuda.stream : q[s] = <<>>
  /\ at \in {"stream", "create", "input", "output", "alloc", "infer"} => mem[inferring[w].slab] = f
  /\ at \in {"output", "alloc", "infer"} => engine.contexts[engine.current].in = inferring[w].slab
  /\ at = "alloc" => engine.bound.out = Inf!None
  /\ at \in {"infer", "copy", "sync", "download"} => engine.bound.out # Inf!None
  /\ at = "copy" => \/ q[1] = <<RunOp(w)>> /\ mem[inferring[w].slab] = f
                    \/ q[1] = <<>> /\ mem[engine.bound.out] = f
  /\ at \in {"sync", "download"} => inferring[w].copy \notin free /\ inferring[w].copy # inferring[w].slab
  /\ at = "sync" => \/ q[1] = <<RunOp(w), CopyOp(w)>> /\ mem[inferring[w].slab] = f
                    \/ q[1] = <<CopyOp(w)>> /\ mem[engine.bound.out] = f
                    \/ q[1] = <<>> /\ mem[Dst(w)] = f
  /\ at = "download" => mem[Dst(w)] = f
  /\ at = "idle" => inferring[w].data = 0

InferIInv == /\ EngineType /\ CudaType /\ WorkerType /\ OneOutput /\ OneStream
             /\ \A w \in Workers : Where(w) /\ inferring[w].data \in {0, inferring[w].frame}

-----------------------------------------------------------------------------
\* What Where needs of the types, field by field.
LEMMA InferFacts ==
    ASSUME InferIInv, NEW w \in Workers
    PROVE  /\ inferring \in [Workers -> WorkRecords] /\ inferring[w] \in WorkRecords
           /\ inferring[w].pc \in WorkerSteps /\ inferring[w].frame \in Nat
           /\ inferring[w].slab \in Pages \cup {Inf!None} /\ inferring[w].copy \in Pages \cup {Inf!None}
           /\ cuda.stream \in {0, 1} /\ cuda.queues \in Seq(Seq(Ops)) /\ Len(cuda.queues) = cuda.stream
           /\ cuda.mem \in [Inf!Memory -> Nat] /\ cuda.made \subseteq Inf!Outs
           /\ engine.bound \in Addrs /\ engine.contexts \in Seq(Addrs)
           /\ engine.current \in 1 .. Len(engine.contexts)
           /\ free \subseteq Pages /\ taken \in Nat
BY DEF InferIInv, EngineType, CudaType, WorkerType, OneStream, WorkRecords

LEMMA WhereFacts == ASSUME InferIInv, NEW w \in Workers
                    PROVE  Where(w) /\ inferring[w].data \in {0, inferring[w].frame}
BY DEF InferIInv

\* A step of the worker that binds nothing, queues nothing and frees nothing.
LEMMA SetInputType ==
    ASSUME InferIInv, NEW addr \in Pages \cup {Inf!None}, Inf!SetTensorAddress("in", addr), UNCHANGED reload
    PROVE  /\ EngineType' /\ OneOutput'
           /\ engine'.bound.out = engine.bound.out /\ engine'.current = engine.current
           /\ engine'.contexts[engine.current].in = addr
<1> DEFINE c == engine.current
           new == [engine.contexts[c] EXCEPT !.in = addr]
           b == [engine.bound EXCEPT !.in = addr]
<1>1. /\ engine \in [bound : Addrs, current : Nat, contexts : Seq(Addrs)]
      /\ c \in 1 .. Len(engine.contexts) /\ engine.contexts \in Seq(Addrs) /\ engine.bound \in Addrs
      /\ engine.contexts[c] \in Addrs
  BY DEF InferIInv, EngineType
<1>2. engine' = [engine EXCEPT !.bound = b, !.contexts = [engine.contexts EXCEPT ![c] = new]]
  BY <1>1 DEF Inf!SetTensorAddress, Addrs
<1>3. new \in Addrs /\ b \in Addrs /\ new.in = addr /\ new.out = engine.contexts[c].out /\ b.out = engine.bound.out
  BY <1>1 DEF Addrs
<1> HIDE DEF new, b
<1>a. [engine.contexts EXCEPT ![c] = new] \in Seq(Addrs)
  BY <1>1, <1>3
<1>4. /\ engine'.bound = b /\ engine'.current = c /\ engine'.contexts = [engine.contexts EXCEPT ![c] = new]
      /\ engine' \in [bound : Addrs, current : Nat, contexts : Seq(Addrs)]
  BY <1>1, <1>2, <1>3, <1>a
<1>5. /\ Len(engine'.contexts) = Len(engine.contexts)
      /\ \A i \in 1 .. Len(engine.contexts) : engine'.contexts[i] = IF i = c THEN new ELSE engine.contexts[i]
  BY <1>1, <1>4
<1>6. EngineType'
  BY <1>1, <1>4, <1>5 DEF InferIInv, EngineType
<1>7. OneOutput'
  BY <1>1, <1>3, <1>4, <1>5 DEF InferIInv, OneOutput
<1> QED BY <1>1, <1>3, <1>4, <1>5, <1>6, <1>7

\* A step of the worker: what it is about, and where its frame is, afterwards.
LEMMA WorkerMoves ==
    ASSUME InferAssumption, InferIInv, NEW w \in Workers, NEW r \in WorkRecords,
           inferring' = [inferring EXCEPT ![w] = r],
           EngineType', CudaType', OneOutput', OneStream', free' \subseteq Pages, Where(w)',
           r.data \in {0, r.frame}
    PROVE  InferIInv'
<1>1. \A v \in Workers : v = w
  BY DEF InferAssumption
<1>2. inferring \in [Workers -> WorkRecords]
  BY DEF InferIInv, WorkerType
<1>3. WorkerType'
  BY <1>2 DEF WorkerType
<1>4. inferring'[w] = r
  BY <1>2
<1>5. \A v \in Workers : Where(v)' /\ inferring'[v].data \in {0, inferring'[v].frame}
  BY <1>1, <1>4
<1> QED BY <1>3, <1>5 DEF InferIInv

\* Nothing but the worker changes.
LEMMA OnlyWorker ==
    ASSUME InferIInv, UNCHANGED <<engine, cuda, free, reload, taken>>
    PROVE  EngineType' /\ CudaType' /\ OneOutput' /\ OneStream' /\ free' \subseteq Pages
BY DEF InferIInv, EngineType, CudaType, OneOutput, OneStream, WorkerType

LEMMA EnsureStreamInv ==
    ASSUME InferAssumption, InferIInv, NEW w \in Workers, Inf!EnsureStream(w)
    PROVE  InferIInv'
<1> DEFINE own == inferring[w]
<1>1. /\ UNCHANGED <<engine, cuda, free, reload, taken>> /\ own.pc = "stream"
      /\ inferring \in [Workers -> WorkRecords] /\ own \in WorkRecords /\ cuda.stream \in {0, 1}
  BY InferFacts DEF Inf!EnsureStream, Inf!At
<1>2. EngineType' /\ CudaType' /\ OneOutput' /\ OneStream' /\ free' \subseteq Pages
  BY <1>1, OnlyWorker
<1>3. CASE cuda.stream = 0
  <2> DEFINE r == [own EXCEPT !.pc = "create"]
  <2>1. inferring' = [inferring EXCEPT ![w] = r]
    BY <1>1, <1>3 DEF Inf!EnsureStream, Inf!Go
  <2>2. r \in WorkRecords /\ r.pc = "create" /\ r.data = own.data /\ r.slab = own.slab /\ r.frame = own.frame
    BY <1>1 DEF WorkRecords, WorkerSteps
  <2> HIDE DEF r
  <2>3. inferring'[w] = r
    BY <1>1, <2>1
  <2>4. Where(w)'
    BY <1>1, <1>3, <2>2, <2>3, WhereFacts DEF Where, Busy
  <2> QED BY <1>2, <2>1, <2>2, <2>4, WhereFacts, WorkerMoves
<1>4. CASE cuda.stream # 0
  <2> DEFINE r == [own EXCEPT !.stream = 1, !.pc = "input"]
  <2>1. inferring' = [inferring EXCEPT ![w] = r] /\ cuda.stream = 1
    BY <1>1, <1>4 DEF Inf!EnsureStream, Inf!Go
  <2>2. /\ r \in WorkRecords /\ r.pc = "input" /\ r.data = own.data /\ r.slab = own.slab /\ r.frame = own.frame
        /\ r.stream = 1
    BY <1>1, <2>1 DEF WorkRecords, WorkerSteps
  <2> HIDE DEF r
  <2>3. inferring'[w] = r
    BY <1>1, <2>1
  <2>4. Where(w)'
    BY <1>1, <2>1, <2>2, <2>3, WhereFacts DEF Where, Busy
  <2> QED BY <1>2, <2>1, <2>2, <2>4, WhereFacts, WorkerMoves
<1> QED BY <1>3, <1>4

LEMMA CreateStreamInv ==
    ASSUME InferAssumption, InferIInv, NEW w \in Workers, Inf!CreateStream(w)
    PROVE  InferIInv'
<1> DEFINE own == inferring[w]
           q == Append(cuda.queues, <<>>)
           r == [own EXCEPT !.stream = 1, !.pc = "input"]
<1>1. /\ UNCHANGED <<engine, free, reload, taken>> /\ own.pc = "create" /\ own \in WorkRecords
      /\ inferring \in [Workers -> WorkRecords] /\ cuda.queues \in Seq(Seq(Ops)) /\ Len(cuda.queues) = cuda.stream
      /\ free \subseteq Pages
  BY InferFacts DEF Inf!CreateStream, Inf!At
<1>2. cuda.stream = 0
  BY <1>1, WhereFacts DEF Where
<1>a. Len(cuda.queues) + 1 = 1
  BY <1>1, <1>2
<1>3. cuda' = [cuda EXCEPT !.queues = q, !.stream = 1] /\ inferring' = [inferring EXCEPT ![w] = r]
  BY <1>a DEF Inf!CreateStream
<1>4. q \in Seq(Seq(Ops)) /\ Len(q) = 1 /\ q[1] = <<>>
  BY <1>1, <1>2
<1> HIDE DEF q
<1>5. /\ r \in WorkRecords /\ r.pc = "input" /\ r.stream = 1 /\ r.data = own.data /\ r.slab = own.slab
      /\ r.frame = own.frame
  BY <1>1 DEF WorkRecords, WorkerSteps
<1> HIDE DEF r
<1>6. /\ cuda'.queues = q /\ cuda'.stream = 1 /\ cuda'.mem = cuda.mem
      /\ CudaType'
  BY <1>1, <1>3, <1>4 DEF InferIInv, CudaType
<1>7. EngineType' /\ OneOutput' /\ OneStream'
  BY <1>1, <1>4, <1>6 DEF InferIInv, EngineType, OneOutput, OneStream
<1>8. inferring'[w] = r
  BY <1>1, <1>3
<1>9. Where(w)'
  BY <1>1, <1>4, <1>5, <1>6, <1>8, WhereFacts DEF Where, Busy
<1> QED BY <1>1, <1>3, <1>5, <1>6, <1>7, <1>9, WhereFacts, WorkerMoves

LEMMA SetInputInv ==
    ASSUME InferAssumption, InferIInv, NEW w \in Workers, Inf!SetInput(w)
    PROVE  InferIInv'
<1> DEFINE own == inferring[w]
           r == [own EXCEPT !.pc = "output"]
<1>1. /\ UNCHANGED <<cuda, free, reload, taken>> /\ own.pc = "input" /\ own \in WorkRecords
      /\ Inf!SetTensorAddress("in", own.slab) /\ own.slab \in Pages \cup {Inf!None}
      /\ inferring \in [Workers -> WorkRecords] /\ inferring' = [inferring EXCEPT ![w] = r] /\ free \subseteq Pages
  BY InferFacts DEF Inf!SetInput, Inf!At, Inf!Go
<1>2. /\ EngineType' /\ OneOutput' /\ engine'.current = engine.current
      /\ engine'.contexts[engine.current].in = own.slab
  BY <1>1, SetInputType
<1>3. CudaType' /\ OneStream'
  BY <1>1 DEF InferIInv, CudaType, OneStream
<1>4. /\ r \in WorkRecords /\ r.pc = "output" /\ r.data = own.data /\ r.slab = own.slab
      /\ r.frame = own.frame /\ r.stream = own.stream
  BY <1>1 DEF WorkRecords, WorkerSteps
<1>5. inferring'[w] = r
  BY <1>1
<1> HIDE DEF r
<1>6. Where(w)'
  BY <1>1, <1>2, <1>4, <1>5, WhereFacts DEF Where, Busy
<1> QED BY <1>1, <1>2, <1>3, <1>4, <1>6, WhereFacts, WorkerMoves

LEMMA EnsureOutputBufferInv ==
    ASSUME InferAssumption, InferIInv, NEW w \in Workers, Inf!EnsureOutputBuffer(w)
    PROVE  InferIInv'
<1> DEFINE own == inferring[w]
           at == IF engine.bound.out = Inf!None THEN "alloc" ELSE "infer"
           r == [own EXCEPT !.pc = at]
<1>1. /\ UNCHANGED <<engine, cuda, free, reload, taken>> /\ own.pc = "output" /\ own \in WorkRecords
      /\ inferring \in [Workers -> WorkRecords] /\ inferring' = [inferring EXCEPT ![w] = r]
  BY InferFacts DEF Inf!EnsureOutputBuffer, Inf!At, Inf!Go
<1>2. EngineType' /\ CudaType' /\ OneOutput' /\ OneStream' /\ free' \subseteq Pages
  BY <1>1, OnlyWorker
<1>3. at \in {"alloc", "infer"} /\ (at = "alloc" <=> engine.bound.out = Inf!None)
  OBVIOUS
<1> HIDE DEF at
<1>4. /\ r \in WorkRecords /\ r.pc = at /\ r.data = own.data /\ r.slab = own.slab
      /\ r.frame = own.frame /\ r.stream = own.stream
  BY <1>1, <1>3 DEF WorkRecords, WorkerSteps
<1>5. inferring'[w] = r
  BY <1>1
<1> HIDE DEF r
<1>6. Where(w)'
  BY <1>1, <1>3, <1>4, <1>5, WhereFacts DEF Where, Busy
<1> QED BY <1>1, <1>2, <1>4, <1>6, WhereFacts, WorkerMoves

LEMMA AllocOutputInv ==
    ASSUME InferAssumption, InferIInv, NEW w \in Workers, Inf!AllocOutput(w)
    PROVE  InferIInv'
<1> DEFINE own == inferring[w]
           r == [own EXCEPT !.pc = "infer"]
           c == engine.current
<1>1. /\ UNCHANGED <<free, reload, taken>> /\ own.pc = "alloc" /\ own \in WorkRecords
      /\ inferring \in [Workers -> WorkRecords] /\ inferring' = [inferring EXCEPT ![w] = r] /\ free \subseteq Pages
  BY InferFacts DEF Inf!AllocOutput, Inf!At, Inf!Go
<1>2. engine.bound.out = Inf!None
  BY <1>1, WhereFacts DEF Where
<1>3. PICK buf \in Inf!Outs : /\ cuda' = [cuda EXCEPT !.made = @ \cup {buf}]
                              /\ Inf!SetTensorAddress("out", buf)
  BY DEF Inf!AllocOutput
<1>4. buf # Inf!None
  BY DEF Inf!Outs, Inf!None
<1>5. /\ CudaType' /\ OneStream' /\ cuda'.queues = cuda.queues /\ cuda'.mem = cuda.mem
      /\ cuda'.stream = cuda.stream
  <2>1. cuda.made \cup {buf} \in SUBSET Inf!Outs
    BY <1>1, InferFacts
  <2> QED BY <1>1, <1>3, <2>1 DEF InferIInv, CudaType, OneStream
<1> DEFINE new == [engine.contexts[c] EXCEPT !.out = buf]
           b == [engine.bound EXCEPT !.out = buf]
           all == [engine.contexts EXCEPT ![c] = new]
<1>6. /\ engine \in [bound : Addrs, current : Nat, contexts : Seq(Addrs)]
      /\ c \in 1 .. Len(engine.contexts) /\ engine.contexts \in Seq(Addrs) /\ engine.bound \in Addrs
      /\ engine.contexts[c] \in Addrs
  BY DEF InferIInv, EngineType
<1>7. engine' = [engine EXCEPT !.bound = b, !.contexts = all]
  BY <1>3, <1>6 DEF Inf!SetTensorAddress, Addrs
<1>8. new \in Addrs /\ b \in Addrs /\ new.in = engine.contexts[c].in /\ new.out = buf /\ b.out = buf
  BY <1>6 DEF Addrs
<1> HIDE DEF new, b
<1>9. all \in Seq(Addrs)
  BY <1>6, <1>8
<1>10. /\ engine'.bound = b /\ engine'.current = c /\ engine'.contexts = all
       /\ engine' \in [bound : Addrs, current : Nat, contexts : Seq(Addrs)]
  BY <1>6, <1>7, <1>8, <1>9
<1>11. /\ Len(engine'.contexts) = Len(engine.contexts)
       /\ \A i \in 1 .. Len(engine.contexts) : engine'.contexts[i] = IF i = c THEN new ELSE engine.contexts[i]
  BY <1>6, <1>10
<1> HIDE DEF all
<1>12. EngineType'
  BY <1>1, <1>6, <1>10, <1>11 DEF InferIInv, EngineType
<1>13. OneOutput'
  BY <1>1, <1>2, <1>8, <1>10, <1>11 DEF InferIInv, OneOutput
<1>14. /\ engine'.bound.out # Inf!None /\ engine'.current = engine.current
       /\ engine'.contexts[c].in = engine.contexts[c].in
  BY <1>4, <1>6, <1>8, <1>10, <1>11
<1>15. /\ r \in WorkRecords /\ r.pc = "infer" /\ r.data = own.data /\ r.slab = own.slab
       /\ r.frame = own.frame /\ r.stream = own.stream
  BY <1>1 DEF WorkRecords, WorkerSteps
<1>16. inferring'[w] = r
  BY <1>1, SMTT(60)
<1> HIDE DEF r
<1>17. Where(w)'
  BY <1>1, <1>5, <1>14, <1>15, <1>16, WhereFacts DEF Where, Busy
<1> QED BY <1>1, <1>5, <1>12, <1>13, <1>15, <1>17, WhereFacts, WorkerMoves

\* Whatever failed, the slabs go back and there are no features.
LEMMA GiveUpInv ==
    ASSUME InferAssumption, InferIInv, NEW w \in Workers, Inf!GiveUp(w), UNCHANGED <<engine, cuda, reload, taken>>
    PROVE  InferIInv'
<1> DEFINE r == [Inf!NoWork EXCEPT !.pc = "done", !.frame = inferring[w].frame]
<1>1. /\ inferring \in [Workers -> WorkRecords] /\ inferring[w] \in WorkRecords
      /\ inferring' = [inferring EXCEPT ![w] = r]
  BY InferFacts DEF Inf!GiveUp
<1>2. free' \subseteq Pages
  BY InferFacts DEF Inf!GiveUp, Inf!Held
<1>3. EngineType' /\ CudaType' /\ OneOutput' /\ OneStream'
  BY DEF InferIInv, EngineType, CudaType, OneOutput, OneStream
<1>4. r \in WorkRecords /\ r.pc = "done" /\ r.data = 0
  BY <1>1 DEF WorkRecords, WorkerSteps, Inf!NoWork
<1>5. inferring'[w] = r
  BY <1>1
<1> HIDE DEF r
<1>6. Where(w)'
  BY <1>4, <1>5 DEF Where, Busy
<1> QED BY <1>1, <1>2, <1>3, <1>4, <1>6, WorkerMoves

\* One operation more on the stream.
LEMMA QueuedOp ==
    ASSUME InferIInv, cuda.stream = 1, NEW op \in Ops, UNCHANGED taken,
           cuda' = [cuda EXCEPT !.queues[1] = Append(@, op)]
    PROVE  /\ CudaType' /\ OneStream' /\ cuda'.stream = 1 /\ cuda'.mem = cuda.mem
           /\ cuda'.queues[1] = Append(cuda.queues[1], op)
<1> DEFINE q == [cuda.queues EXCEPT ![1] = Append(cuda.queues[1], op)]
<1>1. /\ cuda \in [stream : Nat, queues : Seq(Seq(Ops)), mem : [Inf!Memory -> Nat], made : SUBSET Inf!Outs]
      /\ cuda.queues \in Seq(Seq(Ops)) /\ Len(cuda.queues) = 1 /\ taken \in Nat
  BY DEF InferIInv, CudaType, OneStream
<1>2. 1 \in DOMAIN cuda.queues /\ cuda.queues[1] \in Seq(Ops)
  BY <1>1
<1>3. Append(cuda.queues[1], op) \in Seq(Ops)
  BY <1>2
<1>4. q \in Seq(Seq(Ops)) /\ Len(q) = 1 /\ q[1] = Append(cuda.queues[1], op)
  BY <1>1, <1>2, <1>3
<1>5. cuda' = [cuda EXCEPT !.queues = q]
  BY <1>1
<1> HIDE DEF q
<1>6. /\ cuda'.queues = q /\ cuda'.stream = 1 /\ cuda'.mem = cuda.mem
      /\ cuda' \in [stream : Nat, queues : Seq(Seq(Ops)), mem : [Inf!Memory -> Nat], made : SUBSET Inf!Outs]
  BY <1>1, <1>4, <1>5
<1> QED BY <1>1, <1>4, <1>6 DEF CudaType, OneStream

LEMMA InferAsyncInv ==
    ASSUME InferAssumption, InferIInv, NEW w \in Workers, Inf!InferAsync(w)
    PROVE  InferIInv'
<1> DEFINE own == inferring[w]
           r == [own EXCEPT !.pc = "copy"]
           ctx == engine.contexts[engine.current]
<1>1. UNCHANGED <<engine, reload, taken>> /\ own.pc = "infer"
  BY DEF Inf!InferAsync, Inf!At
<1>2. CASE Inf!GiveUp(w) /\ UNCHANGED cuda
  BY <1>1, <1>2, GiveUpInv
<1>3. CASE /\ Inf!None \notin Inf!Range(ctx)
           /\ cuda' = [cuda EXCEPT !.queues[own.stream] = Append(@, [src |-> ctx.in, dst |-> ctx.out])]
           /\ Inf!Go(w, "copy") /\ UNCHANGED free
  <2>1. /\ own \in WorkRecords /\ inferring \in [Workers -> WorkRecords] /\ inferring' = [inferring EXCEPT ![w] = r]
        /\ free \subseteq Pages /\ ctx \in Addrs /\ engine.bound \in Addrs
    BY <1>3, InferFacts DEF Inf!Go
  <2>2. /\ own.slab \in Pages \ free /\ own.data = 0 /\ own.stream = 1 /\ cuda.stream = 1
        /\ cuda.queues[1] = <<>> /\ cuda.mem[own.slab] = own.frame /\ ctx.in = own.slab
        /\ engine.bound.out # Inf!None
    BY <1>1, WhereFacts DEF Where, Busy
  <2>3. ctx.out # Inf!None
    BY <1>3, <2>1 DEF Addrs, Inf!Range
  <2>4. ctx.out = engine.bound.out
    BY <2>3, InferFacts DEF InferIInv, OneOutput
  <2>5. [src |-> ctx.in, dst |-> ctx.out] = RunOp(w) /\ RunOp(w) \in Ops
    BY <2>1, <2>2, <2>3, <2>4 DEF RunOp, Ops, Inf!Memory, Addrs
  <2>6. cuda' = [cuda EXCEPT !.queues[1] = Append(@, RunOp(w))]
    BY <1>3, <2>2, <2>5
  <2>7. /\ CudaType' /\ OneStream' /\ cuda'.stream = 1 /\ cuda'.mem = cuda.mem
        /\ cuda'.queues[1] = <<RunOp(w)>>
    BY <1>1, <2>2, <2>5, <2>6, QueuedOp
  <2>8. EngineType' /\ OneOutput'
    BY <1>1 DEF InferIInv, EngineType, OneOutput
  <2>9. /\ r \in WorkRecords /\ r.pc = "copy" /\ r.data = 0 /\ r.slab = own.slab
        /\ r.frame = own.frame /\ r.stream = 1
    BY <2>1, <2>2 DEF WorkRecords, WorkerSteps
  <2>10. inferring'[w] = r
    BY <2>1
  <2> HIDE DEF r
  <2>11. RunOp(w)' = RunOp(w)
    BY <1>1, <2>9, <2>10 DEF RunOp
  <2>12. Where(w)'
    BY <1>1, <1>3, <2>2, <2>7, <2>9, <2>10, <2>11 DEF Where, Busy
  <2> QED BY <1>3, <2>1, <2>7, <2>8, <2>9, <2>12, WorkerMoves
<1> QED BY <1>1, <1>2, <1>3 DEF Inf!InferAsync

\* A sequence of one and one more.
LEMMA AppendPair == ASSUME NEW x, NEW y PROVE Append(<<x>>, y) = <<x, y>>
<1> DEFINE a == Append(<<x>>, y)
           b == <<x, y>>
           S == {x, y}
<1>1. x \in S /\ y \in S
  OBVIOUS
<1>2. <<x>> \in Seq(S) /\ Len(<<x>>) = 1 /\ <<x>>[1] = x
  BY <1>1
<1>3. a \in Seq(S) /\ Len(a) = 2 /\ a[1] = x /\ a[2] = y
  BY <1>2
<1>4. b \in Seq(S) /\ Len(b) = 2 /\ b[1] = x /\ b[2] = y
  BY <1>1
<1> HIDE DEF a, b
<1>5. a \in [1 .. 2 -> S] /\ b \in [1 .. 2 -> S] /\ \A i \in 1 .. 2 : a[i] = b[i]
  BY <1>3, <1>4
<1>6. a = b
  BY <1>5, SMTT(60)
<1> QED BY <1>6 DEF a, b

\* The copy of the features is queued behind the run.
LEMMA CopyQueued ==
    ASSUME InferAssumption, InferIInv, NEW w \in Workers, inferring[w].pc = "copy",
           NEW s \in Pages \cup {Inf!None}, s \in free \/ s = Inf!None, free' = free \ {s},
           NEW d, d = (IF s = Inf!None THEN <<"host", w>> ELSE s),
           cuda' = [cuda EXCEPT !.queues[inferring[w].stream] = Append(@, [src |-> engine.bound.out, dst |-> d])],
           inferring' = [inferring EXCEPT ![w].copy = s, ![w].pc = "sync"],
           UNCHANGED <<engine, reload, taken>>
    PROVE  InferIInv'
<1> DEFINE own == inferring[w]
           r == [own EXCEPT !.copy = s, !.pc = "sync"]
           op == [src |-> engine.bound.out, dst |-> d]
<1>1. /\ own \in WorkRecords /\ inferring \in [Workers -> WorkRecords] /\ inferring' = [inferring EXCEPT ![w] = r]
      /\ free \subseteq Pages /\ engine.bound \in Addrs
  BY InferFacts
<1>2. /\ own.slab \in Pages \ free /\ own.data = 0 /\ own.stream = 1 /\ cuda.stream = 1
      /\ engine.bound.out # Inf!None
      /\ \/ cuda.queues[1] = <<RunOp(w)>> /\ cuda.mem[own.slab] = own.frame
         \/ cuda.queues[1] = <<>> /\ cuda.mem[engine.bound.out] = own.frame
  BY WhereFacts DEF Where, Busy
<1>3. op \in Ops
  BY <1>1, <1>2 DEF Ops, Inf!Memory, Inf!Hosts, Addrs
<1> HIDE DEF op
<1>4. cuda' = [cuda EXCEPT !.queues[1] = Append(@, op)]
  BY <1>2 DEF op
<1>5. /\ CudaType' /\ OneStream' /\ cuda'.stream = 1 /\ cuda'.mem = cuda.mem
      /\ cuda'.queues[1] = Append(cuda.queues[1], op)
  BY <1>2, <1>3, <1>4, QueuedOp
<1>6. EngineType' /\ OneOutput' /\ free' \subseteq Pages
  BY <1>1 DEF InferIInv, EngineType, OneOutput
<1>7. /\ r \in WorkRecords /\ r.pc = "sync" /\ r.data = 0 /\ r.slab = own.slab
      /\ r.frame = own.frame /\ r.stream = 1 /\ r.copy = s
  BY <1>1, <1>2 DEF WorkRecords, WorkerSteps
<1>8. inferring'[w] = r
  BY <1>1
<1> HIDE DEF r
<1>9. /\ s \notin free' /\ s # own.slab /\ own.slab \in Pages \ free'
  BY <1>1, <1>2 DEF InferAssumption
<1>10. Dst(w)' = d /\ RunOp(w)' = RunOp(w) /\ CopyOp(w)' = op
  BY <1>7, <1>8 DEF Dst, RunOp, CopyOp, op
<1>11. \/ cuda'.queues[1] = <<RunOp(w), op>> /\ cuda.mem[own.slab] = own.frame
       \/ cuda'.queues[1] = <<op>> /\ cuda.mem[engine.bound.out] = own.frame
  <2>1. Append(<<RunOp(w)>>, op) = <<RunOp(w), op>>
    BY AppendPair
  <2>2. Append(<<>>, op) = <<op>>
    BY SMTT(60)
  <2> QED BY <1>2, <1>5, <2>1, <2>2
<1>12. Where(w)'
  BY <1>2, <1>5, <1>7, <1>8, <1>9, <1>10, <1>11, SMTT(60) DEF Where, Busy
<1> QED BY <1>1, <1>5, <1>6, <1>7, <1>12, WorkerMoves

LEMMA CopyFeaturesInv ==
    ASSUME InferAssumption, InferIInv, NEW w \in Workers, Inf!CopyFeatures(w)
    PROVE  InferIInv'
<1> DEFINE to(d) == cuda' = [cuda EXCEPT !.queues[inferring[w].stream] = Append(@, [src |-> engine.bound.out, dst |-> d])]
<1>1. UNCHANGED <<engine, reload, taken>> /\ inferring[w].pc = "copy" /\ free \subseteq Pages
  BY InferFacts DEF Inf!CopyFeatures, Inf!At
<1>2. CASE Inf!GiveUp(w) /\ UNCHANGED cuda
  BY <1>1, <1>2, GiveUpInv, SMTT(60)
<1>3. CASE \E s \in free : /\ to(s) /\ free' = free \ {s}
                           /\ inferring' = [inferring EXCEPT ![w].copy = s, ![w].pc = "sync"]
  <2>1. PICK s \in free : /\ to(s) /\ free' = free \ {s}
                          /\ inferring' = [inferring EXCEPT ![w].copy = s, ![w].pc = "sync"]
    BY <1>3
  <2>2. s \in Pages \cup {Inf!None} /\ s = (IF s = Inf!None THEN <<"host", w>> ELSE s)
    BY <1>1 DEF InferAssumption
  <2> QED BY <1>1, <2>1, <2>2, CopyQueued
<1>4. CASE /\ to(<<"host", w>>) /\ UNCHANGED free
           /\ inferring' = [inferring EXCEPT ![w].copy = Inf!None, ![w].pc = "sync"]
  <2>1. free' = free \ {Inf!None}
    BY <1>1, <1>4 DEF InferAssumption
  <2>2. PICK d : d = <<"host", w>>
    OBVIOUS
  <2>3. to(d) /\ Inf!None \in Pages \cup {Inf!None} /\ d = (IF Inf!None = Inf!None THEN <<"host", w>> ELSE Inf!None)
    BY <1>4, <2>2
  <2> HIDE DEF to
  <2>4. inferring' = [inferring EXCEPT ![w].copy = Inf!None, ![w].pc = "sync"]
    BY <1>4
  <2> QED BY <1>1, <2>1, <2>3, <2>4, CopyQueued DEF to
<1> QED BY <1>1, <1>2, <1>3, <1>4, ZenonT(60) DEF Inf!CopyFeatures

LEMMA SynchronizeInv ==
    ASSUME InferAssumption, InferIInv, NEW w \in Workers, Inf!Synchronize(w)
    PROVE  InferIInv'
<1> DEFINE own == inferring[w]
           r == [own EXCEPT !.pc = "download"]
<1>1. /\ UNCHANGED <<engine, cuda, free, reload, taken>> /\ own.pc = "sync" /\ own \in WorkRecords
      /\ inferring \in [Workers -> WorkRecords] /\ inferring' = [inferring EXCEPT ![w] = r]
      /\ cuda.queues[own.stream] = <<>>
  BY InferFacts DEF Inf!Synchronize, Inf!At, Inf!Go
<1>2. EngineType' /\ CudaType' /\ OneOutput' /\ OneStream' /\ free' \subseteq Pages
  BY <1>1, OnlyWorker
<1>3. /\ own.slab \in Pages \ free /\ own.data = 0 /\ own.stream = 1 /\ cuda.stream = 1
      /\ engine.bound.out # Inf!None /\ own.copy \notin free /\ own.copy # own.slab
      /\ cuda.queues[1] = <<>> /\ cuda.mem[Dst(w)] = own.frame
  <2>1. /\ own.slab \in Pages \ free /\ own.data = 0 /\ own.stream = 1 /\ cuda.stream = 1
        /\ engine.bound.out # Inf!None /\ own.copy \notin free /\ own.copy # own.slab
    BY <1>1, WhereFacts, ZenonT(60) DEF Where, Busy
  <2>2. cuda.queues[1] = <<>>
    BY <1>1, <2>1
  <2>3. \/ cuda.queues[1] = <<RunOp(w), CopyOp(w)>>
        \/ cuda.queues[1] = <<CopyOp(w)>>
        \/ cuda.mem[Dst(w)] = own.frame
    BY <1>1, WhereFacts, ZenonT(60) DEF Where
  <2>4. <<RunOp(w), CopyOp(w)>> # <<>> /\ <<CopyOp(w)>> # <<>>
    OBVIOUS
  <2> QED BY <2>1, <2>2, <2>3, <2>4, ZenonT(60)
<1>4. /\ r \in WorkRecords /\ r.pc = "download" /\ r.data = own.data /\ r.slab = own.slab
      /\ r.frame = own.frame /\ r.stream = 1 /\ r.copy = own.copy
  BY <1>1, <1>3 DEF WorkRecords, WorkerSteps
<1>5. inferring'[w] = r
  BY <1>1
<1> HIDE DEF r
<1>6. Dst(w)' = Dst(w)
  BY <1>4, <1>5 DEF Dst
<1>7. Where(w)'
  BY <1>1, <1>3, <1>4, <1>5, <1>6 DEF Where, Busy
<1> QED BY <1>1, <1>2, <1>3, <1>4, <1>7, WorkerMoves

LEMMA DownloadInv ==
    ASSUME InferAssumption, InferIInv, NEW w \in Workers, Inf!Download(w)
    PROVE  InferIInv'
<1> DEFINE own == inferring[w]
           from == IF own.copy = Inf!None THEN <<"host", w>> ELSE own.copy
           r == [Inf!NoWork EXCEPT !.pc = "done", !.frame = own.frame, !.data = cuda.mem[from]]
<1>1. /\ UNCHANGED <<engine, cuda, reload, taken>> /\ own.pc = "download" /\ own \in WorkRecords
      /\ inferring \in [Workers -> WorkRecords] /\ inferring' = [inferring EXCEPT ![w] = r]
      /\ free' = free \cup Inf!Held(w) /\ free \subseteq Pages
  BY InferFacts DEF Inf!Download, Inf!At
<1>2. free' \subseteq Pages
  BY <1>1, InferFacts DEF Inf!Held
<1>3. EngineType' /\ CudaType' /\ OneOutput' /\ OneStream'
  BY <1>1 DEF InferIInv, EngineType, CudaType, OneOutput, OneStream
<1>4. cuda.mem[from] = own.frame
  BY <1>1, WhereFacts DEF Where, Dst
<1> HIDE DEF from
<1>5. r \in WorkRecords /\ r.pc = "done" /\ r.frame = own.frame /\ r.data = own.frame
  BY <1>1, <1>4 DEF WorkRecords, WorkerSteps, Inf!NoWork
<1>6. inferring'[w] = r
  BY <1>1
<1> HIDE DEF r
<1>7. Where(w)'
  BY <1>5, <1>6 DEF Where, Busy
<1> QED BY <1>1, <1>2, <1>3, <1>5, <1>7, WorkerMoves

\* Memory and queues after an operation, whose other parts are as they were.
LEMMA NextFrameInv ==
    ASSUME InferAssumption, InferIInv, NEW w \in Workers, Inf!NextFrame(w)
    PROVE  InferIInv'
<1> DEFINE m == [cuda.mem EXCEPT ![<<"host", w>>] = 0]
           r == Inf!NoWork
<1>1. /\ UNCHANGED <<engine, free, reload, taken>> /\ inferring' = [inferring EXCEPT ![w] = r]
      /\ inferring \in [Workers -> WorkRecords] /\ free \subseteq Pages
  BY InferFacts DEF Inf!NextFrame
<1>2. cuda \in [stream : Nat, queues : Seq(Seq(Ops)), mem : [Inf!Memory -> Nat], made : SUBSET Inf!Outs]
  BY DEF InferIInv, CudaType
<1>3. m \in [Inf!Memory -> Nat]
  BY <1>2
<1>4. cuda' = [cuda EXCEPT !.mem = m]
  BY <1>2 DEF Inf!NextFrame
<1> HIDE DEF m
<1>5. CudaType' /\ OneStream'
  BY <1>1, <1>2, <1>3, <1>4 DEF InferIInv, CudaType, OneStream
<1>6. EngineType' /\ OneOutput'
  BY <1>1 DEF InferIInv, EngineType, OneOutput
<1>7. r \in WorkRecords /\ r.pc = "idle" /\ r.data = 0
  BY DEF WorkRecords, WorkerSteps, Inf!NoWork
<1> HIDE DEF r
<1>8. inferring'[w] = r
  BY <1>1
<1>9. Where(w)'
  BY <1>7, <1>8, SMTT(60) DEF Where, Busy
<1> QED BY <1>1, <1>5, <1>6, <1>7, <1>9, WorkerMoves

LEMMA UploadInv ==
    ASSUME InferAssumption, InferIInv, NEW w \in Workers, Inf!Upload(w)
    PROVE  InferIInv'
<1>1. /\ UNCHANGED <<engine, reload>> /\ inferring \in [Workers -> WorkRecords] /\ free \subseteq Pages
      /\ taken \in Nat /\ taken' = taken + 1
  BY InferFacts DEF Inf!Upload
<1>2. cuda \in [stream : Nat, queues : Seq(Seq(Ops)), mem : [Inf!Memory -> Nat], made : SUBSET Inf!Outs]
  BY DEF InferIInv, CudaType
<1>3. EngineType' /\ OneOutput'
  BY <1>1 DEF InferIInv, EngineType, OneOutput
<1>4. CASE \E s \in free :
             /\ Inf!Drained /\ free' = free \ {s} /\ cuda' = [cuda EXCEPT !.mem[s] = taken + 1]
             /\ inferring' = [inferring EXCEPT ![w] = [Inf!NoWork EXCEPT !.pc = "stream", !.frame = taken + 1, !.slab = s]]
  <2>1. PICK s \in free :
             /\ Inf!Drained /\ free' = free \ {s} /\ cuda' = [cuda EXCEPT !.mem[s] = taken + 1]
             /\ inferring' = [inferring EXCEPT ![w] = [Inf!NoWork EXCEPT !.pc = "stream", !.frame = taken + 1, !.slab = s]]
    BY <1>4
  <2> DEFINE m == [cuda.mem EXCEPT ![s] = taken + 1]
             r == [Inf!NoWork EXCEPT !.pc = "stream", !.frame = taken + 1, !.slab = s]
  <2>2. s \in Pages /\ s \in Inf!Memory /\ taken + 1 \in Nat
    BY <1>1 DEF Inf!Memory
  <2>3. m \in [Inf!Memory -> Nat] /\ m[s] = taken + 1
    BY <1>2, <2>2
  <2>4. cuda' = [cuda EXCEPT !.mem = m]
    BY <1>2, <2>1
  <2> HIDE DEF m
  <2>5. /\ CudaType' /\ OneStream' /\ cuda'.mem = m /\ cuda'.queues = cuda.queues /\ cuda'.stream = cuda.stream
    BY <1>1, <1>2, <2>2, <2>3, <2>4 DEF InferIInv, CudaType, OneStream
  <2>6. r \in WorkRecords /\ r.pc = "stream" /\ r.data = 0 /\ r.frame = taken + 1 /\ r.slab = s
    BY <2>2 DEF WorkRecords, WorkerSteps, Inf!NoWork
  <2>7. inferring' = [inferring EXCEPT ![w] = r]
    BY <2>1
  <2> HIDE DEF r
  <2>8. inferring'[w] = r
    BY <1>1, <2>7
  <2>9. \A i \in 1 .. cuda.stream : cuda.queues[i] = <<>>
    BY <2>1, InferFacts DEF Inf!Drained
  <2>a. s \in Pages \ free' /\ \A i \in 1 .. cuda'.stream : cuda'.queues[i] = <<>>
    BY <2>1, <2>2, <2>5, <2>9
  <2>b. cuda'.mem[s] = taken + 1
    BY <2>3, <2>5
  <2>10. Where(w)'
    BY <2>6, <2>8, <2>a, <2>b DEF Where, Busy
  <2> QED BY <1>1, <1>3, <2>1, <2>5, <2>6, <2>7, <2>10, WorkerMoves
<1>5. CASE /\ UNCHANGED <<free, cuda>>
           /\ inferring' = [inferring EXCEPT ![w] = [Inf!NoWork EXCEPT !.pc = "done", !.frame = taken + 1]]
  <2> DEFINE r == [Inf!NoWork EXCEPT !.pc = "done", !.frame = taken + 1]
  <2>0. taken + 1 \in Nat
    BY <1>1
  <2>1. r \in WorkRecords /\ r.pc = "done" /\ r.data = 0
    BY <2>0 DEF WorkRecords, WorkerSteps, Inf!NoWork
  <2>2. inferring' = [inferring EXCEPT ![w] = r]
    BY <1>5
  <2> HIDE DEF r
  <2>3. inferring'[w] = r
    BY <1>1, <2>2
  <2>4. CudaType' /\ OneStream'
    BY <1>1, <1>5 DEF InferIInv, CudaType, OneStream
  <2>5. Where(w)'
    BY <2>1, <2>3 DEF Where, Busy
  <2> QED BY <1>1, <1>3, <1>5, <2>1, <2>2, <2>4, <2>5, WorkerMoves
<1> QED BY <1>4, <1>5 DEF Inf!Upload

\* The GPU runs the operation at the head of the stream.
LEMMA ExecuteInv ==
    ASSUME InferAssumption, InferIInv, NEW s \in DOMAIN cuda.queues, Inf!Execute(s)
    PROVE  InferIInv'
<1> DEFINE op == Head(cuda.queues[1])
           m == [cuda.mem EXCEPT ![op.dst] = cuda.mem[op.src]]
           q == [cuda.queues EXCEPT ![1] = Tail(cuda.queues[1])]
<1>1. /\ cuda \in [stream : Nat, queues : Seq(Seq(Ops)), mem : [Inf!Memory -> Nat], made : SUBSET Inf!Outs]
      /\ cuda.queues \in Seq(Seq(Ops)) /\ Len(cuda.queues) = cuda.stream /\ cuda.stream \in {0, 1} /\ taken \in Nat
      /\ UNCHANGED <<engine, free, inferring, reload, taken>>
  BY DEF InferIInv, CudaType, OneStream, Inf!Execute
<1>2. s = 1 /\ cuda.stream = 1 /\ cuda.queues[1] \in Seq(Ops) /\ 1 \in DOMAIN cuda.queues
  BY <1>1
<1>3. cuda.queues[1] # <<>> /\ cuda' = [cuda EXCEPT !.mem[op.dst] = cuda.mem[op.src], !.queues[1] = Tail(@)]
  BY <1>2 DEF Inf!Execute
<1>4. op \in Ops /\ Tail(cuda.queues[1]) \in Seq(Ops)
  BY <1>2, <1>3
<1>5. op.src \in Inf!Memory /\ op.dst \in Inf!Memory
  BY <1>4 DEF Ops
<1> HIDE DEF op
<1>6. m \in [Inf!Memory -> Nat] /\ \A x \in Inf!Memory : m[x] = IF x = op.dst THEN cuda.mem[op.src] ELSE cuda.mem[x]
  BY <1>1, <1>5
<1>7. q \in Seq(Seq(Ops)) /\ Len(q) = 1 /\ q[1] = Tail(cuda.queues[1])
  BY <1>1, <1>2, <1>4
<1>8. cuda' = [cuda EXCEPT !.mem = m, !.queues = q]
  BY <1>1, <1>3
<1> HIDE DEF m, q
<1>9. CudaType' /\ OneStream' /\ cuda'.mem = m /\ cuda'.queues = q /\ cuda'.stream = 1
  BY <1>1, <1>2, <1>6, <1>7, <1>8 DEF CudaType, OneStream
<1>10. EngineType' /\ OneOutput' /\ WorkerType'
  BY <1>1 DEF InferIInv, EngineType, OneOutput, WorkerType
<1>11. ASSUME NEW w \in Workers PROVE Where(w)' /\ inferring'[w].data \in {0, inferring'[w].frame}
  <2> DEFINE own == inferring[w]
  <2>1. Where(w) /\ own.data \in {0, own.frame} /\ own.pc \in WorkerSteps
    BY WhereFacts, InferFacts
  <2>2. Dst(w)' = Dst(w) /\ RunOp(w)' = RunOp(w) /\ CopyOp(w)' = CopyOp(w)
    BY <1>1 DEF Dst, RunOp, CopyOp
  <2>3. CASE own.pc \in {"idle", "done"}
    BY <1>1, <2>1, <2>3 DEF Where, Busy
  <2>4. CASE own.pc \in {"stream", "create", "input", "output", "alloc", "infer", "download"}
    <3>1. cuda.queues[1] = <<>>
      BY <1>2, <2>1, <2>4 DEF Where
    <3> QED BY <1>3, <3>1
  <2>5. CASE own.pc = "copy"
    <3>1. cuda.queues[1] = <<RunOp(w)>> /\ cuda.mem[own.slab] = own.frame
      BY <1>3, <2>1, <2>5 DEF Where
    <3>2. op = RunOp(w) /\ q[1] = <<>>
      BY <1>7, <3>1 DEF op
    <3>3. op.dst = engine.bound.out /\ op.src = own.slab
      BY <3>2 DEF RunOp
    <3>4. m[engine.bound.out] = own.frame
      BY <1>5, <1>6, <3>1, <3>3, SMTT(60)
    <3> QED BY <1>1, <1>9, <2>1, <2>5, <3>2, <3>4 DEF Where, Busy
  <2>6. CASE own.pc = "sync"
    <3>1. CASE cuda.queues[1] = <<RunOp(w), CopyOp(w)>> /\ cuda.mem[own.slab] = own.frame
      <4>1. op = RunOp(w) /\ q[1] = <<CopyOp(w)>>
        BY <1>7, <3>1 DEF op
      <4>2. op.dst = engine.bound.out /\ op.src = own.slab
        BY <4>1 DEF RunOp
      <4>3. m[engine.bound.out] = own.frame
        BY <1>5, <1>6, <3>1, <4>2
      <4> QED BY <1>1, <1>9, <2>1, <2>2, <2>6, <4>1, <4>3 DEF Where, Busy
    <3>2. CASE cuda.queues[1] = <<CopyOp(w)>> /\ cuda.mem[engine.bound.out] = own.frame
      <4>1. op = CopyOp(w) /\ q[1] = <<>>
        BY <1>7, <3>2 DEF op
      <4>2. op.dst = Dst(w) /\ op.src = engine.bound.out
        BY <4>1 DEF CopyOp
      <4>3. m[Dst(w)] = own.frame
        BY <1>5, <1>6, <3>2, <4>2
      <4> QED BY <1>1, <1>9, <2>1, <2>2, <2>6, <4>1, <4>3 DEF Where, Busy
    <3> QED BY <1>3, <2>1, <2>6, <3>1, <3>2 DEF Where
  <2> QED BY <2>1, <2>3, <2>4, <2>5, <2>6 DEF WorkerSteps
<1> QED BY <1>9, <1>10, <1>11 DEF InferIInv

\* A reload, between frames: the new context has the addresses the bindings had.
LEMMA ReloadInv ==
    ASSUME InferAssumption, InferIInv, Inf!DeserializeAndValidate \/ Inf!Reload
    PROVE  InferIInv'
<1>1. /\ engine \in [bound : Addrs, current : Nat, contexts : Seq(Addrs)] /\ engine.current \in 1 .. Len(engine.contexts)
      /\ engine.bound \in Addrs /\ engine.contexts \in Seq(Addrs)
  BY DEF InferIInv, EngineType
<1>2. UNCHANGED <<cuda, free, inferring, taken>> /\ \A w \in Workers : inferring[w].pc = "idle"
  BY DEF Inf!DeserializeAndValidate, Inf!Reload, Inf!Gap, Inf!At
<1>3. CudaType' /\ WorkerType' /\ OneStream'
  BY <1>2 DEF InferIInv, CudaType, WorkerType, OneStream
<1>4. \A w \in Workers : Where(w)' /\ inferring'[w].data \in {0, inferring'[w].frame}
  BY <1>2, WhereFacts DEF Where, Busy
<1>5. CASE Inf!DeserializeAndValidate
  <2>1. UNCHANGED engine /\ reload' = <<engine.bound>>
    BY <1>5 DEF Inf!DeserializeAndValidate
  <2>2. EngineType'
    BY <1>1, <2>1 DEF EngineType
  <2>3. \A a : <<a>> = <<engine.bound>> => a = engine.bound
    OBVIOUS
  <2>4. OneOutput'
    BY <2>1, <2>3 DEF InferIInv, OneOutput
  <2> QED BY <1>3, <1>4, <2>2, <2>4 DEF InferIInv
<1>6. CASE Inf!Reload
  <2>1. PICK a \in Addrs : reload = <<a>>
    BY <1>6 DEF Inf!Reload, InferIInv, EngineType
  <2>2. a.out \in {Inf!None, engine.bound.out}
    BY <2>1 DEF InferIInv, OneOutput
  <2> DEFINE all == engine.contexts \o <<a>>
             n == Len(engine.contexts)
  <2>3. reload' = <<>> /\ engine' = [engine EXCEPT !.contexts = all, !.current = n + 1]
    BY <1>6, <2>1 DEF Inf!Reload
  <2>4. /\ all \in Seq(Addrs) /\ Len(all) = n + 1 /\ n \in Nat
        /\ all[n + 1] = a /\ \A i \in 1 .. n : all[i] = engine.contexts[i]
    BY <1>1, <2>1
  <2> HIDE DEF all, n
  <2>5. /\ engine'.contexts = all /\ engine'.current = n + 1 /\ engine'.bound = engine.bound
        /\ engine' \in [bound : Addrs, current : Nat, contexts : Seq(Addrs)]
    <3>1. n + 1 \in Nat
      BY <2>4
    <3>2. PICK m \in Nat : m = n + 1
      BY <3>1
    <3>3. engine' = [engine EXCEPT !.contexts = all, !.current = m]
      BY <2>3, <3>2
    <3>4. /\ engine'.contexts = all /\ engine'.current = m /\ engine'.bound = engine.bound
          /\ engine' \in [bound : Addrs, current : Nat, contexts : Seq(Addrs)]
      BY <1>1, <2>4, <3>3
    <3> QED BY <3>2, <3>4
  <2>6. EngineType'
    BY <2>3, <2>4, <2>5 DEF EngineType
  <2>7. \A i \in 1 .. n : engine.contexts[i].out \in {Inf!None, engine.bound.out}
    BY DEF InferIInv, OneOutput, n
  <2>8. \A i \in 1 .. n + 1 : i \in 1 .. n \/ i = n + 1
    BY <2>4
  <2>9. \A b : <<b>> # <<>>
    OBVIOUS
  <2>10. OneOutput'
    BY <2>2, <2>3, <2>4, <2>5, <2>7, <2>8, <2>9 DEF OneOutput
  <2> QED BY <1>3, <1>4, <2>6, <2>10 DEF InferIInv
<1> QED BY <1>5, <1>6

LEMMA InferInitInv ==
    ASSUME InferAssumption, Inf!InferInit
    PROVE  InferIInv
<1> DEFINE none == Inf!NoAddr
<1>1. none \in Addrs /\ none.out = Inf!None
  BY DEF Addrs, Inf!NoAddr
<1> HIDE DEF none
<1>2. /\ engine = [bound |-> none, current |-> 1, contexts |-> <<none>>] /\ reload = <<>>
      /\ cuda = [stream |-> 0, queues |-> <<>>, mem |-> [x \in Inf!Memory |-> 0], made |-> {}]
      /\ free = Pages /\ inferring = [w \in Workers |-> Inf!NoWork] /\ taken = 0
  BY DEF Inf!InferInit, none
<1>3. /\ <<none>> \in Seq(Addrs) /\ Len(<<none>>) = 1 /\ <<none>>[1] = none
      /\ <<>> \in Seq(Seq(Ops)) /\ Len(<<>>) = 0 /\ [x \in Inf!Memory |-> 0] \in [Inf!Memory -> Nat]
  BY <1>1
<1>4. EngineType
  BY <1>1, <1>2, <1>3 DEF EngineType
<1>5. CudaType
  BY <1>2, <1>3 DEF CudaType
<1>6. OneStream
  BY <1>2, <1>3 DEF OneStream
<1>7. Inf!NoWork \in WorkRecords /\ Inf!NoWork.pc = "idle" /\ Inf!NoWork.data = 0
  BY DEF Inf!NoWork, WorkRecords, WorkerSteps
<1>8. WorkerType
  BY <1>2, <1>7 DEF WorkerType
<1>9. OneOutput
  <2>1. \A i \in 1 .. Len(engine.contexts) : engine.contexts[i] = none
    BY <1>2, <1>3
  <2>2. \A b : <<b>> # <<>>
    OBVIOUS
  <2> QED BY <1>1, <1>2, <2>1, <2>2 DEF OneOutput
<1>10. \A w \in Workers : inferring[w].pc = "idle" /\ inferring[w].data = 0
  BY <1>2, <1>7
<1>11. \A w \in Workers : Where(w) /\ inferring[w].data \in {0, inferring[w].frame}
  BY <1>10 DEF Where, Busy
<1> QED BY <1>4, <1>5, <1>6, <1>8, <1>9, <1>11 DEF InferIInv

LEMMA InferStepInv ==
    ASSUME InferAssumption, InferIInv, [Inf!InferNext]_(Inf!inferVars)
    PROVE  InferIInv'
<1>1. ASSUME NEW w \in Workers, Inf!Work(w) PROVE InferIInv'
  BY <1>1, UploadInv, EnsureStreamInv, CreateStreamInv, SetInputInv, EnsureOutputBufferInv, AllocOutputInv,
     InferAsyncInv, CopyFeaturesInv, SynchronizeInv, DownloadInv, NextFrameInv DEF Inf!Work
<1>2. ASSUME NEW s \in DOMAIN cuda.queues, Inf!Execute(s) PROVE InferIInv'
  BY <1>2, ExecuteInv
<1>3. CASE Inf!DeserializeAndValidate \/ Inf!Reload
  BY <1>3, ReloadInv
<1>4. CASE UNCHANGED Inf!inferVars
  <2>1. UNCHANGED <<engine, cuda, free, inferring, reload, taken>>
    BY <1>4 DEF Inf!inferVars
  <2>2. EngineType' /\ CudaType' /\ OneOutput' /\ OneStream' /\ WorkerType'
    BY <2>1 DEF InferIInv, EngineType, CudaType, OneOutput, OneStream, WorkerType
  <2>3. \A w \in Workers : Where(w)' /\ inferring'[w].data \in {0, inferring'[w].frame}
    BY <2>1, WhereFacts, ZenonT(60) DEF Where, Busy, Dst, RunOp, CopyOp
  <2> QED BY <2>2, <2>3 DEF InferIInv
<1> QED BY <1>1, <1>2, <1>3, <1>4 DEF Inf!InferNext

\* InferenceStage with the embedder for itself (inference_stage.cpp, patch_embedder_cuda.cpp):
\* however many slabs the pool has, frames it takes and reloads there are between them, and
\* whatever fails, the features that it hands on are those of the frame it took.  With two
\* workers this is false (Inference_shared), and so it is with a reload about a frame.
THEOREM FeaturesAreOfFrame ==
    ASSUME InferAssumption
    PROVE  Inf!InferSpec => []Inf!FeaturesOfFrame
<1>1. Inf!InferInit => InferIInv
  BY InferInitInv
<1>2. InferIInv /\ [Inf!InferNext]_(Inf!inferVars) => InferIInv'
  BY InferStepInv
<1>3. InferIInv => Inf!FeaturesOfFrame
  BY DEF InferIInv, Inf!FeaturesOfFrame
<1> QED BY <1>1, <1>2, <1>3, PTL DEF Inf!InferSpec
=============================================================================
