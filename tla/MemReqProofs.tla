---------------------------- MODULE MemReqProofs ----------------------------
(***************************************************************************)
(* What holds of the memory request queue for rings of every size.         *)
(***************************************************************************)
EXTENDS MemReq, SequenceTheorems, TLAPS
-----------------------------------------------------------------------------
(* The pointers.                                                           *)

LEMMA StepPlace ==
  ASSUME NEW p \in Place, NEW n \in 0..OutqLen
  PROVE  Step(p, n) \in Place
BY OutqLenAssumption DEF Step, Place

LEMMA StepStep ==
  ASSUME NEW p \in Place, NEW m \in Nat, NEW n \in Nat, m + n <= OutqLen
  PROVE  Step(Step(p, m), n) = Step(p, m + n)
BY OutqLenAssumption DEF Step, Place

\* Ahead undoes Step.
LEMMA AheadStep ==
  ASSUME NEW p \in Place, NEW n \in 0..OutqLen - 1
  PROVE  Ahead(Step(p, n), p) = n
BY OutqLenAssumption DEF Step, Place, Ahead

\* The buffers that hold something are not those to be written next.
LEMMA AheadHeld ==
  ASSUME NEW p \in Place, NEW m \in 0..OutqLen, NEW n \in 0..OutqLen - 1,
         n < m
  PROVE  Ahead(Step(p, n), Step(p, m)) = n - m + OutqLen
BY OutqLenAssumption DEF Step, Place, Ahead
-----------------------------------------------------------------------------
(* The batches.                                                            *)

LEMMA ReplacementType ==
  ASSUME NEW s \in Sources, NEW outs \in OutputLists
  PROVE  /\ Replacement(s, outs) \in Seq(Command)
         /\ Len(Replacement(s, outs)) = Len(outs) + 2
         /\ Len(outs) \in Nat
         /\ Replacement(s, outs)[1] = RemoveSource(s)
         /\ Replacement(s, outs)[2] = AddSource(s)
         /\ \A k \in 3..Len(outs) + 2 : Replacement(s, outs)[k].kind = "add-output"
<1> DEFINE adds == [k \in DOMAIN outs |-> AddOutput(s, outs[k])]
           first == <<RemoveSource(s), AddSource(s)>>
<1>1. PICK n \in 0..OutqLen : outs \in [1..n -> Outputs]
  BY DEF OutputLists, BoundedSeq, SeqOf
<1>2. n \in Nat /\ outs \in Seq(Outputs) /\ Len(outs) = n /\ DOMAIN outs = 1..n
  BY <1>1, OutqLenAssumption
<1>3. adds \in [1..n -> Command]
  BY <1>1, <1>2 DEF Command
<1>4. adds \in Seq(Command) /\ Len(adds) = n
  BY <1>2, <1>3
<1>5. \A k \in 1..n : adds[k].kind = "add-output"
  BY <1>2 DEF AddOutput
<1>6. RemoveSource(s) \in Command /\ AddSource(s) \in Command
  BY DEF Command
<1>7. first \in Seq(Command) /\ Len(first) = 2
      /\ first[1] = RemoveSource(s) /\ first[2] = AddSource(s)
  BY <1>6
<1> HIDE DEF adds, first
<1>8. /\ first \o adds \in Seq(Command) /\ Len(first \o adds) = n + 2
      /\ \A k \in 1..n + 2 :
           (first \o adds)[k] = IF k <= 2 THEN first[k] ELSE adds[k - 2]
  <2>1. \A k \in 1..Len(first) + Len(adds) :
          (first \o adds)[k] = IF k <= Len(first) THEN first[k]
                               ELSE adds[k - Len(first)]
    BY <1>4, <1>7, ConcatProperties
  <2>2. first \o adds \in Seq(Command) /\ Len(first \o adds) = Len(first) + Len(adds)
    BY <1>4, <1>7, ConcatProperties
  <2> QED BY <2>1, <2>2, <1>2, <1>4, <1>7
<1>9. /\ (first \o adds)[1] = RemoveSource(s)
      /\ (first \o adds)[2] = AddSource(s)
  BY <1>2, <1>7, <1>8
<1>10. ASSUME NEW k \in 3..n + 2
       PROVE  (first \o adds)[k].kind = "add-output"
  <2>1. k - 2 \in 1..n /\ k \in 1..n + 2 /\ ~(k <= 2)
    BY <1>2
  <2>2. (first \o adds)[k] = adds[k - 2]
    BY <2>1, <1>8
  <2> QED BY <2>1, <2>2, <1>5
<1>11. Replacement(s, outs) = first \o adds
  BY DEF Replacement, first, adds
<1> QED BY <1>2, <1>8, <1>9, <1>10, <1>11
-----------------------------------------------------------------------------
(* Types.                                                                  *)

\* The variables keep their types: the pointers stay in the ring, and no more
\* buffers are taken than there are.
THEOREM TypeCorrect == Spec => []TypeOK
<1>1. Init => TypeOK
  BY OutqLenAssumption DEF Init, TypeOK, Place
<1>2. TypeOK /\ [Next]_vars => TypeOK'
  <2> SUFFICES ASSUME TypeOK, [Next]_vars
               PROVE  TypeOK'
    OBVIOUS
  <2>1. ASSUME NEW s \in Sources, NEW outs \in OutputLists, Put(s, outs)
        PROVE  TypeOK'
    <3> DEFINE batch == Replacement(s, outs)
    <3>1. batch \in Seq(Command) /\ Len(batch) \in Nat
      BY ReplacementType
    <3> HIDE DEF batch
    <3>2. /\ Len(batch) <= OutqLen - outq_len
          /\ outq' = [i \in Place |-> IF Ahead(i, outq_wp) < Len(batch)
                                     THEN batch[Ahead(i, outq_wp) + 1] ELSE outq[i]]
          /\ outq_wp' = Step(outq_wp, Len(batch))
          /\ outq_len' = outq_len + Len(batch)
          /\ UNCHANGED <<outq_rp, state, last, request>>
          /\ UpdatePoller
      BY <2>1 DEF Put, batch
    <3>3. \A i \in Place : Ahead(i, outq_wp) \in Nat
      BY OutqLenAssumption DEF Ahead, Place, TypeOK
    <3>4. \A i \in 1..Len(batch) : batch[i] \in Command
      BY <3>1
    <3>5. outq' \in [Place -> Command \union {NoCommand}]
      <4> SUFFICES ASSUME NEW i \in Place, Ahead(i, outq_wp) < Len(batch)
                   PROVE  batch[Ahead(i, outq_wp) + 1] \in Command
        BY <3>2 DEF TypeOK
      <4> QED BY <3>1, <3>3, <3>4
    <3>6. outq_len' \in 0..OutqLen /\ Len(batch) \in 0..OutqLen
      BY <3>1, <3>2, OutqLenAssumption DEF TypeOK
    <3>7. outq_wp' \in Place
      BY <3>2, <3>6, StepPlace DEF TypeOK
    <3> QED BY <3>2, <3>5, <3>6, <3>7 DEF TypeOK, UpdatePoller
  <2>2. CASE Send
    <3>1. outq_rp' \in Place /\ outq_len' \in 0..OutqLen
      BY <2>2, OutqLenAssumption, StepPlace DEF Send, TypeOK
    <3> QED BY <2>2, <3>1 DEF Send, TypeOK, UpdatePoller
  <2>3. CASE Receive
    BY <2>3 DEF Receive, TypeOK, UpdatePoller, ring
  <2>4. CASE Answer
    BY <2>4 DEF Answer, TypeOK, ring
  <2>5. CASE UNCHANGED vars
    BY <2>5 DEF vars, ring, TypeOK
  <2> QED BY <2>1, <2>2, <2>3, <2>4, <2>5 DEF Next, HandleEvent
<1> QED BY <1>1, <1>2, PTL DEF Spec
-----------------------------------------------------------------------------
(* What the steps do to the queue that the ring stands for.                *)

LEMMA QueueType ==
  ASSUME TypeOK, Inv
  PROVE  Queue \in Seq(Command) /\ Len(Queue) = outq_len /\ outq_len \in Nat
BY OutqLenAssumption DEF TypeOK, Inv, Queue

LEMMA PutQueue ==
  ASSUME TypeOK, Inv, NEW s \in Sources, NEW outs \in OutputLists, Put(s, outs)
  PROVE  Queue' = Queue \o Replacement(s, outs)
<1> DEFINE batch == Replacement(s, outs)
<1>1. batch \in Seq(Command) /\ Len(batch) \in Nat
  BY ReplacementType
<1> HIDE DEF batch
<1>2. /\ Len(batch) <= OutqLen - outq_len
      /\ outq' = [i \in Place |-> IF Ahead(i, outq_wp) < Len(batch)
                                 THEN batch[Ahead(i, outq_wp) + 1] ELSE outq[i]]
      /\ outq_len' = outq_len + Len(batch)
      /\ outq_rp' = outq_rp
  BY DEF Put, batch
<1>3. /\ outq_len \in 0..OutqLen /\ outq_len \in Nat /\ outq_rp \in Place
      /\ outq_wp = Step(outq_rp, outq_len)
  BY OutqLenAssumption DEF TypeOK, Inv
<1>4. ASSUME NEW k \in 1..outq_len
      PROVE  outq'[Step(outq_rp, k - 1)] = outq[Step(outq_rp, k - 1)]
  <2>1. k - 1 \in 0..OutqLen - 1 /\ k - 1 < outq_len /\ k - 1 \in 0..OutqLen
    BY <1>3, OutqLenAssumption
  <2>2. Ahead(Step(outq_rp, k - 1), outq_wp) = k - 1 - outq_len + OutqLen
    BY <1>3, <2>1, AheadHeld
  <2>3. Step(outq_rp, k - 1) \in Place
    BY <1>3, <2>1, StepPlace
  <2>4. ~(k - 1 - outq_len + OutqLen < Len(batch))
    BY <1>1, <1>2, <1>3, OutqLenAssumption
  <2> QED BY <1>2, <2>2, <2>3, <2>4
<1>5. ASSUME NEW k \in outq_len + 1..outq_len + Len(batch)
      PROVE  outq'[Step(outq_rp, k - 1)] = batch[k - outq_len]
  <2> DEFINE j == k - 1 - outq_len
  <2>1. /\ j \in Nat /\ j \in 0..OutqLen - 1 /\ j < Len(batch)
        /\ outq_len + j = k - 1 /\ outq_len + j <= OutqLen /\ j \in 0..OutqLen
        /\ j + 1 = k - outq_len
    BY <1>1, <1>2, <1>3, OutqLenAssumption
  <2> HIDE DEF j
  <2>2. Step(outq_rp, k - 1) = Step(outq_wp, j)
    <3>1. Step(Step(outq_rp, outq_len), j) = Step(outq_rp, outq_len + j)
      BY <1>3, <2>1, StepStep
    <3> QED BY <3>1, <1>3, <2>1
  <2>3. outq_wp \in Place
    BY DEF TypeOK
  <2>4. Ahead(Step(outq_wp, j), outq_wp) = j /\ Step(outq_wp, j) \in Place
    BY <2>1, <2>3, AheadStep, StepPlace
  <2> QED BY <1>2, <2>1, <2>2, <2>4
<1>6. Queue \in Seq(Command) /\ Len(Queue) = outq_len
  BY QueueType
<1>7. \A k \in 1..outq_len + Len(batch) :
        (Queue \o batch)[k] = IF k <= outq_len THEN Queue[k] ELSE batch[k - outq_len]
  BY <1>1, <1>6, ConcatProperties
<1>8. Queue \o batch \in Seq(Command) /\ Len(Queue \o batch) = outq_len + Len(batch)
  BY <1>1, <1>6, ConcatProperties
<1>9. /\ Queue' = [k \in 1..outq_len + Len(batch) |-> outq'[Step(outq_rp, k - 1)]]
      /\ \A k \in 1..outq_len : Queue[k] = outq[Step(outq_rp, k - 1)]
  BY <1>2 DEF Queue
<1>10. ASSUME NEW k \in 1..outq_len + Len(batch)
       PROVE  outq'[Step(outq_rp, k - 1)] = (Queue \o batch)[k]
  <2>1. CASE k <= outq_len
    <3>1. k \in 1..outq_len
      BY <2>1, <1>1, <1>3
    <3>2. outq'[Step(outq_rp, k - 1)] = Queue[k]
      BY <3>1, <1>4, <1>9
    <3> QED BY <3>2, <2>1, <1>7
  <2>2. CASE ~(k <= outq_len)
    <3>1. k \in outq_len + 1..outq_len + Len(batch)
      BY <2>2, <1>1, <1>3
    <3>2. outq'[Step(outq_rp, k - 1)] = batch[k - outq_len]
      BY <3>1, <1>5
    <3> QED BY <3>2, <2>2, <1>7
  <2> QED BY <2>1, <2>2
<1>11. Queue \o batch \in [1..outq_len + Len(batch) -> Command]
  <2>1. Queue \o batch \in [1..Len(Queue \o batch) -> Command]
    BY <1>8, LenProperties
  <2> QED BY <2>1, <1>8
<1>12. Queue' = Queue \o batch
  <2>1. Queue \o batch = [k \in 1..outq_len + Len(batch) |-> (Queue \o batch)[k]]
    BY <1>11
  <2> QED BY <2>1, <1>9, <1>10
<1> QED BY <1>12 DEF batch

LEMMA SendQueue ==
  ASSUME TypeOK, Inv, Send
  PROVE  Queue # <<>> /\ last' = Head(Queue) /\ Queue' = Tail(Queue)
<1>1. /\ outq_len \in 1..OutqLen /\ outq_rp \in Place
      /\ outq_len' = outq_len - 1 /\ outq_rp' = Step(outq_rp, 1)
      /\ outq' = outq /\ last' = outq[outq_rp]
  BY OutqLenAssumption DEF Send, TypeOK
<1>2. Queue \in Seq(Command) /\ Len(Queue) = outq_len
  BY QueueType
<1>3. Queue[1] = outq[outq_rp]
  <2>1. Step(outq_rp, 1 - 1) = outq_rp
    BY <1>1, OutqLenAssumption DEF Step, Place
  <2> QED BY <1>1, <2>1 DEF Queue
<1>4. ASSUME NEW k \in 1..outq_len - 1
      PROVE  outq[Step(Step(outq_rp, 1), k - 1)] = Queue[k + 1]
  <2>1. k - 1 \in Nat /\ 1 + (k - 1) = k /\ 1 + (k - 1) <= OutqLen /\ k + 1 \in 1..outq_len
    BY <1>1, OutqLenAssumption
  <2>2. Step(Step(outq_rp, 1), k - 1) = Step(outq_rp, k)
    BY <1>1, <2>1, StepStep
  <2>3. Queue[k + 1] = outq[Step(outq_rp, k + 1 - 1)]
    BY <2>1 DEF Queue
  <2>4. k + 1 - 1 = k
    OBVIOUS
  <2> QED BY <2>2, <2>3, <2>4
<1>5. Queue' = [k \in 1..outq_len - 1 |-> outq[Step(Step(outq_rp, 1), k - 1)]]
  BY <1>1 DEF Queue
<1>6. Tail(Queue) = [k \in 1..outq_len - 1 |-> Queue[k + 1]]
  <2>1. /\ Tail(Queue) \in Seq(Command) /\ Len(Tail(Queue)) = outq_len - 1
        /\ \A k \in 1..Len(Tail(Queue)) : Tail(Queue)[k] = Queue[k + 1]
    <3>1. Queue # <<>>
      BY <1>1, <1>2
    <3> QED BY <3>1, <1>2, HeadTailProperties
  <2>2. Tail(Queue) \in [1..outq_len - 1 -> Command]
    BY <2>1, LenProperties
  <2> QED BY <2>1, <2>2
<1>7. Queue' = Tail(Queue)
  BY <1>4, <1>5, <1>6
<1> QED BY <1>1, <1>2, <1>3, <1>7
-----------------------------------------------------------------------------
(* Each removal is followed by its addition.                               *)

Paired(q) ==
  \A k \in 1..Len(q) :
    q[k].kind = "remove-source" => k < Len(q) /\ q[k + 1] = AddSource(q[k].source)

LEMMA PairedReplacement ==
  ASSUME NEW s \in Sources, NEW outs \in OutputLists
  PROVE  Paired(Replacement(s, outs))
<1> DEFINE batch == Replacement(s, outs)
<1>1. /\ Len(batch) = Len(outs) + 2 /\ Len(outs) \in Nat
      /\ batch[1] = RemoveSource(s) /\ batch[2] = AddSource(s)
      /\ \A k \in 3..Len(outs) + 2 : batch[k].kind = "add-output"
  BY ReplacementType
<1> HIDE DEF batch
<1>2. /\ RemoveSource(s).source = s
      /\ AddSource(s).kind = "add-source"
  BY DEF RemoveSource, AddSource
<1>3. SUFFICES ASSUME NEW k \in 1..Len(batch), batch[k].kind = "remove-source"
               PROVE  k < Len(batch) /\ batch[k + 1] = AddSource(batch[k].source)
  BY DEF Paired, batch
<1>4. k = 1 \/ k = 2 \/ k \in 3..Len(outs) + 2
  BY <1>1
<1>5. k # 2 /\ k \notin 3..Len(outs) + 2
  BY <1>1, <1>2, <1>3
<1>6. k = 1
  BY <1>4, <1>5
<1> QED BY <1>1, <1>2, <1>6

LEMMA PairedConcat ==
  ASSUME NEW q \in Seq(Command), NEW b \in Seq(Command), Paired(q), Paired(b)
  PROVE  Paired(q \o b)
<1>1. /\ Len(q) \in Nat /\ Len(b) \in Nat /\ Len(q \o b) = Len(q) + Len(b)
      /\ \A k \in 1..Len(q) + Len(b) :
           (q \o b)[k] = IF k <= Len(q) THEN q[k] ELSE b[k - Len(q)]
  BY ConcatProperties
<1>2. SUFFICES ASSUME NEW k \in 1..Len(q) + Len(b),
                      (q \o b)[k].kind = "remove-source"
               PROVE  /\ k < Len(q) + Len(b)
                      /\ (q \o b)[k + 1] = AddSource((q \o b)[k].source)
  BY <1>1 DEF Paired
<1>3. CASE k <= Len(q)
  <2>1. k \in 1..Len(q) /\ (q \o b)[k] = q[k]
    BY <1>1, <1>3
  <2>2. k < Len(q) /\ q[k + 1] = AddSource(q[k].source)
    BY <1>2, <2>1 DEF Paired
  <2>3. (q \o b)[k + 1] = q[k + 1] /\ k < Len(q) + Len(b)
    BY <1>1, <2>1, <2>2
  <2> QED BY <2>1, <2>2, <2>3
<1>4. CASE ~(k <= Len(q))
  <2>1. k - Len(q) \in 1..Len(b) /\ (q \o b)[k] = b[k - Len(q)]
    BY <1>1, <1>4
  <2>2. /\ k - Len(q) < Len(b)
        /\ b[k - Len(q) + 1] = AddSource(b[k - Len(q)].source)
    BY <1>2, <2>1 DEF Paired
  <2>3. /\ k + 1 \in 1..Len(q) + Len(b) /\ ~(k + 1 <= Len(q))
        /\ k + 1 - Len(q) = k - Len(q) + 1 /\ k < Len(q) + Len(b)
    BY <1>1, <1>4, <2>2
  <2>4. (q \o b)[k + 1] = b[k - Len(q) + 1]
    BY <1>1, <2>3
  <2> QED BY <2>1, <2>2, <2>3, <2>4
<1> QED BY <1>3, <1>4

LEMMA PairedTail ==
  ASSUME NEW q \in Seq(Command), q # <<>>, Paired(q)
  PROVE  /\ Paired(Tail(q))
         /\ Head(q).kind = "remove-source" =>
              Len(Tail(q)) > 0 /\ Tail(q)[1] = AddSource(Head(q).source)
<1>1. /\ Len(q) \in Nat /\ Len(q) > 0 /\ Head(q) = q[1]
      /\ Len(Tail(q)) = Len(q) - 1
      /\ \A k \in 1..Len(q) - 1 : Tail(q)[k] = q[k + 1]
  BY HeadTailProperties
<1>2. Paired(Tail(q))
  <2>1. SUFFICES ASSUME NEW k \in 1..Len(q) - 1, Tail(q)[k].kind = "remove-source"
                 PROVE  /\ k < Len(q) - 1
                        /\ Tail(q)[k + 1] = AddSource(Tail(q)[k].source)
    BY <1>1 DEF Paired
  <2>2. k + 1 \in 1..Len(q) /\ Tail(q)[k] = q[k + 1]
    BY <1>1
  <2>3. k + 1 < Len(q) /\ q[k + 1 + 1] = AddSource(q[k + 1].source)
    BY <2>1, <2>2 DEF Paired
  <2>4. k + 1 \in 1..Len(q) - 1 /\ k < Len(q) - 1
    BY <1>1, <2>3
  <2> QED BY <1>1, <2>2, <2>3, <2>4
<1>3. ASSUME q[1].kind = "remove-source"
      PROVE  Len(Tail(q)) > 0 /\ Tail(q)[1] = AddSource(q[1].source)
  <2>1. 1 \in 1..Len(q)
    BY <1>1
  <2>2. 1 < Len(q) /\ q[1 + 1] = AddSource(q[1].source)
    BY <1>3, <2>1 DEF Paired
  <2>3. 1 \in 1..Len(q) - 1
    BY <1>1, <2>2
  <2> QED BY <1>1, <2>2, <2>3
<1> QED BY <1>1, <1>2, <1>3
-----------------------------------------------------------------------------
(* The invariant.                                                          *)

\* The oldest command of the queue is at the read pointer.
LEMMA StepZero ==
  ASSUME NEW p \in Place
  PROVE  Step(p, 1 - 1) = p
BY OutqLenAssumption DEF Step, Place

LEMMA InvParts ==
  ASSUME TypeOK
  PROVE  Inv <=> /\ Step(outq_rp, outq_len) = outq_wp
                 /\ Queue \in Seq(Command)
                 /\ state = 1 <=> request # "none"
                 /\ state = 1 => events = "in" /\ last \in Command
                 /\ state = 0 => (events = "out" <=> outq_len > 0)
                 /\ Paired(Queue)
                 /\ last.kind = "remove-source" =>
                      outq_len > 0 /\ Queue[1] = AddSource(last.source)
<1>1. outq_len \in Nat
  BY OutqLenAssumption DEF TypeOK
<1>2. outq_len > 0 => Queue[1] = outq[outq_rp]
  BY <1>1, StepZero DEF Queue, TypeOK
<1>3. Queue \in Seq(Command) <=> \A k \in 1..outq_len : Queue[k] \in Command
  <2>1. DOMAIN Queue = 1..outq_len
    BY DEF Queue
  <2>2. ASSUME Queue \in Seq(Command)
        PROVE  \A k \in 1..outq_len : Queue[k] \in Command
    BY <1>1, <2>1, <2>2, LenProperties, ElementOfSeq
  <2>3. ASSUME \A k \in 1..outq_len : Queue[k] \in Command
        PROVE  Queue \in Seq(Command)
    <3>1. Queue \in [1..outq_len -> Command]
      BY <2>3 DEF Queue
    <3> QED BY <1>1, <3>1
  <2> QED BY <2>2, <2>3
<1>4. Len(Queue) = outq_len
  BY <1>1 DEF Queue
<1> QED BY <1>2, <1>3, <1>4 DEF Inv, NoSourceLeftOut, Paired

\* The same of the next state.
LEMMA InvPartsNext ==
  (TypeOK =>
    (Inv <=> /\ Step(outq_rp, outq_len) = outq_wp
             /\ Queue \in Seq(Command)
             /\ state = 1 <=> request # "none"
             /\ state = 1 => events = "in" /\ last \in Command
             /\ state = 0 => (events = "out" <=> outq_len > 0)
             /\ Paired(Queue)
             /\ last.kind = "remove-source" =>
                  outq_len > 0 /\ Queue[1] = AddSource(last.source)))'
BY InvParts, PTL

LEMMA InvInit == TypeOK /\ Init => Inv
<1> SUFFICES ASSUME TypeOK, Init
             PROVE  Inv
  OBVIOUS
<1>1. outq_len = 0 /\ outq_rp = 0 /\ outq_wp = 0
  BY DEF Init
<1>2. Step(0, 0) = 0
  BY OutqLenAssumption DEF Step
<1>3. last.kind # "remove-source"
  BY DEF Init, NoCommand
<1> QED BY <1>1, <1>2, <1>3 DEF Init, Inv, NoSourceLeftOut

LEMMA InvPut ==
  ASSUME TypeOK, TypeOK', Inv,
         NEW s \in Sources, NEW outs \in OutputLists, Put(s, outs)
  PROVE  Inv'
<1> DEFINE batch == Replacement(s, outs)
<1>1. /\ batch \in Seq(Command) /\ Len(batch) \in Nat /\ Len(batch) > 0
      /\ Paired(batch)
  BY ReplacementType, PairedReplacement
<1>2. Queue' = Queue \o batch
  BY PutQueue
<1>3. Queue \in Seq(Command) /\ Len(Queue) = outq_len /\ outq_len \in Nat
  BY QueueType
<1> HIDE DEF batch
<1>4. /\ Len(batch) <= OutqLen - outq_len
      /\ outq_wp' = Step(outq_wp, Len(batch))
      /\ outq_len' = outq_len + Len(batch)
      /\ UNCHANGED <<outq_rp, state, last, request>>
      /\ UpdatePoller
  BY DEF Put, batch
<1>5. Step(outq_rp', outq_len') = outq_wp'
  <2>1. Step(Step(outq_rp, outq_len), Len(batch)) = Step(outq_rp, outq_len + Len(batch))
    <3>1. outq_len + Len(batch) <= OutqLen
      BY <1>1, <1>3, <1>4, OutqLenAssumption
    <3> QED BY <3>1, <1>1, <1>3, StepStep DEF TypeOK
  <2> QED BY <2>1, <1>4, InvParts
<1>6. Queue' \in Seq(Command) /\ Paired(Queue')
  <2>1. Paired(Queue)
    BY InvParts
  <2> QED BY <2>1, <1>1, <1>2, <1>3, PairedConcat, ConcatProperties
<1>7. outq_len' > 0
  BY <1>1, <1>3, <1>4
<1>8. /\ state' = 1 <=> request' # "none"
      /\ state' = 1 => events' = "in" /\ last' \in Command
      /\ state' = 0 => (events' = "out" <=> outq_len' > 0)
  BY <1>4, <1>7, InvParts DEF UpdatePoller
<1>9. last'.kind = "remove-source" =>
        outq_len' > 0 /\ Queue'[1] = AddSource(last'.source)
  <2> SUFFICES ASSUME last.kind = "remove-source"
               PROVE  Queue'[1] = AddSource(last.source)
    BY <1>4, <1>7
  <2>1. outq_len > 0 /\ Queue[1] = AddSource(last.source)
    BY InvParts
  <2>2. (Queue \o batch)[1] = Queue[1]
    BY <2>1, <1>1, <1>3, ConcatProperties
  <2> QED BY <2>1, <2>2, <1>2
<1> QED BY <1>5, <1>6, <1>8, <1>9, InvPartsNext

LEMMA InvSend ==
  ASSUME TypeOK, TypeOK', Inv, Send
  PROVE  Inv'
<1>1. Queue # <<>> /\ last' = Head(Queue) /\ Queue' = Tail(Queue)
  BY SendQueue
<1>2. Queue \in Seq(Command) /\ Len(Queue) = outq_len /\ outq_len \in Nat
  BY QueueType
<1>3. /\ outq_len > 0 /\ outq_rp' = Step(outq_rp, 1) /\ outq_len' = outq_len - 1
      /\ outq_wp' = outq_wp /\ request' = "asked" /\ state' = 1 /\ UpdatePoller
  BY DEF Send
<1>4. Step(outq_rp', outq_len') = outq_wp'
  <2>1. /\ 1 \in Nat /\ outq_len - 1 \in Nat
        /\ 1 + (outq_len - 1) = outq_len /\ 1 + (outq_len - 1) <= OutqLen
    BY <1>2, <1>3, OutqLenAssumption DEF TypeOK
  <2>2. Step(Step(outq_rp, 1), outq_len - 1) = Step(outq_rp, 1 + (outq_len - 1))
    BY <2>1, StepStep DEF TypeOK
  <2> QED BY <2>1, <2>2, <1>3, InvParts
<1>5. /\ Paired(Tail(Queue))
      /\ Head(Queue).kind = "remove-source" =>
           Len(Tail(Queue)) > 0 /\ Tail(Queue)[1] = AddSource(Head(Queue).source)
  <2>1. Paired(Queue)
    BY InvParts
  <2> QED BY <2>1, <1>1, <1>2, PairedTail
<1>6. Tail(Queue) \in Seq(Command) /\ Len(Tail(Queue)) = outq_len'
  BY <1>1, <1>2, <1>3, HeadTailProperties
<1>7. events' = "in" /\ last' \in Command
  BY <1>1, <1>2, <1>3, HeadTailProperties DEF UpdatePoller
<1> QED BY <1>1, <1>3, <1>4, <1>5, <1>6, <1>7, InvPartsNext

LEMMA InvStep == TypeOK /\ TypeOK' /\ Inv /\ [Next]_vars => Inv'
<1> SUFFICES ASSUME TypeOK, TypeOK', Inv, [Next]_vars
             PROVE  Inv'
  OBVIOUS
<1>1. ASSUME NEW s \in Sources, NEW outs \in OutputLists, Put(s, outs)
      PROVE  Inv'
  BY <1>1, InvPut
<1>2. CASE Send
  BY <1>2, InvSend
<1>3. CASE Receive
  BY <1>3 DEF Receive, ring, UpdatePoller, Inv, Queue, NoSourceLeftOut, TypeOK
<1>4. CASE Answer
  BY <1>4 DEF Answer, ring, Inv, Queue, NoSourceLeftOut
<1>5. CASE UNCHANGED vars
  BY <1>5 DEF vars, ring, Inv, Queue, NoSourceLeftOut
<1> QED BY <1>1, <1>2, <1>3, <1>4, <1>5 DEF Next, HandleEvent

\* Pointers and length agree, the poller looks for what the state needs, and
\* each removal is followed by its addition: the inductive invariant.
THEOREM Invariant == Spec => []Inv
BY TypeCorrect, InvInit, InvStep, PTL DEF Spec

\* The handler is never called for an event it has no use for, which would
\* end the thread.
THEOREM NoEventIsSpurious == Spec => []NoSpuriousEvent
<1>1. TypeOK /\ Inv => NoSpuriousEvent
  BY DEF TypeOK, Inv, NoSpuriousEvent
<1> QED BY <1>1, TypeCorrect, Invariant, PTL

\* A source whose removal was sent is the next to be added again.
THEOREM RemovedIsAddedAgain == Spec => []NoSourceLeftOut
<1>1. Inv => NoSourceLeftOut
  BY DEF Inv
<1> QED BY <1>1, Invariant, PTL

\* The ring implements the queue, for rings of every size.
THEOREM ImplementsQueue == Spec => Implements
<1>1. Init => CQ!Init
  BY DEF Init, CQ!Init, Queue
<1>2. TypeOK /\ Inv /\ [Next]_vars
        => [CQ!Next]_<<Queue, IF state = 1 THEN last ELSE NoCommand>>
  <2> SUFFICES ASSUME TypeOK, Inv, [Next]_vars
               PROVE  [CQ!Next]_<<Queue, IF state = 1 THEN last ELSE NoCommand>>
    OBVIOUS
  <2>1. ASSUME NEW s \in Sources, NEW outs \in OutputLists, Put(s, outs)
        PROVE  CQ!Next
    <3>1. Queue' = Queue \o Replacement(s, outs)
      BY <2>1, PutQueue
    <3>2. Len(Queue) + Len(Replacement(s, outs)) <= OutqLen
      <4>1. Len(Replacement(s, outs)) \in Nat
        BY ReplacementType
      <4> QED BY <2>1, <4>1, QueueType, OutqLenAssumption DEF Put
    <3>3. UNCHANGED <<state, last>>
      BY <2>1 DEF Put
    <3>4. CQ!Put(Replacement(s, outs))
      BY <3>1, <3>2, <3>3 DEF CQ!Put
    <3>5. Replacement(s, outs) \in Batches
      BY DEF Batches
    <3> QED BY <3>4, <3>5 DEF CQ!Next
  <2>2. CASE Send
    <3>1. Queue # <<>> /\ last' = Head(Queue) /\ Queue' = Tail(Queue)
      BY <2>2, SendQueue
    <3>2. CQ!Ask
      BY <2>2, <3>1 DEF CQ!Ask, Send
    <3> QED BY <3>2 DEF CQ!Next
  <2>3. CASE Receive
    <3>1. last \in Command
      BY <2>3 DEF Receive, Inv
    <3>2. last # NoCommand
      BY <3>1 DEF Command, NoCommand, RemoveSource, AddSource, AddOutput
    <3> QED BY <2>3, <3>2 DEF Receive, CQ!Next, CQ!Answered, Queue, ring
  <2>4. CASE Answer
    BY <2>4 DEF Answer, Queue, ring
  <2>5. CASE UNCHANGED vars
    BY <2>5 DEF vars, ring, Queue
  <2> QED BY <2>1, <2>2, <2>3, <2>4, <2>5 DEF Next, HandleEvent
<1> QED BY <1>1, <1>2, TypeCorrect, Invariant, PTL DEF Spec, Implements, CQ!Spec
=============================================================================
