------------------------- MODULE DummySourceProofs -------------------------
(***************************************************************************)
(* What the clients of the dummy source get, for every set of clients and  *)
(* every number of messages that may wait for them.                        *)
(***************************************************************************)
EXTENDS DummySource, SequenceTheorems, TLAPS

\* The frames of a message up to a position that is not the first.
Frames(p) == IF p = 1 THEN <<0>> ELSE <<0, 1>>

\* An incomplete message holds the frames from the first one up to the
\* position, the callback that began it is under way, and its client has room.
PipeInv ==
  pipe # <<>> => /\ pc = "sending" /\ began = 0
                 /\ ptype \in 1..2 /\ pipe = Frames(ptype)
                 /\ ~swallowing /\ ~broken
                 /\ Len(queue[to]) < Hwm

\* A client was lost in the middle of a message, and the position tells so.
LostInv ==
  /\ swallowing => pipe = <<>> /\ ~broken /\ ptype \in 1..2
  /\ broken => pipe = <<>> /\ pc = "sending" /\ ptype \in 1..2

\* Otherwise the callback is at the frame it began with, which is the first
\* or the last one.
FreshInv ==
  pipe = <<>> /\ ~swallowing /\ ~broken =>
    ptype # 1 /\ (pc = "sending" => ptype = began)

Inv == PipeInv /\ LostInv /\ FreshInv /\ WholeOrLastFrame

LEMMA FramesAre ==
  /\ Frames(1) = <<0>> /\ Frames(2) = <<0, 1>>
  /\ Append(<<>>, 0) = Frames(1) /\ Append(Frames(1), 1) = Frames(2)
  /\ Append(Frames(2), 2) = Whole /\ Append(<<>>, 2) = <<2>>
  /\ <<0>> # <<>> /\ <<0, 1>> # <<>>
  /\ SubSeq(Whole, 1, 3) = Whole /\ SubSeq(Whole, 3, 3) = <<2>>
<1>1. Frames(1) = <<0>> /\ Frames(2) = <<0, 1>>
  BY DEF Frames
<1>2. Append(<<>>, 0) = <<0>> /\ Append(<<>>, 2) = <<2>>
  OBVIOUS
<1>3. Append(<<0>>, 1) = <<0, 1>>
  <2> DEFINE s == Append(<<0>>, 1)
             t == <<0, 1>>
  <2>1. <<0>> \in Seq(Nat) /\ Len(<<0>>) = 1 /\ <<0>>[1] = 0
    OBVIOUS
  <2>2. t \in Seq(Nat) /\ Len(t) = 2 /\ t[1] = 0 /\ t[2] = 1
    OBVIOUS
  <2>3. s \in Seq(Nat) /\ Len(s) = 2 /\ s[1] = 0 /\ s[2] = 1
    BY <2>1, AppendProperties
  <2> HIDE DEF s, t
  <2>4. \A i \in 1..Len(s) : s[i] = t[i]
    BY <2>2, <2>3
  <2>5. s = t
    BY <2>2, <2>3, <2>4, SeqEqual
  <2> QED BY <2>5 DEF s, t
<1>4. Append(<<0, 1>>, 2) = Whole
  <2> DEFINE s == Append(<<0, 1>>, 2)
             t == <<0, 1, 2>>
  <2>1. <<0, 1>> \in Seq(Nat) /\ Len(<<0, 1>>) = 2 /\ <<0, 1>>[1] = 0 /\ <<0, 1>>[2] = 1
    OBVIOUS
  <2>2. t \in Seq(Nat) /\ Len(t) = 3 /\ t[1] = 0 /\ t[2] = 1 /\ t[3] = 2
    OBVIOUS
  <2>3. s \in Seq(Nat) /\ Len(s) = 3 /\ s[1] = 0 /\ s[2] = 1 /\ s[3] = 2
    BY <2>1, AppendProperties
  <2> HIDE DEF s, t
  <2>4. \A i \in 1..Len(s) : s[i] = t[i]
    BY <2>2, <2>3
  <2>5. s = t
    BY <2>2, <2>3, <2>4, SeqEqual
  <2> QED BY <2>5 DEF s, t, Whole
<1>5. <<0>> # <<>> /\ <<0, 1>> # <<>>
  OBVIOUS
<1>6. Whole \in Seq(Nat) /\ Len(Whole) = 3 /\ Whole[3] = 2
  BY DEF Whole
<1>7. SubSeq(Whole, 1, 3) = Whole
  BY <1>6, SubSeqFull
<1>8. SubSeq(Whole, 3, 3) = <<2>>
  <2> DEFINE s == SubSeq(Whole, 3, 3)
             t == <<2>>
  <2>1. \A i \in 3..3 : Whole[i] \in Nat
    BY <1>6
  <2>2. s \in Seq(Nat) /\ Len(s) = 1 /\ s[1] = Whole[3]
    BY <2>1, SubSeqProperties
  <2>3. t \in Seq(Nat) /\ Len(t) = 1 /\ t[1] = 2
    OBVIOUS
  <2> HIDE DEF s, t
  <2>4. \A i \in 1..Len(s) : s[i] = t[i]
    BY <1>6, <2>2, <2>3
  <2>5. s = t
    BY <2>2, <2>3, <2>4, SeqEqual
  <2> QED BY <2>5 DEF s, t
<1> QED BY <1>1, <1>2, <1>3, <1>4, <1>5, <1>7, <1>8

LEMMA InitInv == Init => TypeOK /\ Inv
<1> SUFFICES ASSUME Init PROVE TypeOK /\ Inv
  OBVIOUS
<1>1. <<>> \in Seq(Seq(Position)) /\ <<>> \in Seq(Position) /\ Len(<<>>) = 0
  BY EmptySeq
<1>2. \A c \in Clients : queue[c] = <<>>
  BY DEF Init
<1>3. \A c \in Clients : Len(queue[c]) <= Hwm
  BY <1>1, <1>2, HwmAssumption
<1>4. TypeOK
  <2>1. queue \in [Clients -> Seq(Seq(Position))]
    BY <1>1 DEF Init
  <2>2. swallowing \in BOOLEAN /\ broken \in BOOLEAN /\ connected \subseteq Clients
    BY Zenon DEF Init
  <2>3. ptype \in Position /\ began \in Position /\ pc \in {"waiting", "sending"}
    BY DEF Init, Position
  <2>4. pipe \in Seq(Position) /\ to \in Clients
    BY <1>1, Zenon DEF Init
  <2> QED BY <1>3, <2>1, <2>2, <2>3, <2>4, Zenon DEF TypeOK
<1>5. WholeOrLastFrame
  BY <1>2 DEF WholeOrLastFrame
<1>6. PipeInv /\ LostInv /\ FreshInv
  BY DEF Init, PipeInv, LostInv, FreshInv
<1> QED BY <1>4, <1>5, <1>6 DEF Inv

\* The messages of a client after one was added, or after the first was taken.
LEMMA Queues ==
  ASSUME TypeOK, NEW c \in Clients
  PROVE  /\ \A m \in Seq(Position) :
              /\ Append(queue[c], m) \in Seq(Seq(Position))
              /\ Len(Append(queue[c], m)) = Len(queue[c]) + 1
              /\ Last(Append(queue[c], m)) = m
              /\ \A k \in DOMAIN Append(queue[c], m) :
                   \/ k \in DOMAIN queue[c] /\ Append(queue[c], m)[k] = queue[c][k]
                   \/ Append(queue[c], m)[k] = m
         /\ queue[c] # <<>> =>
              /\ Tail(queue[c]) \in Seq(Seq(Position))
              /\ Len(Tail(queue[c])) = Len(queue[c]) - 1
              /\ \A k \in DOMAIN Tail(queue[c]) :
                   k + 1 \in DOMAIN queue[c] /\ Tail(queue[c])[k] = queue[c][k + 1]
<1> DEFINE q == queue[c]
<1>1. q \in Seq(Seq(Position)) /\ Len(q) \in Nat /\ DOMAIN q = 1..Len(q)
  BY LenProperties DEF TypeOK
<1> HIDE DEF q
<1>2. ASSUME NEW m \in Seq(Position)
      PROVE  /\ Append(q, m) \in Seq(Seq(Position))
             /\ Len(Append(q, m)) = Len(q) + 1
             /\ Last(Append(q, m)) = m
             /\ \A k \in DOMAIN Append(q, m) :
                  \/ k \in DOMAIN q /\ Append(q, m)[k] = q[k]
                  \/ Append(q, m)[k] = m
  <2>1. /\ Append(q, m) \in Seq(Seq(Position)) /\ Len(Append(q, m)) = Len(q) + 1
        /\ \A i \in 1..Len(q) : Append(q, m)[i] = q[i]
        /\ Append(q, m)[Len(q) + 1] = m
    BY <1>1, AppendProperties
  <2>2. DOMAIN Append(q, m) = 1..Len(q) + 1
    BY <2>1, LenProperties
  <2>3. \A k \in 1..Len(q) + 1 : k \in 1..Len(q) \/ k = Len(q) + 1
    BY <1>1
  <2> QED BY <1>1, <2>1, <2>2, <2>3 DEF Last
<1>3. ASSUME q # <<>>
      PROVE  /\ Tail(q) \in Seq(Seq(Position))
             /\ Len(Tail(q)) = Len(q) - 1
             /\ \A k \in DOMAIN Tail(q) : k + 1 \in DOMAIN q /\ Tail(q)[k] = q[k + 1]
  <2>1. /\ Tail(q) \in Seq(Seq(Position)) /\ Len(Tail(q)) = Len(q) - 1
        /\ \A i \in 1..Len(Tail(q)) : Tail(q)[i] = q[i + 1]
    BY <1>1, <1>3, HeadTailProperties
  <2>2. DOMAIN Tail(q) = 1..Len(q) - 1
    BY <2>1, LenProperties
  <2> QED BY <1>1, <2>1, <2>2
<1> QED BY <1>2, <1>3 DEF q

LEMMA ClientsKeep ==
  ASSUME TypeOK, Inv, NEW c \in Clients,
         ClientComes(c) \/ ClientTakes(c) \/ ClientLeaves(c)
  PROVE  TypeOK' /\ Inv' /\ \A d \in Clients : Len(queue'[d]) <= Len(queue[d])
<1>0. \A d \in Clients : Len(queue[d]) \in Nat
  BY LenProperties DEF TypeOK
<1>1. CASE ClientComes(c)
  BY <1>0, <1>1 DEF ClientComes, source, TypeOK, Inv, PipeInv, LostInv, FreshInv,
     WholeOrLastFrame
<1>2. CASE ClientTakes(c)
  <2>1. /\ queue' = [queue EXCEPT ![c] = Tail(queue[c])] /\ queue[c] # <<>>
        /\ UNCHANGED <<ptype, pc, began, connected, to, pipe, swallowing, broken>>
    BY <1>2 DEF ClientTakes, source
  <2>2. \A d \in Clients : queue'[d] = IF d = c THEN Tail(queue[c]) ELSE queue[d]
    BY <2>1 DEF TypeOK
  <2>3. queue' \in [Clients -> Seq(Seq(Position))]
    BY <2>1, Queues DEF TypeOK
  <2>4. \A d \in Clients : Len(queue'[d]) <= Len(queue[d])
    BY <1>0, <2>1, <2>2, Queues
  <2>5. TypeOK'
    <3>1. \A d \in Clients : Len(queue'[d]) \in Nat
      BY <2>3, LenProperties
    <3> QED BY <1>0, <2>1, <2>3, <2>4, <3>1, HwmAssumption DEF TypeOK
  <2>6. WholeOrLastFrame'
    BY <2>1, <2>2, Queues DEF Inv, WholeOrLastFrame
  <2>7. to' \in Clients /\ Len(queue'[to]) <= Len(queue[to])
    BY <2>1, <2>4 DEF TypeOK
  <2>8. PipeInv'
    <3>1. Hwm \in Int /\ Len(queue[to]) \in Int /\ Len(queue'[to]) \in Int
      BY <1>0, <2>3, <2>7, LenProperties, HwmAssumption DEF TypeOK
    <3> QED BY <2>1, <2>7, <3>1 DEF Inv, PipeInv
  <2> QED BY <2>1, <2>4, <2>5, <2>6, <2>8 DEF Inv, LostInv, FreshInv
<1>3. CASE ClientLeaves(c)
  <2>1. /\ queue' = [queue EXCEPT ![c] = <<>>]
        /\ connected' = connected \ {c}
        /\ UNCHANGED <<ptype, pc, began, to>>
        /\ \/ UNCHANGED <<pipe, swallowing, broken>>
           \/ /\ pipe # <<>> /\ pipe' = <<>>
              /\ \/ swallowing' = TRUE /\ UNCHANGED broken
                 \/ broken' = TRUE /\ UNCHANGED swallowing
    BY <1>3 DEF ClientLeaves, source
  <2>2. \A d \in Clients : queue'[d] = IF d = c THEN <<>> ELSE queue[d]
    BY <2>1 DEF TypeOK
  <2>3. \A d \in Clients : Len(queue'[d]) <= Len(queue[d])
    BY <1>0, <2>2
  <2>4. TypeOK'
    <3>1. queue' \in [Clients -> Seq(Seq(Position))]
      BY <2>1 DEF TypeOK
    <3>2. \A d \in Clients : Len(queue'[d]) <= Hwm
      BY <1>0, <2>2, HwmAssumption DEF TypeOK
    <3>3. pipe' \in Seq(Position)
      BY <2>1, EmptySeq DEF TypeOK
    <3>4. swallowing' \in BOOLEAN /\ broken' \in BOOLEAN
      BY <2>1, Zenon DEF TypeOK
    <3> QED BY <2>1, <3>1, <3>2, <3>3, <3>4 DEF TypeOK
  <2>5. WholeOrLastFrame'
    <3>1. DOMAIN <<>> = {}
      OBVIOUS
    <3> QED BY <2>2, <3>1 DEF Inv, WholeOrLastFrame
  <2>6. PipeInv' /\ LostInv' /\ FreshInv'
    <3>1. pipe' # <<>> => to # c /\ to' = to /\ queue'[to] = queue[to]
      BY <1>3, <2>2 DEF ClientLeaves, TypeOK
    <3> QED BY <2>1, <3>1 DEF Inv, PipeInv, LostInv, FreshInv
  <2> QED BY <2>3, <2>4, <2>5, <2>6 DEF Inv
<1> QED BY <1>1, <1>2, <1>3

\* What a callback adds to a queue is a whole message or a last frame, from
\* where it began.
LEMMA AcceptedKeeps ==
  ASSUME TypeOK, Inv, Accepted
  PROVE  /\ TypeOK' /\ Inv'
         /\ \A c \in Clients :
              Len(queue'[c]) > Len(queue[c]) =>
                began # 1 /\ Last(queue'[c]) = SubSeq(Whole, began + 1, 3)
<1>0. /\ \A d \in Clients : Len(queue[d]) \in Nat
      /\ ptype \in 0..2 /\ pc = "sending" /\ ~broken
      /\ UNCHANGED <<began, connected, broken>>
  BY LenProperties DEF TypeOK, Position, Accepted
<1>1. /\ ptype' = IF ptype = 2 THEN 0 ELSE ptype + 1
      /\ pc' = IF ptype = 2 THEN "waiting" ELSE "sending"
  BY <1>0 DEF Accepted, NextFrame
<1>2. CASE swallowing
  <2>1. swallowing' = (ptype < 2) /\ UNCHANGED <<queue, to, pipe>> /\ pipe = <<>>
    BY <1>2 DEF Accepted, More, Inv, LostInv
  <2>2. TypeOK'
    BY <1>0, <1>1, <2>1 DEF TypeOK, Position
  <2>3. pipe' = <<>> /\ ptype \in 1..2 /\ ~broken'
    BY <1>0, <1>2, <2>1 DEF Inv, LostInv
  <2>4. ASSUME ptype = 1
        PROVE  PipeInv' /\ LostInv' /\ FreshInv'
    <3>1. ptype' = 2 /\ ptype < 2
      BY <1>1, <2>4
    <3>2. swallowing'
      BY <2>1, <3>1, Zenon
    <3> QED BY <2>3, <3>1, <3>2 DEF PipeInv, LostInv, FreshInv
  <2>5. ASSUME ptype = 2
        PROVE  PipeInv' /\ LostInv' /\ FreshInv'
    <3>1. ptype' = 0 /\ pc' = "waiting" /\ ~(ptype < 2)
      BY <1>1, <2>5
    <3>2. ~swallowing'
      BY <2>1, <3>1, Zenon
    <3> QED BY <2>3, <3>1, <3>2 DEF PipeInv, LostInv, FreshInv
  <2>6. PipeInv' /\ LostInv' /\ FreshInv'
    <3>1. ptype = 1 \/ ptype = 2
      BY <2>3
    <3> QED BY <2>4, <2>5, <3>1
  <2>7. WholeOrLastFrame'
    BY <2>1 DEF Inv, WholeOrLastFrame
  <2> QED BY <1>0, <2>1, <2>2, <2>6, <2>7 DEF Inv
<1>3. CASE ~swallowing
  <2>1. /\ to' \in Takers /\ UNCHANGED swallowing
        /\ IF ptype < 2
           THEN pipe' = Append(pipe, ptype) /\ UNCHANGED queue
           ELSE /\ pipe' = <<>>
                /\ queue' = [queue EXCEPT ![to'] = Append(queue[to'], Append(pipe, ptype))]
    BY <1>3 DEF Accepted, More
  <2>2. to' \in Clients /\ Len(queue[to']) < Hwm
    BY <2>1 DEF Takers, TypeOK, Inv, PipeInv
  <2>3. \/ pipe = <<>> /\ ptype \in {0, 2} /\ began = ptype
        \/ pipe = Frames(ptype) /\ ptype \in {1, 2} /\ began = 0
    BY <1>0, <1>3 DEF Inv, PipeInv, FreshInv
  <2>4. CASE ptype < 2
    <3>1. pipe' = Frames(ptype + 1) /\ pipe' # <<>> /\ began = 0
      BY <1>0, <2>1, <2>3, <2>4, FramesAre
    <3>2. pipe' \in Seq(Position)
      <4>1. pipe \in Seq(Position) /\ ptype \in Position
        BY DEF TypeOK
      <4> QED BY <2>1, <2>4, <4>1, AppendProperties
    <3>3. TypeOK'
      BY <1>0, <1>1, <2>1, <2>2, <2>4, <3>2 DEF TypeOK, Position
    <3>4. PipeInv' /\ LostInv' /\ FreshInv'
      BY <1>0, <1>1, <1>3, <2>1, <2>2, <2>4, <3>1 DEF PipeInv, LostInv, FreshInv
    <3>5. WholeOrLastFrame'
      BY <2>1, <2>4 DEF Inv, WholeOrLastFrame
    <3> QED BY <1>0, <2>1, <2>4, <3>3, <3>4, <3>5 DEF Inv
  <2>5. CASE ptype = 2
    <3> DEFINE m == Append(pipe, ptype)
    <3>1. m \in {Whole, <<2>>} /\ began # 1 /\ m = SubSeq(Whole, began + 1, 3)
      <4>1. CASE pipe = <<>> /\ began = 2
        <5>1. m = <<2>> /\ SubSeq(Whole, began + 1, 3) = <<2>>
          BY <2>5, <4>1, FramesAre
        <5>2. began # 1
          BY <4>1
        <5> QED BY <5>1, <5>2, Zenon
      <4>2. CASE pipe = Frames(2) /\ began = 0
        <5>1. m = Whole /\ SubSeq(Whole, began + 1, 3) = Whole
          BY <2>5, <4>2, FramesAre
        <5>2. began # 1
          BY <4>2
        <5> QED BY <5>1, <5>2, Zenon
      <4> QED BY <2>3, <2>5, <4>1, <4>2
    <3>2. m \in Seq(Position)
      BY <1>0, AppendProperties DEF TypeOK, Position
    <3>3. queue' = [queue EXCEPT ![to'] = Append(queue[to'], m)] /\ pipe' = <<>>
      BY <2>1, <2>5
    <3> HIDE DEF m
    <3>4. \A d \in Clients :
            queue'[d] = IF d = to' THEN Append(queue[to'], m) ELSE queue[d]
      BY <2>2, <3>3 DEF TypeOK
    <3>5. queue' \in [Clients -> Seq(Seq(Position))]
      BY <2>2, <3>2, <3>3, Queues DEF TypeOK
    <3>6. /\ Len(Append(queue[to'], m)) = Len(queue[to']) + 1
          /\ Last(Append(queue[to'], m)) = m
          /\ \A k \in DOMAIN Append(queue[to'], m) :
               \/ k \in DOMAIN queue[to'] /\ Append(queue[to'], m)[k] = queue[to'][k]
               \/ Append(queue[to'], m)[k] = m
      BY <2>2, <3>2, Queues
    <3>7. \A d \in Clients : Len(queue'[d]) <= Hwm
      <4> SUFFICES ASSUME NEW d \in Clients PROVE Len(queue'[d]) <= Hwm
        OBVIOUS
      <4>1. CASE d = to'
        <5>1. Len(queue'[d]) = Len(queue[to']) + 1
          BY <3>4, <3>6, <4>1
        <5>2. Len(queue[to']) \in Nat /\ Len(queue[to']) < Hwm /\ Hwm \in Nat
          BY <1>0, <2>2, HwmAssumption
        <5> QED BY <5>1, <5>2
      <4>2. CASE d # to'
        BY <3>4, <4>2 DEF TypeOK
      <4> QED BY <4>1, <4>2
    <3>8. TypeOK'
      BY <1>0, <1>1, <2>1, <2>2, <2>5, <3>3, <3>5, <3>7, EmptySeq DEF TypeOK, Position
    <3>9. PipeInv' /\ LostInv' /\ FreshInv'
      BY <1>0, <1>1, <1>3, <2>1, <2>5, <3>3 DEF PipeInv, LostInv, FreshInv
    <3>10. WholeOrLastFrame'
      BY <3>1, <3>4, <3>6 DEF Inv, WholeOrLastFrame
    <3>11. \A c \in Clients :
              Len(queue'[c]) > Len(queue[c]) =>
                began # 1 /\ Last(queue'[c]) = SubSeq(Whole, began + 1, 3)
      BY <1>0, <3>1, <3>4, <3>6
    <3> QED BY <3>8, <3>9, <3>10, <3>11 DEF Inv
  <2> QED BY <1>0, <2>4, <2>5
<1> QED BY <1>2, <1>3

\* A refusal keeps the position, and adds nothing to a queue.
LEMMA RefusedKeeps ==
  ASSUME TypeOK, Inv, Refused
  PROVE  TypeOK' /\ Inv' /\ UNCHANGED queue
<1>1. /\ pc = "sending" /\ pc' = "waiting" /\ ~broken' /\ broken' \in BOOLEAN
      /\ UNCHANGED <<ptype, began, connected, queue, to, pipe>>
      /\ \/ broken /\ swallowing' = More
         \/ ~broken /\ ~swallowing /\ Takers = {} /\ UNCHANGED swallowing
  BY Zenon DEF Refused
<1>2. pipe = <<>>
  <2>1. broken => pipe = <<>>
    BY DEF Inv, LostInv
  <2>2. Takers = {} => pipe = <<>>
    BY DEF Takers
  <2> QED BY <1>1, <2>1, <2>2
<1>3. WholeOrLastFrame'
  BY <1>1 DEF Inv, WholeOrLastFrame
<1>4. swallowing' \in BOOLEAN
  <2>1. More \in BOOLEAN
    BY DEF More
  <2>2. swallowing \in BOOLEAN
    BY Zenon DEF TypeOK
  <2>3. swallowing' = More \/ swallowing' = swallowing
    BY <1>1, Zenon
  <2> QED BY <2>1, <2>2, <2>3, Zenon
<1>5. TypeOK'
  BY <1>1, <1>4 DEF TypeOK
<1>6. CASE broken /\ swallowing' = More
  <2>1. ptype = 1 \/ ptype = 2
    BY <1>6 DEF Inv, LostInv
  <2>2. swallowing' <=> ptype < 2
    BY <1>6, Zenon DEF More
  <2>3. PipeInv' /\ LostInv' /\ FreshInv'
    BY <1>1, <1>2, <2>1, <2>2 DEF PipeInv, LostInv, FreshInv
  <2> QED BY <1>1, <1>3, <1>5, <2>3 DEF Inv
<1>7. CASE ~broken /\ ~swallowing /\ UNCHANGED swallowing
  <2>1. PipeInv' /\ LostInv' /\ FreshInv'
    BY <1>1, <1>2, <1>7 DEF Inv, PipeInv, LostInv, FreshInv
  <2> QED BY <1>1, <1>3, <1>5, <2>1 DEF Inv
<1> QED BY <1>1, <1>6, <1>7

LEMMA TickKeeps ==
  ASSUME TypeOK, Inv, Tick
  PROVE  TypeOK' /\ Inv' /\ UNCHANGED queue
<1>1. /\ pc = "waiting" /\ pc' = "sending" /\ began' = ptype
      /\ UNCHANGED <<ptype, connected, queue, to, pipe, swallowing, broken>>
  BY DEF Tick, socket
<1>2. TypeOK'
  BY <1>1 DEF TypeOK
<1>3. WholeOrLastFrame'
  BY <1>1 DEF Inv, WholeOrLastFrame
<1>4. PipeInv' /\ LostInv' /\ FreshInv'
  BY <1>1 DEF Inv, PipeInv, LostInv, FreshInv
<1> QED BY <1>1, <1>2, <1>3, <1>4 DEF Inv

\* What a step adds to the queue of a client.
Added ==
  \A c \in Clients :
    Len(queue'[c]) > Len(queue[c]) =>
      began # 1 /\ Last(queue'[c]) = SubSeq(Whole, began + 1, 3)

LEMMA StepInv == TypeOK /\ Inv /\ [Next]_vars => TypeOK' /\ Inv' /\ [Added]_vars
<1> SUFFICES ASSUME TypeOK, Inv, [Next]_vars
             PROVE  TypeOK' /\ Inv' /\ Added
  OBVIOUS
<1>0. \A d \in Clients : Len(queue[d]) \in Nat
  BY LenProperties DEF TypeOK
<1>1. ASSUME TypeOK', \A d \in Clients : Len(queue'[d]) <= Len(queue[d])
      PROVE  Added
  <2>1. \A d \in Clients : Len(queue'[d]) \in Nat
    BY <1>1, LenProperties DEF TypeOK
  <2> QED BY <1>0, <1>1, <2>1 DEF Added
<1>2. ASSUME UNCHANGED queue
      PROVE  \A d \in Clients : Len(queue'[d]) <= Len(queue[d])
  BY <1>0, <1>2
<1>3. CASE Tick
  BY <1>1, <1>2, <1>3, TickKeeps
<1>4. CASE Accepted
  BY <1>4, AcceptedKeeps DEF Added
<1>5. CASE Refused
  BY <1>1, <1>2, <1>5, RefusedKeeps
<1>6. CASE \E c \in Clients : ClientComes(c) \/ ClientTakes(c) \/ ClientLeaves(c)
  BY <1>1, <1>6, ClientsKeep
<1>7. CASE UNCHANGED vars
  <2>1. UNCHANGED <<ptype, pc, began, connected, queue, to, pipe, swallowing, broken>>
    BY <1>7 DEF vars, source, socket
  <2>2. TypeOK' /\ WholeOrLastFrame'
    BY <2>1 DEF TypeOK, Inv, WholeOrLastFrame
  <2>3. PipeInv' /\ LostInv' /\ FreshInv'
    BY <2>1 DEF Inv, PipeInv, LostInv, FreshInv
  <2> QED BY <1>1, <1>2, <2>1, <2>2, <2>3 DEF Inv
<1> QED BY <1>3, <1>4, <1>5, <1>6, <1>7 DEF Next, Thread

\* In every reachable state the variables have their types, and the invariant
\* holds.
THEOREM Invariance == Spec => [](TypeOK /\ Inv)
<1>1. Init => TypeOK /\ Inv
  BY InitInv
<1>2. (TypeOK /\ Inv) /\ [Next]_vars => (TypeOK /\ Inv)'
  BY StepInv
<1> QED BY <1>1, <1>2, PTL DEF Spec

\* The position is one of the message's, and no client is owed more than it
\* has room for.
THEOREM TypeCorrect == Spec => []TypeOK
BY Invariance, PTL

\* Whatever clients come and leave, what they get is a whole message or a
\* last frame.
THEOREM NothingTorn == Spec => []WholeOrLastFrame
<1>1. TypeOK /\ Inv => WholeOrLastFrame
  BY DEF Inv
<1> QED BY <1>1, Invariance, PTL

\* A callback sends the message from where the last one stopped, and never
\* from its middle.
THEOREM SendsOn == Spec => SendsFromWhereItBegan
<1>1. TypeOK /\ Inv /\ [Next]_vars => [Added]_vars
  BY StepInv
<1>2. Spec => [][Added]_vars
  BY <1>1, Invariance, PTL DEF Spec
<1> QED BY <1>2 DEF Added, SendsFromWhereItBegan
=============================================================================
